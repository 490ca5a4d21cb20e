---------------------------- MODULE TxPoolProofs ----------------------------
(***************************************************************************)
(* Proofs about what the pool holds, for any transactions, chains, limits  *)
(* and balances.                                                           *)
(***************************************************************************)
EXTENDS TxPool, TLAPS, FiniteSetTheorems, SequenceTheorems

PoolRec == [pending : SUBSET Tx, queue : SUBSET Tx, all : SUBSET Tx, nonces : [Addr -> Nat],
            changes : Nat, private : SUBSET PrivateTx, locals : SUBSET Addr, asLocal : SUBSET Tx]
StateRec == [chain : Heads, balance : [Addr -> Balances], maxGas : GasLimits]

\* Two transactions compete for one place in a list.
Same(t, u) == t.from = u.from /\ t.nonce = u.nonce
Distinct(S) == \A t, u \in S : Same(t, u) => t = u

\* The lists share nothing and make up the lookup set.
Exact(P) == /\ P.all = P.pending \cup P.queue
            /\ P.pending \cap P.queue = {}
            /\ Distinct(P.all)
PoolOK(P) == P \in PoolRec /\ Exact(P)

\* The fields an operation on the lists leaves alone.
Frame(P, Q) == Q.changes = P.changes /\ Q.locals = P.locals /\ Q.asLocal = P.asLocal

-----------------------------------------------------------------------------
(* Numbers and finite sets *)

\* A non-empty set of numbers has a least element.
LEMMA LeastElement ==
    ASSUME NEW S \in SUBSET Nat, S # {}
    PROVE  \E x \in S : \A y \in S : x <= y
  <1> DEFINE R == {ss \in Nat \X Nat : ss[1] < ss[2]}
  <1>1. IsWellFoundedOn(R, Nat)
    BY NatLessThanWellFounded, Zenon DEF OpToRel
  <1>2. S \subseteq Nat
    OBVIOUS
  <1> HIDE DEF R
  <1>3. \E x \in S : \A y \in S : ~ (<<y, x>> \in R)
    BY <1>1, <1>2, WFMin, Zenon
  <1>4. \A x, y \in S : <<y, x>> \notin R => x <= y
    BY DEF R
  <1> QED
    BY <1>3, <1>4

\* Induction up to n, for the elements of a set.
LEMMA SetInduction ==
    ASSUME NEW n \in Nat, NEW S, 0 \in S, \A i \in 0..(n - 1) : i \in S => i + 1 \in S
    PROVE  \A i \in 0..n : i \in S
  <1> DEFINE B == {i \in 0..n : i \notin S}
  <1>a. B \in SUBSET Nat
    OBVIOUS
  <1>1. ASSUME B # {} PROVE FALSE
    <2>1. PICK x \in B : \A y \in B : x <= y
      <3> HIDE DEF B
      <3> QED
        BY <1>1, <1>a, LeastElement
    <2>2. x - 1 \in 0..(n - 1)
      BY <2>1
    <2>3. x - 1 \in S
      BY <2>1, <2>2
    <2> QED
      BY <2>1, <2>2, <2>3
  <1> QED
    BY <1>1

\* Min is the least element.
LEMMA MinFacts ==
    ASSUME NEW S \in SUBSET Nat, S # {}
    PROVE  Min(S) \in S /\ \A y \in S : Min(S) <= y
  <1>1. \E x \in S : \A y \in S : x <= y
    BY LeastElement
  <1> QED
    BY <1>1 DEF Min

\* A finite set of numbers has an upper bound.
LEMMA Bounded ==
    ASSUME NEW S \in SUBSET Nat, IsFiniteSet(S)
    PROVE  \E b \in Nat : \A x \in S : x <= b
  <1> DEFINE HasBound(T) == \E b \in Nat : \A x \in T : x <= b
             I == {k \in Nat : \A T \in SUBSET Nat :
                           IsFiniteSet(T) /\ Cardinality(T) = k => HasBound(T)}
             n == Cardinality(S)
  <1>1. n \in Nat
    BY FS_CardinalityType
  <1>2. 0 \in I
    BY FS_EmptySet
  <1>3. ASSUME NEW i \in 0..(n - 1), i \in I PROVE i + 1 \in I
    <2> SUFFICES ASSUME NEW T \in SUBSET Nat, IsFiniteSet(T), Cardinality(T) = i + 1
                 PROVE  HasBound(T)
      BY <1>1, <1>3
    <2>0. i \in Nat /\ i + 1 # 0
      BY <1>1
    <2>1. PICK x \in T : TRUE
      BY <2>0, FS_EmptySet
    <2>2. IsFiniteSet(T \ {x}) /\ Cardinality(T \ {x}) = Cardinality(T) - 1
      BY <2>1, FS_RemoveElement
    <2>a. Cardinality(T \ {x}) = i
      BY <2>0, <2>2
    <2>b. HasBound(T \ {x})
      <3>1. \A U \in SUBSET Nat : IsFiniteSet(U) /\ Cardinality(U) = i => HasBound(U)
        BY <1>3
      <3> HIDE DEF HasBound
      <3> QED
        BY <2>2, <2>a, <3>1
    <2>3. PICK b \in Nat : \A y \in T \ {x} : y <= b
      BY <2>b
    <2>4. b + x \in Nat /\ \A y \in T : y <= b + x
      BY <2>1, <2>3
    <2> QED
      BY <2>4
  <1>4. n \in I
    <2> HIDE DEF I, n
    <2>1. \A i \in 0..n : i \in I
      BY <1>1, <1>2, <1>3, SetInduction
    <2> QED
      BY <1>1, <2>1
  <1> QED
    BY <1>4

\* Max is the greatest element of a finite set.
LEMMA MaxFacts ==
    ASSUME NEW S \in SUBSET Nat, S # {}, IsFiniteSet(S)
    PROVE  Max(S) \in S /\ \A y \in S : y <= Max(S)
  <1> DEFINE B == {b \in Nat : \A x \in S : x <= b}
  <1>1. B \in SUBSET Nat /\ B # {}
    BY Bounded
  <1>2. PICK b \in B : \A c \in B : b <= c
    <2> HIDE DEF B
    <2> QED
      BY <1>1, LeastElement
  <1>3. b \in S
    <2>1. SUFFICES ASSUME b \notin S PROVE FALSE
      OBVIOUS
    <2>2. PICK y \in S : TRUE
      OBVIOUS
    <2>3. b \in Nat /\ y <= b /\ y # b /\ y \in Nat
      BY <1>2, <2>1
    <2>4. b - 1 \in B
      BY <1>2, <2>1, <2>3
    <2> QED
      BY <1>2, <2>3, <2>4
  <1>4. \E x \in S : \A y \in S : x >= y
    BY <1>2, <1>3
  <1> QED
    BY <1>4 DEF Max

-----------------------------------------------------------------------------
(* Transactions and chains *)

\* What the surroundings are.
LEMMA EnvFacts ==
    ASSUME env \in Envs
    PROVE  /\ \A t \in Tx : t.from \in Addr /\ t.nonce \in Nat /\ t.price \in Nat /\ t.gas \in Nat
           /\ PrivateTx \subseteq Tx /\ Locals \subseteq Addr /\ IsFiniteSet(Tx)
           /\ {} \in Heads /\ \A c \in Heads : c \subseteq Tx
           /\ Balances \subseteq Nat /\ Prices \subseteq Nat /\ Prices # {}
           /\ GasLimits \subseteq Nat
           /\ GlobalSlots \in Nat \ {0} /\ GlobalQueue \in Nat \ {0}
           /\ AccountSlots \in Nat \ {0} /\ AccountQueue \in Nat \ {0}
  <1> USE TxPoolAssumption
  <1> USE DEF Tx, PrivateTx, Locals, Heads, Balances, Prices, GasLimits, Addr,
             GlobalSlots, GlobalQueue, AccountSlots, AccountQueue
  <1>1. \A t \in Tx : t.from \in Addr /\ t.nonce \in Nat /\ t.price \in Nat /\ t.gas \in Nat
    OBVIOUS
  <1>2. PrivateTx \subseteq Tx /\ Locals \subseteq Addr /\ IsFiniteSet(Tx) /\ {} \in Heads
    OBVIOUS
  <1>3. \A c \in Heads : c \subseteq Tx
    OBVIOUS
  <1>4. Balances \subseteq Nat /\ Prices \subseteq Nat /\ Prices # {}
        /\ GasLimits \subseteq Nat
    OBVIOUS
  <1>5. /\ GlobalSlots \in Nat \ {0} /\ GlobalQueue \in Nat \ {0}
        /\ AccountSlots \in Nat \ {0} /\ AccountQueue \in Nat \ {0}
    OBVIOUS
  <1> QED
    BY <1>1, <1>2, <1>3, <1>4, <1>5

\* Sets of transactions are finite.
LEMMA TxFinite ==
    ASSUME env \in Envs, NEW S \in SUBSET Tx
    PROVE  IsFiniteSet(S) /\ Cardinality(S) \in Nat
  BY EnvFacts, FS_Subset, FS_CardinalityType

\* The nonce of an account is a number.
LEMMA NonceType ==
    ASSUME env \in Envs, NEW c \in SUBSET Tx, NEW a
    PROVE  GetNonce(c, a) \in Nat
  BY TxFinite DEF GetNonce, Of

\* The nonces of some transactions, and the first and the last of them.
LEMMA NonceRange ==
    ASSUME env \in Envs, NEW S \in SUBSET Tx, S # {}
    PROVE  /\ Lowest(S) \in Nat /\ \E t \in S : t.nonce = Lowest(S)
           /\ Highest(S) \in Nat /\ \E t \in S : t.nonce = Highest(S)
           /\ \A t \in S : Lowest(S) <= t.nonce /\ t.nonce <= Highest(S)
  <1> DEFINE N == {t.nonce : t \in S}
             f == [t \in S |-> t.nonce]
  <1>1. N \in SUBSET Nat /\ N # {}
    BY EnvFacts
  <1>2. IsFiniteSet(N)
    <2>1. f \in Surjection(S, N)
      BY DEF Surjection
    <2> QED
      BY <2>1, TxFinite, FS_Surjection
  <1>3. Min(N) \in N /\ \A y \in N : Min(N) <= y
    BY <1>1, MinFacts
  <1>4. Max(N) \in N /\ \A y \in N : y <= Max(N)
    BY <1>1, <1>2, MaxFacts
  <1> QED
    BY <1>1, <1>3, <1>4 DEF Lowest, Highest

-----------------------------------------------------------------------------
(* The operations on the lists *)

\* Nonces m are n, lowered to those of the transactions of S.
LoweredTo(n, m, S) ==
    \A a \in Addr : /\ m[a] <= n[a]
                    /\ \A t \in Of(S, a) : m[a] <= t.nonce
                    /\ m[a] = n[a] \/ \E t \in Of(S, a) : m[a] = t.nonce

\* setIfLower of the virtual nonces.
LEMMA LowerNonces ==
    ASSUME env \in Envs, NEW n \in [Addr -> Nat], NEW S \in SUBSET Tx, NEW m,
           m = [a \in Addr |-> Min({n[a]} \cup {t.nonce : t \in Of(S, a)})]
    PROVE  m \in [Addr -> Nat] /\ LoweredTo(n, m, S)
  <1> SUFFICES ASSUME NEW a \in Addr
               PROVE  /\ m[a] \in Nat /\ m[a] <= n[a]
                      /\ \A t \in Of(S, a) : m[a] <= t.nonce
                      /\ m[a] = n[a] \/ \E t \in Of(S, a) : m[a] = t.nonce
    BY DEF LoweredTo
  <1> DEFINE N == {n[a]} \cup {t.nonce : t \in Of(S, a)}
  <1>1. N \in SUBSET Nat /\ N # {}
    BY EnvFacts DEF Of
  <1>2. m[a] = Min(N)
    OBVIOUS
  <1>3. Min(N) \in N /\ \A y \in N : Min(N) <= y
    BY <1>1, MinFacts
  <1>4. n[a] \in N /\ \A t \in Of(S, a) : t.nonce \in N
    OBVIOUS
  <1> QED
    BY <1>1, <1>2, <1>3, <1>4

Requeue(P, S) == enqueueTx(P, S, FALSE)

\* Queueing known transactions at free places.
LEMMA EnqueueFacts ==
    ASSUME env \in Envs, NEW P \in PoolRec, NEW S \in SUBSET Tx,
           \A t \in S, u \in P.queue : ~Same(t, u), NEW Q, Q = Requeue(P, S)
    PROVE  /\ Q \in PoolRec /\ Frame(P, Q)
           /\ Q.queue = P.queue \cup S /\ Q.all = P.all
           /\ Q.pending = P.pending /\ Q.nonces = P.nonces /\ Q.private = P.private
  <1> DEFINE in == {t \in S : Inserts(P.queue, t)}
             old == {u \in P.queue : At(in, u) # {}}
  <1>1. in = S
    BY DEF Inserts, At, Same
  <1>2. old = {}
    BY <1>1 DEF At, Same
  <1>3. Q = [P EXCEPT !.queue = (@ \ old) \cup in,
                      !.all = (@ \ old) \cup (IF FALSE THEN in ELSE {})]
    BY DEF Requeue, enqueueTx
  <1> HIDE DEF in, old
  <1> DEFINE q == P.queue \cup S
             all == P.all
  <1>4. q \in SUBSET Tx /\ all \in SUBSET Tx
    BY DEF PoolRec
  <1>5. Q = [P EXCEPT !.queue = q, !.all = all]
    BY <1>1, <1>2, <1>3
  <1> HIDE DEF q, all
  <1>6. /\ Q \in PoolRec /\ Q.queue = q /\ Q.all = all /\ Q.pending = P.pending
        /\ Q.nonces = P.nonces /\ Q.private = P.private /\ Q.changes = P.changes
        /\ Q.locals = P.locals /\ Q.asLocal = P.asLocal
    BY <1>4, <1>5 DEF PoolRec
  <1> QED
    BY <1>6 DEF Frame, q, all

\* What removing S takes out of pending: every transaction of it and the
\* later ones of its sender.
Cut(P, S) == {u \in P.pending : \E t \in Of(S \cap P.pending, u.from) : t.nonce <= u.nonce}

\* Removing transactions: what is left of the lookup set is in the queue
\* where it is not pending any more.
Removed(P, S, Q) ==
    /\ PoolOK(Q) /\ Frame(P, Q) /\ Q.private = P.private
    /\ Q.all = P.all \ S
    /\ Q.pending = P.pending \ Cut(P, S)
    /\ LoweredTo(P.nonces, Q.nonces, S \cap P.pending)
    /\ S \cap P.pending = {} => Q.nonces = P.nonces

\* That is what removeTx does.
LEMMA RemoveFacts ==
    ASSUME env \in Envs, NEW P, PoolOK(P), NEW S, NEW Q, Q = removeTx(P, S)
    PROVE  Removed(P, S, Q)
  <1> DEFINE known == S \cap P.all
             hit == {t \in known : At(P.pending, t) # {}}
             cut == {u \in P.pending : \E t \in Of(hit, u.from) : t.nonce <= u.nonce}
             ns == [a \in Addr |-> Min({P.nonces[a]} \cup {t.nonce : t \in Of(hit, a)})]
             R == [P EXCEPT !.all = @ \ known, !.pending = @ \ cut,
                            !.queue = {u \in @ : At(known \ hit, u) = {}}, !.nonces = ns]
             back == {u \in cut : At(known, u) = {}}
  <1>0. /\ P \in PoolRec /\ P.all = P.pending \cup P.queue
        /\ P.pending \cap P.queue = {} /\ Distinct(P.all)
        /\ P.pending \subseteq Tx /\ P.queue \subseteq Tx /\ P.all \subseteq Tx
        /\ P.nonces \in [Addr -> Nat]
    BY DEF PoolOK, Exact, PoolRec
  <1>1. hit = S \cap P.pending
    BY <1>0 DEF At, Distinct, Same
  <1>2. cut = Cut(P, S)
    BY <1>1 DEF Cut
  <1>3. hit \subseteq cut
    BY <1>0, <1>1, EnvFacts DEF Of
  <1>4. back = cut \ S
    BY <1>0 DEF At, Distinct, Same
  <1>5. {u \in P.queue : At(known \ hit, u) = {}} = P.queue \ S
    BY <1>0, <1>1 DEF At, Distinct, Same
  <1>6. ns \in [Addr -> Nat] /\ LoweredTo(P.nonces, ns, hit)
    <2>1. hit \in SUBSET Tx
      BY <1>0
    <2> HIDE DEF hit
    <2> QED
      BY <1>0, <2>1, LowerNonces
  <1>7. Q = Requeue(R, back)
    BY DEF removeTx, Requeue
  <1>8. /\ R \in PoolRec /\ Frame(P, R) /\ R.private = P.private /\ R.nonces = ns
        /\ R.all = P.all \ S /\ R.pending = P.pending \ cut /\ R.queue = P.queue \ S
    <2>1. P.all \ known = P.all \ S
      OBVIOUS
    <2> HIDE DEF ns, cut, hit, known
    <2> QED
      BY <1>0, <1>5, <1>6, <2>1 DEF PoolRec, Frame
  <1>9. back \in SUBSET Tx /\ back \subseteq P.pending
    BY <1>0
  <1>10. \A t \in back, u \in R.queue : ~Same(t, u)
    BY <1>0, <1>8, <1>9 DEF Distinct
  <1> HIDE DEF R, back, ns, hit, cut, known
  <1>11. /\ Q \in PoolRec /\ Frame(R, Q) /\ Q.private = R.private /\ Q.nonces = R.nonces
         /\ Q.all = R.all /\ Q.pending = R.pending /\ Q.queue = R.queue \cup back
    BY <1>7, <1>8, <1>9, <1>10, EnqueueFacts
  <1>12. Exact(Q)
    <2>1. Q.all = Q.pending \cup Q.queue
      BY <1>0, <1>1, <1>3, <1>4, <1>8, <1>11, <1>9
    <2>2. Q.pending \cap Q.queue = {}
      BY <1>0, <1>4, <1>8, <1>11
    <2>3. Distinct(Q.all)
      BY <1>0, <1>8, <1>11 DEF Distinct
    <2> QED
      BY <2>1, <2>2, <2>3 DEF Exact
  <1>13. S \cap P.pending = {} => Q.nonces = P.nonces
    <2>1. ASSUME hit = {} PROVE ns = P.nonces
      <3>1. \A a \in Addr : ns[a] = P.nonces[a]
        BY <1>0, <1>6, <2>1 DEF LoweredTo, Of
      <3> QED
        BY <1>0, <1>6, <3>1
    <2> QED
      BY <1>1, <1>8, <1>11, <2>1
  <1> QED
    BY <1>1, <1>2, <1>6, <1>8, <1>11, <1>12, <1>13 DEF PoolOK, Frame, Removed

\* Nonces m are n, raised to follow the transactions of S.
RaisedTo(n, m, S) ==
    \A a \in Addr : m[a] = IF Of(S, a) = {} THEN n[a] ELSE Highest(Of(S, a)) + 1

\* The nonce after the last transaction of a list.
LEMMA RaiseNonces ==
    ASSUME env \in Envs, NEW n \in [Addr -> Nat], NEW S \in SUBSET Tx, NEW m,
           m = [a \in Addr |-> IF Of(S, a) = {} THEN n[a] ELSE Highest(Of(S, a)) + 1]
    PROVE  m \in [Addr -> Nat] /\ RaisedTo(n, m, S)
  <1>1. \A a \in Addr : Of(S, a) # {} => Highest(Of(S, a)) \in Nat
    <2> SUFFICES ASSUME NEW a \in Addr, Of(S, a) # {} PROVE Highest(Of(S, a)) \in Nat
      OBVIOUS
    <2>1. Of(S, a) \in SUBSET Tx
      BY DEF Of
    <2> QED
      BY <2>1, NonceRange
  <1> QED
    BY <1>1 DEF RaisedTo

\* Promoting known transactions to free places.
LEMMA PromoteFacts ==
    ASSUME env \in Envs, NEW P \in PoolRec, NEW S \in SUBSET Tx,
           \A t \in S, u \in P.pending : ~Same(t, u), NEW Q, Q = promoteTx(P, S)
    PROVE  /\ Q \in PoolRec /\ Frame(P, Q) /\ Q.private = P.private
           /\ Q.pending = P.pending \cup S /\ Q.queue = P.queue /\ Q.all = P.all
           /\ RaisedTo(P.nonces, Q.nonces, S)
  <1> DEFINE in == {t \in S : Inserts(P.pending, t)}
             old == {u \in P.pending : At(in, u) # {}}
             ns(T) == [a \in Addr |-> IF Of(T, a) = {} THEN P.nonces[a]
                                      ELSE Highest(Of(T, a)) + 1]
  <1>1. in = S
    BY DEF Inserts, At, Same
  <1>2. old = {}
    BY <1>1 DEF At, Same
  <1>3. Q = [P EXCEPT !.pending = (@ \ old) \cup in, !.all = (@ \ old) \ (S \ in),
                      !.nonces = ns(in)]
    BY DEF promoteTx
  <1> HIDE DEF in, old
  <1>4. P.nonces \in [Addr -> Nat]
    BY DEF PoolRec
  <1>5. ns(S) \in [Addr -> Nat] /\ RaisedTo(P.nonces, ns(S), S)
    BY <1>4, RaiseNonces
  <1> DEFINE p == P.pending \cup S
             mm == ns(S)
  <1>6. p \in SUBSET Tx /\ mm \in [Addr -> Nat]
    BY <1>5 DEF PoolRec
  <1>7. Q = [P EXCEPT !.pending = p, !.all = P.all, !.nonces = mm]
    BY <1>1, <1>2, <1>3, ZenonT(30)
  <1> HIDE DEF p, mm
  <1>8. /\ Q \in PoolRec /\ Q.queue = P.queue /\ Q.all = P.all /\ Q.pending = p
        /\ Q.nonces = mm /\ Q.private = P.private /\ Q.changes = P.changes
        /\ Q.locals = P.locals /\ Q.asLocal = P.asLocal
    BY <1>6, <1>7 DEF PoolRec
  <1> QED
    BY <1>5, <1>8 DEF Frame, p, mm

\* Ready returns a run of nonces that starts at the given one or below and is
\* as long as it can be.
LEMMA ReadyFacts ==
    ASSUME env \in Envs, NEW S \in SUBSET Tx, NEW n \in Nat, NEW R, R = Ready(S, n)
    PROVE  /\ R \subseteq S
           /\ R # {} => /\ Lowest(S) \in Nat /\ Lowest(S) <= n
                        /\ {t.nonce : t \in R} = Lowest(S) .. Highest(R)
                        /\ \A t \in S : t.nonce # Highest(R) + 1
  <1>1. R \subseteq S
    BY DEF Ready
  <1>2. SUFFICES ASSUME R # {}
                 PROVE  /\ Lowest(S) \in Nat /\ Lowest(S) <= n
                        /\ {t.nonce : t \in R} = Lowest(S) .. Highest(R)
                        /\ \A t \in S : t.nonce # Highest(R) + 1
    BY <1>1
  <1>3. S # {} /\ ~(Lowest(S) > n)
    BY <1>2 DEF Ready
  <1>4. R = {t \in S : \A k \in Lowest(S) .. t.nonce : \E u \in S : u.nonce = k}
    BY <1>3 DEF Ready
  <1>5. Lowest(S) \in Nat /\ \A t \in S : t.nonce \in Nat /\ Lowest(S) <= t.nonce
    BY <1>3, NonceRange, EnvFacts
  <1>6. R \in SUBSET Tx
    BY <1>1
  <1>7. /\ Highest(R) \in Nat /\ \A t \in R : t.nonce <= Highest(R)
        /\ \E t \in R : t.nonce = Highest(R)
    BY <1>2, <1>6, NonceRange
  <1>8. ASSUME NEW k \in Lowest(S) .. Highest(R) PROVE \E u \in R : u.nonce = k
    <2>1. PICK t \in R : t.nonce = Highest(R)
      BY <1>7
    <2>2. \A j \in Lowest(S) .. Highest(R) : \E u \in S : u.nonce = j
      BY <1>4, <2>1
    <2>3. PICK u \in S : u.nonce = k
      BY <2>2
    <2>4. \A j \in Lowest(S) .. k : j \in Lowest(S) .. Highest(R)
      BY <1>5, <1>7
    <2> QED
      BY <1>4, <2>2, <2>3, <2>4
  <1>9. \A t \in R : t.nonce \in Lowest(S) .. Highest(R)
    BY <1>1, <1>5, <1>7
  <1>10. {t.nonce : t \in R} = Lowest(S) .. Highest(R)
    BY <1>8, <1>9
  <1>11. ASSUME NEW t \in S, t.nonce = Highest(R) + 1 PROVE FALSE
    <2>1. \A k \in Lowest(S) .. t.nonce : k \in Lowest(S) .. Highest(R) \/ k = t.nonce
      BY <1>5, <1>7, <1>11
    <2>2. \A k \in Lowest(S) .. t.nonce : \E u \in S : u.nonce = k
      BY <1>1, <1>8, <2>1
    <2>3. t \in R
      BY <1>4, <2>2
    <2> QED
      BY <1>5, <1>7, <1>11, <2>3
  <1> QED
    BY <1>3, <1>5, <1>10, <1>11

\* A list, if not empty, has a run of nonces that starts at n or below.
StartsBy(R, n) == R # {} => \E k \in Nat : k <= n /\ {t.nonce : t \in R} = k .. Highest(R)

\* Why a transaction may leave the pool other than for its price.
Spent(t, s) == t.nonce < GetNonce(s.chain, t.from) \/ Filter(t, s)

\* Nothing in S continues the run of R.
Longest(R, S) == R # {} => \A t \in S : t.nonce # Highest(R) + 1

\* Promotion moves runs of nonces from the queue to pending, and drops what
\* the state does not accept and what is over the limit of a remote account.
Promoted(P, A, s, Q) ==
    /\ PoolOK(Q) /\ Frame(P, Q) /\ Q.private = P.private
    /\ P.pending \subseteq Q.pending /\ Q.queue \subseteq P.queue /\ Q.all \subseteq P.all
    /\ \A t \in P.all \ Q.all : t.from \notin P.locals \/ Spent(t, s)
    /\ \A t \in Q.queue : t.from \in A => ~Spent(t, s)
    /\ \A t \in Q.pending \ P.pending : t.from \in A /\ ~Spent(t, s)
    /\ RaisedTo(P.nonces, Q.nonces, Q.pending \ P.pending)
    /\ \A a \in Addr : StartsBy(Of(Q.pending \ P.pending, a), P.nonces[a])
    /\ \A a \in Addr : Longest(Of(Q.pending \ P.pending, a),
                               {t \in Of(P.queue, a) : ~Spent(t, s)})

\* That is what promoteExecutables does.
LEMMA ExecFacts ==
    ASSUME env \in Envs, NEW P, PoolOK(P), NEW A \in SUBSET Addr, NEW s \in StateRec,
           NEW Q, Q = promoteExecutables(P, A, s)
    PROVE  Promoted(P, A, s, Q)
  <1> DEFINE list == {t \in P.queue : t.from \in A}
             gone == {t \in list : t.nonce < GetNonce(s.chain, t.from)
                                     \/ Filter(t, s)}
             ready == UNION {Ready(Of(list \ gone, a), P.nonces[a]) : a \in A}
             R == [P EXCEPT !.queue = (@ \ gone) \ ready, !.all = @ \ gone]
             U == promoteTx(R, ready)
             caps == UNION {Cap(Of(U.queue, a), AccountQueue) : a \in A \ P.locals}
  <1>0. /\ P \in PoolRec /\ P.all = P.pending \cup P.queue
        /\ P.pending \cap P.queue = {} /\ Distinct(P.all)
        /\ P.pending \subseteq Tx /\ P.queue \subseteq Tx /\ P.all \subseteq Tx
        /\ P.nonces \in [Addr -> Nat]
    BY DEF PoolOK, Exact, PoolRec
  <1>1. Q = [U EXCEPT !.queue = @ \ caps, !.all = @ \ caps]
    BY DEF promoteExecutables
  <1>2. gone \subseteq list /\ list \subseteq P.queue /\ \A t \in list : t \in gone <=> Spent(t, s)
    BY DEF Spent
  <1> DEFINE rd(a) == Ready(Of(list \ gone, a), P.nonces[a])
  <1>3. \A a \in A : /\ rd(a) \subseteq Of(list \ gone, a) /\ StartsBy(rd(a), P.nonces[a])
                    /\ Longest(rd(a), Of(list \ gone, a))
    <2> SUFFICES ASSUME NEW a \in A
                 PROVE  /\ rd(a) \subseteq Of(list \ gone, a) /\ StartsBy(rd(a), P.nonces[a])
                        /\ Longest(rd(a), Of(list \ gone, a))
      OBVIOUS
    <2>1. Of(list \ gone, a) \in SUBSET Tx /\ P.nonces[a] \in Nat
      BY <1>0 DEF Of
    <2> DEFINE L == Of(list \ gone, a)
               n == P.nonces[a]
               r == Ready(L, n)
    <2>2. L \in SUBSET Tx /\ n \in Nat
      BY <2>1
    <2> HIDE DEF L, n, list, gone
    <2>3. /\ r \subseteq L
          /\ r # {} => /\ Lowest(L) \in Nat /\ Lowest(L) <= n
                       /\ {t.nonce : t \in r} = Lowest(L) .. Highest(r)
                       /\ \A t \in L : t.nonce # Highest(r) + 1
      BY <2>2, ReadyFacts
    <2>4. r \subseteq L /\ StartsBy(r, n) /\ Longest(r, L)
      <3> HIDE DEF r
      <3> QED
        BY <2>3 DEF StartsBy, Longest
    <2> QED
      BY <2>4 DEF L, n
  <1>3a. \A a \in A : \A t \in rd(a) : t \in list \ gone /\ t.from = a
    <2> HIDE DEF rd, list, gone
    <2> QED
      BY <1>3 DEF Of
  <1>3b. ready = UNION {rd(a) : a \in A}
    OBVIOUS
  <1> HIDE DEF rd, ready, list, gone
  <1>4. ready \subseteq list \ gone
    BY <1>3a, <1>3b
  <1>5. ASSUME NEW a \in A PROVE Of(ready, a) = rd(a)
    <2>1. \A t \in ready : t.from = a => t \in rd(a)
      BY <1>3a, <1>3b
    <2>2. \A t \in rd(a) : t \in ready /\ t.from = a
      BY <1>3a, <1>3b
    <2> QED
      BY <2>1, <2>2 DEF Of
  <1>5a. ASSUME NEW a \in Addr, a \notin A PROVE Of(ready, a) = {}
    BY <1>3a, <1>3b, <1>5a DEF Of
  <1>6. ASSUME NEW a \in Addr
        PROVE  /\ StartsBy(Of(ready, a), P.nonces[a])
               /\ Longest(Of(ready, a), {t \in Of(P.queue, a) : ~Spent(t, s)})
    <2>1. CASE a \in A
      <3>1. \A t \in P.queue : t.from \in A => t \in list
        BY DEF list
      <3>2. {t \in Of(P.queue, a) : ~Spent(t, s)} \subseteq Of(list \ gone, a)
        BY <1>2, <2>1, <3>1 DEF Of
      <3>3. StartsBy(rd(a), P.nonces[a]) /\ Longest(rd(a), Of(list \ gone, a))
        BY <1>3, <2>1
      <3>4. Longest(rd(a), {t \in Of(P.queue, a) : ~Spent(t, s)})
        BY <3>2, <3>3 DEF Longest
      <3> QED
        BY <1>5, <2>1, <3>3, <3>4
    <2>2. CASE a \notin A
      BY <1>5a, <2>2 DEF StartsBy, Longest
    <2> QED
      BY <2>1, <2>2
  <1> DEFINE q1 == (P.queue \ gone) \ ready
             a1 == P.all \ gone
  <1>7. q1 \in SUBSET Tx /\ a1 \in SUBSET Tx /\ ready \in SUBSET Tx
    BY <1>0, <1>2, <1>4
  <1>8. R = [P EXCEPT !.queue = q1, !.all = a1]
    OBVIOUS
  <1> HIDE DEF R, q1, a1
  <1>9. /\ R \in PoolRec /\ Frame(P, R) /\ R.private = P.private /\ R.nonces = P.nonces
        /\ R.all = a1 /\ R.pending = P.pending /\ R.queue = q1
    BY <1>0, <1>7, <1>8 DEF PoolRec, Frame
  <1>10. \A t \in ready, u \in R.pending : ~Same(t, u)
    BY <1>0, <1>2, <1>4, <1>9 DEF Distinct
  <1>11. /\ U \in PoolRec /\ Frame(R, U) /\ U.private = R.private
         /\ U.pending = R.pending \cup ready /\ U.queue = R.queue /\ U.all = R.all
         /\ RaisedTo(R.nonces, U.nonces, ready)
    BY <1>7, <1>9, <1>10, PromoteFacts
  <1> HIDE DEF U
  <1>12. caps \subseteq U.queue /\ \A t \in caps : t.from \notin P.locals
    BY DEF Cap, Of
  <1> HIDE DEF caps
  <1> DEFINE q2 == U.queue \ caps
             a2 == U.all \ caps
  <1>13. q2 \in SUBSET Tx /\ a2 \in SUBSET Tx
    BY <1>11 DEF PoolRec
  <1>14. Q = [U EXCEPT !.queue = q2, !.all = a2]
    BY <1>1
  <1> HIDE DEF q2, a2
  <1>15. /\ Q \in PoolRec /\ Frame(U, Q) /\ Q.private = U.private /\ Q.nonces = U.nonces
         /\ Q.all = a2 /\ Q.pending = U.pending /\ Q.queue = q2
    BY <1>11, <1>13, <1>14 DEF PoolRec, Frame
  <1>16. Q.queue = (((P.queue \ gone) \ ready) \ caps) /\ Q.all = ((P.all \ gone) \ caps)
    BY <1>9, <1>11, <1>15 DEF a1, q1, a2, q2
  <1>17. Q.pending = P.pending \cup ready /\ caps \subseteq (P.queue \ gone) \ ready
    BY <1>9, <1>11, <1>12, <1>15 DEF q1
  <1>18. Exact(Q)
    <2>1. Q.all = Q.pending \cup Q.queue
      BY <1>0, <1>2, <1>4, <1>16, <1>17
    <2>2. Q.pending \cap Q.queue = {}
      BY <1>0, <1>2, <1>4, <1>16, <1>17
    <2>3. Distinct(Q.all)
      BY <1>0, <1>16 DEF Distinct
    <2> QED
      BY <2>1, <2>2, <2>3 DEF Exact
  <1>19. Q.pending \ P.pending = ready
    BY <1>0, <1>2, <1>4, <1>17
  <1>20. Frame(P, Q) /\ Q.private = P.private
    BY <1>9, <1>11, <1>15 DEF Frame
  <1>21. RaisedTo(P.nonces, Q.nonces, ready)
    BY <1>9, <1>11, <1>15
  <1>22. \A t \in P.all \ Q.all : t.from \notin P.locals \/ Spent(t, s)
    BY <1>2, <1>12, <1>16
  <1>23. \A t \in P.queue : t.from \in A => t \in list
    BY DEF list
  <1>24. \A t \in list : t.from \in A
    BY DEF list
  <1>25. \A t \in Q.queue : t.from \in A => ~Spent(t, s)
    BY <1>2, <1>16, <1>23
  <1>26. \A t \in ready : t.from \in A /\ ~Spent(t, s)
    BY <1>2, <1>4, <1>24
  <1>27. P.pending \subseteq Q.pending /\ Q.queue \subseteq P.queue /\ Q.all \subseteq P.all
    BY <1>16, <1>17
  <1> QED
    BY <1>6, <1>15, <1>18, <1>19, <1>20, <1>21, <1>22, <1>25, <1>26, <1>27 DEF PoolOK, Promoted

\* Demotion keeps of an account what is below its first unpayable one, if the
\* state accepts its first; the rest goes back to the queue.
Demoted(P, s, Q) ==
    /\ PoolOK(Q) /\ Frame(P, Q) /\ Q.nonces = P.nonces
    /\ Q.private = P.private \ {t \in P.pending : t.nonce < GetNonce(s.chain, t.from)}
    /\ P.queue \subseteq Q.queue /\ Q.all \subseteq P.all
    /\ \A t \in P.all \ Q.all : t \in P.pending /\ Spent(t, s)
    /\ \A t \in Q.all : t \in P.queue \/ ~Spent(t, s)
    /\ \A t \in P.pending :
          t \in Q.pending <=>
             /\ t.nonce >= GetNonce(s.chain, t.from)
             /\ \A u \in Of(P.pending, t.from) :
                   u.nonce >= GetNonce(s.chain, u.from) /\ Filter(u, s)
                      => t.nonce < u.nonce
             /\ \E u \in Of(Q.pending, t.from) : u.nonce = GetNonce(s.chain, t.from)
    /\ Q.pending \subseteq P.pending

\* That is what demoteUnexecutables does.
LEMMA DemoteFacts ==
    ASSUME env \in Envs, NEW P, PoolOK(P), NEW s \in StateRec,
           NEW Q, Q = demoteUnexecutables(P, s)
    PROVE  Demoted(P, s, Q)
  <1> DEFINE base(t) == GetNonce(s.chain, t.from)
             olds == {t \in P.pending : t.nonce < GetNonce(s.chain, t.from)}
             drops == {t \in P.pending \ olds : Filter(t, s)}
             left == {t \in P.pending \ olds : \A d \in Of(drops, t.from) : t.nonce < d.nonce}
             kept == {t \in left : \E u \in Of(left, t.from) : u.nonce = GetNonce(s.chain, t.from)}
             back == ((P.pending \ olds) \ drops) \ kept
             R == [P EXCEPT !.pending = kept, !.all = (@ \ olds) \ drops, !.private = @ \ olds]
  <1>0. /\ P \in PoolRec /\ P.all = P.pending \cup P.queue
        /\ P.pending \cap P.queue = {} /\ Distinct(P.all)
        /\ P.pending \subseteq Tx /\ P.queue \subseteq Tx /\ P.all \subseteq Tx
        /\ P.private \subseteq PrivateTx /\ s.chain \subseteq Tx
    BY EnvFacts DEF PoolOK, Exact, PoolRec, StateRec
  <1>1. \A t \in P.pending : t.nonce \in Nat /\ GetNonce(s.chain, t.from) \in Nat
    BY <1>0, EnvFacts, NonceType
  <1>2. \A t \in drops : t \notin left
    BY <1>1 DEF Of
  <1>3. olds \subseteq P.pending /\ drops \subseteq P.pending \ olds
    OBVIOUS
  <1>4. kept \subseteq left /\ left \subseteq (P.pending \ olds) \ drops
    BY <1>2
  <1>5. \A t \in left : t \in kept <=> \E u \in Of(kept, t.from) : u.nonce = GetNonce(s.chain, t.from)
    BY DEF Of
  <1>6. \A t \in P.pending : t \in left <=>
             /\ t.nonce >= GetNonce(s.chain, t.from)
             /\ \A u \in Of(P.pending, t.from) :
                   u.nonce >= GetNonce(s.chain, u.from) /\ Filter(u, s)
                             => t.nonce < u.nonce
    <2>1. \A t \in P.pending : t \in olds <=> ~(t.nonce >= GetNonce(s.chain, t.from))
      BY <1>1
    <2>2. \A t \in P.pending : t \in drops <=> t.nonce >= GetNonce(s.chain, t.from)
                                                /\ Filter(t, s)
      BY <2>1
    <2>3. \A t \in P.pending : t \in left <=> t \notin olds /\ \A u \in Of(drops, t.from) : t.nonce < u.nonce
      OBVIOUS
    <2> HIDE DEF left, drops, olds
    <2> QED
      BY <1>3, <2>1, <2>2, <2>3 DEF Of
  <1>7. \A t \in P.pending : t \in olds \/ t \in drops => Spent(t, s)
    BY DEF Spent
  <1>8. \A t \in P.pending : t \notin olds /\ t \notin drops => ~Spent(t, s)
    BY DEF Spent
  <1>9. Q = Requeue(R, back)
    BY DEF demoteUnexecutables, Requeue
  <1> HIDE DEF olds, drops, left, kept
  <1> DEFINE a1 == (P.all \ olds) \ drops
             v1 == P.private \ olds
  <1>10. kept \in SUBSET Tx /\ a1 \in SUBSET Tx /\ v1 \in SUBSET PrivateTx /\ back \in SUBSET Tx
    BY <1>0, <1>4
  <1>11. R = [P EXCEPT !.pending = kept, !.all = a1, !.private = v1]
    OBVIOUS
  <1> HIDE DEF R, a1, v1
  <1>12. /\ R \in PoolRec /\ Frame(P, R) /\ R.private = v1 /\ R.nonces = P.nonces
         /\ R.all = a1 /\ R.pending = kept /\ R.queue = P.queue
    BY <1>0, <1>10, <1>11 DEF PoolRec, Frame
  <1>13. \A t \in back, u \in R.queue : ~Same(t, u)
    BY <1>0, <1>12 DEF Distinct
  <1> HIDE DEF back
  <1>14. /\ Q \in PoolRec /\ Frame(R, Q) /\ Q.private = R.private /\ Q.nonces = R.nonces
         /\ Q.all = R.all /\ Q.pending = R.pending /\ Q.queue = R.queue \cup back
    BY <1>9, <1>10, <1>12, <1>13, EnqueueFacts
  <1>15. /\ Q.all = (P.all \ olds) \ drops /\ Q.pending = kept
         /\ Q.queue = P.queue \cup (((P.pending \ olds) \ drops) \ kept)
    BY <1>12, <1>14 DEF a1, back
  <1>16. Exact(Q)
    <2>1. Q.all = Q.pending \cup Q.queue
      BY <1>0, <1>3, <1>4, <1>15
    <2>2. Q.pending \cap Q.queue = {}
      BY <1>0, <1>3, <1>4, <1>15
    <2>3. Distinct(Q.all)
      BY <1>0, <1>15 DEF Distinct
    <2> QED
      BY <2>1, <2>2, <2>3 DEF Exact
  <1>17. Frame(P, Q) /\ Q.nonces = P.nonces
    BY <1>12, <1>14 DEF Frame
  <1>18. Q.private = P.private \ {t \in P.pending : t.nonce < GetNonce(s.chain, t.from)}
    BY <1>12, <1>14 DEF v1, olds
  <1>19. P.queue \subseteq Q.queue /\ Q.all \subseteq P.all
    BY <1>15
  <1>20. \A t \in P.all \ Q.all : t \in P.pending /\ Spent(t, s)
    BY <1>3, <1>7, <1>15
  <1>21. \A t \in Q.all : t \in P.queue \/ ~Spent(t, s)
    BY <1>0, <1>3, <1>8, <1>15
  <1>22. Q.pending \subseteq P.pending
    BY <1>4, <1>15
  <1>23. \A t \in P.pending : t \in Q.pending <=>
                    t \in left /\ \E u \in Of(Q.pending, t.from) : u.nonce = GetNonce(s.chain, t.from)
    BY <1>4, <1>5, <1>15
  <1> QED
    BY <1>6, <1>14, <1>16, <1>17, <1>18, <1>19, <1>20, <1>21, <1>22, <1>23 DEF PoolOK, Demoted

\* setAll derives every virtual nonce from pending and the state.
Renonced(P, s, Q) ==
    /\ PoolOK(Q) /\ Frame(P, Q) /\ Q.private = P.private
    /\ Q.all = P.all /\ Q.pending = P.pending /\ Q.queue = P.queue
    /\ \A a \in Addr : Q.nonces[a] = IF Of(P.pending, a) = {} THEN GetNonce(s.chain, a)
                                     ELSE Highest(Of(P.pending, a)) + 1

\* That is what setAll does.
LEMMA SetAllFacts ==
    ASSUME env \in Envs, NEW P, PoolOK(P), NEW s \in StateRec, NEW Q, Q = setAll(P, s)
    PROVE  Renonced(P, s, Q)
  <1> DEFINE ns == [a \in Addr |-> IF Of(P.pending, a) = {} THEN GetNonce(s.chain, a)
                                   ELSE Highest(Of(P.pending, a)) + 1]
             n == [a \in Addr |-> GetNonce(s.chain, a)]
  <1>1. P \in PoolRec /\ P.pending \in SUBSET Tx /\ s.chain \in SUBSET Tx
    BY EnvFacts DEF PoolOK, PoolRec, StateRec
  <1>2. n \in [Addr -> Nat]
    BY <1>1, NonceType
  <1>3. ns = [a \in Addr |-> IF Of(P.pending, a) = {} THEN n[a]
                             ELSE Highest(Of(P.pending, a)) + 1]
    OBVIOUS
  <1>4. ns \in [Addr -> Nat]
    <2> HIDE DEF ns, n
    <2> QED
      BY <1>1, <1>2, <1>3, RaiseNonces
  <1>5. Q = [P EXCEPT !.nonces = ns]
    BY DEF setAll
  <1>6. \A a \in Addr : ns[a] = IF Of(P.pending, a) = {} THEN GetNonce(s.chain, a)
                                ELSE Highest(Of(P.pending, a)) + 1
    OBVIOUS
  <1> HIDE DEF ns
  <1>7. /\ Q \in PoolRec /\ Frame(P, Q) /\ Q.private = P.private /\ Q.nonces = ns
        /\ Q.all = P.all /\ Q.pending = P.pending /\ Q.queue = P.queue
    BY <1>1, <1>4, <1>5 DEF PoolRec, Frame
  <1> QED
    BY <1>6, <1>7 DEF PoolOK, Exact, Renonced

\* Only what a transaction was added as local of is forgotten with it.
Recalled(P, Q) ==
    /\ PoolOK(Q) /\ Q.private = P.private /\ Q.nonces = P.nonces
    /\ Q.all = P.all /\ Q.pending = P.pending /\ Q.queue = P.queue
    /\ Q.changes = P.changes /\ Q.locals = P.locals
    /\ Q.asLocal = P.asLocal \cap P.all

\* That is what Known does.
LEMMA KnownFacts ==
    ASSUME NEW P, PoolOK(P), NEW Q, Q = Known(P)
    PROVE  Recalled(P, Q)
  BY DEF PoolOK, PoolRec, Exact, Known, Recalled

\* truncatePending takes the last transactions of remote accounts away.
PendingCut(P, Q) ==
    /\ PoolOK(Q) /\ Frame(P, Q) /\ Q.private = P.private
    /\ Q.all \subseteq P.all /\ Q.pending \subseteq P.pending /\ Q.queue = P.queue
    /\ \A t \in P.all \ Q.all : t \in P.pending /\ t.from \notin P.locals
    /\ LoweredTo(P.nonces, Q.nonces, P.pending \ Q.pending)
    /\ \A t \in P.pending \ Q.pending :
          \A u \in Of(P.pending, t.from) : t.nonce <= u.nonce => u \notin Q.pending

\* That is what truncatePending does.
LEMMA TruncatePendingFacts ==
    ASSUME env \in Envs, NEW P, PoolOK(P), NEW Q, Q = truncatePending(P)
    PROVE  PendingCut(P, Q)
  <1> DEFINE spammers == {a \in Addr \ P.locals : Cardinality(Of(P.pending, a)) > AccountSlots}
             Above(level) == UNION {Cap(Of(P.pending, a), level) : a \in spammers}
             fits == {n \in AccountSlots .. Cardinality(P.pending) :
                        Cardinality(P.pending) - Cardinality(Above(n)) <= GlobalSlots}
             level == Max({AccountSlots} \cup fits)
             caps == Above(level)
             ns == [a \in Addr |-> Min({P.nonces[a]} \cup {t.nonce : t \in Of(caps, a)})]
  <1>0. /\ P \in PoolRec /\ P.all = P.pending \cup P.queue
        /\ P.pending \cap P.queue = {} /\ Distinct(P.all)
        /\ P.pending \subseteq Tx /\ P.queue \subseteq Tx /\ P.all \subseteq Tx
        /\ P.nonces \in [Addr -> Nat]
    BY DEF PoolOK, Exact, PoolRec
  <1>1. Q = [P EXCEPT !.pending = @ \ caps, !.all = @ \ caps, !.nonces = ns]
    BY DEF truncatePending
  <1>2. AccountSlots \in Nat
    BY EnvFacts
  <1>3. level \in Nat
    <2>1. fits \subseteq AccountSlots .. Cardinality(P.pending) /\ Cardinality(P.pending) \in Nat
      BY <1>0, TxFinite
    <2> HIDE DEF fits
    <2>2. IsFiniteSet(fits)
      <3>1. IsFiniteSet(AccountSlots .. Cardinality(P.pending))
        BY <1>2, <2>1, FS_Interval
      <3> QED
        BY <2>1, <3>1, FS_Subset
    <2>3. {AccountSlots} \cup fits \in SUBSET Nat /\ {AccountSlots} \cup fits # {}
      BY <1>2, <2>1
    <2>4. IsFiniteSet({AccountSlots} \cup fits)
      BY <2>2, FS_Singleton, FS_Union
    <2>5. level \in {AccountSlots} \cup fits
      BY <2>3, <2>4, MaxFacts
    <2> QED
      BY <2>3, <2>5
  <1>4. caps \subseteq P.pending /\ \A t \in caps : t.from \notin P.locals
    <2> HIDE DEF level
    <2> QED
      BY DEF Cap, Of
  <1>5. ASSUME NEW t \in caps, NEW u \in Of(P.pending, t.from), t.nonce <= u.nonce
        PROVE  u \in caps
    <2> DEFINE L == Of(P.pending, t.from)
               Below(v) == {w \in L : w.nonce < v.nonce}
    <2>1. t \in L /\ t.from \in spammers /\ Cardinality(Below(t)) >= level
      <3> HIDE DEF level
      <3> QED
        BY DEF Cap, Of
    <2>2. \A w \in L : w.nonce \in Nat
      BY <1>0, EnvFacts DEF Of
    <2>3. Below(t) \subseteq Below(u)
      BY <1>5, <2>1, <2>2
    <2>4. Below(t) \in SUBSET Tx /\ Below(u) \in SUBSET Tx
      BY <1>0 DEF Of
    <2>5. /\ Cardinality(Below(t)) \in Nat /\ Cardinality(Below(u)) \in Nat
          /\ IsFiniteSet(Below(u))
      BY <2>4, TxFinite
    <2>6. Cardinality(Below(t)) <= Cardinality(Below(u))
      BY <2>3, <2>5, FS_Subset
    <2>7. Cardinality(Below(u)) >= level
      <3> HIDE DEF level, Below
      <3> QED
        BY <1>3, <2>1, <2>5, <2>6
    <2>8. u \in Cap(L, level)
      BY <2>7 DEF Cap
    <2> HIDE DEF level, L, spammers
    <2>9. t.from \in spammers /\ u \in Cap(Of(P.pending, t.from), level)
      BY <2>1, <2>8 DEF L
    <2> QED
      BY <2>9
  <1> HIDE DEF caps
  <1>6. ns \in [Addr -> Nat] /\ LoweredTo(P.nonces, ns, caps)
    <2>1. caps \in SUBSET Tx
      BY <1>0, <1>4
    <2> QED
      BY <1>0, <2>1, LowerNonces
  <1> HIDE DEF ns
  <1> DEFINE p1 == P.pending \ caps
             a1 == P.all \ caps
  <1>7. p1 \in SUBSET Tx /\ a1 \in SUBSET Tx
    BY <1>0
  <1>8. Q = [P EXCEPT !.pending = p1, !.all = a1, !.nonces = ns]
    BY <1>1
  <1> HIDE DEF p1, a1
  <1>9. /\ Q \in PoolRec /\ Frame(P, Q) /\ Q.private = P.private /\ Q.nonces = ns
        /\ Q.all = a1 /\ Q.pending = p1 /\ Q.queue = P.queue
    BY <1>0, <1>6, <1>7, <1>8 DEF PoolRec, Frame
  <1>10. Q.all = P.all \ caps /\ Q.pending = P.pending \ caps /\ P.pending \ Q.pending = caps
    BY <1>4, <1>9 DEF p1, a1
  <1>11. Exact(Q)
    <2>1. Q.all = Q.pending \cup Q.queue
      BY <1>0, <1>4, <1>9, <1>10
    <2>2. Q.pending \cap Q.queue = {}
      BY <1>0, <1>9, <1>10
    <2>3. Distinct(Q.all)
      BY <1>0, <1>10 DEF Distinct
    <2> QED
      BY <2>1, <2>2, <2>3 DEF Exact
  <1>12. \A t \in P.all \ Q.all : t \in P.pending /\ t.from \notin P.locals
    BY <1>4, <1>10
  <1>13. \A t \in caps : \A u \in Of(P.pending, t.from) : t.nonce <= u.nonce => u \notin Q.pending
    BY <1>5, <1>10
  <1> QED
    BY <1>6, <1>9, <1>10, <1>11, <1>12, <1>13 DEF PoolOK, PendingCut

\* truncateQueue takes transactions of remote accounts from the queue.
QueueCut(P, Q) ==
    /\ PoolOK(Q) /\ Frame(P, Q) /\ Q.private = P.private /\ Q.nonces = P.nonces
    /\ Q.all \subseteq P.all /\ Q.pending = P.pending /\ Q.queue \subseteq P.queue
    /\ \A t \in P.all \ Q.all : t \in P.queue /\ t.from \notin P.locals

\* That is what truncateQueue does.
LEMMA TruncateQueueFacts ==
    ASSUME env \in Envs, NEW P, PoolOK(P), NEW order \in Orders(P),
           NEW Q, Q = truncateQueue(P, order)
    PROVE  QueueCut(P, Q)
  <1> DEFINE Rest(i) == P.queue \ {t \in P.queue : \E j \in 1 .. i - 1 : t.from = order[j]}
             Drop(i) == Cardinality(Rest(i)) - GlobalQueue
             Dropped(i) == IF Drop(i) <= 0 THEN {}
                           ELSE LET list == Of(P.queue, order[i])
                                IN  Cap(list, Cardinality(list) - Drop(i))
             S == UNION {Dropped(i) : i \in DOMAIN order}
  <1>1. Q = removeTx(P, S)
    BY DEF truncateQueue
  <1>2. \A i \in DOMAIN order : order[i] \notin P.locals
    BY DEF Orders, SetToSeqs
  <1>3. \A i \in DOMAIN order : \A t \in Dropped(i) : t \in P.queue /\ t.from \notin P.locals
    <2> HIDE DEF Drop
    <2> QED
      BY <1>2 DEF Cap, Of
  <1> HIDE DEF Dropped
  <1>4. \A t \in S : t \in P.queue /\ t.from \notin P.locals
    BY <1>3
  <1> HIDE DEF S
  <1>5. S \cap P.pending = {} /\ P.all = P.pending \cup P.queue
    BY <1>4 DEF PoolOK, Exact
  <1>6. /\ PoolOK(Q) /\ Frame(P, Q) /\ Q.private = P.private
        /\ Q.all = P.all \ S
        /\ Q.pending = P.pending \ Cut(P, S)
        /\ S \cap P.pending = {} => Q.nonces = P.nonces
    <2>1. Removed(P, S, Q)
      BY <1>1, RemoveFacts
    <2> QED
      BY <2>1 DEF Removed
  <1>7. Cut(P, S) = {}
    BY <1>5 DEF Cut, Of
  <1>8. Q.pending = P.pending
    BY <1>6, <1>7
  <1>9. Q.queue \subseteq P.queue
    <2>1. /\ Q.all = Q.pending \cup Q.queue
          /\ Q.pending \cap Q.queue = {}
      BY <1>6 DEF PoolOK, Exact
    <2> QED
      BY <1>5, <1>6, <1>8, <2>1
  <1> QED
    BY <1>4, <1>5, <1>6, <1>8, <1>9 DEF QueueCut

-----------------------------------------------------------------------------
(* Adding transactions *)

PNonces(P, a) == {t.nonce : t \in Of(P.pending, a)}

\* Of an account's pending nonces those from c on are gone, and the virtual
\* nonce is not above c; or nothing has changed.
Trimmed(P, Q, a) ==
    \/ PNonces(Q, a) = PNonces(P, a) /\ Q.nonces[a] = P.nonces[a]
    \/ \E c \in PNonces(P, a) :
          /\ PNonces(Q, a) = {n \in PNonces(P, a) : n < c}
          /\ Q.nonces[a] = IF c < P.nonces[a] THEN c ELSE P.nonces[a]

\* What is known of a local account was added as local.
LocalsMarked(P) == \A t \in P.all : t.from \in P.locals => t \in P.asLocal

\* What adding transactions of T may do to the pool: the new ones are ones the
\* state accepts, and a local one leaves only for another of its nonce.
Absorbed(P, T, s, Q) ==
    /\ PoolOK(Q) /\ Q.private = P.private /\ P.locals \subseteq Q.locals
    /\ Q.all \subseteq P.all \cup T
    /\ \A t \in Q.all \ P.all : ~Spent(t, s)
    /\ LocalsMarked(P) => LocalsMarked(Q)
    /\ LocalsMarked(P) => \A u \in P.all \ Q.all : u.from \in P.locals
                                => \E v \in Q.all : Same(u, v) /\ ~Spent(v, s)
    /\ \A a \in Addr : Trimmed(P, Q, a)

\* Pending nonces are numbers.
LEMMA PNoncesType ==
    ASSUME env \in Envs, NEW P, PoolOK(P), NEW a
    PROVE  PNonces(P, a) \subseteq Nat
  BY EnvFacts DEF PoolOK, PoolRec, PNonces, Of

\* Adding nothing.
LEMMA AbsorbNothing ==
    ASSUME NEW P, PoolOK(P), NEW T, NEW s
    PROVE  Absorbed(P, T, s, P)
  BY DEF Absorbed, Trimmed

\* Trimming twice.
LEMMA TrimTwice ==
    ASSUME env \in Envs, NEW P, NEW Q, NEW R, PoolOK(P), PoolOK(Q), NEW a \in Addr,
           Trimmed(P, Q, a), Trimmed(Q, R, a)
    PROVE  Trimmed(P, R, a)
  <1> DEFINE np == PNonces(P, a)
             nq == PNonces(Q, a)
             nr == PNonces(R, a)
             vp == P.nonces[a]
             vq == Q.nonces[a]
             vr == R.nonces[a]
  <1>1. np \subseteq Nat /\ nq \subseteq Nat /\ vp \in Nat
    <2>1. vp \in Nat
      BY DEF PoolOK, PoolRec
    <2> QED
      BY <2>1, PNoncesType
  <1>2. \/ nq = np /\ vq = vp
        \/ \E c \in np : nq = {n \in np : n < c} /\ vq = IF c < vp THEN c ELSE vp
    BY DEF Trimmed
  <1>3. \/ nr = nq /\ vr = vq
        \/ \E c \in nq : nr = {n \in nq : n < c} /\ vr = IF c < vq THEN c ELSE vq
    BY DEF Trimmed
  <1> HIDE DEF np, nq, nr, vp, vq, vr
  <1>4. \/ nr = np /\ vr = vp
        \/ \E c \in np : nr = {n \in np : n < c} /\ vr = IF c < vp THEN c ELSE vp
    <2>1. CASE nq = np /\ vq = vp
      BY <1>3, <2>1
    <2>2. CASE nr = nq /\ vr = vq
      BY <1>2, <2>2
    <2>3. ASSUME NEW c \in np, nq = {n \in np : n < c}, vq = IF c < vp THEN c ELSE vp,
                 NEW d \in nq, nr = {n \in nq : n < d}, vr = IF d < vq THEN d ELSE vq
          PROVE  nr = {n \in np : n < d} /\ vr = (IF d < vp THEN d ELSE vp) /\ d \in np
      <3>1. d \in np /\ d < c /\ d \in Nat /\ c \in Nat
        BY <1>1, <2>3
      <3>2. vr = (IF d < vp THEN d ELSE vp)
        BY <1>1, <2>3, <3>1
      <3>3. nr = {n \in np : n < d}
        <4>1. \A n \in np : n \in Nat /\ (n < d => n < c)
          BY <1>1, <3>1
        <4>2. \A n \in np : n \in nr <=> n < d
          BY <2>3, <4>1
        <4>3. \A n \in nr : n \in np
          BY <2>3
        <4> HIDE DEF np, nr
        <4> QED
          BY <4>2, <4>3
      <3> QED
        BY <3>1, <3>2, <3>3
    <2> QED
      BY <1>2, <1>3, <2>1, <2>2, <2>3
  <1> QED
    BY <1>4 DEF Trimmed, np, nq, nr, vp, vq, vr

\* Adding after adding.
LEMMA AbsorbTwice ==
    ASSUME env \in Envs, NEW P, NEW Q, NEW R, NEW T, NEW s, PoolOK(P),
           Absorbed(P, T, s, Q), Absorbed(Q, T, s, R)
    PROVE  Absorbed(P, T, s, R)
  <1>1. PoolOK(Q) /\ PoolOK(R) /\ R.private = P.private /\ P.locals \subseteq R.locals
    BY DEF Absorbed
  <1>2. R.all \subseteq P.all \cup T /\ \A t \in R.all \ P.all : ~Spent(t, s)
    BY DEF Absorbed
  <1>3. LocalsMarked(P) => LocalsMarked(R)
    BY DEF Absorbed
  <1>4. ASSUME LocalsMarked(P), NEW u \in P.all \ R.all, u.from \in P.locals
        PROVE  \E v \in R.all : Same(u, v) /\ ~Spent(v, s)
    <2>1. LocalsMarked(Q) /\ u.from \in Q.locals
      BY <1>4 DEF Absorbed
    <2>2. CASE u \in Q.all
      BY <2>1, <2>2, <1>4 DEF Absorbed
    <2>3. CASE u \notin Q.all
      <3>1. PICK v \in Q.all : Same(u, v) /\ ~Spent(v, s)
        BY <1>4, <2>3 DEF Absorbed
      <3>2. CASE v \in R.all
        BY <3>1, <3>2
      <3>3. CASE v \notin R.all
        <4>1. v.from \in Q.locals
          BY <2>1, <3>1 DEF Same
        <4>2. PICK w \in R.all : Same(v, w) /\ ~Spent(w, s)
          BY <2>1, <3>3, <4>1 DEF Absorbed
        <4> QED
          BY <3>1, <4>2 DEF Same
      <3> QED
        BY <3>2, <3>3
    <2> QED
      BY <2>2, <2>3
  <1>5. \A a \in Addr : Trimmed(P, R, a)
    BY <1>1, TrimTwice DEF Absorbed
  <1> QED
    BY <1>1, <1>2, <1>3, <1>4, <1>5 DEF Absorbed

\* Without the transactions of H and the later ones of their senders pending
\* is trimmed.
LEMMA CutTrims ==
    ASSUME env \in Envs, NEW P, PoolOK(P), NEW Q, PoolOK(Q), NEW H \in SUBSET P.pending,
           Q.pending \subseteq P.pending,
           \A u \in P.pending : u \in Q.pending <=> ~\E t \in Of(H, u.from) : t.nonce <= u.nonce,
           LoweredTo(P.nonces, Q.nonces, H), NEW a \in Addr
    PROVE  Trimmed(P, Q, a)
  <1>0. /\ P.pending \subseteq Tx /\ P.nonces[a] \in Nat /\ Q.nonces[a] \in Nat
        /\ \A t \in P.pending : t.nonce \in Nat
    BY EnvFacts DEF PoolOK, PoolRec
  <1>1. /\ Q.nonces[a] <= P.nonces[a]
        /\ \A t \in Of(H, a) : Q.nonces[a] <= t.nonce
        /\ Q.nonces[a] = P.nonces[a] \/ \E t \in Of(H, a) : Q.nonces[a] = t.nonce
    BY DEF LoweredTo
  <1>2. CASE Of(H, a) = {}
    <2>1. \A u \in Of(P.pending, a) : u \in Q.pending
      BY <1>2 DEF Of
    <2>2. Of(Q.pending, a) = Of(P.pending, a)
      BY <2>1 DEF Of
    <2> QED
      BY <1>1, <1>2, <2>2 DEF Trimmed, PNonces
  <1>3. CASE Of(H, a) # {}
    <2> DEFINE c == Lowest(Of(H, a))
    <2>1. /\ c \in Nat /\ \E t \in Of(H, a) : t.nonce = c
          /\ \A t \in Of(H, a) : c <= t.nonce
      <3>1. Of(H, a) \in SUBSET Tx
        BY <1>0 DEF Of
      <3> QED
        BY <1>3, <3>1, NonceRange
    <2> HIDE DEF c
    <2>2. c \in PNonces(P, a)
      BY <2>1 DEF PNonces, Of
    <2>3. \A u \in Of(P.pending, a) : u \in Q.pending <=> u.nonce < c
      <3>1. \A u \in Of(P.pending, a) : u \in P.pending /\ u.nonce \in Nat /\ u.from = a
        BY <1>0 DEF Of
      <3>2. \A t \in Of(H, a) : t.nonce \in Nat
        BY <1>0 DEF Of
      <3>3. \A u \in Of(P.pending, a) : u \in Q.pending <=> ~\E t \in Of(H, a) : t.nonce <= u.nonce
        BY <3>1
      <3> QED
        BY <2>1, <3>1, <3>2, <3>3
    <2>4. \A u \in Of(Q.pending, a) : u \in Of(P.pending, a)
      BY DEF Of
    <2>5. \A u \in Of(P.pending, a) : u \in Q.pending => u \in Of(Q.pending, a)
      BY DEF Of
    <2>6. PNonces(Q, a) = {n \in PNonces(P, a) : n < c}
      <3>1. \A n \in PNonces(Q, a) : n \in PNonces(P, a) /\ n < c
        BY <2>3, <2>4 DEF PNonces, Of
      <3>2. \A n \in PNonces(P, a) : n < c => n \in PNonces(Q, a)
        BY <2>3, <2>5 DEF PNonces
      <3> QED
        BY <3>1, <3>2
    <2>7. Q.nonces[a] = IF c < P.nonces[a] THEN c ELSE P.nonces[a]
      <3>1. \A t \in Of(H, a) : t.nonce \in Nat
        BY <1>0 DEF Of
      <3> QED
        BY <1>0, <1>1, <2>1, <3>1
    <2> QED
      BY <2>2, <2>6, <2>7 DEF Trimmed
  <1> QED
    BY <1>2, <1>3

\* Removal trims pending.
LEMMA RemoveTrims ==
    ASSUME env \in Envs, NEW P, PoolOK(P), NEW S, NEW Q, Removed(P, S, Q), NEW a \in Addr
    PROVE  Trimmed(P, Q, a)
  <1> DEFINE H == S \cap P.pending
  <1>1. PoolOK(Q) /\ Q.pending \subseteq P.pending /\ LoweredTo(P.nonces, Q.nonces, H)
    BY DEF Removed
  <1>2. \A u \in P.pending : u \in Q.pending <=> ~\E t \in Of(H, u.from) : t.nonce <= u.nonce
    BY DEF Removed, Cut
  <1>3. H \in SUBSET P.pending
    OBVIOUS
  <1> HIDE DEF H
  <1> QED
    BY <1>1, <1>2, <1>3, CutTrims

\* So does truncatePending.
LEMMA TruncateTrims ==
    ASSUME env \in Envs, NEW P, PoolOK(P), NEW Q, PendingCut(P, Q), NEW a \in Addr
    PROVE  Trimmed(P, Q, a)
  <1> DEFINE H == P.pending \ Q.pending
  <1>1. PoolOK(Q) /\ Q.pending \subseteq P.pending /\ LoweredTo(P.nonces, Q.nonces, H)
    BY DEF PendingCut
  <1>2. \A u \in P.pending : u \in Q.pending <=> ~\E t \in Of(H, u.from) : t.nonce <= u.nonce
    <2>1. \A u \in P.pending : u.nonce \in Nat
      BY EnvFacts DEF PoolOK, PoolRec
    <2>2. \A u \in P.pending \ Q.pending : u \in Of(H, u.from) /\ u.nonce <= u.nonce
      BY <2>1 DEF Of
    <2>3. \A u \in Q.pending : \A t \in Of(H, u.from) : t \in H /\ u \in Of(P.pending, t.from)
      BY <1>1 DEF Of
    <2>4. \A t \in H : \A u \in Of(P.pending, t.from) : t.nonce <= u.nonce => u \notin Q.pending
      BY DEF PendingCut
    <2> HIDE DEF H
    <2> QED
      BY <2>2, <2>3, <2>4
  <1>3. H \in SUBSET P.pending
    OBVIOUS
  <1> HIDE DEF H
  <1> QED
    BY <1>1, <1>2, <1>3, CutTrims

\* Making room drops remote transactions only.
LEMMA DropFacts ==
    ASSUME env \in Envs, NEW P, PoolOK(P), NEW drop, drop \subseteq Remotes(P), NEW T, NEW s,
           NEW Q, Q = DropAll(P, drop)
    PROVE  /\ Absorbed(P, T, s, Q) /\ Q.locals = P.locals /\ Q.asLocal = P.asLocal
           /\ Q.all \subseteq P.all
           /\ (\A u \in drop : At(P.pending, u) = {}) => Q.pending = P.pending
  <1> DEFINE R == removeTx(P, drop)
             k == R.changes + Cardinality(P.pending \ R.pending)
  <1>1. Removed(P, drop, R)
    BY RemoveFacts
  <1>2. Q = [R EXCEPT !.changes = k]
    BY DEF DropAll
  <1> HIDE DEF R
  <1>3. PoolOK(R) /\ R \in PoolRec
    BY <1>1 DEF Removed, PoolOK
  <1>4. k \in Nat
    <2>1. P.pending \ R.pending \in SUBSET Tx /\ R.changes \in Nat
      BY <1>3 DEF PoolOK, PoolRec
    <2>2. Cardinality(P.pending \ R.pending) \in Nat
      BY <2>1, TxFinite
    <2> QED
      BY <2>1, <2>2
  <1> HIDE DEF k
  <1>5. /\ Q \in PoolRec /\ Q.all = R.all /\ Q.pending = R.pending /\ Q.queue = R.queue
        /\ Q.locals = R.locals /\ Q.asLocal = R.asLocal /\ Q.private = R.private
        /\ Q.nonces = R.nonces
    BY <1>2, <1>3, <1>4 DEF PoolRec
  <1>6. PoolOK(Q)
    BY <1>3, <1>5 DEF PoolOK, Exact
  <1>7. /\ R.all = P.all \ drop /\ R.locals = P.locals /\ R.asLocal = P.asLocal
        /\ R.private = P.private /\ R.pending = P.pending \ Cut(P, drop)
    BY <1>1 DEF Removed, Frame
  <1>8. \A a \in Addr : Trimmed(P, Q, a)
    <2>1. \A a \in Addr : Trimmed(P, R, a)
      BY <1>1, RemoveTrims
    <2> QED
      BY <1>5, <2>1 DEF Trimmed, PNonces
  <1>9. LocalsMarked(P) => LocalsMarked(Q)
    BY <1>5, <1>7 DEF LocalsMarked
  <1>10. LocalsMarked(P) => \A u \in P.all \ Q.all : u.from \notin P.locals
    BY <1>5, <1>7 DEF LocalsMarked, Remotes
  <1>11. (\A u \in drop : At(P.pending, u) = {}) => Q.pending = P.pending
    <2>1. (\A u \in drop : At(P.pending, u) = {}) => Cut(P, drop) = {}
      BY DEF Cut, Of, At
    <2> QED
      BY <1>5, <1>7, <2>1
  <1>12. Absorbed(P, T, s, Q)
    BY <1>5, <1>6, <1>7, <1>8, <1>9, <1>10 DEF Absorbed
  <1> QED
    BY <1>5, <1>7, <1>11, <1>12

\* A transaction takes its place in one of the lists.
Placed(P, t, R) ==
    /\ PoolOK(R) /\ Frame(P, R) /\ R.nonces = P.nonces /\ R.private = P.private
    /\ R.all = (P.all \ At(P.all, t)) \cup {t}
    /\ \A a \in Addr : PNonces(R, a) = PNonces(P, a)

\* It replaces a pending one of its nonce.
LEMMA ReplaceFacts ==
    ASSUME env \in Envs, NEW P, PoolOK(P), NEW t \in Tx, t \notin P.all,
           At(P.pending, t) # {}, NEW R, R = Replace(P, t)
    PROVE  Placed(P, t, R)
  <1>0. /\ P \in PoolRec /\ P.all = P.pending \cup P.queue
        /\ P.pending \cap P.queue = {} /\ Distinct(P.all)
        /\ P.pending \subseteq Tx /\ P.queue \subseteq Tx /\ P.all \subseteq Tx
    BY DEF PoolOK, Exact, PoolRec
  <1>1. PICK v \in P.pending : Same(v, t)
    BY DEF At, Same
  <1>2. \A u \in P.all : Same(u, t) => u = v
    BY <1>0, <1>1 DEF Distinct, Same
  <1>3. At(P.pending, t) = {v} /\ At(P.all, t) = {v}
    BY <1>0, <1>1, <1>2 DEF At, Same
  <1> DEFINE p == (P.pending \ {v}) \cup {t}
             al == (P.all \ {v}) \cup {t}
  <1>4. p \in SUBSET Tx /\ al \in SUBSET Tx
    BY <1>0
  <1>5. R = [P EXCEPT !.pending = p, !.all = al]
    BY <1>3 DEF Replace, Put
  <1> HIDE DEF p, al
  <1>6. /\ R \in PoolRec /\ Frame(P, R) /\ R.nonces = P.nonces /\ R.private = P.private
        /\ R.all = al /\ R.pending = p /\ R.queue = P.queue
    BY <1>0, <1>4, <1>5 DEF PoolRec, Frame
  <1>7. Exact(R)
    <2>1. R.all = R.pending \cup R.queue
      BY <1>0, <1>1, <1>6 DEF p, al
    <2>2. R.pending \cap R.queue = {}
      BY <1>0, <1>6 DEF p
    <2>3. Distinct(R.all)
      BY <1>0, <1>1, <1>2, <1>6 DEF al, Distinct, Same
    <2> QED
      BY <2>1, <2>2, <2>3 DEF Exact
  <1>8. ASSUME NEW a \in Addr PROVE PNonces(R, a) = PNonces(P, a)
    <2>1. \A u \in P.pending : u # v => u \in R.pending
      BY <1>6 DEF p
    <2>2. \A u \in R.pending : u # t => u \in P.pending
      BY <1>6 DEF p
    <2>3. v.nonce = t.nonce /\ v.from = t.from /\ t \in R.pending /\ v \in P.pending
      BY <1>1, <1>6 DEF p, Same
    <2> QED
      BY <2>1, <2>2, <2>3 DEF PNonces, Of
  <1> QED
    BY <1>3, <1>6, <1>7, <1>8 DEF Placed, PoolOK, al

Enqueue(P, t) == enqueueTx(P, {t}, TRUE)

\* It is queued, in place of one of its nonce if there is one.
LEMMA QueueFacts ==
    ASSUME env \in Envs, NEW P, PoolOK(P), NEW t \in Tx, t \notin P.all,
           At(P.pending, t) = {}, Inserts(P.queue, t), NEW R, R = Enqueue(P, t)
    PROVE  Placed(P, t, R) /\ R.pending = P.pending
  <1>0. /\ P \in PoolRec /\ P.all = P.pending \cup P.queue
        /\ P.pending \cap P.queue = {} /\ Distinct(P.all)
        /\ P.pending \subseteq Tx /\ P.queue \subseteq Tx /\ P.all \subseteq Tx
    BY DEF PoolOK, Exact, PoolRec
  <1> DEFINE in == {x \in {t} : Inserts(P.queue, x)}
             old == {u \in P.queue : At(in, u) # {}}
  <1>1. in = {t}
    OBVIOUS
  <1>2. old = At(P.all, t)
    BY <1>0, <1>1 DEF At
  <1>3. R = [P EXCEPT !.queue = (@ \ old) \cup in,
                      !.all = (@ \ old) \cup (IF TRUE THEN in ELSE {})]
    BY DEF Enqueue, enqueueTx
  <1> HIDE DEF in, old
  <1> DEFINE q == (P.queue \ old) \cup {t}
             al == (P.all \ old) \cup {t}
  <1>4. q \in SUBSET Tx /\ al \in SUBSET Tx
    BY <1>0
  <1>5. R = [P EXCEPT !.queue = q, !.all = al]
    BY <1>1, <1>3
  <1> HIDE DEF q, al
  <1>6. /\ R \in PoolRec /\ Frame(P, R) /\ R.nonces = P.nonces /\ R.private = P.private
        /\ R.all = al /\ R.pending = P.pending /\ R.queue = q
    BY <1>0, <1>4, <1>5 DEF PoolRec, Frame
  <1>7. Exact(R)
    <2>0. old \cap P.pending = {}
      BY <1>2 DEF At
    <2>1. R.all = R.pending \cup R.queue
      BY <1>0, <1>6, <2>0 DEF q, al
    <2>2. R.pending \cap R.queue = {}
      BY <1>0, <1>6 DEF q
    <2>3. Distinct(R.all)
      BY <1>0, <1>2, <1>6 DEF al, Distinct, Same, At
    <2> QED
      BY <2>1, <2>2, <2>3 DEF Exact
  <1>8. \A a \in Addr : PNonces(R, a) = PNonces(P, a)
    BY <1>6 DEF PNonces
  <1> QED
    BY <1>2, <1>6, <1>7, <1>8 DEF Placed, PoolOK, al

\* A new transaction takes its place, and its account becomes a local one if
\* it is queued as local.
LEMMA InsertFacts ==
    ASSUME env \in Envs, NEW P, PoolOK(P), NEW t \in Tx, t \notin P.all, NEW T, t \in T,
           NEW s, ~Spent(t, s), NEW local, NEW isLocal, t.from \in P.locals => isLocal,
           NEW o, o = Insert(P, t, local, isLocal)
    PROVE  /\ Absorbed(P, T, s, o.pool) /\ o.dirty \subseteq {t.from} /\ o.events \subseteq {t}
           /\ At(P.pending, t) = {} => o.pool.pending = P.pending
           /\ t \in o.pool.all /\ t \notin o.pool.asLocal => ~isLocal
           /\ t \in o.pool.queue => At(P.pending, t) = {}
  <1> DEFINE pend == At(P.pending, t) # {}
             R == IF pend THEN Replace(P, t) ELSE Enqueue(P, t)
             M == MarkTx(R, t, isLocal)
             K == IF ~pend /\ local THEN MarkAccount(M, t.from) ELSE M
             dd == IF ~pend /\ At(P.queue, t) = {} THEN {t.from} ELSE {}
             ee == IF pend THEN {t} ELSE {}
  <1>1. CASE ~Inserts(IF pend THEN P.pending ELSE P.queue, t)
    <2>1. o = Outcome(P, {}, {})
      BY <1>1 DEF Insert
    <2>2. o.pool = P /\ o.dirty = {} /\ o.events = {}
      BY <2>1 DEF Outcome
    <2>3. Absorbed(P, T, s, P)
      BY AbsorbNothing
    <2>4. t \in P.queue => FALSE
      BY DEF PoolOK, Exact
    <2> QED
      BY <2>2, <2>3, <2>4
  <1>2. CASE Inserts(IF pend THEN P.pending ELSE P.queue, t)
    <2>1. o = Outcome(K, dd, ee)
      BY <1>2 DEF Insert, Enqueue
    <2>2. o.pool = K /\ o.dirty = dd /\ o.events = ee
      BY <2>1 DEF Outcome
    <2>3. Placed(P, t, R) /\ (~pend => R.pending = P.pending)
      <3>1. CASE pend
        BY <3>1, ReplaceFacts
      <3>2. CASE ~pend
        BY <1>2, <3>2, QueueFacts
      <3> QED
        BY <3>1, <3>2
    <2>4. dd \subseteq {t.from} /\ ee \subseteq {t}
      OBVIOUS
    <2>5. PoolOK(R) /\ R \in PoolRec /\ R.locals = P.locals /\ R.asLocal = P.asLocal
      BY <2>3 DEF Placed, PoolOK, Frame
    <2> HIDE DEF R
    <2> DEFINE al == IF isLocal THEN R.asLocal \cup {t} ELSE R.asLocal \ {t}
    <2>6. al \in SUBSET Tx
      BY <2>5 DEF PoolRec
    <2>7. M = [R EXCEPT !.asLocal = al]
      BY DEF MarkTx
    <2> HIDE DEF al, M
    <2>8. /\ M \in PoolRec /\ M.pending = R.pending /\ M.queue = R.queue /\ M.all = R.all
          /\ M.nonces = R.nonces /\ M.private = R.private /\ M.locals = R.locals
          /\ M.asLocal = al
      BY <2>5, <2>6, <2>7 DEF PoolRec
    <2> DEFINE ml == MarkAccount(M, t.from)
               lo == M.locals \cup {t.from}
               as == M.asLocal \cup Of(M.all, t.from)
    <2>9. lo \in SUBSET Addr /\ as \in SUBSET Tx
      BY <2>8, EnvFacts DEF PoolRec, Of
    <2>10. ml = [M EXCEPT !.locals = lo, !.asLocal = as]
      BY DEF MarkAccount
    <2> HIDE DEF lo, as
    <2>11. /\ ml \in PoolRec /\ ml.pending = M.pending /\ ml.queue = M.queue /\ ml.all = M.all
           /\ ml.nonces = M.nonces /\ ml.private = M.private /\ ml.locals = lo
           /\ ml.asLocal = as
      <3> HIDE DEF ml
      <3> QED
        BY <2>8, <2>9, <2>10 DEF PoolRec
    <2>12. K = ml \/ K = M
      OBVIOUS
    <2> HIDE DEF K, ml
    <2>13. /\ K \in PoolRec /\ K.pending = R.pending /\ K.queue = R.queue /\ K.all = R.all
           /\ K.nonces = R.nonces /\ K.private = R.private
           /\ \/ K.locals = R.locals /\ K.asLocal = al
              \/ K.locals = lo /\ K.asLocal = as
      BY <2>8, <2>11, <2>12
    <2>14. PoolOK(K)
      BY <2>5, <2>13 DEF PoolOK, Exact
    <2>15. t \in K.all /\ K.all = (P.all \ At(P.all, t)) \cup {t} /\ K.private = P.private
      BY <2>3, <2>13 DEF Placed
    <2>16. \A a \in Addr : Trimmed(P, K, a)
      BY <2>3, <2>13 DEF Placed, Trimmed, PNonces
    <2>17. P.locals \subseteq K.locals
      BY <2>5, <2>8, <2>13 DEF lo
    <2>18. isLocal => t \in K.asLocal
      BY <2>8, <2>13 DEF al, as
    <2>19. ASSUME LocalsMarked(P) PROVE LocalsMarked(K)
      <3> SUFFICES ASSUME NEW u \in K.all, u.from \in K.locals PROVE u \in K.asLocal
        BY DEF LocalsMarked
      <3>1. CASE K.locals = R.locals /\ K.asLocal = al
        <4>1. u = t => u \in K.asLocal
          BY <2>5, <2>18, <3>1
        <4>2. u # t => u \in P.all /\ u \in P.asLocal
          BY <2>5, <2>15, <2>19, <3>1 DEF LocalsMarked
        <4> QED
          BY <2>5, <3>1, <4>1, <4>2 DEF al
      <3>2. CASE K.locals = lo /\ K.asLocal = as
        <4>1. u.from = t.from => u \in as
          BY <2>8, <2>13 DEF as, Of
        <4>2. u.from # t.from => u # t /\ u \in P.all /\ u \in P.asLocal
          BY <2>5, <2>8, <2>15, <2>19, <3>2 DEF LocalsMarked, lo
        <4> QED
          BY <2>5, <2>8, <3>2, <4>1, <4>2 DEF al, as
      <3> QED
        BY <2>13, <3>1, <3>2
    <2>20. \A u \in P.all \ K.all : Same(u, t)
      BY <2>15 DEF At, Same
    <2>21. Absorbed(P, T, s, K)
      BY <2>14, <2>15, <2>16, <2>17, <2>19, <2>20 DEF Absorbed
    <2>22. At(P.pending, t) = {} => K.pending = P.pending
      BY <2>3, <2>13
    <2>23. t \in K.queue => At(P.pending, t) = {}
      <3>1. SUFFICES ASSUME t \in K.queue, pend PROVE FALSE
        OBVIOUS
      <3>2. t \in R.pending
        BY <3>1 DEF R, Replace, Put, PoolOK, PoolRec
      <3>3. R.pending \cap R.queue = {}
        BY <2>5 DEF PoolOK, Exact
      <3> QED
        BY <2>13, <3>1, <3>2, <3>3
    <2> QED
      BY <2>2, <2>4, <2>18, <2>21, <2>22, <2>23
  <1> QED
    BY <1>1, <1>2

\* What add does with one transaction; a future one that is not local leaves
\* pending alone.
AddsOne(P, T, t, s, o) ==
    /\ Absorbed(P, T, s, o.pool) /\ o.dirty \subseteq {t.from} /\ o.events \subseteq {t}
    /\ t \notin P.all /\ t \in o.pool.queue /\ t \notin o.pool.asLocal /\ isFuture(P, t)
          => o.pool.pending = P.pending

\* That is what add does.
LEMMA AddFacts ==
    ASSUME env \in Envs, NEW P, PoolOK(P), NEW T \in SUBSET Tx, NEW t \in T, NEW s \in StateRec,
           NEW local, NEW price, NEW o \in add(P, t, local, s, price)
    PROVE  AddsOne(P, T, t, s, o)
  <1>0. CASE o = Outcome(P, {}, {})
    <2>1. o.pool = P /\ o.dirty = {} /\ o.events = {}
      BY <1>0 DEF Outcome
    <2>2. Absorbed(P, T, s, P)
      BY AbsorbNothing
    <2> QED
      BY <2>1, <2>2 DEF AddsOne
  <1> DEFINE isLocal == local \/ t.from \in P.locals
  <1>1. CASE /\ t \notin P.all /\ validateTx(P, t, isLocal, s, price)
             /\ \E Q \in RoomFor(P, t, isLocal) : o = Insert(Q, t, local, isLocal)
    <2>1. ~Spent(t, s)
      <3>1. t.nonce >= GetNonce(s.chain, t.from) /\ s.balance[t.from] >= t.price
            /\ t.gas <= s.maxGas
        BY <1>1 DEF validateTx
      <3>2. t \in Tx /\ s.chain \in SUBSET Tx /\ s.balance[t.from] \in Nat /\ s.maxGas \in Nat
        BY EnvFacts DEF StateRec
      <3>3. t.nonce \in Nat /\ t.price \in Nat /\ t.gas \in Nat
            /\ GetNonce(s.chain, t.from) \in Nat
        BY <3>2, EnvFacts, NonceType
      <3> QED
        BY <3>1, <3>2, <3>3 DEF Spent, Filter
    <2>2. PICK Q \in RoomFor(P, t, isLocal) : o = Insert(Q, t, local, isLocal)
      BY <1>1
    <2>3. \/ Q = P
          \/ \E d \in Discards(P, isLocal) : Q = DropAll(P, d) /\ MayChurn(P, t, isLocal, d)
      BY <2>2 DEF RoomFor
    <2>4. \A d \in Discards(P, isLocal) : d \subseteq Remotes(P)
      BY DEF Discards, kSubset
    <2>5. /\ Absorbed(P, T, s, Q) /\ Q.locals = P.locals /\ Q.all \subseteq P.all
          /\ isFuture(P, t) /\ ~isLocal => Q.pending = P.pending
      <3>1. CASE Q = P
        BY <3>1, AbsorbNothing
      <3>2. ASSUME NEW d \in Discards(P, isLocal), Q = DropAll(P, d), MayChurn(P, t, isLocal, d)
            PROVE  /\ Absorbed(P, T, s, Q) /\ Q.locals = P.locals /\ Q.all \subseteq P.all
                   /\ isFuture(P, t) /\ ~isLocal => Q.pending = P.pending
        <4>1. d \subseteq Remotes(P)
          BY <2>4
        <4>2. isFuture(P, t) /\ ~isLocal => \A u \in d : At(P.pending, u) = {}
          BY <3>2 DEF MayChurn
        <4> HIDE DEF isLocal
        <4>3. /\ Absorbed(P, T, s, DropAll(P, d)) /\ DropAll(P, d).locals = P.locals
              /\ DropAll(P, d).all \subseteq P.all
              /\ (\A u \in d : At(P.pending, u) = {}) => DropAll(P, d).pending = P.pending
          BY <4>1, DropFacts
        <4> QED
          BY <3>2, <4>2, <4>3
      <3> QED
        BY <2>3, <3>1, <3>2
    <2>6. PoolOK(Q) /\ t \notin Q.all /\ t \in Tx /\ (t.from \in Q.locals => isLocal)
      BY <1>1, <2>5 DEF Absorbed
    <2> HIDE DEF isLocal
    <2> DEFINE i == Insert(Q, t, local, isLocal)
    <2>7. /\ Absorbed(Q, T, s, i.pool) /\ i.dirty \subseteq {t.from} /\ i.events \subseteq {t}
          /\ At(Q.pending, t) = {} => i.pool.pending = Q.pending
          /\ t \in i.pool.all /\ t \notin i.pool.asLocal => ~isLocal
          /\ t \in i.pool.queue => At(Q.pending, t) = {}
      BY <2>1, <2>6, InsertFacts
    <2> HIDE DEF i
    <2>8. o = i
      BY <2>2 DEF i
    <2>9. Absorbed(P, T, s, o.pool)
      BY <2>5, <2>7, <2>8, AbsorbTwice
    <2>10. t \in o.pool.queue => t \in o.pool.all
      BY <2>9 DEF Absorbed, PoolOK, Exact
    <2> QED
      BY <2>5, <2>7, <2>8, <2>9, <2>10 DEF AddsOne
  <1> QED
    <2>1. \/ o = Outcome(P, {}, {})
          \/ /\ t \notin P.all /\ validateTx(P, t, isLocal, s, price)
             /\ \E Q \in RoomFor(P, t, isLocal) : o = Insert(Q, t, local, isLocal)
      BY DEF add
    <2> QED
      BY <1>0, <1>1, <2>1

\* The outcomes after one more transaction, from the outcomes X so far.
AddStep(X, t, local, s, price) ==
    UNION {{Outcome(o.pool, d.dirty \cup o.dirty, d.events \cup o.events)
              : o \in add(d.pool, t, local, s, price)} : d \in X}

\* The recursive function of addTxsLocked.
AddTrace(P, seq, local, s, price, m, g) ==
    g = [n \in 0 .. m |-> IF n = 0 THEN {Outcome(P, {}, {})}
                          ELSE AddStep(g[n - 1], seq[n], local, s, price)]

\* It exists.
LEMMA AddTraceExists ==
    ASSUME NEW P, NEW seq, NEW local, NEW s, NEW price, NEW n \in Nat
    PROVE  \E g : AddTrace(P, seq, local, s, price, n, g)
  <1> DEFINE A(m, g) == AddTrace(P, seq, local, s, price, m, g)
             st == {Outcome(P, {}, {})}
             E(X, i) == AddStep(X, seq[i], local, s, price)
             S == {m \in 0..n : \E g : A(m, g)}
  <1>0. \A m, g : A(m, g) <=> g = [i \in 0..m |-> IF i = 0 THEN st ELSE E(g[i - 1], i)]
    BY DEF AddTrace
  <1> HIDE DEF A, st, E
  <1>1. 0 \in S
    <2> DEFINE g == [i \in 0..0 |-> st]
    <2>1. g = [i \in 0..0 |-> IF i = 0 THEN st ELSE E(g[i - 1], i)]
      OBVIOUS
    <2>2. A(0, g)
      BY <1>0, <2>1
    <2> QED
      BY <2>2
  <1>2. ASSUME NEW m \in 0..(n - 1), m \in S PROVE m + 1 \in S
    <2>1. PICK g : g = [i \in 0..m |-> IF i = 0 THEN st ELSE E(g[i - 1], i)]
      BY <1>0, <1>2
    <2> DEFINE h == [i \in 0..(m + 1) |-> IF i <= m THEN g[i] ELSE E(g[m], m + 1)]
    <2>2. \A i \in 0..m : g[i] = IF i = 0 THEN st ELSE E(g[i - 1], i)
      BY <2>1
    <2>3. \A i \in 0..(m + 1) : h[i] = IF i = 0 THEN st ELSE E(h[i - 1], i)
      <3> TAKE i \in 0..(m + 1)
      <3>1. CASE i = 0
        BY <2>2, <3>1
      <3>2. CASE i \in 1..m
        <4>1. h[i] = g[i] /\ h[i - 1] = g[i - 1]
          BY <3>2
        <4> QED
          BY <2>2, <3>2, <4>1
      <3>3. CASE i = m + 1
        <4>1. h[i] = E(g[m], m + 1) /\ h[m] = g[m] /\ i - 1 = m /\ i # 0
          BY <3>3
        <4> QED
          BY <3>3, <4>1
      <3> QED
        BY <3>1, <3>2, <3>3
    <2>4. A(m + 1, h)
      <3>1. h = [i \in 0..(m + 1) |-> h[i]]
        OBVIOUS
      <3> HIDE DEF h
      <3>2. h = [i \in 0..(m + 1) |-> IF i = 0 THEN st ELSE E(h[i - 1], i)]
        BY <2>3, <3>1
      <3> QED
        BY <1>0, <3>2
    <2> QED
      BY <2>4
  <1> HIDE DEF S
  <1>3. n \in S
    BY <1>1, <1>2, SetInduction
  <1>4. \E g : A(n, g)
    BY <1>3 DEF S
  <1> QED
    BY <1>4 DEF A

\* The sets of outcomes after each of the transactions.
Trail(P, seq, local, s, price, g) ==
    /\ g[0] = {Outcome(P, {}, {})}
    /\ \A i \in 1..Len(seq) : g[i] = AddStep(g[i - 1], seq[i], local, s, price)
    /\ addTxsLocked(P, seq, local, s, price) = g[Len(seq)]

\* Adding the transactions one by one ends in addTxsLocked.
LEMMA AddLockedTrace ==
    ASSUME NEW P, NEW seq, NEW local, NEW s, NEW price, Len(seq) \in Nat
    PROVE  \E g : Trail(P, seq, local, s, price, g)
  <1> DEFINE n == Len(seq)
             g == CHOOSE f : AddTrace(P, seq, local, s, price, n, f)
             st == {Outcome(P, {}, {})}
             E(X, i) == AddStep(X, seq[i], local, s, price)
  <1>1. AddTrace(P, seq, local, s, price, n, g)
    BY AddTraceExists
  <1>2. addTxsLocked(P, seq, local, s, price) = g[n]
    BY DEF addTxsLocked, AddTrace, AddStep
  <1> HIDE DEF g
  <1>3. g = [i \in 0..n |-> IF i = 0 THEN st ELSE E(g[i - 1], i)]
    BY <1>1 DEF AddTrace
  <1>4. n \in Nat
    OBVIOUS
  <1> HIDE DEF n, st, E
  <1>5. g[0] = st /\ \A i \in 1..n : g[i] = E(g[i - 1], i)
    <2>1. \A i \in 0..n : g[i] = IF i = 0 THEN st ELSE E(g[i - 1], i)
      BY <1>3
    <2>2. 0 \in 0..n /\ \A i \in 1..n : i \in 0..n /\ i # 0
      BY <1>4
    <2> QED
      BY <2>1, <2>2
  <1>6. Trail(P, seq, local, s, price, g)
    BY <1>2, <1>5 DEF Trail, n, st, E
  <1> QED
    BY <1>6

\* What adding transactions one after the other does.
AddsAll(P, T, s, o) ==
    Absorbed(P, T, s, o.pool) /\ o.dirty \subseteq Addr /\ o.events \subseteq T

\* That is what addTxsLocked does.
LEMMA AddLockedFacts ==
    ASSUME env \in Envs, NEW P, PoolOK(P), NEW T \in SUBSET Tx, NEW seq \in Seq(T),
           NEW s \in StateRec, NEW local, NEW price,
           NEW o \in addTxsLocked(P, seq, local, s, price)
    PROVE  AddsAll(P, T, s, o)
  <1> DEFINE n == Len(seq)
  <1>1. n \in Nat /\ \A i \in 1..n : seq[i] \in T
    OBVIOUS
  <1>a. PICK g : Trail(P, seq, local, s, price, g)
    BY <1>1, AddLockedTrace
  <1>2. /\ g[0] = {Outcome(P, {}, {})}
        /\ \A i \in 1..n : g[i] = AddStep(g[i - 1], seq[i], local, s, price)
        /\ addTxsLocked(P, seq, local, s, price) = g[n]
    BY <1>a DEF Trail
  <1> HIDE DEF n
  <1> DEFINE S == {i \in 0..n : \A d \in g[i] : AddsAll(P, T, s, d)}
  <1>3. 0 \in S
    <2> SUFFICES ASSUME NEW d \in g[0] PROVE AddsAll(P, T, s, d)
      BY <1>1
    <2>1. d.pool = P /\ d.dirty = {} /\ d.events = {}
      BY <1>2 DEF Outcome
    <2>2. Absorbed(P, T, s, P)
      BY AbsorbNothing
    <2> QED
      BY <2>1, <2>2 DEF AddsAll
  <1>4. ASSUME NEW i \in 0..(n - 1), i \in S PROVE i + 1 \in S
    <2>1. i + 1 \in 1..n /\ seq[i + 1] \in T /\ (i + 1) - 1 = i
      BY <1>1
    <2>2. g[i + 1] = AddStep(g[i], seq[i + 1], local, s, price)
      BY <1>2, <2>1
    <2>3. ASSUME NEW e \in g[i + 1] PROVE AddsAll(P, T, s, e)
      <3> DEFINE t == seq[i + 1]
      <3>1. PICK d \in g[i] : \E x \in add(d.pool, t, local, s, price) :
                 e = Outcome(x.pool, d.dirty \cup x.dirty, d.events \cup x.events)
        BY <2>2 DEF AddStep
      <3>2. PICK x \in add(d.pool, t, local, s, price) :
                 e = Outcome(x.pool, d.dirty \cup x.dirty, d.events \cup x.events)
        BY <3>1
      <3>3. AddsAll(P, T, s, d)
        BY <1>4
      <3>4. PoolOK(d.pool) /\ Absorbed(P, T, s, d.pool)
        BY <3>3 DEF AddsAll, Absorbed
      <3>5. t \in T
        BY <2>1
      <3> HIDE DEF t
      <3>6. AddsOne(d.pool, T, t, s, x)
        BY <3>2, <3>4, <3>5, AddFacts
      <3>7. Absorbed(d.pool, T, s, x.pool) /\ x.dirty \subseteq {t.from} /\ x.events \subseteq {t}
        BY <3>6 DEF AddsOne
      <3>8. Absorbed(P, T, s, x.pool)
        BY <3>4, <3>7, AbsorbTwice
      <3>9. t.from \in Addr
        BY <3>5, EnvFacts
      <3>10. e.pool = x.pool /\ e.dirty = d.dirty \cup x.dirty /\ e.events = d.events \cup x.events
        BY <3>2 DEF Outcome
      <3> QED
        BY <3>3, <3>5, <3>7, <3>8, <3>9, <3>10 DEF AddsAll
    <2> QED
      BY <1>1, <2>1, <2>3
  <1> HIDE DEF S
  <1>5. n \in S
    <2>1. \A i \in 0..n : i \in S
      BY <1>1, <1>3, <1>4, SetInduction
    <2> QED
      BY <1>1, <2>1
  <1>6. o \in g[n]
    BY <1>2
  <1> QED
    BY <1>5, <1>6 DEF S

\* Adding one transaction is one call of add.
LEMMA AddOneFacts ==
    ASSUME env \in Envs, NEW P, PoolOK(P), NEW t \in Tx, NEW s \in StateRec,
           NEW local, NEW price, NEW o \in addTxsLocked(P, <<t>>, local, s, price)
    PROVE  AddsOne(P, {t}, t, s, o)
  <1>1. Len(<<t>>) = 1 /\ <<t>>[1] = t
    OBVIOUS
  <1>a. PICK g : Trail(P, <<t>>, local, s, price, g)
    <2> DEFINE q == <<t>>
    <2>1. Len(q) \in Nat
      BY <1>1
    <2> HIDE DEF q
    <2>2. \E g : Trail(P, q, local, s, price, g)
      BY <2>1, AddLockedTrace
    <2> QED
      BY <2>2 DEF q
  <1>2. /\ g[0] = {Outcome(P, {}, {})} /\ g[1] = AddStep(g[0], t, local, s, price)
        /\ addTxsLocked(P, <<t>>, local, s, price) = g[1]
    <2>1. 1 \in 1..Len(<<t>>) /\ 1 - 1 = 0
      BY <1>1
    <2> QED
      BY <1>1, <1>a, <2>1 DEF Trail
  <1>3. o \in AddStep(g[0], t, local, s, price)
    BY <1>2
  <1>4. PICK d \in g[0] : \E x \in add(d.pool, t, local, s, price) :
             o = Outcome(x.pool, d.dirty \cup x.dirty, d.events \cup x.events)
    BY <1>3 DEF AddStep
  <1>5. d.pool = P /\ d.dirty = {} /\ d.events = {}
    BY <1>2 DEF Outcome
  <1>6. PICK x \in add(P, t, local, s, price) : o = Outcome(x.pool, {} \cup x.dirty, {} \cup x.events)
    BY <1>4, <1>5
  <1>7. o.pool = x.pool /\ o.dirty = x.dirty /\ o.events = x.events
    BY <1>6 DEF Outcome
  <1>8. {t} \in SUBSET Tx /\ t \in {t}
    OBVIOUS
  <1>9. AddsOne(P, {t}, t, s, x)
    BY <1>8, AddFacts
  <1> QED
    BY <1>7, <1>9 DEF AddsOne

-----------------------------------------------------------------------------
(* The limits *)

\* What every run restores: more than GlobalSlots are pending only if each remote
\* account is within AccountSlots, more than GlobalQueue queued only if local.
WithinSlots(P) ==
    \/ Cardinality(P.pending) <= GlobalSlots
    \/ \A a \in Addr \ P.locals : Cardinality(Of(P.pending, a)) <= AccountSlots
WithinQueue(P) ==
    \/ Cardinality(P.queue) <= GlobalQueue
    \/ \A t \in P.queue : t.from \in P.locals

\* The cardinality of what is left when a part is taken away.
LEMMA LessPart ==
    ASSUME env \in Envs, NEW S \in SUBSET Tx, NEW T \in SUBSET S
    PROVE  /\ Cardinality(S) \in Nat /\ Cardinality(T) \in Nat
           /\ Cardinality(S \ T) \in Nat
           /\ Cardinality(S \ T) = Cardinality(S) - Cardinality(T)
  <1>1. IsFiniteSet(T) /\ IsFiniteSet(S \ T) /\ Cardinality(T) \in Nat /\ Cardinality(S \ T) \in Nat
    <2>1. T \in SUBSET Tx /\ S \ T \in SUBSET Tx
      OBVIOUS
    <2> QED
      BY <2>1, TxFinite
  <1>2. (S \ T) \cup T = S /\ (S \ T) \cap T = {}
    OBVIOUS
  <1>3. Cardinality((S \ T) \cup T) = Cardinality(S \ T) + Cardinality(T) - Cardinality((S \ T) \cap T)
    BY <1>1, FS_Union
  <1>4. Cardinality(S) = Cardinality(S \ T) + Cardinality(T) - 0
    BY <1>2, <1>3, FS_EmptySet
  <1>5. Cardinality(S) \in Nat
    BY TxFinite
  <1> DEFINE c == Cardinality(S)
             d == Cardinality(T)
             e == Cardinality(S \ T)
  <1>6. c \in Nat /\ d \in Nat /\ e \in Nat /\ c = e + d - 0
    BY <1>1, <1>4, <1>5
  <1> HIDE DEF c, d, e
  <1>7. e = c - d
    BY <1>6
  <1> QED
    BY <1>6, <1>7 DEF c, d, e

\* Capping one account's list to n leaves at most n, and to zero or less nothing.
LEMMA CapLeaves ==
    ASSUME env \in Envs, NEW S \in SUBSET Tx, NEW n \in Int,
           \A t, u \in S : t.nonce = u.nonce => t = u
    PROVE  /\ Cap(S, n) \subseteq S
           /\ n <= 0 => Cap(S, n) = S
           /\ n >= 0 => Cardinality(S \ Cap(S, n)) <= n
  <1> DEFINE Below(t) == {u \in S : u.nonce < t.nonce}
             L == S \ Cap(S, n)
  <1>1. \A t \in S : Below(t) \in SUBSET Tx /\ IsFiniteSet(Below(t)) /\ Cardinality(Below(t)) \in Nat
    <2>1. \A t \in S : Below(t) \in SUBSET Tx
      OBVIOUS
    <2> HIDE DEF Below
    <2> QED
      BY <2>1, TxFinite
  <1>2. Cap(S, n) = {t \in S : Cardinality(Below(t)) >= n}
    BY DEF Cap
  <1> HIDE DEF Below
  <1>3. Cap(S, n) \subseteq S /\ (n <= 0 => Cap(S, n) = S)
    BY <1>1, <1>2
  <1>4. ASSUME n >= 0 PROVE Cardinality(L) <= n
    <2>1. L \in SUBSET Tx
      OBVIOUS
    <2>2. CASE L = {}
      BY <1>4, <2>2, FS_EmptySet
    <2>3. CASE L # {}
      <3>1. PICK m \in L : m.nonce = Highest(L) /\ \A t \in L : t.nonce <= m.nonce
        <4> HIDE DEF L
        <4> QED
          BY <2>1, <2>3, NonceRange
      <3>2. m \in S /\ Cardinality(Below(m)) < n
        BY <1>1, <1>2, <3>1
      <3>3. L \subseteq Below(m) \cup {m}
        <4>1. \A t \in L : t \in S /\ t.nonce \in Nat /\ m.nonce \in Nat
          BY <2>1, <3>1, EnvFacts
        <4>2. ASSUME NEW t \in L, t # m PROVE t.nonce < m.nonce
          <5>1. t.nonce # m.nonce
            BY <3>2, <4>1, <4>2
          <5>2. t.nonce <= m.nonce /\ t.nonce \in Nat /\ m.nonce \in Nat
            <6> HIDE DEF L
            <6> QED
              BY <3>1, <4>1, Zenon
          <5> QED
            BY <5>1, <5>2
        <4> QED
          BY <4>1, <4>2 DEF Below
      <3>4. /\ IsFiniteSet(Below(m) \cup {m})
            /\ Cardinality(Below(m) \cup {m}) <= Cardinality(Below(m)) + 1
        <4> DEFINE B == Below(m)
                   C == B \cup {m}
        <4>1. IsFiniteSet(B) /\ Cardinality(B) \in Nat
          BY <1>1, <3>2
        <4> HIDE DEF B
        <4>2. IsFiniteSet(C) /\ (Cardinality(C) = Cardinality(B) \/ Cardinality(C) = Cardinality(B) + 1)
          BY <4>1, FS_AddElement
        <4> HIDE DEF C
        <4>3. IsFiniteSet(C) /\ Cardinality(C) <= Cardinality(B) + 1
          BY <4>1, <4>2
        <4> QED
          BY <4>3 DEF C, B
      <3>5. Cardinality(L) <= Cardinality(Below(m) \cup {m})
        BY <3>3, <3>4, FS_Subset
      <3>6. /\ Cardinality(Below(m)) \in Nat /\ Cardinality(L) \in Nat
            /\ Cardinality(Below(m) \cup {m}) \in Nat
        BY <1>1, <2>1, <3>2, <3>4, TxFinite, FS_CardinalityType
      <3> HIDE DEF L
      <3> QED
        BY <3>2, <3>4, <3>5, <3>6
    <2> QED
      BY <2>2, <2>3
  <1> QED
    BY <1>3, <1>4

\* truncatePending stops at a level at which pending fits, or at AccountSlots.
LEMMA TruncatePendingLimits ==
    ASSUME env \in Envs, NEW P, PoolOK(P), NEW Q, Q = truncatePending(P)
    PROVE  WithinSlots(Q)
  <1> DEFINE spammers == {a \in Addr \ P.locals : Cardinality(Of(P.pending, a)) > AccountSlots}
             Above(level) == UNION {Cap(Of(P.pending, a), level) : a \in spammers}
             fits == {n \in AccountSlots .. Cardinality(P.pending) :
                        Cardinality(P.pending) - Cardinality(Above(n)) <= GlobalSlots}
             level == Max({AccountSlots} \cup fits)
             p1 == P.pending \ Above(level)
  <1>0. /\ P \in PoolRec /\ P.all = P.pending \cup P.queue /\ Distinct(P.all)
        /\ P.pending \in SUBSET Tx
    BY DEF PoolOK, Exact, PoolRec
  <1>1. Q.pending = p1 /\ Q.locals = P.locals
    <2> HIDE DEF level
    <2> QED
      BY <1>0 DEF truncatePending, PoolRec, level
  <1>2. AccountSlots \in Nat /\ GlobalSlots \in Nat /\ Cardinality(P.pending) \in Nat
    BY <1>0, EnvFacts, TxFinite
  <1>3. \A n : Above(n) \subseteq P.pending
    BY DEF Cap, Of
  <1>4. level \in {AccountSlots} \cup fits
    <2>1. fits \subseteq AccountSlots .. Cardinality(P.pending)
      OBVIOUS
    <2> HIDE DEF fits
    <2>2. IsFiniteSet(fits)
      <3>1. IsFiniteSet(AccountSlots .. Cardinality(P.pending))
        BY <1>2, <2>1, FS_Interval
      <3> QED
        BY <2>1, <3>1, FS_Subset
    <2>3. {AccountSlots} \cup fits \in SUBSET Nat /\ {AccountSlots} \cup fits # {}
      BY <1>2, <2>1
    <2>4. IsFiniteSet({AccountSlots} \cup fits)
      BY <2>2, FS_Singleton, FS_Union
    <2> QED
      BY <2>3, <2>4, MaxFacts
  <1> HIDE DEF level
  <1>5. CASE level \in fits
    <2>1. Cardinality(P.pending) - Cardinality(Above(level)) <= GlobalSlots
      BY <1>5
    <2>2. Cardinality(p1) = Cardinality(P.pending) - Cardinality(Above(level))
      <3> DEFINE C == Above(level)
      <3>1. C \in SUBSET P.pending
        BY <1>3
      <3> HIDE DEF C
      <3>2. Cardinality(P.pending \ C) = Cardinality(P.pending) - Cardinality(C)
        BY <1>0, <3>1, LessPart
      <3> QED
        BY <3>2 DEF C
    <2> QED
      BY <1>1, <2>1, <2>2 DEF WithinSlots
  <1>6. CASE level = AccountSlots
    <2> SUFFICES ASSUME NEW a \in Addr \ P.locals
                 PROVE  Cardinality(Of(p1, a)) <= AccountSlots
      BY <1>1 DEF WithinSlots
    <2> DEFINE S == Of(P.pending, a)
    <2>1. S \in SUBSET Tx /\ \A t, u \in S : t.nonce = u.nonce => t = u
      BY <1>0 DEF Of, Distinct, Same
    <2>2. CASE a \in spammers
      <3>1. Of(p1, a) \subseteq S \ Cap(S, AccountSlots)
        BY <1>6, <2>2 DEF Of
      <3> HIDE DEF S, p1
      <3>2. Cardinality(S \ Cap(S, AccountSlots)) <= AccountSlots
        BY <1>2, <2>1, CapLeaves
      <3>3. S \ Cap(S, AccountSlots) \in SUBSET Tx
        BY <2>1
      <3> DEFINE K == S \ Cap(S, AccountSlots)
                 M == Of(p1, a)
      <3>4. K \in SUBSET Tx /\ M \in SUBSET K /\ Cardinality(K) <= AccountSlots
        BY <3>1, <3>2, <3>3
      <3> HIDE DEF K, M
      <3>5. /\ IsFiniteSet(K) /\ Cardinality(K) \in Nat /\ M \in SUBSET Tx
        BY <3>4, TxFinite
      <3>6. Cardinality(M) <= Cardinality(K) /\ Cardinality(M) \in Nat
        BY <3>4, <3>5, FS_Subset, TxFinite
      <3>7. Cardinality(M) <= AccountSlots
        BY <1>2, <3>4, <3>5, <3>6
      <3> QED
        BY <3>7 DEF M
    <2>3. CASE a \notin spammers
      <3>1. Of(p1, a) \in SUBSET S
        BY DEF Of
      <3>2. ~(Cardinality(S) > AccountSlots)
        BY <2>3
      <3> HIDE DEF S, p1
      <3>3. IsFiniteSet(S) /\ Cardinality(S) \in Nat
        BY <2>1, TxFinite
      <3>4. Cardinality(Of(p1, a)) <= Cardinality(S) /\ Cardinality(Of(p1, a)) \in Nat
        BY <2>1, <3>1, <3>3, FS_Subset, TxFinite
      <3> QED
        BY <1>2, <3>2, <3>3, <3>4
    <2> QED
      BY <2>2, <2>3
  <1> QED
    BY <1>4, <1>5, <1>6

\* Every remote account has its place in the order of truncateQueue.
LEMMA OrderCovers ==
    ASSUME env \in Envs, NEW P, NEW order \in Orders(P)
    PROVE  /\ DOMAIN order \subseteq Nat \ {0}
           /\ \A i \in DOMAIN order : \A j \in 1 .. i - 1 : j \in DOMAIN order
           /\ \A i, j \in DOMAIN order : i # j => order[i] # order[j]
           /\ \A a \in Addr \ P.locals : \E i \in DOMAIN order : order[i] = a
  <1> DEFINE R == Addr \ P.locals
             D == 1 .. Cardinality(R)
  <1>1. order \in [D -> R] /\ \A i, j \in D : i # j => order[i] # order[j]
    BY DEF Orders, SetToSeqs
  <1>2. IsFiniteSet(R) /\ Cardinality(R) \in Nat
    <2>1. IsFiniteSet(Addr)
      <3> DEFINE f == [t \in Tx |-> t.from]
      <3>1. f \in Surjection(Tx, Addr)
        BY DEF Surjection, Addr
      <3>2. IsFiniteSet(Tx)
        BY TxFinite
      <3> QED
        BY <3>1, <3>2, FS_Surjection
    <2> QED
      BY <2>1, FS_Subset, FS_CardinalityType
  <1> HIDE DEF R
  <1>3. IsFiniteSet(D) /\ Cardinality(D) = Cardinality(R)
    BY <1>2, FS_Interval
  <1>4. D \subseteq Nat \ {0} /\ \A i \in D : \A j \in 1 .. i - 1 : j \in D
    BY <1>2
  <1> HIDE DEF D
  <1>5. order \in Injection(D, R)
    BY <1>1 DEF Injection, IsInjective
  <1>6. order \in Surjection(D, R)
    BY <1>2, <1>3, <1>5, FS_Injection
  <1>7. \A a \in R : \E i \in D : order[i] = a
    BY <1>6 DEF Surjection
  <1> QED
    BY <1>1, <1>4, <1>7 DEF R

\* truncateQueue drops whole accounts until what is left of the next one fits.
LEMMA TruncateQueueLimits ==
    ASSUME env \in Envs, NEW P, PoolOK(P), NEW order \in Orders(P),
           NEW Q, Q = truncateQueue(P, order)
    PROVE  WithinQueue(Q)
  <1> DEFINE Rest(i) == P.queue \ {t \in P.queue : \E j \in 1 .. i - 1 : t.from = order[j]}
             Drop(i) == Cardinality(Rest(i)) - GlobalQueue
             Dropped(i) == IF Drop(i) <= 0 THEN {}
                           ELSE LET list == Of(P.queue, order[i])
                                IN  Cap(list, Cardinality(list) - Drop(i))
             S == UNION {Dropped(i) : i \in DOMAIN order}
             Left == {i \in DOMAIN order : Of(Q.queue, order[i]) # {}}
  <1>0. /\ P \in PoolRec /\ P.all = P.pending \cup P.queue /\ Distinct(P.all)
        /\ P.queue \in SUBSET Tx /\ P.pending \cap P.queue = {}
    BY DEF PoolOK, Exact, PoolRec
  <1>1. Q = removeTx(P, S)
    BY DEF truncateQueue
  <1> HIDE DEF Dropped
  <1>2. PoolOK(Q) /\ Q.locals = P.locals /\ Q.all = P.all \ S /\ Q.queue \subseteq P.queue
    <2>1. QueueCut(P, Q)
      BY TruncateQueueFacts
    <2>2. Removed(P, S, Q)
      BY <1>1, RemoveFacts
    <2> QED
      BY <2>1, <2>2 DEF QueueCut, Removed, Frame
  <1>3. \A i \in DOMAIN order : Q.queue \cap Dropped(i) = {}
    BY <1>2 DEF PoolOK, Exact
  <1> HIDE DEF S
  <1>4. SUFFICES ASSUME NEW x \in Q.queue, x.from \notin P.locals
                 PROVE  Cardinality(Q.queue) <= GlobalQueue
    BY <1>2 DEF WithinQueue
  <1>5. x.from \in Addr \ P.locals
    BY <1>0, <1>2, <1>4 DEF Addr
  <1>6. PICK k \in Left : \A i \in Left : k <= i
    <2>1. DOMAIN order \subseteq Nat \ {0} /\ \E i \in DOMAIN order : order[i] = x.from
      BY <1>5, OrderCovers
    <2>2. Left \in SUBSET Nat /\ Left # {}
      BY <2>1, <1>4 DEF Of
    <2> HIDE DEF Left
    <2> QED
      BY <2>2, LeastElement
  <1>7. k \in DOMAIN order /\ k \in Nat \ {0} /\ Of(Q.queue, order[k]) # {}
    BY <1>6, OrderCovers
  <1> DEFINE list == Of(P.queue, order[k])
             rest == Rest(k)
             drop == Drop(k)
             gone == Dropped(k)
  <1>8. Q.queue \subseteq rest \ gone
    <2>1. \A j \in 1 .. k - 1 : j \notin Left
      BY <1>6, <1>7
    <2>2. \A j \in 1 .. k - 1 : j \in DOMAIN order
      BY <1>7, OrderCovers
    <2>3. \A t \in Q.queue : \A j \in 1 .. k - 1 : t.from # order[j]
      BY <2>1, <2>2 DEF Of
    <2> QED
      BY <1>2, <1>3, <1>7, <2>3
  <1>9. /\ list \in SUBSET rest /\ rest \in SUBSET Tx /\ list \in SUBSET Tx
        /\ \A t, u \in list : t.nonce = u.nonce => t = u
    <2>1. \A j \in 1 .. k - 1 : order[j] # order[k]
      BY <1>7, OrderCovers
    <2>2. list \in SUBSET rest
      BY <2>1 DEF Of
    <2> QED
      BY <1>0, <2>2 DEF Of, Distinct, Same
  <1>10. /\ GlobalQueue \in Nat /\ Cardinality(rest) \in Nat /\ Cardinality(list) \in Nat
         /\ IsFiniteSet(rest) /\ drop = Cardinality(rest) - GlobalQueue
         /\ gone = IF drop <= 0 THEN {} ELSE Cap(list, Cardinality(list) - drop)
    BY <1>9, EnvFacts, TxFinite DEF Dropped
  <1>a. Of(Q.queue, order[k]) \subseteq list \ gone
    BY <1>8, <1>2 DEF Of
  <1> HIDE DEF list, rest, drop, gone
  <1>11. gone \subseteq rest /\ Cardinality(rest \ gone) <= GlobalQueue
    <2>1. CASE drop <= 0
      <3>1. gone = {} /\ rest \ gone = rest
        BY <1>10, <2>1
      <3> QED
        BY <1>10, <2>1, <3>1
    <2>2. CASE drop > 0
      <3> DEFINE n == Cardinality(list) - drop
      <3>1. n \in Int /\ gone = Cap(list, n)
        BY <1>10, <2>2
      <3>2. /\ gone \subseteq list /\ (n <= 0 => gone = list)
            /\ n >= 0 => Cardinality(list \ gone) <= n
        <4> HIDE DEF n
        <4> QED
          BY <1>9, <3>1, CapLeaves
      <3>3. n > 0
        BY <1>7, <1>10, <1>a, <3>1, <3>2
      <3>4. Cardinality(list \ gone) <= n
        BY <3>1, <3>2, <3>3
      <3>5. /\ Cardinality(rest \ gone) = Cardinality(rest) - Cardinality(gone)
            /\ Cardinality(list \ gone) = Cardinality(list) - Cardinality(gone)
            /\ Cardinality(gone) \in Nat
        <4>1. gone \in SUBSET rest /\ gone \in SUBSET list
          BY <1>9, <3>2
        <4> QED
          BY <1>9, <4>1, LessPart
      <3>6. /\ Cardinality(list) - Cardinality(gone) <= Cardinality(list) - drop
            /\ drop = Cardinality(rest) - GlobalQueue
        BY <1>10, <3>4, <3>5
      <3>7. \A c, r, g, q \in Nat : c - g <= c - (r - q) => r - g <= q
        OBVIOUS
      <3>8. Cardinality(rest) - Cardinality(gone) <= GlobalQueue
        BY <1>10, <3>5, <3>6, <3>7
      <3> QED
        BY <1>9, <3>2, <3>5, <3>8
    <2> QED
      BY <1>10, <2>1, <2>2
  <1>12. Cardinality(Q.queue) <= Cardinality(rest \ gone)
    <2>1. rest \ gone \in SUBSET Tx
      BY <1>9
    <2> QED
      BY <1>8, <2>1, TxFinite, FS_Subset
  <1>13. Cardinality(Q.queue) \in Nat /\ Cardinality(rest \ gone) \in Nat
    <2>1. rest \ gone \in SUBSET Tx /\ Q.queue \in SUBSET Tx
      BY <1>0, <1>2, <1>9
    <2> QED
      BY <2>1, TxFinite
  <1> QED
    BY <1>10, <1>11, <1>12, <1>13

-----------------------------------------------------------------------------
(* The end of a run *)

\* The truncations drop remote transactions only, and enough of them.
Ended(P, Q) ==
    /\ PoolOK(Q) /\ Q.private = P.private /\ Q.locals = P.locals
    /\ Q.asLocal = P.asLocal \cap Q.all
    /\ Q.all \subseteq P.all /\ Q.pending \subseteq P.pending /\ Q.queue \subseteq P.queue
    /\ \A t \in P.all \ Q.all : t.from \notin P.locals
    /\ \A a \in Addr : Trimmed(P, Q, a)
    /\ WithinSlots(Q) /\ WithinQueue(Q)

\* That is how a run ends.
LEMMA EndFacts ==
    ASSUME env \in Envs, NEW P, PoolOK(P), NEW order \in Orders(P), NEW Q,
           Q = [Known(truncateQueue(truncatePending(P), order)) EXCEPT !.changes = 0]
    PROVE  Ended(P, Q)
  <1> DEFINE A == truncatePending(P)
             B == truncateQueue(A, order)
             C == Known(B)
  <1>1. PendingCut(P, A)
    BY TruncatePendingFacts
  <1>a. \A a \in Addr : Trimmed(P, A, a)
    BY <1>1, TruncateTrims
  <1>b. WithinSlots(A)
    BY TruncatePendingLimits
  <1> HIDE DEF A
  <1>2. PoolOK(A) /\ order \in Orders(A) /\ Frame(P, A) /\ A.locals = P.locals
    BY <1>1 DEF PendingCut, Frame, Orders
  <1>3. QueueCut(A, B)
    BY <1>2, TruncateQueueFacts
  <1>c. WithinQueue(B)
    BY <1>2, TruncateQueueLimits
  <1> HIDE DEF B
  <1>4. PoolOK(B) /\ Frame(A, B)
    BY <1>3 DEF QueueCut
  <1>5. Recalled(B, C)
    BY <1>4, KnownFacts
  <1> HIDE DEF C
  <1>6. Q = [C EXCEPT !.changes = 0] /\ PoolOK(C) /\ C \in PoolRec
    <2>1. Q = [C EXCEPT !.changes = 0]
      BY DEF C, B, A
    <2> QED
      BY <1>5, <2>1 DEF Recalled, PoolOK
  <1>7. /\ Q \in PoolRec /\ Q.pending = C.pending /\ Q.queue = C.queue /\ Q.all = C.all
        /\ Q.nonces = C.nonces /\ Q.private = C.private /\ Q.locals = C.locals
        /\ Q.asLocal = C.asLocal
    <2> DEFINE z == 0
    <2>1. Q = [C EXCEPT !.changes = z] /\ z \in Nat
      BY <1>6
    <2> HIDE DEF z
    <2> QED
      BY <1>6, <2>1 DEF PoolRec
  <1>8. /\ C.private = B.private /\ C.nonces = B.nonces /\ C.all = B.all
        /\ C.pending = B.pending /\ C.queue = B.queue /\ C.locals = B.locals
        /\ C.asLocal = B.asLocal \cap B.all
    BY <1>5 DEF Recalled
  <1>9. /\ B.private = A.private /\ B.nonces = A.nonces /\ B.all \subseteq A.all
        /\ B.pending = A.pending /\ B.queue \subseteq A.queue /\ B.locals = A.locals
        /\ B.asLocal = A.asLocal /\ \A t \in A.all \ B.all : t.from \notin A.locals
    BY <1>3 DEF QueueCut, Frame
  <1>10. /\ A.private = P.private /\ A.all \subseteq P.all
         /\ A.pending \subseteq P.pending /\ A.queue = P.queue /\ A.locals = P.locals
         /\ A.asLocal = P.asLocal /\ \A t \in P.all \ A.all : t.from \notin P.locals
    BY <1>1 DEF PendingCut, Frame
  <1>11. PoolOK(Q)
    BY <1>6, <1>7 DEF PoolOK, Exact
  <1>12. Q.pending = A.pending /\ Q.nonces = A.nonces
    BY <1>7, <1>8, <1>9
  <1>13. \A a \in Addr : Trimmed(P, Q, a)
    BY <1>a, <1>12 DEF Trimmed, PNonces
  <1>14. /\ Q.private = P.private /\ Q.locals = P.locals
         /\ Q.asLocal = P.asLocal \cap Q.all
         /\ Q.all \subseteq P.all /\ Q.pending \subseteq P.pending /\ Q.queue \subseteq P.queue
    BY <1>7, <1>8, <1>9, <1>10
  <1>15. \A t \in P.all \ Q.all : t.from \notin P.locals
    BY <1>7, <1>8, <1>9, <1>10
  <1>16. WithinSlots(Q) /\ WithinQueue(Q)
    BY <1>b, <1>c, <1>7, <1>8, <1>9, <1>12 DEF WithinSlots, WithinQueue
  <1> QED
    BY <1>11, <1>13, <1>14, <1>15, <1>16 DEF Ended

-----------------------------------------------------------------------------
(* What the steps do *)

\* The types, and that the lists make up the lookup set.
TypeInv ==
    /\ env \in Envs /\ PoolOK(pool) /\ state \in StateRec /\ head \in Heads
    /\ gasPrice \in Prices /\ dirty \subseteq Addr /\ partly \subseteq Addr
    /\ events \subseteq PrivateTx /\ announced \subseteq PrivateTx
    /\ public \subseteq PrivateTx /\ overtaken \subseteq PrivateTx

\* Adding transaction t to the pool, which is P once t is noted as private.
AddDone(t, private, P) ==
    /\ t \in Tx \ pool.all /\ (private => t \in PrivateTx)
    /\ PoolOK(P) /\ P.all = pool.all /\ P.pending = pool.pending /\ P.queue = pool.queue
    /\ P.locals = pool.locals /\ P.asLocal = pool.asLocal /\ P.nonces = pool.nonces
    /\ P.private = IF private THEN pool.private \cup {t} ELSE pool.private
    /\ Absorbed(P, {t}, state, pool')
    /\ t \in pool'.queue /\ t \notin pool'.asLocal /\ isFuture(pool, t)
          => pool'.pending = pool.pending
    /\ dirty \subseteq dirty' /\ dirty' \subseteq Addr
    /\ events' \subseteq events \cup ({t} \cap PrivateTx)
    /\ public' = IF private THEN public ELSE public \cup ({t} \cap PrivateTx)
    /\ UNCHANGED <<state, gasPrice, head, announced, overtaken, partly, env>>

\* A run that ends from the pool P, with D and E served.
RunDone(P, D, E, told, queued) ==
    /\ Ended(P, pool') /\ D \subseteq dirty /\ E \subseteq events
    /\ announced' = announced \cup ((told \cap PrivateTx) \ P.private)
    /\ events' = (events \ E) \cup (queued \cap PrivateTx) /\ dirty' = dirty \ D

\* The pools Q, U and R that promotion, demotion and setAll make of P.
ResetDone(P, s, queued, Q, U, R, D, E) ==
    /\ Promoted(P, {t.from : t \in P.queue}, s, Q) /\ Demoted(Q, s, U) /\ Renonced(U, s, R)
    /\ RunDone(R, D, E, {t \in E : t.nonce >= P.nonces[t.from]} \cup (Q.pending \ P.pending), queued)

\* The reset of the nonces to the state s, and the adding of transactions of T.
Reinject(T, s, P, o) ==
    /\ PoolOK(P) /\ P.all = pool.all /\ P.pending = pool.pending /\ P.queue = pool.queue
    /\ P.locals = pool.locals /\ P.asLocal = pool.asLocal /\ P.private = pool.private
    /\ P.nonces = [a \in Addr |-> GetNonce(s.chain, a)]
    /\ T \subseteq head \ s.chain /\ AddsAll(P, T, s, o)

\* Removing S, which holds no transaction of a local account's own.
RemoveDone(S, R) ==
    /\ Removed(pool, S, R) /\ Recalled(R, pool')
    /\ \A t \in S \cap pool.all : t.from \notin pool.locals \/ t \notin pool.asLocal
    /\ UNCHANGED <<state, head, dirty, events, announced, public, overtaken, partly, env>>

\* What AddTxs does.
LEMMA AddTxsDoes ==
    ASSUME TypeInv, NEW t \in Tx \ pool.all, NEW local, NEW private,
           private => t \in PrivateTx, AddTxs(t, local, private)
    PROVE  \E P : AddDone(t, private, P)
  <1> DEFINE pv == IF private THEN pool.private \cup {t} ELSE pool.private
             P == IF private THEN [pool EXCEPT !.private = @ \cup {t}] ELSE pool
  <1>0. env \in Envs /\ pool \in PoolRec /\ Exact(pool) /\ state \in StateRec
    BY DEF TypeInv, PoolOK
  <1>1. pv \in SUBSET PrivateTx
    BY <1>0 DEF PoolRec
  <1>2. P = [pool EXCEPT !.private = pv]
    BY <1>0 DEF PoolRec
  <1>3. PICK o \in addTxsLocked(P, <<t>>, local, state, gasPrice) :
             /\ pool' = Known(o.pool) /\ dirty' = dirty \cup o.dirty
             /\ events' = events \cup (o.events \cap PrivateTx)
    BY DEF AddTxs
  <1> HIDE DEF P
  <1>4. /\ P \in PoolRec /\ P.all = pool.all /\ P.pending = pool.pending /\ P.queue = pool.queue
        /\ P.locals = pool.locals /\ P.asLocal = pool.asLocal /\ P.nonces = pool.nonces
        /\ P.private = pv
    <2> HIDE DEF pv
    <2> QED
      BY <1>0, <1>1, <1>2 DEF PoolRec
  <1>5. PoolOK(P)
    BY <1>0, <1>4 DEF PoolOK, Exact
  <1>6. AddsOne(P, {t}, t, state, o)
    BY <1>0, <1>3, <1>5, AddOneFacts
  <1>7. PoolOK(o.pool) /\ Absorbed(P, {t}, state, o.pool)
    BY <1>6 DEF AddsOne, Absorbed
  <1>8. Recalled(o.pool, pool')
    BY <1>3, <1>7, KnownFacts
  <1>9. /\ PoolOK(pool') /\ pool'.private = o.pool.private /\ pool'.nonces = o.pool.nonces
        /\ pool'.all = o.pool.all /\ pool'.pending = o.pool.pending /\ pool'.queue = o.pool.queue
        /\ pool'.locals = o.pool.locals /\ pool'.asLocal = o.pool.asLocal \cap o.pool.all
    BY <1>8 DEF Recalled
  <1>10. Absorbed(P, {t}, state, pool')
    BY <1>7, <1>9 DEF Absorbed, LocalsMarked, Trimmed, PNonces
  <1>11. isFuture(pool, t) <=> isFuture(P, t)
    BY <1>4 DEF isFuture
  <1>12. t \in pool'.queue /\ t \notin pool'.asLocal /\ isFuture(pool, t)
            => pool'.pending = pool.pending
    <2>1. t \in o.pool.queue => t \in o.pool.all
      BY <1>7 DEF PoolOK, Exact
    <2> QED
      BY <1>4, <1>6, <1>9, <1>11, <2>1 DEF AddsOne
  <1>13. t.from \in Addr /\ dirty \subseteq Addr
    BY <1>0, EnvFacts DEF TypeInv
  <1>14. /\ dirty \subseteq dirty' /\ dirty' \subseteq Addr
         /\ events' \subseteq events \cup ({t} \cap PrivateTx)
    BY <1>3, <1>6, <1>13 DEF AddsOne
  <1>15. /\ public' = IF private THEN public ELSE public \cup ({t} \cap PrivateTx)
         /\ UNCHANGED <<state, gasPrice, head, announced, overtaken, partly, env>>
    BY DEF AddTxs
  <1>16. AddDone(t, private, P)
    BY <1>4, <1>5, <1>10, <1>12, <1>14, <1>15 DEF AddDone
  <1> QED
    BY <1>16

\* What FinishRun does.
LEMMA FinishRunDoes ==
    ASSUME env \in Envs, NEW P, PoolOK(P), NEW D \in SUBSET dirty, NEW E \in SUBSET events,
           NEW told, NEW queued, FinishRun(P, D, E, told, queued)
    PROVE  RunDone(P, D, E, told, queued)
  <1>1. Ended(P, pool')
    BY EndFacts DEF FinishRun
  <1> QED
    BY <1>1 DEF FinishRun, RunDone

\* What AfterReset does.
LEMMA AfterResetDoes ==
    ASSUME env \in Envs, NEW P, PoolOK(P), NEW s \in StateRec, NEW queued,
           AfterReset(P, s, queued)
    PROVE  \E Q, U, R : \E D \in SUBSET dirty, E \in SUBSET events :
              ResetDone(P, s, queued, Q, U, R, D, E)
  <1> DEFINE A == {t.from : t \in P.queue}
             Q == promoteExecutables(P, A, s)
             U == demoteUnexecutables(Q, s)
             R == setAll(U, s)
             told(E) == {t \in E : t.nonce >= P.nonces[t.from]} \cup (Q.pending \ P.pending)
  <1>1. PICK D \in SUBSET dirty, E \in SUBSET events : FinishRun(R, D, E, told(E), queued)
    BY DEF AfterReset
  <1>2. A \in SUBSET Addr
    BY EnvFacts DEF PoolOK, PoolRec
  <1> HIDE DEF A
  <1>3. Promoted(P, A, s, Q)
    BY <1>2, ExecFacts
  <1> HIDE DEF Q
  <1>4. PoolOK(Q)
    BY <1>3 DEF Promoted
  <1>5. Demoted(Q, s, U)
    BY <1>4, DemoteFacts
  <1> HIDE DEF U
  <1>6. PoolOK(U)
    BY <1>5 DEF Demoted
  <1>7. Renonced(U, s, R)
    BY <1>6, SetAllFacts
  <1> HIDE DEF R
  <1>8. PoolOK(R)
    BY <1>7 DEF Renonced
  <1> HIDE DEF told
  <1>9. RunDone(R, D, E, told(E), queued)
    BY <1>1, <1>8, FinishRunDoes
  <1>10. ResetDone(P, s, queued, Q, U, R, D, E)
    BY <1>3, <1>5, <1>7, <1>9 DEF ResetDone, A, told
  <1> QED
    BY <1>10

\* The steps, by what they do to the pool.
DoesAdd == \E t, P : AddDone(t, FALSE, P) \/ AddDone(t, TRUE, P)
DoesPromote ==
    /\ \E D, E, P : /\ Promoted(pool, D, state, P)
                    /\ RunDone(P, D, E, E \cup (P.pending \ pool.pending), {})
    /\ UNCHANGED <<state, gasPrice, head, public, overtaken, partly, env>>
DoesReset ==
    \E T, s, P, o, Q, U, R, D, E :
        /\ s \in StateRec /\ Reinject(T, s, P, o)
        /\ ResetDone(o.pool, s, o.events, Q, U, R, D, E)
        /\ partly' = partly \cup PartlyBack(o.pool, s.chain)
        /\ state' = s /\ NewHead(s.chain)
        /\ UNCHANGED <<gasPrice, env>>
DoesFail ==
    /\ \E Q, U, R, D, E : ResetDone(pool, state, {}, Q, U, R, D, E)
    /\ \E new \in Heads : NewHead(new)
    /\ UNCHANGED <<state, gasPrice, partly, env>>
DoesRemove == gasPrice' \in Prices /\ \E S, R : RemoveDone(S, R)

\* What addTxs of a local or remote transaction does.
LEMMA AddDoes ==
    ASSUME TypeInv, AddLocal \/ AddRemote \/ AddPrivateRemote
    PROVE  DoesAdd
  <1>1. CASE AddLocal \/ AddRemote
    <2>1. PICK t \in Tx \ pool.all : AddTxs(t, ~NoLocals, FALSE) \/ AddTxs(t, FALSE, FALSE)
      BY <1>1 DEF AddLocal, AddRemote
    <2>2. \E P : AddDone(t, FALSE, P)
      <3>1. CASE AddTxs(t, ~NoLocals, FALSE)
        BY <3>1, AddTxsDoes
      <3>2. CASE AddTxs(t, FALSE, FALSE)
        BY <3>2, AddTxsDoes
      <3> QED
        BY <2>1, <3>1, <3>2
    <2> QED
      BY <2>2 DEF DoesAdd
  <1>2. CASE AddPrivateRemote
    <2>1. PICK t \in PrivateTx \ pool.all : AddTxs(t, FALSE, TRUE)
      BY <1>2 DEF AddPrivateRemote
    <2>2. t \in Tx \ pool.all
      BY EnvFacts DEF TypeInv
    <2>3. \E P : AddDone(t, TRUE, P)
      BY <2>1, <2>2, AddTxsDoes
    <2> QED
      BY <2>3 DEF DoesAdd
  <1> QED
    BY <1>1, <1>2

\* What runReorg without a reset does.
LEMMA PromoteDoes ==
    ASSUME TypeInv, RunPromote
    PROVE  DoesPromote
  <1>1. PICK D \in SUBSET dirty, E \in SUBSET events :
           FinishRun(promoteExecutables(pool, D, state), D, E,
                     E \cup (promoteExecutables(pool, D, state).pending \ pool.pending), {})
    BY DEF RunPromote
  <1> DEFINE P == promoteExecutables(pool, D, state)
             told == E \cup (P.pending \ pool.pending)
  <1>2. FinishRun(P, D, E, told, {})
    BY <1>1
  <1>3. env \in Envs /\ PoolOK(pool) /\ state \in StateRec /\ D \in SUBSET Addr
    BY DEF TypeInv
  <1>4. Promoted(pool, D, state, P)
    BY <1>3, ExecFacts
  <1> HIDE DEF P
  <1>5. PoolOK(P)
    BY <1>4 DEF Promoted
  <1> HIDE DEF told
  <1>6. RunDone(P, D, E, told, {})
    BY <1>2, <1>3, <1>5, FinishRunDoes
  <1>7. UNCHANGED <<state, gasPrice, head, public, overtaken, partly, env>>
    BY DEF RunPromote
  <1> QED
    BY <1>4, <1>6, <1>7 DEF DoesPromote, told

\* The nonces of a reset are those of the new state.
LEMMA ResetNonces ==
    ASSUME TypeInv, NEW s \in StateRec, NEW P,
           P = [pool EXCEPT !.nonces = [a \in Addr |-> GetNonce(s.chain, a)]]
    PROVE  /\ PoolOK(P) /\ P.all = pool.all /\ P.pending = pool.pending /\ P.queue = pool.queue
           /\ P.locals = pool.locals /\ P.asLocal = pool.asLocal /\ P.private = pool.private
           /\ P.nonces = [a \in Addr |-> GetNonce(s.chain, a)]
  <1> DEFINE ns == [a \in Addr |-> GetNonce(s.chain, a)]
  <1>1. ns \in [Addr -> Nat]
    <2>1. env \in Envs /\ s.chain \in SUBSET Tx
      BY EnvFacts DEF TypeInv, StateRec
    <2> QED
      BY <2>1, NonceType
  <1>2. P = [pool EXCEPT !.nonces = ns] /\ pool \in PoolRec /\ Exact(pool)
    BY DEF TypeInv, PoolOK
  <1> HIDE DEF ns
  <1>3. /\ P \in PoolRec /\ P.all = pool.all /\ P.pending = pool.pending /\ P.queue = pool.queue
        /\ P.locals = pool.locals /\ P.asLocal = pool.asLocal /\ P.private = pool.private
        /\ P.nonces = ns
    BY <1>1, <1>2 DEF PoolRec
  <1> QED
    BY <1>2, <1>3 DEF PoolOK, Exact, ns

\* An order of the elements of a set is a sequence of them.
LEMMA OrderIsSeq ==
    ASSUME NEW T, Cardinality(T) \in Nat, NEW seq \in SetToSeqs(T)
    PROVE  seq \in Seq(T)
  <1>1. seq \in [1 .. Cardinality(T) -> T]
    BY DEF SetToSeqs
  <1> QED
    BY <1>1, SeqDef

\* What runReorg with a reset does.
LEMMA ResetDoes ==
    ASSUME TypeInv, RunReset
    PROVE  DoesReset
  <1>0. env \in Envs /\ PoolOK(pool)
    BY DEF TypeInv
  <1> DEFINE S(n, b, g) == [chain |-> n, balance |-> b, maxGas |-> g]
             N(s) == [pool EXCEPT !.nonces = [a \in Addr |-> GetNonce(s.chain, a)]]
  <1>1. PICK new \in Heads, balance \in [Addr -> Balances], maxGas \in GasLimits :
           /\ \E T \in Reinjected(new) : \E seq \in SetToSeqs(T) :
                \E o \in addTxsLocked(N(S(new, balance, maxGas)), seq, FALSE,
                                     S(new, balance, maxGas), gasPrice) :
                  /\ AfterReset(o.pool, S(new, balance, maxGas), o.events)
                  /\ partly' = partly \cup PartlyBack(o.pool, new)
           /\ state' = S(new, balance, maxGas) /\ NewHead(new) /\ UNCHANGED <<gasPrice, env>>
    BY ZenonT(30) DEF RunReset
  <1> DEFINE s == S(new, balance, maxGas)
             P == N(s)
  <1>a. PICK T \in Reinjected(new) : \E seq \in SetToSeqs(T) :
          \E o \in addTxsLocked(P, seq, FALSE, s, gasPrice) :
             AfterReset(o.pool, s, o.events) /\ partly' = partly \cup PartlyBack(o.pool, new)
    BY <1>1
  <1>2. PICK seq \in SetToSeqs(T) :
          \E o \in addTxsLocked(P, seq, FALSE, s, gasPrice) :
             AfterReset(o.pool, s, o.events) /\ partly' = partly \cup PartlyBack(o.pool, new)
    BY <1>a
  <1>3. PICK o \in addTxsLocked(P, seq, FALSE, s, gasPrice) :
             AfterReset(o.pool, s, o.events) /\ partly' = partly \cup PartlyBack(o.pool, new)
    BY <1>2
  <1>4. s \in StateRec /\ s.chain = new
    BY DEF StateRec
  <1>5. T \subseteq head \ s.chain
    BY <1>4, <1>a DEF Reinjected
  <1>6. T \in SUBSET Tx
    BY <1>0, <1>5, EnvFacts DEF TypeInv
  <1>7. state' = s /\ NewHead(s.chain) /\ UNCHANGED <<gasPrice, env>>
    BY <1>1, <1>4
  <1> HIDE DEF s, S
  <1>8. /\ PoolOK(P) /\ P.all = pool.all /\ P.pending = pool.pending /\ P.queue = pool.queue
        /\ P.locals = pool.locals /\ P.asLocal = pool.asLocal /\ P.private = pool.private
        /\ P.nonces = [a \in Addr |-> GetNonce(s.chain, a)]
    BY <1>4, ResetNonces
  <1> HIDE DEF P, N
  <1>9. seq \in Seq(T)
    BY <1>0, <1>2, <1>6, TxFinite, OrderIsSeq
  <1>10. AddsAll(P, T, s, o)
    BY <1>0, <1>3, <1>4, <1>6, <1>8, <1>9, AddLockedFacts
  <1>11. Reinject(T, s, P, o) /\ PoolOK(o.pool)
    BY <1>5, <1>8, <1>10 DEF Reinject, AddsAll, Absorbed
  <1>12. PICK Q, U, R : \E D \in SUBSET dirty, E \in SUBSET events :
             ResetDone(o.pool, s, o.events, Q, U, R, D, E)
    BY <1>0, <1>3, <1>4, <1>11, AfterResetDoes
  <1>13. PICK D \in SUBSET dirty, E \in SUBSET events : ResetDone(o.pool, s, o.events, Q, U, R, D, E)
    BY <1>12
  <1> QED
    BY <1>3, <1>4, <1>7, <1>11, <1>13 DEF DoesReset

\* What runReorg with a reset that fails does.
LEMMA FailDoes ==
    ASSUME TypeInv, RunResetFails
    PROVE  DoesFail
  <1>1. env \in Envs /\ PoolOK(pool) /\ state \in StateRec
    BY DEF TypeInv
  <1>2. AfterReset(pool, state, {}) /\ UNCHANGED <<state, gasPrice, partly, env>>
        /\ \E new \in Heads : NewHead(new)
    BY DEF RunResetFails
  <1>3. PICK Q, U, R : \E D \in SUBSET dirty, E \in SUBSET events :
             ResetDone(pool, state, {}, Q, U, R, D, E)
    BY <1>1, <1>2, AfterResetDoes
  <1> QED
    BY <1>2, <1>3 DEF DoesFail

\* What the eviction tick and SetGasPrice do.
LEMMA RemoveDoes ==
    ASSUME TypeInv, Evict \/ SetGasPrice
    PROVE  DoesRemove
  <1>0. env \in Envs /\ PoolOK(pool) /\ gasPrice \in Prices
    BY DEF TypeInv
  <1>1. \E S : /\ pool' = Known(removeTx(pool, S)) /\ gasPrice' \in Prices
               /\ \A t \in S \cap pool.all : t.from \notin pool.locals \/ t \notin pool.asLocal
               /\ UNCHANGED <<state, head, dirty, events, announced, public, overtaken, partly, env>>
    <2>1. CASE Evict
      <3>1. PICK a \in {t.from : t \in pool.queue} \ pool.locals :
                pool' = Known(removeTx(pool, Of(pool.queue, a)))
        BY <2>1 DEF Evict
      <3>2. \A t \in Of(pool.queue, a) : t.from \notin pool.locals
        BY <3>1 DEF Of
      <3>3. UNCHANGED <<state, gasPrice, head, dirty, events, announced, public, overtaken, partly, env>>
        BY <2>1 DEF Evict
      <3> QED
        BY <1>0, <3>1, <3>2, <3>3
    <2>2. CASE SetGasPrice
      <3>1. PICK price \in Prices \ {gasPrice} :
                /\ gasPrice' = price
                /\ pool' = Known(removeTx(pool, {t \in Remotes(pool) :
                                                    t.price < price /\ price > gasPrice}))
        BY <2>2 DEF SetGasPrice
      <3> DEFINE S == {t \in Remotes(pool) : t.price < price /\ price > gasPrice}
      <3>2. \A t \in S : t \notin pool.asLocal
        BY DEF Remotes
      <3>3. UNCHANGED <<state, head, dirty, events, announced, public, overtaken, partly, env>>
        BY <2>2 DEF SetGasPrice
      <3>4. pool' = Known(removeTx(pool, S)) /\ gasPrice' \in Prices
        BY <3>1
      <3> HIDE DEF S
      <3> QED
        BY <3>2, <3>3, <3>4
    <2> QED
      BY <2>1, <2>2
  <1>2. PICK S : /\ pool' = Known(removeTx(pool, S)) /\ gasPrice' \in Prices
                 /\ \A t \in S \cap pool.all : t.from \notin pool.locals \/ t \notin pool.asLocal
                 /\ UNCHANGED <<state, head, dirty, events, announced, public, overtaken, partly, env>>
    BY <1>1
  <1> DEFINE R == removeTx(pool, S)
  <1>3. Removed(pool, S, R)
    BY <1>0, RemoveFacts
  <1> HIDE DEF R
  <1>4. PoolOK(R) /\ pool' = Known(R)
    BY <1>2, <1>3 DEF Removed, R
  <1>5. Recalled(R, pool')
    BY <1>4, KnownFacts
  <1> QED
    BY <1>2, <1>3, <1>5 DEF DoesRemove, RemoveDone

\* Every step is one of these.
LEMMA NextDoes ==
    ASSUME TypeInv, Next
    PROVE  DoesAdd \/ DoesPromote \/ DoesReset \/ DoesFail \/ DoesRemove \/ Prune
  BY AddDoes, PromoteDoes, ResetDoes, FailDoes, RemoveDoes DEF Next

-----------------------------------------------------------------------------
(* The lookup set *)

\* The lists are initially empty.
LEMMA InitTypeInv == Init => TypeInv
  <1> SUFFICES ASSUME Init PROVE TypeInv
    OBVIOUS
  <1>0. env \in Envs
    BY DEF Init
  <1>1. PoolOK(pool)
    <2>1. Locals \in SUBSET Addr
      BY <1>0, EnvFacts
    <2>2. pool \in PoolRec
      BY <2>1 DEF Init, PoolRec
    <2>3. Exact(pool)
      BY DEF Init, Exact, Distinct
    <2> QED
      BY <2>2, <2>3 DEF PoolOK
  <1>2. state \in StateRec /\ head \in Heads
    BY <1>0, EnvFacts DEF Init, StateRec
  <1>3. gasPrice \in Prices
    BY <1>0, EnvFacts, MinFacts DEF Init
  <1> QED
    BY <1>0, <1>1, <1>2, <1>3 DEF Init, TypeInv

\* Every step keeps the types and the lookup set exact.
LEMMA NextTypeInv == TypeInv /\ [Next]_vars => TypeInv'
  <1> SUFFICES ASSUME TypeInv, [Next]_vars PROVE TypeInv'
    OBVIOUS
  <1> DEFINE Goal == /\ env' = env /\ PoolOK(pool') /\ state' \in StateRec /\ head' \in Heads
                     /\ gasPrice' \in Prices /\ dirty' \subseteq Addr /\ partly' \subseteq Addr
                     /\ events' \subseteq PrivateTx /\ announced' \subseteq PrivateTx
                     /\ public' \subseteq PrivateTx /\ overtaken' \subseteq PrivateTx
  <1>a. ASSUME Goal PROVE TypeInv'
    BY <1>a DEF TypeInv, PoolOK, PoolRec, Exact, Distinct, Same, StateRec, Tx, PrivateTx,
                Addr, Heads, Balances, Prices, GasLimits
  <1>b. /\ env \in Envs /\ PoolOK(pool) /\ state \in StateRec /\ head \in Heads
        /\ gasPrice \in Prices /\ dirty \subseteq Addr /\ partly \subseteq Addr
        /\ events \subseteq PrivateTx /\ announced \subseteq PrivateTx
        /\ public \subseteq PrivateTx /\ overtaken \subseteq PrivateTx
    BY DEF TypeInv
  <1>c. ASSUME NEW c, NewHead(c)
        PROVE  head' = c /\ public' \subseteq PrivateTx /\ overtaken' \subseteq PrivateTx
    BY <1>b, <1>c DEF NewHead
  <1>1. CASE DoesAdd
    <2>1. PICK t, P : AddDone(t, FALSE, P) \/ AddDone(t, TRUE, P)
      BY <1>1 DEF DoesAdd
    <2>2. /\ PoolOK(pool') /\ dirty' \subseteq Addr /\ events' \subseteq PrivateTx
          /\ public' \subseteq PrivateTx
          /\ UNCHANGED <<state, gasPrice, head, announced, overtaken, partly, env>>
      BY <1>b, <2>1 DEF AddDone, Absorbed
    <2> QED
      BY <1>a, <1>b, <2>2
  <1>2. CASE DoesPromote
    <2>1. PICK D, E, P : RunDone(P, D, E, E \cup (P.pending \ pool.pending), {})
      BY <1>2 DEF DoesPromote
    <2>2. /\ PoolOK(pool') /\ dirty' \subseteq Addr /\ events' \subseteq PrivateTx
          /\ announced' \subseteq PrivateTx
      BY <1>b, <2>1 DEF RunDone, Ended
    <2>3. UNCHANGED <<state, gasPrice, head, public, overtaken, partly, env>>
      BY <1>2 DEF DoesPromote
    <2> QED
      BY <1>a, <1>b, <2>2, <2>3
  <1>d. ASSUME NEW P, NEW s, NEW queued, NEW Q, NEW U, NEW R, NEW D, NEW E,
               ResetDone(P, s, queued, Q, U, R, D, E)
        PROVE  /\ PoolOK(pool') /\ dirty' \subseteq Addr /\ events' \subseteq PrivateTx
               /\ announced' \subseteq PrivateTx
    BY <1>b, <1>d DEF ResetDone, RunDone, Ended
  <1>3. CASE DoesReset
    <2>1. PICK T, s, P, o, Q, U, R, D, E :
             /\ s \in StateRec /\ ResetDone(o.pool, s, o.events, Q, U, R, D, E)
             /\ partly' = partly \cup PartlyBack(o.pool, s.chain)
             /\ state' = s /\ NewHead(s.chain) /\ UNCHANGED <<gasPrice, env>>
      BY <1>3 DEF DoesReset
    <2>2. s.chain \in Heads
      BY <2>1 DEF StateRec
    <2>3. PartlyBack(o.pool, s.chain) \subseteq Addr
      BY DEF PartlyBack
    <2>4. head' = s.chain /\ public' \subseteq PrivateTx /\ overtaken' \subseteq PrivateTx
      BY <1>c, <2>1
    <2>5. /\ PoolOK(pool') /\ dirty' \subseteq Addr /\ events' \subseteq PrivateTx
          /\ announced' \subseteq PrivateTx
      BY <1>d, <2>1
    <2> QED
      BY <1>a, <1>b, <2>1, <2>2, <2>3, <2>4, <2>5
  <1>4. CASE DoesFail
    <2>1. PICK Q, U, R, D, E : ResetDone(pool, state, {}, Q, U, R, D, E)
      BY <1>4 DEF DoesFail
    <2>2. PICK new \in Heads : NewHead(new)
      BY <1>4 DEF DoesFail
    <2>3. head' = new /\ public' \subseteq PrivateTx /\ overtaken' \subseteq PrivateTx
      BY <1>c, <2>2
    <2>4. /\ PoolOK(pool') /\ dirty' \subseteq Addr /\ events' \subseteq PrivateTx
          /\ announced' \subseteq PrivateTx
      BY <1>d, <2>1
    <2>5. UNCHANGED <<state, gasPrice, partly, env>>
      BY <1>4 DEF DoesFail
    <2> QED
      BY <1>a, <1>b, <2>2, <2>3, <2>4, <2>5
  <1>5. CASE DoesRemove
    <2>1. PICK S, R : RemoveDone(S, R)
      BY <1>5 DEF DoesRemove
    <2>2. /\ PoolOK(pool') /\ gasPrice' \in Prices
          /\ UNCHANGED <<state, head, dirty, events, announced, public, overtaken, partly, env>>
      BY <1>5, <2>1 DEF DoesRemove, RemoveDone, Recalled
    <2> QED
      BY <1>a, <1>b, <2>2
  <1>6. CASE Prune
    <2>1. PICK t \in pool.private :
             /\ pool' = [pool EXCEPT !.private = @ \ {t}] /\ public' = public \cup {t}
             /\ UNCHANGED <<state, gasPrice, head, dirty, events, announced, overtaken, partly, env>>
      BY <1>6 DEF Prune
    <2> DEFINE pv == pool.private \ {t}
    <2>2. pool \in PoolRec /\ Exact(pool) /\ t \in PrivateTx /\ pv \in SUBSET PrivateTx
      BY <1>b DEF PoolOK, PoolRec
    <2>3. pool' = [pool EXCEPT !.private = pv]
      BY <2>1
    <2> HIDE DEF pv
    <2>4. /\ pool' \in PoolRec /\ pool'.all = pool.all /\ pool'.pending = pool.pending
          /\ pool'.queue = pool.queue
      BY <2>2, <2>3 DEF PoolRec
    <2>5. PoolOK(pool')
      BY <2>2, <2>4 DEF PoolOK, Exact
    <2> QED
      BY <1>a, <1>b, <2>1, <2>2, <2>5
  <1>7. CASE UNCHANGED vars
    <2>1. Goal
      BY <1>b, <1>7 DEF vars
    <2> QED
      BY <1>a, <2>1
  <1> QED
    BY <1>1, <1>2, <1>3, <1>4, <1>5, <1>6, <1>7, NextDoes

\* The types hold in every reachable state.
THEOREM TypeInvariant == Spec => []TypeInv
  BY InitTypeInv, NextTypeInv, PTL DEF Spec

\* The invariant gives the types and the exact lookup set of the specification.
LEMMA TypeInvSuffices == TypeInv => TypeOK /\ LookupExact
  <1> SUFFICES ASSUME TypeInv PROVE TypeOK /\ LookupExact
    OBVIOUS
  <1>1. /\ pool \in PoolRec /\ pool.all = pool.pending \cup pool.queue
        /\ pool.pending \cap pool.queue = {} /\ Distinct(pool.all)
    BY DEF TypeInv, PoolOK, Exact
  <1>2. /\ pool.pending \subseteq Tx /\ pool.queue \subseteq Tx /\ pool.all \subseteq Tx
        /\ pool.asLocal \subseteq Tx /\ pool.locals \subseteq Addr
        /\ pool.private \subseteq PrivateTx
        /\ pool.nonces \in [Addr -> Nat] /\ pool.changes \in Nat
    BY <1>1 DEF PoolRec
  <1>3. \A t \in pool.pending : At(pool.pending, t) = {t} /\ At(pool.queue, t) = {}
    BY <1>1 DEF At, Distinct, Same
  <1>4. \A t \in pool.queue : At(pool.queue, t) = {t}
    BY <1>1 DEF At, Distinct, Same
  <1>5. state.chain \in Heads /\ state.balance \in [Addr -> Balances] /\ state.maxGas \in GasLimits
    BY DEF TypeInv, StateRec
  <1>6. \A S \in {pool.pending, pool.queue} : S \subseteq Tx /\ \A t \in S : At(S, t) = {t}
    BY <1>2, <1>3, <1>4
  <1>7. TypeOK
    BY <1>2, <1>5, <1>6 DEF TypeOK, TypeInv
  <1> QED
    BY <1>1, <1>3, <1>7 DEF LookupExact

\* Type correctness of the pool.
THEOREM TypeCorrect == Spec => []TypeOK
  BY TypeInvariant, TypeInvSuffices, PTL

\* Whatever replacements, promotions, demotions, evictions and reinjections
\* happen, all of the pool is exactly its pending and queued transactions, and
\* no nonce is both.
THEOREM LookupIsExact == Spec => []LookupExact
  BY TypeInvariant, TypeInvSuffices, PTL

-----------------------------------------------------------------------------
(* Future transactions *)

\* Only adding a transaction, outside a reset, makes one known.
LEMMA FutureStep ==
    ASSUME TypeInv, Next, NEW t \in (pool'.all \ pool.all) \cap pool'.queue,
           head' = head, isFuture(pool, t), t \notin pool'.asLocal
    PROVE  pool.pending \subseteq pool'.pending
  <1>1. CASE DoesAdd
    <2>1. PICK u, P : AddDone(u, FALSE, P) \/ AddDone(u, TRUE, P)
      BY <1>1 DEF DoesAdd
    <2>2. t = u
      BY <2>1 DEF AddDone, Absorbed
    <2> QED
      BY <2>1, <2>2 DEF AddDone
  <1>2. CASE DoesPromote
    BY <1>2 DEF DoesPromote, RunDone, Promoted, Ended
  <1>3. CASE DoesReset
    <2>1. PICK T, s, P, o, Q, U, R, D, E :
             /\ Reinject(T, s, P, o) /\ ResetDone(o.pool, s, o.events, Q, U, R, D, E)
             /\ NewHead(s.chain)
      BY <1>3 DEF DoesReset
    <2>2. T = {}
      BY <2>1 DEF NewHead, Reinject
    <2>3. o.pool.all \subseteq pool.all
      BY <2>1, <2>2 DEF Reinject, AddsAll, Absorbed
    <2>4. Q.all \subseteq o.pool.all /\ U.all \subseteq Q.all /\ R.all = U.all /\ pool'.all \subseteq R.all
      BY <2>1 DEF ResetDone, RunDone, Promoted, Demoted, Renonced, Ended
    <2> QED
      BY <2>3, <2>4
  <1>4. CASE DoesFail
    <2>1. PICK Q, U, R, D, E : ResetDone(pool, state, {}, Q, U, R, D, E)
      BY <1>4 DEF DoesFail
    <2>2. Q.all \subseteq pool.all /\ U.all \subseteq Q.all /\ R.all = U.all /\ pool'.all \subseteq R.all
      BY <2>1 DEF ResetDone, RunDone, Promoted, Demoted, Renonced, Ended
    <2> QED
      BY <2>2
  <1>5. CASE DoesRemove
    BY <1>5 DEF DoesRemove, RemoveDone, Removed, Recalled
  <1>6. CASE Prune
    <2>1. pool \in PoolRec
      BY DEF TypeInv, PoolOK
    <2> QED
      BY <1>6, <2>1 DEF Prune, PoolRec
  <1> QED
    BY <1>1, <1>2, <1>3, <1>4, <1>5, <1>6, NextDoes

\* A future remote transaction that is added, whatever is dropped for it,
\* leaves every pending transaction in place.
THEOREM FutureNeverChurns == Spec => FutureKeepsPending
  <1> DEFINE A == \A t \in (pool.all' \ pool.all) \cap pool.queue' :
                     head' = head /\ isFuture(pool, t) /\ t \notin pool'.asLocal
                         => pool.pending \subseteq pool.pending'
  <1>1. TypeInv /\ [Next]_vars => [A]_vars
    BY FutureStep
  <1> QED
    BY <1>1, TypeInvariant, PTL DEF Spec, FutureKeepsPending

-----------------------------------------------------------------------------
(* What runs restore *)

\* Every run ends with the truncations, and nothing else serves a request for
\* promotion or follows a head.
LEMMA LimitsStep ==
    ASSUME TypeInv, Next, dirty \ dirty' # {} \/ head' # head
    PROVE  WithinSlots(pool') /\ WithinQueue(pool')
  <1>1. CASE DoesAdd
    BY <1>1 DEF DoesAdd, AddDone
  <1>2. CASE DoesPromote
    BY <1>2 DEF DoesPromote, RunDone, Ended
  <1>3. CASE DoesReset
    BY <1>3 DEF DoesReset, ResetDone, RunDone, Ended
  <1>4. CASE DoesFail
    BY <1>4 DEF DoesFail, ResetDone, RunDone, Ended
  <1>5. CASE DoesRemove
    BY <1>5 DEF DoesRemove, RemoveDone
  <1>6. CASE Prune
    BY <1>6 DEF Prune
  <1> QED
    BY <1>1, <1>2, <1>3, <1>4, <1>5, <1>6, NextDoes

\* After every run the pool is within its limits, whatever promotion, demotion and
\* reinjection have put into the lists and in whatever order accounts are visited.
THEOREM LimitsRestored == Spec => RunsRestoreLimits
  <1> DEFINE A == dirty \ dirty' # {} \/ head' # head
                     => /\ \/ Cardinality(pool.pending') <= GlobalSlots
                           \/ \A a \in Addr \ pool'.locals :
                                 Cardinality(Of(pool.pending', a)) <= AccountSlots
                        /\ \/ Cardinality(pool.queue') <= GlobalQueue
                           \/ \A t \in pool.queue' : t.from \in pool'.locals
  <1>1. TypeInv /\ [Next]_vars => [A]_vars
    BY LimitsStep DEF WithinSlots, WithinQueue
  <1> QED
    BY <1>1, TypeInvariant, PTL DEF Spec, RunsRestoreLimits

-----------------------------------------------------------------------------
(* Local transactions *)

\* What a reset does to a transaction of a local account.
LEMMA ResetKeepsLocals ==
    ASSUME NEW P, PoolOK(P), NEW s, NEW queued, NEW Q, NEW U, NEW R, NEW D, NEW E,
           ResetDone(P, s, queued, Q, U, R, D, E),
           NEW t \in P.all \ pool'.all, t.from \in P.locals
    PROVE  Spent(t, s)
  <1>1. \A x \in P.all \ Q.all : x.from \notin P.locals \/ Spent(x, s)
    BY DEF ResetDone, Promoted
  <1>2. \A x \in Q.all \ U.all : Spent(x, s)
    BY DEF ResetDone, Demoted
  <1>3. R.all = U.all /\ R.locals = U.locals /\ U.locals = Q.locals /\ Q.locals = P.locals
    BY DEF ResetDone, Promoted, Demoted, Renonced, Frame
  <1>4. \A x \in R.all \ pool'.all : x.from \notin R.locals
    BY DEF ResetDone, RunDone, Ended
  <1> QED
    BY <1>1, <1>2, <1>3, <1>4

\* What is known of local accounts stays marked.
LEMMA MarkedStep ==
    ASSUME TypeInv, LocalsMarked(pool), Next
    PROVE  LocalsMarked(pool')
  <1>1. CASE DoesAdd
    <2>1. PICK u, P : AddDone(u, FALSE, P) \/ AddDone(u, TRUE, P)
      BY <1>1 DEF DoesAdd
    <2>2. LocalsMarked(P)
      BY <2>1 DEF AddDone, LocalsMarked
    <2> QED
      BY <2>1, <2>2 DEF AddDone, Absorbed
  <1>a. ASSUME NEW P, LocalsMarked(P), NEW s, NEW queued, NEW Q, NEW U, NEW R, NEW D, NEW E,
               ResetDone(P, s, queued, Q, U, R, D, E)
        PROVE  LocalsMarked(pool')
    <2>1. Q.all \subseteq P.all /\ Q.locals = P.locals /\ Q.asLocal = P.asLocal
      BY <1>a DEF ResetDone, Promoted, Frame
    <2>2. U.all \subseteq Q.all /\ U.locals = Q.locals /\ U.asLocal = Q.asLocal
      BY <1>a DEF ResetDone, Demoted, Frame
    <2>3. R.all = U.all /\ R.locals = U.locals /\ R.asLocal = U.asLocal
      BY <1>a DEF ResetDone, Renonced, Frame
    <2>4. /\ pool'.all \subseteq R.all /\ pool'.locals = R.locals
          /\ pool'.asLocal = R.asLocal \cap pool'.all
      BY <1>a DEF ResetDone, RunDone, Ended
    <2> QED
      BY <1>a, <2>1, <2>2, <2>3, <2>4 DEF LocalsMarked
  <1>2. CASE DoesPromote
    <2>1. PICK D, E, P : /\ Promoted(pool, D, state, P)
                         /\ RunDone(P, D, E, E \cup (P.pending \ pool.pending), {})
      BY <1>2 DEF DoesPromote
    <2>2. P.all \subseteq pool.all /\ P.locals = pool.locals /\ P.asLocal = pool.asLocal
      BY <2>1 DEF Promoted, Frame
    <2>3. /\ pool'.all \subseteq P.all /\ pool'.locals = P.locals
          /\ pool'.asLocal = P.asLocal \cap pool'.all
      BY <2>1 DEF RunDone, Ended
    <2> QED
      BY <2>2, <2>3 DEF LocalsMarked
  <1>3. CASE DoesReset
    <2>1. PICK T, s, P, o, Q, U, R, D, E :
             Reinject(T, s, P, o) /\ ResetDone(o.pool, s, o.events, Q, U, R, D, E)
      BY <1>3 DEF DoesReset
    <2>2. LocalsMarked(P)
      BY <2>1 DEF Reinject, LocalsMarked
    <2>3. LocalsMarked(o.pool)
      BY <2>1, <2>2 DEF Reinject, AddsAll, Absorbed
    <2> QED
      BY <1>a, <2>1, <2>3
  <1>4. CASE DoesFail
    BY <1>a, <1>4 DEF DoesFail
  <1>5. CASE DoesRemove
    <2>1. PICK S, R : RemoveDone(S, R)
      BY <1>5 DEF DoesRemove
    <2>2. R.all \subseteq pool.all /\ R.locals = pool.locals /\ R.asLocal = pool.asLocal
      BY <2>1 DEF RemoveDone, Removed, Frame
    <2>3. pool'.all = R.all /\ pool'.locals = R.locals /\ pool'.asLocal = R.asLocal \cap R.all
      BY <2>1 DEF RemoveDone, Recalled
    <2> QED
      BY <2>2, <2>3 DEF LocalsMarked
  <1>6. CASE Prune
    <2>1. pool \in PoolRec
      BY DEF TypeInv, PoolOK
    <2>2. pool'.all = pool.all /\ pool'.locals = pool.locals /\ pool'.asLocal = pool.asLocal
      BY <1>6, <2>1 DEF Prune, PoolRec
    <2> QED
      BY <2>2 DEF LocalsMarked
  <1> QED
    BY <1>1, <1>2, <1>3, <1>4, <1>5, <1>6, NextDoes

\* A step drops a transaction of a local account only for another of its nonce
\* or because the state does not accept it any more.
LEMMA LocalsStep ==
    ASSUME TypeInv, LocalsMarked(pool), Next,
           NEW t \in pool.all \ pool'.all, t.from \in pool.locals
    PROVE  At(pool'.all, t) # {} \/ Spent(t, state')
  <1>0. PoolOK(pool)
    BY DEF TypeInv
  <1>1. CASE DoesAdd
    <2>1. PICK u, P : AddDone(u, FALSE, P) \/ AddDone(u, TRUE, P)
      BY <1>1 DEF DoesAdd
    <2>2. LocalsMarked(P) /\ Absorbed(P, {u}, state, pool') /\ t \in P.all \ pool'.all
          /\ t.from \in P.locals
      BY <2>1 DEF AddDone, LocalsMarked
    <2>3. PICK v \in pool'.all : Same(t, v)
      BY <2>2 DEF Absorbed
    <2> QED
      BY <2>3 DEF At, Same
  <1>2. CASE DoesPromote
    <2>1. PICK D, E, P : /\ Promoted(pool, D, state, P)
                         /\ RunDone(P, D, E, E \cup (P.pending \ pool.pending), {})
      BY <1>2 DEF DoesPromote
    <2>2. P.locals = pool.locals /\ \A x \in pool.all \ P.all : x.from \notin pool.locals \/ Spent(x, state)
      BY <2>1 DEF Promoted, Frame
    <2>3. \A x \in P.all \ pool'.all : x.from \notin P.locals
      BY <2>1 DEF RunDone, Ended
    <2>4. state' = state
      BY <1>2 DEF DoesPromote
    <2> QED
      BY <2>2, <2>3, <2>4
  <1>3. CASE DoesReset
    <2>1. PICK T, s, P, o, Q, U, R, D, E :
             /\ Reinject(T, s, P, o) /\ ResetDone(o.pool, s, o.events, Q, U, R, D, E)
             /\ state' = s
      BY <1>3 DEF DoesReset
    <2>2. LocalsMarked(P) /\ P.all = pool.all /\ P.locals = pool.locals
      BY <2>1 DEF Reinject, LocalsMarked
    <2>3. PoolOK(o.pool) /\ P.locals \subseteq o.pool.locals
      BY <2>1 DEF Reinject, AddsAll, Absorbed
    <2>4. CASE t \in o.pool.all
      BY <2>1, <2>2, <2>3, <2>4, ResetKeepsLocals
    <2>5. CASE t \notin o.pool.all
      <3>1. PICK v \in o.pool.all : Same(t, v) /\ ~Spent(v, s)
        BY <2>1, <2>2, <2>5 DEF Reinject, AddsAll, Absorbed
      <3>2. v.from \in o.pool.locals
        BY <2>2, <2>3, <3>1 DEF Same
      <3>3. v \in pool'.all
        BY <2>1, <2>3, <3>1, <3>2, ResetKeepsLocals
      <3> QED
        BY <3>1, <3>3 DEF At, Same
    <2> QED
      BY <2>4, <2>5
  <1>4. CASE DoesFail
    <2>1. PICK Q, U, R, D, E : ResetDone(pool, state, {}, Q, U, R, D, E)
      BY <1>4 DEF DoesFail
    <2>2. state' = state
      BY <1>4 DEF DoesFail
    <2> QED
      BY <1>0, <2>1, <2>2, ResetKeepsLocals
  <1>5. CASE DoesRemove
    <2>1. PICK S, R : RemoveDone(S, R)
      BY <1>5 DEF DoesRemove
    <2>2. pool'.all = pool.all \ S
      BY <2>1 DEF RemoveDone, Removed, Recalled
    <2> QED
      BY <2>1, <2>2 DEF RemoveDone, LocalsMarked
  <1>6. CASE Prune
    <2>1. pool \in PoolRec
      BY DEF TypeInv, PoolOK
    <2> QED
      BY <1>6, <2>1 DEF Prune, PoolRec
  <1> QED
    BY <1>1, <1>2, <1>3, <1>4, <1>5, <1>6, NextDoes

\* What is known of local accounts is marked as local, always.
LocalsMarkedInv == LocalsMarked(pool)

\* A transaction of a local account leaves the pool only for one of its nonce,
\* or when mined or no longer payable: never for its price or the limits.
THEOREM LocalsAreKept == Spec => LocalsNotDropped
  <1> DEFINE A == \A t \in pool.all \ pool.all' : t.from \in pool.locals
                     => \/ At(pool.all', t) # {}
                        \/ t.nonce < GetNonce(state'.chain, t.from)
                        \/ t.price > state'.balance[t.from] \/ t.gas > state'.maxGas
  <1>1. Init => LocalsMarkedInv
    BY DEF Init, LocalsMarkedInv, LocalsMarked
  <1>2. TypeInv /\ LocalsMarkedInv /\ [Next]_vars => LocalsMarkedInv'
    <2> SUFFICES ASSUME TypeInv, LocalsMarkedInv, [Next]_vars PROVE LocalsMarkedInv'
      OBVIOUS
    <2>1. CASE Next
      BY <2>1, MarkedStep DEF LocalsMarkedInv, LocalsMarked
    <2>2. CASE UNCHANGED vars
      BY <2>2 DEF vars, LocalsMarkedInv, LocalsMarked
    <2> QED
      BY <2>1, <2>2
  <1>3. TypeInv /\ LocalsMarkedInv /\ [Next]_vars => [A]_vars
    BY LocalsStep DEF LocalsMarkedInv, Spent, Filter
  <1> QED
    BY <1>1, <1>2, <1>3, TypeInvariant, PTL DEF Spec, LocalsNotDropped

-----------------------------------------------------------------------------
(* Private transactions *)

\* A private transaction that is known or waits to be announced is in the
\* private set unless it is public or overtaken; what the state has executed
\* the nonce of is overtaken, what the head has is public.
Kept(known, noted) == known \cap PrivateTx \subseteq noted
Covered == pool.private \cup public \cup overtaken
PrivateInv ==
    /\ Kept(pool.all, Covered) /\ Kept(events, Covered)
    /\ Kept(head, public)
    /\ \A t \in PrivateTx : t.nonce < GetNonce(state.chain, t.from) => t \in overtaken
    /\ announced \subseteq public \cup overtaken

\* A run tells subscribers of no private transaction that is still covered
\* by the private set only.
LEMMA ResetKeepsPrivate ==
    ASSUME TypeInv, PrivateInv, NEW P, PoolOK(P), NEW s \in StateRec, NEW queued,
           NEW Q, NEW U, NEW R, NEW D, NEW E, ResetDone(P, s, queued, Q, U, R, D, E),
           P.private = pool.private, Kept(P.all, Covered), Kept(queued, Covered),
           public \subseteq public', overtaken \subseteq overtaken',
           \A t \in PrivateTx : t.nonce < GetNonce(s.chain, t.from) => t \in overtaken'
    PROVE  /\ Kept(pool'.all, pool'.private \cup public' \cup overtaken')
           /\ Kept(events', pool'.private \cup public' \cup overtaken')
           /\ announced' \subseteq public' \cup overtaken'
  <1>1. Q.private = P.private /\ Q.all \subseteq P.all /\ PoolOK(Q)
    BY DEF ResetDone, Promoted
  <1>2. /\ U.all \subseteq Q.all
        /\ U.private = Q.private \ {t \in Q.pending : t.nonce < GetNonce(s.chain, t.from)}
    BY DEF ResetDone, Demoted
  <1>3. R.all = U.all /\ R.private = U.private
    BY DEF ResetDone, Renonced
  <1>4. pool'.all \subseteq R.all /\ pool'.private = R.private
    BY DEF ResetDone, RunDone, Ended
  <1>5. pool.private \subseteq PrivateTx
    BY DEF TypeInv, PoolOK, PoolRec
  <1>6. \A t \in pool.private : t \in R.private \/ t \in overtaken'
    BY <1>1, <1>2, <1>3, <1>5
  <1>7. Covered \subseteq R.private \cup public' \cup overtaken'
    BY <1>6 DEF Covered
  <1>8. Q.pending \subseteq P.all
    BY <1>1 DEF PoolOK, Exact
  <1> DEFINE told == {t \in E : t.nonce >= P.nonces[t.from]} \cup (Q.pending \ P.pending)
  <1>9. /\ announced' = announced \cup ((told \cap PrivateTx) \ R.private) /\ E \subseteq events
        /\ events' \subseteq events \cup queued
    BY DEF ResetDone, RunDone
  <1>10. told \subseteq events \cup P.all
    BY <1>8, <1>9
  <1> HIDE DEF told
  <1>11. Kept(events, Covered) /\ announced \subseteq public \cup overtaken
    BY DEF PrivateInv
  <1>12. announced' \subseteq public' \cup overtaken'
    BY <1>7, <1>9, <1>10, <1>11 DEF Kept
  <1>13. Kept(pool'.all, pool'.private \cup public' \cup overtaken')
    BY <1>1, <1>2, <1>3, <1>4, <1>7 DEF Kept
  <1>14. Kept(events', pool'.private \cup public' \cup overtaken')
    BY <1>4, <1>7, <1>9, <1>11 DEF Kept
  <1> QED
    BY <1>12, <1>13, <1>14

\* Every step keeps private transactions covered.
LEMMA NextPrivateInv == TypeInv /\ PrivateInv /\ [Next]_vars => PrivateInv'
  <1> SUFFICES ASSUME TypeInv, PrivateInv, [Next]_vars PROVE PrivateInv'
    OBVIOUS
  <1> DEFINE cov == pool'.private \cup public' \cup overtaken'
             Goal == /\ env' = env /\ Kept(pool'.all, cov) /\ Kept(events', cov)
                     /\ Kept(head', public')
                     /\ \A t \in PrivateTx : t.nonce < GetNonce(state'.chain, t.from) => t \in overtaken'
                     /\ announced' \subseteq public' \cup overtaken'
  <1>a. ASSUME Goal PROVE PrivateInv'
    BY <1>a DEF PrivateInv, Kept, Covered, PrivateTx, GetNonce, Of
  <1>b. /\ Kept(pool.all, Covered) /\ Kept(events, Covered) /\ Kept(head, public)
        /\ \A t \in PrivateTx : t.nonce < GetNonce(state.chain, t.from) => t \in overtaken
        /\ announced \subseteq public \cup overtaken
    BY DEF PrivateInv
  <1>c. env \in Envs /\ PoolOK(pool) /\ state \in StateRec
    BY DEF TypeInv
  <1>d. ASSUME NEW c, NewHead(c)
        PROVE  /\ Kept(head', public') /\ public \subseteq public' /\ overtaken \subseteq overtaken'
               /\ \A t \in PrivateTx : t.nonce < GetNonce(c, t.from) => t \in overtaken'
    BY <1>d DEF NewHead, Kept
  <1>1. CASE DoesAdd
    <2>1. PICK t, P : AddDone(t, FALSE, P) \/ AddDone(t, TRUE, P)
      BY <1>1 DEF DoesAdd
    <2>2. /\ pool'.all \subseteq pool.all \cup {t} /\ pool'.private = P.private
          /\ events' \subseteq events \cup {t} /\ public \subseteq public'
          /\ pool.private \subseteq P.private
          /\ UNCHANGED <<state, gasPrice, head, announced, overtaken, partly, env>>
      BY <2>1 DEF AddDone, Absorbed
    <2>3. t \in PrivateTx => t \in P.private \cup public'
      BY <2>1 DEF AddDone
    <2>4. Kept(pool'.all, cov) /\ Kept(events', cov)
      BY <1>b, <2>2, <2>3 DEF Kept, Covered
    <2>5. Kept(head', public') /\ announced' \subseteq public' \cup overtaken'
      BY <1>b, <2>2 DEF Kept
    <2> QED
      BY <1>a, <1>b, <2>2, <2>4, <2>5
  <1>2. CASE DoesPromote
    <2>1. PICK D, E, P : /\ Promoted(pool, D, state, P)
                         /\ RunDone(P, D, E, E \cup (P.pending \ pool.pending), {})
      BY <1>2 DEF DoesPromote
    <2>2. P.private = pool.private /\ P.all \subseteq pool.all /\ P.pending \subseteq pool.all
      BY <2>1 DEF Promoted, PoolOK, Exact
    <2>3. /\ pool'.all \subseteq P.all /\ pool'.private = P.private
          /\ events' \subseteq events /\ E \subseteq events
          /\ announced' = announced \cup
                (((E \cup (P.pending \ pool.pending)) \cap PrivateTx) \ P.private)
      BY <2>1 DEF RunDone, Ended
    <2>4. UNCHANGED <<state, gasPrice, head, public, overtaken, partly, env>>
      BY <1>2 DEF DoesPromote
    <2>5. Kept(pool'.all, cov) /\ Kept(events', cov) /\ announced' \subseteq public' \cup overtaken'
      BY <1>b, <2>2, <2>3, <2>4 DEF Kept, Covered
    <2> QED
      BY <1>a, <1>b, <2>4, <2>5
  <1>3. CASE DoesReset
    <2>1. PICK T, s, P, o, Q, U, R, D, E :
             /\ s \in StateRec /\ Reinject(T, s, P, o)
             /\ ResetDone(o.pool, s, o.events, Q, U, R, D, E)
             /\ state' = s /\ NewHead(s.chain) /\ UNCHANGED <<gasPrice, env>>
      BY <1>3 DEF DoesReset
    <2>2. /\ Kept(head', public') /\ public \subseteq public' /\ overtaken \subseteq overtaken'
          /\ \A t \in PrivateTx : t.nonce < GetNonce(s.chain, t.from) => t \in overtaken'
      BY <1>d, <2>1
    <2>3. /\ PoolOK(o.pool) /\ o.pool.private = pool.private /\ o.pool.all \subseteq pool.all \cup T
          /\ o.events \subseteq T /\ T \subseteq head
      BY <2>1 DEF Reinject, AddsAll, Absorbed
    <2>4. Kept(o.pool.all, Covered) /\ Kept(o.events, Covered)
      BY <1>b, <2>3 DEF Kept, Covered
    <2>5. /\ Kept(pool'.all, cov) /\ Kept(events', cov) /\ announced' \subseteq public' \cup overtaken'
      BY <2>1, <2>2, <2>3, <2>4, ResetKeepsPrivate
    <2> QED
      BY <1>a, <2>1, <2>2, <2>5
  <1>4. CASE DoesFail
    <2>1. PICK Q, U, R, D, E : ResetDone(pool, state, {}, Q, U, R, D, E)
      BY <1>4 DEF DoesFail
    <2>2. PICK new \in Heads : NewHead(new)
      BY <1>4 DEF DoesFail
    <2>3. Kept(head', public') /\ public \subseteq public' /\ overtaken \subseteq overtaken'
      BY <1>d, <2>2
    <2>4. \A t \in PrivateTx : t.nonce < GetNonce(state.chain, t.from) => t \in overtaken'
      BY <1>b, <2>3
    <2>5. Kept({}, Covered)
      BY DEF Kept
    <2>6. /\ Kept(pool'.all, cov) /\ Kept(events', cov) /\ announced' \subseteq public' \cup overtaken'
      BY <1>b, <1>c, <2>1, <2>3, <2>4, <2>5, ResetKeepsPrivate
    <2>7. state' = state /\ env' = env
      BY <1>4 DEF DoesFail
    <2> QED
      BY <1>a, <2>3, <2>4, <2>6, <2>7
  <1>5. CASE DoesRemove
    <2>1. PICK S, R : RemoveDone(S, R)
      BY <1>5 DEF DoesRemove
    <2>2. /\ pool'.all \subseteq pool.all /\ pool'.private = pool.private
          /\ UNCHANGED <<state, head, dirty, events, announced, public, overtaken, partly, env>>
      BY <2>1 DEF RemoveDone, Removed, Recalled
    <2>3. Kept(pool'.all, cov) /\ Kept(events', cov)
      BY <1>b, <2>2 DEF Kept, Covered
    <2> QED
      BY <1>a, <1>b, <2>2, <2>3
  <1>6. CASE Prune
    <2>1. PICK t \in pool.private :
             /\ pool' = [pool EXCEPT !.private = @ \ {t}] /\ public' = public \cup {t}
             /\ UNCHANGED <<state, gasPrice, head, dirty, events, announced, overtaken, partly, env>>
      BY <1>6 DEF Prune
    <2>2. pool \in PoolRec
      BY <1>c DEF PoolOK
    <2>3. pool'.all = pool.all /\ pool'.private = pool.private \ {t}
      BY <2>1, <2>2 DEF PoolRec
    <2>4. Kept(pool'.all, cov) /\ Kept(events', cov) /\ Kept(head', public')
      BY <1>b, <2>1, <2>3 DEF Kept, Covered
    <2> QED
      BY <1>a, <1>b, <2>1, <2>4
  <1>7. CASE UNCHANGED vars
    <2>1. Goal
      BY <1>b, <1>7 DEF vars, Covered
    <2> QED
      BY <1>a, <2>1
  <1> QED
    BY <1>1, <1>2, <1>3, <1>4, <1>5, <1>6, <1>7, NextDoes

\* Subscribers are told of a private transaction only once it was submitted
\* openly, mined, has expired, or a block has used its nonce.
THEOREM PrivateTransactionsStayPrivate == Spec => []PrivateUntilOvertaken
  <1>1. Init => PrivateInv
    <2> SUFFICES ASSUME Init PROVE PrivateInv
      OBVIOUS
    <2>1. \A a : GetNonce({}, a) = 0
      <3>1. \A a : Of({}, a) = {}
        BY DEF Of
      <3> QED
        BY <3>1, FS_EmptySet DEF GetNonce
    <2>2. \A t \in PrivateTx : t.nonce \in Nat
      BY EnvFacts DEF Init
    <2>3. state.chain = {}
      BY DEF Init
    <2> QED
      BY <2>1, <2>2, <2>3 DEF Init, PrivateInv, Kept, Covered
  <1>2. PrivateInv => PrivateUntilOvertaken
    BY DEF PrivateInv, PrivateUntilOvertaken
  <1> QED
    BY <1>1, <1>2, NextPrivateInv, TypeInvariant, PTL DEF Spec

-----------------------------------------------------------------------------
(* Pending transactions are executable *)

\* Pending starts at the state's nonce b, and so does the virtual nonce when
\* nothing is pending.
Sound(P, b, a) ==
    /\ P.nonces[a] >= b
    /\ PNonces(P, a) # {} => b \in PNonces(P, a) /\ \A n \in PNonces(P, a) : n >= b
    /\ PNonces(P, a) = {} => P.nonces[a] = b

\* Pending has no gap and ends before the virtual nonce.
Whole(P, b, a) == PNonces(P, a) = b .. P.nonces[a] - 1

\* Nothing in the pool is older than the state.
NotBelow(P, c) == \A t \in P.all : t.nonce >= GetNonce(c, t.from)

ExecInv ==
    /\ \A a \in Addr : Sound(pool, GetNonce(state.chain, a), a)
    /\ \A a \in Addr \ partly : Whole(pool, GetNonce(state.chain, a), a)
    /\ NotBelow(pool, state.chain)

\* Trimming keeps all of this.
LEMMA TrimKeeps ==
    ASSUME env \in Envs, NEW P, PoolOK(P), NEW Q, NEW a \in Addr, NEW b \in Nat,
           Trimmed(P, Q, a), Sound(P, b, a)
    PROVE  Sound(Q, b, a) /\ (Whole(P, b, a) => Whole(Q, b, a))
  <1> DEFINE np == PNonces(P, a)
             nq == PNonces(Q, a)
             vp == P.nonces[a]
             vq == Q.nonces[a]
  <1>1. np \subseteq Nat /\ vp \in Nat
    <2>1. vp \in Nat
      BY DEF PoolOK, PoolRec
    <2> QED
      BY <2>1, PNoncesType
  <1>2. \/ nq = np /\ vq = vp
        \/ \E c \in np : nq = {n \in np : n < c} /\ vq = IF c < vp THEN c ELSE vp
    BY DEF Trimmed
  <1>3. /\ vp >= b
        /\ np # {} => b \in np /\ \A n \in np : n >= b
        /\ np = {} => vp = b
    BY DEF Sound
  <1> HIDE DEF np, nq, vp, vq
  <1>4. /\ vq >= b
        /\ nq # {} => b \in nq /\ \A n \in nq : n >= b
        /\ nq = {} => vq = b
        /\ np = b .. vp - 1 => nq = b .. vq - 1
    <2>1. CASE nq = np /\ vq = vp
      BY <1>3, <2>1
    <2>2. ASSUME NEW c \in np, nq = {n \in np : n < c}, vq = IF c < vp THEN c ELSE vp
          PROVE  /\ vq >= b
                 /\ nq # {} => b \in nq /\ \A n \in nq : n >= b
                 /\ nq = {} => vq = b
                 /\ np = b .. vp - 1 => nq = b .. vq - 1
      <3>1. c \in Nat /\ b \in np /\ c >= b /\ vq \in Nat
        BY <1>1, <1>3, <2>2
      <3>2. vq >= b
        BY <1>1, <1>3, <2>2, <3>1
      <3>3. ASSUME NEW n \in nq PROVE n >= b /\ b \in nq
        <4>1. n \in np /\ n < c /\ n \in Nat /\ n >= b
          BY <1>1, <1>3, <2>2
        <4>2. b < c
          BY <3>1, <4>1
        <4> QED
          BY <2>2, <3>1, <4>1, <4>2
      <3>4. nq = {} => vq = b
        <4>1. nq = {} => ~(b < c)
          BY <2>2, <3>1
        <4> QED
          BY <1>1, <1>3, <2>2, <3>1, <4>1
      <3>5. ASSUME np = b .. vp - 1 PROVE nq = b .. vq - 1
        <4>1. c < vp /\ vq = c
          BY <1>1, <2>2, <3>1, <3>5
        <4> QED
          BY <1>1, <2>2, <3>1, <3>5, <4>1
      <3> QED
        BY <3>2, <3>3, <3>4, <3>5
    <2> QED
      BY <1>2, <2>1, <2>2
  <1> QED
    BY <1>4 DEF Sound, Whole, np, nq, vp, vq

\* Promotion adds the run of nonces from k to h to pending.
Extends(P, Q, s, a, k, h) ==
    /\ k <= h /\ k <= P.nonces[a] /\ Q.nonces[a] = h + 1
    /\ PNonces(Q, a) = PNonces(P, a) \cup (k .. h)
    /\ \A n \in k .. h : n \notin PNonces(P, a) /\ n >= GetNonce(s.chain, a)
    /\ \A n \in k .. h : \E t \in Of(P.all, a) : t.nonce = n
    /\ \A t \in Of(P.queue, a) : ~Spent(t, s) => t.nonce # h + 1

\* Promotion does so or leaves an account alone.
LEMMA PromoteExtends ==
    ASSUME env \in Envs, NEW P, PoolOK(P), NEW A, NEW s \in StateRec, NEW Q,
           Promoted(P, A, s, Q), NEW a \in Addr
    PROVE  \/ PNonces(Q, a) = PNonces(P, a) /\ Q.nonces[a] = P.nonces[a]
           \/ \E k, h \in Nat : Extends(P, Q, s, a, k, h)
  <1> DEFINE S == Q.pending \ P.pending
             W == Of(S, a)
  <1>0. PoolOK(Q) /\ P.pending \subseteq Q.pending /\ Q.all \subseteq P.all
    BY DEF Promoted
  <1>1. /\ Q.nonces[a] = IF W = {} THEN P.nonces[a] ELSE Highest(W) + 1
        /\ StartsBy(W, P.nonces[a])
        /\ Longest(W, {t \in Of(P.queue, a) : ~Spent(t, s)})
        /\ \A t \in W : ~Spent(t, s)
    BY DEF Promoted, RaisedTo, Of
  <1>2. Of(Q.pending, a) = Of(P.pending, a) \cup W
    BY <1>0 DEF Of
  <1>3. CASE W = {}
    BY <1>1, <1>2, <1>3 DEF PNonces
  <1>4. CASE W # {}
    <2>1. PICK k \in Nat : k <= P.nonces[a] /\ {t.nonce : t \in W} = k .. Highest(W)
      BY <1>1, <1>4 DEF StartsBy
    <2> DEFINE h == Highest(W)
    <2>2. W \in SUBSET Tx
      BY <1>0 DEF Of, PoolOK, PoolRec
    <2>3. h \in Nat
      BY <1>4, <2>2, NonceRange
    <2>4. \A t \in W : /\ t \in Q.pending /\ t \notin P.pending /\ t.from = a /\ t.nonce \in k .. h
                       /\ t \in P.all
      <3>1. \A t \in W : t \in Q.pending /\ t \notin P.pending /\ t.from = a
        BY DEF Of
      <3>2. Q.pending \subseteq P.all
        BY <1>0 DEF PoolOK, Exact
      <3> QED
        BY <2>1, <3>1, <3>2
    <2>5. \A n \in k .. h : \E t \in W : t.nonce = n
      BY <2>1
    <2> HIDE DEF W, S, h
    <2>6. k <= h
      BY <1>4, <2>3, <2>4
    <2>7. PNonces(Q, a) = PNonces(P, a) \cup (k .. h)
      BY <1>2, <2>4, <2>5 DEF PNonces
    <2>8. \A u \in Of(P.pending, a) : u \in P.pending /\ u \in Q.all /\ u.from = a
      BY <1>0 DEF Of, PoolOK, Exact
    <2>9. ASSUME NEW n \in k .. h
          PROVE  /\ n \notin PNonces(P, a) /\ n >= GetNonce(s.chain, a)
                 /\ \E t \in Of(P.all, a) : t.nonce = n
      <3>1. PICK t \in W : t.nonce = n
        BY <2>5
      <3>2. t \in Q.all /\ Distinct(Q.all)
        BY <1>0, <2>4 DEF PoolOK, Exact
      <3>3. n \notin PNonces(P, a)
        BY <2>4, <2>8, <3>1, <3>2 DEF PNonces, Distinct, Same
      <3>4. n \in Nat /\ GetNonce(s.chain, a) \in Nat
        BY <2>3, NonceType, EnvFacts DEF StateRec
      <3>5. n >= GetNonce(s.chain, a)
        BY <1>1, <2>4, <3>1, <3>4 DEF Spent
      <3>6. t \in Of(P.all, a)
        BY <2>4 DEF Of
      <3> QED
        BY <3>1, <3>3, <3>5, <3>6
    <2>10. \A t \in Of(P.queue, a) : ~Spent(t, s) => t.nonce # h + 1
      BY <1>1, <1>4 DEF Longest, h
    <2>11. Q.nonces[a] = h + 1
      BY <1>1, <1>4 DEF h
    <2>12. Extends(P, Q, s, a, k, h)
      BY <2>1, <2>6, <2>7, <2>9, <2>10, <2>11 DEF Extends
    <2> QED
      BY <2>3, <2>12
  <1> QED
    BY <1>3, <1>4

\* Promotion continues what is pending.
LEMMA PromoteKeeps ==
    ASSUME env \in Envs, NEW P, PoolOK(P), NEW A, NEW s \in StateRec, NEW Q,
           Promoted(P, A, s, Q), NEW a \in Addr, NEW b, b = GetNonce(s.chain, a), Sound(P, b, a)
    PROVE  Sound(Q, b, a) /\ (Whole(P, b, a) => Whole(Q, b, a))
  <1> DEFINE np == PNonces(P, a)
             nq == PNonces(Q, a)
             vp == P.nonces[a]
             vq == Q.nonces[a]
  <1>1. np \subseteq Nat /\ vp \in Nat /\ b \in Nat
    <2>1. vp \in Nat
      BY DEF PoolOK, PoolRec
    <2>2. b \in Nat
      BY NonceType, EnvFacts DEF StateRec
    <2> QED
      BY <2>1, <2>2, PNoncesType
  <1>2. /\ vp >= b
        /\ np # {} => b \in np /\ \A n \in np : n >= b
        /\ np = {} => vp = b
    BY DEF Sound
  <1>3. CASE nq = np /\ vq = vp
    BY <1>3 DEF Sound, Whole
  <1>4. ASSUME NEW k \in Nat, NEW h \in Nat, Extends(P, Q, s, a, k, h)
        PROVE  Sound(Q, b, a) /\ (Whole(P, b, a) => Whole(Q, b, a))
    <2>1. /\ k <= h /\ k <= vp /\ vq = h + 1 /\ nq = np \cup (k .. h)
          /\ \A n \in k .. h : n \notin np /\ n >= b
      BY <1>4 DEF Extends
    <2> HIDE DEF np, nq, vp, vq
    <2>2. k \in k .. h /\ k >= b /\ h >= b /\ k \in nq
      BY <1>1, <2>1
    <2>3. b \in nq
      <3>1. CASE np = {}
        <4>1. k = b
          BY <1>1, <1>2, <2>1, <2>2, <3>1
        <4> QED
          BY <2>2, <4>1
      <3>2. CASE np # {}
        BY <1>2, <2>1, <3>2
      <3> QED
        BY <3>1, <3>2
    <2>4. \A n \in nq : n >= b
      BY <1>2, <2>1
    <2>5. ASSUME np = b .. vp - 1 PROVE nq = b .. vq - 1
      <3>1. k = vp
        BY <1>1, <2>1, <2>2, <2>5
      <3> QED
        BY <1>1, <2>1, <2>5, <3>1
    <2>6. vq >= b
      BY <1>1, <2>1, <2>2
    <2> QED
      BY <2>2, <2>3, <2>4, <2>5, <2>6 DEF Sound, Whole, np, nq, vp, vq
  <1> QED
    BY <1>3, <1>4, PromoteExtends

\* Pending nonces have no gap from the state's nonce on, if that is pending.
Gapless(N, b) == b \in N => \A n \in N : b .. n \subseteq N

\* Demotion leaves what starts at the state's nonce and setAll follows it.
LEMMA DemoteKeeps ==
    ASSUME env \in Envs, NEW Q, PoolOK(Q), NEW s \in StateRec, NEW U, Demoted(Q, s, U),
           NEW R, Renonced(U, s, R), NEW a \in Addr, NEW b, b = GetNonce(s.chain, a)
    PROVE  Sound(R, b, a) /\ (Gapless(PNonces(Q, a), b) => Whole(R, b, a))
  <1> DEFINE nq == PNonces(Q, a)
             nr == PNonces(R, a)
             vr == R.nonces[a]
             L == Of(U.pending, a)
             bad(n) == \E u \in Of(Q.pending, a) :
                           u.nonce >= b /\ Filter(u, s) /\ ~(n < u.nonce)
  <1>0. PoolOK(U) /\ U.pending \subseteq Q.pending /\ R.pending = U.pending
    BY DEF Demoted, Renonced
  <1>1. L \in SUBSET Tx /\ \A u \in Of(Q.pending, a) : u.nonce \in Nat
    BY <1>0, EnvFacts DEF Of, PoolOK, PoolRec
  <1>2. b \in Nat
    BY NonceType, EnvFacts DEF StateRec
  <1>3. nr = {t.nonce : t \in L}
    BY <1>0 DEF PNonces
  <1>4. \A t \in Of(Q.pending, a) : t \in L <=>
            t.nonce >= b /\ ~bad(t.nonce) /\ \E u \in L : u.nonce = b
    <2>1. \A t \in Of(Q.pending, a) : t \in Q.pending /\ t.from = a /\ (t \in L <=> t \in U.pending)
      BY DEF Of
    <2>2. \A t \in Q.pending :
             t \in U.pending <=>
                /\ t.nonce >= GetNonce(s.chain, t.from)
                /\ \A u \in Of(Q.pending, t.from) :
                      u.nonce >= GetNonce(s.chain, u.from) /\ Filter(u, s)
                         => t.nonce < u.nonce
                /\ \E u \in Of(U.pending, t.from) : u.nonce = GetNonce(s.chain, t.from)
      BY DEF Demoted
    <2>3. \A u \in Of(Q.pending, a) : u.from = a
      BY DEF Of
    <2>4. \A n : bad(n) <=> \E u \in Of(Q.pending, a) :
                     u.nonce >= b /\ Filter(u, s) /\ ~(n < u.nonce)
      OBVIOUS
    <2> HIDE DEF bad
    <2> QED
      BY <2>1, <2>2, <2>3, <2>4
  <1>5. L \subseteq Of(Q.pending, a)
    BY <1>0 DEF Of
  <1>6. vr = IF L = {} THEN b ELSE Highest(L) + 1
    BY DEF Renonced
  <1>7. \A n, m : m \in Nat /\ n \in Nat /\ m <= n /\ bad(m) => bad(n)
    BY <1>1
  <1>8. nq = {t.nonce : t \in Of(Q.pending, a)}
    BY DEF PNonces
  <1> HIDE DEF nq, nr, vr, L, bad
  <1>9. CASE L = {}
    <2>1. nr = {} /\ vr = b
      BY <1>3, <1>6, <1>9
    <2>2. b .. b - 1 = {}
      BY <1>2
    <2> QED
      BY <1>2, <2>1, <2>2 DEF Sound, Whole, nr, vr
  <1>10. CASE L # {}
    <2> DEFINE h == Highest(L)
    <2>1. /\ h \in Nat /\ \E t \in L : t.nonce = h
          /\ \A t \in L : t.nonce <= h
      BY <1>1, <1>10, NonceRange
    <2> HIDE DEF h
    <2>2. vr = h + 1
      BY <1>6, <1>10 DEF h
    <2>3. \A t \in L : t.nonce >= b /\ ~bad(t.nonce) /\ \E u \in L : u.nonce = b
      BY <1>4, <1>5
    <2>4. b \in nr /\ \A n \in nr : n >= b /\ n \in Nat
      BY <1>1, <1>3, <1>5, <1>10, <2>3
    <2>5. h \in nr /\ h >= b
      BY <1>3, <2>1, <2>4
    <2>6. Sound(R, b, a)
      <3>1. vr >= b
        BY <1>2, <2>1, <2>2, <2>5
      <3> QED
        BY <2>4, <3>1 DEF Sound, nr, vr
    <2>7. ASSUME Gapless(nq, b) PROVE nr = b .. h
      <3>1. \A n \in nr : n \in b .. h
        BY <1>2, <1>3, <2>1, <2>4
      <3>2. b \in nq /\ h \in nq
        BY <1>3, <1>5, <1>8, <2>4, <2>5
      <3>3. b .. h \subseteq nq
        BY <2>7, <3>2 DEF Gapless
      <3>4. ~bad(h)
        BY <2>1, <2>3
      <3>5. ASSUME NEW n \in b .. h PROVE n \in nr
        <4>1. PICK t \in Of(Q.pending, a) : t.nonce = n
          BY <1>8, <3>3
        <4>2. n \in Nat /\ n >= b /\ n <= h
          BY <1>2, <2>1
        <4>3. ~bad(n)
          BY <1>7, <2>1, <3>4, <4>2
        <4>4. t \in L
          BY <1>4, <1>10, <2>3, <4>1, <4>2, <4>3
        <4> QED
          BY <1>3, <4>1, <4>4
      <3> QED
        BY <3>1, <3>5
    <2>8. Gapless(nq, b) => Whole(R, b, a)
      <3>1. vr - 1 = h
        BY <2>1, <2>2
      <3> QED
        BY <2>7, <3>1 DEF Whole, nr, vr
    <2> QED
      BY <2>6, <2>8 DEF nq
  <1> QED
    BY <1>9, <1>10

\* A reset to a state of nonce b: unless only some of what it takes out of the
\* chain comes back, promotion closes the gap or leaves b out.
LEMMA ReinjectGapless ==
    ASSUME TypeInv, ExecInv, NEW s \in StateRec, NEW T, NEW P, NEW o, Reinject(T, s, P, o),
           NEW A, NEW Q, Promoted(o.pool, A, s, Q),
           NEW a \in Addr \ partly, a \notin PartlyBack(o.pool, s.chain),
           NEW b, b = GetNonce(s.chain, a)
    PROVE  Gapless(PNonces(Q, a), b)
  <1> DEFINE O == o.pool
             ob == GetNonce(state.chain, a)
             v == pool.nonces[a]
             n1 == PNonces(O, a)
             nq == PNonces(Q, a)
             w == O.nonces[a]
  <1>0. env \in Envs /\ PoolOK(pool) /\ PoolOK(O)
    BY DEF TypeInv, Reinject, AddsAll, Absorbed
  <1>1. b \in Nat /\ ob \in Nat /\ v \in Nat
    <2>1. s.chain \in SUBSET Tx /\ state.chain \in SUBSET Tx
      BY <1>0, EnvFacts DEF StateRec, TypeInv
    <2> QED
      BY <1>0, <2>1, NonceType DEF PoolOK, PoolRec
  <1>2. PNonces(pool, a) = ob .. v - 1 /\ v >= ob
    BY DEF ExecInv, Whole, Sound
  <1>3. PNonces(P, a) = ob .. v - 1 /\ P.nonces[a] = b /\ P.all = pool.all
    BY <1>2 DEF Reinject, PNonces
  <1>4. Trimmed(P, O, a) /\ \A t \in O.all \ P.all : ~Spent(t, s)
    BY DEF Reinject, AddsAll, Absorbed
  <1>5. \E x \in Nat : x >= ob /\ n1 = ob .. x - 1 /\ w <= b /\ w \in Nat
    <2>1. CASE n1 = PNonces(P, a) /\ w = P.nonces[a]
      BY <1>1, <1>2, <1>3, <2>1
    <2>2. ASSUME NEW c \in PNonces(P, a), n1 = {n \in PNonces(P, a) : n < c},
                 w = IF c < P.nonces[a] THEN c ELSE P.nonces[a]
          PROVE  c \in Nat /\ c >= ob /\ n1 = ob .. c - 1 /\ w <= b /\ w \in Nat
      <3>1. c \in Nat /\ c >= ob /\ c <= v - 1
        BY <1>1, <1>3
      <3>2. w = IF c < b THEN c ELSE b
        BY <1>3, <2>2
      <3>3. n1 = ob .. c - 1
        BY <1>1, <1>3, <2>2, <3>1
      <3> QED
        BY <1>1, <3>1, <3>2, <3>3
    <2> QED
      BY <1>4, <2>1, <2>2 DEF Trimmed
  <1>6. PICK x \in Nat : x >= ob /\ n1 = ob .. x - 1 /\ w <= b /\ w \in Nat
    BY <1>5
  <1>7. CASE nq = n1
    <2> HIDE DEF nq, n1
    <2>1. Gapless(nq, b)
      BY <1>1, <1>6, <1>7 DEF Gapless
    <2> QED
      BY <2>1 DEF nq
  <1>8. ASSUME NEW k \in Nat, NEW h \in Nat, Extends(O, Q, s, a, k, h) PROVE Gapless(nq, b)
    <2>1. /\ k <= h /\ k <= w /\ nq = n1 \cup (k .. h)
          /\ \A n \in k .. h : n \notin n1 /\ n >= b
          /\ \A n \in k .. h : \E t \in Of(O.all, a) : t.nonce = n
          /\ \A t \in Of(O.queue, a) : ~Spent(t, s) => t.nonce # h + 1
      BY <1>8 DEF Extends
    <2>2. k = b /\ b \in k .. h
      <3> HIDE DEF w
      <3> QED
        BY <1>1, <1>6, <2>1
    <2>3. ASSUME b < ob PROVE h >= ob - 1
      <3> DEFINE out == b .. ob - 1
                 back == {t.nonce : t \in Of(O.all, a)} \cap out
      <3>1. back = {} \/ back = out
        BY DEF PartlyBack
      <3>2. b \in back
        BY <1>1, <2>1, <2>2, <2>3
      <3>3. back = out
        BY <3>1, <3>2
      <3>4. SUFFICES ASSUME h + 1 <= ob - 1 PROVE FALSE
        BY <1>1
      <3>5. h + 1 \in out
        BY <1>1, <2>1, <2>2, <3>4
      <3>6. PICK t \in Of(O.all, a) : t.nonce = h + 1
        BY <3>3, <3>5
      <3>7. t \in O.all /\ t.from = a
        BY DEF Of
      <3>8. t \notin P.all
        <4>1. t \in pool.all => t.nonce >= ob
          BY <3>7 DEF ExecInv, NotBelow
        <4> QED
          BY <1>1, <1>3, <3>4, <3>6, <4>1
      <3>9. ~Spent(t, s)
        BY <1>4, <3>7, <3>8
      <3>10. t \notin O.pending
        <4>1. t \in O.pending => h + 1 \in n1
          BY <3>6, <3>7 DEF PNonces, Of
        <4>2. h + 1 \notin ob .. x - 1
          BY <1>1, <3>4
        <4> QED
          BY <1>6, <4>1, <4>2
      <3>11. t \in Of(O.queue, a)
        BY <1>0, <3>7, <3>10 DEF PoolOK, Exact, Of
      <3> QED
        BY <2>1, <3>6, <3>9, <3>11
    <2> HIDE DEF nq, n1
    <2>4. ASSUME NEW n \in nq, NEW m \in b .. n PROVE m \in nq
      <3>1. n \in Nat /\ m \in Nat /\ b <= m /\ m <= n
        BY <1>1, <1>6, <2>1
      <3>2. CASE m <= h
        BY <1>1, <2>1, <2>2, <3>1, <3>2
      <3>3. CASE m > h
        <4>1. n \in ob .. x - 1
          BY <1>6, <2>1, <2>2, <3>1, <3>3
        <4>2. m >= ob
          <5>1. CASE b < ob
            BY <1>1, <2>3, <3>1, <3>3, <5>1
          <5>2. CASE b >= ob
            BY <1>1, <3>1, <5>2
          <5> QED
            BY <1>1, <5>1, <5>2
        <4> QED
          BY <1>1, <1>6, <2>1, <3>1, <4>1, <4>2
      <3> QED
        BY <3>1, <3>2, <3>3
    <2> QED
      BY <2>4 DEF Gapless
  <1>9. nq = n1 \/ \E k, h \in Nat : Extends(O, Q, s, a, k, h)
    BY <1>0, PromoteExtends
  <1> QED
    BY <1>7, <1>8, <1>9

\* After a run with a reset, whatever was in the pool before.
LEMMA ResetExec ==
    ASSUME env \in Envs, NEW P, PoolOK(P), NEW s \in StateRec, NEW queued,
           NEW Q, NEW U, NEW R, NEW D, NEW E, ResetDone(P, s, queued, Q, U, R, D, E)
    PROVE  /\ NotBelow(pool', s.chain)
           /\ \A a \in Addr : Sound(pool', GetNonce(s.chain, a), a)
           /\ \A a \in Addr : Gapless(PNonces(Q, a), GetNonce(s.chain, a))
                                 => Whole(pool', GetNonce(s.chain, a), a)
  <1>1. /\ Promoted(P, {t.from : t \in P.queue}, s, Q) /\ Demoted(Q, s, U) /\ Renonced(U, s, R)
        /\ Ended(R, pool')
    BY DEF ResetDone, RunDone
  <1>2. PoolOK(Q) /\ PoolOK(R)
    BY <1>1 DEF Promoted, Renonced
  <1>3. NotBelow(pool', s.chain)
    <2>1. \A t \in Q.queue : ~Spent(t, s)
      BY <1>1 DEF Promoted
    <2>2. \A t \in U.all : ~Spent(t, s)
      BY <1>1, <2>1 DEF Demoted
    <2>3. pool'.all \subseteq U.all /\ U.all \subseteq Tx
      BY <1>1 DEF Ended, Renonced, Demoted, PoolOK, PoolRec
    <2>4. \A t \in U.all : t.nonce \in Nat /\ GetNonce(s.chain, t.from) \in Nat
      BY <2>3, EnvFacts, NonceType DEF StateRec
    <2> QED
      BY <2>2, <2>3, <2>4 DEF NotBelow, Spent
  <1>4. ASSUME NEW a \in Addr, NEW b, b = GetNonce(s.chain, a)
        PROVE  Sound(pool', b, a) /\ (Gapless(PNonces(Q, a), b) => Whole(pool', b, a))
    <2>1. Sound(R, b, a) /\ (Gapless(PNonces(Q, a), b) => Whole(R, b, a))
      BY <1>1, <1>2, <1>4, DemoteKeeps
    <2>2. Trimmed(R, pool', a)
      BY <1>1 DEF Ended
    <2>3. b \in Nat
      BY <1>4, NonceType, EnvFacts DEF StateRec
    <2>4. Sound(pool', b, a) /\ (Whole(R, b, a) => Whole(pool', b, a))
      BY <1>2, <2>1, <2>2, <2>3, TrimKeeps
    <2> QED
      BY <2>1, <2>4
  <1> QED
    BY <1>3, <1>4

\* No gap when pending is whole.
LEMMA WholeGapless ==
    ASSUME NEW Q, NEW a, NEW b \in Nat, Q.nonces[a] \in Nat, Whole(Q, b, a)
    PROVE  Gapless(PNonces(Q, a), b)
  BY DEF Whole, Gapless

\* Every step keeps pending executable.
LEMMA NextExecInv == TypeInv /\ ExecInv /\ [Next]_vars => ExecInv'
  <1> SUFFICES ASSUME TypeInv, ExecInv, [Next]_vars PROVE ExecInv'
    OBVIOUS
  <1> DEFINE Goal == /\ env' = env
                     /\ \A a \in Addr : Sound(pool', GetNonce(state'.chain, a), a)
                     /\ \A a \in Addr \ partly' : Whole(pool', GetNonce(state'.chain, a), a)
                     /\ NotBelow(pool', state'.chain)
  <1>a. ASSUME Goal PROVE ExecInv'
    <2>1. Addr' = Addr
      BY <1>a DEF Addr, Tx
    <2> QED
      BY <1>a, <2>1 DEF ExecInv, Sound, Whole, NotBelow, PNonces, GetNonce, Of
  <1>b. /\ env \in Envs /\ PoolOK(pool) /\ state \in StateRec
        /\ \A a \in Addr : Sound(pool, GetNonce(state.chain, a), a)
        /\ \A a \in Addr \ partly : Whole(pool, GetNonce(state.chain, a), a)
        /\ NotBelow(pool, state.chain)
    BY DEF TypeInv, ExecInv
  <1>c. \A a \in Addr : GetNonce(state.chain, a) \in Nat
    BY <1>b, NonceType, EnvFacts DEF StateRec
  <1>d. ASSUME NEW P, PoolOK(P), \A a \in Addr : Trimmed(P, pool', a),
               \A a \in Addr : Sound(P, GetNonce(state.chain, a), a),
               \A a \in Addr \ partly : Whole(P, GetNonce(state.chain, a), a),
               NotBelow(pool', state.chain), UNCHANGED <<state, partly, env>>
        PROVE  ExecInv'
    <2>1. ASSUME NEW a \in Addr
          PROVE  /\ Sound(pool', GetNonce(state.chain, a), a)
                 /\ a \notin partly => Whole(pool', GetNonce(state.chain, a), a)
      <3> DEFINE b == GetNonce(state.chain, a)
      <3>1. b \in Nat /\ Trimmed(P, pool', a) /\ Sound(P, b, a)
        BY <1>c, <1>d
      <3> HIDE DEF b
      <3>2. Sound(pool', b, a) /\ (Whole(P, b, a) => Whole(pool', b, a))
        BY <1>b, <1>d, <3>1, TrimKeeps
      <3> QED
        BY <1>d, <3>2 DEF b
    <2> QED
      BY <1>a, <1>d, <2>1
  <1>1. CASE DoesAdd
    <2>1. PICK t, P : AddDone(t, FALSE, P) \/ AddDone(t, TRUE, P)
      BY <1>1 DEF DoesAdd
    <2>2. /\ PoolOK(P) /\ P.pending = pool.pending /\ P.nonces = pool.nonces /\ P.all = pool.all
          /\ \A a \in Addr : Trimmed(P, pool', a)
          /\ UNCHANGED <<state, partly, env>>
      BY <2>1 DEF AddDone, Absorbed
    <2>3. /\ \A a \in Addr : Sound(P, GetNonce(state.chain, a), a)
          /\ \A a \in Addr \ partly : Whole(P, GetNonce(state.chain, a), a)
      BY <1>b, <2>2 DEF Sound, Whole, PNonces
    <2>4. NotBelow(pool', state.chain)
      <3>1. PoolOK(pool') /\ \A x \in pool'.all \ P.all : ~Spent(x, state)
        BY <2>1 DEF AddDone, Absorbed
      <3>2. \A x \in pool'.all : x.nonce \in Nat /\ GetNonce(state.chain, x.from) \in Nat
        BY <1>b, <1>c, <3>1, EnvFacts DEF PoolOK, PoolRec
      <3> QED
        BY <1>b, <2>2, <3>1, <3>2 DEF NotBelow, Spent
    <2> QED
      BY <1>d, <2>2, <2>3, <2>4
  <1>2. CASE DoesPromote
    <2>1. PICK D, E, P : /\ Promoted(pool, D, state, P)
                         /\ RunDone(P, D, E, E \cup (P.pending \ pool.pending), {})
      BY <1>2 DEF DoesPromote
    <2>2. PoolOK(P) /\ P.all \subseteq pool.all
      BY <2>1 DEF Promoted
    <2>3. pool'.all \subseteq P.all /\ \A a \in Addr : Trimmed(P, pool', a)
      BY <2>1 DEF RunDone, Ended
    <2>4. NotBelow(pool', state.chain)
      BY <1>b, <2>2, <2>3 DEF NotBelow
    <2>5. ASSUME NEW a \in Addr
          PROVE  /\ Sound(P, GetNonce(state.chain, a), a)
                 /\ Whole(pool, GetNonce(state.chain, a), a) => Whole(P, GetNonce(state.chain, a), a)
      BY <1>b, <2>1, PromoteKeeps
    <2>6. UNCHANGED <<state, partly, env>>
      BY <1>2 DEF DoesPromote
    <2> QED
      BY <1>b, <1>d, <2>2, <2>3, <2>4, <2>5, <2>6
  <1>3. CASE DoesReset
    <2>1. PICK T, s, P, o, Q, U, R, D, E :
             /\ s \in StateRec /\ Reinject(T, s, P, o)
             /\ ResetDone(o.pool, s, o.events, Q, U, R, D, E)
             /\ partly' = partly \cup PartlyBack(o.pool, s.chain)
             /\ state' = s /\ UNCHANGED <<gasPrice, env>>
      BY <1>3 DEF DoesReset
    <2>2. PoolOK(o.pool)
      BY <2>1 DEF Reinject, AddsAll, Absorbed
    <2>3. /\ NotBelow(pool', s.chain)
          /\ \A a \in Addr : Sound(pool', GetNonce(s.chain, a), a)
          /\ \A a \in Addr : Gapless(PNonces(Q, a), GetNonce(s.chain, a))
                                => Whole(pool', GetNonce(s.chain, a), a)
      BY <1>b, <2>1, <2>2, ResetExec
    <2>4. Promoted(o.pool, {t.from : t \in o.pool.queue}, s, Q)
      BY <2>1 DEF ResetDone
    <2>5. ASSUME NEW a \in Addr \ partly' PROVE Gapless(PNonces(Q, a), GetNonce(s.chain, a))
      <3>1. a \in Addr \ partly /\ a \notin PartlyBack(o.pool, s.chain)
        BY <2>1
      <3> QED
        BY <2>1, <2>4, <3>1, ReinjectGapless
    <2> QED
      BY <1>a, <2>1, <2>3, <2>5
  <1>4. CASE DoesFail
    <2>1. PICK Q, U, R, D, E : ResetDone(pool, state, {}, Q, U, R, D, E)
      BY <1>4 DEF DoesFail
    <2>2. /\ NotBelow(pool', state.chain)
          /\ \A a \in Addr : Sound(pool', GetNonce(state.chain, a), a)
          /\ \A a \in Addr : Gapless(PNonces(Q, a), GetNonce(state.chain, a))
                                => Whole(pool', GetNonce(state.chain, a), a)
      BY <1>b, <2>1, ResetExec
    <2>3. UNCHANGED <<state, partly, env>>
      BY <1>4 DEF DoesFail
    <2>4. Promoted(pool, {t.from : t \in pool.queue}, state, Q)
      BY <2>1 DEF ResetDone
    <2>5. ASSUME NEW a \in Addr \ partly PROVE Gapless(PNonces(Q, a), GetNonce(state.chain, a))
      <3>1. Whole(Q, GetNonce(state.chain, a), a)
        BY <1>b, <2>4, PromoteKeeps
      <3>2. Q.nonces[a] \in Nat
        BY <2>4 DEF Promoted, PoolOK, PoolRec
      <3> QED
        BY <1>c, <3>1, <3>2, WholeGapless
    <2> QED
      BY <1>a, <2>2, <2>3, <2>5
  <1>5. CASE DoesRemove
    <2>1. PICK S, R : RemoveDone(S, R)
      BY <1>5 DEF DoesRemove
    <2>2. Removed(pool, S, R) /\ Recalled(R, pool') /\ UNCHANGED <<state, partly, env>>
      BY <2>1 DEF RemoveDone
    <2>3. \A a \in Addr : Trimmed(pool, R, a)
      BY <1>b, <2>2, RemoveTrims
    <2>4. /\ pool'.pending = R.pending /\ pool'.nonces = R.nonces /\ pool'.all = R.all
          /\ R.all \subseteq pool.all
      BY <2>2 DEF Removed, Recalled
    <2>5. \A a \in Addr : Trimmed(pool, pool', a)
      BY <2>3, <2>4 DEF Trimmed, PNonces
    <2>6. NotBelow(pool', state.chain)
      BY <1>b, <2>4 DEF NotBelow
    <2> QED
      BY <1>b, <1>d, <2>2, <2>5, <2>6
  <1>6. CASE Prune
    <2>1. pool \in PoolRec
      BY <1>b DEF PoolOK
    <2>2. pool'.all = pool.all /\ pool'.pending = pool.pending /\ pool'.nonces = pool.nonces
      BY <1>6, <2>1 DEF Prune, PoolRec
    <2>3. UNCHANGED <<state, partly, env>>
      BY <1>6 DEF Prune
    <2>4. \A a \in Addr : Trimmed(pool, pool', a)
      BY <2>2 DEF Trimmed, PNonces
    <2>5. NotBelow(pool', state.chain)
      BY <1>b, <2>2 DEF NotBelow
    <2> QED
      BY <1>b, <1>d, <2>3, <2>4, <2>5
  <1>7. CASE UNCHANGED vars
    <2>1. Goal
      BY <1>b, <1>7 DEF vars
    <2> QED
      BY <1>a, <2>1
  <1> QED
    BY <1>1, <1>2, <1>3, <1>4, <1>5, <1>6, <1>7, NextDoes

\* For every account the pending nonces continue the state's without a gap and
\* Nonce() is the next one, through resets to any branch, unless reinjection
\* brought back only some of the account's transactions; even then the first
\* pending one is the next the state accepts.
THEOREM PendingIsExecutable == Spec => []PendingExecutable
  <1>1. Init => ExecInv
    <2> SUFFICES ASSUME Init PROVE ExecInv
      OBVIOUS
    <2>1. \A a : Of({}, a) = {}
      BY DEF Of
    <2>2. \A a : GetNonce({}, a) = 0
      BY <2>1, FS_EmptySet DEF GetNonce
    <2>3. state.chain = {} /\ pool.pending = {} /\ pool.all = {}
          /\ \A a \in Addr : pool.nonces[a] = 0
      BY DEF Init
    <2>4. \A a : PNonces(pool, a) = {}
      BY <2>1, <2>3 DEF PNonces
    <2>5. 0 .. 0 - 1 = {}
      OBVIOUS
    <2> QED
      BY <2>2, <2>3, <2>4, <2>5 DEF ExecInv, Sound, Whole, NotBelow
  <1>2. TypeInv /\ ExecInv => PendingExecutable
    <2> SUFFICES ASSUME TypeInv, ExecInv, NEW a \in Addr
                 PROVE  /\ a \notin partly => Processable(a)
                        /\ Of(pool.pending, a) # {}
                              => Lowest(Of(pool.pending, a)) = GetNonce(state.chain, a)
      BY DEF PendingExecutable
    <2> DEFINE b == GetNonce(state.chain, a)
               L == Of(pool.pending, a)
    <2>1. Sound(pool, b, a) /\ (a \notin partly => Whole(pool, b, a))
      BY DEF ExecInv
    <2>2. a \notin partly => Processable(a)
      BY <2>1 DEF Processable, Sound, Whole, PNonces
    <2>3. ASSUME L # {} PROVE Lowest(L) = b
      <3>1. env \in Envs /\ L \in SUBSET Tx
        BY DEF TypeInv, PoolOK, PoolRec, Of
      <3>2. b \in Nat
        <4>1. state.chain \in SUBSET Tx
          BY <3>1, EnvFacts DEF TypeInv, StateRec
        <4> QED
          BY <3>1, <4>1, NonceType
      <3>3. /\ Lowest(L) \in Nat /\ \E t \in L : t.nonce = Lowest(L)
            /\ \A t \in L : Lowest(L) <= t.nonce
        BY <2>3, <3>1, NonceRange
      <3>4. PNonces(pool, a) = {t.nonce : t \in L}
        BY DEF PNonces
      <3>5. (\E t \in L : t.nonce = b) /\ \A t \in L : t.nonce >= b
        BY <2>1, <2>3, <3>4 DEF Sound
      <3> HIDE DEF L, b
      <3> QED
        BY <3>2, <3>3, <3>5
    <2> QED
      BY <2>2, <2>3
  <1> QED
    BY <1>1, <1>2, NextExecInv, TypeInvariant, PTL DEF Spec

=============================================================================
