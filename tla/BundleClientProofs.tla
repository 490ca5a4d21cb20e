------------------------- MODULE BundleClientProofs -------------------------
(***************************************************************************)
(* The nonces of a bundle fit together, for any accounts, senders, numbers *)
(* of transactions, appended items and delays: receipts are missing only   *)
(* for the reasons the specification names.                                *)
(***************************************************************************)
EXTENDS BundleClient, TLAPS, FiniteSetTheorems, SequenceTheorems

Item == [form : {"raw", "signer", "dict"}, from : Accounts, nonce : Nat \cup {None}]
SignedTx == [from : Accounts, nonce : Nat]

\* How many of the first n transactions of s are a's.
Turns(s, n, a) == Cardinality({l \in 1 .. n : s[l].from = a})

\* Rounds of generate_signed_txs: from one transaction to the next the sender
\* moves on by one, and the round too after the last sender.
LEMMA NextRound ==
    ASSUME NEW n \in Nat, NEW L \in Nat \ {0}
    PROVE  /\ n \div L \in Nat /\ n % L \in 0 .. L - 1
           /\ (n % L) + 1 < L => (n + 1) \div L = n \div L /\ (n + 1) % L = (n % L) + 1
           /\ (n % L) + 1 >= L => (n + 1) \div L = (n \div L) + 1 /\ (n + 1) % L = 0
  <1>1. n \div L \in Nat /\ n % L \in 0 .. L - 1
    OBVIOUS
  <1>2. (n % L) + 1 < L => (n + 1) \div L = n \div L /\ (n + 1) % L = (n % L) + 1
    OBVIOUS
  <1>3. (n % L) + 1 >= L => (n + 1) \div L = (n \div L) + 1 /\ (n + 1) % L = 0
    <2>1. \A q \in Nat : n + 1 = L * q => (n + 1) \div L = q /\ (n + 1) % L = 0
      OBVIOUS
    <2>2. n = L * (n \div L) + (n % L)
      OBVIOUS
    <2>3. L * ((n \div L) + 1) = L * (n \div L) + L
      BY <1>1
    <2> QED
      BY <1>1, <2>1, <2>2, <2>3
  <1> QED
    BY <1>1, <1>2, <1>3

\* The constants are numbers, and there is a sender.
LEMMA ConstantFacts ==
    /\ Num \in Nat /\ Ahead \in Nat /\ MaxBlock \in Nat /\ MinBlock \in Nat
    /\ Len(Senders) \in Nat \ {0}
    /\ \A k \in 1 .. Len(Senders) : Senders[k] \in Accounts
  BY BundleClientAssumption

\* Counting is by natural numbers, starts at zero and adds one per transaction.
LEMMA TurnsStep ==
    ASSUME NEW s, NEW n \in Nat, NEW a
    PROVE  /\ Turns(s, n, a) \in Nat
           /\ Turns(s, 0, a) = 0
           /\ s[n + 1].from = a => Turns(s, n + 1, a) = Turns(s, n, a) + 1
           /\ s[n + 1].from # a => Turns(s, n + 1, a) = Turns(s, n, a)
  <1> DEFINE T(m) == {l \in 1 .. m : s[l].from = a}
  <1>1. IsFiniteSet(T(n)) /\ Cardinality(T(n)) \in Nat
    <2>1. IsFiniteSet(1 .. n)
      BY FS_Interval
    <2> QED
      BY <2>1, FS_Subset, FS_CardinalityType
  <1>2. T(0) = {}
    OBVIOUS
  <1>3. ASSUME s[n + 1].from = a
        PROVE  Cardinality(T(n + 1)) = Cardinality(T(n)) + 1
    <2>1. T(n + 1) = T(n) \cup {n + 1} /\ n + 1 \notin T(n)
      BY <1>3
    <2> QED
      BY <1>1, <2>1, FS_AddElement
  <1>4. ASSUME s[n + 1].from # a
        PROVE  T(n + 1) = T(n)
    BY <1>4
  <1> HIDE DEF T
  <1>5. /\ Turns(s, n, a) = Cardinality(T(n)) /\ Turns(s, 0, a) = Cardinality(T(0))
        /\ Turns(s, n + 1, a) = Cardinality(T(n + 1))
    BY DEF Turns, T
  <1>6. Turns(s, 0, a) = 0
    BY <1>2, <1>5, FS_EmptySet
  <1> QED
    BY <1>1, <1>3, <1>4, <1>5, <1>6

\* Only the senders count.
LEMMA TurnsSame ==
    ASSUME NEW s, NEW t, NEW n \in Nat, NEW a,
           \A l \in 1 .. n : s[l].from = t[l].from
    PROVE  Turns(s, n, a) = Turns(t, n, a)
  <1>1. {l \in 1 .. n : s[l].from = a} = {l \in 1 .. n : t[l].from = a}
    OBVIOUS
  <1> QED
    BY <1>1 DEF Turns

\* Nobody's turn yet.
LEMMA TurnsNone ==
    ASSUME NEW s, NEW n \in Nat, NEW a, \A l \in 1 .. n : s[l].from # a
    PROVE  Turns(s, n, a) = 0
  <1>1. {l \in 1 .. n : s[l].from = a} = {}
    OBVIOUS
  <1> QED
    BY <1>1, FS_EmptySet DEF Turns

\* The position of a transaction among its sender's.
LEMMA EarlierTurns ==
    ASSUME NEW s, NEW j
    PROVE  Earlier(s, j) = Turns(s, j - 1, s[j].from)
  BY DEF Earlier, Turns

-----------------------------------------------------------------------------
(* The invariant *)

Sent == {"wait", "receipts", "done", "noreceipt"}

\* A transaction in flight has nonce zero and its sender has sent nothing,
\* until the bundle is out.
FlightFirst == pc \notin Sent => \A a \in flight : count[a] = 0

\* While transactions are generated every sender has had its turns, and one
\* more than the others if this round has passed it.
Rounds ==
    pc \in {"connect", "start", "generate"} =>
        /\ Len(items) = i
        /\ \A k \in 1 .. Len(Senders) :
              Turns(items, i, Senders[k]) = (i \div Len(Senders)) + (IF k <= i % Len(Senders) THEN 1 ELSE 0)

\* Only transactions with their signer wait for a nonce.
NoncesSet == \A j \in DOMAIN items : items[j].form # "signer" => items[j].nonce # None

\* The nonces given so far continue the chain's, unless another transaction of
\* the sender landed.
Fitting ==
    ~mined /\ ~CopiedSharesSender =>
        \A j \in DOMAIN items :
            items[j].nonce # None /\ items[j].from \notin disturbed
                => items[j].nonce = count[items[j].from] + Turns(items, j - 1, items[j].from)

\* What is signed is the front of the bundle, with its nonces.
SignedFront ==
    /\ pc \in {"connect", "start", "generate", "ready", "simulate"} =>
          signed = <<>> /\ nonces = [a \in Accounts |-> None]
    /\ pc \in {"connect", "start", "ready", "simulate"} => i = 0
    /\ pc = "sign" => i <= Len(items) /\ Len(signed) = i
    /\ pc \in {"submit", "wait", "receipts"} => Len(signed) = Len(items)
    /\ \A j \in DOMAIN signed : /\ j \in DOMAIN items
                                /\ signed[j] = [from |-> items[j].from, nonce |-> items[j].nonce]

\* The dictionary of sign_bundle holds the next nonce of the senders it has met.
HasTurn(a) == \E l \in 1 .. i : items[l].from = a /\ items[l].form # "dict"
Dictionary ==
    pc = "sign" /\ ~CopiedSharesSender =>
        \A a \in Accounts \ disturbed :
            nonces[a] = IF HasTurn(a) THEN count[a] + Turns(items, i, a) ELSE None

\* At its target the bundle is included, unless there is a reason.
Excused == ~Undisturbed \/ late \/ CopiedSharesSender \/ declined
IncludedAtTarget ==
    /\ mined => pc \in Sent
    /\ pc \in {"wait", "receipts"} => mined \/ height < target \/ Excused
    /\ pc = "receipts" => height >= target
    /\ pc = "noreceipt" => Excused

BInv == TypeOK /\ FlightFirst /\ Rounds /\ NoncesSet /\ Fitting /\ SignedFront
        /\ Dictionary /\ IncludedAtTarget

-----------------------------------------------------------------------------
(* Preservation *)

\* Nothing is bundled at first.
LEMMA InitBInv == Init => BInv
  <1> SUFFICES ASSUME Init PROVE BInv
    OBVIOUS
  <1> USE BundleClientAssumption DEF Init
  <1>1. Len(Senders) \in Nat \ {0}
    OBVIOUS
  <1>2. TypeOK
    <2>1. height \in 0 .. MaxBlock /\ target \in 0 .. MaxBlock /\ count \in [Accounts -> Nat]
      BY ConstantFacts
    <2>2. nonces \in [Accounts -> Nat \cup {None}]
      OBVIOUS
    <2>3. /\ items \in Seq(Item) /\ signed \in Seq(SignedTx)
          /\ Len(items) = 0 /\ Len(signed) = 0
      OBVIOUS
    <2>4. up \in BOOLEAN /\ late \in BOOLEAN /\ mined \in BOOLEAN /\ declined \in BOOLEAN
      BY Zenon
    <2>5. flight \subseteq Accounts /\ disturbed \subseteq Accounts /\ i \in Nat /\ simulated \in Nat
      OBVIOUS
    <2>6. pc = "connect"
      OBVIOUS
    <2> HIDE DEF Init
    <2> QED
      BY <2>1, <2>2, <2>3, <2>4, <2>5, <2>6 DEF TypeOK, Item, SignedTx
  <1>3. \A a : Turns(items, 0, a) = 0
    BY TurnsStep
  <1>4. Rounds
    <2>1. 0 \div Len(Senders) = 0 /\ 0 % Len(Senders) = 0
      BY <1>1
    <2> QED
      BY <1>1, <1>3, <2>1 DEF Rounds
  <1>5. FlightFirst /\ NoncesSet /\ Fitting /\ SignedFront /\ Dictionary /\ IncludedAtTarget
    BY DEF FlightFirst, NoncesSet, Fitting, SignedFront, Dictionary, IncludedAtTarget, Sent
  <1> QED
    BY <1>2, <1>4, <1>5 DEF BInv

\* The predicates about the bundle depend on the bundle and the chain only.
LEMMA BundleSame ==
    ASSUME BInv, UNCHANGED <<items, count, flight, disturbed, mined, declined>>
    PROVE  /\ CopiedSharesSender' = CopiedSharesSender /\ Undisturbed' = Undisturbed
           /\ NoncesSet' /\ Fitting'
           /\ \A n \in Nat, a \in Accounts : Turns(items, n, a)' = Turns(items, n, a)
  BY DEF BInv, CopiedSharesSender, Undisturbed, SendersOf, NoncesSet, Fitting

\* Steps of the client around the bundle, and of the builder.
LEMMA QuietSteps ==
    ASSUME BInv,
           Connect \/ Start \/ Simulate \/ Extrapolate \/ ReadTarget \/ CallBundle
              \/ MakeRequest \/ Submit \/ Wait \/ Receipts \/ BuilderStarts \/ EstimateGasFails
    PROVE  BInv'
  <1> USE BundleClientAssumption
  <1>1. UNCHANGED <<items, count, flight, disturbed, mined, declined, height>>
    BY DEF Connect, Start, Simulate, Extrapolate, ReadTarget, CallBundle, MakeRequest, Submit,
           Wait, Receipts, BuilderStarts, EstimateGasFails, chainVars
  <1>2. /\ CopiedSharesSender' = CopiedSharesSender /\ Undisturbed' = Undisturbed
        /\ NoncesSet' /\ Fitting'
    BY <1>1, BundleSame
  <1>3. TypeOK'
    <2>1. CASE Connect
      BY <1>1, <2>1 DEF BInv, TypeOK, SignedFront, None, Connect, chainVars
    <2>2. CASE Start
      BY <1>1, <2>2, ConstantFacts DEF BInv, TypeOK, SignedFront, None, Start, chainVars
    <2>3. CASE Simulate
      BY <1>1, <2>3 DEF BInv, TypeOK, SignedFront, None, Simulate, chainVars
    <2>4. CASE Extrapolate
      BY <1>1, <2>4 DEF BInv, TypeOK, SignedFront, None, Extrapolate, chainVars
    <2>5. CASE ReadTarget
      BY <1>1, <2>5, SMTT(30) DEF BInv, TypeOK, SignedFront, None, ReadTarget, chainVars
    <2>6. CASE CallBundle
      BY <1>1, <2>6 DEF BInv, TypeOK, SignedFront, None, CallBundle, chainVars
    <2>7. CASE MakeRequest
      BY <1>1, <2>7 DEF BInv, TypeOK, SignedFront, None, MakeRequest, chainVars
    <2>8. CASE Submit
      BY <1>1, <2>8 DEF BInv, TypeOK, SignedFront, None, Submit, chainVars
    <2>9. CASE Wait
      BY <1>1, <2>9 DEF BInv, TypeOK, SignedFront, None, Wait, chainVars
    <2>10. CASE Receipts
      BY <1>1, <2>10 DEF BInv, TypeOK, SignedFront, None, Receipts, chainVars
    <2>11. CASE BuilderStarts
      BY <1>1, <2>11 DEF BInv, TypeOK, SignedFront, None, BuilderStarts, chainVars
    <2>12. CASE EstimateGasFails
      BY <1>1, <2>12 DEF BInv, TypeOK, SignedFront, None, EstimateGasFails, chainVars
    <2> QED
      BY <2>1, <2>2, <2>3, <2>4, <2>5, <2>6, <2>7, <2>8, <2>9, <2>10, <2>11, <2>12
  <1>4. FlightFirst'
    BY <1>1 DEF BInv, FlightFirst, Sent, Connect, Start, Simulate, Extrapolate, ReadTarget,
                CallBundle, MakeRequest, Submit, Wait, Receipts, BuilderStarts, EstimateGasFails, chainVars
  <1>5. Rounds'
    BY <1>1 DEF BInv, Rounds, Connect, Start, Simulate, Extrapolate, ReadTarget,
                CallBundle, MakeRequest, Submit, Wait, Receipts, BuilderStarts, EstimateGasFails, chainVars
  <1>6. SignedFront'
    <2>1. CASE Connect
      BY <1>1, <2>1 DEF BInv, TypeOK, SignedFront, Connect, chainVars
    <2>2. CASE Start
      BY <1>1, <2>2 DEF BInv, TypeOK, SignedFront, Start, chainVars
    <2>3. CASE Simulate
      BY <1>1, <2>3 DEF BInv, TypeOK, SignedFront, Simulate, chainVars
    <2>4. CASE Extrapolate
      BY <1>1, <2>4 DEF BInv, TypeOK, SignedFront, Extrapolate, chainVars
    <2>5. CASE ReadTarget
      BY <1>1, <2>5 DEF BInv, TypeOK, SignedFront, ReadTarget, chainVars
    <2>6. CASE CallBundle
      BY <1>1, <2>6 DEF BInv, TypeOK, SignedFront, CallBundle, chainVars
    <2>7. CASE MakeRequest
      BY <1>1, <2>7 DEF BInv, TypeOK, SignedFront, MakeRequest, chainVars
    <2>8. CASE Submit
      BY <1>1, <2>8 DEF BInv, TypeOK, SignedFront, Submit, chainVars
    <2>9. CASE Wait
      BY <1>1, <2>9 DEF BInv, TypeOK, SignedFront, Wait, chainVars
    <2>10. CASE Receipts
      BY <1>1, <2>10 DEF BInv, TypeOK, SignedFront, Receipts, chainVars
    <2>11. CASE BuilderStarts
      BY <1>1, <2>11 DEF BInv, TypeOK, SignedFront, BuilderStarts, chainVars
    <2>12. CASE EstimateGasFails
      BY <1>1, <2>12 DEF BInv, TypeOK, SignedFront, EstimateGasFails, chainVars
    <2> QED
      BY <2>1, <2>2, <2>3, <2>4, <2>5, <2>6, <2>7, <2>8, <2>9, <2>10, <2>11, <2>12
  <1>7. Dictionary'
    <2>1. CASE Extrapolate \/ ReadTarget
      BY <1>1, <1>2, <2>1 DEF BInv, Dictionary, HasTurn, SignedFront, Extrapolate, ReadTarget, TypeOK
    <2>2. CASE BuilderStarts
      BY <1>1, <1>2, <2>2 DEF BInv, Dictionary, HasTurn, BuilderStarts
    <2>3. CASE ~(Extrapolate \/ ReadTarget \/ BuilderStarts)
      BY <2>3 DEF Dictionary, Connect, Start, Simulate, CallBundle, MakeRequest, Submit, Wait, Receipts,
             EstimateGasFails
    <2> QED
      BY <2>1, <2>2, <2>3
  <1>8. IncludedAtTarget'
    <2>1. CASE Connect
      BY <1>1, <1>2, <2>1
         DEF BInv, TypeOK, IncludedAtTarget, Excused, Sent, TargetReached, Connect, chainVars
    <2>2. CASE Start
      BY <1>1, <1>2, <2>2
         DEF BInv, TypeOK, IncludedAtTarget, Excused, Sent, TargetReached, Start, chainVars
    <2>3. CASE Simulate
      BY <1>1, <1>2, <2>3
         DEF BInv, TypeOK, IncludedAtTarget, Excused, Sent, TargetReached, Simulate, chainVars
    <2>4. CASE Extrapolate
      BY <1>1, <1>2, <2>4
         DEF BInv, TypeOK, IncludedAtTarget, Excused, Sent, TargetReached, Extrapolate, chainVars
    <2>5. CASE ReadTarget
      BY <1>1, <1>2, <2>5
         DEF BInv, TypeOK, IncludedAtTarget, Excused, Sent, TargetReached, ReadTarget, chainVars
    <2>6. CASE CallBundle
      BY <1>1, <1>2, <2>6
         DEF BInv, TypeOK, IncludedAtTarget, Excused, Sent, TargetReached, CallBundle, chainVars
    <2>7. CASE MakeRequest
      BY <1>1, <1>2, <2>7
         DEF BInv, TypeOK, IncludedAtTarget, Excused, Sent, TargetReached, MakeRequest, chainVars
    <2>8. CASE Submit
      <3>1. height >= target => late'
        BY <2>8 DEF Submit
      <3>2. pc' = "wait" /\ ~mined' /\ target' = target
        BY <1>1, <2>8 DEF BInv, IncludedAtTarget, Sent, Submit
      <3>3. height \in Nat /\ target \in Nat
        BY DEF BInv, TypeOK
      <3>4. Excused' \/ height' < target'
        BY <1>1, <3>1, <3>2, <3>3 DEF Excused
      <3> QED
        BY <3>2, <3>4 DEF IncludedAtTarget, Sent
    <2>9. CASE Wait
      BY <1>1, <1>2, <2>9
         DEF BInv, TypeOK, IncludedAtTarget, Excused, Sent, TargetReached, Wait, chainVars
    <2>10. CASE Receipts
      BY <1>1, <1>2, <2>10
         DEF BInv, TypeOK, IncludedAtTarget, Excused, Sent, TargetReached, Receipts, chainVars
    <2>11. CASE BuilderStarts
      BY <1>1, <1>2, <2>11
         DEF BInv, TypeOK, IncludedAtTarget, Excused, Sent, TargetReached, BuilderStarts, chainVars
    <2>12. CASE EstimateGasFails
      BY <1>1, <1>2, <2>12
         DEF BInv, TypeOK, IncludedAtTarget, Excused, Sent, TargetReached, EstimateGasFails, chainVars
    <2> QED
      BY <2>1, <2>2, <2>3, <2>4, <2>5, <2>6, <2>7, <2>8, <2>9, <2>10, <2>11, <2>12
  <1> QED
    BY <1>2, <1>3, <1>4, <1>5, <1>6, <1>7, <1>8 DEF BInv

\* A bundle that only grows keeps its front, and sharing senders in it.
LEMMA BundleGrows ==
    ASSUME BInv, UNCHANGED <<count, flight, disturbed, mined, declined>>,
           items' \in Seq(Item), Len(items) <= Len(items'),
           \A j \in 1 .. Len(items) : items'[j] = items[j]
    PROVE  /\ CopiedSharesSender => CopiedSharesSender'
           /\ \A n \in 0 .. Len(items), a \in Accounts : Turns(items', n, a) = Turns(items, n, a)
           /\ ~mined /\ ~CopiedSharesSender' =>
                \A j \in 1 .. Len(items) :
                    items'[j].nonce # None /\ items'[j].from \notin disturbed
                        => items'[j].nonce = count[items'[j].from] + Turns(items', j - 1, items'[j].from)
  <1>1. items \in Seq(Item) /\ DOMAIN items = 1 .. Len(items) /\ Len(items) \in Nat
    BY DEF BInv, TypeOK, Item
  <1>2. DOMAIN items' = 1 .. Len(items') /\ Len(items') \in Nat
    OBVIOUS
  <1>3. CopiedSharesSender => CopiedSharesSender'
    BY <1>1, <1>2 DEF CopiedSharesSender
  <1>4. \A n \in 0 .. Len(items), a \in Accounts : Turns(items', n, a) = Turns(items, n, a)
    <2> TAKE n \in 0 .. Len(items), a \in Accounts
    <2>1. \A l \in 1 .. n : items'[l].from = items[l].from
      BY <1>1
    <2> QED
      BY <1>1, <2>1, TurnsSame
  <1>5. \A j \in 1 .. Len(items) : items[j] \in Item /\ items[j].from \in Accounts /\ j - 1 \in 0 .. Len(items)
    <2>1. \A x \in Item : x.from \in Accounts
      BY DEF Item
    <2> QED
      BY <1>1, <2>1, ElementOfSeq
  <1> QED
    BY <1>1, <1>3, <1>4, <1>5 DEF BInv, Fitting

\* One more generated transaction: its sender has had one turn per round so far.
LEMMA GenerateStep ==
    ASSUME BInv, GenerateTx
    PROVE  BInv'
  <1> DEFINE L == Len(Senders)
             r == i % L
             g == Generated(i)
  <1> USE ConstantFacts
  <1>1. /\ items \in Seq(Item) /\ i \in Nat /\ Len(items) = i /\ count \in [Accounts -> Nat]
        /\ i < Num /\ pc = "generate" /\ ~mined
    BY DEF BInv, TypeOK, Item, Rounds, GenerateTx, IncludedAtTarget, Sent
  <1>2. /\ i \div L \in Nat /\ r \in 0 .. L - 1 /\ r + 1 \in 1 .. L
        /\ r + 1 < L => (i + 1) \div L = i \div L /\ (i + 1) % L = r + 1
        /\ r + 1 >= L => (i + 1) \div L = (i \div L) + 1 /\ (i + 1) % L = 0
    <2>1. L \in Nat \ {0} /\ i \in Nat
      BY <1>1
    <2> HIDE DEF L
    <2>2. i \div L \in Nat /\ i % L \in 0 .. L - 1
      BY <2>1
    <2>3. /\ (i % L) + 1 < L => (i + 1) \div L = i \div L /\ (i + 1) % L = (i % L) + 1
          /\ (i % L) + 1 >= L => (i + 1) \div L = (i \div L) + 1 /\ (i + 1) % L = 0
      BY <2>1, NextRound, Zenon
    <2> QED
      BY <2>1, <2>2, <2>3
  <1>3. /\ g \in Item /\ g.form = "raw" /\ g.from = Senders[r + 1]
        /\ g.nonce = count[g.from] + (i \div L) /\ g.nonce # None
    BY <1>1, <1>2 DEF Generated, Item, None
  <1>4. /\ items' = Append(items, g) /\ i' = i + 1
        /\ UNCHANGED <<chainVars, pc, nonces, signed, target, simulated, late>>
    BY DEF GenerateTx
  <1> HIDE DEF r, g
  <1>5. /\ items' \in Seq(Item) /\ Len(items') = i + 1 /\ DOMAIN items' = 1 .. i + 1
        /\ \A j \in 1 .. i : items'[j] = items[j]
        /\ items'[i + 1] = g
    BY <1>1, <1>3, <1>4
  <1>6. UNCHANGED <<height, count, flight, up, mined, declined, disturbed>>
    BY <1>4 DEF chainVars
  <1>7. /\ CopiedSharesSender => CopiedSharesSender'
        /\ \A n \in 0 .. i, a \in Accounts : Turns(items', n, a) = Turns(items, n, a)
        /\ ~CopiedSharesSender' =>
             \A j \in 1 .. i :
                 items'[j].nonce # None /\ items'[j].from \notin disturbed
                     => items'[j].nonce = count[items'[j].from] + Turns(items', j - 1, items'[j].from)
    BY <1>1, <1>5, <1>6, BundleGrows
  <1>8. \A k \in 1 .. L : Turns(items, i, Senders[k]) = (i \div L) + (IF k <= r THEN 1 ELSE 0)
    BY <1>1 DEF BInv, Rounds, r
  <1>9. TypeOK'
    BY <1>1, <1>4, <1>5, <1>6 DEF BInv, TypeOK, Item
  <1>10. FlightFirst' /\ NoncesSet' /\ SignedFront' /\ Dictionary' /\ IncludedAtTarget'
    <2>1. NoncesSet'
      BY <1>1, <1>3, <1>5 DEF BInv, NoncesSet
    <2>2. SignedFront'
      BY <1>1, <1>4, <1>5 DEF BInv, SignedFront
    <2> QED
      BY <2>1, <2>2, <1>1, <1>4, <1>6 DEF BInv, FlightFirst, Dictionary, IncludedAtTarget, Sent
  <1>11. Fitting'
    <2>1. Turns(items', i, g.from) = i \div L
      BY <1>1, <1>2, <1>3, <1>7, <1>8
    <2>2. i + 1 - 1 = i
      BY <1>1
    <2> QED
      BY <1>1, <1>3, <1>5, <1>6, <1>7, <2>1, <2>2 DEF Fitting
  <1>12. Rounds'
    <2>1. \A k \in 1 .. L : Turns(items', i + 1, Senders[k])
                              = Turns(items, i, Senders[k]) + (IF k = r + 1 THEN 1 ELSE 0)
      <3> TAKE k \in 1 .. L
      <3>1. g.from = Senders[k] <=> k = r + 1
        BY <1>2, <1>3, BundleClientAssumption DEF IsInjective
      <3>2. /\ items'[i + 1].from = Senders[k]
                  => Turns(items', i + 1, Senders[k]) = Turns(items', i, Senders[k]) + 1
            /\ items'[i + 1].from # Senders[k]
                  => Turns(items', i + 1, Senders[k]) = Turns(items', i, Senders[k])
        BY <1>1, TurnsStep, ZenonT(30)
      <3>3. Turns(items', i, Senders[k]) = Turns(items, i, Senders[k])
        BY <1>1, <1>7
      <3>4. Turns(items, i, Senders[k]) \in Nat
        BY <1>1, TurnsStep
      <3> QED
        BY <1>5, <3>1, <3>2, <3>3, <3>4
    <2>2. \A k \in 1 .. L : Turns(items', i + 1, Senders[k])
                              = ((i + 1) \div L) + (IF k <= (i + 1) % L THEN 1 ELSE 0)
      BY <1>2, <1>8, <2>1
    <2> QED
      BY <1>1, <1>4, <1>5, <2>2 DEF Rounds
  <1> QED
    BY <1>9, <1>10, <1>11, <1>12 DEF BInv

\* What the caller appends: a copied transaction is the first of its sender, or
\* shares it with another one.
LEMMA AppendStep ==
    ASSUME BInv, AppendItems
    PROVE  BInv'
  <1> USE ConstantFacts
  <1>1. PICK t \in Tails : /\ \A j \in DOMAIN t : t[j].form = "dict" => t[j].from \in flight
                           /\ items' = items \o t
    BY DEF AppendItems
  <1>2. /\ pc = "generate" /\ pc' = "ready" /\ i' = 0
        /\ UNCHANGED <<height, count, flight, up, mined, declined, disturbed, nonces,
                       signed, target, simulated, late>>
    BY DEF AppendItems, chainVars
  <1>3. /\ items \in Seq(Item) /\ count \in [Accounts -> Nat] /\ ~mined /\ flight \subseteq Accounts
        /\ \A a \in flight : count[a] = 0
    BY <1>2 DEF BInv, TypeOK, Item, IncludedAtTarget, Sent, FlightFirst
  <1>4. t \in Seq(TailItems)
    BY BundleClientAssumption
  <1>5. /\ \A x \in TailItems : x \in Item /\ x.from \in Accounts
        /\ \A x \in TailItems : x.form # "signer" => x.form = "dict" /\ x.nonce = 0 /\ x.nonce # None
        /\ \A x \in TailItems : x.nonce # None => x.form = "dict" /\ x.nonce = 0
    BY DEF TailItems, Item, None
  <1> DEFINE n == Len(items)
  <1>6. /\ items' \in Seq(Item) /\ n \in Nat /\ Len(items') \in Nat /\ n <= Len(items')
        /\ DOMAIN items = 1 .. n /\ DOMAIN items' = 1 .. Len(items')
        /\ \A j \in 1 .. n : items'[j] = items[j]
        /\ \A j \in (n + 1) .. Len(items') : /\ j - n \in DOMAIN t
                                             /\ items'[j] = t[j - n] /\ items'[j] \in TailItems
    <2>1. t \in Seq(Item)
      BY <1>4, <1>5, SeqMonotonic
    <2>2. /\ items' \in Seq(Item) /\ Len(items') = Len(items) + Len(t)
          /\ \A j \in 1 .. Len(items) + Len(t) :
                items'[j] = IF j <= Len(items) THEN items[j] ELSE t[j - Len(items)]
      BY <1>1, <1>3, <2>1, ConcatProperties
    <2>3. Len(t) \in Nat /\ DOMAIN t = 1 .. Len(t) /\ Len(items) \in Nat /\ DOMAIN items = 1 .. Len(items)
      BY <1>3, <1>4
    <2>4. \A k \in 1 .. Len(t) : t[k] \in TailItems
      BY <1>4, ElementOfSeq
    <2> QED
      BY <2>2, <2>3, <2>4
  <1> HIDE DEF n
  <1>7. /\ CopiedSharesSender => CopiedSharesSender'
        /\ ~CopiedSharesSender' =>
             \A j \in 1 .. n :
                 items'[j].nonce # None /\ items'[j].from \notin disturbed
                     => items'[j].nonce = count[items'[j].from] + Turns(items', j - 1, items'[j].from)
    BY <1>2, <1>3, <1>6, BundleGrows DEF n
  <1>8. ASSUME ~CopiedSharesSender', NEW j \in (n + 1) .. Len(items'), items'[j].nonce # None
        PROVE  items'[j].nonce = count[items'[j].from] + Turns(items', j - 1, items'[j].from)
    <2>1. items'[j].form = "dict" /\ items'[j].nonce = 0
      BY <1>5, <1>6, <1>8
    <2>2. count[items'[j].from] = 0
      BY <1>1, <1>3, <1>6, <2>1
    <2>3. j \in 1 .. Len(items') /\ j - 1 \in Nat /\ \A l \in 1 .. j - 1 : l \in 1 .. Len(items') /\ l # j
      BY <1>6
    <2>4. \A l \in 1 .. j - 1 : items'[l].from # items'[j].from
      BY <1>6, <1>8, <2>1, <2>3 DEF CopiedSharesSender
    <2>5. Turns(items', j - 1, items'[j].from) = 0
      BY <2>3, <2>4, TurnsNone
    <2> QED
      BY <2>1, <2>2, <2>5
  <1>9. Fitting'
    <2>1. \A j \in DOMAIN items' : j \in 1 .. n \/ j \in (n + 1) .. Len(items')
      BY <1>6
    <2> QED
      BY <1>2, <1>7, <1>8, <2>1 DEF Fitting
  <1>10. NoncesSet'
    <2>1. \A j \in DOMAIN items' : j \in 1 .. n \/ j \in (n + 1) .. Len(items')
      BY <1>6
    <2> QED
      BY <1>5, <1>6, <2>1 DEF BInv, NoncesSet
  <1>11. TypeOK'
    <2>1. Len(signed') = 0
      BY <1>2 DEF BInv, SignedFront
    <2> QED
      BY <1>2, <1>6, <2>1 DEF BInv, TypeOK, Item
  <1>12. SignedFront'
    BY <1>2, <1>6 DEF BInv, SignedFront
  <1>13. FlightFirst' /\ Rounds' /\ Dictionary' /\ IncludedAtTarget'
    BY <1>2, <1>3 DEF FlightFirst, Rounds, Dictionary, IncludedAtTarget, Sent
  <1> QED
    BY <1>9, <1>10, <1>11, <1>12, <1>13 DEF BInv

\* One iteration of sign_bundle: the nonce it takes follows those of the
\* sender's earlier transactions in the bundle.
LEMMA SignStep ==
    ASSUME BInv, sign_bundle
    PROVE  BInv'
  <1> DEFINE item == items[i + 1]
             x == NonceFor(item)
             a == item.from
  <1>1. /\ items \in Seq(Item) /\ i \in Nat /\ i < Len(items) /\ Len(signed) = i
        /\ signed \in Seq(SignedTx) /\ Len(items) \in Nat /\ DOMAIN items = 1 .. Len(items)
        /\ count \in [Accounts -> Nat] /\ nonces \in [Accounts -> Nat \cup {None}]
        /\ pc = "sign" /\ ~mined
    BY DEF BInv, TypeOK, Item, SignedTx, SignedFront, sign_bundle, IncludedAtTarget, Sent
  <1>2. /\ i + 1 \in 1 .. Len(items) /\ item \in Item /\ a \in Accounts
        /\ item.nonce \in Nat \cup {None} /\ item.form \in {"raw", "signer", "dict"}
    <2>1. i + 1 \in 1 .. Len(items)
      BY <1>1
    <2>2. item \in Item
      BY <1>1, <2>1, ElementOfSeq
    <2> QED
      BY <2>1, <2>2 DEF Item
  <1>3. x \in Nat /\ x # None /\ (item.nonce # None => x = item.nonce)
    BY <1>1, <1>2 DEF NonceFor, None
  <1>4. /\ i' = i + 1 /\ signed' = Append(signed, [from |-> a, nonce |-> x])
        /\ items' = [items EXCEPT ![i + 1].nonce = x]
        /\ nonces' = IF item.form = "dict" THEN nonces ELSE [nonces EXCEPT ![a] = x + 1]
        /\ UNCHANGED <<height, count, flight, up, mined, declined, disturbed, pc, target, simulated, late>>
    BY DEF sign_bundle, chainVars
  <1>5. /\ \A j \in 1 .. Len(items) :
             /\ items'[j].from = items[j].from /\ items'[j].form = items[j].form
             /\ j # i + 1 => items'[j] = items[j]
        /\ items'[i + 1].nonce = x
        /\ items' \in Seq(Item) /\ Len(items') = Len(items) /\ DOMAIN items' = 1 .. Len(items)
    <2> DEFINE y == [item EXCEPT !.nonce = x]
    <2>1. y \in Item /\ y.from = item.from /\ y.form = item.form /\ y.nonce = x
      BY <1>2, <1>3 DEF Item
    <2>2. items' = [items EXCEPT ![i + 1] = y]
      BY <1>1, <1>2, <1>4
    <2> HIDE DEF y, x
    <2>3. /\ items' \in Seq(Item) /\ Len(items') = Len(items)
          /\ \A j \in 1 .. Len(items) : items'[j] = IF j = i + 1 THEN y ELSE items[j]
      BY <1>1, <1>2, <2>1, <2>2, ExceptSeq
    <2>4. ASSUME NEW j \in 1 .. Len(items)
          PROVE  /\ items'[j].from = items[j].from /\ items'[j].form = items[j].form
                 /\ j # i + 1 => items'[j] = items[j]
      <3>1. j = i + 1 => items[j] = item /\ items'[j] = y
        BY <2>3
      <3>2. j # i + 1 => items'[j] = items[j]
        BY <2>3
      <3> HIDE DEF item
      <3> QED
        BY <2>1, <3>1, <3>2
    <2>5. items'[i + 1].nonce = x
      BY <1>2, <2>1, <2>3
    <2>6. DOMAIN items' = 1 .. Len(items)
      BY <2>3
    <2> QED
      BY <2>3, <2>4, <2>5, <2>6
  <1>6. SendersOf(items') = SendersOf(items) /\ (CopiedSharesSender' <=> CopiedSharesSender)
    BY <1>1, <1>5, ZenonT(30) DEF SendersOf, CopiedSharesSender
  <1>7. \A n \in 0 .. Len(items), b \in Accounts : Turns(items', n, b) = Turns(items, n, b)
    <2> TAKE n \in 0 .. Len(items), b \in Accounts
    <2>1. \A l \in 1 .. n : items'[l].from = items[l].from
      BY <1>1, <1>5
    <2>2. n \in Nat
      BY <1>1
    <2> QED
      BY <2>1, <2>2, TurnsSame, ZenonT(30)
  <1>8. ASSUME ~CopiedSharesSender, a \notin disturbed
        PROVE  x = count[a] + Turns(items, i, a)
    <2>1. CASE item.nonce # None
      <3>1. i + 1 - 1 = i
        BY <1>1
      <3>2. item.nonce = count[a] + Turns(items, i + 1 - 1, a)
        BY <1>1, <1>2, <1>8, <2>1 DEF BInv, Fitting
      <3> QED
        BY <1>3, <2>1, <3>1, <3>2
    <2>2. CASE item.nonce = None
      <3>1. nonces[a] = IF HasTurn(a) THEN count[a] + Turns(items, i, a) ELSE None
        BY <1>1, <1>2, <1>8 DEF BInv, Dictionary
      <3>2. Turns(items, i, a) \in Nat /\ count[a] \in Nat
        BY <1>1, <1>2, TurnsStep
      <3>3. CASE HasTurn(a)
        BY <2>2, <3>1, <3>2, <3>3 DEF NonceFor, None
      <3>4. CASE ~HasTurn(a)
        <4>1. \A l \in 1 .. i : items[l].from # a
          <5>1. SUFFICES ASSUME NEW l \in 1 .. i, items[l].from = a PROVE FALSE
            OBVIOUS
          <5>2. items[l].form = "dict"
            BY <3>4, <5>1 DEF HasTurn
          <5> QED
            BY <1>1, <1>2, <1>8, <5>1, <5>2 DEF CopiedSharesSender
        <4>2. Turns(items, i, a) = 0
          BY <1>1, <4>1, TurnsNone
        <4> QED
          BY <2>2, <3>1, <3>2, <3>4, <4>2 DEF NonceFor
      <3> QED
        BY <3>3, <3>4
    <2> QED
      BY <2>1, <2>2
  <1> HIDE DEF item, x, a
  <1>9. TypeOK'
    <2>1. [from |-> a, nonce |-> x] \in SignedTx
      BY <1>2, <1>3 DEF SignedTx
    <2>2. signed' \in Seq(SignedTx) /\ Len(signed') = i + 1
      BY <1>1, <1>4, <2>1
    <2>3. nonces' \in [Accounts -> Nat \cup {None}]
      BY <1>1, <1>2, <1>3, <1>4
    <2>4. i' \in Nat /\ Len(signed') <= Len(items')
      BY <1>1, <1>4, <1>5, <2>2
    <2> QED
      BY <1>1, <1>4, <1>5, <2>2, <2>3, <2>4 DEF BInv, TypeOK, Item, SignedTx
  <1>10. NoncesSet'
    BY <1>1, <1>3, <1>5 DEF BInv, NoncesSet
  <1>11. Fitting'
    <2> SUFFICES ASSUME ~CopiedSharesSender, NEW j \in 1 .. Len(items),
                        items'[j].nonce # None, items'[j].from \notin disturbed
                 PROVE  items'[j].nonce = count[items'[j].from] + Turns(items', j - 1, items'[j].from)
      BY <1>4, <1>5, <1>6, ZenonT(30) DEF Fitting
    <2>1. items[j] \in Item /\ items[j].from \in Accounts /\ j - 1 \in 0 .. Len(items)
      <3>1. items[j] \in Item
        BY <1>1, ElementOfSeq
      <3> QED
        BY <1>1, <3>1 DEF Item
    <2>2. Turns(items', j - 1, items'[j].from) = Turns(items, j - 1, items[j].from)
      BY <1>5, <1>7, <2>1
    <2>3. CASE j = i + 1
      <3>1. j - 1 = i /\ items[j].from = a
        BY <1>1, <2>3 DEF a, item
      <3> QED
        BY <1>5, <1>8, <2>2, <2>3, <3>1
    <2>4. CASE j # i + 1
      BY <1>1, <1>5, <2>2, <2>4 DEF BInv, Fitting
    <2> QED
      BY <2>3, <2>4
  <1>12. SignedFront'
    <2>1. DOMAIN signed' = 1 .. i + 1 /\ Len(signed') = i + 1 /\ DOMAIN signed = 1 .. i
      BY <1>1, <1>4
    <2>2. \A j \in 1 .. i : signed'[j] = signed[j]
      BY <1>1, <1>4
    <2>3. signed'[i + 1] = [from |-> a, nonce |-> x]
      BY <1>1, <1>4
    <2>4. \A j \in 1 .. i + 1 : /\ j \in DOMAIN items'
                                /\ signed'[j] = [from |-> items'[j].from, nonce |-> items'[j].nonce]
      <3> TAKE j \in 1 .. i + 1
      <3>1. CASE j = i + 1
        BY <1>2, <1>5, <2>3, <3>1 DEF a, item
      <3>2. CASE j # i + 1
        <4>1. j \in 1 .. i /\ j \in 1 .. Len(items)
          BY <1>1, <3>2
        <4> QED
          BY <1>5, <2>1, <2>2, <3>2, <4>1 DEF BInv, SignedFront
      <3> QED
        BY <3>1, <3>2
    <2> QED
      BY <1>1, <1>4, <1>5, <2>1, <2>4 DEF SignedFront
  <1>13. Dictionary'
    <2> SUFFICES ASSUME ~CopiedSharesSender, NEW b \in Accounts \ disturbed
                 PROVE  nonces'[b] = IF HasTurn(b)' THEN count[b] + Turns(items', i + 1, b) ELSE None
      BY <1>4, <1>6 DEF Dictionary
    <2>1. nonces[b] = IF HasTurn(b) THEN count[b] + Turns(items, i, b) ELSE None
      BY <1>1 DEF BInv, Dictionary
    <2>2. HasTurn(b)' <=> HasTurn(b) \/ (a = b /\ item.form # "dict")
      BY <1>1, <1>4, <1>5 DEF HasTurn, a, item
    <2>3. Turns(items', i + 1, b) = Turns(items, i + 1, b)
      BY <1>1, <1>7
    <2>4. CASE a # b
      <3>1. Turns(items, i + 1, b) = Turns(items, i, b)
        BY <1>1, <2>4, TurnsStep, Zenon DEF a, item
      <3>2. nonces'[b] = nonces[b]
        BY <1>1, <1>2, <1>4, <2>4
      <3> QED
        BY <2>1, <2>2, <2>3, <2>4, <3>1, <3>2
    <2>5. CASE a = b /\ item.form # "dict"
      <3>1. Turns(items, i + 1, b) = Turns(items, i, b) + 1
        BY <1>1, <2>5, TurnsStep, Zenon DEF a, item
      <3>2. nonces'[b] = x + 1
        BY <1>1, <1>2, <1>4, <2>5
      <3>3. x = count[b] + Turns(items, i, b) /\ count[b] \in Nat /\ Turns(items, i, b) \in Nat
        BY <1>1, <1>8, <2>5, TurnsStep
      <3> QED
        BY <2>2, <2>3, <2>5, <3>1, <3>2, <3>3
    <2>6. CASE a = b /\ item.form = "dict"
      <3>1. nonces'[b] = nonces[b]
        BY <1>4, <2>6
      <3>2. ~HasTurn(b)
        <4>1. SUFFICES ASSUME NEW l \in 1 .. i, items[l].from = b PROVE FALSE
          BY DEF HasTurn
        <4>2. l \in DOMAIN items /\ i + 1 \in DOMAIN items /\ l # i + 1
          BY <1>1, <1>2
        <4>3. items[i + 1].form = "dict" /\ items[l].from = items[i + 1].from
          BY <2>6, <4>1 DEF a, item
        <4> QED
          BY <4>2, <4>3 DEF CopiedSharesSender
      <3> QED
        BY <2>1, <2>2, <2>6, <3>1, <3>2
    <2> QED
      BY <2>4, <2>5, <2>6
  <1>14. FlightFirst' /\ Rounds' /\ IncludedAtTarget'
    BY <1>1, <1>4 DEF BInv, FlightFirst, Rounds, IncludedAtTarget, Sent
  <1> QED
    BY <1>9, <1>10, <1>11, <1>12, <1>13, <1>14 DEF BInv

\* A block: who lands disturbs the bundle if it is under way; at the target the
\* bundle executes if nobody in it is disturbed.
LEMMA BlockStep ==
    ASSUME BInv, NewBlock
    PROVE  BInv'
  <1> DEFINE landed(S) == [a \in Accounts |-> count[a] + (IF a \in S THEN 1 ELSE 0)]
             could(S) == pc \in {"wait", "receipts"} /\ target = height' /\ Executable(signed, landed(S))
             after(S) == [a \in Accounts |-> landed(S)[a] +
                            Cardinality({j \in DOMAIN signed : signed[j].from = a})]
  <1>1. PICK S \in SUBSET {a \in flight : count[a] = 0}, takes \in BOOLEAN :
           /\ flight' = flight \ S
           /\ disturbed' = disturbed \cup (IF pc \in {"connect", "start"} THEN {} ELSE S)
           /\ mined' = (mined \/ (could(S) /\ takes))
           /\ declined' = (declined \/ (could(S) /\ ~takes))
           /\ count' = IF could(S) /\ takes THEN after(S) ELSE landed(S)
    BY DEF NewBlock
  <1> DEFINE Inc == could(S) /\ takes
  <1>2. /\ height < MaxBlock /\ height' = height + 1
        /\ UNCHANGED <<up, pc, i, items, nonces, signed, target, simulated, late>>
    BY DEF NewBlock
  <1>3. /\ items \in Seq(Item) /\ signed \in Seq(SignedTx) /\ count \in [Accounts -> Nat]
        /\ height \in Nat /\ target \in Nat /\ height' \in 0 .. MaxBlock /\ height' = height + 1
        /\ flight \subseteq Accounts /\ disturbed \subseteq Accounts
        /\ mined \in BOOLEAN /\ declined \in BOOLEAN /\ late \in BOOLEAN
        /\ DOMAIN items = 1 .. Len(items) /\ DOMAIN signed = 1 .. Len(signed)
    BY <1>2, ConstantFacts DEF BInv, TypeOK, Item, SignedTx
  <1>4. landed(S) \in [Accounts -> Nat] /\ after(S) \in [Accounts -> Nat]
    <2>1. landed(S) \in [Accounts -> Nat]
      BY <1>3
    <2>2. ASSUME NEW a PROVE Cardinality({j \in DOMAIN signed : signed[j].from = a}) \in Nat
      <3>1. IsFiniteSet(1 .. Len(signed))
        BY <1>3, FS_Interval
      <3> QED
        BY <1>3, <3>1, FS_Subset, FS_CardinalityType
    <2>3. \A a \in Accounts : landed(S)[a] + Cardinality({j \in DOMAIN signed : signed[j].from = a}) \in Nat
      <3> TAKE a \in Accounts
      <3> HIDE DEF landed
      <3>1. landed(S)[a] \in Nat
        BY <2>1
      <3>2. \A x, y \in Nat : x + y \in Nat
        OBVIOUS
      <3> HIDE DEF could, after
      <3> QED
        BY <2>2, <3>1, <3>2, ZenonT(30)
    <2> HIDE DEF landed
    <2> QED
      BY <2>1, <2>3
  <1>5. /\ Inc => pc \in {"wait", "receipts"} /\ target = height'
        /\ ~Inc /\ pc \in {"wait", "receipts"} /\ target = height' => ~Executable(signed, landed(S)) \/ declined'
        /\ ~Inc => count' = landed(S)
        /\ mined' <=> mined \/ Inc
        /\ declined => declined'
    BY <1>1
  <1>6. \A a \in Accounts : /\ a \notin S => landed(S)[a] = count[a]
                            /\ a \in S => landed(S)[a] = 1
    BY <1>1, <1>3
  <1> HIDE DEF Inc, landed, after
  <1>7. count' \in [Accounts -> Nat] /\ mined' \in BOOLEAN /\ declined' \in BOOLEAN
    <2>1. mined' \in BOOLEAN /\ declined' \in BOOLEAN
      BY <1>1, Zenon
    <2> QED
      BY <1>1, <1>4, <2>1 DEF Inc
  <1>8. TypeOK'
    BY <1>1, <1>2, <1>3, <1>7 DEF BInv, TypeOK
  <1>9. FlightFirst'
    <2>1. pc \notin Sent => ~Inc
      BY <1>5 DEF Sent
    <2> QED
      BY <1>1, <1>2, <1>3, <1>5, <1>6, <2>1 DEF BInv, FlightFirst
  <1>10. Rounds' /\ NoncesSet'
    BY <1>2 DEF BInv, Rounds, NoncesSet
  <1>11. SignedFront'
    BY <1>2 DEF BInv, SignedFront
  <1>12. CopiedSharesSender' <=> CopiedSharesSender
    BY <1>2 DEF CopiedSharesSender
  <1>13. pc \in {"connect", "start"} => items = <<>>
    <2>1. pc \in {"connect", "start"} => i = 0 /\ Len(items) = i
      BY DEF BInv, SignedFront, Rounds
    <2> QED
      BY <1>3, <2>1, EmptySeq
  <1>14. \A j \in DOMAIN items :
            items[j].from \in Accounts /\ (items[j].from \notin disturbed' =>
               items[j].from \notin disturbed /\ landed(S)[items[j].from] = count[items[j].from])
    <2> TAKE j \in DOMAIN items
    <2>1. items[j].from \in Accounts
      <3>1. items[j] \in Item
        BY <1>3, ElementOfSeq
      <3> QED
        BY <3>1 DEF Item
    <2>2. pc \notin {"connect", "start"}
      BY <1>13
    <2> QED
      BY <1>1, <1>6, <2>1, <2>2
  <1>15. Fitting'
    BY <1>2, <1>5, <1>12, <1>14 DEF BInv, Fitting
  <1>16. Dictionary'
    <2> SUFFICES ASSUME pc = "sign", ~CopiedSharesSender
                 PROVE  \A a \in Accounts \ disturbed' :
                           nonces[a] = IF HasTurn(a)' THEN count'[a] + Turns(items, i, a) ELSE None
      BY <1>2, <1>12 DEF Dictionary
    <2>1. ~Inc /\ \A a \in Accounts \ disturbed' : a \notin S /\ a \notin disturbed
      BY <1>1, <1>5
    <2>2. \A a : HasTurn(a)' <=> HasTurn(a)
      BY <1>2 DEF HasTurn
    <2> QED
      BY <1>5, <1>6, <2>1, <2>2 DEF BInv, Dictionary
  <1>17. IncludedAtTarget'
    <2>1. Excused => Excused'
      BY <1>1, <1>2, <1>5, <1>12 DEF Excused, Undisturbed
    <2>2. mined' => pc' \in Sent
      BY <1>2, <1>5 DEF BInv, IncludedAtTarget, Sent
    <2>3. ASSUME pc \in {"wait", "receipts"}, ~mined', ~Excused', ~(height' < target')
          PROVE  FALSE
      <3>1. ~mined /\ ~Inc /\ ~Excused
        BY <1>5, <2>1, <2>3
      <3>2. target = height'
        BY <1>2, <1>3, <2>3, <3>1 DEF BInv, IncludedAtTarget
      <3>3. ~CopiedSharesSender /\ \A j \in DOMAIN items : items[j].from \notin disturbed'
        BY <1>2, <1>12, <2>3 DEF Excused, Undisturbed, SendersOf
      <3>4. ASSUME NEW j \in DOMAIN signed
            PROVE  signed[j].nonce = landed(S)[signed[j].from] + Earlier(signed, j)
        <4>1. /\ j \in DOMAIN items /\ signed[j].from = items[j].from
              /\ signed[j].nonce = items[j].nonce /\ signed[j].nonce # None
          <5>1. signed[j] \in SignedTx
            BY <1>3, <3>4, ElementOfSeq
          <5> QED
            BY <3>4, <5>1 DEF BInv, SignedFront, SignedTx, None
        <4>2. items[j].nonce = count[items[j].from] + Turns(items, j - 1, items[j].from)
          BY <1>14, <3>1, <3>3, <4>1 DEF BInv, Fitting
        <4>3. \A l \in 1 .. j - 1 : signed[l].from = items[l].from
          <5> TAKE l \in 1 .. j - 1
          <5>1. l \in DOMAIN signed
            BY <1>3, <3>4
          <5>2. signed[l] = [from |-> items[l].from, nonce |-> items[l].nonce]
            BY <5>1 DEF BInv, SignedFront
          <5> QED
            BY <5>2
        <4>4. j - 1 \in Nat
          BY <1>3, <3>4
        <4>5. Turns(signed, j - 1, signed[j].from) = Turns(items, j - 1, items[j].from)
          BY <4>1, <4>3, <4>4, TurnsSame
        <4>6. Earlier(signed, j) = Turns(signed, j - 1, signed[j].from)
          BY EarlierTurns
        <4>7. landed(S)[items[j].from] = count[items[j].from]
          BY <1>14, <3>3, <4>1
        <4> QED
          BY <4>1, <4>2, <4>5, <4>6, <4>7
      <3>5. Executable(signed, landed(S))
        BY <3>4 DEF Executable
      <3> QED
        BY <1>5, <2>3, <3>1, <3>2, <3>5 DEF Excused
    <2>4. /\ pc' = "receipts" => height' >= target'
          /\ pc' = "noreceipt" => Excused'
      BY <1>2, <1>3, <2>1 DEF BInv, IncludedAtTarget
    <2> QED
      BY <1>2, <2>2, <2>3, <2>4 DEF IncludedAtTarget
  <1> QED
    BY <1>8, <1>9, <1>10, <1>11, <1>15, <1>16, <1>17 DEF BInv

\* Every step keeps the invariant.
LEMMA NextBInv == BInv /\ [Next]_vars => BInv'
  <1> SUFFICES ASSUME BInv, [Next]_vars PROVE BInv'
    OBVIOUS
  <1>1. CASE UNCHANGED vars
    <2>1. UNCHANGED <<height, count, flight, up, mined, declined, disturbed, pc, i, items, nonces, signed,
                      target, simulated, late>>
      BY <1>1 DEF vars, chainVars
    <2>2. TypeOK' /\ FlightFirst' /\ NoncesSet'
      BY <2>1 DEF BInv, TypeOK, FlightFirst, NoncesSet
    <2>3. Rounds'
      BY <2>1, SMTT(30) DEF BInv, Rounds
    <2>4. SignedFront'
      BY <2>1 DEF BInv, SignedFront
    <2>5. CopiedSharesSender' = CopiedSharesSender /\ Undisturbed' = Undisturbed
      BY <2>1 DEF CopiedSharesSender, Undisturbed, SendersOf
    <2>6. Dictionary'
      BY <2>1, <2>5 DEF BInv, Dictionary, HasTurn
    <2>7. IncludedAtTarget'
      BY <2>1, <2>5 DEF BInv, IncludedAtTarget, Excused
    <2>8. Fitting'
      BY <2>1, <2>5, SMTT(30) DEF BInv, Fitting
    <2> QED
      BY <2>2, <2>3, <2>4, <2>6, <2>7, <2>8 DEF BInv
  <1>2. CASE GenerateTx
    BY <1>2, GenerateStep
  <1>3. CASE AppendItems
    BY <1>3, AppendStep
  <1>4. CASE sign_bundle
    BY <1>4, SignStep
  <1>5. CASE NewBlock
    BY <1>5, BlockStep
  <1> QED
    BY <1>1, <1>2, <1>3, <1>4, <1>5, QuietSteps DEF Next, Client

\* Type correctness of the client.
THEOREM TypeCorrect == Spec => []TypeOK
  <1>1. BInv => TypeOK
    BY DEF BInv
  <1> QED
    BY <1>1, InitBInv, NextBInv, PTL DEF Spec

\* However many blocks arrive between its reads of the chain, the client misses
\* receipts only when a sender's transaction in flight landed, when the request
\* was too slow, for a copied transaction next to another one of its sender, or
\* when the builder left out a bundle that executes.
THEOREM ReceiptsExplained == Spec => []ReceiptsMissingOnlyIf
  <1>1. BInv => ReceiptsMissingOnlyIf
    BY DEF BInv, IncludedAtTarget, Excused, ReceiptsMissingOnlyIf
  <1> QED
    BY <1>1, InitBInv, NextBInv, PTL DEF Spec

=============================================================================
