------------------------ MODULE MevBundlePoolProofs ------------------------
(***************************************************************************)
(* Proofs about the bundle pool for any numbers of adding threads, calls,  *)
(* bundles and batches, any block numbers and timestamps.                  *)
(***************************************************************************)
EXTENDS MevBundlePool, TLAPS

\* Entries know how many calls had been made when they arrived.
ArrivalsOK == \A e \in added : e.at <= Len(asked)

\* How far a thread is with writing files: everything before its position in
\* the loop is written.
LeakProgress ==
    \A a \in Adder : adder[a].pc # "idle" =>
        \A i \in 1..Len(adder[a].batch) :
            LET b == adder[a].batch[i]
            IN  b.signer = SubvAddress =>
                  \A j \in 1..Len(b.txs) :
                      i < adder[a].i \/ (i = adder[a].i /\ j < adder[a].j) =>
                          b.txs[j] \in files

\* LeakedBeforeOffered for every entry ever added, pruned or not.
LeakedBeforeAdded ==
    \A e \in added : e.b.signer = SubvAddress /\ e.no \notin broken =>
        \A j \in 1..Len(e.b.txs) : e.b.txs[j] \in files

IInv == /\ TypeOK
        /\ ArrivalsOK
        /\ PoolExact
        /\ LeakProgress
        /\ LeakedBeforeAdded

\* What the pool's variables other than the threads' depend on.
poolVars == <<mu, mevBundles, adder, files, arrivals, added, asked, broken>>

\* Batches are sequences of bundles.
LEMMA BatchOK ==
    ASSUME NEW s \in Batches \cup {<<>>}
    PROVE  s \in Seq(Bundle)
  <1>1. CASE s \in Batches
    BY <1>1, BundlesOK
  <1>2. CASE s = <<>>
    BY <1>2
  <1> QED
    BY <1>1, <1>2

\* Steps outside the pool.
LEMMA StutterIInv == IInv /\ UNCHANGED poolVars => IInv'
  BY DEF IInv, poolVars, TypeOK, ArrivalsOK, PoolExact, LeakProgress,
         LeakedBeforeAdded

\* Initially the pool is empty and nobody adds.
LEMMA InitIInv == Init => IInv
  <1> SUFFICES ASSUME Init PROVE IInv
    OBVIOUS
  <1>1. TypeOK
    BY DEF Init, TypeOK, IdleAdder
  <1>2. ArrivalsOK /\ PoolExact /\ LeakedBeforeAdded
    BY DEF Init, ArrivalsOK, PoolExact, LeakedBeforeAdded
  <1>3. LeakProgress
    BY DEF Init, LeakProgress, IdleAdder
  <1> QED
    BY <1>1, <1>2, <1>3 DEF IInv

\* Taking the lock starts the loop at its first position.
LEMMA LockIInv ==
    ASSUME NEW a \in Adder, IInv, Lock(a)
    PROVE  IInv'
  <1> USE DEF IInv
  <1>1. PICK s \in Batches :
          adder' = [adder EXCEPT ![a] = [IdleAdder EXCEPT !.pc = "leak", !.batch = s]]
    BY DEF Lock
  <1>2. /\ mu = None /\ mu' = a
        /\ UNCHANGED <<mevBundles, files, arrivals, added, asked, broken>>
    BY DEF Lock
  <1>3. TypeOK'
    <2>1. \A x \in Adder : adder[x].pc = "idle"
      BY <1>2, BundlesOK DEF TypeOK
    <2> QED
      BY <1>1, <1>2, <2>1 DEF TypeOK, IdleAdder
  <1>4. LeakProgress'
    <2> SUFFICES ASSUME NEW x \in Adder, adder'[x].pc # "idle",
                        NEW i \in 1..Len(adder'[x].batch),
                        adder'[x].batch[i].signer = SubvAddress,
                        NEW j \in 1..Len(adder'[x].batch[i].txs),
                        i < adder'[x].i \/ (i = adder'[x].i /\ j < adder'[x].j)
                 PROVE  adder'[x].batch[i].txs[j] \in files'
      BY DEF LeakProgress
    <2>1. x = a
      BY <1>1, <1>2, BundlesOK DEF TypeOK
    <2>2. adder'[x].i = 1 /\ adder'[x].j = 1
      BY <1>1, <2>1 DEF TypeOK, IdleAdder
    <2>3. Len(adder'[x].batch) \in Nat
      BY <1>1, <2>1, BatchOK DEF TypeOK, IdleAdder
    <2>4. Len(adder'[x].batch[i].txs) \in Nat
      BY <1>1, <2>1, BatchOK, BundlesOK DEF TypeOK, IdleAdder
    <2> QED
      BY <2>2, <2>3, <2>4
  <1>5. (ArrivalsOK /\ PoolExact /\ LeakedBeforeAdded)'
    BY <1>2 DEF ArrivalsOK, PoolExact, LeakedBeforeAdded
  <1> QED
    BY <1>3, <1>4, <1>5

\* One round of the loop keeps everything behind it written.
LEMMA LeakNextIInv ==
    ASSUME NEW a \in Adder, IInv, LeakNext(a)
    PROVE  IInv'
  <1> USE DEF IInv
  <1> DEFINE me == adder[a]
             b == me.batch[me.i]
             writes == b.signer = SubvAddress /\ me.j <= Len(b.txs)
  <1>1. /\ me.pc = "leak" /\ me.i \in Nat /\ me.j \in Nat /\ me.i <= Len(me.batch)
        /\ me.batch \in Seq(Bundle)
        /\ UNCHANGED <<mu, mevBundles, arrivals, added, asked, broken>>
        /\ files \subseteq files'
    BY BatchOK DEF LeakNext, TypeOK
  <1>2. IF writes
        THEN /\ files' = files \cup {b.txs[me.j]}
             /\ adder' = [adder EXCEPT ![a].j = @ + 1]
        ELSE adder' = [adder EXCEPT ![a].i = @ + 1, ![a].j = 1]
    BY DEF LeakNext
  <1>3. /\ adder'[a].pc = me.pc /\ adder'[a].batch = me.batch
        /\ IF writes THEN adder'[a].i = me.i /\ adder'[a].j = me.j + 1
                     ELSE adder'[a].i = me.i + 1 /\ adder'[a].j = 1
        /\ \A x \in Adder : x # a => adder'[x] = adder[x]
    BY <1>2 DEF TypeOK
  <1>4. TypeOK'
    <2> DEFINE Pos == [pc : {"idle", "leak", "append"}, i : Nat, j : Nat,
                       batch : Batches \cup {<<>>}]
    <2>1. adder \in [Adder -> Pos] /\ me \in Pos
      BY DEF TypeOK
    <2>2. adder' \in [Adder -> Pos]
      <3>1. CASE writes
        <4>1. adder' = [adder EXCEPT ![a] = [me EXCEPT !.j = me.j + 1]]
          BY <1>2, <2>1, <3>1
        <4>a. me.j + 1 \in Nat
          BY <1>1
        <4>2. [me EXCEPT !.j = me.j + 1] \in Pos
          <5> HIDE DEF me
          <5> QED
            BY <2>1, <4>a
        <4> HIDE DEF Pos, me
        <4> QED
          BY <2>1, <4>1, <4>2
      <3>2. CASE ~writes
        <4>1. adder' = [adder EXCEPT ![a] = [me EXCEPT !.i = me.i + 1, !.j = 1]]
          BY <1>2, <2>1, <3>2
        <4>a. me.i + 1 \in Nat
          BY <1>1
        <4>2. [me EXCEPT !.i = me.i + 1, !.j = 1] \in Pos
          <5> HIDE DEF me
          <5> QED
            BY <2>1, <4>a
        <4> HIDE DEF Pos, me
        <4> QED
          BY <2>1, <4>1, <4>2
      <3> QED
        BY <3>1, <3>2
    <2>3. \A x \in Adder : adder'[x].pc # "idle" => mu' = x
      BY <1>1, <1>3 DEF TypeOK
    <2> QED
      BY <1>1, <2>2, <2>3 DEF TypeOK
  <1>5. LeakProgress'
    <2> SUFFICES ASSUME NEW x \in Adder, adder'[x].pc # "idle",
                        NEW i \in 1..Len(adder'[x].batch),
                        adder'[x].batch[i].signer = SubvAddress,
                        NEW j \in 1..Len(adder'[x].batch[i].txs),
                        i < adder'[x].i \/ (i = adder'[x].i /\ j < adder'[x].j)
                 PROVE  adder'[x].batch[i].txs[j] \in files'
      BY DEF LeakProgress
    <2>1. CASE x # a
      BY <1>1, <1>3, <2>1 DEF LeakProgress
    <2>2. CASE x = a
      <3>1. i \in Nat /\ j \in Nat
        <4>1. Len(me.batch) \in Nat /\ Len(me.batch[i].txs) \in Nat
          BY <1>1, <1>3, <2>2, BundlesOK
        <4> QED
          BY <1>3, <2>2, <4>1
      <3>2. CASE i < me.i \/ (i = me.i /\ j < me.j)
        BY <1>1, <1>3, <2>2, <3>2 DEF LeakProgress
      <3>3. CASE ~(i < me.i \/ (i = me.i /\ j < me.j))
        <4>1. CASE writes
          <5>1. adder'[a].i = me.i /\ adder'[a].j = me.j + 1
            BY <1>3, <4>1
          <5>2. i < me.i \/ (i = me.i /\ j < me.j + 1)
            BY <2>2, <5>1
          <5>3. i = me.i /\ j = me.j
            BY <1>1, <3>1, <3>3, <5>2
          <5> QED
            BY <1>2, <1>3, <2>2, <4>1, <5>3
        <4>2. CASE ~writes
          <5>a. adder'[a].i = me.i + 1 /\ adder'[a].j = 1
            BY <1>3, <4>2
          <5>b. i < me.i + 1 \/ (i = me.i + 1 /\ j < 1)
            BY <2>2, <5>a
          <5>c. i < me.i + 1
            <6>1. 1 <= j
              OBVIOUS
            <6> QED
              BY <3>1, <5>b, <6>1
          <5>1. i = me.i
            BY <1>1, <3>1, <3>3, <5>c
          <5>d. adder'[x].batch[i] = b
            BY <1>3, <2>2, <5>1
          <5>e. me.i \in 1..Len(me.batch)
            BY <1>1, <1>3, <2>2, <5>1
          <5>f. b \in Bundle
            BY <1>1, <5>e
          <5>g. Len(b.txs) \in Nat
            BY <5>f, BundlesOK
          <5>h. j <= Len(b.txs)
            BY <5>d, <5>g
          <5>2. j <= Len(b.txs) /\ b.signer = SubvAddress /\ Len(b.txs) \in Nat
            BY <5>d, <5>g, <5>h
          <5> QED
            BY <1>1, <3>1, <3>3, <4>2, <5>1, <5>2
        <4> QED
          BY <4>1, <4>2
      <3> QED
        BY <3>2, <3>3
    <2> QED
      BY <2>1, <2>2
  <1>6. (ArrivalsOK /\ PoolExact /\ LeakedBeforeAdded)'
    BY <1>1 DEF ArrivalsOK, PoolExact, LeakedBeforeAdded
  <1> QED
    BY <1>4, <1>5, <1>6

\* Leaving the loop, early or not, changes no position.
LEMMA LeakEndIInv ==
    ASSUME NEW a \in Adder, IInv, LeakFails(a) \/ LeakDone(a)
    PROVE  IInv'
  <1> USE DEF IInv
  <1>1. /\ adder' = [adder EXCEPT ![a].pc = "append"] /\ adder[a].pc = "leak"
        /\ UNCHANGED <<mu, mevBundles, files, arrivals, added, asked, broken>>
    BY DEF LeakFails, LeakDone
  <1>2. TypeOK'
    BY <1>1 DEF TypeOK
  <1>3. \A x \in Adder : /\ adder'[x].batch = adder[x].batch
                         /\ adder'[x].i = adder[x].i /\ adder'[x].j = adder[x].j
                         /\ adder'[x].pc # "idle" => adder[x].pc # "idle"
    BY <1>1 DEF TypeOK
  <1>4. LeakProgress'
    BY <1>1, <1>3 DEF LeakProgress
  <1>5. (ArrivalsOK /\ PoolExact /\ LeakedBeforeAdded)'
    BY <1>1 DEF ArrivalsOK, PoolExact, LeakedBeforeAdded
  <1> QED
    BY <1>2, <1>4, <1>5

\* New entries were written out up to the position of the loop.
LEMMA AppendIInv ==
    ASSUME NEW a \in Adder, IInv, AppendBundles(a)
    PROVE  IInv'
  <1> USE DEF IInv
  <1>1. /\ adder[a].pc = "append" /\ adder[a].batch \in Seq(Bundle)
        /\ adder[a].i \in Nat /\ arrivals \in Nat
        /\ Len(adder[a].batch) \in Nat
        /\ asked \in Seq([n : Number, t : Time]) /\ Len(asked) \in Nat
    BY BatchOK DEF AppendBundles, TypeOK
  <1>2. \A e \in NewEntries(a) :
          /\ e \in Entries
          /\ e.at = Len(asked)
          /\ \E i \in 1..Len(adder[a].batch) :
                e.b = adder[a].batch[i] /\ e.no = arrivals + i
    BY <1>1 DEF NewEntries, Entry, Entries
  <1>3. /\ mevBundles' = mevBundles \cup NewEntries(a)
        /\ added' = added \cup NewEntries(a)
        /\ UNCHANGED <<files, asked>>
        /\ mu' = None /\ adder' = [adder EXCEPT ![a] = IdleAdder]
        /\ broken \subseteq broken'
    BY DEF AppendBundles
  <1>4. TypeOK'
    <2>1. \A x \in Adder : x # a => adder[x].pc = "idle"
      BY <1>1 DEF TypeOK
    <2>2. arrivals' \in Nat
      BY <1>1 DEF AppendBundles
    <2>3. (/\ mevBundles \subseteq Entries /\ added \subseteq Entries
           /\ asked \in Seq([n : Number, t : Time])
           /\ mu \in Adder \cup {None})'
      BY <1>1, <1>2, <1>3 DEF TypeOK
    <2>4. /\ adder' \in [Adder -> [pc : {"idle", "leak", "append"}, i : Nat,
                                   j : Nat, batch : Batches \cup {<<>>}]]
          /\ \A x \in Adder : adder'[x].pc = "idle"
      BY <1>3, <2>1 DEF TypeOK, IdleAdder
    <2> QED
      BY <2>2, <2>3, <2>4 DEF TypeOK
  <1>5. ArrivalsOK'
    BY <1>1, <1>2, <1>3 DEF ArrivalsOK
  <1>6. PoolExact'
    BY <1>1, <1>2, <1>3 DEF PoolExact
  <1>7. LeakProgress'
    BY <1>3 DEF LeakProgress, TypeOK, IdleAdder
  <1>8. LeakedBeforeAdded'
    <2> SUFFICES ASSUME NEW e \in added', e.b.signer = SubvAddress,
                        e.no \notin broken',
                        NEW j \in 1..Len(e.b.txs)
                 PROVE  e.b.txs[j] \in files'
      BY DEF LeakedBeforeAdded
    <2>1. CASE e \in added
      BY <1>3, <2>1 DEF LeakedBeforeAdded
    <2>2. CASE e \in NewEntries(a)
      <3>1. PICK i \in 1..Len(adder[a].batch) :
                e.b = adder[a].batch[i] /\ e.no = arrivals + i
        BY <1>2, <2>2
      <3>2. ~(e.no >= arrivals + adder[a].i)
        BY <2>2 DEF AppendBundles
      <3>3. i < adder[a].i
        BY <1>1, <3>1, <3>2
      <3> QED
        BY <1>1, <1>3, <3>1, <3>3 DEF LeakProgress
    <2> QED
      BY <1>3, <2>1, <2>2
  <1> QED
    BY <1>4, <1>5, <1>6, <1>7, <1>8

\* A call prunes exactly the entries it finds outdated.
LEMMA MevBundlesIInv ==
    ASSUME NEW k \in Call, NEW n \in Number, NEW t \in Time, IInv,
           MevBundles(k, n, t)
    PROVE  IInv'
  <1> USE DEF IInv
  <1>1. /\ mevBundles' = {e \in mevBundles : ~Outdated(e.b, n, t)}
        /\ asked' = Append(asked, [n |-> n, t |-> t])
        /\ UNCHANGED <<mu, adder, files, arrivals, added, broken>>
    BY DEF MevBundles
  <1>2. /\ asked \in Seq([n : Number, t : Time]) /\ Len(asked) \in Nat
        /\ Len(asked') = Len(asked) + 1
        /\ asked'[Len(asked) + 1] = [n |-> n, t |-> t]
        /\ \A i \in 1..Len(asked) : asked'[i] = asked[i]
    BY <1>1 DEF TypeOK
  <1>3. TypeOK'
    BY <1>1 DEF TypeOK
  <1>4. ArrivalsOK'
    BY <1>1, <1>2 DEF ArrivalsOK, TypeOK, Entries
  <1>5. PoolExact'
    <2> DEFINE Survives(e) ==
          \A i \in (e.at + 1)..Len(asked) : ~Outdated(e.b, asked[i].n, asked[i].t)
        SurvivesNext(e) ==
          \A i \in (e.at + 1)..Len(asked') : ~Outdated(e.b, asked'[i].n, asked'[i].t)
    <2>1. ASSUME NEW e \in added
          PROVE  SurvivesNext(e) <=> Survives(e) /\ ~Outdated(e.b, n, t)
      <3>1. e.at \in Nat /\ e.at <= Len(asked)
        BY DEF TypeOK, Entries, ArrivalsOK
      <3>2. \A i \in (e.at + 1)..Len(asked') :
               i = Len(asked) + 1 \/ (i \in (e.at + 1)..Len(asked) /\ i \in 1..Len(asked))
        BY <1>2, <3>1
      <3>3. Len(asked) + 1 \in (e.at + 1)..Len(asked')
        BY <1>2, <3>1
      <3>4. \A i \in (e.at + 1)..Len(asked) :
               i \in (e.at + 1)..Len(asked') /\ i \in 1..Len(asked)
        BY <1>2, <3>1
      <3> QED
        BY <1>2, <3>2, <3>3, <3>4, SMTT(30)
    <2>2. mevBundles = {e \in added : Survives(e)}
      BY DEF PoolExact
    <2>3. mevBundles' = {e \in added : SurvivesNext(e)}
      BY <1>1, <2>1, <2>2
    <2> QED
      BY <1>1, <2>3 DEF PoolExact
  <1>6. (LeakProgress /\ LeakedBeforeAdded)'
    BY <1>1 DEF LeakProgress, LeakedBeforeAdded
  <1> QED
    BY <1>3, <1>4, <1>5, <1>6

\* Every step keeps the pool's invariant.
LEMMA NextIInv == IInv /\ [Next]_vars => IInv'
  <1> SUFFICES ASSUME IInv, [Next]_vars PROVE IInv'
    OBVIOUS
  <1>1. ASSUME NEW a \in Adder, AddStep(a) PROVE IInv'
    BY <1>1, LockIInv, LeakNextIInv, LeakEndIInv, AppendIInv DEF AddStep
  <1>2. ASSUME NEW k \in Call, NEW n \in Number, NEW t \in Time, MevBundles(k, n, t)
        PROVE  IInv'
    BY <1>2, MevBundlesIInv
  <1>3. ASSUME NEW k \in Call, FetchStep(k) \/ ResolveStep(k) PROVE IInv'
    BY <1>3, StutterIInv DEF FetchStep, ResolveStep, Query, SendErr, SendLub,
                             ResolveNone, RecvErr, RecvLub, poolVars
  <1>4. ASSUME NEW key \in Key, NewVersion(key) PROVE IInv'
    BY <1>4, StutterIInv DEF NewVersion, poolVars
  <1>5. CASE UNCHANGED vars
    BY <1>5, StutterIInv DEF vars, poolVars
  <1> QED
    BY <1>1, <1>2, <1>3, <1>4, <1>5 DEF Next

\* The inductive invariant holds throughout.
THEOREM Invariance == Spec => []IInv
  BY InitIInv, NextIInv, PTL DEF Spec

\* Types, and mutual exclusion under pool.mu.
THEOREM TypeCorrect == Spec => []TypeOK
  <1>1. IInv => TypeOK
    BY DEF IInv
  <1> QED
    BY Invariance, <1>1, PTL

\* The pool holds exactly the bundles no later call found outdated.
THEOREM PoolIsExact == Spec => []PoolExact
  <1>1. IInv => PoolExact
    BY DEF IInv
  <1> QED
    BY Invariance, <1>1, PTL

\* Bundles of the subverted address are leaked before the builder sees them.
THEOREM LeakPrecedesOffer == Spec => []LeakedBeforeOffered
  <1>1. IInv => LeakedBeforeOffered
    BY DEF IInv, PoolExact, LeakedBeforeAdded, LeakedBeforeOffered
  <1> QED
    BY Invariance, <1>1, PTL

-----------------------------------------------------------------------------
(* Cancellable bundles.  Versions in the database only grow, so what the     *)
(* fetching goroutine read, however late it arrives, is nothing (the query   *)
(* failed) or at least what the database held when the call was made.        *)

Lubs == [Key -> Nat]

Replies == [err : BOOLEAN, lubs : Lubs]
RepliesOrNone == {None} \cup Replies
EntrySets == SUBSET Entries
Results == {None} \cup EntrySets
ErrCh == Seq(BOOLEAN)
LubCh == Seq(Lubs)

CallRecord == [pc : {"idle", "resolve", "recv_lub", "resolved"},
               fetch : {"none", "query", "send_err", "send_lub", "done"},
               reply : RepliesOrNone, err : ErrCh, lub : LubCh,
               uuids : EntrySets, ret : EntrySets, result : Results, dbAt : Lubs]

CallTypes == call \in [Call -> CallRecord] /\ db \in Lubs

\* Arrival numbers identify entries.
Numbered == /\ \A e \in added : e.no <= arrivals
            /\ \A e, f \in added : e.no = f.no => e = f

\* An answer of the database is no older than the snapshot at.
NotOlder(lubs, at) == \A x \in Key : lubs[x] = 0 \/ at[x] <= lubs[x]

\* The conclusion for one call.
CurrentResult(c) ==
    c.pc = "resolved" => \A e, f \in c.result :
                            /\ e.b.key = f.b.key => e = f
                            /\ e.b.hash >= c.dbAt[e.b.key]

CallFresh(c) ==
    /\ \A x \in Key : c.dbAt[x] <= db[x]
    /\ c.fetch \in {"send_err", "send_lub"} => /\ c.reply \in Replies
                                               /\ NotOlder(c.reply.lubs, c.dbAt)
    /\ \A i \in 1..Len(c.lub) : NotOlder(c.lub[i], c.dbAt)
    /\ \A e \in c.uuids : e \in added /\ e.b.key \in Key
    /\ CurrentResult(c)

CallsFresh == \A k \in Call : CallFresh(call[k])

CInv == CallTypes /\ Numbered /\ CallsFresh

\* A channel keeps its type.
LEMMA ChannelOps ==
    ASSUME NEW S, NEW s \in Seq(S)
    PROVE  /\ \A x \in S : Append(s, x) \in Seq(S)
           /\ s # <<>> => Tail(s) \in Seq(S)
  OBVIOUS

\* Initially no call was made.
LEMMA InitCInv == Init => CInv
  <1> SUFFICES ASSUME Init PROVE CInv
    OBVIOUS
  <1>1. CallTypes
    <2>1. /\ None \in RepliesOrNone /\ None \in Results /\ {} \in EntrySets
          /\ [k \in Key |-> 0] \in Lubs
      BY DEF RepliesOrNone, Results, EntrySets, Lubs
    <2>2. <<>> \in ErrCh /\ <<>> \in LubCh
      BY DEF ErrCh, LubCh
    <2>3. IdleCall \in CallRecord
      BY <2>1, <2>2 DEF CallRecord, IdleCall
    <2> QED
      BY <2>1, <2>3 DEF Init, CallTypes
  <1>2. Numbered
    BY DEF Init, Numbered
  <1>3. CallsFresh
    BY DEF Init, CallsFresh, CallFresh, CurrentResult, IdleCall, NotOlder
  <1> QED
    BY <1>1, <1>2, <1>3 DEF CInv

\* Of a key, the latest version is one entry.
LEMMA LatestUnique ==
    ASSUME IInv, Numbered, NEW S \in SUBSET added, NEW lubs \in Lubs, NEW at \in Lubs,
           \A e \in S : e.b.key \in Key, NotOlder(lubs, at),
           NEW e \in Latest(S, lubs), NEW f \in Latest(S, lubs)
    PROVE  /\ e.b.key = f.b.key => e = f
           /\ e.b.hash >= at[e.b.key]
  <1>1. e \in added /\ f \in added /\ e \in S /\ f \in S
    BY DEF Latest
  <1>2. e.no \in Nat /\ f.no \in Nat
    BY <1>1 DEF IInv, TypeOK, Entries
  <1>3. ASSUME e.b.key = f.b.key PROVE e = f
    <2>1. e.b.hash = f.b.hash
      BY <1>3 DEF Latest
    <2>2. e.no <= f.no /\ f.no <= e.no
      BY <1>1, <1>3, <2>1 DEF Latest
    <2>3. e.no = f.no
      BY <1>2, <2>2
    <2> QED
      BY <1>1, <2>3 DEF Numbered
  <1>4. e.b.hash >= at[e.b.key]
    <2>1. e.b.hash = lubs[e.b.key] /\ lubs[e.b.key] # 0 /\ e.b.key \in Key
      BY <1>1 DEF Latest
    <2>2. at[e.b.key] <= lubs[e.b.key] /\ at[e.b.key] \in Nat /\ lubs[e.b.key] \in Nat
      BY <2>1 DEF NotOlder, Lubs
    <2> QED
      BY <2>1, <2>2
  <1> QED
    BY <1>3, <1>4

\* Steps that leave the calls, the database and the entries alone.
LEMMA StutterCInv == CInv /\ UNCHANGED <<call, db, added, arrivals>> => CInv'
  BY DEF CInv, CallTypes, Numbered, CallsFresh, CallFresh, CurrentResult, NotOlder

\* Appending gives each entry a number of its own.
LEMMA AppendCInv ==
    ASSUME NEW a \in Adder, IInv, CInv, AppendBundles(a)
    PROVE  CInv'
  <1>1. /\ adder[a].batch \in Seq(Bundle) /\ arrivals \in Nat
        /\ Len(adder[a].batch) \in Nat /\ added \subseteq Entries
    BY BatchOK DEF AppendBundles, TypeOK, IInv
  <1>2. /\ added' = added \cup NewEntries(a)
        /\ arrivals' = arrivals + Len(adder[a].batch)
        /\ UNCHANGED <<call, db>>
    BY DEF AppendBundles
  <1>3. \A e \in NewEntries(a) : \E i \in 1..Len(adder[a].batch) :
           e = [no |-> arrivals + i, b |-> adder[a].batch[i], at |-> Len(asked)]
    BY DEF NewEntries, Entry
  <1>4. ASSUME NEW e \in added', NEW f \in added', e.no = f.no PROVE e = f
    <2>1. CASE e \in added /\ f \in added
      BY <1>4, <2>1 DEF CInv, Numbered
    <2>2. CASE e \in NewEntries(a) /\ f \in NewEntries(a)
      <3>1. PICK i \in 1..Len(adder[a].batch) :
              e = [no |-> arrivals + i, b |-> adder[a].batch[i], at |-> Len(asked)]
        BY <1>3, <2>2
      <3>2. PICK j \in 1..Len(adder[a].batch) :
              f = [no |-> arrivals + j, b |-> adder[a].batch[j], at |-> Len(asked)]
        BY <1>3, <2>2
      <3>3. i = j
        BY <1>1, <1>4, <3>1, <3>2
      <3> QED
        BY <3>1, <3>2, <3>3
    <2>3. \A x \in added, y \in NewEntries(a) : x.no # y.no
      BY <1>1, <1>3 DEF CInv, Numbered, Entries
    <2> QED
      BY <1>2, <1>4, <2>1, <2>2, <2>3
  <1>5. \A e \in added' : e.no <= arrivals'
    BY <1>1, <1>2, <1>3 DEF CInv, Numbered, Entries
  <1>6. Numbered'
    BY <1>4, <1>5 DEF Numbered
  <1>7. CallTypes' /\ CallsFresh'
    BY <1>2 DEF CInv, CallTypes, CallsFresh, CallFresh, CurrentResult, NotOlder
  <1> QED
    BY <1>6, <1>7 DEF CInv

\* A call takes its snapshot of the database and its candidates from the pool.
LEMMA MevBundlesCInv ==
    ASSUME NEW k \in Call, NEW n \in Number, NEW t \in Time, IInv, CInv,
           MevBundles(k, n, t)
    PROVE  CInv'
  <1> DEFINE due == {e \in mevBundles : InTime(e.b, n, t)}
             u == {e \in due : e.b.key # None}
             r == {e \in due : e.b.key = None}
  <1>1. PICK f \in {"query", "none"} :
          call' = [call EXCEPT ![k] = [IdleCall EXCEPT !.pc = "resolve", !.fetch = f,
                                          !.uuids = u, !.ret = r, !.dbAt = db]]
    BY DEF MevBundles
  <1>2. UNCHANGED <<db, added, arrivals>>
    BY DEF MevBundles
  <1>3. u \subseteq added /\ u \subseteq Entries /\ r \subseteq Entries
    BY DEF IInv, PoolExact, TypeOK
  <1>4. \A e \in u : e.b.key \in Key
    BY <1>3, BundlesOK DEF Entries
  <1> HIDE DEF u, r
  <1>5. db \in Lubs /\ call \in [Call -> CallRecord]
    BY DEF CInv, CallTypes
  <1>6. call' \in [Call -> CallRecord]
    <2> DEFINE new == [IdleCall EXCEPT !.pc = "resolve", !.fetch = f,
                                       !.uuids = u, !.ret = r, !.dbAt = db]
    <2>1. /\ None \in RepliesOrNone /\ None \in Results
          /\ u \in EntrySets /\ r \in EntrySets
      BY <1>3 DEF RepliesOrNone, Results, EntrySets
    <2>2. <<>> \in ErrCh /\ <<>> \in LubCh
      BY DEF ErrCh, LubCh
    <2>3. new \in CallRecord
      BY <1>5, <2>1, <2>2 DEF IdleCall, CallRecord
    <2> HIDE DEF new
    <2> QED
      BY <1>1, <1>5, <2>3 DEF new
  <1>7. /\ call'[k].pc = "resolve" /\ call'[k].fetch = f /\ call'[k].uuids = u
        /\ call'[k].dbAt = db /\ call'[k].lub = <<>>
        /\ \A x \in Call : x # k => call'[x] = call[x]
    BY <1>1, <1>5 DEF IdleCall
  <1>8. CallFresh(call[k])'
    <2>1. \A x \in Key : db[x] <= db[x]
      BY <1>5 DEF Lubs
    <2> QED
      BY <1>2, <1>3, <1>4, <1>7, <2>1 DEF CallFresh, CurrentResult
  <1>9. CallsFresh'
    <2> SUFFICES ASSUME NEW x \in Call PROVE CallFresh(call[x])'
      BY DEF CallsFresh
    <2>1. CASE x = k
      BY <1>8, <2>1
    <2>2. CASE x # k
      BY <1>2, <1>7, <2>2 DEF CInv, CallsFresh, CallFresh, CurrentResult, NotOlder
    <2> QED
      BY <2>1, <2>2
  <1> QED
    BY <1>2, <1>5, <1>6, <1>9 DEF CInv, CallTypes, Numbered


\* A step of a goroutine of call k that keeps its snapshot and its candidates.
LEMMA CallStepCInv ==
    ASSUME NEW k \in Call, CInv, call' \in [Call -> CallRecord],
           UNCHANGED <<db, added, arrivals>>,
           \A x \in Call : x # k => call'[x] = call[x],
           CallFresh(call[k])'
    PROVE  CInv'
  <1>1. ASSUME NEW x \in Call PROVE CallFresh(call[x])'
    BY DEF CInv, CallsFresh, CallFresh, CurrentResult, NotOlder
  <1> QED
    BY <1>1 DEF CInv, CallTypes, Numbered, CallsFresh

\* The query answers with the database as it is now, or fails.
LEMMA QueryCInv ==
    ASSUME NEW k \in Call, IInv, CInv, Query(k)
    PROVE  CInv'
  <1>1. PICK rep \in Replies :
          /\ call' = [call EXCEPT ![k].fetch = "send_err", ![k].reply = rep]
          /\ rep.lubs = [x \in Key |-> 0] \/ rep.lubs = db
    <2>1. PICK err \in BOOLEAN :
            call' = [call EXCEPT ![k].fetch = "send_err",
                        ![k].reply = [err |-> err,
                              lubs |-> IF err THEN [x \in Key |-> 0] ELSE db]]
      BY DEF Query
    <2> DEFINE l == IF err THEN [x \in Key |-> 0] ELSE db
    <2>2. l \in Lubs /\ (l = [x \in Key |-> 0] \/ l = db)
      BY DEF CInv, CallTypes, Lubs
    <2>3. call' = [call EXCEPT ![k].fetch = "send_err", ![k].reply = [err |-> err, lubs |-> l]]
      BY <2>1
    <2> HIDE DEF l
    <2>4. [err |-> err, lubs |-> l] \in Replies
      BY <2>2 DEF Replies
    <2> QED
      BY <2>2, <2>3, <2>4
  <1>2. UNCHANGED <<db, added, arrivals>>
    BY DEF Query
  <1>3. call \in [Call -> CallRecord] /\ db \in Lubs
    BY DEF CInv, CallTypes
  <1>4. call' \in [Call -> CallRecord]
    <2>1. rep \in RepliesOrNone
      BY <1>1 DEF RepliesOrNone
    <2> DEFINE new == [call[k] EXCEPT !.fetch = "send_err", !.reply = rep]
    <2>2. new \in CallRecord
      BY <1>3, <2>1 DEF CallRecord
    <2>3. call' = [call EXCEPT ![k] = new]
      BY <1>1
    <2> HIDE DEF new
    <2> QED
      BY <1>3, <2>2, <2>3
  <1>5. /\ call'[k].fetch = "send_err" /\ call'[k].reply = rep
        /\ call'[k].pc = call[k].pc /\ call'[k].lub = call[k].lub
        /\ call'[k].uuids = call[k].uuids /\ call'[k].result = call[k].result
        /\ call'[k].dbAt = call[k].dbAt
        /\ \A x \in Call : x # k => call'[x] = call[x]
    BY <1>1, <1>3 DEF CallRecord
  <1>6. CallFresh(call[k])
    BY DEF CInv, CallsFresh
  <1>7. NotOlder(rep.lubs, call[k].dbAt)
    BY <1>1, <1>6 DEF CallFresh, NotOlder
  <1>9. CallFresh(call[k])'
    <2>1. /\ \A x \in Key : call'[k].dbAt[x] <= db'[x]
          /\ \A e \in call'[k].uuids : e \in added' /\ e.b.key \in Key
      BY <1>2, <1>5, <1>6 DEF CallFresh
    <2>2. call'[k].reply \in Replies /\ NotOlder(call'[k].reply.lubs, call'[k].dbAt)
      BY <1>1, <1>5, <1>7
    <2>3. \A j \in 1 .. Len(call'[k].lub) : NotOlder(call'[k].lub[j], call'[k].dbAt)
      BY <1>5, <1>6 DEF CallFresh
    <2>4. CurrentResult(call'[k])
      BY <1>5, <1>6 DEF CallFresh, CurrentResult
    <2> QED
      BY <2>1, <2>2, <2>3, <2>4 DEF CallFresh, CurrentResult, NotOlder
  <1> QED
    BY <1>2, <1>4, <1>5, <1>9, CallStepCInv

\* Sending on errCh; the answer of the query is kept.
LEMMA SendErrCInv ==
    ASSUME NEW k \in Call, IInv, CInv, SendErr(k)
    PROVE  CInv'
  <1>1. /\ call' = [call EXCEPT ![k].fetch = "send_lub",
                                ![k].err = Append(@, call[k].reply.err)]
        /\ call[k].fetch = "send_err"
        /\ UNCHANGED <<db, added, arrivals>>
    BY DEF SendErr
  <1>2. call \in [Call -> CallRecord] /\ CallFresh(call[k])
    BY DEF CInv, CallTypes, CallsFresh
  <1>3. call[k].reply.err \in BOOLEAN
    BY <1>1, <1>2 DEF CallFresh, Replies
  <1>4. call' \in [Call -> CallRecord]
    <2>1. call[k].err \in ErrCh
      BY <1>2 DEF CallRecord
    <2>2. Append(call[k].err, call[k].reply.err) \in ErrCh
      BY <1>3, <2>1, ChannelOps DEF ErrCh
    <2> QED
      BY <1>1, <1>2, <2>2 DEF CallRecord
  <1>5. /\ call'[k].fetch = "send_lub" /\ call'[k].reply = call[k].reply
        /\ call'[k].pc = call[k].pc /\ call'[k].lub = call[k].lub
        /\ call'[k].uuids = call[k].uuids /\ call'[k].result = call[k].result
        /\ call'[k].dbAt = call[k].dbAt
        /\ \A x \in Call : x # k => call'[x] = call[x]
    BY <1>1, <1>2 DEF CallRecord
  <1>6. CallFresh(call[k])'
    BY <1>1, <1>2, <1>5 DEF CallFresh, CurrentResult, NotOlder
  <1> QED
    BY <1>1, <1>4, <1>5, <1>6, CallStepCInv

\* Sending on lubCh: what enters the channel is the answer.
LEMMA SendLubCInv ==
    ASSUME NEW k \in Call, IInv, CInv, SendLub(k)
    PROVE  CInv'
  <1>1. /\ call' = [call EXCEPT ![k].fetch = "done",
                                ![k].lub = Append(@, call[k].reply.lubs)]
        /\ call[k].fetch = "send_lub"
        /\ UNCHANGED <<db, added, arrivals>>
    BY DEF SendLub
  <1>2. call \in [Call -> CallRecord] /\ CallFresh(call[k])
    BY DEF CInv, CallTypes, CallsFresh
  <1>3. call[k].reply.lubs \in Lubs /\ call[k].lub \in LubCh
    BY <1>1, <1>2 DEF CallFresh, CallRecord, Replies
  <1>4. call' \in [Call -> CallRecord]
    <2>1. Append(call[k].lub, call[k].reply.lubs) \in LubCh
      BY <1>3, ChannelOps DEF LubCh
    <2> QED
      BY <1>1, <1>2, <2>1 DEF CallRecord
  <1>5. /\ call'[k].fetch = "done"
        /\ call'[k].lub = Append(call[k].lub, call[k].reply.lubs)
        /\ call'[k].pc = call[k].pc
        /\ call'[k].uuids = call[k].uuids /\ call'[k].result = call[k].result
        /\ call'[k].dbAt = call[k].dbAt
        /\ \A x \in Call : x # k => call'[x] = call[x]
    BY <1>1, <1>2 DEF CallRecord
  <1>6. \A i \in 1..Len(call'[k].lub) : NotOlder(call'[k].lub[i], call[k].dbAt)
    BY <1>1, <1>2, <1>3, <1>5 DEF CallFresh, LubCh
  <1>7. CallFresh(call[k])'
    BY <1>1, <1>2, <1>5, <1>6 DEF CallFresh, CurrentResult, NotOlder
  <1> QED
    BY <1>1, <1>4, <1>5, <1>7, CallStepCInv

\* Resolving: nothing without an answer, else the latest of the candidates.
LEMMA ResolveCInv ==
    ASSUME NEW k \in Call, IInv, CInv, ResolveStep(k)
    PROVE  CInv'
  <1>1. UNCHANGED <<db, added, arrivals>>
    BY DEF ResolveStep, ResolveNone, RecvErr, RecvLub
  <1>2. call \in [Call -> CallRecord] /\ CallFresh(call[k])
    BY DEF CInv, CallTypes, CallsFresh
  <1>3. call[k].lub \in LubCh /\ call[k].err \in ErrCh
    BY <1>2 DEF CallRecord
  <1>4. CASE ResolveNone(k)
    <2>1. call' = [call EXCEPT ![k].pc = "resolved", ![k].result = {}]
      BY <1>4 DEF ResolveNone
    <2>a. {} \in Results
      BY DEF Results, EntrySets
    <2>2. call' \in [Call -> CallRecord]
      <3> DEFINE new == [call[k] EXCEPT !.pc = "resolved", !.result = {}]
      <3>1. new \in CallRecord
        BY <1>2, <2>a DEF CallRecord
      <3>2. call' = [call EXCEPT ![k] = new]
        BY <2>1
      <3> HIDE DEF new
      <3> QED
        BY <1>2, <3>1, <3>2
    <2>3. /\ call'[k].result = {} /\ call'[k].fetch = call[k].fetch
          /\ call'[k].reply = call[k].reply /\ call'[k].lub = call[k].lub
          /\ call'[k].uuids = call[k].uuids /\ call'[k].dbAt = call[k].dbAt
          /\ \A x \in Call : x # k => call'[x] = call[x]
      BY <1>2, <2>1 DEF CallRecord
    <2>4. CallFresh(call[k])'
      BY <1>1, <1>2, <2>3 DEF CallFresh, CurrentResult, NotOlder
    <2> QED
      BY <1>1, <2>2, <2>3, <2>4, CallStepCInv
  <1>5. CASE RecvErr(k)
    <2>1. Tail(call[k].err) \in ErrCh
      BY <1>3, <1>5, ChannelOps DEF RecvErr, ErrCh
    <2>2. \/ call' = [call EXCEPT ![k].pc = "resolved", ![k].err = Tail(@),
                                  ![k].result = {}]
          \/ call' = [call EXCEPT ![k].pc = "recv_lub", ![k].err = Tail(@)]
      BY <1>5 DEF RecvErr
    <2>a. {} \in Results
      BY DEF Results, EntrySets
    <2>3. call' \in [Call -> CallRecord]
      BY <1>2, <2>1, <2>2, <2>a DEF CallRecord
    <2>4. /\ call'[k].pc = "recv_lub" \/ call'[k].result = {}
          /\ call'[k].fetch = call[k].fetch
          /\ call'[k].reply = call[k].reply /\ call'[k].lub = call[k].lub
          /\ call'[k].uuids = call[k].uuids /\ call'[k].dbAt = call[k].dbAt
          /\ \A x \in Call : x # k => call'[x] = call[x]
      BY <1>2, <2>2 DEF CallRecord
    <2>5. CallFresh(call[k])'
      BY <1>1, <1>2, <2>4 DEF CallFresh, CurrentResult, NotOlder
    <2> QED
      BY <1>1, <2>3, <2>4, <2>5, CallStepCInv
  <1>6. CASE RecvLub(k)
    <2> DEFINE l == Head(call[k].lub)
               res == Latest(call[k].uuids, l)
    <2>1. /\ call' = [call EXCEPT ![k].pc = "resolved", ![k].lub = Tail(@),
                                  ![k].result = res]
          /\ call[k].lub # <<>>
      BY <1>6 DEF RecvLub
    <2>2. l \in Lubs /\ Tail(call[k].lub) \in LubCh /\ NotOlder(l, call[k].dbAt)
      BY <1>2, <1>3, <2>1 DEF CallFresh, LubCh
    <2>3. res \in Results
      BY <1>2 DEF Latest, CallRecord, Results, EntrySets
    <2>4. \A e, f \in res : /\ e.b.key = f.b.key => e = f
                            /\ e.b.hash >= call[k].dbAt[e.b.key]
      <3>1. call[k].uuids \in SUBSET added /\ \A e \in call[k].uuids : e.b.key \in Key
        BY <1>2 DEF CallFresh
      <3>2. call[k].dbAt \in Lubs
        BY <1>2 DEF CallRecord
      <3>3. Numbered
        BY DEF CInv
      <3> QED
        BY <2>2, <3>1, <3>2, <3>3, LatestUnique
    <2> HIDE DEF res
    <2>5. call' \in [Call -> CallRecord]
      BY <1>2, <2>1, <2>2, <2>3 DEF CallRecord
    <2>6. /\ call'[k].result = res /\ call'[k].fetch = call[k].fetch
          /\ call'[k].reply = call[k].reply /\ call'[k].lub = Tail(call[k].lub)
          /\ call'[k].uuids = call[k].uuids /\ call'[k].dbAt = call[k].dbAt
          /\ \A x \in Call : x # k => call'[x] = call[x]
      BY <1>2, <2>1 DEF CallRecord
    <2>7. \A i \in 1..Len(Tail(call[k].lub)) : NotOlder(Tail(call[k].lub)[i], call[k].dbAt)
      <3>1. \A i \in 1..Len(Tail(call[k].lub)) :
               i + 1 \in 1..Len(call[k].lub) /\ Tail(call[k].lub)[i] = call[k].lub[i + 1]
        BY <1>3, <2>1 DEF LubCh
      <3> QED
        BY <1>2, <3>1 DEF CallFresh
    <2>8. CallFresh(call[k])'
      BY <1>1, <1>2, <2>4, <2>6, <2>7 DEF CallFresh, CurrentResult, NotOlder
    <2> QED
      BY <1>1, <2>5, <2>6, <2>8, CallStepCInv
  <1> QED
    BY <1>4, <1>5, <1>6 DEF ResolveStep

\* The database only moves forward.
LEMMA NewVersionCInv ==
    ASSUME NEW key \in Key, IInv, CInv, NewVersion(key)
    PROVE  CInv'
  <1>1. db' = [db EXCEPT ![key] = @ + 1] /\ UNCHANGED <<call, added, arrivals>>
    BY DEF NewVersion
  <1>2. db \in Lubs /\ call \in [Call -> CallRecord]
    BY DEF CInv, CallTypes
  <1>3. db' \in Lubs /\ \A x \in Key : db[x] <= db'[x]
    BY <1>1, <1>2 DEF Lubs
  <1>4. ASSUME NEW k \in Call PROVE CallFresh(call[k])'
    <2>1. CallFresh(call[k]) /\ call[k].dbAt \in Lubs
      BY <1>2 DEF CInv, CallsFresh, CallRecord
    <2>2. \A x \in Key : call[k].dbAt[x] <= db'[x]
      BY <1>2, <1>3, <2>1 DEF CallFresh, Lubs
    <2> QED
      BY <1>1, <2>1, <2>2 DEF CallFresh, CurrentResult, NotOlder
  <1> QED
    BY <1>1, <1>2, <1>3, <1>4 DEF CInv, CallTypes, Numbered, CallsFresh

\* Every step keeps the calls' invariant.
LEMMA NextCInv == IInv /\ CInv /\ [Next]_vars => CInv'
  <1> SUFFICES ASSUME IInv, CInv, [Next]_vars PROVE CInv'
    OBVIOUS
  <1>1. ASSUME NEW a \in Adder, AddStep(a) PROVE CInv'
    <2>1. CASE AppendBundles(a)
      BY <2>1, AppendCInv
    <2>2. CASE Lock(a) \/ LeakNext(a) \/ LeakFails(a) \/ LeakDone(a)
      BY <2>2, StutterCInv DEF Lock, LeakNext, LeakFails, LeakDone
    <2> QED
      BY <1>1, <2>1, <2>2 DEF AddStep
  <1>2. ASSUME NEW k \in Call, NEW n \in Number, NEW t \in Time, MevBundles(k, n, t)
        PROVE  CInv'
    BY <1>2, MevBundlesCInv
  <1>3. ASSUME NEW k \in Call, FetchStep(k) \/ ResolveStep(k) PROVE CInv'
    BY <1>3, QueryCInv, SendErrCInv, SendLubCInv, ResolveCInv DEF FetchStep
  <1>4. ASSUME NEW key \in Key, NewVersion(key) PROVE CInv'
    BY <1>4, NewVersionCInv
  <1>5. CASE UNCHANGED vars
    BY <1>5, StutterCInv DEF vars
  <1> QED
    BY <1>1, <1>2, <1>3, <1>4, <1>5 DEF Next

\* Of a cancellable bundle a call returns at most one version, and none the
\* database knew to be superseded when the call was made
\* (fetchLatestCancellableBundles, resolveCancellableBundles).
THEOREM CancellableIsCurrent == Spec => []CancellableCurrent
  <1>1. CInv => CancellableCurrent
    BY DEF CInv, CallsFresh, CallFresh, CurrentResult, CancellableCurrent
  <1>2. Spec => []CInv
    BY InitCInv, NextCInv, Invariance, PTL DEF Spec
  <1> QED
    BY <1>1, <1>2, PTL
=============================================================================
