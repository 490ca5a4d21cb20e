--------------------------- MODULE MevBundlePool ---------------------------
(***************************************************************************)
(* The bundle part of the builder's transaction pool (txpool.go:           *)
(* AddMevBundle, AddMevBundles, subversionService, MevBundles,             *)
(* fetchLatestCancellableBundles, resolveCancellableBundles).              *)
(*                                                                         *)
(* RPC handlers add bundles under pool.mu; while they hold it they write   *)
(* the transactions of one signing address to files.  The block builder    *)
(* asks, under the same lock, for the bundles of a block; two goroutines   *)
(* per request then look the cancellable bundles up in a database.         *)
(*                                                                         *)
(* The slice pool.mevBundles is a set of entries numbered in the order of  *)
(* their arrival.                                                          *)
(***************************************************************************)
EXTENDS Integers, Sequences

CONSTANTS
    None,
    Adder,        \* threads running AddMevBundle(s)
    Call,         \* calls of MevBundles, each made at most once
    Batches,      \* sequences of bundles that may be added in one call
    Number,       \* block numbers MevBundles may be asked for
    Time,         \* block timestamps it may be asked for
    SubvAddress,  \* SUBV_ADDRESS
    Key,          \* (uuid, signing address) pairs of cancellable bundles
    Fetcher,      \* a bundle fetcher is registered
    WritesFail,   \* os.WriteFile may fail
    ChanCap,      \* capacity of errCh and lubCh (1)
    MaxVersion,   \* bound: versions of a cancellable bundle in the database
    MaxEntries    \* bound: bundles added

VARIABLES
    mu,          \* holder of pool.mu: None or an adder
    mevBundles,  \* the pool: a set of entries
    adder,       \* program counter and position of each adding thread
    files,       \* transactions written to SUBV_DIR
    db,          \* database: Key -> latest version (0: none)
    call,        \* state of each MevBundles call and its goroutines
    arrivals,    \* how many bundles were ever appended
    \* history
    added,       \* every entry ever appended
    asked,       \* the (number, time) of the MevBundles calls, in order
    broken       \* arrival numbers of entries whose files were not all written

vars == <<mu, mevBundles, adder, files, db, call, arrivals, added, asked, broken>>

\* key is None for a bundle without replacement uuid; hash tells the versions
\* of a cancellable bundle apart; minTime and maxTime 0 mean "no limit".
Bundle == UNION {{s[i] : i \in 1..Len(s)} : s \in Batches}

ASSUME BundlesOK ==
    /\ None \notin Adder \cup Key
    /\ ChanCap \in Nat /\ MaxEntries \in Nat /\ MaxVersion \in Nat
    /\ Fetcher \in BOOLEAN /\ WritesFail \in BOOLEAN
    /\ Number \subseteq Int /\ Time \subseteq Int
    /\ \A s \in Batches : s \in Seq(Bundle)
    /\ \A b \in Bundle : /\ b.number \in Int
                         /\ b.minTime \in Int /\ b.maxTime \in Int
                         /\ b.key \in Key \cup {None}
                         /\ b.hash \in Nat /\ Len(b.txs) \in Nat

Outdated(b, n, t) == (b.maxTime # 0 /\ t > b.maxTime) \/ n > b.number
Future(b, n, t) == (b.minTime # 0 /\ t < b.minTime) \/ n < b.number
InTime(b, n, t) == ~Outdated(b, n, t) /\ ~Future(b, n, t)

\* A bundle in the pool: its arrival number, and how many MevBundles calls
\* had been made when it arrived (history).
Entry(b, no) == [no |-> no, b |-> b, at |-> Len(asked)]

IdleAdder == [pc |-> "idle", batch |-> <<>>, i |-> 1, j |-> 1]
IdleCall == [pc |-> "idle", fetch |-> "none", reply |-> None, err |-> <<>>,
             lub |-> <<>>, uuids |-> {}, ret |-> {}, result |-> None,
             dbAt |-> [k \in Key |-> 0]]

Init ==
    /\ mu = None
    /\ mevBundles = {}
    /\ adder = [a \in Adder |-> IdleAdder]
    /\ files = {}
    /\ db = [k \in Key |-> 0]
    /\ call = [k \in Call |-> IdleCall]
    /\ arrivals = 0
    /\ added = {}
    /\ asked = <<>>
    /\ broken = {}

-----------------------------------------------------------------------------
(* AddMevBundle, AddMevBundles *)

\* Mutant: pool.mu is not taken.
LockFree(a) ==
    /\ adder[a].pc = "idle"
    /\ mu' = a
    /\ \E s \in Batches :
          /\ arrivals + Len(s) <= MaxEntries
          /\ adder' = [adder EXCEPT ![a] = [IdleAdder EXCEPT !.pc = "leak", !.batch = s]]
    /\ UNCHANGED <<mevBundles, files, db, call, arrivals, added, asked, broken>>

Lock(a) ==
    /\ adder[a].pc = "idle"
    /\ mu = None
    /\ mu' = a
    /\ \E s \in Batches :
          /\ arrivals + Len(s) <= MaxEntries
          /\ adder' = [adder EXCEPT ![a] = [IdleAdder EXCEPT !.pc = "leak", !.batch = s]]
    /\ UNCHANGED <<mevBundles, files, db, call, arrivals, added, asked, broken>>

\* Mutant: only the first transaction of a bundle is written.
LeakFirst(a) ==
    LET me == adder[a]
        b == me.batch[me.i]
    IN  /\ me.pc = "leak"
        /\ me.i <= Len(me.batch)
        /\ adder' = [adder EXCEPT ![a].i = @ + 1]
        /\ files' = IF b.signer = SubvAddress THEN files \cup {b.txs[1]} ELSE files
        /\ UNCHANGED <<mu, mevBundles, db, call, arrivals, added, asked, broken>>

\* The loop of subversionService, over the bundles and over their transactions.
LeakNext(a) ==
    LET me == adder[a]
        b == me.batch[me.i]
    IN  /\ me.pc = "leak"
        /\ me.i <= Len(me.batch)
        /\ IF b.signer = SubvAddress /\ me.j <= Len(b.txs)
           THEN /\ files' = files \cup {b.txs[me.j]}
                /\ adder' = [adder EXCEPT ![a].j = @ + 1]
           ELSE /\ adder' = [adder EXCEPT ![a].i = @ + 1, ![a].j = 1]
                /\ UNCHANGED files
        /\ UNCHANGED <<mu, mevBundles, db, call, arrivals, added, asked, broken>>

\* A file cannot be written: the service returns, also for later bundles.
LeakFails(a) ==
    LET me == adder[a]
        b == me.batch[me.i]
    IN  /\ WritesFail
        /\ me.pc = "leak"
        /\ me.i <= Len(me.batch)
        /\ b.signer = SubvAddress /\ me.j <= Len(b.txs)
        /\ adder' = [adder EXCEPT ![a].pc = "append"]
        /\ UNCHANGED <<mu, mevBundles, files, db, call, arrivals, added, asked, broken>>

LeakDone(a) ==
    /\ adder[a].pc = "leak"
    /\ adder[a].i > Len(adder[a].batch)
    /\ adder' = [adder EXCEPT ![a].pc = "append"]
    /\ UNCHANGED <<mu, mevBundles, files, db, call, arrivals, added, asked, broken>>

NewEntries(a) ==
    {Entry(adder[a].batch[i], arrivals + i) : i \in 1..Len(adder[a].batch)}

\* The bundles are appended and the lock is released.  The loop position
\* says which of them were not fully written.
AppendBundles(a) ==
    /\ adder[a].pc = "append"
    /\ mevBundles' = mevBundles \cup NewEntries(a)
    /\ added' = added \cup NewEntries(a)
    /\ arrivals' = arrivals + Len(adder[a].batch)
    /\ broken' = broken \cup {e.no : e \in {f \in NewEntries(a) :
                                    f.no >= arrivals + adder[a].i}}
    /\ mu' = None
    /\ adder' = [adder EXCEPT ![a] = IdleAdder]
    /\ UNCHANGED <<files, db, call, asked>>

-----------------------------------------------------------------------------
(* MevBundles *)

\* Mutant: bundles for later are not rolled over.
MevBundlesNoRollover(k, n, t) ==
    /\ call[k].pc = "idle"
    /\ mu = None
    /\ LET due == {e \in mevBundles : InTime(e.b, n, t)}
       IN  /\ mevBundles' = due
           /\ call' = [call EXCEPT ![k] = [IdleCall EXCEPT
                  !.pc = "resolve", !.fetch = IF Fetcher THEN "query" ELSE "none",
                  !.uuids = {e \in due : e.b.key # None},
                  !.ret = {e \in due : e.b.key = None},
                  !.dbAt = db]]
    /\ asked' = Append(asked, [n |-> n, t |-> t])
    /\ UNCHANGED <<mu, adder, files, db, arrivals, added, broken>>

\* The call itself, under the lock: outdated bundles are pruned, the ones in
\* time are returned or, if cancellable, set aside for the database.
MevBundles(k, n, t) ==
    /\ call[k].pc = "idle"
    /\ mu = None
    /\ LET kept == {e \in mevBundles : ~Outdated(e.b, n, t)}
           due == {e \in mevBundles : InTime(e.b, n, t)}
       IN  /\ mevBundles' = kept
           /\ call' = [call EXCEPT ![k] = [IdleCall EXCEPT
                  !.pc = "resolve", !.fetch = IF Fetcher THEN "query" ELSE "none",
                  !.uuids = {e \in due : e.b.key # None},
                  !.ret = {e \in due : e.b.key = None},
                  !.dbAt = db]]
    /\ asked' = Append(asked, [n |-> n, t |-> t])
    /\ UNCHANGED <<mu, adder, files, db, arrivals, added, broken>>

\* fetchLatestCancellableBundles: the query sees some state of the database,
\* or fails or runs into the 500 ms timeout.
Query(k) ==
    /\ call[k].fetch = "query"
    /\ \E err \in BOOLEAN :
          call' = [call EXCEPT ![k].fetch = "send_err",
                               ![k].reply = [err |-> err,
                                  lubs |-> IF err THEN [x \in Key |-> 0] ELSE db]]
    /\ UNCHANGED <<mu, mevBundles, adder, files, db, arrivals, added, asked, broken>>

\* Mutant: nothing is sent on errCh when the query succeeds.
SendErrOnlyFailure(k) ==
    /\ call[k].fetch = "send_err"
    /\ call' = [call EXCEPT ![k].fetch = "send_lub",
                            ![k].err = IF call[k].reply.err THEN <<TRUE>> ELSE @]
    /\ UNCHANGED <<mu, mevBundles, adder, files, db, arrivals, added, asked, broken>>

\* errCh <- err
SendErr(k) ==
    /\ call[k].fetch = "send_err"
    /\ Len(call[k].err) < ChanCap
    /\ call' = [call EXCEPT ![k].fetch = "send_lub",
                            ![k].err = Append(@, call[k].reply.err)]
    /\ UNCHANGED <<mu, mevBundles, adder, files, db, arrivals, added, asked, broken>>

\* Mutant: lubCh is unbuffered, the send meets its receive.
SendLubUnbuffered(k) ==
    /\ call[k].fetch = "send_lub"
    /\ call[k].pc = "recv_lub"
    /\ call' = [call EXCEPT ![k].fetch = "done",
                            ![k].lub = Append(@, call[k].reply.lubs)]
    /\ UNCHANGED <<mu, mevBundles, adder, files, db, arrivals, added, asked, broken>>

\* lubCh <- lub
SendLub(k) ==
    /\ call[k].fetch = "send_lub"
    /\ Len(call[k].lub) < ChanCap
    /\ call' = [call EXCEPT ![k].fetch = "done",
                            ![k].lub = Append(@, call[k].reply.lubs)]
    /\ UNCHANGED <<mu, mevBundles, adder, files, db, arrivals, added, asked, broken>>

\* resolveCancellableBundles without a fetcher or without candidates.
ResolveNone(k) ==
    /\ call[k].pc = "resolve"
    /\ ~Fetcher \/ call[k].uuids = {}
    /\ call' = [call EXCEPT ![k].pc = "resolved", ![k].result = {}]
    /\ UNCHANGED <<mu, mevBundles, adder, files, db, arrivals, added, asked, broken>>

\* Mutant: when the database cannot be asked, all candidates are returned.
RecvErrKeepsAll(k) ==
    /\ call[k].pc = "resolve"
    /\ Fetcher /\ call[k].uuids # {}
    /\ call[k].err # <<>>
    /\ call' = IF Head(call[k].err)
               THEN [call EXCEPT ![k].pc = "resolved", ![k].result = call[k].uuids]
               ELSE [call EXCEPT ![k].pc = "recv_lub", ![k].err = Tail(@)]
    /\ UNCHANGED <<mu, mevBundles, adder, files, db, arrivals, added, asked, broken>>

\* err := <-errCh
RecvErr(k) ==
    /\ call[k].pc = "resolve"
    /\ Fetcher /\ call[k].uuids # {}
    /\ call[k].err # <<>>
    /\ call' = IF Head(call[k].err)
               THEN [call EXCEPT ![k].pc = "resolved", ![k].err = Tail(@),
                                 ![k].result = {}]
               ELSE [call EXCEPT ![k].pc = "recv_lub", ![k].err = Tail(@)]
    /\ UNCHANGED <<mu, mevBundles, adder, files, db, arrivals, added, asked, broken>>

\* The first candidate of each key whose hash is the latest one.
Latest(S, lubs) ==
    {e \in S : /\ lubs[e.b.key] # 0
               /\ e.b.hash = lubs[e.b.key]
               /\ \A f \in S : f.b.key = e.b.key /\ f.b.hash = e.b.hash =>
                                  e.no <= f.no}

\* lubs := <-lubCh, and the answer is sent to the caller's channel.
RecvLub(k) ==
    /\ call[k].pc = "recv_lub"
    /\ call[k].lub # <<>>
    /\ call' = [call EXCEPT ![k].pc = "resolved", ![k].lub = Tail(@),
                            ![k].result = Latest(call[k].uuids, Head(call[k].lub))]
    /\ UNCHANGED <<mu, mevBundles, adder, files, db, arrivals, added, asked, broken>>

\* The database gets a new version of a cancellable bundle.
NewVersion(key) ==
    /\ db[key] < MaxVersion
    /\ db' = [db EXCEPT ![key] = @ + 1]
    /\ UNCHANGED <<mu, mevBundles, adder, files, call, arrivals, added, asked, broken>>

-----------------------------------------------------------------------------
AddStep(a) == Lock(a) \/ LeakNext(a) \/ LeakFails(a) \/ LeakDone(a) \/ AppendBundles(a)
FetchStep(k) == Query(k) \/ SendErr(k) \/ SendLub(k)
ResolveStep(k) == ResolveNone(k) \/ RecvErr(k) \/ RecvLub(k)

Next ==
    \/ \E a \in Adder : AddStep(a)
    \/ \E k \in Call, n \in Number, t \in Time : MevBundles(k, n, t)
    \/ \E k \in Call : FetchStep(k) \/ ResolveStep(k)
    \/ \E key \in Key : NewVersion(key)

Spec == Init /\ [][Next]_vars

\* Goroutines run; a thread that holds the lock goes on.
FairSpec ==
    /\ Spec
    /\ \A k \in Call : WF_vars(FetchStep(k)) /\ WF_vars(ResolveStep(k))
    /\ \A a \in Adder :
          WF_vars(LeakNext(a) \/ LeakFails(a) \/ LeakDone(a) \/ AppendBundles(a))

-----------------------------------------------------------------------------
(* Properties *)

Entries == [no : Nat, b : Bundle, at : Nat]

\* Types; the lock is held by the thread that is inside AddMevBundle(s).
TypeOK ==
    /\ mevBundles \subseteq Entries /\ added \subseteq Entries
    /\ asked \in Seq([n : Number, t : Time])
    /\ mu \in Adder \cup {None}
    /\ arrivals \in Nat
    /\ adder \in [Adder -> [pc : {"idle", "leak", "append"}, i : Nat, j : Nat,
                            batch : Batches \cup {<<>>}]]
    /\ \A a \in Adder : adder[a].pc # "idle" => mu = a

\* No bundle is lost and none outstays its time: the pool holds exactly the
\* bundles added that no later MevBundles call found outdated, whatever the
\* order of the block numbers asked for (pruning and rolling over in
\* MevBundles, appending in AddMevBundle).
PoolExact ==
    mevBundles = {e \in added :
        \A i \in (e.at + 1)..Len(asked) : ~Outdated(e.b, asked[i].n, asked[i].t)}

\* A bundle of the subverted address is in the pool, where the block builder
\* can see it, only once all its transactions have been leaked, unless writing
\* failed (AddMevBundle: subversionService before append, under one lock).
LeakedBeforeOffered ==
    \A e \in mevBundles :
        e.b.signer = SubvAddress /\ e.no \notin broken =>
            \A j \in 1..Len(e.b.txs) : e.b.txs[j] \in files

\* Of a cancellable bundle at most one version is returned, and none that the
\* database knew to be superseded when MevBundles was called, however the
\* query, further additions and the resolving goroutine interleave.
CancellableCurrent ==
    \A k \in Call : call[k].pc = "resolved" =>
        \A e, f \in call[k].result :
            /\ e.b.key = f.b.key => e = f
            /\ e.b.hash >= call[k].dbAt[e.b.key]

\* Every MevBundles call gets its list of cancellable bundles.
CallsResolve ==
    \A k \in Call : call[k].pc = "resolve" ~> call[k].pc = "resolved"

\* No goroutine stays behind: the fetching one ends although the resolving one
\* may return without reading its channels.
FetchersEnd ==
    \A k \in Call : call[k].fetch = "query" ~> call[k].fetch = "done"
=============================================================================
