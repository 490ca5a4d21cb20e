-------------------------- MODULE ReorgLoopProofs --------------------------
(***************************************************************************)
(* Proofs about the goroutines of the transaction pool, for any number of  *)
(* callers, heads and ticks: background runs never overlap, resets follow  *)
(* the chain without a gap, and a call returns only when it was served.    *)
(***************************************************************************)
EXTENDS ReorgLoop, TLAPS

\* Channels are numbered in the order of the runs; the channel of the last run
\* started is curDone until its close was seen, and the one not yet given to a
\* run is closed only by the end of the scheduler.
Channels ==
    /\ sched.nextDone >= 1
    /\ sched.curDone # None => sched.curDone = sched.nextDone - 1
    /\ \A d \in closed : d < sched.nextDone \/ (d = sched.nextDone /\ sched.pc = "ended")

\* The run that exists is the one the scheduler waits for.
RunIsCurrent ==
    /\ \A r \in runs : r.done = sched.curDone /\ r.done \notin closed
    /\ \A r \in runs : r.pc = "reset" => r.reset # None

\* Whoever waits for the scheduler's reply is the one it replies to.
OneReply ==
    /\ main.pc = "reply" => sched.pc = "reply" /\ \A a \in Adder : thread[a].pc # "reply"
    /\ \A a, b \in Adder : thread[a].pc = "reply" /\ thread[b].pc = "reply" => a = b
    /\ \A a \in Adder : thread[a].pc = "reply" => sched.pc = "reply"

\* Runs that have yet to reset the pool.
Resetting == {r \in runs : r.reset # None /\ r.pc \in {"lock", "reset"}}

\* The block of the last reset once the active run has done its own.
IsLastHead(h) ==
    /\ \A r \in Resetting : h = r.reset.newHead
    /\ Resetting = {} => h = lastReset

\* Each reset starts where the one before it was to end: the active run's at the
\* block of the last reset, the pending one's behind the active run's, and the next
\* request's behind the pending one's.
HeadChain ==
    /\ \A r \in Resetting : r.reset.oldHead = lastReset
    /\ sched.reset # None => IsLastHead(sched.reset.oldHead)
    /\ main.pc # "reply" => IF sched.reset # None THEN main.head = sched.reset.newHead
                            ELSE IsLastHead(main.head)
    /\ main.pc = "reply" => sched.reset # None /\ sched.reset.newHead = main.ev

\* A channel that was handed out, other than reorgShutdownCh.
HasChannel(a) == thread[a].done # None /\ thread[a].done # ShutdownCh

\* Where the request of a call whose transaction was queued is.
QueuedServed(a) ==
    /\ thread[a].outcome = "queued" => a \in queue \cup checked \cup evicted
    /\ thread[a].outcome = "queued" /\ thread[a].pc = "reply" =>
          a \in sched.dirtyAccounts \cup checked \cup evicted
    /\ thread[a].outcome = "queued" /\ HasChannel(a) =>
          \/ a \in checked \cup evicted
          \/ thread[a].done = sched.nextDone /\ a \in sched.dirtyAccounts
          \/ \E r \in runs : /\ r.done = thread[a].done /\ a \in r.dirty
                             /\ r.pc \in {"lock", "reset", "event", "promote"}

\* Where the event of a call whose transaction replaced a pending one is.
EventServed(a) ==
    thread[a].outcome = "replaced" /\ thread[a].pc # "event" =>
        \/ a \in announced \cup stale \/ shutdown
        \/ a \in sched.queuedEvents /\ (HasChannel(a) => thread[a].done = sched.nextDone)
        \/ \E r \in runs : /\ a \in r.events /\ r.pc # "close"
                           /\ HasChannel(a) => thread[a].done >= r.done

\* What a call has when it waits or has returned.
CallState(a) ==
    /\ HasChannel(a) => thread[a].pc \in {"wait", "returned"} /\ thread[a].done <= sched.nextDone
    /\ thread[a].pc \in {"idle", "lock"} => thread[a].outcome = "none"
    /\ a \notin Async /\ HasChannel(a) /\ thread[a].pc = "returned" => thread[a].done \in closed

ServedAt(a) == CallState(a) /\ QueuedServed(a) /\ (a \notin Private => EventServed(a))
Served == \A a \in Adder : ServedAt(a)

IInv == /\ TypeOK
        /\ OneRunAtATime
        /\ Channels
        /\ RunIsCurrent
        /\ OneReply
        /\ HeadChain
        /\ Served

-----------------------------------------------------------------------------
\* nil is no caller, no channel and no request.
LEMMA NoneDistinct ==
    /\ None \notin Adder /\ None \notin Nat /\ None # "run" /\ None \notin ResetRequest
    /\ "run" \notin Adder
  BY ReorgLoopConstants DEF ResetRequest

\* Initially nobody runs, waits or has asked for anything.
LEMMA InitIInv == Init => IInv
  <1> SUFFICES ASSUME Init PROVE IInv
    OBVIOUS
  <1>1. TypeOK
    <2>1. thread \in [Adder -> ThreadRecord] /\ \A a \in Adder : thread[a].pc = "idle"
      BY DEF Init, ThreadRecord
    <2>2. main \in MainRecord
      BY DEF Init, MainRecord
    <2>3. sched \in SchedRecord
      BY DEF Init, SchedRecord
    <2>4. chainHeadCh \in Seq(Nat)
      BY DEF Init
    <2>5. mu = None /\ runs = {} /\ queue = {} /\ closed = {} /\ shutdown = FALSE
          /\ stop = "running" /\ chainHead = 0 /\ lastReset = 0 /\ stateHead = 0
      BY DEF Init
    <2> QED
      BY <2>1, <2>2, <2>3, <2>4, <2>5, NoneDistinct DEF TypeOK
  <1>2. OneRunAtATime /\ Channels /\ RunIsCurrent /\ OneReply
    BY DEF Init, OneRunAtATime, Channels, RunIsCurrent, OneReply
  <1>3. HeadChain
    BY DEF Init, HeadChain, IsLastHead, Resetting
  <1>4. Served
    BY DEF Init, Served, ServedAt, CallState, QueuedServed, EventServed, HasChannel
  <1> QED
    BY <1>1, <1>2, <1>3, <1>4 DEF IInv

\* What a call promises depends on its thread, and on where requests and
\* events are; none of these is lost when they move on.
LEMMA ServedFrame ==
    ASSUME Served, UNCHANGED <<runs, thread>>,
           sched'.dirtyAccounts = sched.dirtyAccounts,
           sched.queuedEvents \subseteq sched'.queuedEvents,
           sched'.nextDone = sched.nextDone,
           closed \subseteq closed', shutdown => shutdown',
           queue \subseteq queue' \cup evicted',
           checked \subseteq checked', evicted \subseteq evicted',
           announced \subseteq announced', stale \subseteq stale'
    PROVE  Served'
  <1> SUFFICES ASSUME NEW a \in Adder
               PROVE  ServedAt(a)'
    BY DEF Served
  <1>1. CallState(a) /\ QueuedServed(a) /\ (a \notin Private => EventServed(a))
    BY DEF Served, ServedAt
  <1>2. CallState(a)'
    BY <1>1 DEF CallState, HasChannel
  <1>3. QueuedServed(a)'
    BY <1>1 DEF QueuedServed, HasChannel
  <1>4. a \notin Private => EventServed(a)'
    BY <1>1 DEF EventServed, HasChannel
  <1> QED
    BY <1>2, <1>3, <1>4 DEF ServedAt

\* A step of a caller that touches nothing but its own thread, and neither
\* enters nor leaves the critical section or the scheduler's reply.
LEMMA ThreadStepIInv ==
    ASSUME NEW a \in Adder, IInv,
           thread' \in [Adder -> ThreadRecord],
           \A b \in Adder : b # a => thread'[b] = thread[b],
           thread[a].pc # "event", thread'[a].pc \notin {"event", "reply"},
           UNCHANGED <<poolVars, main, sched, runs, closed, shutdown, stop, headVars, history>>,
           ServedAt(a)'
    PROVE  IInv'
  <1> USE DEF IInv
  <1>1. TypeOK'
    BY DEF TypeOK, poolVars, headVars
  <1>2. (OneRunAtATime /\ Channels /\ RunIsCurrent /\ OneReply)'
    BY DEF OneRunAtATime, Channels, RunIsCurrent, OneReply
  <1>3. HeadChain'
    BY DEF HeadChain, IsLastHead, Resetting, headVars
  <1>4. Served'
    <2> SUFFICES ASSUME NEW b \in Adder, b # a PROVE ServedAt(b)'
      BY DEF Served
    <2>1. ServedAt(b) /\ thread'[b] = thread[b]
      BY DEF Served
    <2> QED
      BY <2>1 DEF ServedAt, CallState, QueuedServed, EventServed, HasChannel, history, poolVars
  <1> QED
    BY <1>1, <1>2, <1>3, <1>4

\* A call of addTxs begins, or finds nothing to add.
LEMMA CallAddTxsIInv ==
    ASSUME NEW a \in Adder, IInv, CallAddTxs(a)
    PROVE  IInv'
  <1> USE DEF IInv
  <1>1. PICK p \in {"lock", "returned"} : thread' = [thread EXCEPT ![a].pc = p]
    BY DEF CallAddTxs, Goto
  <1>2. /\ thread[a].pc = "idle"
        /\ UNCHANGED <<poolVars, main, sched, runs, closed, shutdown, stop, headVars, history>>
    BY DEF CallAddTxs
  <1>3. /\ thread' \in [Adder -> ThreadRecord]
        /\ thread'[a].pc = p /\ thread'[a].outcome = thread[a].outcome
        /\ thread'[a].done = thread[a].done
        /\ \A b \in Adder : b # a => thread'[b] = thread[b]
    BY <1>1 DEF TypeOK, ThreadRecord
  <1>4. ServedAt(a)'
    BY <1>2, <1>3 DEF Served, ServedAt, CallState, QueuedServed, EventServed, HasChannel
  <1> QED
    BY <1>2, <1>3, <1>4, ThreadStepIInv

\* An answer of the closed pool is not the channel of a run.
LEMMA PromoteShutdownIInv ==
    ASSUME NEW a \in Adder, IInv, PromoteShutdown(a)
    PROVE  IInv'
  <1> USE DEF IInv
  <1>1. PICK p \in {"wait", "returned"} :
          thread' = [thread EXCEPT ![a].pc = p, ![a].done = ShutdownCh]
    BY DEF PromoteShutdown
  <1>2. /\ thread[a].pc = "request" /\ shutdown
        /\ UNCHANGED <<poolVars, main, sched, runs, closed, shutdown, stop, headVars, history>>
    BY DEF PromoteShutdown
  <1>3. /\ thread' \in [Adder -> ThreadRecord]
        /\ thread'[a].pc = p /\ thread'[a].outcome = thread[a].outcome
        /\ thread'[a].done = ShutdownCh
        /\ \A b \in Adder : b # a => thread'[b] = thread[b]
    BY <1>1 DEF TypeOK, ThreadRecord, ShutdownCh
  <1>4. ServedAt(a)'
    BY <1>2, <1>3 DEF Served, ServedAt, CallState, QueuedServed, EventServed, HasChannel,
                      poolVars, history
  <1> QED
    BY <1>2, <1>3, <1>4, ThreadStepIInv

\* A caller returns when its channel is closed.
LEMMA WaitDoneIInv ==
    ASSUME NEW a \in Adder, IInv, WaitDone(a)
    PROVE  IInv'
  <1> USE DEF IInv
  <1>1. /\ thread[a].pc = "wait" /\ thread' = [thread EXCEPT ![a].pc = "returned"]
        /\ thread[a].done = ShutdownCh \/ thread[a].done \in closed
        /\ UNCHANGED <<poolVars, main, sched, runs, closed, shutdown, stop, headVars, history>>
    BY DEF WaitDone, Goto
  <1>2. /\ thread' \in [Adder -> ThreadRecord]
        /\ thread'[a].pc = "returned" /\ thread'[a].outcome = thread[a].outcome
        /\ thread'[a].done = thread[a].done
        /\ \A b \in Adder : b # a => thread'[b] = thread[b]
    BY <1>1 DEF TypeOK, ThreadRecord
  <1>3. ServedAt(a)'
    BY <1>1, <1>2 DEF Served, ServedAt, CallState, QueuedServed, EventServed, HasChannel,
                      poolVars, history
  <1> QED
    BY <1>1, <1>2, <1>3, ThreadStepIInv

\* The transaction is added under the lock, with its outcome.
LEMMA AddTxsLockedIInv ==
    ASSUME NEW a \in Adder, IInv, AddTxsLocked(a)
    PROVE  IInv'
  <1> USE DEF IInv
  <1>1. PICK o \in {"clean", "queued", "replaced"}, p \in {"event", "request"} :
          /\ p = "event" <=> o = "replaced"
          /\ thread' = [thread EXCEPT ![a].outcome = o, ![a].pc = p]
          /\ mu' = IF o = "replaced" THEN a ELSE None
          /\ queue' = IF o = "queued" THEN queue \cup {a} ELSE queue
    BY DEF AddTxsLocked
  <1>2. /\ thread[a].pc = "lock" /\ mu = None
        /\ UNCHANGED <<main, sched, runs, closed, shutdown, stop, headVars, history>>
    BY DEF AddTxsLocked
  <1>3. /\ thread' \in [Adder -> ThreadRecord]
        /\ thread'[a].pc = p /\ thread'[a].outcome = o /\ thread'[a].done = thread[a].done
        /\ \A b \in Adder : b # a => thread'[b] = thread[b]
    BY <1>1 DEF TypeOK, ThreadRecord
  <1>4. TypeOK'
    <2>1. \A b \in Adder : thread'[b].pc = "event" <=> mu' = b
      BY <1>1, <1>2, <1>3, NoneDistinct DEF TypeOK
    <2>2. mu' \in Adder \cup {None} /\ queue' \subseteq Adder
      BY <1>1 DEF TypeOK
    <2> QED
      BY <1>2, <1>3, <2>1, <2>2, NoneDistinct DEF TypeOK, headVars
  <1>5. (OneRunAtATime /\ Channels /\ RunIsCurrent /\ OneReply)'
    BY <1>2, <1>3 DEF OneRunAtATime, Channels, RunIsCurrent, OneReply
  <1>6. HeadChain'
    BY <1>2 DEF HeadChain, IsLastHead, Resetting, headVars
  <1>7. Served'
    <2> SUFFICES ASSUME NEW b \in Adder PROVE ServedAt(b)'
      BY DEF Served
    <2>1. CallState(b) /\ QueuedServed(b) /\ (b \notin Private => EventServed(b))
      BY DEF Served, ServedAt
    <2>2. CallState(b)'
      BY <1>2, <1>3, <2>1 DEF CallState, HasChannel
    <2>3. QueuedServed(b)'
      BY <1>1, <1>2, <1>3, <2>1 DEF QueuedServed, CallState, HasChannel, history
    <2>4. b \notin Private => EventServed(b)'
      BY <1>1, <1>2, <1>3, <2>1 DEF EventServed, HasChannel, history
    <2> QED
      BY <2>2, <2>3, <2>4 DEF ServedAt
  <1> QED
    BY <1>4, <1>5, <1>6, <1>7

\* The event is with the scheduler before the lock is released, or the pool is
\* shut down.
LEMMA QueueTxEventIInv ==
    ASSUME NEW a \in Adder, IInv, QueueTxEvent(a)
    PROVE  IInv'
  <1> USE DEF IInv
  <1>1. /\ thread[a].pc = "event" /\ thread' = [thread EXCEPT ![a].pc = "request"]
        /\ mu' = None
        /\ UNCHANGED <<queue, main, runs, closed, shutdown, stop, headVars, history>>
    BY DEF QueueTxEvent, Goto
  <1>2. /\ thread' \in [Adder -> ThreadRecord]
        /\ thread'[a].pc = "request" /\ thread'[a].outcome = thread[a].outcome
        /\ thread'[a].done = thread[a].done
        /\ \A b \in Adder : b # a => thread'[b] = thread[b]
    BY <1>1 DEF TypeOK, ThreadRecord
  <1>3. /\ sched' \in SchedRecord
        /\ sched'.curDone = sched.curDone /\ sched'.nextDone = sched.nextDone
        /\ sched'.reset = sched.reset /\ sched'.dirtyAccounts = sched.dirtyAccounts
        /\ sched.queuedEvents \subseteq sched'.queuedEvents
        /\ sched'.pc = sched.pc \/ (sched.pc = "select" /\ sched'.pc = "top")
        /\ a \in sched'.queuedEvents \/ shutdown
    <2>1. CASE sched.pc = "select"
               /\ sched' = [sched EXCEPT !.pc = "top", !.queuedEvents = @ \cup {a}]
      BY <2>1 DEF TypeOK, SchedRecord, Event
    <2>2. CASE shutdown /\ UNCHANGED sched
      BY <2>2 DEF TypeOK
    <2> QED
      BY <2>1, <2>2 DEF QueueTxEvent
  <1>4. TypeOK'
    <2>1. mu = a /\ \A b \in Adder : thread'[b].pc # "event"
      BY <1>1, <1>2 DEF TypeOK
    <2> QED
      BY <1>1, <1>2, <1>3, <2>1, NoneDistinct DEF TypeOK, headVars
  <1>5. (OneRunAtATime /\ Channels /\ RunIsCurrent)'
    BY <1>1, <1>3 DEF OneRunAtATime, Channels, RunIsCurrent
  <1>6. OneReply'
    BY <1>1, <1>2, <1>3 DEF OneReply
  <1>7. HeadChain'
    BY <1>1, <1>3 DEF HeadChain, IsLastHead, Resetting, headVars
  <1>8. Served'
    <2> SUFFICES ASSUME NEW b \in Adder PROVE ServedAt(b)'
      BY DEF Served
    <2>1. CallState(b) /\ QueuedServed(b) /\ (b \notin Private => EventServed(b))
      BY DEF Served, ServedAt
    <2>2. CallState(b)'
      BY <1>1, <1>2, <1>3, <2>1 DEF CallState, HasChannel
    <2>3. QueuedServed(b)'
      BY <1>1, <1>2, <1>3, <2>1 DEF QueuedServed, CallState, HasChannel, history
    <2>4. b \notin Private => EventServed(b)'
      <3>1. ~HasChannel(a)
        BY <1>1 DEF Served, ServedAt, CallState
      <3> QED
        BY <1>1, <1>2, <1>3, <2>1, <3>1 DEF EventServed, HasChannel, history
    <2> QED
      BY <2>2, <2>3, <2>4 DEF ServedAt
  <1> QED
    BY <1>4, <1>5, <1>6, <1>7, <1>8

\* A request is noted in the round that nextDone will be closed for.
LEMMA RequestPromoteIInv ==
    ASSUME NEW a \in Adder, IInv, RequestPromote(a)
    PROVE  IInv'
  <1> USE DEF IInv
  <1>1. /\ thread[a].pc = "request" /\ thread' = [thread EXCEPT ![a].pc = "reply"]
        /\ sched.pc = "select"
        /\ sched' = [sched EXCEPT !.pc = "reply", !.launchNextRun = TRUE,
                              !.dirtyAccounts = @ \cup Dirty(a)]
        /\ UNCHANGED <<poolVars, main, runs, closed, shutdown, stop, headVars, history>>
    BY DEF RequestPromote, Goto
  <1>2. /\ thread' \in [Adder -> ThreadRecord]
        /\ thread'[a].pc = "reply" /\ thread'[a].outcome = thread[a].outcome
        /\ thread'[a].done = thread[a].done
        /\ \A b \in Adder : b # a => thread'[b] = thread[b]
    BY <1>1 DEF TypeOK, ThreadRecord
  <1>3. /\ sched' \in SchedRecord /\ sched'.pc = "reply"
        /\ sched'.curDone = sched.curDone /\ sched'.nextDone = sched.nextDone
        /\ sched'.reset = sched.reset /\ sched'.queuedEvents = sched.queuedEvents
        /\ sched'.dirtyAccounts = sched.dirtyAccounts \cup Dirty(a)
    <2>1. Dirty(a) \in SUBSET Adder
      BY DEF Dirty
    <2> QED
      BY <1>1, <2>1 DEF TypeOK, SchedRecord
  <1>4. TypeOK'
    BY <1>1, <1>2, <1>3 DEF TypeOK, headVars, poolVars
  <1>5. (OneRunAtATime /\ Channels /\ RunIsCurrent)'
    BY <1>1, <1>3 DEF OneRunAtATime, Channels, RunIsCurrent
  <1>6. OneReply'
    BY <1>1, <1>2, <1>3 DEF OneReply
  <1>7. HeadChain'
    BY <1>1, <1>3 DEF HeadChain, IsLastHead, Resetting, headVars
  <1>8. Served'
    <2> SUFFICES ASSUME NEW b \in Adder PROVE ServedAt(b)'
      BY DEF Served
    <2>1. CallState(b) /\ QueuedServed(b) /\ (b \notin Private => EventServed(b))
      BY DEF Served, ServedAt
    <2>2. CallState(b)'
      BY <1>1, <1>2, <1>3, <2>1 DEF CallState, HasChannel
    <2>3. QueuedServed(b)'
      BY <1>1, <1>2, <1>3, <2>1 DEF QueuedServed, CallState, HasChannel, history, Dirty, poolVars
    <2>4. b \notin Private => EventServed(b)'
      BY <1>1, <1>2, <1>3, <2>1 DEF EventServed, HasChannel, history
    <2> QED
      BY <2>2, <2>3, <2>4 DEF ServedAt
  <1> QED
    BY <1>4, <1>5, <1>6, <1>7, <1>8

\* The channel a caller gets is the one of the round that holds its request
\* and, unless a run has it already, its event.
LEMMA ReplyPromoteIInv ==
    ASSUME NEW a \in Adder, IInv, ReplyPromote(a)
    PROVE  IInv'
  <1> USE DEF IInv
  <1>1. PICK p \in {"wait", "returned"} :
          /\ p = "returned" => a \in Async
          /\ thread' = [thread EXCEPT ![a].pc = p, ![a].done = sched.nextDone]
    BY DEF ReplyPromote
  <1>2. /\ thread[a].pc = "reply" /\ sched.pc = "reply"
        /\ sched' = [sched EXCEPT !.pc = "top"]
        /\ UNCHANGED <<poolVars, main, runs, closed, shutdown, stop, headVars, history>>
    BY DEF ReplyPromote
  <1>3. /\ thread' \in [Adder -> ThreadRecord]
        /\ thread'[a].pc = p /\ thread'[a].outcome = thread[a].outcome
        /\ thread'[a].done = sched.nextDone
        /\ \A b \in Adder : b # a => thread'[b] = thread[b]
    <2>1. sched.nextDone \in Nat /\ thread \in [Adder -> ThreadRecord]
      BY DEF TypeOK, SchedRecord
    <2> QED
      BY <1>1, <2>1 DEF ThreadRecord
  <1>4. /\ sched' \in SchedRecord /\ sched'.pc = "top"
        /\ sched'.curDone = sched.curDone /\ sched'.nextDone = sched.nextDone
        /\ sched'.reset = sched.reset /\ sched'.queuedEvents = sched.queuedEvents
        /\ sched'.dirtyAccounts = sched.dirtyAccounts
    BY <1>2 DEF TypeOK, SchedRecord
  <1>5. TypeOK'
    BY <1>2, <1>3, <1>4 DEF TypeOK, headVars, poolVars
  <1>6. (OneRunAtATime /\ Channels /\ RunIsCurrent)'
    BY <1>2, <1>4 DEF OneRunAtATime, Channels, RunIsCurrent
  <1>7. OneReply'
    BY <1>2, <1>3, <1>4 DEF OneReply
  <1>8. HeadChain'
    BY <1>2, <1>4 DEF HeadChain, IsLastHead, Resetting, headVars
  <1>9. Served'
    <2> SUFFICES ASSUME NEW b \in Adder PROVE ServedAt(b)'
      BY DEF Served
    <2>1. CallState(b) /\ QueuedServed(b) /\ (b \notin Private => EventServed(b))
      BY DEF Served, ServedAt
    <2>2. CallState(b)'
      BY <1>1, <1>2, <1>3, <1>4, <2>1 DEF CallState, HasChannel, TypeOK, SchedRecord
    <2>3. QueuedServed(b)'
      BY <1>2, <1>3, <1>4, <2>1 DEF QueuedServed, CallState, HasChannel, history, poolVars
    <2>4. b \notin Private => EventServed(b)'
      <3>1. \A r \in runs : sched.nextDone >= r.done
        BY NoneDistinct DEF RunIsCurrent, Channels, TypeOK, SchedRecord, RunRecord
      <3> QED
        BY <1>2, <1>3, <1>4, <2>1, <3>1 DEF EventServed, HasChannel, history
    <2> QED
      BY <2>2, <2>3, <2>4 DEF ServedAt
  <1> QED
    BY <1>5, <1>6, <1>7, <1>8, <1>9

-----------------------------------------------------------------------------
\* Steps of the main loop, the chain and Stop that do not touch the scheduler,
\* the runs or the callers.
LEMMA MainStepIInv ==
    ASSUME IInv, NewHead \/ HeadEvent \/ Tick \/ TickLocked \/ Stop \/ LoopShutdown
    PROVE  IInv'
  <1> USE DEF IInv
  <1>1. /\ UNCHANGED <<mu, thread, sched, runs, closed, lastReset, stateHead,
                       checked, stale, announced>>
        /\ queue' \subseteq queue /\ queue \subseteq queue' \cup evicted'
        /\ evicted \subseteq evicted'
        /\ shutdown => shutdown'
    BY DEF NewHead, HeadEvent, Tick, TickLocked, Stop, LoopShutdown, poolVars, headVars, history
  <1>2. /\ main' \in MainRecord /\ main'.head = main.head
        /\ main'.pc = "reply" <=> main.pc = "reply"
        /\ main'.pc = "reply" => main'.ev = main.ev
    <2>1. CASE HeadEvent
      <3>1. Head(chainHeadCh) \in Nat /\ main.pc = "select"
            /\ main' = [main EXCEPT !.pc = "request", !.ev = Head(chainHeadCh)]
        BY <2>1 DEF HeadEvent, TypeOK
      <3> QED
        BY <3>1 DEF TypeOK, MainRecord
    <2>2. CASE Tick
      <3>1. main.ticks + 1 \in Nat /\ main.pc = "select"
            /\ main' = [main EXCEPT !.pc = "tick", !.ticks = main.ticks + 1]
        BY <2>2 DEF Tick, TypeOK, MainRecord
      <3> QED
        BY <3>1 DEF TypeOK, MainRecord
    <2>3. CASE TickLocked
      BY <2>3 DEF TickLocked, TypeOK, MainRecord
    <2>4. CASE LoopShutdown
      BY <2>4 DEF LoopShutdown, TypeOK, MainRecord
    <2>5. CASE NewHead \/ Stop
      BY <2>5 DEF NewHead, Stop, TypeOK
    <2> QED
      BY <2>1, <2>2, <2>3, <2>4, <2>5
  <1>3. chainHead' \in Nat /\ chainHeadCh' \in Seq(Nat) /\ shutdown' \in BOOLEAN
        /\ stop' \in {"running", "waiting", "stopped"}
    <2>1. CASE NewHead
      BY <2>1 DEF NewHead, TypeOK
    <2>2. CASE HeadEvent
      BY <2>2 DEF HeadEvent, TypeOK
    <2>3. CASE Tick \/ TickLocked \/ Stop \/ LoopShutdown
      BY <2>3 DEF Tick, TickLocked, Stop, LoopShutdown, TypeOK, headVars
    <2> QED
      BY <2>1, <2>2, <2>3
  <1>4. TypeOK'
    BY <1>1, <1>2, <1>3 DEF TypeOK
  <1>5. (OneRunAtATime /\ Channels /\ RunIsCurrent)'
    BY <1>1 DEF OneRunAtATime, Channels, RunIsCurrent
  <1>6. OneReply'
    BY <1>1, <1>2 DEF OneReply
  <1>7. HeadChain'
    BY <1>1, <1>2 DEF HeadChain, IsLastHead, Resetting
  <1>8. Served'
    <2>1. /\ UNCHANGED <<runs, thread>> /\ sched' = sched /\ closed' = closed
          /\ checked' = checked /\ announced' = announced /\ stale' = stale
          /\ queue \subseteq queue' \cup evicted' /\ evicted \subseteq evicted'
          /\ Served
          /\ shutdown => shutdown'
      BY <1>1
    <2> QED
      BY <2>1, ServedFrame
  <1> QED
    BY <1>4, <1>5, <1>6, <1>7, <1>8

\* A request extends the pending reset, or starts one at the end of the last.
LEMMA RequestResetIInv ==
    ASSUME IInv, RequestReset
    PROVE  IInv'
  <1> USE DEF IInv
  <1> DEFINE req == IF sched.reset = None THEN [oldHead |-> main.head, newHead |-> main.ev]
                    ELSE [sched.reset EXCEPT !.newHead = main.ev]
  <1>1. /\ main.pc = "request" /\ sched.pc = "select"
        /\ sched' = [sched EXCEPT !.pc = "reply", !.launchNextRun = TRUE, !.reset = req]
        /\ main' = [main EXCEPT !.pc = "reply"]
        /\ UNCHANGED <<poolVars, thread, runs, closed, shutdown, stop, headVars, history>>
    BY DEF RequestReset
  <1>2. /\ req \in ResetRequest /\ req.newHead = main.ev
        /\ req.oldHead = IF sched.reset = None THEN main.head ELSE sched.reset.oldHead
    <2>1. main.head \in Nat /\ main.ev \in Nat
          /\ sched.reset \in ResetRequest \cup {None}
      BY DEF TypeOK, MainRecord, SchedRecord
    <2>2. CASE sched.reset = None
      BY <2>1, <2>2 DEF ResetRequest
    <2>3. CASE sched.reset # None
      BY <2>1, <2>3 DEF ResetRequest
    <2> QED
      BY <2>2, <2>3
  <1> HIDE DEF req
  <1>3. /\ sched' \in SchedRecord /\ sched'.pc = "reply" /\ sched'.reset = req
        /\ sched'.curDone = sched.curDone /\ sched'.nextDone = sched.nextDone
        /\ sched'.queuedEvents = sched.queuedEvents
        /\ sched'.dirtyAccounts = sched.dirtyAccounts
    BY <1>1, <1>2 DEF TypeOK, SchedRecord
  <1>4. /\ main' \in MainRecord /\ main'.pc = "reply" /\ main'.ev = main.ev
    BY <1>1 DEF TypeOK, MainRecord
  <1>5. TypeOK'
    BY <1>1, <1>3, <1>4 DEF TypeOK, headVars, poolVars
  <1>6. (OneRunAtATime /\ Channels /\ RunIsCurrent)'
    BY <1>1, <1>3 DEF OneRunAtATime, Channels, RunIsCurrent
  <1>7. OneReply'
    BY <1>1, <1>3, <1>4 DEF OneReply
  <1>8. HeadChain'
    <2>1. req # None
      BY <1>2, NoneDistinct
    <2> QED
      BY <1>1, <1>2, <1>3, <1>4, <2>1 DEF HeadChain, IsLastHead, Resetting, headVars
  <1>9. Served'
    BY <1>1, <1>3, ServedFrame DEF poolVars, history
  <1> QED
    BY <1>5, <1>6, <1>7, <1>8, <1>9

\* loop takes the head it asked for as the pool's.
LEMMA ReplyResetIInv ==
    ASSUME IInv, ReplyReset
    PROVE  IInv'
  <1> USE DEF IInv
  <1>1. /\ main.pc = "reply" /\ sched.pc = "reply"
        /\ main' = [main EXCEPT !.pc = "select", !.head = main.ev]
        /\ sched' = [sched EXCEPT !.pc = "top"]
        /\ UNCHANGED <<poolVars, thread, runs, closed, shutdown, stop, headVars, history>>
    BY DEF ReplyReset
  <1>2. /\ sched' \in SchedRecord /\ sched'.pc = "top" /\ sched'.reset = sched.reset
        /\ sched'.curDone = sched.curDone /\ sched'.nextDone = sched.nextDone
        /\ sched'.queuedEvents = sched.queuedEvents
        /\ sched'.dirtyAccounts = sched.dirtyAccounts
    BY <1>1 DEF TypeOK, SchedRecord
  <1>3. /\ main' \in MainRecord /\ main'.pc = "select" /\ main'.head = main.ev
    BY <1>1 DEF TypeOK, MainRecord
  <1>4. TypeOK'
    BY <1>1, <1>2, <1>3 DEF TypeOK, headVars, poolVars
  <1>5. (OneRunAtATime /\ Channels /\ RunIsCurrent)'
    BY <1>1, <1>2 DEF OneRunAtATime, Channels, RunIsCurrent
  <1>6. OneReply'
    BY <1>1, <1>2, <1>3 DEF OneReply
  <1>7. HeadChain'
    BY <1>1, <1>2, <1>3 DEF HeadChain, IsLastHead, Resetting, headVars
  <1>8. Served'
    BY <1>1, <1>2, ServedFrame DEF poolVars, history
  <1> QED
    BY <1>4, <1>5, <1>6, <1>7, <1>8

-----------------------------------------------------------------------------
\* A run is started only when there is none, and takes everything with it that
\* was asked for; its channel is the one that was handed out.
LEMMA LaunchIInv ==
    ASSUME IInv, sched.pc = "top", sched.curDone = None, Launched,
           UNCHANGED <<poolVars, thread, main, closed, shutdown, stop, headVars, history>>
    PROVE  IInv'
  <1> USE DEF IInv
  <1> DEFINE new == [pc |-> "lock", done |-> sched.nextDone, reset |-> sched.reset,
                     dirty |-> sched.dirtyAccounts, events |-> sched.queuedEvents]
  <1>1. runs = {}
    BY NoneDistinct DEF RunIsCurrent, TypeOK, RunRecord
  <1>2. runs' = {new}
    BY <1>1 DEF Launched
  <1>3. /\ new \in RunRecord /\ new.pc = "lock" /\ new.done = sched.nextDone
        /\ new.reset = sched.reset /\ new.dirty = sched.dirtyAccounts
        /\ new.events = sched.queuedEvents
    BY DEF TypeOK, SchedRecord, RunRecord
  <1> HIDE DEF new
  <1>4. /\ sched' \in SchedRecord /\ sched'.pc = "select" /\ sched'.reset = None
        /\ sched'.curDone = sched.nextDone /\ sched'.nextDone = sched.nextDone + 1
        /\ sched'.queuedEvents = {} /\ sched'.dirtyAccounts = {}
        /\ sched.nextDone \in Nat
    <2>1. sched.nextDone \in Nat /\ sched.nextDone + 1 \in Nat
      BY DEF TypeOK, SchedRecord
    <2>2. sched' = [sched EXCEPT !.pc = "select", !.curDone = sched.nextDone,
                    !.nextDone = sched.nextDone + 1, !.launchNextRun = FALSE, !.reset = None,
                    !.dirtyAccounts = {}, !.queuedEvents = {}]
      BY DEF Launched
    <2> QED
      BY <2>1, <2>2 DEF TypeOK, SchedRecord
  <1>5. mu # "run"
    BY <1>1 DEF TypeOK
  <1>6. TypeOK'
    BY <1>2, <1>3, <1>4, <1>5 DEF TypeOK, headVars, poolVars
  <1>7. (OneRunAtATime /\ Channels)'
    <2>1. OneRunAtATime'
      BY <1>2 DEF OneRunAtATime
    <2>2. \A d \in closed : d \in Nat /\ d < sched.nextDone
      BY DEF Channels, TypeOK
    <2>3. sched'.nextDone >= 1 /\ sched'.curDone = sched'.nextDone - 1
      BY <1>4
    <2>4. Channels'
      BY <1>4, <2>2, <2>3 DEF Channels
    <2> QED
      BY <2>1, <2>4
  <1>8. RunIsCurrent'
    BY <1>2, <1>3, <1>4 DEF RunIsCurrent, Channels, TypeOK
  <1>9. OneReply'
    BY <1>4 DEF OneReply
  <1>10. HeadChain'
    <2>1. main.pc # "reply" /\ Resetting = {}
      BY <1>1 DEF OneReply, Resetting
    <2>2. Resetting' = IF sched.reset # None THEN {new} ELSE {}
      BY <1>2, <1>3 DEF Resetting
    <2> QED
      BY <1>3, <1>4, <2>1, <2>2 DEF HeadChain, IsLastHead, headVars
  <1>11. Served'
    <2> SUFFICES ASSUME NEW b \in Adder PROVE ServedAt(b)'
      BY DEF Served
    <2>1. CallState(b) /\ QueuedServed(b) /\ (b \notin Private => EventServed(b))
      BY DEF Served, ServedAt
    <2>2. CallState(b)'
      BY <1>4, <2>1 DEF CallState, HasChannel, TypeOK, ThreadRecord
    <2>3. QueuedServed(b)'
      <3>1. thread[b].pc # "reply"
        BY DEF OneReply
      <3> QED
        BY <1>1, <1>2, <1>3, <1>4, <2>1, <3>1 DEF QueuedServed, HasChannel, history, poolVars
    <2>4. b \notin Private => EventServed(b)'
      BY <1>1, <1>2, <1>3, <1>4, <2>1 DEF EventServed, HasChannel, history
    <2> QED
      BY <2>2, <2>3, <2>4 DEF ServedAt
  <1> QED
    BY <1>6, <1>7, <1>8, <1>9, <1>10, <1>11

\* The other steps of the scheduler.
LEMMA SchedStepIInv ==
    ASSUME IInv, LaunchRun \/ RunDone \/ SchedShutdown \/ Drain
    PROVE  IInv'
  <1> USE DEF IInv
  <1>1. CASE LaunchRun /\ sched.curDone = None /\ sched.launchNextRun
    BY <1>1, LaunchIInv DEF LaunchRun
  <1>2. CASE \/ LaunchRun /\ ~(sched.curDone = None /\ sched.launchNextRun)
             \/ RunDone \/ SchedShutdown \/ Drain
    <2>1. UNCHANGED <<poolVars, thread, main, runs, shutdown, stop, headVars, history>>
      BY <1>2 DEF LaunchRun, RunDone, SchedShutdown, Drain
    <2>2. /\ sched' \in SchedRecord /\ sched'.reset = sched.reset
          /\ sched'.nextDone = sched.nextDone /\ sched'.queuedEvents = sched.queuedEvents
          /\ sched'.dirtyAccounts = sched.dirtyAccounts
          /\ sched.pc \in {"top", "select", "drain"} /\ sched'.pc # "reply"
      <3>1. CASE RunDone
        BY <3>1 DEF RunDone, TypeOK, SchedRecord
      <3>2. CASE ~RunDone
        BY <1>2, <3>2 DEF LaunchRun, SchedShutdown, Drain, TypeOK, SchedRecord
      <3> QED
        BY <3>1, <3>2
    <2>3. /\ closed' = closed \/ (closed' = closed \cup {sched.nextDone} /\ sched'.pc = "ended")
          /\ sched'.curDone = sched.curDone
             \/ (sched'.curDone = None /\ sched.curDone \in closed)
          /\ closed' # closed => sched.curDone = None \/ sched.curDone \in closed
      BY <1>2 DEF LaunchRun, RunDone, SchedShutdown, Drain, TypeOK, SchedRecord
    <2>4. sched.pc # "ended" /\ sched.nextDone \in Nat
      BY <2>2 DEF TypeOK, SchedRecord
    <2>5. TypeOK'
      BY <2>1, <2>2, <2>3, <2>4 DEF TypeOK, headVars, poolVars
    <2>6. (OneRunAtATime /\ Channels)'
      BY <2>1, <2>2, <2>3, <2>4 DEF OneRunAtATime, Channels, TypeOK
    <2>7. RunIsCurrent'
      BY <2>1, <2>3, NoneDistinct DEF RunIsCurrent, TypeOK, RunRecord
    <2>8. OneReply'
      BY <2>1, <2>2 DEF OneReply
    <2>9. HeadChain'
      BY <2>1, <2>2 DEF HeadChain, IsLastHead, Resetting, headVars
    <2>10. Served'
      BY <2>1, <2>2, <2>3, ServedFrame DEF poolVars, history
    <2> QED
      BY <2>5, <2>6, <2>7, <2>8, <2>9, <2>10
  <1> QED
    BY <1>1, <1>2

-----------------------------------------------------------------------------
\* The run there is, and what a step makes of it.
LEMMA OnlyRun ==
    ASSUME IInv, NEW r \in runs, NEW s, MoveRun(r, s)
    PROVE  runs = {r} /\ runs' = {s} /\ r \in RunRecord
  BY DEF IInv, OneRunAtATime, MoveRun, TypeOK

\* A run takes the lock.
LEMMA RunLockIInv ==
    ASSUME IInv, NEW r \in runs, RunLock(r)
    PROVE  IInv'
  <1> USE DEF IInv
  <1>1. PICK p \in {"reset", "promote"} :
          /\ p = "reset" <=> r.reset # None
          /\ MoveRun(r, [r EXCEPT !.pc = p])
    BY DEF RunLock
  <1>2. /\ r.pc = "lock" /\ mu = None /\ mu' = "run"
        /\ UNCHANGED <<queue, thread, main, sched, closed, shutdown, stop, headVars, history>>
    BY DEF RunLock
  <1> DEFINE s == [r EXCEPT !.pc = p]
  <1>3. runs = {r} /\ runs' = {s} /\ r \in RunRecord
    BY <1>1, OnlyRun
  <1>4. /\ s \in RunRecord /\ s.pc = p /\ s.done = r.done /\ s.reset = r.reset
        /\ s.dirty = r.dirty /\ s.events = r.events
    BY <1>3 DEF RunRecord
  <1> HIDE DEF s
  <1>5. TypeOK'
    <2>1. \A b \in Adder : thread'[b].pc # "event" /\ mu' # b
      BY <1>2, NoneDistinct DEF TypeOK
    <2> QED
      BY <1>2, <1>3, <1>4, <2>1 DEF TypeOK, headVars
  <1>6. (OneRunAtATime /\ Channels /\ RunIsCurrent /\ OneReply)'
    BY <1>1, <1>2, <1>3, <1>4 DEF OneRunAtATime, Channels, RunIsCurrent, OneReply
  <1>7. HeadChain'
    <2>1. \/ Resetting = {r} /\ Resetting' = {s}
          \/ Resetting = {} /\ Resetting' = {}
      BY <1>1, <1>2, <1>3, <1>4 DEF Resetting
    <2> QED
      BY <1>2, <1>4, <2>1 DEF HeadChain, IsLastHead, headVars
  <1>8. Served'
    BY <1>1, <1>2, <1>3, <1>4 DEF Served, ServedAt, CallState, QueuedServed, EventServed,
                                  HasChannel, history
  <1> QED
    BY <1>5, <1>6, <1>7, <1>8

\* A run's reset reaches the new head of its request, or returns early.
LEMMA RunResetIInv ==
    ASSUME IInv, NEW r \in runs, RunReset(r)
    PROVE  IInv'
  <1> USE DEF IInv
  <1>1. PICK p \in {"event", "promote"} : MoveRun(r, [r EXCEPT !.pc = p])
    BY DEF RunReset
  <1>2. /\ r.pc = "reset" /\ lastReset' = r.reset.newHead
        /\ stateHead' \in {stateHead, r.reset.newHead}
        /\ UNCHANGED <<poolVars, thread, main, sched, closed, shutdown, stop,
                       chainHead, chainHeadCh, history>>
    BY DEF RunReset
  <1> DEFINE s == [r EXCEPT !.pc = p]
  <1>3. runs = {r} /\ runs' = {s} /\ r \in RunRecord
    BY <1>1, OnlyRun
  <1>4. /\ s \in RunRecord /\ s.pc = p /\ s.done = r.done /\ s.reset = r.reset
        /\ s.dirty = r.dirty /\ s.events = r.events
    BY <1>3 DEF RunRecord
  <1> HIDE DEF s
  <1>5. r.reset # None /\ lastReset' \in Nat /\ stateHead' \in Nat
    BY <1>2, <1>3 DEF RunIsCurrent, RunRecord, ResetRequest, TypeOK
  <1>6. TypeOK'
    BY <1>2, <1>3, <1>4, <1>5 DEF TypeOK, poolVars
  <1>7. (OneRunAtATime /\ Channels /\ RunIsCurrent /\ OneReply)'
    BY <1>2, <1>3, <1>4 DEF OneRunAtATime, Channels, RunIsCurrent, OneReply
  <1>8. HeadChain'
    <2>1. Resetting = {r} /\ Resetting' = {}
      BY <1>2, <1>3, <1>4, <1>5 DEF Resetting
    <2> QED
      BY <1>2, <2>1 DEF HeadChain, IsLastHead
  <1>9. Served'
    BY <1>2, <1>3, <1>4 DEF Served, ServedAt, CallState, QueuedServed, EventServed,
                            HasChannel, history, poolVars
  <1> QED
    BY <1>6, <1>7, <1>8, <1>9

\* A run hands events to the scheduler while it holds the lock.
LEMMA RunEventIInv ==
    ASSUME IInv, NEW r \in runs, RunEvent(r)
    PROVE  IInv'
  <1> USE DEF IInv
  <1>1. /\ r.pc = "event" /\ MoveRun(r, [r EXCEPT !.pc = "promote"])
        /\ UNCHANGED <<poolVars, thread, main, closed, shutdown, stop, headVars, history>>
    BY DEF RunEvent
  <1> DEFINE s == [r EXCEPT !.pc = "promote"]
  <1>2. runs = {r} /\ runs' = {s} /\ r \in RunRecord
    BY <1>1, OnlyRun
  <1>3. /\ s \in RunRecord /\ s.pc = "promote" /\ s.done = r.done /\ s.reset = r.reset
        /\ s.dirty = r.dirty /\ s.events = r.events
    BY <1>2 DEF RunRecord
  <1> HIDE DEF s
  <1>4. /\ sched' \in SchedRecord
        /\ sched'.curDone = sched.curDone /\ sched'.nextDone = sched.nextDone
        /\ sched'.reset = sched.reset /\ sched'.dirtyAccounts = sched.dirtyAccounts
        /\ sched.queuedEvents \subseteq sched'.queuedEvents
        /\ sched'.pc = sched.pc \/ (sched.pc = "select" /\ sched'.pc = "top")
    <2>1. CASE sched.pc = "select"
               /\ sched' = [sched EXCEPT !.pc = "top", !.queuedEvents = @ \cup {Reinjected}]
      BY <2>1 DEF TypeOK, SchedRecord, Event
    <2>2. CASE UNCHANGED sched
      BY <2>2 DEF TypeOK
    <2> QED
      BY <2>1, <2>2 DEF RunEvent
  <1>5. TypeOK'
    BY <1>1, <1>2, <1>3, <1>4 DEF TypeOK, poolVars, headVars
  <1>6. (OneRunAtATime /\ Channels /\ RunIsCurrent /\ OneReply)'
    BY <1>1, <1>2, <1>3, <1>4 DEF OneRunAtATime, Channels, RunIsCurrent, OneReply
  <1>7. HeadChain'
    <2>1. Resetting = {} /\ Resetting' = {}
      BY <1>1, <1>2, <1>3 DEF Resetting
    <2> QED
      BY <1>1, <1>4, <2>1 DEF HeadChain, IsLastHead, headVars
  <1>8. Served'
    <2> SUFFICES ASSUME NEW b \in Adder PROVE ServedAt(b)'
      BY DEF Served
    <2>1. ServedAt(b)
      BY DEF Served
    <2> QED
      BY <1>1, <1>2, <1>3, <1>4, <2>1 DEF ServedAt, CallState, QueuedServed, EventServed,
                                          HasChannel, history, poolVars
  <1> QED
    BY <1>5, <1>6, <1>7, <1>8

\* The accounts the run was asked for have been looked at, after a reset all
\* that are queued, and its events go on to the announcement or are stale.
LEMMA RunPromoteIInv ==
    ASSUME IInv, NEW r \in runs, RunPromote(r)
    PROVE  IInv'
  <1> USE DEF IInv
  <1> DEFINE addrs == IF r.reset # None THEN queue ELSE r.dirty
  <1>1. PICK old \in SUBSET r.events, promoted \in SUBSET (addrs \cap queue) :
          \E dropped \in SUBSET ((addrs \cap queue) \ promoted) :
             /\ queue' = queue \ (promoted \cup dropped)
             /\ MoveRun(r, [r EXCEPT !.pc = "announce", !.events = (r.events \ old) \cup promoted])
             /\ checked' = checked \cup addrs
             /\ stale' = stale \cup old
    BY DEF RunPromote
  <1>2. /\ r.pc = "promote" /\ mu' = None
        /\ UNCHANGED <<thread, main, sched, closed, shutdown, stop, headVars, evicted, announced>>
    BY DEF RunPromote
  <1> DEFINE s == [r EXCEPT !.pc = "announce", !.events = (r.events \ old) \cup promoted]
  <1>3. runs = {r} /\ runs' = {s} /\ r \in RunRecord
    BY <1>1, OnlyRun
  <1>4. /\ s \in RunRecord /\ s.pc = "announce" /\ s.done = r.done /\ s.reset = r.reset
        /\ s.dirty = r.dirty /\ s.events = (r.events \ old) \cup promoted
    <2>1. (r.events \ old) \cup promoted \in SUBSET Event
      BY <1>3 DEF TypeOK, RunRecord, Event
    <2> QED
      BY <1>3, <2>1 DEF RunRecord
  <1> HIDE DEF s
  <1>5. /\ queue' \subseteq queue /\ queue \ queue' \subseteq checked' /\ checked \subseteq checked'
        /\ stale' = stale \cup old
        /\ \A b \in r.dirty : b \in queue \cup checked \cup evicted => b \in checked' \cup evicted
    BY <1>1
  <1>6. TypeOK'
    <2>1. mu = "run" /\ \A b \in Adder : thread'[b].pc # "event" /\ mu' # b
      BY <1>2, NoneDistinct DEF TypeOK
    <2> QED
      BY <1>2, <1>3, <1>4, <1>5, <2>1, NoneDistinct DEF TypeOK, headVars
  <1>7. (OneRunAtATime /\ Channels /\ RunIsCurrent /\ OneReply)'
    BY <1>2, <1>3, <1>4 DEF OneRunAtATime, Channels, RunIsCurrent, OneReply
  <1>8. HeadChain'
    <2>1. Resetting = {} /\ Resetting' = {}
      BY <1>2, <1>3, <1>4 DEF Resetting
    <2> QED
      BY <1>2, <2>1 DEF HeadChain, IsLastHead, headVars
  <1>9. Served'
    <2> SUFFICES ASSUME NEW b \in Adder PROVE ServedAt(b)'
      BY DEF Served
    <2>1. CallState(b) /\ QueuedServed(b) /\ (b \notin Private => EventServed(b))
      BY DEF Served, ServedAt
    <2>2. CallState(b)'
      BY <1>2, <2>1 DEF CallState, HasChannel
    <2>3. QueuedServed(b)'
      BY <1>2, <1>3, <1>4, <1>5, <2>1 DEF QueuedServed, HasChannel
    <2>4. b \notin Private => EventServed(b)'
      BY <1>2, <1>3, <1>4, <1>5, <2>1 DEF EventServed, HasChannel
    <2> QED
      BY <2>2, <2>3, <2>4 DEF ServedAt
  <1> QED
    BY <1>6, <1>7, <1>8, <1>9

\* A run announces its events but the private ones.
LEMMA RunAnnounceIInv ==
    ASSUME IInv, NEW r \in runs, RunAnnounce(r)
    PROVE  IInv'
  <1> USE DEF IInv
  <1>1. /\ r.pc = "announce" /\ MoveRun(r, [r EXCEPT !.pc = "close"])
        /\ announced' = announced \cup (r.events \ Private)
        /\ UNCHANGED <<poolVars, thread, main, sched, closed, shutdown, stop, headVars,
                       checked, evicted, stale>>
    BY DEF RunAnnounce
  <1> DEFINE s == [r EXCEPT !.pc = "close"]
  <1>2. runs = {r} /\ runs' = {s} /\ r \in RunRecord
    BY <1>1, OnlyRun
  <1>3. /\ s \in RunRecord /\ s.pc = "close" /\ s.done = r.done /\ s.reset = r.reset
        /\ s.dirty = r.dirty /\ s.events = r.events
    BY <1>2 DEF RunRecord
  <1> HIDE DEF s
  <1>4. TypeOK'
    BY <1>1, <1>2, <1>3 DEF TypeOK, poolVars, headVars
  <1>5. (OneRunAtATime /\ Channels /\ RunIsCurrent /\ OneReply)'
    BY <1>1, <1>2, <1>3 DEF OneRunAtATime, Channels, RunIsCurrent, OneReply
  <1>6. HeadChain'
    <2>1. Resetting = {} /\ Resetting' = {}
      BY <1>1, <1>2, <1>3 DEF Resetting
    <2> QED
      BY <1>1, <2>1 DEF HeadChain, IsLastHead, headVars
  <1>7. Served'
    <2> SUFFICES ASSUME NEW b \in Adder PROVE ServedAt(b)'
      BY DEF Served
    <2>1. ServedAt(b)
      BY DEF Served
    <2> QED
      BY <1>1, <1>2, <1>3, <2>1 DEF ServedAt, CallState, QueuedServed, EventServed,
                                    HasChannel, poolVars
  <1> QED
    BY <1>4, <1>5, <1>6, <1>7

\* A run ends and closes its channel.
LEMMA RunCloseIInv ==
    ASSUME IInv, NEW r \in runs, RunClose(r)
    PROVE  IInv'
  <1> USE DEF IInv
  <1>1. /\ r.pc = "close" /\ closed' = closed \cup {r.done} /\ runs' = runs \ {r}
        /\ UNCHANGED <<poolVars, thread, main, sched, shutdown, stop, headVars, history>>
    BY DEF RunClose
  <1>2. runs = {r} /\ runs' = {} /\ r \in RunRecord
    BY <1>1 DEF OneRunAtATime, TypeOK
  <1>3. r.done \in Nat /\ r.done = sched.nextDone - 1 /\ sched.nextDone \in Nat
    BY <1>2, NoneDistinct DEF RunIsCurrent, Channels, TypeOK, SchedRecord, RunRecord
  <1>4. TypeOK'
    BY <1>1, <1>2, <1>3 DEF TypeOK, poolVars, headVars
  <1>5. (OneRunAtATime /\ Channels /\ RunIsCurrent /\ OneReply)'
    BY <1>1, <1>2, <1>3 DEF OneRunAtATime, Channels, RunIsCurrent, OneReply
  <1>6. HeadChain'
    <2>1. Resetting = {} /\ Resetting' = {}
      BY <1>1, <1>2 DEF Resetting
    <2> QED
      BY <1>1, <2>1 DEF HeadChain, IsLastHead, headVars
  <1>7. Served'
    <2> SUFFICES ASSUME NEW b \in Adder PROVE ServedAt(b)'
      BY DEF Served
    <2>1. ServedAt(b)
      BY DEF Served
    <2> QED
      BY <1>1, <1>2, <2>1 DEF ServedAt, CallState, QueuedServed, EventServed,
                              HasChannel, poolVars, history
  <1> QED
    BY <1>4, <1>5, <1>6, <1>7

-----------------------------------------------------------------------------
\* One lemma per step of a caller, the loop, the scheduler and a run.
LEMMA NextIInv == IInv /\ [Next]_vars => IInv'
  <1> SUFFICES ASSUME IInv, [Next]_vars PROVE IInv'
    OBVIOUS
  <1>1. ASSUME NEW a \in Adder, CallAddTxs(a) \/ addTxs(a) PROVE IInv'
    BY <1>1, CallAddTxsIInv, AddTxsLockedIInv, QueueTxEventIInv, RequestPromoteIInv,
       PromoteShutdownIInv, ReplyPromoteIInv, WaitDoneIInv DEF addTxs
  <1>2. CASE NewHead \/ Tick \/ loop \/ Stop
    BY <1>2, MainStepIInv, RequestResetIInv, ReplyResetIInv DEF loop
  <1>3. CASE scheduleReorgLoop
    BY <1>3, SchedStepIInv DEF scheduleReorgLoop
  <1>4. CASE runReorg
    BY <1>4, RunLockIInv, RunResetIInv, RunEventIInv, RunPromoteIInv, RunAnnounceIInv,
       RunCloseIInv DEF runReorg
  <1>5. CASE UNCHANGED vars
    BY <1>5 DEF vars, poolVars, headVars, history, IInv, TypeOK, OneRunAtATime, Channels,
                RunIsCurrent, OneReply, HeadChain, IsLastHead, Resetting, Served, ServedAt,
                CallState, QueuedServed, EventServed, HasChannel
  <1> QED
    BY <1>1, <1>2, <1>3, <1>4, <1>5 DEF Next

\* The inductive invariant holds throughout.
THEOREM Invariance == Spec => []IInv
  BY InitIInv, NextIInv, PTL DEF Spec

\* Types, and pool.mu is held by the one goroutine between its Lock and its
\* Unlock.
THEOREM TypeCorrect == Spec => []TypeOK
  <1>1. IInv => TypeOK
    BY DEF IInv
  <1> QED
    BY Invariance, <1>1, PTL

\* Background runs never overlap (scheduleReorgLoop, curDone).
THEOREM RunsExclusive == Spec => []OneRunAtATime
  <1>1. IInv => OneRunAtATime
    BY DEF IInv
  <1> QED
    BY Invariance, <1>1, PTL

\* Each reset starts at the block the one before it was to reach (the merging of
\* requests in scheduleReorgLoop, head in loop).
THEOREM ResetsFollowChain == Spec => []ResetsContiguous
  <1>1. IInv => ResetsContiguous
    BY DEF IInv, RunIsCurrent, HeadChain, Resetting, ResetsContiguous
  <1> QED
    BY Invariance, <1>1, PTL

\* A synchronous call returns only after its transaction was looked at and its
\* event announced (requestPromoteExecutables, queueTxEvent).
THEOREM CallsServed == Spec => []ServedBeforeReturn
  <1>1. ASSUME IInv PROVE ServedBeforeReturn
    <2> USE <1>1 DEF IInv
    <2> SUFFICES ASSUME NEW a \in Adder \ Async, thread[a].pc = "returned",
                        thread[a].done \in 1..(sched.nextDone - 1)
                 PROVE  /\ thread[a].outcome = "queued" => a \in checked \cup evicted
                        /\ thread[a].outcome = "replaced" => a \in announced \cup stale \/ shutdown
      BY DEF ServedBeforeReturn
    <2>1. HasChannel(a) /\ a \notin Private
      BY NoneDistinct, ReorgLoopConstants DEF HasChannel, ShutdownCh, TypeOK, SchedRecord
    <2>2. thread[a].done \in closed /\ thread[a].done # sched.nextDone
      BY <2>1 DEF Served, ServedAt, CallState, TypeOK, SchedRecord
    <2>3. \A r \in runs : thread[a].done < r.done
      BY <2>2, NoneDistinct DEF RunIsCurrent, Channels, TypeOK, SchedRecord, RunRecord
    <2>4. QueuedServed(a) /\ EventServed(a)
      BY <2>1 DEF Served, ServedAt
    <2> QED
      BY <2>1, <2>2, <2>3, <2>4 DEF QueuedServed, EventServed, TypeOK, RunRecord, SchedRecord
  <1> QED
    BY Invariance, <1>1, PTL
=============================================================================
