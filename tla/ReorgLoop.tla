----------------------------- MODULE ReorgLoop -----------------------------
(***************************************************************************)
(* The goroutines of the builder's transaction pool and the channels       *)
(* between them (txpool.go: loop, addTxs, requestReset,                    *)
(* requestPromoteExecutables, queueTxEvent, scheduleReorgLoop, runReorg,   *)
(* Stop).  Callers of addTxs and the main loop ask the scheduler for       *)
(* background runs; the scheduler merges what is asked for while a run is  *)
(* active, starts the next run when the last one has ended, and hands out  *)
(* the channel that run will close.  Runs, callers and the main loop       *)
(* compete for pool.mu, and some of them talk to the scheduler while they  *)
(* hold it.                                                                *)
(*                                                                         *)
(* What the pool holds is abstracted to the set of accounts with a queued  *)
(* transaction; each caller adds one transaction of its own account.  A    *)
(* done channel is the number of the run it was made for.                  *)
(***************************************************************************)
EXTENDS Naturals, Sequences, FiniteSets

CONSTANTS
    None,
    Adder,      \* callers of addTxs; also their accounts and transactions
    Async,      \* the callers that do not wait (AddRemotes, AddPrivateRemote)
    Private,    \* the callers of AddPrivateRemote
    HeadChan,   \* capacity of chainHeadCh (10)
    MaxHead,    \* bound: blocks of the chain
    MaxTicks,   \* bound: maintenance ticks of the main loop
    MaxEvents   \* bound: calls, blocks and ticks together

ASSUME ReorgLoopConstants ==
    /\ None \notin Adder \cup Nat \cup {"run"} \cup [oldHead : Nat, newHead : Nat]
    /\ "run" \notin Adder
    /\ Async \subseteq Adder /\ Private \subseteq Async
    /\ HeadChan \in Nat /\ MaxHead \in Nat /\ MaxTicks \in Nat /\ MaxEvents \in Nat

VARIABLES
    mu,           \* holder of pool.mu: None, a caller or "run"
    queue,        \* accounts with transactions in pool.queue
    thread,       \* the callers of addTxs
    main,         \* the goroutine of loop
    sched,        \* the goroutine of scheduleReorgLoop and its variables
    runs,         \* the goroutines of runReorg
    closed,       \* done channels that are closed
    shutdown,     \* reorgShutdownCh is closed
    stop,         \* progress of Stop
    chainHead,    \* number of the newest block of the chain
    chainHeadCh,  \* buffered head events
    lastReset,    \* block the last reset was asked to go to
    stateHead,    \* block whose state the pool holds (currentState)
    \* history
    checked,      \* accounts promoteExecutables looked at since their call
    evicted,      \* accounts whose queue was evicted
    stale,        \* transactions whose event was discarded by a reset
    announced     \* transactions sent on txFeed

poolVars == <<mu, queue>>
headVars == <<chainHead, chainHeadCh, lastReset, stateHead>>
history == <<checked, evicted, stale, announced>>
vars == <<poolVars, thread, main, sched, runs, closed, shutdown, stop, headVars, history>>

\* Event of a transaction that a reset put back into the pool.
Reinjected == "reinjected"

\* The channel a caller gets when the pool is shut down: reorgShutdownCh.
ShutdownCh == 0

Init ==
    /\ mu = None /\ queue = {}
    /\ thread = [a \in Adder |-> [pc |-> "idle", outcome |-> "none", done |-> None]]
    /\ main = [pc |-> "select", head |-> 0, ev |-> 0, ticks |-> 0]
    /\ sched = [pc |-> "top", curDone |-> None, nextDone |-> 1,
                launchNextRun |-> FALSE, reset |-> None,
                dirtyAccounts |-> {}, queuedEvents |-> {}]
    /\ runs = {} /\ closed = {} /\ shutdown = FALSE /\ stop = "running"
    /\ chainHead = 0 /\ chainHeadCh = <<>> /\ lastReset = 0 /\ stateHead = 0
    /\ checked = {} /\ evicted = {} /\ stale = {} /\ announced = {}

Called == {a \in Adder : thread[a].pc # "idle"}
MoreEvents == Cardinality(Called) + chainHead + main.ticks < MaxEvents

-----------------------------------------------------------------------------
(* addTxs *)

Goto(a, pc) == thread' = [thread EXCEPT ![a].pc = pc]

\* The call; a transaction that is known or has no valid sender is refused
\* before the lock is taken.
CallAddTxs(a) ==
    /\ thread[a].pc = "idle" /\ MoreEvents
    /\ Goto(a, "lock") \/ Goto(a, "returned")
    /\ UNCHANGED <<poolVars, main, sched, runs, closed, shutdown, stop, headVars, history>>

\* addTxsLocked: the transaction goes into the queue, or replaces a pending one,
\* whose event is queued before the lock is released, or leaves the account
\* clean (it is refused, or swapped for one that was already queued).
AddTxsLocked(a) ==
    /\ thread[a].pc = "lock"
    /\ mu = None
    /\ \E o \in {"clean", "queued", "replaced"} :
          /\ thread' = [thread EXCEPT ![a].outcome = o,
                           ![a].pc = IF o = "replaced" THEN "event" ELSE "request"]
          /\ mu' = IF o = "replaced" THEN a ELSE None
          /\ queue' = IF o = "queued" THEN queue \cup {a} ELSE queue
    /\ UNCHANGED <<main, sched, runs, closed, shutdown, stop, headVars, history>>

\* Mutant: queueTxEvent does not watch reorgShutdownCh.
QueueTxEventNoShutdown(a) ==
    /\ thread[a].pc = "event"
    /\ sched.pc = "select"
    /\ sched' = [sched EXCEPT !.pc = "top", !.queuedEvents = @ \cup {a}]
    /\ Goto(a, "request")
    /\ mu' = None
    /\ UNCHANGED <<queue, main, runs, closed, shutdown, stop, headVars, history>>

\* queueTxEvent: the scheduler takes the event, or the pool is shut down.
QueueTxEvent(a) ==
    /\ thread[a].pc = "event"
    /\ \/ /\ sched.pc = "select"
          /\ sched' = [sched EXCEPT !.pc = "top", !.queuedEvents = @ \cup {a}]
       \/ shutdown /\ UNCHANGED sched
    /\ Goto(a, "request")
    /\ mu' = None
    /\ UNCHANGED <<queue, main, runs, closed, shutdown, stop, headVars, history>>

\* The accounts a call made dirty.
Dirty(a) == IF thread[a].outcome = "queued" THEN {a} ELSE {}

\* requestPromoteExecutables, accepted by the scheduler ...
RequestPromote(a) ==
    /\ thread[a].pc = "request"
    /\ sched.pc = "select"
    /\ sched' = [sched EXCEPT !.pc = "reply", !.launchNextRun = TRUE,
                              !.dirtyAccounts = @ \cup Dirty(a)]
    /\ Goto(a, "reply")
    /\ UNCHANGED <<poolVars, main, runs, closed, shutdown, stop, headVars, history>>

\* ... or answered with reorgShutdownCh.
PromoteShutdown(a) ==
    /\ thread[a].pc = "request"
    /\ shutdown
    /\ thread' = [thread EXCEPT ![a].pc = IF a \in Async THEN "returned" ELSE "wait",
                                ![a].done = ShutdownCh]
    /\ UNCHANGED <<poolVars, main, sched, runs, closed, shutdown, stop, headVars, history>>

\* Mutant: a caller is given the channel of the active run.
ReplyPromoteCurrent(a) ==
    /\ thread[a].pc = "reply"
    /\ sched.pc = "reply"
    /\ thread' = [thread EXCEPT ![a].pc = IF a \in Async THEN "returned" ELSE "wait",
                                ![a].done = IF sched.curDone # None THEN sched.curDone
                                            ELSE sched.nextDone]
    /\ sched' = [sched EXCEPT !.pc = "top"]
    /\ UNCHANGED <<poolVars, main, runs, closed, shutdown, stop, headVars, history>>

\* reorgDoneCh <- nextDone meets a caller's receive.
ReplyPromote(a) ==
    /\ thread[a].pc = "reply"
    /\ sched.pc = "reply"
    /\ thread' = [thread EXCEPT ![a].pc = IF a \in Async THEN "returned" ELSE "wait",
                                ![a].done = sched.nextDone]
    /\ sched' = [sched EXCEPT !.pc = "top"]
    /\ UNCHANGED <<poolVars, main, runs, closed, shutdown, stop, headVars, history>>

\* <-done of a synchronous call.
WaitDone(a) ==
    /\ thread[a].pc = "wait"
    /\ thread[a].done = ShutdownCh \/ thread[a].done \in closed
    /\ Goto(a, "returned")
    /\ UNCHANGED <<poolVars, main, sched, runs, closed, shutdown, stop, headVars, history>>

-----------------------------------------------------------------------------
(* loop and Stop *)

\* A block is added to the chain and its event is delivered.
NewHead ==
    /\ stop = "running"
    /\ chainHead < MaxHead /\ MoreEvents
    /\ Len(chainHeadCh) < HeadChan
    /\ chainHead' = chainHead + 1
    /\ chainHeadCh' = Append(chainHeadCh, chainHead + 1)
    /\ UNCHANGED <<poolVars, thread, main, sched, runs, closed, shutdown, stop, lastReset,
                   stateHead, history>>

\* ev := <-chainHeadCh, and requestReset(head, ev.Block.Header()) begins.
HeadEvent ==
    /\ main.pc = "select"
    /\ chainHeadCh # <<>>
    /\ main' = [main EXCEPT !.pc = "request", !.ev = Head(chainHeadCh)]
    /\ chainHeadCh' = Tail(chainHeadCh)
    /\ UNCHANGED <<poolVars, thread, sched, runs, closed, shutdown, stop, chainHead, lastReset,
                   stateHead, history>>

\* Mutant: a pending reset is replaced instead of extended.
RequestResetReplaces ==
    /\ main.pc = "request"
    /\ sched.pc = "select"
    /\ sched' = [sched EXCEPT !.pc = "reply", !.launchNextRun = TRUE,
                              !.reset = [oldHead |-> main.head, newHead |-> main.ev]]
    /\ main' = [main EXCEPT !.pc = "reply"]
    /\ UNCHANGED <<poolVars, thread, runs, closed, shutdown, stop, headVars, history>>

\* Mutant: a reset does not schedule a run.
RequestResetNoLaunch ==
    /\ main.pc = "request"
    /\ sched.pc = "select"
    /\ sched' = [sched EXCEPT !.pc = "reply",
           !.reset = IF @ = None THEN [oldHead |-> main.head, newHead |-> main.ev]
                     ELSE [@ EXCEPT !.newHead = main.ev]]
    /\ main' = [main EXCEPT !.pc = "reply"]
    /\ UNCHANGED <<poolVars, thread, runs, closed, shutdown, stop, headVars, history>>

\* The scheduler takes the request and merges it with a pending one.  Only
\* this goroutine closes reorgShutdownCh, so it never finds it closed here.
RequestReset ==
    /\ main.pc = "request"
    /\ sched.pc = "select"
    /\ sched' = [sched EXCEPT !.pc = "reply", !.launchNextRun = TRUE,
           !.reset = IF @ = None THEN [oldHead |-> main.head, newHead |-> main.ev]
                     ELSE [@ EXCEPT !.newHead = main.ev]]
    /\ main' = [main EXCEPT !.pc = "reply"]
    /\ UNCHANGED <<poolVars, thread, runs, closed, shutdown, stop, headVars, history>>

\* The returned channel is ignored; head = ev.Block.Header().
ReplyReset ==
    /\ main.pc = "reply"
    /\ sched.pc = "reply"
    /\ main' = [main EXCEPT !.pc = "select", !.head = main.ev]
    /\ sched' = [sched EXCEPT !.pc = "top"]
    /\ UNCHANGED <<poolVars, thread, runs, closed, shutdown, stop, headVars, history>>

\* A statistics, eviction or journal tick fires; each takes pool.mu.
Tick ==
    /\ main.pc = "select"
    /\ main.ticks < MaxTicks /\ MoreEvents
    /\ main' = [main EXCEPT !.pc = "tick", !.ticks = @ + 1]
    /\ UNCHANGED <<poolVars, thread, sched, runs, closed, shutdown, stop, headVars, history>>

\* The eviction tick removes the queues of some accounts.
TickLocked ==
    /\ main.pc = "tick"
    /\ mu = None
    /\ \E S \in SUBSET queue : queue' = queue \ S /\ evicted' = evicted \cup S
    /\ main' = [main EXCEPT !.pc = "select"]
    /\ UNCHANGED <<mu, thread, sched, runs, closed, shutdown, stop, headVars,
                   checked, stale, announced>>

\* Stop unsubscribes from the chain and waits for the two loops.
Stop ==
    \/ /\ stop = "running"
       /\ stop' = "waiting"
       /\ UNCHANGED <<poolVars, thread, main, sched, runs, closed, shutdown, headVars, history>>
    \/ /\ stop = "waiting"
       /\ main.pc = "ended" /\ sched.pc = "ended"
       /\ stop' = "stopped"
       /\ UNCHANGED <<poolVars, thread, main, sched, runs, closed, shutdown, headVars, history>>

\* The main loop sees the end of its subscription.
LoopShutdown ==
    /\ main.pc = "select"
    /\ stop = "waiting"
    /\ shutdown' = TRUE
    /\ main' = [main EXCEPT !.pc = "ended"]
    /\ UNCHANGED <<poolVars, thread, sched, runs, closed, stop, headVars, history>>

-----------------------------------------------------------------------------
(* scheduleReorgLoop *)

\* go runReorg(nextDone, reset, dirtyAccounts, queuedEvents), and a new round.
Launched ==
    /\ runs' = runs \cup {[pc |-> "lock", done |-> sched.nextDone,
                           reset |-> sched.reset, dirty |-> sched.dirtyAccounts,
                           events |-> sched.queuedEvents]}
    /\ sched' = [sched EXCEPT !.pc = "select", !.curDone = sched.nextDone,
                    !.nextDone = @ + 1, !.launchNextRun = FALSE, !.reset = None,
                    !.dirtyAccounts = {}, !.queuedEvents = {}]

\* Mutant: the next run does not wait for the current one.
LaunchRunEager ==
    /\ sched.pc = "top"
    /\ IF sched.launchNextRun THEN Launched
       ELSE sched' = [sched EXCEPT !.pc = "select"] /\ UNCHANGED runs
    /\ UNCHANGED <<poolVars, thread, main, closed, shutdown, stop, headVars, history>>

\* The top of the loop, before the select.
LaunchRun ==
    /\ sched.pc = "top"
    /\ IF sched.curDone = None /\ sched.launchNextRun THEN Launched
       ELSE sched' = [sched EXCEPT !.pc = "select"] /\ UNCHANGED runs
    /\ UNCHANGED <<poolVars, thread, main, closed, shutdown, stop, headVars, history>>

\* case <-curDone
RunDone ==
    /\ sched.pc = "select"
    /\ sched.curDone \in closed
    /\ sched' = [sched EXCEPT !.pc = "top", !.curDone = None]
    /\ UNCHANGED <<poolVars, thread, main, runs, closed, shutdown, stop, headVars, history>>

\* case <-reorgShutdownCh
SchedShutdown ==
    /\ sched.pc = "select"
    /\ shutdown
    /\ sched' = [sched EXCEPT !.pc = "drain"]
    /\ UNCHANGED <<poolVars, thread, main, runs, closed, shutdown, stop, headVars, history>>

\* Mutant: the channel of the run that will not come is left open.
DrainLeavesOpen ==
    /\ sched.pc = "drain"
    /\ sched.curDone = None \/ sched.curDone \in closed
    /\ sched' = [sched EXCEPT !.pc = "ended"]
    /\ UNCHANGED <<poolVars, thread, main, runs, closed, shutdown, stop, headVars, history>>

\* The current run is awaited, nextDone is closed and the goroutine ends.
Drain ==
    /\ sched.pc = "drain"
    /\ sched.curDone = None \/ sched.curDone \in closed
    /\ closed' = closed \cup {sched.nextDone}
    /\ sched' = [sched EXCEPT !.pc = "ended"]
    /\ UNCHANGED <<poolVars, thread, main, runs, shutdown, stop, headVars, history>>

-----------------------------------------------------------------------------
(* runReorg *)

MoveRun(r, s) == runs' = (runs \ {r}) \cup {s}

\* pool.mu.Lock(), and what to do under it.
RunLock(r) ==
    /\ r.pc = "lock"
    /\ mu = None
    /\ mu' = "run"
    /\ MoveRun(r, [r EXCEPT !.pc = IF r.reset # None THEN "reset" ELSE "promote"])
    /\ UNCHANGED <<queue, thread, main, sched, closed, shutdown, stop, headVars, history>>

\* pool.reset: it takes the state of the new head, and a reinjected transaction
\* may replace a pending one, whose event must be queued while the run holds the
\* lock; or it returns early (a missing or unrooted block, no state for the new
\* head) with the state as it was.  The run goes on either way.
RunReset(r) ==
    /\ r.pc = "reset"
    /\ lastReset' = r.reset.newHead
    /\ \/ /\ stateHead' = r.reset.newHead
          /\ \E pc \in {"event", "promote"} : MoveRun(r, [r EXCEPT !.pc = pc])
       \/ /\ MoveRun(r, [r EXCEPT !.pc = "promote"])
          /\ UNCHANGED stateHead
    /\ UNCHANGED <<poolVars, thread, main, sched, closed, shutdown, stop,
                   chainHead, chainHeadCh, history>>

\* queueTxEvent, called from inside reset.
RunEvent(r) ==
    /\ r.pc = "event"
    /\ \/ /\ sched.pc = "select"
          /\ sched' = [sched EXCEPT !.pc = "top", !.queuedEvents = @ \cup {Reinjected}]
       \/ shutdown /\ UNCHANGED sched
    /\ MoveRun(r, [r EXCEPT !.pc = "promote"])
    /\ UNCHANGED <<poolVars, thread, main, closed, shutdown, stop, headVars, history>>

\* Stale events are discarded, promoteExecutables looks at the dirty accounts
\* or, after a reset, at all queued ones, and the lock is released.  Of the
\* accounts looked at some are promoted, some dropped, the others stay queued.
RunPromote(r) ==
    /\ r.pc = "promote"
    /\ \E old \in SUBSET r.events :
          /\ r.reset = None => old = {}
          /\ LET addrs == IF r.reset # None THEN queue ELSE r.dirty
             IN  \E promoted \in SUBSET (addrs \cap queue) :
                 \E dropped \in SUBSET ((addrs \cap queue) \ promoted) :
                    /\ queue' = queue \ (promoted \cup dropped)
                    /\ MoveRun(r, [r EXCEPT !.pc = "announce",
                                     !.events = (r.events \ old) \cup promoted])
                    /\ checked' = checked \cup addrs
          /\ stale' = stale \cup old
    /\ mu' = None
    /\ UNCHANGED <<thread, main, sched, closed, shutdown, stop, headVars, evicted, announced>>

\* txFeed.Send of everything that is not private.
RunAnnounce(r) ==
    /\ r.pc = "announce"
    /\ announced' = announced \cup (r.events \ Private)
    /\ MoveRun(r, [r EXCEPT !.pc = "close"])
    /\ UNCHANGED <<poolVars, thread, main, sched, closed, shutdown, stop, headVars,
                   checked, evicted, stale>>

\* defer close(done)
RunClose(r) ==
    /\ r.pc = "close"
    /\ closed' = closed \cup {r.done}
    /\ runs' = runs \ {r}
    /\ UNCHANGED <<poolVars, thread, main, sched, shutdown, stop, headVars, history>>

-----------------------------------------------------------------------------
addTxs(a) ==
    \/ AddTxsLocked(a) \/ QueueTxEvent(a) \/ RequestPromote(a)
    \/ PromoteShutdown(a) \/ ReplyPromote(a) \/ WaitDone(a)

loop == HeadEvent \/ RequestReset \/ ReplyReset \/ TickLocked \/ LoopShutdown

scheduleReorgLoop == LaunchRun \/ RunDone \/ SchedShutdown \/ Drain

runReorg == \E r \in runs : \/ RunLock(r) \/ RunReset(r) \/ RunEvent(r)
                            \/ RunPromote(r) \/ RunAnnounce(r) \/ RunClose(r)

Next ==
    \/ \E a \in Adder : CallAddTxs(a) \/ addTxs(a)
    \/ NewHead \/ Tick \/ loop \/ Stop
    \/ scheduleReorgLoop \/ runReorg

Spec == Init /\ [][Next]_vars

\* Goroutines run.  Nothing forces calls, blocks, ticks or Stop to happen.
Fairness ==
    /\ \A a \in Adder : WF_vars(addTxs(a))
    /\ WF_vars(loop) /\ WF_vars(runReorg)
    /\ WF_vars(scheduleReorgLoop)
    /\ WF_vars(stop = "waiting" /\ Stop)

FairSpec == Spec /\ Fairness

-----------------------------------------------------------------------------
(* Properties *)

ResetRequest == [oldHead : Nat, newHead : Nat]
Event == Adder \cup {Reinjected}
ThreadRecord == [pc : {"idle", "lock", "event", "request", "reply", "wait", "returned"},
                 outcome : {"none", "clean", "queued", "replaced"},
                 done : Nat \cup {None}]
MainRecord == [pc : {"select", "request", "reply", "tick", "ended"},
               head : Nat, ev : Nat, ticks : Nat]
SchedRecord == [pc : {"top", "select", "reply", "drain", "ended"},
                curDone : Nat \cup {None}, nextDone : Nat, launchNextRun : BOOLEAN,
                reset : ResetRequest \cup {None}, dirtyAccounts : SUBSET Adder,
                queuedEvents : SUBSET Event]
RunRecord == [pc : {"lock", "reset", "event", "promote", "announce", "close"},
              done : Nat, reset : ResetRequest \cup {None},
              dirty : SUBSET Adder, events : SUBSET Event]

\* Types of the goroutines' variables; pool.mu is held by the goroutine that is
\* between its Lock and its Unlock.
TypeOK ==
    /\ mu \in Adder \cup {None, "run"}
    /\ queue \subseteq Adder
    /\ thread \in [Adder -> ThreadRecord]
    /\ main \in MainRecord
    /\ sched \in SchedRecord
    /\ runs \subseteq RunRecord
    /\ closed \subseteq Nat
    /\ shutdown \in BOOLEAN /\ stop \in {"running", "waiting", "stopped"}
    /\ chainHead \in Nat /\ chainHeadCh \in Seq(Nat)
    /\ lastReset \in Nat /\ stateHead \in Nat
    /\ \A a \in Adder : thread[a].pc = "event" <=> mu = a
    /\ (\E r \in runs : r.pc \in {"reset", "event", "promote"}) <=> mu = "run"

\* Background runs never overlap, not even in their announcements after the
\* lock is released (scheduleReorgLoop starts a run only with curDone nil).
OneRunAtATime == \A r, s \in runs : r = s

\* The resets that are asked for follow the chain without a gap: each run resets
\* from the block the previous one was to reach, although requests are merged
\* while a run is active.  (That block, not the one of the pool's state: after a
\* reset that returned early, head of loop has moved on all the same.)
ResetsContiguous == \A r \in runs : r.pc = "reset" => r.reset.oldHead = lastReset

\* A synchronous addTxs returns only after its own transaction was looked at
\* and its event announced: the channel it waits for belongs to a run started
\* after its request, not to the one that happened to be active.  (Channels
\* closed by the shutdown belong to no run, and a shutdown may swallow events
\* while it still lets one more run start.)
ServedBeforeReturn ==
    \A a \in Adder \ Async :
        /\ thread[a].pc = "returned"
        /\ thread[a].done \in 1..(sched.nextDone - 1)
        => /\ thread[a].outcome = "queued" => a \in checked \cup evicted
           /\ thread[a].outcome = "replaced" => a \in announced \cup stale \/ shutdown

\* Every call of addTxs returns, also when the pool is stopped meanwhile.
CallsReturn == \A a \in Adder : thread[a].pc = "lock" ~> thread[a].pc = "returned"

\* Stop returns: a caller or a run that talks to the scheduler while it holds
\* pool.mu, a scheduler that waits for the run and a main loop that waits for
\* pool.mu never wait for each other in a circle.
StopEnds == stop = "waiting" ~> stop = "stopped"

\* The last reset returned early: the pool's state is not that of its new head.
ResetFailed == stateHead # lastReset

\* Every block of the chain is served: the pool's state reaches it or a later
\* one, or the reset that was to take it there returned early, which nothing
\* repeats before another block arrives, or the pool is stopped.
HeadsServed ==
    \A h \in 1..MaxHead :
        chainHead >= h ~> \/ stateHead >= h
                          \/ lastReset >= h /\ ResetFailed
                          \/ stop # "running"
=============================================================================
