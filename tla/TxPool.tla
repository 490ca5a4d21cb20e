------------------------------- MODULE TxPool -------------------------------
(***************************************************************************)
(* The contents of the builder's transaction pool (txpool.go): pending and *)
(* queued transactions, the lookup set, virtual nonces, limits, resets to  *)
(* a new head and private transactions.  ReorgLoop models which goroutine  *)
(* runs when; here every critical section under pool.mu is one step.       *)
(*                                                                         *)
(* A transaction is its sender, nonce, price and gas, and costs its price. *)
(* The lists are sets with at most one transaction per sender and nonce.   *)
(* A state of the chain is the set of transactions it executed.  list,     *)
(* pricedList and noncer live in other files of the Go package, external   *)
(* here; lookup is part of txpool.go.  Every transaction takes one slot.   *)
(***************************************************************************)
EXTENDS Integers, FiniteSets, FiniteSetsExt, SequencesExt

CONSTANTS Envs   \* the surroundings and configurations a pool may run in

VARIABLES pool,       \* pending, queue, all, nonces (pendingNonces), changes
                      \* (changesSinceReorg), private (privateTxs), locals, and
                      \* asLocal: the part of all that was added as local
          state,      \* currentState: the chain and the balances it gives, and
                      \* maxGas (currentMaxGas): the gas limit of its head
          gasPrice,
          head,       \* head of the loop: what the next reset starts from
          dirty,      \* accounts whose promotion was requested
          events,     \* private transactions waiting to be announced
          announced,  \* private transactions sent to subscribers
          public,     \* history: private transactions submitted openly as well,
                      \* mined, or kept private for their whole lifetime
          overtaken,  \* history: private transactions whose nonce a block used
          partly,     \* history: accounts that got back only some of the
                      \* transactions a reset took out of the chain
          env         \* one of Envs, the same for the whole behaviour

vars == <<pool, state, gasPrice, head, dirty, events, announced, public, overtaken, partly, env>>

Tx == env.tx                \* transactions that exist
PrivateTx == env.private    \* those that AddPrivateRemote may submit
Heads == env.heads          \* chains: sets of transactions, gapless per sender
Balances == env.balances    \* balances the state may give an account
GasLimits == env.gasLimits  \* gas limits a block may have
Prices == env.prices        \* minimum prices SetGasPrice may set
Addr == {t.from : t \in Tx}

\* pool.config, with its default limits scaled down.
Locals == env.config.Locals
NoLocals == env.config.NoLocals      \* AddLocals treats its transactions as remote
GlobalSlots == env.config.GlobalSlots
GlobalQueue == env.config.GlobalQueue
AccountSlots == env.config.AccountSlots
AccountQueue == env.config.AccountQueue

Of(S, a) == {t \in S : t.from = a}
At(S, t) == {u \in S : u.from = t.from /\ u.nonce = t.nonce}
GetNonce(c, a) == Cardinality(Of(c, a))

ASSUME TxPoolAssumption ==
    \A e \in Envs :
        /\ e.tx \subseteq [from : {t.from : t \in e.tx}, nonce : Nat,
                         price : Nat \ {0}, gas : Nat]
        /\ e.private \subseteq e.tx
        /\ e.config.Locals \subseteq {t.from : t \in e.tx} /\ e.config.NoLocals \in BOOLEAN
        /\ IsFiniteSet(e.tx) /\ {} \in e.heads
        /\ \A c \in e.heads :
              /\ c \subseteq e.tx
              /\ \A a \in {t.from : t \in e.tx} :
                    {t.nonce : t \in Of(c, a)} = 0 .. GetNonce(c, a) - 1
        /\ {e.config.GlobalSlots, e.config.GlobalQueue,
            e.config.AccountSlots, e.config.AccountQueue} \subseteq Nat \ {0}
        /\ e.balances \subseteq Nat /\ e.prices \subseteq Nat /\ e.prices # {}
        /\ e.gasLimits \subseteq Nat

-----------------------------------------------------------------------------
(***************************************************************************)
(* Lists.  A transaction replaces one of its nonce only for a higher       *)
(* price; Ready returns the run of nonces that starts at the first one, if *)
(* that is not above start.                                                *)
(***************************************************************************)
Inserts(S, t) == \A u \in At(S, t) : u.price < t.price
Put(S, t) == (S \ At(S, t)) \cup {t}
Lowest(S) == Min({t.nonce : t \in S})
Highest(S) == Max({t.nonce : t \in S})
Ready(S, start) ==
    IF S = {} \/ Lowest(S) > start THEN {}
    ELSE {t \in S : \A n \in Lowest(S) .. t.nonce : \E u \in S : u.nonce = n}
Cap(S, n) == {t \in S : Cardinality({u \in S : u.nonce < t.nonce}) >= n}
TotalCost(S) == MapThenSumSet(LAMBDA t : t.price, S)

\* What Filter(balance, currentMaxGas) takes out of a list.
Filter(t, s) == t.price > s.balance[t.from] \/ t.gas > s.maxGas

(***************************************************************************)
(* The loops of the pool over transactions, no two of which have a sender  *)
(* and a nonce in common, and over accounts are single set expressions:    *)
(* their rounds do not affect each other.                                  *)
(***************************************************************************)
EnqueueKeepsOld(P, S, addAll) ==   \* mutant: the replaced ones stay known
    LET in == {t \in S : Inserts(P.queue, t)}
        old == {u \in P.queue : At(in, u) # {}}
    IN  [P EXCEPT !.queue = (@ \ old) \cup in, !.all = @ \cup (IF addAll THEN in ELSE {})]
enqueueTx(P, S, addAll) ==
    LET in == {t \in S : Inserts(P.queue, t)}
        old == {u \in P.queue : At(in, u) # {}}
    IN  [P EXCEPT !.queue = (@ \ old) \cup in,
                  !.all = (@ \ old) \cup (IF addAll THEN in ELSE {})]

promoteTx(P, S) ==
    LET in == {t \in S : Inserts(P.pending, t)}
        old == {u \in P.pending : At(in, u) # {}}
    IN  [P EXCEPT !.pending = (@ \ old) \cup in, !.all = (@ \ old) \ (S \ in),
                  !.nonces = [a \in Addr |-> IF Of(in, a) = {} THEN @[a] ELSE Highest(Of(in, a)) + 1]]

\* removeTx of all of S: by nonce from pending, with the later ones moved back
\* to the queue, or else from the queue.  The order does not matter: what was
\* moved back is then removed from the queue.
RemoveKeepsNonce(P, S) ==          \* mutant: the virtual nonces stay
    LET known == S \cap P.all
        hit == {t \in known : At(P.pending, t) # {}}
        cut == {u \in P.pending : \E t \in Of(hit, u.from) : t.nonce <= u.nonce}
    IN  enqueueTx([P EXCEPT !.all = @ \ known, !.pending = @ \ cut,
                            !.queue = {u \in @ : At(known \ hit, u) = {}}],
                  {u \in cut : At(known, u) = {}}, FALSE)
removeTx(P, S) ==
    LET known == S \cap P.all
        hit == {t \in known : At(P.pending, t) # {}}
        cut == {u \in P.pending : \E t \in Of(hit, u.from) : t.nonce <= u.nonce}
    IN  enqueueTx([P EXCEPT !.all = @ \ known, !.pending = @ \ cut,
                            !.queue = {u \in @ : At(known \ hit, u) = {}},
                            !.nonces = [a \in Addr |-> Min({@[a]} \cup {t.nonce : t \in Of(hit, a)})]],
                  {u \in cut : At(known, u) = {}}, FALSE)

-----------------------------------------------------------------------------
\* validateTx: gas, price, nonce, balance and the overdraft of what is pending.
validateTx(P, t, isLocal, s, price) ==
    LET before == Of(P.pending, t.from) \ At(P.pending, t)
    IN  /\ t.gas <= s.maxGas
        /\ isLocal \/ t.price >= price
        /\ t.nonce >= GetNonce(s.chain, t.from)
        /\ s.balance[t.from] >= t.price
        /\ s.balance[t.from] >= t.price + TotalCost(before)

isFuture(P, t) ==
    IF Of(P.pending, t.from) = {} THEN P.nonces[t.from] # t.nonce
    ELSE At(P.pending, t) = {} /\ ~\E u \in Of(P.pending, t.from) : u.nonce = t.nonce - 1

Known(P) == [P EXCEPT !.asLocal = @ \cap P.all]
RemotesAll(P) == P.all     \* mutant: local ones are in the price heaps too
Remotes(P) == P.all \ P.asLocal
Underpriced(P, t) == Remotes(P) # {} /\ \A u \in Remotes(P) : u.price >= t.price

\* What Discard may drop: its two heaps only approximate the cheapest ones.
Discards(P, isLocal) ==
    LET needed == Cardinality(P.all) - (GlobalSlots + GlobalQueue) + 1
    IN  IF needed <= Cardinality(Remotes(P)) THEN kSubset(needed, Remotes(P))
        ELSE IF isLocal THEN {Remotes(P)} ELSE {}

ChurnsAnything(P, t, isLocal, drop) == TRUE     \* mutant: the special case is left out
MayChurn(P, t, isLocal, drop) ==
    isLocal \/ ~isFuture(P, t) \/ \A u \in drop : At(P.pending, u) = {}

DropAll(P, drop) ==
    LET Q == removeTx(P, drop)
    IN  [Q EXCEPT !.changes = @ + Cardinality(P.pending \ Q.pending)]

\* The pools in which there is room for t; none when it is turned away.
Full(P) == Cardinality(P.all) + 1 > GlobalSlots + GlobalQueue

RoomFor(P, t, isLocal) ==
    IF ~Full(P) THEN {P}
    ELSE IF \/ ~isLocal /\ Underpriced(P, t)
            \/ P.changes > GlobalSlots \div 4
         THEN {}
         ELSE {DropAll(P, drop) : drop \in {d \in Discards(P, isLocal) : MayChurn(P, t, isLocal, d)}}

Turned(P, t, isLocal) ==
    \/ RoomFor(P, t, isLocal) = {}
    \/ Full(P) /\ \E d \in Discards(P, isLocal) : ~MayChurn(P, t, isLocal, d)

(***************************************************************************)
(* add: the outcomes, each a pool, the accounts made dirty and the events. *)
(* Transactions that were dropped for one that is then refused stay away.  *)
(***************************************************************************)
Outcome(P, d, e) == [pool |-> P, dirty |-> d, events |-> e]
Replace(P, t) == [P EXCEPT !.pending = Put(@, t), !.all = (@ \ At(P.pending, t)) \cup {t}]
MarkTx(P, t, isLocal) == [P EXCEPT !.asLocal = IF isLocal THEN @ \cup {t} ELSE @ \ {t}]
MarkAccount(P, a) == [P EXCEPT !.locals = @ \cup {a}, !.asLocal = @ \cup Of(P.all, a)]

Insert(P, t, local, isLocal) ==
    LET Q == MarkTx(enqueueTx(P, {t}, TRUE), t, isLocal)
    IN  IF ~Inserts(IF At(P.pending, t) # {} THEN P.pending ELSE P.queue, t)
        THEN Outcome(P, {}, {})
        ELSE IF At(P.pending, t) # {}
        THEN Outcome(MarkTx(Replace(P, t), t, isLocal), {}, {t})
        ELSE Outcome(IF local THEN MarkAccount(Q, t.from) ELSE Q,
                     IF At(P.queue, t) = {} THEN {t.from} ELSE {}, {})

add(P, t, local, s, price) ==
    LET isLocal == local \/ t.from \in P.locals
    IN  IF t \in P.all \/ ~validateTx(P, t, isLocal, s, price) THEN {Outcome(P, {}, {})}
        ELSE {Insert(Q, t, local, isLocal) : Q \in RoomFor(P, t, isLocal)}
               \cup (IF Turned(P, t, isLocal) THEN {Outcome(P, {}, {})} ELSE {})

\* addTxsLocked over the transactions in the order of seq.
addTxsLocked(P, seq, local, s, price) ==
    LET outs[n \in 0 .. Len(seq)] ==
            IF n = 0 THEN {Outcome(P, {}, {})}
            ELSE UNION {{Outcome(o.pool, d.dirty \cup o.dirty, d.events \cup o.events)
                           : o \in add(d.pool, seq[n], local, s, price)} : d \in outs[n - 1]}
    IN  outs[Len(seq)]
-----------------------------------------------------------------------------
(***************************************************************************)
(* The parts of runReorg.                                                  *)
(***************************************************************************)
promoteExecutables(P, accounts, s) ==
    LET list == {t \in P.queue : t.from \in accounts}
        gone == {t \in list : t.nonce < GetNonce(s.chain, t.from) \/ Filter(t, s)}
        ready == UNION {Ready(Of(list \ gone, a), P.nonces[a]) : a \in accounts}
        Q == promoteTx([P EXCEPT !.queue = (@ \ gone) \ ready, !.all = @ \ gone], ready)
        caps == UNION {Cap(Of(Q.queue, a), AccountQueue) : a \in accounts \ P.locals}
    IN  [Q EXCEPT !.queue = @ \ caps, !.all = @ \ caps]

demoteUnexecutables(P, s) ==
    LET olds == {t \in P.pending : t.nonce < GetNonce(s.chain, t.from)}
        drops == {t \in P.pending \ olds : Filter(t, s)}
        left == {t \in P.pending \ olds : \A d \in Of(drops, t.from) : t.nonce < d.nonce}
        kept == {t \in left : \E u \in Of(left, t.from) : u.nonce = GetNonce(s.chain, t.from)}
    IN  enqueueTx([P EXCEPT !.pending = kept, !.all = (@ \ olds) \ drops, !.private = @ \ olds],
                  ((P.pending \ olds) \ drops) \ kept, FALSE)

setAll(P, s) ==
    [P EXCEPT !.nonces = [a \in Addr |->
        IF Of(P.pending, a) = {} THEN GetNonce(s.chain, a) ELSE Highest(Of(P.pending, a)) + 1]]

\* The rounds of truncatePending drop the last transactions of all accounts that
\* have the most, one each, until the limit holds or AccountSlots are left: they
\* lower a common level.
truncatePending(P) ==
    LET spammers == {a \in Addr \ P.locals : Cardinality(Of(P.pending, a)) > AccountSlots}
        Above(level) == UNION {Cap(Of(P.pending, a), level) : a \in spammers}
        fits == {n \in AccountSlots .. Cardinality(P.pending) :
                   Cardinality(P.pending) - Cardinality(Above(n)) <= GlobalSlots}
        caps == Above(Max({AccountSlots} \cup fits))
    IN  [P EXCEPT !.pending = @ \ caps, !.all = @ \ caps,
                  !.nonces = [a \in Addr |-> Min({@[a]} \cup {t.nonce : t \in Of(caps, a)})]]

\* truncateQueue over the remote accounts in the order of their heartbeats: each
\* loses as many of its last transactions as are left to drop.
truncateQueue(P, order) ==
    LET Rest(i) == P.queue \ {t \in P.queue : \E j \in 1 .. i - 1 : t.from = order[j]}
        Drop(i) == Cardinality(Rest(i)) - GlobalQueue
        Dropped(i) == IF Drop(i) <= 0 THEN {}
                      ELSE LET list == Of(P.queue, order[i])
                           IN  Cap(list, Cardinality(list) - Drop(i))
    IN  removeTx(P, UNION {Dropped(i) : i \in DOMAIN order})

Orders(P) == SetToSeqs(Addr \ P.locals)

\* The end of a run that serves the requests in D and the events in E, some of
\* those now waiting, as later ones came after its launch: the limits, the
\* counter, and the announcement of what subscribers are told, without what is
\* private.  Reinjection may have queued events in the meantime.
NoTruncation(P, D, E, told, queued) ==   \* mutant: pending is not limited
    /\ \E order \in Orders(P) : pool' = [Known(truncateQueue(P, order)) EXCEPT !.changes = 0]
    /\ announced' = announced \cup ((told \cap PrivateTx) \ P.private)
    /\ events' = (events \ E) \cup (queued \cap PrivateTx) /\ dirty' = dirty \ D
AnnounceAll(P, D, E, told, queued) ==    \* mutant: no filter
    /\ \E order \in Orders(P) :
         pool' = [Known(truncateQueue(truncatePending(P), order)) EXCEPT !.changes = 0]
    /\ announced' = announced \cup (told \cap PrivateTx)
    /\ events' = (events \ E) \cup (queued \cap PrivateTx) /\ dirty' = dirty \ D
FinishRun(P, D, E, told, queued) ==
    /\ \E order \in Orders(P) :
         pool' = [Known(truncateQueue(truncatePending(P), order)) EXCEPT !.changes = 0]
    /\ announced' = announced \cup ((told \cap PrivateTx) \ P.private)
    /\ events' = (events \ E) \cup (queued \cap PrivateTx) /\ dirty' = dirty \ D
-----------------------------------------------------------------------------
TypeOK ==
    /\ \A S \in {pool.pending, pool.queue} :
          S \subseteq Tx /\ \A t \in S : At(S, t) = {t}
    /\ pool.all \cup pool.asLocal \subseteq Tx /\ pool.locals \subseteq Addr
    /\ pool.private \subseteq PrivateTx
    /\ pool.nonces \in [Addr -> Nat] /\ pool.changes \in Nat
    /\ state.chain \in Heads /\ state.balance \in [Addr -> Balances]
    /\ state.maxGas \in GasLimits /\ head \in Heads
    /\ gasPrice \in Prices /\ dirty \subseteq Addr /\ partly \subseteq Addr
    /\ env \in Envs /\ announced \subseteq PrivateTx /\ public \cup overtaken \subseteq PrivateTx

Init ==
    /\ env \in Envs
    /\ pool = [pending |-> {}, queue |-> {}, all |-> {}, nonces |-> [a \in Addr |-> 0],
               changes |-> 0, private |-> {}, locals |-> Locals, asLocal |-> {}]
    /\ state \in [chain : {{}}, balance : [Addr -> Balances], maxGas : GasLimits]
    /\ gasPrice = Min(Prices) /\ head = {}
    /\ dirty = {} /\ events = {} /\ announced = {}
    /\ public = {} /\ overtaken = {} /\ partly = {}

\* addTxs with one transaction, by AddLocal, AddRemote or AddPrivateRemote;
\* what is private is noted before it is added.
AddTxs(t, local, private) ==
    /\ LET P == IF private THEN [pool EXCEPT !.private = @ \cup {t}] ELSE pool
       IN  \E o \in addTxsLocked(P, <<t>>, local, state, gasPrice) :
             /\ pool' = Known(o.pool) /\ dirty' = dirty \cup o.dirty
             /\ events' = events \cup (o.events \cap PrivateTx)
    /\ public' = IF private THEN public ELSE public \cup ({t} \cap PrivateTx)
    /\ UNCHANGED <<state, gasPrice, head, announced, overtaken, partly, env>>
AddLocal == \E t \in Tx \ pool.all : AddTxs(t, ~NoLocals, FALSE)
AddRemote == \E t \in Tx \ pool.all : AddTxs(t, FALSE, FALSE)
AddPrivateRemote == \E t \in PrivateTx \ pool.all : AddTxs(t, FALSE, TRUE)

\* runReorg without a reset: dirty accounts only.  Every addTxs asks for a run,
\* whether or not its transaction was accepted.
RunPromote ==
    /\ \E D \in SUBSET dirty, E \in SUBSET events :
         LET P == promoteExecutables(pool, D, state)
         IN  FinishRun(P, D, E, E \cup (P.pending \ pool.pending), {})
    /\ UNCHANGED <<state, gasPrice, head, public, overtaken, partly, env>>

\* runReorg after a reset, from the pool P; stale events are not announced.
AfterReset(P, s, queued) ==
    LET Q == promoteExecutables(P, {t.from : t \in P.queue}, s)
        R == setAll(demoteUnexecutables(Q, s), s)
        Fresh(E) == {t \in E : t.nonce >= P.nonces[t.from]}
    IN  \E D \in SUBSET dirty, E \in SUBSET events :
          FinishRun(R, D, E, Fresh(E) \cup (Q.pending \ P.pending), queued)

NewHead(new) ==
    /\ head' = new /\ public' = public \cup (new \cap PrivateTx)
    /\ overtaken' = overtaken \cup {t \in PrivateTx : t.nonce < GetNonce(new, t.from)}

\* reset to a new head, which may be a block without transactions.  Those that
\* only the old branch has are injected again, unless the branches are more than
\* 64 blocks apart or setHead removed the old head.
PartlyBack(P, new) ==
    {a \in Addr : LET out == GetNonce(new, a) .. GetNonce(state.chain, a) - 1
                      back == {t.nonce : t \in Of(P.all, a)} \cap out
                  IN  back \notin {{}, out}}
Reinjected(new) == {{}, head \ new}

RunReset ==
    \E new \in Heads, balance \in [Addr -> Balances], maxGas \in GasLimits :
        /\ LET s == [chain |-> new, balance |-> balance, maxGas |-> maxGas]
               P == [pool EXCEPT !.nonces = [a \in Addr |-> GetNonce(new, a)]]
           IN  /\ \E back \in Reinjected(new) : \E seq \in SetToSeqs(back) :
                    \E o \in addTxsLocked(P, seq, FALSE, s, gasPrice) :
                      /\ AfterReset(o.pool, s, o.events)
                      /\ partly' = partly \cup PartlyBack(o.pool, new)
               /\ state' = s
        /\ NewHead(new)
        /\ UNCHANGED <<gasPrice, env>>

\* reset returns early when the old head is missing, a branch is unrooted or the
\* new head has no state: nonces and state stay, the rest of the run goes on.
RunResetFails ==
    \E new \in Heads :
        /\ AfterReset(pool, state, {})
        /\ NewHead(new)
        /\ UNCHANGED <<state, gasPrice, partly, env>>

\* The eviction tick of loop: queues of remote accounts without a recent beat.
Evict ==
    \E a \in {t.from : t \in pool.queue} \ pool.locals :
        /\ pool' = Known(removeTx(pool, Of(pool.queue, a)))
        /\ UNCHANGED <<state, gasPrice, head, dirty, events, announced, public, overtaken, partly, env>>

SetGasPrice ==
    \E price \in Prices \ {gasPrice} :
        /\ gasPrice' = price
        /\ pool' = Known(removeTx(pool, {t \in Remotes(pool) : t.price < price /\ price > gasPrice}))
        /\ UNCHANGED <<state, head, dirty, events, announced, public, overtaken, partly, env>>

\* prune of privateTxs, a hash at a time.
Prune ==
    \E t \in pool.private :
        /\ pool' = [pool EXCEPT !.private = @ \ {t}] /\ public' = public \cup {t}
        /\ UNCHANGED <<state, gasPrice, head, dirty, events, announced, overtaken, partly, env>>

Next == AddLocal \/ AddRemote \/ AddPrivateRemote \/ RunPromote \/ RunReset \/ RunResetFails \/ Evict \/ SetGasPrice \/ Prune

Spec == Init /\ [][Next]_vars
-----------------------------------------------------------------------------
(***************************************************************************)
(* The lookup set is exact and a nonce is never both pending and queued,   *)
(* through replacement, promotion, demotion, eviction and reinjection: a   *)
(* transaction that is in the set but in no list would block its own       *)
(* resubmission as already known for ever.                                 *)
(***************************************************************************)
LookupExact ==
    /\ pool.all = pool.pending \cup pool.queue
    /\ \A t \in pool.pending : At(pool.queue, t) = {}

(***************************************************************************)
(* txpool.go:275: pending are "All currently processable transactions".    *)
(* For every account the pending nonces continue the state's without a gap *)
(* and Nonce() is the next one.  Resets to any branch keep it so, although *)
(* reset forgets the virtual nonces before the lists are repaired.         *)
(***************************************************************************)
Processable(a) ==
    /\ {t.nonce : t \in Of(pool.pending, a)} = GetNonce(state.chain, a) .. pool.nonces[a] - 1
    /\ pool.nonces[a] >= GetNonce(state.chain, a)

(***************************************************************************)
(* The only way to lose it: a reset whose reinjection readmits some of an  *)
(* account's discarded transactions and refuses others.  Even then the     *)
(* first pending transaction is one the state accepts.                     *)
(***************************************************************************)
PendingExecutable ==
    \A a \in Addr :
        /\ a \notin partly => Processable(a)
        /\ Of(pool.pending, a) # {} => Lowest(Of(pool.pending, a)) = GetNonce(state.chain, a)

(***************************************************************************)
(* txpool.go:970: a future transaction never churns pending ones: adding   *)
(* one to a full pool leaves every pending transaction in place.           *)
(***************************************************************************)
FutureKeepsPending ==
    [][\A t \in (pool.all' \ pool.all) \cap pool.queue' :
          head' = head /\ isFuture(pool, t) /\ t \notin pool'.asLocal
              => pool.pending \subseteq pool.pending']_vars

(***************************************************************************)
(* Every run leaves the pool within its limits: pending transactions above *)
(* GlobalSlots remain only where each remote account is within             *)
(* AccountSlots, queued ones above GlobalQueue only if local.              *)
(***************************************************************************)
RunsRestoreLimits ==
    [][dirty \ dirty' # {} \/ head' # head
          => /\ \/ Cardinality(pool.pending') <= GlobalSlots
                \/ \A a \in Addr \ pool'.locals : Cardinality(Of(pool.pending', a)) <= AccountSlots
             /\ \/ Cardinality(pool.queue') <= GlobalQueue
                \/ \A t \in pool.queue' : t.from \in pool'.locals]_vars

(***************************************************************************)
(* The comment of add: an account on the local list keeps any transaction  *)
(* "from being dropped out of the pool due to pricing constraints".  It    *)
(* leaves only for one of its nonce, when mined, when no longer payable or *)
(* when the head's gas limit has fallen below what it asks for.            *)
(***************************************************************************)
LocalsNotDropped ==
    [][\A t \in pool.all \ pool.all' : t.from \in pool.locals
          => \/ At(pool.all', t) # {}
             \/ t.nonce < GetNonce(state'.chain, t.from)
             \/ t.price > state'.balance[t.from] \/ t.gas > state'.maxGas]_vars

(***************************************************************************)
(* txpool.go:1166, 1222: private transactions do not get "leaked to the    *)
(* public mempool".  None is announced unless it was submitted openly too, *)
(* was mined or has expired.                                               *)
(***************************************************************************)
PrivateNotAnnounced == announced \subseteq public

(***************************************************************************)
(* What holds of it: subscribers may be told of a private transaction only *)
(* once a block has used its nonce, through replacements, promotions,      *)
(* demotions, failing resets and events that wait for a later run.         *)
(***************************************************************************)
PrivateUntilOvertaken == announced \subseteq public \cup overtaken
=============================================================================
