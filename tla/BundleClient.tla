---------------------------- MODULE BundleClient ----------------------------
(***************************************************************************)
(* One client that builds a bundle, sends it and waits for its receipts:   *)
(* get_web3, generate_signed_txs and send_bundle of utils.py over the      *)
(* Flashbots module of flashbots.py.  Every read of the chain is a step of *)
(* its own, so blocks arrive between any two of them.                      *)
(*                                                                         *)
(* A transaction is its sender and its nonce.  An account may have one     *)
(* transaction in flight that the client did not send in this run, with    *)
(* nonce zero; every account starts with transaction count zero.           *)
(***************************************************************************)
EXTENDS Integers, Sequences, FiniteSets, SequencesExt

CONSTANTS Accounts, Senders,  \* Senders: the sequence of keys in POF_KEYS
          Num,       \* transactions generate_signed_txs is asked for
          Tails,     \* items appended to the generated ones
          Ahead,     \* blocks between the head and the target (5)
          MinBlock,  \* the block get_web3 waits for (26)
          MaxBlock   \* bound on the chain

None == -1

\* What a caller may append: a transaction with its signer, whose nonce is not
\* set, or one copied from the pending block.
TailItems == [form : {"signer"}, from : Accounts, nonce : {None}]
             \cup [form : {"dict"}, from : Accounts, nonce : {0}]

ASSUME BundleClientAssumption ==
    /\ Senders \in Seq(Accounts) /\ Senders # <<>> /\ IsInjective(Senders)
    /\ Tails \subseteq Seq(TailItems)
    /\ {Num, Ahead, MinBlock, MaxBlock} \subseteq Nat

VARIABLES height, count, flight,   \* the chain: head, transaction counts, senders
                                   \* with a transaction in flight
          up,          \* the builder's RPC endpoint answers
          pc, i,       \* the client and its loop index
          items,       \* the bundle: records with a form, a sender and a nonce
          nonces,      \* the dictionary of sign_bundle; -1 is an absent key
          signed,      \* signed_transactions
          target,      \* target_block_number
          simulated,   \* block number simulate read first, 0 before that
          late,        \* the bundle arrived when its target was no longer ahead
          mined,       \* the bundle was included
          declined,    \* the builder left out the bundle although it executes
          disturbed    \* accounts whose transaction in flight landed meanwhile

chainVars == <<height, count, flight, up, mined, declined, disturbed>>
vars == <<chainVars, pc, i, items, nonces, signed, target, simulated, late>>

SendersOf(s) == {s[j].from : j \in DOMAIN s}
Earlier(s, j) == Cardinality({l \in 1 .. j-1 : s[l].from = s[j].from})
Executable(s, c) == \A j \in DOMAIN s : s[j].nonce = c[s[j].from] + Earlier(s, j)

TypeOK ==
    /\ height \in 0 .. MaxBlock /\ target \in 0 .. MaxBlock
    /\ count \in [Accounts -> Nat] /\ flight \subseteq Accounts /\ disturbed \subseteq Accounts
    /\ nonces \in [Accounts -> Nat \cup {None}] /\ i \in Nat /\ simulated \in Nat
    /\ items \in Seq([form : {"raw", "signer", "dict"}, from : Accounts, nonce : Nat \cup {None}])
    /\ signed \in Seq([from : Accounts, nonce : Nat])
    /\ up \in BOOLEAN /\ late \in BOOLEAN /\ mined \in BOOLEAN /\ declined \in BOOLEAN
    /\ pc \in {"connect", "start", "generate", "ready", "simulate", "sign", "submit", "wait",
               "receipts", "done", "noreceipt", "simfailed", "estimatefailed", "noconnection"}
    /\ (pc = "generate" => i <= Num) /\ Len(signed) <= Len(items)

Init ==
    /\ height = 0 /\ count = [a \in Accounts |-> 0] /\ flight \in SUBSET Accounts /\ up \in BOOLEAN
    /\ pc = "connect" /\ i = 0 /\ items = <<>> /\ nonces = [a \in Accounts |-> None]
    /\ signed = <<>> /\ target = 0 /\ simulated = 0
    /\ late = FALSE /\ mined = FALSE /\ declined = FALSE /\ disturbed = {}
-----------------------------------------------------------------------------
\* A block is mined.  Transactions in flight land, unless their nonce is used,
\* and the builder takes or leaves a bundle that targets the block and executes.
NewBlock ==
    /\ height < MaxBlock /\ height' = height + 1
    /\ \E S \in SUBSET {a \in flight : count[a] = 0}, takes \in BOOLEAN :
         LET landed == [a \in Accounts |-> count[a] + (IF a \in S THEN 1 ELSE 0)]
             could == pc \in {"wait", "receipts"} /\ target = height' /\ Executable(signed, landed)
             includes == could /\ takes
         IN  /\ flight' = flight \ S
             /\ disturbed' = disturbed \cup (IF pc \in {"connect", "start"} THEN {} ELSE S)
             /\ mined' = (mined \/ includes)
             /\ declined' = (declined \/ (could /\ ~takes))
             /\ count' = IF includes
                         THEN [a \in Accounts |-> landed[a] +
                                 Cardinality({j \in DOMAIN signed : signed[j].from = a})]
                         ELSE landed
    /\ UNCHANGED <<up, pc, i, items, nonces, signed, target, simulated, late>>

BuilderStarts == ~up /\ up' = TRUE
    /\ UNCHANGED <<height, count, flight, mined, declined, disturbed, pc, i, items, nonces, signed,
                   target, simulated, late>>
-----------------------------------------------------------------------------
\* get_web3: the loop around the connection re-raises what it catches.
Connect ==
    /\ pc = "connect"
    /\ pc' = IF up THEN "start" ELSE "noconnection"
    /\ UNCHANGED <<chainVars, i, items, nonces, signed, target, simulated, late>>

Start ==
    /\ pc = "start" /\ height >= MinBlock /\ pc' = "generate"
    /\ UNCHANGED <<chainVars, i, items, nonces, signed, target, simulated, late>>

\* One iteration of generate_signed_txs: the senders take turns and nonce_add
\* counts the rounds.  make_bundle wraps the raw transactions.  The waits of
\* refill_ether are blocks that arrive before the iteration reads the count.
Generated(n) ==
    LET sender == Senders[(n % Len(Senders)) + 1]
    IN  [form |-> "raw", from |-> sender, nonce |-> count[sender] + (n \div Len(Senders))]

GenerateTx ==
    /\ pc = "generate" /\ i < Num
    /\ items' = Append(items, Generated(i)) /\ i' = i + 1
    /\ UNCHANGED <<chainVars, pc, nonces, signed, target, simulated, late>>

\* The caller appends what else it bundles: unsigned transactions with their
\* signer, or transactions copied from the pending block.
AppendItems ==
    /\ pc = "generate" /\ i = Num
    /\ \E t \in Tails :
         /\ \A j \in DOMAIN t : t[j].form = "dict" => t[j].from \in flight
         /\ items' = items \o t
    /\ pc' = "ready" /\ i' = 0
    /\ UNCHANGED <<chainVars, nonces, signed, target, simulated, late>>

\* simulate of the latest block: the head is read for the block number, and
\* read again for the timestamp.
Simulate ==
    /\ pc = "ready" /\ simulated = 0 /\ height > 0
    /\ simulated' = height /\ pc' = "simulate"
    /\ UNCHANGED <<chainVars, i, items, nonces, signed, target, late>>

extrapolate_timestamp(n, latest) == n - latest >= 0 \* else it raises

Extrapolate ==
    /\ pc = "simulate"
    /\ pc' = IF extrapolate_timestamp(simulated, height) THEN "sign" ELSE "simfailed"
    /\ UNCHANGED <<chainVars, i, items, nonces, signed, target, simulated, late>>

\* send_bundle of utils.py reads the head for the target first.
ReadTarget ==
    /\ pc = "ready" /\ height + Ahead <= MaxBlock
    /\ target' = height + Ahead /\ pc' = "sign"
    /\ UNCHANGED <<chainVars, i, items, nonces, signed, simulated, late>>

\* One iteration of sign_bundle.  get returns its default only for an absent
\* key.  The nonce is written into the caller's dictionary, so a bundle that
\* was simulated is sent with the nonces of the simulation.  A transaction
\* copied from a block leaves nonces alone.
NonceFromChainOnly(item) ==    \* mutant: transactions before it are not counted
    IF item.nonce # None THEN item.nonce ELSE count[item.from]
NonceFor(item) ==
    IF item.nonce # None THEN item.nonce
    ELSE IF nonces[item.from] # None THEN nonces[item.from] ELSE count[item.from]

sign_bundle ==
    /\ pc = "sign" /\ i < Len(items) /\ i' = i + 1
    /\ LET item == items[i + 1]
       IN  /\ signed' = Append(signed, [from |-> item.from, nonce |-> NonceFor(item)])
           /\ items' = [items EXCEPT ![i + 1].nonce = NonceFor(item)]
           /\ nonces' = IF item.form = "dict" THEN nonces
                        ELSE [nonces EXCEPT ![item.from] = NonceFor(item) + 1]
    /\ UNCHANGED <<chainVars, pc, target, simulated, late>>

\* estimateGas raises for a transaction with its signer that has no gas of its
\* own and would fail; the client ends there.
EstimateGasFails ==
    /\ pc = "sign" /\ i < Len(items) /\ items[i + 1].form = "signer" /\ pc' = "estimatefailed"
    /\ UNCHANGED <<chainVars, i, items, nonces, signed, target, simulated, late>>

\* The simulation ends; nonces and signed_transactions were local to it.
CallBundle ==
    /\ pc = "sign" /\ i = Len(items) /\ target = 0
    /\ pc' = "ready" /\ i' = 0 /\ signed' = <<>> /\ nonces' = [x \in Accounts |-> None]
    /\ UNCHANGED <<chainVars, items, target, simulated, late>>

\* The signed bundle goes out as a request, through the middleware.
MakeRequest ==
    /\ pc = "sign" /\ i = Len(items) /\ target # 0 /\ pc' = "submit"
    /\ UNCHANGED <<chainVars, i, items, nonces, signed, target, simulated, late>>

\* The request reaches the builder.
Submit ==
    /\ pc = "submit" /\ pc' = "wait" /\ late' = (height >= target)
    /\ UNCHANGED <<chainVars, i, items, nonces, signed, target, simulated>>

TargetHit == height = target           \* mutant: misses a block that has passed
TargetReached == height >= target

Wait ==
    /\ pc = "wait" /\ TargetReached /\ pc' = "receipts"
    /\ UNCHANGED <<chainVars, i, items, nonces, signed, target, simulated, late>>

\* get_transaction_receipt raises for a transaction that is in no block.
Receipts ==
    /\ pc = "receipts" /\ pc' = IF mined THEN "done" ELSE "noreceipt"
    /\ UNCHANGED <<chainVars, i, items, nonces, signed, target, simulated, late>>

Client == Connect \/ Start \/ GenerateTx \/ AppendItems \/ Simulate \/ Extrapolate \/ ReadTarget
          \/ sign_bundle \/ EstimateGasFails \/ CallBundle \/ MakeRequest \/ Submit \/ Wait \/ Receipts

Next == Client \/ NewBlock \/ BuilderStarts

Spec == Init /\ [][Next]_vars /\ WF_vars(Client) /\ WF_vars(NewBlock)
-----------------------------------------------------------------------------
\* A transaction copied from a block next to another one of its sender:
\* sign_bundle does not count it, so two of them get the same nonce.
CopiedSharesSender ==
    \E j, l \in DOMAIN items :
        j # l /\ items[j].form = "dict" /\ items[l].from = items[j].from

Undisturbed == disturbed \cap SendersOf(items) = {}

(***************************************************************************)
(* The counts read one by one and the nonces passed along inside a bundle  *)
(* fit together, and waiting for the target is long enough, however many   *)
(* blocks arrive between the reads: receipts raises only when a sender's   *)
(* transaction in flight landed, when the request was so slow that the     *)
(* target had passed, for a copied transaction next to another one of the  *)
(* same sender, or when the builder left out a bundle that executes.       *)
(***************************************************************************)
ReceiptsMissingOnlyIf ==
    pc = "noreceipt" => ~Undisturbed \/ late \/ CopiedSharesSender \/ declined

\* A bundle that was sent settles: the wait for its target ends, also when the
\* head skips past the target between two polls.
BundleSettles == pc = "wait" ~> pc \in {"done", "noreceipt"}
=============================================================================
