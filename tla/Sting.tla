------------------------------- MODULE Sting -------------------------------
(***************************************************************************)
(* The sting, end to end.  The searcher's run.sh executes its commands one *)
(* after the other (set -e: the first failure ends the run); they talk to  *)
(* a builder that leaks the bundles of one signing address into a shared   *)
(* directory, and through it to a chain that keeps growing, and may        *)
(* reorganise, between any two of their RPC calls.  Contract state is part *)
(* of every block, so that a reorganisation undoes it.                     *)
(*                                                                         *)
(* Every run deploys its own contract and generates its own signing key,   *)
(* so both are named by the number of the run.  Signatures, hashes and     *)
(* Pedersen commitments are ideal: an evidence transaction carries the     *)
(* sting transaction its signature nonce commits to.                       *)
(***************************************************************************)
EXTENDS Integers, Sequences, FiniteSets, SequencesExt

CONSTANTS
    None,          \* "no such file / not deployed / no value"
    Empty,         \* the empty byte string
    Unnamed,       \* the text "ias report", sent instead of a report without SGX
    TargetDelay,   \* target block of the sting bundle = head + TargetDelay (5)
    Window,        \* BLOCKHASH window (256)
    Bounty,        \* BOUNTY_AMT
    GasCosts,      \* gas a collectBounty call may cost, in the unit of Bounty
    SGX,           \* scripts run with SGX=1
    Subverts,      \* SUBV_ADDRESS is the searcher's signing address
    WritesFail,    \* the builder's file writes may fail
    Impatient,     \* RPC and receipt waits may time out
    CrashPoints,   \* bound: values of pc at which the searcher may stop
    MaxRuns,       \* bound: executions of run.sh
    MaxSetup,      \* bound: blocks mined before a run fixes its target
    Slack,         \* bound: blocks mined after the target block
    MaxReorgs,     \* bound: chain reorganisations
    ReorgDepth     \* bound: blocks one reorganisation drops

Run == 1..MaxRuns
Admin == "admin"
Informant == "informant"

H == INSTANCE HoneypotOps WITH Address <- {Admin, Informant}, Enclave <- Run

\* The empty string is no block hash and "not deployed" no contract.
ASSUME StingConstants ==
    /\ TargetDelay \in Nat \ {0} /\ Window \in Nat \ {0}
    /\ MaxRuns \in Nat \ {0} /\ MaxSetup \in Nat /\ Slack \in Nat
    /\ MaxReorgs \in Nat /\ ReorgDepth \in Nat
    /\ Bounty \in Nat \ {0} /\ GasCosts \subseteq Nat /\ GasCosts # {}
    /\ {SGX, Subverts, WritesFail, Impatient} \subseteq BOOLEAN
    /\ Empty \notin Nat /\ None \notin H!Storage

VARIABLES
    \* the chain, as the builder's node sees it
    chain,      \* canonical blocks; the number of a block is its index
    minted,     \* how many blocks were ever made (block hashes are fresh)
    reorgs,     \* reorganisations so far
    mempool,    \* public transactions not in a block
    \* the builder
    req,        \* eth_sendBundle requests in flight
    mevBundles, \* bundles added to the pool
    shared,     \* files of SUBV_DIR, each the raw form of a transaction
    \* the searcher: run.sh, its files and the variables of the current script
    run, pc, start,
    file,       \* the files the scripts leave for each other
    leak,       \* input_data/leak
    loc,        \* variables of the running script
    \* history
    leakLog,    \* what the builder leaked, and at which height
    failed,     \* runs whose sting transaction was not written out
    attested    \* proofs the enclaves ever signed

chainVars == <<chain, minted, reorgs, mempool>>
builderVars == <<req, mevBundles, shared>>
history == <<leakLog, failed, attested>>
vars == <<chainVars, builderVars, run, pc, start, file, leak, loc, history>>

-----------------------------------------------------------------------------
(* Transactions and their execution *)

DeployTx(r) == [kind |-> "deploy", run |-> r]
SubmitTx(r, data) == [kind |-> "submit", run |-> r, data |-> data]
ApproveTx(r) == [kind |-> "approve", run |-> r]
CollectTx(r, proof) == [kind |-> "collect", run |-> r, proof |-> proof]
PofTx(r) == [kind |-> "pof", run |-> r]
StingTx(r, n) == [kind |-> "sting", run |-> r, nonce |-> n]
AdvTx(r, n, victim) == [kind |-> "adv", run |-> r, nonce |-> n, commit |-> victim]

\* Transactions of the stinger account, which must use its next nonce.
Stinger(tx) == tx.kind \in {"sting", "adv"}

\* The head of the chain and the state behind it.
BlockNumber == Len(chain)
State == chain[BlockNumber].state
HashesOf(ch) == [n \in DOMAIN ch |-> ch[n].hash]

\* The effect of one transaction, executed in the block after chain ch, on
\* the contracts and on the stinger's nonce.  Reverted calls change nothing.
Exec(ch, st, tx) ==
    LET c == st.contract[tx.run]
        to(d) == [st EXCEPT !.contract[tx.run] = d]
    IN  CASE tx.kind = "deploy" -> to(H!Constructor(Admin, Bounty))
          [] tx.kind = "submit" /\ c # None /\ H!SubmitEnclaveOk(c, tx.run, tx.data) ->
                to(H!SubmitEnclave(c, tx.run, tx.data))
          [] tx.kind = "approve" /\ c # None /\ H!ApproveEnclaveOk(c, Admin, tx.run) ->
                to(H!ApproveEnclave(c, tx.run))
          [] /\ tx.kind = "collect" /\ c # None
             /\ H!CollectBountyOk(c, tx.run, tx.proof.blob, tx.proof,
                                  Len(ch) + 1, HashesOf(ch)) ->
                to(H!CollectBounty(c))
          [] Stinger(tx) -> [st EXCEPT !.nonce = @ + 1]
          [] OTHER -> st

\* A sequence of transactions can go into a block after state st: those of
\* the stinger use its next nonces, in order.
Executable(st, txs) ==
    LET mine == SelectSeq(txs, Stinger)
    IN  \A i \in DOMAIN mine : mine[i].nonce = st.nonce + i - 1

\* The state after all of them.
ExecAll(ch, st, txs) ==
    LET after[i \in 0..Len(txs)] ==
          IF i = 0 THEN st ELSE Exec(ch, after[i - 1], txs[i])
    IN  after[Len(txs)]

\* The orders in which a block takes transactions from the mempool.
Rank(tx) == CASE tx.kind = "deploy" -> 1 [] tx.kind = "submit" -> 2
              [] tx.kind = "approve" -> 3 [] tx.kind = "collect" -> 4
              [] tx.kind = "pof" -> 5 [] Stinger(tx) -> 6 + tx.nonce
Picks(pool) ==
    {txs \in SetToAllKPermutations(pool) :
        \A i, j \in DOMAIN txs : i < j => Rank(txs[i]) <= Rank(txs[j])}

\* At most one of the bundles the builder holds for the block after chain ch.
Offered(ch) ==
    {<<>>} \cup {b.txs : b \in {m \in mevBundles : m.target = Len(ch) + 1}}

\* The transactions that block may hold: a bundle, then some of the mempool's.
Bodies(ch, pool) == {b \o txs : b \in Offered(ch), txs \in Picks(pool)}

NewBlock(ch, txs) ==
    [hash |-> minted + 1, txs |-> txs, state |-> ExecAll(ch, ch[Len(ch)].state, txs)]

Blocks(ch, pool) ==
    {NewBlock(ch, txs) : txs \in {t \in Bodies(ch, pool) :
                                     Executable(ch[Len(ch)].state, t)}}

BlocksOf(tx) == {n \in 1..BlockNumber : tx \in Range(chain[n].txs)}
Mined(tx) == BlocksOf(tx) # {}

HeightCap == IF loc.target # None THEN loc.target + Slack ELSE start + MaxSetup

\* Somebody's block becomes the new head.
Mine ==
    /\ BlockNumber < HeightCap
    /\ \E b \in Blocks(chain, mempool) :
          /\ chain' = Append(chain, b)
          /\ mempool' = mempool \ Range(b.txs)
    /\ minted' = minted + 1
    /\ UNCHANGED <<reorgs, builderVars, run, pc, start, file, leak, loc, history>>

\* The last d blocks are replaced by a new one; the pool takes back the
\* transactions of the dropped blocks (TxPool.reset reinjects them).
Reorg ==
    /\ reorgs < MaxReorgs
    /\ \E d \in 1..ReorgDepth :
          /\ d < BlockNumber
          /\ LET base == SubSeq(chain, 1, BlockNumber - d)
                 dropped == UNION {Range(chain[n].txs) : n \in (BlockNumber - d + 1)..BlockNumber}
             IN  \E b \in Blocks(base, mempool \cup dropped) :
                    /\ chain' = Append(base, b)
                    /\ mempool' = (mempool \cup dropped) \ Range(b.txs)
    /\ minted' = minted + 1
    /\ reorgs' = reorgs + 1
    /\ UNCHANGED <<builderVars, run, pc, start, file, leak, loc, history>>

-----------------------------------------------------------------------------
(* The builder *)

\* AddMevBundle for one request: subversionService writes the transactions
\* out one by one and stops at the first error; the bundle is added whatever
\* happened.
AddMevBundle(b) ==
    /\ b \in req
    /\ \E k \in 0..Len(b.txs) :
          /\ k < Len(b.txs) => WritesFail \/ ~Subverts
          /\ k > 0 => Subverts
          /\ LET written == {b.txs[i] : i \in 1..k}
                 lost == {tx \in Range(b.txs) \ written : tx.kind = "sting"}
             IN  /\ shared' = shared \cup written
                 /\ leakLog' = leakLog \cup {[tx |-> tx, at |-> BlockNumber] : tx \in written}
                 /\ failed' = failed \cup {tx.run : tx \in lost}
    /\ req' = req \ {b}
    /\ mevBundles' = mevBundles \cup {b}
    /\ UNCHANGED <<chainVars, run, pc, start, file, leak, loc, attested>>

-----------------------------------------------------------------------------
(* The searcher *)

\* One command (or a part of it) of run.sh: on success the script goes on,
\* on an exception or a failed assertion the run ends.
Step(from, to, ok) == pc = from /\ pc' = IF ok THEN to ELSE "aborted"

NoFiles == [key |-> None, report |-> None, contract |-> None, stingNonce |-> None,
            stinger |-> None, stingerTx |-> None, verify |-> None, proof |-> None]
NoLocals == [tx |-> None, bundle |-> None, target |-> None, receipt |-> None,
             victim |-> None]

\* rm -rf /shared/0x*
CleanShared ==
    /\ Step("clean_shared", "gen_signing_key", TRUE)
    /\ shared' = {}
    /\ UNCHANGED <<chainVars, req, mevBundles, run, start, file, leak, loc, history>>

gen_signingKey ==
    /\ Step("gen_signing_key", IF SGX THEN "sgx_quote" ELSE "setup_bounty", TRUE)
    /\ file' = [file EXCEPT !.key = run]
    /\ UNCHANGED <<chainVars, builderVars, run, start, leak, loc, history>>

\* sgx-report, sgx-quote and the request to the attestation service.
SgxQuote ==
    /\ Step("sgx_quote", "setup_bounty", TRUE)
    /\ file' = [file EXCEPT !.report = [sgx_report |-> file.key, ias_sig |-> "genuine"]]
    /\ UNCHANGED <<chainVars, builderVars, run, start, leak, loc, history>>

\* send_tx: the transaction goes to the mempool also when estimateGas raised
\* (an estimate so high that the program exits instead is a Crash here) ...
SendTx(from, to, ok, tx) ==
    /\ Step(from, to, ok)
    /\ mempool' = IF ok THEN mempool \cup {tx} ELSE mempool
    /\ loc' = [loc EXCEPT !.tx = tx]
    /\ UNCHANGED <<chain, minted, reorgs, builderVars, run, start, file, leak, history>>

\* ... and wait_for_transaction_receipt returns once it is mined, its status
\* unread.
WaitReceipt(from, to) ==
    /\ Mined(loc.tx)
    /\ Step(from, to, TRUE)
    /\ UNCHANGED <<chainVars, builderVars, run, start, leak, loc, history>>

setup_bounty_contract ==
    \/ SendTx("setup_bounty", "deploy_wait", TRUE, DeployTx(run))
    \/ WaitReceipt("deploy_wait", "submit_enclave")
       /\ file' = [file EXCEPT !.contract = run]

submit_enclave ==
    \/ LET data == IF SGX THEN file.report
                   ELSE [sgx_report |-> Unnamed, ias_sig |-> "bogus"]
       IN  SendTx("submit_enclave", "submit_wait",
                  SGX => data.sgx_report = file.key,
                  SubmitTx(file.contract, data))
    \/ WaitReceipt("submit_wait", "approve_enclave") /\ UNCHANGED file

\* The administrator reads the stored data, checks it and approves.
approve_enclave ==
    \/ LET c == State.contract[file.contract]
       IN  SendTx("approve_enclave", "approve_wait",
                  /\ c # None
                  /\ SGX => c.enclaveData[file.key] =
                              [sgx_report |-> file.key, ias_sig |-> "genuine"],
                  ApproveTx(file.contract))
    \/ WaitReceipt("approve_wait", "clean_leak") /\ UNCHANGED file

\* rm -rf input_data/leak/*
CleanLeak(from, to) ==
    /\ Step(from, to, TRUE)
    /\ leak' = {}
    /\ UNCHANGED <<chainVars, builderVars, run, start, file, loc, history>>

\* The unsigned sting transaction takes the next nonce of the stinger.
generate_bundle ==
    /\ Step("generate_bundle", "create_stinger", TRUE)
    /\ file' = [file EXCEPT !.stingNonce = State.nonce]
    /\ UNCHANGED <<chainVars, builderVars, run, start, leak, loc, history>>

\* make_bundle_stinger up to the request: order flow first, sting last.
make_bundle_stinger ==
    /\ Step("create_stinger", "stinger_wait", TRUE)
    /\ LET b == [target |-> BlockNumber + TargetDelay,
                 txs |-> <<PofTx(run), StingTx(run, file.stingNonce)>>]
       IN  /\ req' = req \cup {b}
           /\ loc' = [loc EXCEPT !.bundle = b, !.target = b.target]
    /\ UNCHANGED <<chainVars, mevBundles, shared, run, start, file, leak, history>>

\* Mutant: the script does not wait for the builder's answer.
StingerSentNoReply ==
    /\ Step("stinger_wait", "poll", TRUE)
    /\ LET tx == Last(loc.bundle.txs)
       IN  file' = [file EXCEPT !.stingerTx = tx,
                       !.stinger = [target |-> loc.target, tx |-> tx,
                                    bundle |-> loc.bundle.txs]]
    /\ UNCHANGED <<chainVars, builderVars, run, start, leak, loc, history>>

\* Mutant: an existing stinger_data.json is kept.
StingerSentKeepsOld ==
    /\ loc.bundle \in mevBundles
    /\ Step("stinger_wait", "poll", TRUE)
    /\ LET tx == Last(loc.bundle.txs)
       IN  file' = [file EXCEPT !.stingerTx = tx,
                       !.stinger = IF @ # None THEN @
                                   ELSE [target |-> loc.target, tx |-> tx,
                                         bundle |-> loc.bundle.txs]]
    /\ UNCHANGED <<chainVars, builderVars, run, start, leak, loc, history>>

\* The builder answered; the enclave keeps the sting transaction.
StingerSent ==
    /\ loc.bundle \in mevBundles
    /\ Step("stinger_wait", "poll", TRUE)
    /\ LET tx == Last(loc.bundle.txs)
       IN  file' = [file EXCEPT !.stingerTx = tx,
                       !.stinger = [target |-> loc.target, tx |-> tx,
                                    bundle |-> loc.bundle.txs]]
    /\ UNCHANGED <<chainVars, builderVars, run, start, leak, loc, history>>

\* while [ -z "$(ls -A /shared/0x* )" ], then mv to the leak directory.
PollLeak ==
    /\ shared # {}
    /\ Step("poll", "make_evidence", TRUE)
    /\ leak' = leak \cup shared
    /\ shared' = {}
    /\ UNCHANGED <<chainVars, req, mevBundles, run, start, file, loc, history>>

\* Mutant: the sting transaction is taken from the searcher's own bundle.
OpenOwnBundle ==
    /\ Step("make_evidence", "evidence_tx", TRUE)
    /\ loc' = [loc EXCEPT !.victim = file.stinger.tx]
    /\ UNCHANGED <<chainVars, builderVars, run, start, file, leak, history>>

\* make_evidence opens the file named after the sting transaction's hash and
\* commits to the signature it finds there.
OpenLeak ==
    /\ Step("make_evidence", "evidence_tx", file.stinger.tx \in leak)
    /\ loc' = [loc EXCEPT !.victim = file.stinger.tx]
    /\ UNCHANGED <<chainVars, builderVars, run, start, file, leak, history>>

\* generate_tx(nonce_add=1), after waiting for a refill of the account.
EvidenceTx ==
    /\ Step("evidence_tx", "send_evidence", TRUE)
    /\ loc' = [loc EXCEPT !.tx = AdvTx(run, State.nonce + 1, loc.victim)]
    /\ UNCHANGED <<chainVars, builderVars, run, start, file, leak, history>>

\* Mutant: the assertion on the target block is dropped.
SendEvidenceUnchecked ==
    /\ Step("send_evidence", "evidence_wait", TRUE)
    /\ LET b == [target |-> file.stinger.target,
                 txs |-> Append(file.stinger.bundle, loc.tx)]
       IN  /\ req' = req \cup {b}
           /\ loc' = [loc EXCEPT !.bundle = b]
    /\ UNCHANGED <<chainVars, mevBundles, shared, run, start, file, leak, history>>

\* assert block_number < target_block_num, then the bundle is sent again with
\* the evidence transaction appended.
SendEvidence ==
    /\ Step("send_evidence", "evidence_wait", BlockNumber < file.stinger.target)
    /\ LET b == [target |-> file.stinger.target,
                 txs |-> Append(file.stinger.bundle, loc.tx)]
       IN  /\ req' = IF BlockNumber < file.stinger.target THEN req \cup {b} ELSE req
           /\ loc' = [loc EXCEPT !.bundle = b]
    /\ UNCHANGED <<chainVars, mevBundles, shared, run, start, file, leak, history>>

\* Mutant: waits for the evidence to be included.
WaitIncluded ==
    /\ Step("evidence_wait", "victim_receipt", TRUE)
    /\ loc.bundle \in mevBundles
    /\ Mined(loc.tx)
    /\ UNCHANGED <<chainVars, builderVars, run, start, file, leak, loc, history>>

\* FlashbotsBundleResponse.wait: until the target block has been reached.
WaitTarget ==
    /\ Step("evidence_wait", "victim_receipt", TRUE)
    /\ loc.bundle \in mevBundles
    /\ BlockNumber >= file.stinger.target
    /\ UNCHANGED <<chainVars, builderVars, run, start, file, leak, loc, history>>

\* get_transaction_receipt: the block number and index of a mined transaction.
GetReceipt(from, to, tx) ==
    /\ Step(from, to, Mined(tx))
    /\ loc' = [loc EXCEPT !.receipt =
                  IF ~Mined(tx) THEN None
                  ELSE LET n == CHOOSE m \in BlocksOf(tx) : TRUE
                       IN [num |-> n, index |-> CHOOSE i \in DOMAIN chain[n].txs :
                                                   chain[n].txs[i] = tx]]
    /\ UNCHANGED <<chainVars, builderVars, run, start, file, leak, history>>

\* generate_proof_blob(w3, receipt.blockNumber, receipt.transactionIndex) can
\* be made: the block, read again, exists and has a transaction there.
Provable(rcpt) == rcpt.num <= BlockNumber /\ rcpt.index \in DOMAIN chain[rcpt.num].txs
ProofBlob(rcpt) == [header |-> chain[rcpt.num].hash,
                    tx |-> chain[rcpt.num].txs[rcpt.index]]

VictimProof ==
    /\ Step("victim_proof", "adv_receipt", Provable(loc.receipt))
    /\ loc' = [loc EXCEPT !.victim =
                  IF Provable(loc.receipt) THEN ProofBlob(loc.receipt) ELSE None]
    /\ UNCHANGED <<chainVars, builderVars, run, start, file, leak, history>>

\* ... and verify_data.json is written.
AdvProof ==
    /\ Step("adv_proof", "verify_adv", Provable(loc.receipt))
    /\ file' = [file EXCEPT !.verify =
                  IF Provable(loc.receipt)
                  THEN [target |-> file.stinger.target, victim |-> loc.victim,
                        adv |-> ProofBlob(loc.receipt)]
                  ELSE file.verify]
    /\ UNCHANGED <<chainVars, builderVars, run, start, leak, loc, history>>

\* verify_tx_proof: the block hash is read from the chain and compared.
ProofHolds(n, prf) == n <= BlockNumber /\ chain[n].hash = prf.header

VerifyAdv ==
    /\ Step("verify_adv", "verify_victim",
            ProofHolds(file.verify.target, file.verify.adv))
    /\ UNCHANGED <<chainVars, builderVars, run, start, file, leak, loc, history>>

\* The evidence transaction, signed again with the recomputed commitment,
\* must be the proved one, and the victim the sting transaction kept inside.
EvidenceChecks(v) ==
    /\ v.adv.tx.kind = "adv" /\ v.adv.tx.commit = v.victim.tx
    /\ v.victim.tx = file.stingerTx

VerifyVictim ==
    /\ Step("verify_victim", "sign_evidence",
            /\ ProofHolds(file.verify.target, file.verify.victim)
            /\ EvidenceChecks(file.verify))
    /\ UNCHANGED <<chainVars, builderVars, run, start, file, leak, loc, history>>

\* The block is read once more; number and hash are signed and written out.
SignEvidence ==
    LET n == file.verify.target
        proof == [signer |-> file.key, blob |-> [num |-> n, hash |-> chain[n].hash]]
    IN  /\ Step("sign_evidence", "collect_bounty", n <= BlockNumber)
        /\ IF n <= BlockNumber
           THEN /\ file' = [file EXCEPT !.proof = proof]
                /\ attested' = attested \cup {proof}
           ELSE UNCHANGED <<file, attested>>
        /\ UNCHANGED <<chainVars, builderVars, run, start, leak, loc, leakLog, failed>>

\* Mutant: the assertion that the bounty was claimed is dropped.
CollectUnchecked ==
    \/ SendTx("collect_bounty", "collect_wait", TRUE,
              CollectTx(file.contract, file.proof))
    \/ WaitReceipt("collect_wait", "collect_check") /\ UNCHANGED file
    \/ /\ \E gas \in GasCosts : Step("collect_check", "clean_up", Bounty > gas)
       /\ UNCHANGED <<chainVars, builderVars, run, start, file, leak, loc, history>>

\* collect_bounty: send, wait, assert claimed and a positive profit.
collect_bounty ==
    \/ SendTx("collect_bounty", "collect_wait", TRUE,
              CollectTx(file.contract, file.proof))
    \/ WaitReceipt("collect_wait", "collect_check") /\ UNCHANGED file
    \/ /\ \E gas \in GasCosts :
             Step("collect_check", "clean_up",
                  LET c == State.contract[file.contract]
                  IN  c # None /\ c.claimed /\ Bounty > gas)
       /\ UNCHANGED <<chainVars, builderVars, run, start, file, leak, loc, history>>

make_evidence ==
    \/ OpenLeak \/ EvidenceTx \/ SendEvidence \/ WaitTarget
    \/ GetReceipt("victim_receipt", "victim_proof", loc.victim) \/ VictimProof
    \/ GetReceipt("adv_receipt", "adv_proof", loc.tx) \/ AdvProof

verify_evidence == VerifyAdv \/ VerifyVictim \/ SignEvidence

RunSh ==
    \/ CleanShared \/ gen_signingKey \/ SgxQuote
    \/ setup_bounty_contract \/ submit_enclave \/ approve_enclave
    \/ CleanLeak("clean_leak", "generate_bundle")
    \/ generate_bundle \/ make_bundle_stinger \/ StingerSent \/ PollLeak
    \/ make_evidence \/ verify_evidence \/ collect_bounty
    \/ CleanLeak("clean_up", "done")

Ended == {"done", "aborted"}
Waits == {"deploy_wait", "submit_wait", "approve_wait", "stinger_wait",
          "evidence_wait", "collect_wait"}

\* A wait gives up (TimeExhausted, or the HTTP request times out) although
\* what it waited for may still happen.
Timeout ==
    /\ Impatient
    /\ pc \in Waits
    /\ pc = "evidence_wait" => loc.bundle \notin mevBundles
    /\ pc' = "aborted"
    /\ UNCHANGED <<chainVars, builderVars, run, start, file, leak, loc, history>>

\* The container is stopped in the middle of a command, or send_tx exits since
\* the gas estimate is 10000000 or more.
Crash ==
    /\ pc \in CrashPoints
    /\ pc' = "aborted"
    /\ UNCHANGED <<chainVars, builderVars, run, start, file, leak, loc, history>>

\* run.sh is started again; files stay where they were.
Restart ==
    /\ pc \in Ended
    /\ run < MaxRuns
    /\ run' = run + 1
    /\ pc' = "clean_shared"
    /\ start' = BlockNumber
    /\ loc' = NoLocals
    /\ UNCHANGED <<chainVars, builderVars, file, leak, history>>

-----------------------------------------------------------------------------
Genesis == [hash |-> 1, txs |-> <<>>,
            state |-> [contract |-> [r \in Run |-> None], nonce |-> 0]]

Init ==
    /\ chain = <<Genesis>> /\ minted = 1 /\ reorgs = 0 /\ mempool = {}
    /\ req = {} /\ mevBundles = {} /\ shared = {}
    /\ run = 1 /\ pc = "clean_shared" /\ start = 1
    /\ file = NoFiles /\ leak = {} /\ loc = NoLocals
    /\ leakLog = {} /\ failed = {} /\ attested = {}

Builder == \E b \in req : AddMevBundle(b)

Next == Mine \/ Reorg \/ Builder \/ RunSh \/ Timeout \/ Crash \/ Restart

Spec == Init /\ [][Next]_vars

\* The scripts run to their end or their next wait, blocks keep coming, the
\* builder answers its requests and waits do time out.
Fairness == WF_vars(RunSh) /\ WF_vars(Mine) /\ WF_vars(Builder) /\ WF_vars(Timeout)
FairSpec == Spec /\ Fairness

-----------------------------------------------------------------------------
(* Properties *)

Claimed(r) == State.contract[r] # None /\ State.contract[r].claimed

\* Block n shows that the sting transaction of run r was known outside the
\* enclave before the block was made.
Evidence(r, n) ==
    \E s, a \in Range(chain[n].txs) :
        /\ s.kind = "sting" /\ s.run = r
        /\ a.kind = "adv" /\ a.commit = s
        /\ \E l \in leakLog : l.tx = s /\ l.at < n

\* The chain has one block per number and fresh hashes; contracts of runs not
\* started do not exist; files name existing runs.
TypeOK ==
    /\ \A n \in DOMAIN chain :
          /\ chain[n].hash \in 1..minted
          /\ \A r \in Run : chain[n].state.contract[r] \in H!Storage \cup {None}
          /\ chain[n].state.nonce \in Nat
    /\ run \in Run /\ reorgs \in 0..MaxReorgs
    /\ file.key \in Run \cup {None} /\ file.contract \in Run \cup {None}

\* A paid bounty means evidence on the chain: some block holds the sting
\* transaction of the run with an evidence transaction committing to it, and
\* the builder had leaked it before that block (make_evidence to collectBounty).
BountyImpliesEvidence ==
    \A r \in Run : Claimed(r) => \E n \in 1..BlockNumber : Evidence(r, n)

\* Also across reorganisations, a claim stands only on a chain that contains
\* the very block the enclave signed (collectBounty's blockhash check).
ClaimStandsOnItsBlock ==
    \A r \in Run : Claimed(r) =>
        \E p \in attested : /\ p.signer = r
                           /\ p.blob.num \in 1..BlockNumber
                           /\ chain[p.blob.num].hash = p.blob.hash

\* run.sh says "done" only when the contract has paid: neither a reverted
\* collectBounty (receipt status unread, block hash out of the window) nor a
\* lost one gets past collect_bounty's assertions.
DoneMeansPaid == pc = "done" => Claimed(run)

\* Once polling has found leaked files, the sting transaction of this run is
\* among them unless the builder failed to write it: leftovers of earlier runs
\* do not end the wait (rm of the shared files, synchronous eth_sendBundle).
PollFindsOwnSting ==
    pc = "make_evidence" => file.stinger.tx \in leak \/ run \in failed

\* The evidence made in a run commits to the sting transaction of that run,
\* although the files of earlier runs are still there.
EvidenceOfThisRun == pc = "send_evidence" => loc.tx.commit.run = run

\* The evidence bundle can be executed as a whole: its two transactions of the
\* stinger account use consecutive nonces, although they are read from the
\* chain at different times (assert block_number < target_block_num).
EvidenceBundleExecutable ==
    \A b \in req \cup mevBundles : \A tx \in Range(b.txs) :
        tx.kind = "adv" => tx.nonce = tx.commit.nonce + 1

\* The hash the enclave signs is the hash it checked the proofs against
\* (proveth.py: assert block_hash == keccak(rlp.encode(header))).
SignedBlockIsVerified ==
    pc = "collect_bounty" => /\ file.proof.blob.hash = file.verify.adv.header
                             /\ file.proof.blob.hash = file.verify.victim.header

\* Every run ends, unless the builder never wrote the sting out: then run.sh
\* polls for ever.
RunEnds == <>[](\/ pc \in Ended
                \/ pc = "poll" /\ shared = {} /\ run \in failed)

\* How far each run has come, for the abstract specification.
StageOf(r) ==
    LET sent == {tx \in UNION {Range(b.txs) : b \in req \cup mevBundles} :
                    tx.run = r /\ tx.kind = "sting"}
    IN  CASE Claimed(r) -> "paid"
          [] ~Claimed(r) /\ (\E p \in attested : p.signer = r) -> "attested"
          [] OTHER -> IF \E n \in 1..BlockNumber : \E s, a \in Range(chain[n].txs) :
                            s \in sent /\ a.kind = "adv" /\ a.commit = s
                      THEN "committed"
                      ELSE IF \E l \in leakLog : l.tx \in sent THEN "leaked"
                      ELSE IF sent # {} THEN "stung" ELSE "idle"

stages == [r \in Run |-> StageOf(r)]

Abs == INSTANCE StingAbs WITH stage <- stages

\* The scripts, the builder, the chain and the contract together implement the
\* abstract sting: leak before evidence, evidence before attestation,
\* attestation before payment.
ImplementsSting == Abs!Spec
=============================================================================
