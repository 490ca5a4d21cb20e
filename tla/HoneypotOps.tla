---------------------------- MODULE HoneypotOps ----------------------------
(***************************************************************************)
(* The bounty contract (chain/solidity/Honeypot.sol) as data: its storage  *)
(* is a record and each external function is a guard (its requires) and    *)
(* the storage it leaves behind.  A call whose guard is false reverts and  *)
(* changes nothing.  Honeypot.tla runs the contract against arbitrary      *)
(* callers; Sting.tla runs it inside the blocks of a chain.                *)
(***************************************************************************)
EXTENDS Integers

CONSTANTS
    Address,   \* externally owned accounts
    Enclave,   \* addresses of enclave signing keys
    Empty,     \* the empty byte string
    Unnamed,   \* any other report that names no enclave ("ias report")
    Window     \* number of past blocks whose hash BLOCKHASH returns (256)

\* BLOCKHASH reaches at least the parent block; no address or enclave key is
\* the empty string.
ASSUME ConstantsOK ==
    /\ Window \in Nat \ {0}
    /\ Empty \notin Enclave \cup Address \cup {Unnamed}
    /\ Unnamed \notin Enclave
    /\ Empty \notin {"genuine", "bogus"}

\* An IAS signature either verifies over the report it came with or does not.
IasSig == {"genuine", "bogus", Empty}

\* What an SGX report says (the enclave address in its report data) and the
\* signature that comes with it.
EnclaveData == [sgx_report : Enclave \cup {Unnamed, Empty}, ias_sig : IasSig]

NoData == [sgx_report |-> Empty, ias_sig |-> Empty]

\* The contract's storage and its balance.
Storage == [owner : Address, bounty : Nat, claimed : BOOLEAN,
            enclaveRequested : [Enclave -> BOOLEAN],
            enclaveApproved : [Enclave -> BOOLEAN],
            enclaveData : [Enclave -> EnclaveData],
            balance : Nat]

Constructor(sender, value) ==
    [owner |-> sender, bounty |-> value, claimed |-> FALSE,
     enclaveRequested |-> [e \in Enclave |-> FALSE],
     enclaveApproved |-> [e \in Enclave |-> FALSE],
     enclaveData |-> [e \in Enclave |-> NoData],
     balance |-> value]

\* Mutant: the check that no request is outstanding is dropped.
SubmitEnclaveOkNoRequestedCheck(c, e, data) ==
    /\ ~c.enclaveApproved[e]
    /\ data.sgx_report # Empty
    /\ data.ias_sig # Empty

\* Mutant: the check that the enclave is not yet approved is dropped.
SubmitEnclaveOkNoApprovedCheck(c, e, data) ==
    /\ ~c.enclaveRequested[e]
    /\ data.sgx_report # Empty
    /\ data.ias_sig # Empty

SubmitEnclaveOk(c, e, data) ==
    /\ ~c.enclaveRequested[e]
    /\ ~c.enclaveApproved[e]
    /\ data.sgx_report # Empty
    /\ data.ias_sig # Empty

SubmitEnclave(c, e, data) ==
    [c EXCEPT !.enclaveData[e] = data, !.enclaveRequested[e] = TRUE]

ApproveEnclaveOk(c, sender, e) ==
    /\ sender = c.owner
    /\ c.enclaveRequested[e]
    /\ ~c.enclaveApproved[e]

ApproveEnclave(c, e) ==
    [c EXCEPT !.enclaveRequested[e] = FALSE, !.enclaveApproved[e] = TRUE]

\* recover(hash_data(blob), sig): a signature recovers to its signer on the
\* blob it was made for and to no known address on any other blob.
Recover(blob, sig) == IF sig.blob = blob THEN sig.signer ELSE Empty

\* The BLOCKHASH opcode in block `cur` of a chain whose n-th block has hash
\* hashOf[n]: only the Window blocks before cur are visible.
Blockhash(n, cur, hashOf) ==
    IF n >= 0 /\ cur - Window <= n /\ n < cur THEN hashOf[n] ELSE Empty

\* Mutant: the approval of the enclave is not required.
CollectBountyOkNoApproval(c, e, blob, sig, cur, hashOf) ==
    /\ ~c.claimed
    /\ Recover(blob, sig) = e
    /\ Blockhash(blob.num, cur, hashOf) = blob.hash
    /\ c.balance >= c.bounty

\* Mutant: the block hash is not compared.
CollectBountyOkNoBlockhash(c, e, blob, sig, cur, hashOf) ==
    /\ ~c.claimed
    /\ c.enclaveApproved[e]
    /\ Recover(blob, sig) = e
    /\ c.balance >= c.bounty

CollectBountyOk(c, e, blob, sig, cur, hashOf) ==
    /\ ~c.claimed
    /\ c.enclaveApproved[e]
    /\ Recover(blob, sig) = e
    /\ Blockhash(blob.num, cur, hashOf) = blob.hash
    /\ c.balance >= c.bounty          \* otherwise transfer reverts the call

\* Mutant: the bounty is paid and the claimed flag forgotten.
CollectBountyNotFlagged(c) == [c EXCEPT !.balance = @ - c.bounty]

\* Mutant: one unit too much is paid out.
CollectBountyOverpaid(c) == [c EXCEPT !.claimed = TRUE, !.balance = @ - c.bounty - 1]

CollectBounty(c) ==
    [c EXCEPT !.claimed = TRUE, !.balance = @ - c.bounty]
=============================================================================
