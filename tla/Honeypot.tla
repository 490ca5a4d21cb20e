------------------------------ MODULE Honeypot ------------------------------
(***************************************************************************)
(* The bounty contract under arbitrary callers.  Any account may call      *)
(* submitEnclave and collectBounty with any arguments, in any order,       *)
(* between the steps of the bounty administrator, whose script             *)
(* (setup_bounty.py, approve_enclave) first READS the data stored for an   *)
(* enclave, checks it, and only later sends approveEnclave.  Enclaves      *)
(* obtain IAS-signed quotes and sign proof blobs.                          *)
(***************************************************************************)
EXTENDS HoneypotOps, FiniteSets

CONSTANTS
    Admin,      \* the account that deployed the contract
    Bounty,     \* the value sent with the constructor
    SGX,        \* TRUE when the scripts run with SGX=1
    MaxHead,    \* bound: number of blocks of the modelled chain
    MaxSigned   \* bound: number of signatures the enclaves make

ASSUME MachineConstantsOK ==
    /\ Admin \in Address
    /\ Bounty \in Nat \ {0}
    /\ SGX \in BOOLEAN
    /\ MaxHead \in Nat
    /\ MaxSigned \in Nat
    /\ Empty \notin Nat

VARIABLES
    c,         \* storage and balance of the contract
    head,      \* number of the block transactions execute in
    wallet,    \* what the contract has paid to each account
    quoted,    \* enclaves the attestation service signed a report for
    reviewed,  \* enclave -> data the administrator last read and accepted
    sent,      \* enclaves with an approveEnclave transaction in the mempool
    signed     \* signatures made by enclaves

vars == <<c, head, wallet, quoted, reviewed, sent, signed>>

\* Block n's hash is n; the blobs also name hashes of no block of the chain.
HashOf == [n \in 0..MaxHead |-> n]
Hash == 0..(MaxHead + 1)
Blob == [num : 0..MaxHead, hash : Hash]
Signature == [signer : Enclave, blob : Blob]

Init ==
    /\ c = Constructor(Admin, Bounty)
    /\ head = 1
    /\ wallet = [a \in Address |-> 0]
    /\ quoted = {}
    /\ reviewed = [e \in Enclave |-> NoData]
    /\ sent = {}
    /\ signed = {}

\* sgx-report / sgx-quote / IAS: enclave e gets a signed report of its key.
SgxQuote(e) ==
    /\ quoted' = quoted \cup {e}
    /\ UNCHANGED <<c, head, wallet, reviewed, sent, signed>>

\* A genuine signature exists only over a report that was really issued.
Submittable(data) ==
    data.ias_sig = "genuine" => data.sgx_report \in quoted

\* submitEnclave, called by anybody.
Submit(e, data) ==
    /\ Submittable(data)
    /\ SubmitEnclaveOk(c, e, data)
    /\ c' = SubmitEnclave(c, e, data)
    /\ UNCHANGED <<head, wallet, quoted, reviewed, sent, signed>>

\* The administrator's checks on what enclaveData(e) returned: the address in
\* the quote and gramine-sgx-ias-verify-report.  Without SGX nothing is
\* checked.
ReviewOk(e, data) ==
    SGX => data.sgx_report = e /\ data.ias_sig = "genuine"

\* approve_enclave: the stored data is read and checked and the transaction
\* is sent; others may get theirs executed before it.
Review(e) ==
    /\ ReviewOk(e, c.enclaveData[e])
    /\ reviewed' = [reviewed EXCEPT ![e] = c.enclaveData[e]]
    /\ sent' = sent \cup {e}
    /\ UNCHANGED <<c, head, wallet, quoted, signed>>

\* The approveEnclave transaction is executed; send_tx never looks at the
\* status of the receipt, so a revert goes unnoticed.
Approve(e) ==
    /\ e \in sent
    /\ sent' = sent \ {e}
    /\ c' = IF ApproveEnclaveOk(c, Admin, e) THEN ApproveEnclave(c, e) ELSE c
    /\ UNCHANGED <<head, wallet, quoted, reviewed, signed>>

\* An enclave signs the number of a mined block with the hash it read for it
\* (verify_evidence.py): the block's, or that of a block later dropped.
Attest(e, blob) ==
    /\ Cardinality(signed) < MaxSigned
    /\ blob.num < head
    /\ blob.hash \in {blob.num, MaxHead + 1}
    /\ signed' = signed \cup {[signer |-> e, blob |-> blob]}
    /\ UNCHANGED <<c, head, wallet, quoted, reviewed, sent>>

\* collectBounty, called by anybody with any signature ever made.
Collect(a, e, blob, sig) ==
    /\ sig \in signed
    /\ CollectBountyOk(c, e, blob, sig, head, HashOf)
    /\ c' = CollectBounty(c)
    /\ wallet' = [wallet EXCEPT ![a] = @ + c.bounty]
    /\ UNCHANGED <<head, quoted, reviewed, sent, signed>>

NewBlock ==
    /\ head < MaxHead
    /\ head' = head + 1
    /\ UNCHANGED <<c, wallet, quoted, reviewed, sent, signed>>

Next ==
    \/ \E e \in Enclave :
          \/ SgxQuote(e) \/ Review(e) \/ Approve(e)
          \/ \E data \in EnclaveData : Submit(e, data)
          \/ \E blob \in Blob : Attest(e, blob)
          \/ \E a \in Address, blob \in Blob, sig \in Signature :
                Collect(a, e, blob, sig)
    \/ NewBlock

Spec == Init /\ [][Next]_vars

-----------------------------------------------------------------------------
\* Storage, balances and histories keep their types.
TypeOK ==
    /\ c \in Storage
    /\ head \in Nat
    /\ wallet \in [Address -> Nat]
    /\ quoted \subseteq Enclave
    /\ reviewed \in [Enclave -> EnclaveData]
    /\ sent \subseteq Enclave
    /\ signed \subseteq Signature

\* The bounty leaves the contract exactly once, in full, to one account, and
\* claimed says whether it has (collectBounty: flag, transfer, revert).
BountyPaidOnce ==
    IF c.claimed
    THEN /\ c.balance = 0
         /\ \E a \in Address :
               wallet = [b \in Address |-> IF b = a THEN c.bounty ELSE 0]
    ELSE /\ c.balance = c.bounty
         /\ wallet = [b \in Address |-> 0]

\* What the administrator reviewed is what got approved: although reading
\* enclaveData and executing approveEnclave are separate steps, nobody can
\* replace the data in between (submitEnclave refuses while a request is
\* outstanding).
ApprovedIsReviewed ==
    SGX => \A e \in Enclave :
        c.enclaveApproved[e] => /\ c.enclaveData[e] = reviewed[e]
                                /\ e \in quoted

\* A paid bounty goes back to a proof blob signed by an enclave that the
\* attestation service vouched for and the administrator approved.
ClaimIsAttested ==
    SGX /\ c.claimed => \E s \in signed : /\ c.enclaveApproved[s.signer]
                                          /\ s.signer \in quoted
                                          /\ s.blob.hash = s.blob.num

\* Approval is final: once an enclave is approved nothing about it changes and
\* it is never requested again; a claimed bounty stays claimed.
ApprovalFinal ==
    [][/\ \A e \in Enclave : c.enclaveApproved[e] =>
             /\ c'.enclaveApproved[e]
             /\ c'.enclaveData[e] = c.enclaveData[e]
             /\ ~c'.enclaveRequested[e]
       /\ c.claimed => c'.claimed]_vars
=============================================================================
