--------------------------- MODULE HoneypotProofs ---------------------------
(***************************************************************************)
(* Proofs about the bounty contract for any sets of accounts and enclaves, *)
(* any bounty, any BLOCKHASH window and any length of the chain.           *)
(***************************************************************************)
EXTENDS Honeypot, TLAPS

\* The administrator and the value of the bounty never change.
Fixed == c.owner = Admin /\ c.bounty = Bounty

\* Data is stored for an enclave only together with a request, and a request
\* ends only in an approval; an approved enclave has no open request.
DataHasRequest ==
    \A e \in Enclave :
        /\ c.enclaveData[e] # NoData =>
              c.enclaveRequested[e] \/ c.enclaveApproved[e]
        /\ c.enclaveApproved[e] => ~c.enclaveRequested[e]

\* Stored reports with a genuine signature were issued by the service.
DataIsIssued ==
    \A e \in Enclave : c.enclaveData[e].ias_sig = "genuine" =>
                          c.enclaveData[e].sgx_report \in quoted

\* With SGX, what was reviewed is a genuine report of the right enclave and is
\* still what the contract stores; transactions are sent for reviewed
\* enclaves only.
ReviewHolds ==
    SGX => \A e \in Enclave :
        /\ e \in sent \/ c.enclaveApproved[e] => reviewed[e] # NoData
        /\ reviewed[e] # NoData => /\ reviewed[e] = c.enclaveData[e]
                                   /\ reviewed[e].sgx_report = e
                                   /\ reviewed[e].ias_sig = "genuine"

\* The inductive invariant.  BountyPaidOnce is inductive with Fixed; the other
\* properties follow from the three parts about reviews and stored data.
IInv == /\ TypeOK
        /\ Fixed
        /\ BountyPaidOnce
        /\ DataHasRequest
        /\ DataIsIssued
        /\ ReviewHolds
        /\ ClaimIsAttested

\* The storage after each contract call is well typed and the call changes
\* only what it assigns.
LEMMA SubmitEffect ==
    ASSUME c \in Storage, NEW e \in Enclave, NEW data \in EnclaveData,
           SubmitEnclaveOk(c, e, data)
    PROVE  LET d == SubmitEnclave(c, e, data)
           IN  /\ d \in Storage
               /\ d.owner = c.owner /\ d.bounty = c.bounty
               /\ d.claimed = c.claimed /\ d.balance = c.balance
               /\ d.enclaveApproved = c.enclaveApproved
               /\ d.enclaveRequested[e] /\ d.enclaveData[e] = data
               /\ \A f \in Enclave : f # e =>
                     /\ d.enclaveRequested[f] = c.enclaveRequested[f]
                     /\ d.enclaveData[f] = c.enclaveData[f]
  BY DEF Storage, SubmitEnclave

\* What approveEnclave changes.
LEMMA ApproveEffect ==
    ASSUME c \in Storage, NEW e \in Enclave
    PROVE  LET d == ApproveEnclave(c, e)
           IN  /\ d \in Storage
               /\ d.owner = c.owner /\ d.bounty = c.bounty
               /\ d.claimed = c.claimed /\ d.balance = c.balance
               /\ d.enclaveData = c.enclaveData
               /\ d.enclaveApproved[e] /\ ~d.enclaveRequested[e]
               /\ \A f \in Enclave : f # e =>
                     /\ d.enclaveRequested[f] = c.enclaveRequested[f]
                     /\ d.enclaveApproved[f] = c.enclaveApproved[f]
  BY DEF Storage, ApproveEnclave

\* What collectBounty changes.
LEMMA CollectEffect ==
    ASSUME c \in Storage, c.balance >= c.bounty
    PROVE  LET d == CollectBounty(c)
           IN  /\ d \in Storage
               /\ d.owner = c.owner /\ d.bounty = c.bounty
               /\ d.claimed /\ d.balance = c.balance - c.bounty
               /\ d.enclaveRequested = c.enclaveRequested
               /\ d.enclaveApproved = c.enclaveApproved
               /\ d.enclaveData = c.enclaveData
  <1> DEFINE d == CollectBounty(c)
  <1>1. c.balance - c.bounty \in Nat
    BY DEF Storage
  <1>2. d.balance = c.balance - c.bounty
    BY <1>1 DEF Storage, CollectBounty
  <1>3. /\ d.owner = c.owner /\ d.bounty = c.bounty
        /\ d.enclaveRequested = c.enclaveRequested
        /\ d.enclaveApproved = c.enclaveApproved
        /\ d.enclaveData = c.enclaveData
    BY DEF Storage, CollectBounty
  <1>4. d.claimed
    BY DEF Storage, CollectBounty
  <1>5. d \in Storage
    BY <1>1 DEF Storage, CollectBounty
  <1> QED
    BY <1>2, <1>3, <1>4, <1>5

\* Empty enclave data has no genuine signature.
LEMMA NoDataType == NoData \in EnclaveData /\ NoData.ias_sig # "genuine"
  BY ConstantsOK DEF NoData, EnclaveData, IasSig

\* The constructor's state.
LEMMA InitIInv == Init => IInv
  <1> SUFFICES ASSUME Init PROVE IInv
    OBVIOUS
  <1>1. TypeOK
    BY MachineConstantsOK, NoDataType DEF Init, TypeOK, Constructor, Storage
  <1>2. Fixed /\ BountyPaidOnce /\ DataHasRequest /\ ClaimIsAttested
    BY DEF Init, Constructor, Fixed, BountyPaidOnce, DataHasRequest,
           ClaimIsAttested
  <1>3. DataIsIssued /\ ReviewHolds
    BY NoDataType DEF Init, Constructor, DataIsIssued, ReviewHolds
  <1> QED
    BY <1>1, <1>2, <1>3 DEF IInv

\* Every call, review and signature keeps the invariant.
LEMMA NextIInv == IInv /\ [Next]_vars => IInv'
  <1> SUFFICES ASSUME IInv, [Next]_vars PROVE IInv'
    OBVIOUS
  <1> USE DEF IInv
  <1>1. ASSUME NEW e \in Enclave, SgxQuote(e) PROVE IInv'
    BY <1>1 DEF SgxQuote, TypeOK, Fixed, BountyPaidOnce, DataHasRequest,
                DataIsIssued, ReviewHolds, ClaimIsAttested
  <1>2. ASSUME NEW e \in Enclave, Review(e) PROVE IInv'
    <2>1. (TypeOK /\ Fixed /\ BountyPaidOnce /\ DataHasRequest)'
      BY <1>2 DEF Review, TypeOK, Storage, Fixed, BountyPaidOnce, DataHasRequest
    <2>2. (DataIsIssued /\ ClaimIsAttested)'
      BY <1>2 DEF Review, DataIsIssued, ClaimIsAttested
    <2>3. ReviewHolds'
      <3> SUFFICES ASSUME SGX, NEW f \in Enclave
                   PROVE  /\ f \in sent' \/ c'.enclaveApproved[f] =>
                                reviewed'[f] # NoData
                          /\ reviewed'[f] # NoData =>
                                /\ reviewed'[f] = c'.enclaveData[f]
                                /\ reviewed'[f].sgx_report = f
                                /\ reviewed'[f].ias_sig = "genuine"
        BY <1>2 DEF ReviewHolds, Review
      <3>1. CASE f = e
        BY <1>2, <3>1, NoDataType DEF Review, ReviewOk, TypeOK
      <3>2. CASE f # e
        BY <1>2, <3>2 DEF Review, TypeOK, ReviewHolds
      <3> QED
        BY <3>1, <3>2
    <2> QED
      BY <2>1, <2>2, <2>3
  <1>3. ASSUME NEW e \in Enclave, Approve(e) PROVE IInv'
    <2>1. CASE ~ApproveEnclaveOk(c, Admin, e)
      BY <1>3, <2>1 DEF Approve, TypeOK, Fixed, BountyPaidOnce, DataHasRequest,
                        DataIsIssued, ReviewHolds, ClaimIsAttested
    <2>2. CASE ApproveEnclaveOk(c, Admin, e)
      <3> c' = ApproveEnclave(c, e)
        BY <1>3, <2>2 DEF Approve
      <3>1. (TypeOK /\ Fixed /\ BountyPaidOnce)'
        BY <1>3, ApproveEffect DEF Approve, TypeOK, Fixed, BountyPaidOnce
      <3>2. (DataHasRequest /\ DataIsIssued)'
        BY <1>3, ApproveEffect DEF Approve, TypeOK, DataHasRequest, DataIsIssued
      <3>3. ReviewHolds'
        BY <1>3, ApproveEffect DEF Approve, TypeOK, ReviewHolds
      <3>4. ClaimIsAttested'
        <4>1. \A f \in Enclave : c.enclaveApproved[f] => c'.enclaveApproved[f]
          BY ApproveEffect DEF TypeOK
        <4>2. c'.claimed = c.claimed /\ quoted' = quoted /\ signed' = signed
          BY <1>3, ApproveEffect DEF Approve, TypeOK
        <4> QED
          BY <4>1, <4>2 DEF ClaimIsAttested, TypeOK, Signature
      <3> QED
        BY <3>1, <3>2, <3>3, <3>4
    <2> QED
      BY <2>1, <2>2
  <1>4. ASSUME NEW e \in Enclave, NEW data \in EnclaveData, Submit(e, data)
        PROVE  IInv'
    <2> c' = SubmitEnclave(c, e, data) /\ SubmitEnclaveOk(c, e, data)
      BY <1>4 DEF Submit
    <2>1. (TypeOK /\ Fixed /\ BountyPaidOnce)'
      BY <1>4, SubmitEffect DEF Submit, TypeOK, Fixed, BountyPaidOnce
    <2>2. DataHasRequest'
      BY <1>4, SubmitEffect DEF SubmitEnclaveOk, TypeOK, DataHasRequest
    <2>3. DataIsIssued'
      BY <1>4, SubmitEffect DEF Submit, Submittable, TypeOK, DataIsIssued
    <2>4. ReviewHolds'
      <3>1. c.enclaveData[e] = NoData
        BY <1>4 DEF SubmitEnclaveOk, DataHasRequest
      <3>2. SGX => reviewed[e] = NoData
        BY <3>1 DEF ReviewHolds
      <3> QED
        BY <1>4, <3>2, SubmitEffect DEF Submit, TypeOK, ReviewHolds
    <2>5. ClaimIsAttested'
      BY <1>4, SubmitEffect DEF Submit, TypeOK, ClaimIsAttested
    <2> QED
      BY <2>1, <2>2, <2>3, <2>4, <2>5
  <1>5. ASSUME NEW e \in Enclave, NEW blob \in Blob, Attest(e, blob)
        PROVE  IInv'
    <2>1. [signer |-> e, blob |-> blob] \in Signature
      BY DEF Signature
    <2> QED
      BY <1>5, <2>1 DEF Attest, TypeOK, Fixed, BountyPaidOnce, DataHasRequest,
                DataIsIssued, ReviewHolds, ClaimIsAttested
  <1>6. ASSUME NEW a \in Address, NEW e \in Enclave, NEW blob \in Blob,
               NEW sig \in Signature, Collect(a, e, blob, sig)
        PROVE  IInv'
    <2> /\ c' = CollectBounty(c)
        /\ c.balance >= c.bounty
        /\ wallet' = [wallet EXCEPT ![a] = @ + c.bounty]
      BY <1>6 DEF Collect, CollectBountyOk
    <2>1. (Fixed /\ DataHasRequest /\ DataIsIssued /\ ReviewHolds)'
      BY <1>6, CollectEffect DEF Collect, TypeOK, Fixed, DataHasRequest,
                                 DataIsIssued, ReviewHolds
    <2>2. TypeOK'
      <3>1. c.bounty \in Nat
        BY DEF TypeOK, Storage
      <3>2. wallet' \in [Address -> Nat]
        BY <3>1 DEF TypeOK
      <3> QED
        BY <1>6, <3>2, CollectEffect DEF Collect, TypeOK
    <2>3. BountyPaidOnce'
      <3>1. /\ c.balance = c.bounty
            /\ wallet = [b \in Address |-> 0]
        BY <1>6 DEF Collect, CollectBountyOk, BountyPaidOnce
      <3>2. c.bounty \in Nat
        BY DEF TypeOK, Storage
      <3>3. wallet' = [b \in Address |-> IF b = a THEN c.bounty ELSE 0]
        BY <3>1, <3>2
      <3>4. c'.claimed /\ c'.balance = 0 /\ c'.bounty = c.bounty
        BY <3>1, <3>2, CollectEffect DEF TypeOK
      <3>5. wallet' = [b \in Address |-> IF b = a THEN c'.bounty ELSE 0]
        BY <3>3, <3>4
      <3> HIDE DEF IInv
      <3> QED
        BY <3>4, <3>5 DEF BountyPaidOnce
    <2>4. ClaimIsAttested'
      <3> SUFFICES ASSUME SGX
                   PROVE  /\ sig \in signed'
                          /\ c'.enclaveApproved[sig.signer]
                          /\ sig.signer \in quoted'
                          /\ sig.blob.hash = sig.blob.num
        BY DEF ClaimIsAttested
      <3>1. sig.blob = blob /\ sig.signer = e
        BY <1>6, ConstantsOK DEF Collect, CollectBountyOk, Recover, Signature
      <3>2. c.enclaveApproved[e] /\ c'.enclaveApproved[e]
        BY <1>6, CollectEffect DEF Collect, CollectBountyOk, TypeOK
      <3>3. e \in quoted
        BY <3>2 DEF ReviewHolds, DataIsIssued
      <3>4. blob.hash = blob.num
        <4>1. blob.num \in 0..MaxHead /\ blob.hash \in Nat
          BY MachineConstantsOK DEF Blob, Hash
        <4> QED
          BY <1>6, <4>1, MachineConstantsOK
             DEF Collect, CollectBountyOk, Blockhash, HashOf
      <3> QED
        BY <1>6, <3>1, <3>2, <3>3, <3>4 DEF Collect
    <2> QED
      BY <2>1, <2>2, <2>3, <2>4
  <1>7. CASE NewBlock
    BY <1>7 DEF NewBlock, TypeOK, Fixed, BountyPaidOnce, DataHasRequest,
                DataIsIssued, ReviewHolds, ClaimIsAttested
  <1>8. CASE UNCHANGED vars
    BY <1>8 DEF vars, TypeOK, Fixed, BountyPaidOnce, DataHasRequest,
                DataIsIssued, ReviewHolds, ClaimIsAttested
  <1> QED
    BY <1>1, <1>2, <1>3, <1>4, <1>5, <1>6, <1>7, <1>8 DEF Next

\* The inductive invariant holds throughout.
THEOREM Invariance == Spec => []IInv
  BY InitIInv, NextIInv, PTL DEF Spec

\* The contract is always well typed.
THEOREM TypeCorrect == Spec => []TypeOK
  <1>1. IInv => TypeOK
    BY DEF IInv
  <1> QED
    BY Invariance, <1>1, PTL

\* The bounty is paid exactly once, in full, to one account.
THEOREM PaidOnce == Spec => []BountyPaidOnce
  <1>1. IInv => BountyPaidOnce
    BY DEF IInv
  <1> QED
    BY Invariance, <1>1, PTL

\* What the administrator reviewed is what got approved.
THEOREM ReviewedApproved == Spec => []ApprovedIsReviewed
  <1>1. IInv => ApprovedIsReviewed
    <2> SUFFICES ASSUME IInv, SGX, NEW e \in Enclave, c.enclaveApproved[e]
                 PROVE  c.enclaveData[e] = reviewed[e] /\ e \in quoted
      BY DEF ApprovedIsReviewed
    <2> QED
      BY DEF IInv, ReviewHolds, DataIsIssued
  <1> QED
    BY Invariance, <1>1, PTL

\* A paid bounty goes back to an approved, attested enclave's signature.
THEOREM ClaimAttested == Spec => []ClaimIsAttested
  <1>1. IInv => ClaimIsAttested
    BY DEF IInv
  <1> QED
    BY Invariance, <1>1, PTL

\* Approval and claim are final: no step takes them back.
THEOREM FinalApproval == Spec => ApprovalFinal
  <1> DEFINE Final ==
        /\ \A e \in Enclave : c.enclaveApproved[e] =>
              /\ c'.enclaveApproved[e]
              /\ c'.enclaveData[e] = c.enclaveData[e]
              /\ ~c'.enclaveRequested[e]
        /\ c.claimed => c'.claimed
  <1>1. IInv /\ [Next]_vars => [Final]_vars
    <2> SUFFICES ASSUME IInv, Next PROVE Final
      OBVIOUS
    <2>1. c \in Storage /\ DataHasRequest
      BY DEF IInv, TypeOK
    <2>2. CASE c' = c
      BY <2>1, <2>2 DEF DataHasRequest
    <2>3. ASSUME NEW e \in Enclave, NEW data \in EnclaveData, Submit(e, data)
          PROVE  Final
      BY <2>1, <2>3, SubmitEffect DEF Submit, SubmitEnclaveOk, DataHasRequest
    <2>4. ASSUME NEW e \in Enclave, Approve(e), c' # c PROVE Final
      BY <2>1, <2>4, ApproveEffect DEF Approve, DataHasRequest
    <2>5. ASSUME NEW a \in Address, NEW e \in Enclave, NEW blob \in Blob,
                 NEW sig \in Signature, Collect(a, e, blob, sig)
          PROVE  Final
      BY <2>1, <2>5, CollectEffect DEF Collect, CollectBountyOk, DataHasRequest
    <2> QED
      BY <2>2, <2>3, <2>4, <2>5 DEF Next, SgxQuote, Review, Attest, NewBlock
  <1> QED
    BY Invariance, <1>1, PTL DEF Spec, ApprovalFinal
=============================================================================
