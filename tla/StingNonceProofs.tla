--------------------------- MODULE StingNonceProofs ---------------------------
(***************************************************************************)
(* Honest evidence is accepted, for every curve, hash, key and nonce: what *)
(* make_evidence computes verify_evidence computes again from the body of  *)
(* the transaction on the chain.                                           *)
(***************************************************************************)
EXTENDS StingNonce, TLAPS

\* The evidence is the transaction signed with the commitment as its nonce.
SignedWithCommit ==
    /\ commit # Raised /\ adv # Raised
    /\ adv = sign_transaction(Dict(key, adv.body), key, commit)

(***************************************************************************)
(* A program that stopped before verification left no evidence, and the    *)
(* replacement of verify_data leaves the evidence alone.                   *)
(***************************************************************************)
HInv ==
    /\ pc \in {"create_stinger", "make_evidence"} => adv = None
    /\ pc = "verify_evidence" => SignedWithCommit
    /\ HonestAccepted

\* The body of a signed transaction is the one that was signed.
LEMMA SignedBody ==
    ASSUME NEW x, NEW body, NEW k, sign_transaction(Dict(x, body), x, k) # Raised
    PROVE  sign_transaction(Dict(x, body), x, k).body = body
  <1> DEFINE d == Dict(x, body)
  <1>1. d.body = body
    BY DEF Dict
  <1>2. \A sig : EncodeSigned(d, sig) # Raised => EncodeSigned(d, sig).body = d.body
    BY DEF EncodeSigned
  <1>3. sign_transaction(d, x, k) = sign_transaction_dict(x, d, k)
    BY DEF sign_transaction
  <1> QED
    BY <1>1, <1>2, <1>3 DEF sign_transaction_dict

\* The sender's dictionary and the one made of the transaction on the chain are
\* signed alike.
LEMMA SignedAlike ==
    ASSUME NEW x, NEW body, NEW k
    PROVE  sign_transaction(Unsigned(body), x, k) = sign_transaction(Dict(x, body), x, k)
  <1> DEFINE d == Dict(x, body)
             u == Unsigned(body)
  <1>1. d.kind = u.kind /\ d.body = u.body /\ d.chain = u.chain
        /\ d.from = private_key_to_public_key(x) /\ u.from = None
    BY DEF Dict, Unsigned
  <1> HIDE DEF d, u
  <1>2. HashOf(d) = HashOf(u)
    BY <1>1 DEF HashOf
  <1>3. \A sig : EncodeSigned(d, sig) = EncodeSigned(u, sig)
    BY <1>1 DEF EncodeSigned
  <1>4. sign_transaction_dict(x, d, k) = sign_transaction_dict(x, u, k)
    BY <1>1, <1>2, <1>3 DEF sign_transaction_dict
  <1>5. sign_transaction(u, x, k) = sign_transaction(d, x, k)
    BY <1>1, <1>4 DEF sign_transaction, MaySign
  <1> QED
    BY <1>5 DEF d, u

\* Evidence that is written is signed with the commitment.
LEMMA EvidenceStep ==
    ASSUME HInv, make_evidence
    PROVE  HInv'
  <1>1. pc = "make_evidence" /\ adv = None /\ UNCHANGED key
    BY DEF HInv, make_evidence
  <1>2. CASE EvidenceCrash
    BY <1>1, <1>2 DEF EvidenceCrash, Crash, HInv, HonestAccepted
  <1>3. ASSUME NEW r, NEW body, NEW C, EvidenceFor(r, body, C) PROVE HInv'
    <2>1. PICK raw : raw = sign_transaction(Dict(key, body), key, C)
      OBVIOUS
    <2>2. CASE C = Raised \/ raw = Raised
      BY <1>2, <1>3, <2>1, <2>2 DEF EvidenceFor, Evidence
    <2>3. CASE C # Raised /\ raw # Raised
      <3>1. pc' = "verify_evidence" /\ commit' = C /\ adv' = raw
        BY <1>3, <2>1, <2>3 DEF EvidenceFor, Evidence
      <3>2. raw.body = body
        BY <2>1, <2>3, SignedBody
      <3>3. adv' = sign_transaction(Dict(key', adv'.body), key', commit')
        BY <1>1, <2>1, <3>1, <3>2
      <3>4. SignedWithCommit'
        BY <2>3, <3>1, <3>3 DEF SignedWithCommit
      <3> QED
        BY <3>1, <3>4 DEF HInv, HonestAccepted
    <2> QED
      BY <2>2, <2>3
  <1>4. EvidenceCrash \/ \E r, body, C : EvidenceFor(r, body, C)
    BY DEF make_evidence
  <1> QED
    BY <1>2, <1>3, <1>4

\* Verification signs again and compares.
LEMMA VerdictStep ==
    ASSUME HInv, verify_evidence
    PROVE  HInv'
  <1>1. /\ pc = "verify_evidence" /\ pc' = Verdict(Opened)
        /\ UNCHANGED <<key, stinger, commit, adv, opening, adv_key>>
    BY DEF verify_evidence, Opened, file
  <1>2. SignedWithCommit
    BY <1>1 DEF HInv
  <1>3. Opened' = Opened
    BY <1>1 DEF Opened
  <1>4. ASSUME Opened = commit, adv_key = key PROVE pc' = "accepted"
    <2>1. Matches(adv)
      BY <1>2 DEF SignedWithCommit, Matches
    <2>2. adv = sign_transaction(Unsigned(adv.body), adv_key, Opened)
      BY <1>2, <1>4, SignedAlike DEF SignedWithCommit
    <2> QED
      BY <1>1, <1>2, <1>4, <2>1, <2>2 DEF SignedWithCommit, Verdict
  <1>5. pc' \in {"accepted", "rejected", "crashed"}
    BY <1>1 DEF Verdict
  <1>6. HonestAccepted'
    BY <1>1, <1>3, <1>4 DEF HonestAccepted
  <1> QED
    BY <1>5, <1>6 DEF HInv

\* Evidence with the opening make_evidence drew and the sender's key is accepted.
THEOREM HonestEvidenceAccepted == Spec => []HonestAccepted
  <1>1. Init => HInv
    BY DEF Init, HInv, HonestAccepted
  <1>2. HInv /\ [Next]_vars => HInv'
    <2> SUFFICES ASSUME HInv, [Next]_vars PROVE HInv'
      OBVIOUS
    <2>1. CASE ImportUtils \/ UNCHANGED vars
      <3>1. UNCHANGED <<pc, key, stinger, commit, adv, opening, adv_key>>
        BY <2>1 DEF ImportUtils, vars, file
      <3> QED
        BY <3>1 DEF HInv, HonestAccepted, SignedWithCommit, Opened
    <2>2. CASE make_bundle_stinger
      <3>1. /\ pc = "create_stinger" /\ pc' \in {"make_evidence", "crashed"} /\ adv' = adv
        BY <2>2 DEF make_bundle_stinger, Stung, Crash
      <3> QED
        BY <3>1 DEF HInv, HonestAccepted
    <2>3. CASE ReplaceData
      <3>1. pc = "verify_evidence" /\ UNCHANGED <<pc, key, commit, adv>>
        BY <2>3 DEF ReplaceData
      <3> QED
        BY <3>1 DEF HInv, HonestAccepted, SignedWithCommit
    <2> QED
      BY <2>1, <2>2, <2>3, EvidenceStep, VerdictStep DEF Next
  <1>3. HInv => HonestAccepted
    BY DEF HInv
  <1> QED
    BY <1>1, <1>2, <1>3, PTL DEF Spec

=============================================================================
