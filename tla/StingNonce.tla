----------------------------- MODULE StingNonce -----------------------------
(***************************************************************************)
(* The numbers behind the evidence, from create_stinger.py through         *)
(* make_evidence.py to verify_evidence.py: the stinger is signed with a    *)
(* random nonce, its leaked signature is committed to, the commitment is   *)
(* the nonce of the second transaction, and verification signs that        *)
(* transaction again.  Sting models the order and the failures of these    *)
(* programs; here is what their checks on signatures decide.  Importing    *)
(* utils comes first.                                                      *)
(***************************************************************************)
EXTENDS Signing, CurveGroup

CONSTANTS Keys,           \* private keys, of the stinger's sender or another
          Nonces,         \* values sample(2**256) may return
          ChainId,        \* CHAIN_ID of utils.py
          SigHash(_, _, _)  \* keccak over v and the hex strings of r and s

ASSUME StingNonceAssumption ==
    Keys \subseteq 1 .. N-1 /\ Nonces \subseteq 0 .. Radix^Width /\ ChainId \in ChainIds

VARIABLES pc,        \* the next program, "accepted", "rejected" or "crashed"
          key,       \* STINGER_PK
          stinger,   \* the raw stinger transaction, stinger_tx_path
          commit,    \* the commitment C
          adv,       \* the raw second transaction on the chain
          opening,   \* r of verify_data, as verification reads it
          adv_key    \* adv_private_key of verify_data, likewise

file == <<opening, adv_key>>
vars == <<pc, key, stinger, commit, adv, file, pts, import>>

\* transfer_tx: legacy, with a chain identifier and a from field.
Dict(x, body) == [kind |-> "chain", body |-> body, chain |-> ChainId,
                  from |-> private_key_to_public_key(x)]

\* The dictionary verify_tx_proof makes of the transaction on the chain: no from,
\* and the node's chain identifier, which is CHAIN_ID, or the node would not
\* have taken what is signed for it.
Unsigned(body) == [kind |-> "chain", body |-> body, chain |-> ChainId, from |-> None]

TypeOK ==
    /\ Len(pts) <= 3 /\ \A i \in DOMAIN pts : pts[i] \in AffinePoint
    /\ import \in {"sampling", "imported", "failed"}
    /\ pc \in {"create_stinger", "make_evidence", "verify_evidence",
               "accepted", "rejected", "crashed"}
    /\ key \in Keys
    /\ commit \in {None} \cup 0 .. 2 * Radix^Width - 1
    /\ opening \in {None} \cup Uint256 /\ adv_key \in {None} \cup Keys
    /\ \A raw \in {stinger, adv} \ {None} :
          /\ raw.v \in {35 + 2 * ChainId, 36 + 2 * ChainId}
          /\ raw.r \in 0 .. N-1 /\ 2 * raw.s < N

Init ==
    /\ ImportInit /\ pc = "create_stinger" /\ key \in Keys
    /\ stinger = None /\ commit = None /\ adv = None
    /\ opening = None /\ adv_key = None

ImportUtils == (Sample \/ Experiments) /\ UNCHANGED <<pc, key, stinger, commit, adv, file>>

Crash == pc' = "crashed"

Stung(raw) == IF raw = Raised THEN Crash /\ UNCHANGED stinger
              ELSE pc' = "make_evidence" /\ stinger' = raw
make_bundle_stinger ==
    /\ import = "imported" /\ pc = "create_stinger"
    /\ \E k \in Nonces, body \in Body : Stung(sign_transaction(Dict(key, body), key, k))
    /\ UNCHANGED <<key, commit, adv, file, pts, import>>

\* decode_raw_tx recovers the sender of the leaked transaction, so it raises
\* for a signature with a zero r or s.
decode_raw_tx(raw) ==
    IF recover_transaction(raw) = Raised THEN Raised ELSE <<raw.v, raw.r, raw.s>>

CommitTo(vrs, r) == compute_pedersen_commitment(SigHash(vrs[1], vrs[2], vrs[3]), r)

\* make_pedersen_commitment draws r; the commitment C is the nonce.
EvidenceCrash == Crash /\ UNCHANGED <<commit, adv, file>>
Evidence(r, C, raw) ==
    IF raw = Raised THEN EvidenceCrash
    ELSE /\ pc' = "verify_evidence" /\ commit' = C /\ adv' = raw
         /\ opening' = r /\ adv_key' = key
EvidenceFor(r, body, C) ==
    IF C = Raised THEN EvidenceCrash
    ELSE Evidence(r, C, sign_transaction(Dict(key, body), key, C))

make_evidence ==
    /\ pc = "make_evidence"
    /\ \E leaked \in {decode_raw_tx(stinger)} :
          IF leaked = Raised THEN EvidenceCrash
          ELSE \E r \in Uint256, body \in Body : EvidenceFor(r, body, CommitTo(leaked, r))
    /\ UNCHANGED <<key, stinger, pts, import>>

\* The file verification reads need not be the one make_evidence wrote: it may
\* hold another opening and another key.
ReplaceData ==
    /\ pc = "verify_evidence"
    /\ opening' \in Uint256 /\ adv_key' \in Keys
    /\ UNCHANGED <<pc, key, stinger, commit, adv, pts, import>>

MatchesOnlyV(again) ==         \* mutant: r and s are not compared
    again # Raised /\ again.v = adv.v
MatchesStingerV(again) ==      \* mutant: the two transactions' v are confused
    again # Raised /\ again.v = stinger.v /\ again.r = adv.r /\ again.s = adv.s
Matches(again) ==
    again # Raised /\ again.v = adv.v /\ again.r = adv.r /\ again.s = adv.s

Verdict(C) ==
    IF C = Raised THEN "crashed"
    ELSE IF Matches(sign_transaction(Unsigned(adv.body), adv_key, C)) THEN "accepted"
    ELSE "rejected"

verify_evidence ==
    /\ pc = "verify_evidence"
    /\ pc' = Verdict(CommitTo(<<stinger.v, stinger.r, stinger.s>>, opening))
    /\ UNCHANGED <<key, stinger, commit, adv, file, pts, import>>

Next == ImportUtils \/ make_bundle_stinger \/ make_evidence \/ ReplaceData \/ verify_evidence

Spec == Init /\ [][Next]_vars
-----------------------------------------------------------------------------
Opened == CommitTo(<<stinger.v, stinger.r, stinger.s>>, opening)

(***************************************************************************)
(* Evidence with the opening make_evidence drew and the sender's key is    *)
(* accepted: the commitment, its serialization, its use as a nonce and the *)
(* signature are computed alike on both sides, although the dictionaries   *)
(* that are signed differ, for every nonce and every opening, commitments  *)
(* above the group order included.                                         *)
(***************************************************************************)
HonestAccepted ==
    pc \in {"rejected", "crashed"} /\ adv # None => Opened # commit \/ adv_key # key

(***************************************************************************)
(* The signature binds its nonce up to sign, and its key: what is accepted *)
(* opens to the commitment used as the nonce or, modulo the group order,   *)
(* to its negation, and names the sender's key, unless r is zero (the      *)
(* commitment is a multiple of the group order), which any key matches.    *)
(* With the sender's key a rejected opening is neither, unless s is zero.  *)
(***************************************************************************)
Opens == (Opened - commit) % N = 0 \/ (Opened + commit) % N = 0
AcceptedIsCommitted ==
    /\ pc = "accepted" => Opens /\ (adv_key = key \/ adv.r = 0)
    /\ pc = "rejected" /\ adv_key = key =>
          ~Opens \/ (adv.s = 0 /\ (Opened - commit) % N # 0)

=============================================================================
