------------------------------ MODULE Signing ------------------------------
(***************************************************************************)
(* signing.py and the signing half of account.py.                          *)
(*                                                                         *)
(* A transaction dictionary is a record: its kind says which class         *)
(* serializable_unsigned_transaction_from_dict makes of it, its body       *)
(* stands for the fields the signature does not depend on beyond the hash, *)
(* from is the address given or None.  A raw transaction is the record its *)
(* bytes decode to.                                                        *)
(***************************************************************************)
EXTENDS Ecdsa

CONSTANTS Body,       \* contents of transactions and messages
          ChainIds,   \* chain identifiers
          Keccak      \* hashes of what is signed

Kind == {"legacy", "chain", "typed"}

\* What is hashed: kind, body and, unless it is a bare legacy transaction,
\* the chain.  Messages have a kind of their own.
Signable ==
    ({"legacy", "message"} \X Body \X {None}) \cup ({"chain", "typed"} \X Body \X ChainIds)

ASSUME SigningAssumption ==
    /\ ChainIds \subseteq Nat
    /\ Keccak \in [Signable -> Uint256]

to_eth_v(v, chain) == IF chain = None THEN v + 27 ELSE v + 35 + 2 * chain

\* Returns the pair of the chain, None before EIP-155, and v as 27 or 28.
extract_chain_id(v) ==
    CASE v \in {0, 1}    -> <<None, v + 27>>
      [] v \in {27, 28}  -> <<None, v>>
      [] v >= 35         -> <<(v - 35) \div 2, ((v - 35) % 2) + 27>>
      [] OTHER           -> Raised

to_standard_v(v) == extract_chain_id(v)[2] - 27

HashOf(tx) == Keccak[<<tx.kind, tx.body, IF tx.kind = "legacy" THEN None ELSE tx.chain>>]

(***************************************************************************)
(* sign_transaction_dict.  Only a chain-aware legacy transaction is signed *)
(* with the caller's nonce; the other two kinds ignore it, and a typed one *)
(* keeps the raw v.                                                        *)
(***************************************************************************)
EncodeSigned(tx, sig) ==
    IF sig = Raised THEN Raised
    ELSE [kind |-> IF tx.kind = "typed" THEN "typed" ELSE "rlp", body |-> tx.body,
          chain |-> IF tx.kind = "typed" THEN tx.chain ELSE None,
          v |-> CASE tx.kind = "legacy" -> to_eth_v(sig[1], None)
                  [] tx.kind = "chain"  -> to_eth_v(sig[1], tx.chain)
                  [] tx.kind = "typed"  -> sig[1],
          r |-> sig[2], s |-> sig[3]]

sign_transaction_dict(x, tx, k) ==
    EncodeSigned(tx, sign_msg_hash(HashOf(tx), x, IF tx.kind = "chain" THEN k ELSE 0))

\* Account.sign_transaction: a from that is not the key's address is refused.
MaySign(tx, address) == address # Raised /\ tx.from \in {None, address}
sign_transaction(tx, x, k) ==
    IF MaySign(tx, private_key_to_public_key(x)) THEN sign_transaction_dict(x, tx, k) ELSE Raised

\* hash_of_signed_transaction: the chain is inferred from v alone.
hash_of_signed_transaction(raw) ==
    LET chain == extract_chain_id(raw.v)[1]
    IN  Keccak[<<IF chain = None THEN "legacy" ELSE "chain", raw.body, chain>>]

\* Account._recover_hash with vrs, and with the 65 bytes r, s, v.
RecoverHash(z, sig) == IF sig = Raised THEN Raised ELSE ecdsa_raw_recover(z, sig)
RecoverVrs(z, vrs) == RecoverHash(z, Signature(<<to_standard_v(vrs[1]), vrs[2], vrs[3]>>))
RecoverBytes(z, b) == RecoverHash(z, Signature(<<to_standard_v(b[3]), b[1], b[2]>>))

recover_transaction(raw) ==
    RecoverVrs(IF raw.kind = "typed" THEN Keccak[<<"typed", raw.body, raw.chain>>]
               ELSE hash_of_signed_transaction(raw), <<raw.v, raw.r, raw.s>>)

\* Account.sign_message returns v, r, s and the bytes of r, s and v.
SignedMessage(sig) ==
    LET v == to_eth_v(sig[1], None)
    IN  IF sig = Raised THEN Raised
        ELSE [vrs |-> <<v, sig[2], sig[3]>>, signature |-> <<sig[2], sig[3], v>>]
sign_message(body, x) ==
    IF private_key_to_public_key(x) = Raised THEN Raised
    ELSE SignedMessage(sign_msg_hash(Keccak[<<"message", body, None>>], x, 0))
=============================================================================
