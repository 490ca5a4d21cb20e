------------------------------ MODULE Account ------------------------------
(***************************************************************************)
(* A process that holds accounts of account.py and signs and recovers with *)
(* them.  The state is the class flag of Account, the accounts made so     *)
(* far, and the thing signed with what recovering it returned.             *)
(***************************************************************************)
EXTENDS Signing

CONSTANTS Entropy,       \* 256-bit numbers os.urandom and mnemonics give
          Nonces,        \* values passed as k
          MaxAccounts    \* bound on the accounts held

ASSUME AccountAssumption ==
    Entropy \subseteq Uint256 /\ Nonces \subseteq Nat /\ MaxAccounts \in Nat

VARIABLES unaudited,     \* _use_unaudited_hdwallet_features
          accounts,      \* private keys of the LocalAccounts made
          signed,        \* the signing call followed and its result, or None
          recovered      \* what recovering it returned, a set of at most two

vars == <<unaudited, accounts, signed, recovered>>

Tx == [kind : Kind, body : Body, chain : ChainIds,
       from : {None} \cup {private_key_to_public_key(x) : x \in Entropy \cap 0 .. N-1}]

TypeOK ==
    /\ unaudited \in BOOLEAN
    /\ accounts \subseteq 0 .. N-1 /\ Cardinality(accounts) <= MaxAccounts
    /\ signed # None => signed.key \in accounts /\ signed.result # Raised
    /\ recovered \subseteq {Raised} \cup {fast_multiply(G, x) : x \in 0 .. N-1}

Init == unaudited = FALSE /\ accounts = {} /\ signed = None /\ recovered = {}

\* from_key: _parsePrivateKey raises when the key is not below the group order.
AddAccount(x) ==
    /\ Cardinality(accounts \cup {x}) <= MaxAccounts
    /\ private_key_to_public_key(x) # Raised
    /\ accounts' = accounts \cup {x}
    /\ UNCHANGED <<unaudited, signed, recovered>>

create == \E x \in Entropy : AddAccount(x)

enable_unaudited_hdwallet_features ==
    unaudited' = TRUE /\ UNCHANGED <<accounts, signed, recovered>>

\* Both from_mnemonic and create_with_mnemonic raise while the flag is off.
FromMnemonic == unaudited /\ \E x \in Entropy : AddAccount(x)

\* Signing changes no state of an account, so one signing call is followed at
\* a time (signed = None).  A call that raises leaves no result behind.
SignTransaction ==
    \E x \in accounts, tx \in Tx, k \in Nonces :
        /\ signed = None
        /\ \E raw \in {sign_transaction(tx, x, k)} \ {Raised} :
             signed' = [op |-> "tx", key |-> x, tx |-> tx, k |-> k, result |-> raw]
        /\ recovered' = {}
        /\ UNCHANGED <<unaudited, accounts>>

SignMessage ==
    \E x \in accounts, body \in Body :
        /\ signed = None
        /\ \E message \in {sign_message(body, x)} \ {Raised} :
             signed' = [op |-> "message", key |-> x, body |-> body, result |-> message]
        /\ recovered' = {}
        /\ UNCHANGED <<unaudited, accounts>>

RecoverTransaction ==
    /\ signed # None /\ signed.op = "tx"
    /\ recovered' = {recover_transaction(signed.result)}
    /\ UNCHANGED <<unaudited, accounts, signed>>

\* recover_message accepts the numbers or the bytes.
RecoverMessage ==
    /\ signed # None /\ signed.op = "message"
    /\ LET z == Keccak[<<"message", signed.body, None>>]
       IN  \/ recovered' = recovered \cup {RecoverVrs(z, signed.result.vrs)}
           \/ recovered' = recovered \cup {RecoverBytes(z, signed.result.signature)}
    /\ UNCHANGED <<unaudited, accounts, signed>>

Next == create \/ enable_unaudited_hdwallet_features \/ FromMnemonic
        \/ SignTransaction \/ SignMessage \/ RecoverTransaction \/ RecoverMessage

Spec == Init /\ [][Next]_vars
-----------------------------------------------------------------------------
RS == IF signed.op = "tx" THEN <<signed.result.r, signed.result.s>>
      ELSE <<signed.result.vrs[2], signed.result.vrs[3]>>

Hash == IF signed.op = "tx" THEN HashOf(signed.tx) ELSE Keccak[<<"message", signed.body, None>>]

Signer == fast_multiply(G, signed.key)
Verifies == ecdsa_raw_verify(Hash, RS[1], RS[2], Signer)

(***************************************************************************)
(* What was signed recovers to the signer's address for every kind of      *)
(* transaction and both forms of a message signature, through the chain    *)
(* identifier folded into v, and ecdsa_raw_verify accepts it; s is below   *)
(* half the group order, as the chain demands, and the signer's public key *)
(* survives compression.  The one exception is a zero r or s, which sign   *)
(* accepts and recover and verify refuse, and a signer whose key is zero.  *)
(***************************************************************************)
Regular == RS[1] # 0 /\ RS[2] # 0
RecoversSigner ==
    signed # None =>
        /\ \A P \in recovered :
              P = IF Regular /\ signed.key # 0 THEN Signer ELSE Raised
        /\ 2 * RS[2] < N
        /\ signed.key # 0 =>
              /\ Verifies <=> Regular
              /\ decompress_public_key(compress_public_key(Signer)) = Signer

(***************************************************************************)
(* A nonce passed to sign_transaction for a chain-aware transaction is the *)
(* one of the signature: r is the x coordinate of k*G, whether or not k    *)
(* exceeds the group order, through all the calls between sign_transaction *)
(* and ecdsa_raw_sign.                                                     *)
(***************************************************************************)
ChosenNonceUsed ==
    signed # None /\ signed.op = "tx" /\ signed.tx.kind = "chain" /\ signed.k % N # 0
        => RS[1] = Mul(G, signed.k)[1]
=============================================================================
