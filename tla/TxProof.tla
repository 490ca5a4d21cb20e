------------------------------ MODULE TxProof ------------------------------
(***************************************************************************)
(* proveth.py: a proof that a transaction is at an index of a block is     *)
(* generated by rebuilding the block's transaction trie from RPC answers   *)
(* and verified by walking the nodes it contains.                          *)
(*                                                                         *)
(* A block is the sequence of its transactions, and stands for its hash.   *)
(* A trie node is the set of pairs of a remaining path (nibbles) and a     *)
(* transaction below it, and stands for the node's hash: the contents of a *)
(* hexary trie determine its nodes.  Every transaction is longer than a    *)
(* hash, so no node is embedded in its parent.                             *)
(***************************************************************************)
EXTENDS Integers, Sequences, FiniteSets, SequencesExt

CONSTANTS Blocks,     \* blocks the chain may hold at the height proved about
          Type,       \* the type of every transaction
          Reorgable,  \* blocks the chain may leave for another one
          NoTx        \* nothing

Txs == UNION {Range(b) : b \in Blocks}

ASSUME TxProofAssumption ==
    /\ Blocks \subseteq Seq(Txs) /\ Reorgable \subseteq Blocks
    /\ \A b \in Blocks : b # <<>> /\ Len(b) < 256 /\ IsInjective(b)
    /\ Type \in [Txs -> {"0x0", "0x1", "0x2"}]
    /\ NoTx \notin Txs

VARIABLES chain,     \* the canonical block at this height
          pc,        \* "get_block", "get_transaction", "walk", "verify", and
                     \* how it ends: "accepted", "rejected" or "raised"
          block,     \* block_dict
          loaded,    \* transactions asked for
          trie,      \* the trie under construction
          asked,     \* tx_index the proof is generated for
          index,     \* tx_index in the blob that is verified
          node, path,  \* arguments of aux, then target_hash and rest of the key
          stack,     \* nodes of the proof, the ones left in verification
          result     \* what verify_mpt_proof returned

vars == <<chain, pc, block, loaded, trie, asked, index, node, path, stack, result>>

\* bytes_to_nibbles(rlp.encode(i))
Nibbles(i) ==
    IF i = 0 THEN <<8, 0>>
    ELSE (IF i < 128 THEN <<>> ELSE <<8, 1>>) \o <<i \div 16, i % 16>>

MptSet(T, key, tx) == {e \in T : e[1] # key} \cup {<<key, tx>>}

Trie(b) == {<<Nibbles(i - 1), b[i]>> : i \in DOMAIN b}

Drop(s, n) == SubSeq(s, n + 1, Len(s))
SharedPrefix(T) ==
    LET p == (CHOOSE e \in T : TRUE)[1]
    IN  SubSeq(p, 1, Max({n \in 0 .. Len(p) : \A e \in T : IsPrefix(SubSeq(p, 1, n), e[1])}))
IsLeaf(T) == Cardinality(T) = 1
IsBranch(T) == Cardinality(T) > 1 /\ SharedPrefix(T) = <<>>
NodeKey(T) == SharedPrefix(T)
Child(T, n) == {<<Tail(e[1]), e[2]>> : e \in {f \in T : f[1] # <<>> /\ f[1][1] = n}}
Below(T) == {<<Drop(e[1], Len(NodeKey(T))), e[2]>> : e \in T}

-----------------------------------------------------------------------------
\* Hex-prefix encoding of a path, and rlp.encode of the byte string.
Compact(p, leaf) ==
    LET flag == (IF leaf THEN 2 ELSE 0) + (Len(p) % 2)
        nibs == (IF Len(p) % 2 = 1 THEN <<flag>> ELSE <<flag, 0>>) \o p
    IN  [i \in 1 .. Len(nibs) \div 2 |-> 16 * nibs[2 * i - 1] + nibs[2 * i]]
RlpBytes(b) == IF Len(b) = 1 /\ b[1] < 128 THEN b ELSE <<128 + Len(b)>> \o b

(***************************************************************************)
(* decode_compact.  It is given the RLP of the compact key, whose first    *)
(* byte is the key's own only when the key is a single byte; for a longer  *)
(* one it is the length and the assertion on the first nibble fails.       *)
(***************************************************************************)
DecodeCompactUnwrapped(b) ==    \* mutant: the leading byte is skipped twice
    LET nibs == [j \in 1 .. 2 * Len(b) |->
                   IF j % 2 = 1 THEN b[(j + 1) \div 2] \div 16 ELSE b[j \div 2] % 16]
    IN  [ok |-> nibs[1] \in 0 .. 3, leaf |-> nibs[1] \in {2, 3}, key |-> Drop(nibs, 2)]
decode_compact(b) ==
    LET nibs == [j \in 1 .. 2 * Len(b) |->
                   IF j % 2 = 1 THEN b[(j + 1) \div 2] \div 16 ELSE b[j \div 2] % 16]
    IN  [ok |-> nibs[1] \in 0 .. 3, leaf |-> nibs[1] \in {2, 3},
         key |-> Drop(nibs, IF nibs[1] \in {0, 2} THEN 2 ELSE 1)]

\* How much of ys the rest xs of the key shares; all of it when xs ends first.
shared_prefix_length(xs, ys) ==
    LET differ == {i \in 1 .. Len(ys) : i <= Len(xs) /\ xs[i] # ys[i]}
    IN  IF differ = {} THEN Len(ys) ELSE Min(differ) - 1

-----------------------------------------------------------------------------
TypeOK ==
    /\ chain \in Blocks
    /\ pc \in {"get_block", "get_transaction", "walk", "verify",
               "accepted", "rejected", "raised"}
    /\ block \in Blocks \cup {<<>>} /\ loaded \in 0 .. Len(block)
    /\ asked \in 0 .. 255 /\ index \in 0 .. 255
    /\ \A e \in trie : e[2] \in Txs
    /\ Cardinality({e[1] : e \in trie}) = Cardinality(trie)
    /\ result \in Txs \cup {NoTx}

Init ==
    /\ chain \in Blocks /\ pc = "get_block"
    /\ block = <<>> /\ loaded = 0 /\ trie = {} /\ asked = 0 /\ index = 0
    /\node = {} /\ path = <<>> /\ stack = <<>> /\ result = NoTx

Raise == pc' = "raised"

\* The canonical block at the height changes.
Reorg ==
    /\ pc \in {"get_block", "get_transaction", "walk"}
    /\ chain \in Reorgable /\ chain' \in Reorgable \ {chain}
    /\ UNCHANGED <<pc, block, loaded, trie, asked, index, node, path, stack, result>>

GetBlock ==
    /\ pc = "get_block"
    /\ block' = chain /\ pc' = "get_transaction"
    /\ UNCHANGED <<chain, loaded, trie, asked, index, node, path, stack, result>>

\* One iteration of the loop over block_dict["transactions"]: the position is
\* the one the node knows now.  get_transaction raises for a transaction no
\* block holds any more, rlp_transaction for one of an unknown type.
GetTransaction ==
    /\ pc = "get_transaction" /\ loaded < Len(block)
    /\ loaded' = loaded + 1
    /\ LET tx == block[loaded + 1]
       IN  IF tx \notin Range(chain) \/ Type[tx] = "0x1" THEN Raise /\ UNCHANGED trie
           ELSE LET i == CHOOSE j \in DOMAIN chain : chain[j] = tx
                IN  trie' = MptSet(trie, Nibbles(i - 1), tx) /\ UNCHANGED pc
    /\ UNCHANGED <<chain, block, asked, index, node, path, stack, result>>

\* generate_proof_blob compares the root with the header's, then
\* construct_proof_from_mpt starts the walk.  The index comes from a receipt of
\* before, so the block may not have it any more.
RootMatches == trie = Trie(block)

CheckRoot ==
    /\ pc = "get_transaction" /\ loaded = Len(block)
    /\ asked' \in 0 .. Len(block)
    /\ IF RootMatches THEN pc' = "walk" /\ node' = trie /\ path' = Nibbles(asked')
                      ELSE Raise /\ UNCHANGED <<node, path>>
    /\ UNCHANGED <<chain, block, loaded, trie, index, stack, result>>

\* A call of aux that makes no further call: a blank node, which it does not
\* push, a leaf, or an extension the key diverges from.
Stops == Cardinality(node) > 1 => ~IsBranch(node) /\ ~IsPrefix(NodeKey(node), path)

Descend ==
    /\ pc = "walk" /\ ~Stops
    /\ stack' = Append(stack, node)
    /\ IF IsBranch(node)
       THEN node' = Child(node, path[1]) /\ path' = Tail(path)
       ELSE node' = Below(node) /\ path' = Drop(path, Len(NodeKey(node)))
    /\ UNCHANGED <<chain, pc, block, loaded, trie, asked, index, result>>

\* The blob is the header, the index and the stack; a blob that names another
\* index, of the block or beyond it, must not verify.  Verification takes the
\* root and the path.
Deliver ==
    /\ pc = "walk" /\ Stops
    /\ pc' = "verify" /\ node' = Trie(block)
    /\ stack' = IF node = {} THEN stack ELSE Append(stack, node)
    /\ index' \in 0 .. 255
    /\ path' = Nibbles(index')
    /\ UNCHANGED <<chain, block, loaded, trie, asked, result>>
-----------------------------------------------------------------------------
(***************************************************************************)
(* verify_tx_proof compares the header with the chain, verify_mpt_proof    *)
(* consumes one node of the stack per iteration.                           *)
(***************************************************************************)
Head1 == stack[1]
AtEnd == Len(stack) = 1

Reject == pc' = "rejected"

\* The header is the chain's and the next node has the hash its parent says.
NodeHolds == block = chain /\ stack # <<>> /\ Head1 = node

VerifyBranch ==
    /\ pc = "verify" /\ NodeHolds /\ IsBranch(Head1)
    /\ IF path # <<>> /\ Child(Head1, path[1]) # {}
       THEN node' = Child(Head1, path[1]) /\ path' = Tail(path) /\ UNCHANGED pc
       ELSE Reject /\ UNCHANGED <<node, path>>   \* an absent key or an empty value
    /\ stack' = Tail(stack)
    /\ UNCHANGED <<chain, block, loaded, trie, asked, index, result>>

Decoded == decode_compact(RlpBytes(Compact(NodeKey(Head1), IsLeaf(Head1))))
Shared == shared_prefix_length(path, Decoded.key)

LeafAnyPath ==      \* mutant: neither assertion about the rest of the key
    Decoded.leaf /\ AtEnd
LeafMatches ==
    Decoded.leaf /\ AtEnd /\ Shared = Len(Decoded.key) /\ Shared >= Len(path)

ExtensionMatches == ~Decoded.leaf /\ ~AtEnd /\ Shared = Len(Decoded.key)

VerifyShortNode ==
    /\ pc = "verify" /\ NodeHolds /\ ~IsBranch(Head1)
    /\ CASE Decoded.ok /\ LeafMatches ->
              LET tx == (CHOOSE e \in Head1 : TRUE)[2]
              IN  /\ IF Type[tx] = "0x0" THEN pc' = "accepted" /\ result' = tx
                     ELSE Reject /\ UNCHANGED result    \* not an RLP list
                  /\ UNCHANGED <<node, path>>
         [] Decoded.ok /\ ExtensionMatches ->
              /\ node' = Below(Head1) /\ path' = Drop(path, Shared)
              /\ UNCHANGED <<pc, result>>
         [] OTHER -> Reject /\ UNCHANGED <<node, path, result>>
    /\ stack' = Tail(stack)
    /\ UNCHANGED <<chain, block, loaded, trie, asked, index>>

\* A header that is not the chain's, a node that does not have the hash its
\* parent says, or a stack that ends before the leaf.
VerifyFails ==
    /\ pc = "verify" /\ ~NodeHolds
    /\ Reject
    /\ UNCHANGED <<chain, block, loaded, trie, asked, index, node, path, stack, result>>

Program == GetBlock \/ GetTransaction \/ CheckRoot \/ Descend \/ Deliver
           \/ VerifyBranch \/ VerifyShortNode \/ VerifyFails

Next == Program \/ Reorg

Spec == Init /\ [][Next]_vars
-----------------------------------------------------------------------------
(***************************************************************************)
(* What verification returns is the transaction the canonical block holds  *)
(* at the index the blob names, whatever index the nodes were collected    *)
(* for and whatever the chain did while the proof was generated.           *)
(***************************************************************************)
VerifiedIsInBlock == pc = "accepted" => index < Len(chain) /\ result = chain[index + 1]

(***************************************************************************)
(* Proofs verify: while the block stays canonical, the proof generated for *)
(* a transaction of it is refused only when the transaction is typed or    *)
(* the path of its leaf is two nibbles long, which of all blocks of fewer  *)
(* than 256 transactions is the case of a block's only transaction and of  *)
(* the last one of 129.                                                    *)
(***************************************************************************)
LongLeaf == Len(block) = 1 \/ (Len(block) = 129 /\ index = 128)
OwnProofsVerify ==
    pc \in {"accepted", "rejected"} /\ index = asked /\ index < Len(block) /\ block = chain
        => (pc = "accepted" <=> Type[block[index + 1]] = "0x0" /\ ~LongLeaf)
=============================================================================
