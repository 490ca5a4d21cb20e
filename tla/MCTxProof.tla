----------------------------- MODULE MCTxProof -----------------------------
(* Transactions are numbers; one in seven is typed, 6 has a type proveth   *)
(* does not know.                                                          *)
EXTENDS TxProof
CONSTANT Sizes
Block(first, n) == [i \in 1 .. n |-> first + i]
\* A block, the same transactions in another order, one of them missing, one
\* moved up and one new at the end.
Forks == {<<1, 2, 3>>, <<2, 1, 3>>, <<1, 2>>, <<1, 3, 4>>}
MCBlocks == Forks \cup {<<5, 6>>} \cup {Block(10, n) : n \in Sizes}
MCType == [t \in Txs |-> IF t = 6 THEN "0x1" ELSE IF t % 7 = 0 THEN "0x2" ELSE "0x0"]
=============================================================================
