------------------------------ MODULE MCTxPool ------------------------------
(***************************************************************************)
(* Instances of the pool for TLC, each with the transactions and limits    *)
(* that make one part of its behaviour happen.                             *)
(***************************************************************************)
EXTENDS TxPool

CONSTANTS a, b

\* A transaction asks for as much gas as it pays: the dearer ones for more than
\* the lower of the limits a block may have.
T(from, nonce, price) ==
    [from |-> from, nonce |-> nonce, price |-> price, gas |-> price]

Config(noLocals, queue) ==
    [Locals |-> {}, NoLocals |-> noLocals, GlobalSlots |-> 2, GlobalQueue |-> queue,
     AccountSlots |-> 1, AccountQueue |-> 2]

\* One account with three nonces, and a chain that has none, one or two of its
\* transactions, also a dearer version of the first.
OneTx == {T(a, n, p) : n \in 0 .. 2, p \in 1 .. 2}
OneAccount ==
    [tx |-> OneTx, private |-> {}, balances |-> {1, 2, 5}, prices |-> {1, 2},
     gasLimits |-> {2},
     heads |-> {{}, {T(a, 0, 1)}, {T(a, 0, 2)}, {T(a, 0, 1), T(a, 1, 2)}},
     config |-> Config(TRUE, 1)]

\* Two remote accounts that compete for the slots.
TwoAccounts ==
    [tx |-> {T(a, n, 1) : n \in 0 .. 2} \cup {T(a, 0, 2)} \cup {T(b, n, 2) : n \in 0 .. 1},
     private |-> {}, balances |-> {1, 4}, prices |-> {1, 2}, gasLimits |-> {2},
     heads |-> {{}, {T(a, 0, 1)}, {T(b, 0, 2)}}, config |-> Config(TRUE, 2)]

\* Fewer transactions, any of which may be submitted as local.
LocalAccounts ==
    [tx |-> {T(a, n, 1) : n \in 0 .. 1} \cup {T(a, 1, 2)} \cup {T(b, n, 1) : n \in 0 .. 1},
     private |-> {}, balances |-> {1, 4}, prices |-> {1, 2}, gasLimits |-> {1, 2},
     heads |-> {{}, {T(a, 0, 1)}}, config |-> Config(FALSE, 1)]

\* A private transaction and its replacement.
PrivateAccount ==
    [tx |-> {t \in OneTx : t.nonce < 2}, private |-> {T(a, 0, 1), T(a, 0, 2)},
     balances |-> {4}, prices |-> {1, 2}, gasLimits |-> {1, 2},
     heads |-> {{}, {T(a, 0, 1)}, {T(a, 0, 2)}}, config |-> Config(TRUE, 1)]

AllEnvs == {OneAccount, TwoAccounts, LocalAccounts, PrivateAccount}
PrivateEnvs == {PrivateAccount}
=============================================================================
