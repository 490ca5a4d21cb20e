----------------------------- MODULE MCAccount -----------------------------
EXTENDS Account
MCG == <<2, 12>>
MCH == <<7, 7>>
MCBody == 1 .. 2
\* Stand-ins for the hash functions, chosen to reach hashes above and below
\* the group order, equal hashes and zero.
MCHmac == [a \in Uint256 \X Uint256 |-> (5 * a[1] + 11 * a[2] + 3) % Radix^Width]
KindNumber(k) == CASE k = "legacy" -> 0 [] k = "message" -> 29 [] k = "chain" -> 33 [] k = "typed" -> 50
MCKeccak == [m \in Signable |->
    (KindNumber(m[1]) + 13 * m[2] + (IF m[3] = None THEN 0 ELSE 7 * m[3])) % Radix^Width]
=============================================================================
