---------------------------- MODULE MCStingNonce ----------------------------
(* The curve y^2 = x^3 + 7 modulo 43: 31 points, as for secp256k1 a prime  *)
(* number below the field's prime, and 43 = 3 (mod 4).                     *)
EXTENDS StingNonce
MCG == <<2, 12>>
MCH == <<7, 7>>
MCBody == 1 .. 2
MCHmac == [a \in Uint256 \X Uint256 |-> (5 * a[1] + 11 * a[2] + 3) % Radix^Width]
MCKeccak == [m \in Signable |->
    (13 * m[2] + (IF m[3] = None THEN 0 ELSE 7 * m[3])) % Radix^Width]
MCSigHash(v, r, s) == (v + 5 * r + 19 * s) % Radix^Width
=============================================================================
