------------------------------- MODULE Ecdsa -------------------------------
(***************************************************************************)
(* ecdsa.py and datatypes.py: signatures with a nonce the caller may       *)
(* choose.  Keys and hashes are 256-bit numbers, here members of Uint256;  *)
(* a public key is a pair of coordinates.  The group operations come from  *)
(* the jacobian module of eth_keys, which is external: it reduces scalars  *)
(* modulo the group order and writes the identity as <<0, 0>>.             *)
(***************************************************************************)
EXTENDS Secp256k1

CONSTANT Hmac      \* RFC 6979: the nonce for a hash and a key

ASSUME HmacAssumption == Hmac \in [Uint256 \X Uint256 -> Uint256]

N == order

\* Addresses are the public keys they hash.
FromJacobian(P) == IF P = Ideal THEN <<0, 0>> ELSE P
ToJacobian(P) == IF P = <<0, 0>> THEN Ideal ELSE P
fast_multiply(P, n) == FromJacobian(Mul(ToJacobian(P), n % N))
fast_add(P, Q) == FromJacobian(Add(ToJacobian(P), ToJacobian(Q)))
inv(a) == CASE a = 0 -> 0 [] a # 0 /\ a % N = 0 -> 1 [] OTHER -> inverse(a % N, N)

private_key_to_public_key(x) == IF x >= N THEN Raised ELSE fast_multiply(G, x)

compress_public_key(P) == <<2 + (P[2] % 2), P[1]>>

decompress_public_key(c) ==
    LET y == Pow((c[2] * c[2] * c[2] + 7) % q, (q + 1) \div 4, q)
    IN  IF c[1] \notin {2, 3} THEN Raised
        ELSE <<c[2], IF y % 2 = c[1] % 2 THEN y ELSE (-y) % q>>

deterministic_generate_k(z, x) == Hmac[z, x]

(***************************************************************************)
(* ecdsa_raw_sign.  Zero stands for no nonce.  r is the x coordinate, not  *)
(* reduced modulo the group order; s is made low and the parity bit of v   *)
(* follows it.                                                             *)
(***************************************************************************)
NonceDropped(z, x, k) == deterministic_generate_k(z, x)    \* mutant: k is not passed on
NonceUsed(z, x, k) == IF k = 0 THEN deterministic_generate_k(z, x) ELSE k

LowSParityKept(R, s) ==    \* mutant: the parity is not flipped with s
    <<R[2] % 2, R[1], IF 2 * s < N THEN s ELSE N - s>>
LowS(R, s) == IF 2 * s < N THEN <<R[2] % 2, R[1], s>> ELSE <<(R[2] + 1) % 2, R[1], N - s>>

SignWith(z, x, n, R) == LowS(R, (inv(n) * ((z + R[1] * x) % N)) % N)

ecdsa_raw_sign(z, x, k) ==
    LET n == NonceUsed(z, x, k) IN SignWith(z, x, n, fast_multiply(G, n))

\* The constructor of Signature raises BadSignature outside these ranges.
Signature(vrs) ==
    IF vrs[1] \in {0, 1} /\ vrs[2] \in 0 .. N-1 /\ vrs[3] \in 0 .. N-1 THEN vrs ELSE Raised

ecdsa_raw_verify(z, r, s, P) ==
    LET w == inv(s)
        X == fast_add(fast_multiply(G, (z * w) % N), fast_multiply(P, (r * w) % N))
    IN  r = X[1] /\ r % N # 0 /\ s % N # 0

\* y of the point with x coordinate r, of the parity v says, and the key.
RecoverY(beta, v) == IF beta % 2 = v % 2 THEN beta ELSE q - beta
RecoverKey(z, r, s, y) == Mul(Add(Mul(G, (N - z) % N), Mul(<<r, y % q>>, s)), inv(r))
KeyOrRaised(Q) == IF Q = Ideal THEN Raised ELSE Q

ecdsa_raw_recover(z, vrs) ==
    LET r == vrs[2]
        cubic == (r * r * r + 7) % q
        y == RecoverY(Pow(cubic, (q + 1) \div 4, q), vrs[1])
    IN  IF (cubic - y * y) % q # 0 \/ r % N = 0 \/ vrs[3] % N = 0
        THEN Raised ELSE KeyOrRaised(RecoverKey(z, r, vrs[3], y))

\* PrivateKey.sign_msg_hash through NativeECCBackend.
sign_msg_hash(z, x, k) == Signature(ecdsa_raw_sign(z, x, k))
=============================================================================
