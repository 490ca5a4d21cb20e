----------------------------- MODULE Secp256k1 -----------------------------
(***************************************************************************)
(* elliptic.py and secp256k1.py: the curve y^2 = x^3 + 7 over the integers *)
(* modulo q, its points as 33-byte strings, and the Pedersen commitments   *)
(* of utils.py.                                                            *)
(*                                                                         *)
(* A point is a pair <<x, y>>, the Ideal the empty tuple.  A byte string   *)
(* is a sequence of digits below Radix; a coordinate takes Width of them   *)
(* (32 bytes in the code).                                                 *)
(***************************************************************************)
EXTENDS FiniteField, FiniteSets
LOCAL INSTANCE SequencesExt

CONSTANTS q, order, G, H, Radix, Width,
          None         \* what mult returns when it falls off its loop

Fq == 0 .. q-1
Uint256 == 0 .. Radix^Width - 1

Ideal == <<>>

testPoint(x, y) == (y * y) % q = (x * x * x + 7) % q

\* The constructor of Point raises for a point off the curve.
Point(x, y) == IF testPoint(x, y) THEN <<x, y>> ELSE Raised

AffinePoint == {P \in Fq \X Fq : testPoint(P[1], P[2])}

ASSUME CurveAssumption ==
    /\ q \in Nat /\ q > 3 /\ (q + 1) % 4 = 0
    /\ \A d \in 2 .. q-1 : q % d # 0
    /\ Cardinality(AffinePoint) + 1 = order
    /\ \A d \in 2 .. order-1 : order % d # 0
    /\ G \in AffinePoint /\ H \in AffinePoint
    /\ Radix \in Nat /\ Width \in Nat /\ q <= Radix^Width

-----------------------------------------------------------------------------
(***************************************************************************)
(* The group law: Point.__neg__, __add__ and __mul__ with the overrides of *)
(* Ideal.                                                                  *)
(***************************************************************************)
Neg(P) == IF P = Ideal THEN P ELSE Point(P[1], (-P[2]) % q)

Div(n, d) == (n * inverse(d % q, q)) % q

Slope(P, Q) ==
    IF P = Q THEN Div(3 * P[1] * P[1], 2 * P[2]) ELSE Div(Q[2] - P[2], Q[1] - P[1])

ThirdUnreflected(P, Q, m) ==    \* mutant: the third intersection is returned
    LET x == (m * m - Q[1] - P[1]) % q
    IN  Point(x, (m * (x - P[1]) + P[2]) % q)
Third(P, Q, m) ==
    LET x == (m * m - Q[1] - P[1]) % q
    IN  Point(x, (-(m * (x - P[1]) + P[2])) % q)

Add(P, Q) ==
    CASE P = Ideal                          -> Q
      [] P # Ideal /\ Q = Ideal             -> P
      [] P # Ideal /\ Q # Ideal ->
            IF P[1] = Q[1] /\ (P # Q \/ P[2] = 0)
            THEN Ideal
            ELSE Third(P, Q, Slope(P, Q))

Mul(P, n) ==
    LET Base == IF n < 0 THEN Neg(P) ELSE P
        m    == IF n < 0 THEN -n ELSE n
        iterate(QR, j) ==
            LET Q == Add(QR[1], QR[1])
            IN  <<Q, IF BitSet(m, j) THEN Add(Q, QR[2]) ELSE QR[2]>>
    IN  IF P = Ideal \/ m = 0 THEN Ideal
        ELSE FoldLeft(iterate, <<Base, IF BitSet(m, 0) THEN Base ELSE Ideal>>, BitsAfterFirst(m))[2]

\* The handout's second multiplication; its loop returns from the inside, so
\* it returns None for zero.
mult(m, A) ==
    IF m = 0 THEN None
    ELSE LET iterate(acc, j) == <<Add(acc[1], acc[1]),
                                  IF BitSet(m, j) THEN Add(acc[2], acc[1]) ELSE acc[2]>>
         IN  FoldLeft(iterate, <<A, Ideal>>, <<0>> \o BitsAfterFirst(m))[2]

-----------------------------------------------------------------------------
(***************************************************************************)
(* Solving for y.  sqrt raises for a non-residue; solve returns the odd    *)
(* one of the two points.                                                  *)
(***************************************************************************)
sqrt(a) == IF Pow(a, (q - 1) \div 2, q) = q - 1 THEN Raised ELSE Pow(a, (q + 1) \div 4, q)

solve(x) ==
    LET root == sqrt((Pow(x, 3, q) + 7) % q)
    IN  IF root = Raised THEN Raised
        ELSE Point(x, IF root % 2 = 0 THEN (-root) % q ELSE root)

-----------------------------------------------------------------------------
(***************************************************************************)
(* Byte strings.  Coordinates are little-endian; the byte in front says    *)
(* whether y is even.  bytes_to_int reads the whole string big-endian, so  *)
(* a commitment as an integer may exceed the group order and the field.    *)
(***************************************************************************)
uint256_to_str(n) == [i \in 1 .. Width |-> (n \div Radix^(i-1)) % Radix]
uint256_from_str(s) == FoldLeft(LAMBDA acc, i : acc + s[i] * Radix^(i-1), 0, [i \in 1 .. Width |-> i])
bytes_to_int(s) == FoldLeft(LAMBDA acc, b : acc * Radix + b, 0, s)

ser(P) ==
    IF P = Ideal THEN Raised
    ELSE <<(P[2] + 1) % 2>> \o uint256_to_str(P[1])

deser(s) ==
    IF s = Raised \/ s[1] \notin {0, 1} \/ uint256_from_str(Tail(s)) >= q THEN Raised
    ELSE LET P == solve(uint256_from_str(Tail(s)))
         IN  IF P = Raised THEN Raised ELSE IF s[1] = 1 THEN <<P[1], (-P[2]) % q>> ELSE P

\* One draw of make_random_point: 32 random bytes, reduced to a field element,
\* and a bit that says whether y is flipped.
RandomPoint(x, flip) ==
    LET P == solve(x % q)
    IN  IF P # Raised /\ flip THEN <<P[1], (-P[2]) % q>> ELSE P

\* compute_pedersen_commitment; make_pedersen_commitment draws r first.  The
\* commitment that is the Ideal has no x, so ser raises.
compute_pedersen_commitment(x, r) ==
    LET s == ser(Add(Mul(G, x), Mul(H, r)))
    IN  IF s = Raised THEN Raised ELSE bytes_to_int(s)
=============================================================================
