---------------------------- MODULE FiniteField ----------------------------
(***************************************************************************)
(* The arithmetic under the commitments: euclidean.py, modp.py and the     *)
(* square-and-multiply loop of numbertype.py.                              *)
(*                                                                         *)
(* An element of IntegersModP(p) is the integer its field n holds, a       *)
(* member of 0 .. p-1.  Every operator takes the modulus, since the scripts*)
(* compute modulo the field prime and modulo the group order.              *)
(*                                                                         *)
(* A Python call that raises returns Raised, which is no number and no     *)
(* tuple.                                                                  *)
(***************************************************************************)
EXTENDS Integers, Sequences
LOCAL INSTANCE SequencesExt

CONSTANT Raised

(***************************************************************************)
(* One iteration of the loop of extendedEuclideanAlgorithm.  The tuple is  *)
(* <<a, b, x2, x1, y2, y1>>.                                               *)
(***************************************************************************)
EuclidStep(s) ==
    LET d == s[1] \div s[2]
    IN  <<s[2], s[1] - d * s[2], s[4], s[3] - d * s[4], s[6], s[5] - d * s[6]>>

EuclidInit(a, b) == <<a, b, 1, 0, 0, 1>>

EuclidTuple == Int \X Int \X Int \X Int \X Int \X Int

EuclidLoop[s \in EuclidTuple] ==
    IF s[2] = 0 THEN s ELSE EuclidLoop[EuclidStep(s)]

\* The whole function: the arguments are exchanged when b is the larger one,
\* and the result <<x, y, d>> is exchanged back.
extendedEuclideanAlgorithm(a, b) ==
    LET s == EuclidLoop[IF b > a THEN EuclidInit(b, a) ELSE EuclidInit(a, b)]
    IN  IF b > a THEN <<s[5], s[3], s[1]>> ELSE <<s[3], s[5], s[1]>>

\* IntegerModP.inverse: raises unless the greatest common divisor is one,
\* so in particular for zero.
inverse(n, p) ==
    LET e == extendedEuclideanAlgorithm(n, p)
    IN  IF e[3] # 1 THEN Raised ELSE e[1] % p

(***************************************************************************)
(* DomainElement.__pow__ and Point.__mul__ run the same loop: Q is squared *)
(* (doubled) once per bit i = 2, 4, ... <= n and multiplied into R when    *)
(* the bit is set in n.  Bit j is i = 2^j.                                 *)
(***************************************************************************)
BitSet(n, j) == (n \div 2^j) % 2 = 1
BitsAfterFirst(n) ==
    LET last == CHOOSE b \in 0 .. n : 2^b <= n /\ n < 2^(b+1)
    IN  IF n = 0 THEN <<>> ELSE [j \in 1 .. last |-> j]

Pow(a, n, p) ==
    LET iterate(QR, j) ==
            LET Q == (QR[1] * QR[1]) % p
            IN  <<Q, IF BitSet(n, j) THEN (Q * QR[2]) % p ELSE QR[2]>>
    IN  FoldLeft(iterate, <<a, IF BitSet(n, 0) THEN a ELSE 1 % p>>, BitsAfterFirst(n))[2]
=============================================================================
