----------------------------- MODULE CurveGroup -----------------------------
(***************************************************************************)
(* Importing secp256k1.py: three points are drawn by rejection sampling,   *)
(* then the assertions of its Experiments section run.  An enclave program *)
(* that imports utils runs all of this before its first line, so an        *)
(* assertion that fails for some points is a program that sometimes does   *)
(* not start.                                                              *)
(***************************************************************************)
EXTENDS Secp256k1

VARIABLES pts,     \* the points drawn so far: A, B and C
          import   \* "sampling", "imported" or "failed"

ImportInit == pts = <<>> /\ import = "sampling"

\* make_random_point returns; the draws solve() rejects with ValueError change
\* nothing and are drawn again.
Drawn == {RandomPoint(x, flip) : x \in Uint256, flip \in BOOLEAN} \ {Raised}

Sample ==
    /\ import = "sampling" /\ Len(pts) < 3
    /\ \E P \in Drawn : pts' = Append(pts, P)
    /\ UNCHANGED import

Assertions(A, B, C) ==
    /\ \A P \in {A, B, C} : Add(Ideal, P) = P /\ Add(P, Ideal) = P
    /\ Add(A, Add(B, C)) = Add(Add(A, B), C)
    /\ \A P \in {A, B, C} : Add(Neg(P), P) = Ideal
    /\ Mul(A, order) = Ideal
    /\ Mul(G, 5) = mult(5, G)

\* Nothing uses the points once the assertions have run.
Experiments ==
    /\ import = "sampling" /\ Len(pts) = 3 /\ pts' = <<>>
    /\ import' = IF Assertions(pts[1], pts[2], pts[3]) THEN "imported" ELSE "failed"
-----------------------------------------------------------------------------
(***************************************************************************)
(* The library is sound for every point the sampler can draw.  The         *)
(* assertions at import time hold for every triple, equal, opposite and    *)
(* tangent points included.  A point survives its serialization, whichever *)
(* of the two square roots it has.  The two multiplications agree on every *)
(* positive scalar below twice the group order, also past the order.       *)
(***************************************************************************)
CurveConsistent ==
    /\ import # "failed"
    /\ Len(pts) = 1 =>
          /\ deser(ser(pts[1])) = pts[1]
          /\ \A m \in 1 .. 2 * order :
                /\ mult(m, pts[1]) = Mul(pts[1], m)
                /\ Mul(pts[1], m + 1) = Add(Mul(pts[1], m), pts[1])
                /\ Mul(pts[1], -m) = Neg(Mul(pts[1], m))
=============================================================================
