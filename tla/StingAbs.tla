------------------------------ MODULE StingAbs ------------------------------
(***************************************************************************)
(* What the sting promises, run by run: a bounty is paid only for an       *)
(* attestation, an attestation is given only for evidence on the chain,    *)
(* evidence reaches the chain only after the builder leaked the sting, and *)
(* the builder leaks only what it was sent.  A run may stop anywhere.      *)
(***************************************************************************)
CONSTANT Run

VARIABLE stage   \* idle, stung, leaked, committed, attested or paid

Init == stage = [r \in Run |-> "idle"]

Move(S, from, to) ==
    /\ \A r \in S : stage[r] = from
    /\ stage' = [r \in Run |-> IF r \in S THEN to ELSE stage[r]]

\* The searcher sends the sting bundle of run r.
Send(r) == Move({r}, "idle", "stung")

\* The builder gives the sting transaction away.
Leak(r) == Move({r}, "stung", "leaked")

\* The enclave attests to the evidence.
Attest(r) == Move({r}, "committed", "attested")

\* One block may carry the evidence of some runs and the payments of others.
Block(S, P) ==
    /\ \A r \in S : stage[r] = "leaked"
    /\ \A r \in P : stage[r] = "attested"
    /\ stage' = [r \in Run |-> IF r \in S THEN "committed"
                              ELSE IF r \in P THEN "paid" ELSE stage[r]]

Next == \/ \E r \in Run : Send(r) \/ Leak(r) \/ Attest(r)
        \/ \E S, P \in SUBSET Run : Block(S, P)

Spec == Init /\ [][Next]_stage
=============================================================================
