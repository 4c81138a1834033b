---------------------------- MODULE MCUsageLedger ----------------------------
(* Finite instances of UsageLedger.                                         *)
EXTENDS UsageLedger, TLC

CONSTANTS c1, c2, t1, t2, r1, k1, k2, k3

TwoClients == {c1, c2}
TwoThreads == {t1, t2}
OneReview == {r1}
ThreeCalls == {k1, k2, k3}
TwoCalls == {k1, k2}

OwnCoordinators == (t1 :> c1) @@ (t2 :> c2)

\* Calls are interchangeable: no action or safety property names one.
CallSymmetry == Permutations(Call)

=============================================================================
