----------------------------- MODULE MCWebWorkers -----------------------------
(* Finite instances of WebWorkers.                                          *)
EXTENDS WebWorkers, TLC

CONSTANTS p1, w1, w2

OneProject == {p1}
Workers == {w1, w2}

\* Worker processes are interchangeable: no action or safety property names one.
WorkerSymmetry == Permutations(Workers)

=============================================================================
