--------------------------- MODULE MCDesktopRuntime ---------------------------
(* Finite instances of DesktopRuntime.                                      *)
EXTENDS DesktopRuntime, TLC

CONSTANTS p1, w1, w2, rec

OneProject == {p1}
Slots == {w1, w2}
Interrupters == {w1, w2, rec}

\* Runs that follow one another through a single slot.
OneSlot == {w1}
SlotInterrupters == {w1, rec}

\* The slots are interchangeable: no action or safety property names one.
SlotSymmetry == Permutations(Slots)

=============================================================================
