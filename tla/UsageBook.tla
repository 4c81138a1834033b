------------------------------- MODULE UsageBook -------------------------------
(***************************************************************************)
(* What usage accounting promises: the calls of an increment are billed    *)
(* together, to the book and to at most one Review, and never again.       *)
(***************************************************************************)
EXTENDS Naturals

CONSTANTS Ledgers, Book, Targets, Call

VARIABLE billed   \* how often each ledger counts each call

TypeOK == billed \in [Ledgers -> [Call -> Nat]]

Init == billed = [l \in Ledgers |-> [k \in Call |-> 0]]

Unbilled(k) == \A l \in Ledgers : billed[l][k] = 0

Bill(calls, into) ==
    /\ calls # {}
    /\ \A k \in calls : Unbilled(k)
    /\ billed' = [l \in Ledgers |->
           IF l \in into THEN [k \in Call |-> IF k \in calls THEN 1 ELSE billed[l][k]]
                         ELSE billed[l]]

Next == \E calls \in SUBSET Call, into \in Targets : Bill(calls, into)

Spec == Init /\ [][Next]_billed

=============================================================================
