----------------------------- MODULE RunOwnership -----------------------------
(***************************************************************************)
(* What the workflow machinery promises about the runs of a project,       *)
(* whatever the platform, the queue, the lock and the crashes do: a run is *)
(* worked on at most once and by one execution, only while it is the       *)
(* latest run of its project, and no run is admitted during work.          *)
(***************************************************************************)
EXTENDS Naturals

CONSTANTS Project, MaxRuns

Run == Project \X (1..MaxRuns)

VARIABLE state   \* of each run: "absent", "waiting", "working" or "closed"

TypeOK == state \in [Run -> {"absent", "waiting", "working", "closed"}]

Init == state = [r \in Run |-> "absent"]

NoWork(p) == \A n \in 1..MaxRuns : state[<<p, n>>] # "working"

\* The runs of a project exist in the order of their numbers.
IsLatest(r) == /\ state[r] # "absent"
               /\ \A n \in 1..MaxRuns : n > r[2] => state[<<r[1], n>>] = "absent"
IsNext(r) == /\ state[r] = "absent"
             /\ \A n \in 1..MaxRuns : (n < r[2]) <=> (state[<<r[1], n>>] # "absent")

Admit(r) ==
    /\ IsNext(r)
    /\ NoWork(r[1])
    /\ state' = [state EXCEPT ![r] = "waiting"]

Start(r) ==
    /\ state[r] = "waiting"
    /\ IsLatest(r)
    /\ NoWork(r[1])
    /\ state' = [state EXCEPT ![r] = "working"]

\* Work ends, or runs that never worked are given up; a crash ends several.
Close ==
    \E R \in SUBSET {r \in Run : state[r] \in {"waiting", "working"}} :
        /\ R # {}
        /\ state' = [r \in Run |-> IF r \in R THEN "closed" ELSE state[r]]

Next == Close \/ \E r \in Run : Admit(r) \/ Start(r)

Spec == Init /\ [][Next]_state

=============================================================================
