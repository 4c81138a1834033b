---------------------------- MODULE ProviderRequests ----------------------------
(***************************************************************************)
(* Model calls of one invocation: the routes of a call, the attempts on a  *)
(* route, and the limits all calls share (RequestLimits): permits of a     *)
(* connection, the sliding minute of a quota group, and the budgets of     *)
(* requests and tokens.  Calls run in threads of their own.                *)
(*                                                                         *)
(* Time is the age of a reservation in ticks; all connections belong to    *)
(* one quota group.                                                        *)
(***************************************************************************)
EXTENDS Naturals, FiniteSets, FiniteSetsExt, SequencesExt

CONSTANTS
    Call,              \* threads, each with one call
    Connection,
    Routes,            \* the connections of a call's routes, the primary first
    Permits,           \* max_concurrency of each connection
    MaxRetries,
    Minute,            \* length of the window in ticks
    RPM, TPM,          \* requests_per_minute, tokens_per_minute
    MaxRequests, MaxTokens,   \* budgets of the invocation
    Estimate,          \* tokens reserved for a request
    Actual             \* tokens a reply may report

ASSUME RequestAssumption ==
    /\ Routes \in Seq(Connection) /\ Routes # << >>
    /\ Permits \in [Connection -> Nat \ {0}]
    /\ MaxRetries \in Nat
    /\ {Minute, RPM, Estimate} \subseteq Nat \ {0}
    /\ {TPM, MaxRequests, MaxTokens} \subseteq Nat
    /\ Actual \subseteq 1..Estimate

VARIABLES
    call,       \* what the thread of each call does: pc, route, attempts on it
    active,     \* permits taken, per connection
    window,     \* the reservations of the quota group, oldest first
    requests,   \* requests started
    reservedTokens,
    requestStop,    \* cancelled, or the deadline has passed
    startAges,      \* how long ago each request was started, in their order (ghost)
    billed,         \* tokens requests may have cost (ghost)
    lateStarts      \* requests a call has started after the stop (ghost)

requestLimits == <<active, window, requests, reservedTokens, startAges, billed, lateStarts>>
requestVars == <<call, requestLimits, requestStop>>

Ended == {"completed", "failed", "stopped"}

RequestTypeOK ==
    /\ call \in [Call -> [pc : {"idle", "route", "waiting", "checked", "requesting", "backoff"} \cup Ended,
                          route : 1..Len(Routes), tries : 0..MaxRetries + 1]]
    /\ active \in [Connection -> Nat]
    /\ window \in Seq([age : 0..Minute, tokens : 1..Estimate, by : Call, held : BOOLEAN])
    /\ requests \in 0..MaxRequests
    /\ reservedTokens \in Nat /\ billed \in Nat
    /\ requestStop \in BOOLEAN
    /\ startAges \in Seq(0..Minute)
    /\ lateStarts \in [Call -> Nat]

RequestInit ==
    /\ call = [k \in Call |-> [pc |-> "idle", route |-> 1, tries |-> 0]]
    /\ active = [c \in Connection |-> 0]
    /\ window = << >>
    /\ requests = 0 /\ reservedTokens = 0 /\ billed = 0
    /\ requestStop = FALSE
    /\ startAges = << >>
    /\ lateStarts = [k \in Call |-> 0]

CallGoes(k, pc) == call' = [call EXCEPT ![k].pc = pc]
ConnectionOf(k) == Routes[call[k].route]

-----------------------------------------------------------------------------
(* RequestLimits.attempt                                                   *)

\* What is left of a window when its front is popped up to the first reservation kept.
From(w, kept) == IF kept = {} THEN << >> ELSE SubSeq(w, Min(kept), Len(w))

\* Reservations of a minute ago leave the window at the front.
Pruned(w) == From(w, {n \in DOMAIN w : w[n].age < Minute})

TokensIn(w) == FoldSeq(LAMBDA r, sum : sum + r.tokens, 0, w)

NobodyActive == \A c \in Connection : active[c] = 0
OverTokens == reservedTokens + Estimate > MaxTokens

\* Mutant: whoever finds no tokens waits for them.
RefusedNever ==
    \/ Estimate > TPM
    \/ requests >= MaxRequests

\* A wait for tokens makes sense only while a request in flight may give some back.
Refused ==
    \/ Estimate > TPM
    \/ requests >= MaxRequests
    \/ OverTokens /\ NobodyActive

MustWait(k) ==
    \/ OverTokens
    \/ active[ConnectionOf(k)] >= Permits[ConnectionOf(k)]
    \/ Len(Pruned(window)) >= RPM
    \/ TokensIn(Pruned(window)) + Estimate > TPM

\* check: a stop is noticed before every look at the limits, never while they are
\* held.
CheckStop(k) ==
    /\ call[k].pc = "waiting"
    /\ CallGoes(k, IF requestStop THEN "stopped" ELSE "checked")
    /\ UNCHANGED <<requestLimits, requestStop>>

\* One pass of the loop under the condition: refuse, wait for a change or 0.1 s, or take all
\* the limits at once.
TakePermit(k) ==
    /\ call[k].pc = "checked"
    /\ IF Refused THEN
            /\ CallGoes(k, "stopped")
            /\ window' = Pruned(window)
            /\ UNCHANGED <<active, requests, reservedTokens, startAges, billed, lateStarts>>
       ELSE IF MustWait(k) THEN
            /\ CallGoes(k, "waiting")
            /\ window' = Pruned(window)
            /\ UNCHANGED <<active, requests, reservedTokens, startAges, billed, lateStarts>>
       ELSE /\ call' = [call EXCEPT ![k].pc = "requesting", ![k].tries = @ + 1]
            /\ active' = [active EXCEPT ![ConnectionOf(k)] = @ + 1]
            /\ window' = Append(Pruned(window),
                                [age |-> 0, tokens |-> Estimate, by |-> k, held |-> TRUE])
            /\ requests' = requests + 1
            /\ reservedTokens' = reservedTokens + Estimate
            /\ startAges' = Append(startAges, 0)
            /\ lateStarts' = [lateStarts EXCEPT ![k] = IF requestStop THEN @ + 1 ELSE @]
            /\ UNCHANGED billed
    /\ UNCHANGED requestStop

\* The end of an attempt: the reservation becomes what the reply has reported; a
\* request without a report keeps its estimate.  Only then may the thread go on.
GiveBack(k, tokens) ==
    /\ active' = [active EXCEPT ![ConnectionOf(k)] = @ - 1]
    /\ window' = [n \in DOMAIN window |->
          IF window[n].by = k /\ window[n].held
          THEN [window[n] EXCEPT !.tokens = tokens, !.held = FALSE] ELSE window[n]]
    /\ reservedTokens' = reservedTokens + tokens - Estimate
    /\ billed' = billed + tokens
    /\ UNCHANGED <<requests, startAges, lateStarts, requestStop>>

-----------------------------------------------------------------------------
(* The retries of a route and the routes of a call                         *)

BeginCall(k) ==
    /\ call[k].pc = "idle"
    /\ CallGoes(k, "route")
    /\ UNCHANGED <<requestLimits, requestStop>>

BeginRoute(k) ==
    /\ call[k].pc = "route"
    /\ CallGoes(k, IF requestStop THEN "stopped" ELSE "waiting")
    /\ UNCHANGED <<requestLimits, requestStop>>

RequestSucceeds(k) ==
    /\ call[k].pc = "requesting"
    /\ CallGoes(k, "completed")
    /\ \E tokens \in Actual \cup {Estimate} : GiveBack(k, tokens)

\* Mutant: one attempt too many on a route.
RequestFailsOnceMore(k) ==
    /\ call[k].pc = "requesting"
    /\ call' = [call EXCEPT ![k] =
          IF @.tries <= MaxRetries + 1 THEN [@ EXCEPT !.pc = "backoff"]
          ELSE IF @.route < Len(Routes) THEN [pc |-> "route", route |-> @.route + 1, tries |-> 0]
          ELSE [@ EXCEPT !.pc = "failed"]]
    /\ \E tokens \in Actual \cup {Estimate} : GiveBack(k, tokens)

\* A transient error is retried on its route, then on the next; the wait holds no permit.
RequestFailsForNow(k) ==
    /\ call[k].pc = "requesting"
    /\ call' = [call EXCEPT ![k] =
          IF @.tries <= MaxRetries THEN [@ EXCEPT !.pc = "backoff"]
          ELSE IF @.route < Len(Routes) THEN [pc |-> "route", route |-> @.route + 1, tries |-> 0]
          ELSE [@ EXCEPT !.pc = "failed"]]
    /\ \E tokens \in Actual \cup {Estimate} : GiveBack(k, tokens)

\* A permanent one ends the call, whatever routes are left.
RequestFails(k) ==
    /\ call[k].pc = "requesting"
    /\ CallGoes(k, "failed")
    /\ GiveBack(k, Estimate)

\* wait_for_retry looks for a stop before it returns.
EndBackoff(k) ==
    /\ call[k].pc = "backoff"
    /\ CallGoes(k, IF requestStop THEN "stopped" ELSE "waiting")
    /\ UNCHANGED <<requestLimits, requestStop>>

\* cancel, or the deadline of the budget.
StopRequests ==
    /\ ~requestStop
    /\ requestStop' = TRUE
    /\ UNCHANGED <<call, requestLimits>>

Older(age) == IF age < Minute THEN age + 1 ELSE age

Tick ==
    /\ \E n \in DOMAIN window : window[n].age < Minute
    /\ window' = [n \in DOMAIN window |-> [window[n] EXCEPT !.age = Older(@)]]
    /\ startAges' = [n \in DOMAIN startAges |-> Older(startAges[n])]
    /\ UNCHANGED <<call, active, requests, reservedTokens, billed, lateStarts, requestStop>>

Reply(k) == RequestSucceeds(k) \/ RequestFailsForNow(k) \/ RequestFails(k)
CallStep(k) == BeginRoute(k) \/ CheckStop(k) \/ TakePermit(k) \/ Reply(k) \/ EndBackoff(k)

RequestNext ==
    \/ \E k \in Call : BeginCall(k) \/ CallStep(k)
    \/ StopRequests
    \/ Tick

RequestSpec == RequestInit /\ [][RequestNext]_requestVars

\* Threads run, providers answer or time out, and time passes.
RequestFairness == (\A k \in Call : WF_requestVars(CallStep(k))) /\ WF_requestVars(Tick)
RequestFairSpec == RequestSpec /\ RequestFairness

-----------------------------------------------------------------------------
(* Properties                                                              *)

Requesting(c) == {k \in Call : call[k].pc = "requesting" /\ ConnectionOf(k) = c}

\* A permit is held exactly while a request is in flight, never in a wait for a
\* retry or for another limit, whichever way the attempt ends.
PermitsAreRequests ==
    \A c \in Connection :
        active[c] = Cardinality(Requesting(c)) /\ active[c] <= Permits[c]

\* No minute, wherever it starts, sees more requests than the quota allows.
RateIsRespected == Cardinality({n \in DOMAIN startAges : startAges[n] < Minute}) <= RPM

\* What requests may have cost never exceeds the token budget, counting those in
\* flight with their estimate.
TokensWithinBudget ==
    billed + Estimate * Cardinality({k \in Call : call[k].pc = "requesting"}) <= MaxTokens

\* After a stop a call starts at most the request it was about to start: no retry and no
\* other route follows.
StopEndsCalls == \A k \in Call : lateStarts[k] <= 1

\* Concurrency, rate and budget hold together, over retries, routes and stops.
LimitsHold == PermitsAreRequests /\ RateIsRespected /\ TokensWithinBudget /\ StopEndsCalls

\* Nobody waits for ever for a limit: every call completes, fails or is stopped.
CallsEnd == \A k \in Call : (call[k].pc # "idle") ~> (call[k].pc \in Ended)

=============================================================================
