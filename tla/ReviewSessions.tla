---------------------------- MODULE ReviewSessions ----------------------------
(***************************************************************************)
(* The whole-book review of one book: rounds of blind scans and shadow     *)
(* fixes, the checkpoint and the caches each leaves on disk, and how a     *)
(* later invocation reuses a completed review or resumes an unfinished     *)
(* one.  An invocation holds the run lock, so the book changes only        *)
(* between invocations; what publishes the changes is ReviewAutofix.       *)
(*                                                                         *)
(* A block of the scan is one paragraph.  Events, usage, the diagnostic    *)
(* files and the status of a patch, which is only reported, are left out.  *)
(***************************************************************************)
EXTENDS Naturals, FiniteSets, SequencesExt, FiniteSetsExt, Functions

CONSTANTS
    Paragraphs,
    Wordings,        \* of a paragraph
    Formal,          \* the wording a review begins with
    Issues,          \* issue keys, stable over the rounds
    Where,           \* the paragraph of each
    Editions,        \* what a review depends on: the content, the glossary, and of the
                     \* configuration fix_loop, fix_max_rounds and clean_confirmations
    MaxReviews,      \* bound: review directories
    MaxRevEdits,     \* bound: changes of the edition
    MaxRevFailures   \* bound: exceptions and deaths

ASSUME ReviewAssumption ==
    /\ Formal \in Wordings /\ Where \in [Issues -> Paragraphs]
    /\ {"none", "failed"} \cap Wordings = {}
    /\ \A e \in Editions :
         /\ DOMAIN e = {"content", "glossary", "loop", "fixes", "clean"}
         /\ e.loop \in BOOLEAN /\ e.fixes \in Nat /\ e.clean \in Nat \ {0}
    /\ {MaxReviews, MaxRevEdits, MaxRevFailures} \subseteq Nat

VARIABLES
    revEdition,   \* what the book and the configuration are now
    reviews,      \* the review directories, in the order of their names
    rev,          \* the invocation: ReviewService.run_session and its session state
    revReturned,  \* the review of the last outcome, or 0 after a change of the edition
    revEdits, revFailures

revVars == <<revEdition, reviews, rev, revReturned, revEdits, revFailures>>

\* ReviewPolicy.
RequiredClean(policy) == IF policy.loop THEN policy.clean ELSE 1
MaxRounds(policy) == IF policy.loop THEN (policy.fixes + 1) * RequiredClean(policy) ELSE 1

FormalText == [p \in Paragraphs |-> Formal]
IssuesAt(p) == {i \in Issues : Where[i] = p}
Resumable(status) == status \in {"running", "interrupted", "failed"}

NoScan == [issues |-> {}, unfixable |-> {}, round |-> 0]
NoCheckpoint == [phase |-> "none"]
NoResult == [termination |-> "none"]
NoProposal == "none"
FailedProposal == "failed"
IdleReview == [pc |-> "idle"]

\* ReviewSessionState, as far as the checkpoint keeps it.
FreshState == [overlay |-> FormalText, seen |-> {FormalText}, active |-> {}, blocked |-> {},
               streak |-> 0, fixes |-> 0, rounds |-> << >>]

Reviewing == rev.pc # "idle"
Current == reviews[rev.review]
Policy == Current.edition
InScan(r, p) == {b \in Current.blocks : b.round = r /\ b.at = p}

RevTypeOK ==
    /\ revEdition \in Editions
    /\ Len(reviews) <= MaxReviews
    /\ \A n \in DOMAIN reviews :
         /\ reviews[n].edition \in Editions
         /\ reviews[n].status \in {"created", "running", "interrupted", "failed", "completed"}
         /\ \A b \in reviews[n].blocks : b.round \in 1..MaxRounds(reviews[n].edition) /\ b.issues \subseteq IssuesAt(b.at)
         /\ \A b, d \in reviews[n].blocks : b.round = d.round /\ b.at = d.at => b = d
         /\ reviews[n].status = "completed" => reviews[n].result # NoResult
    /\ rev.pc \in {"idle", "create", "scan", "decide", "fix", "limit", "result", "usage"}
    /\ rev.pc \notin {"idle", "create"} =>
         /\ rev.round \in 1..MaxRounds(Policy)
         /\ rev.state.overlay \in [Paragraphs -> Wordings] /\ rev.state.overlay \in rev.state.seen
         /\ rev.state.blocked \subseteq Issues /\ rev.state.fixes \in 0..Policy.fixes
         /\ \A a, b \in rev.state.active : a.at = b.at => a = b
    /\ revReturned \in 0..Len(reviews)
    /\ revEdits \in 0..MaxRevEdits /\ revFailures \in 0..MaxRevFailures

RevInit ==
    /\ revEdition \in Editions
    /\ reviews = << >> /\ rev = IdleReview /\ revReturned = 0
    /\ revEdits = 0 /\ revFailures = 0

Step(pc) == rev' = [rev EXCEPT !.pc = pc]
Write(review) == reviews' = [reviews EXCEPT ![rev.review] = review]

\* ReviewCheckpoint.save.
Checkpoint(phase, next, state, latest) ==
    [phase |-> phase, next |-> next, state |-> state, latest |-> latest]

-----------------------------------------------------------------------------
(* Opening a session                                                       *)

\* The user edits a chapter, or the glossary or the configuration changes.
ChangeEdition(edition) ==
    /\ ~Reviewing /\ edition # revEdition
    /\ revEdits < MaxRevEdits /\ revEdits' = revEdits + 1
    /\ revEdition' = edition
    /\ revReturned' = 0
    /\ UNCHANGED <<reviews, rev, revFailures>>

\* load_latest_review_result: of the newest directory that has a result.
WithResult == {n \in DOMAIN reviews : reviews[n].status # "created"}

\* The completed review whose outcome is returned again.
Reusable ==
    {n \in WithResult : n = Max(WithResult) /\ reviews[n].status = "completed"
                          /\ reviews[n].edition = revEdition}

\* find_resumable takes the newest of them.
Matches == {n \in WithResult : Resumable(reviews[n].status) /\ reviews[n].edition = revEdition}

\* A review that stopped after its last round goes through the last round again.
ResumedRound(review) ==
    IF review.checkpoint = NoCheckpoint THEN 1
    ELSE Min({review.checkpoint.next, MaxRounds(review.edition)})

\* Mutant: of the overlays, only the one in force is restored.
ForgetfulState(review) ==
    IF review.checkpoint = NoCheckpoint THEN FreshState
    ELSE [review.checkpoint.state EXCEPT !.seen = {review.checkpoint.state.overlay}]

ResumedState(review) ==
    IF review.checkpoint = NoCheckpoint THEN FreshState ELSE review.checkpoint.state

\* A finished scan is decided upon without scanning again.
ResumedScan(review) ==
    IF review.checkpoint # NoCheckpoint /\ review.checkpoint.phase = "scan_done"
    THEN review.checkpoint.latest ELSE NoScan

\* ReviewCheckpoint.restore.
Restore(n) ==
    [pc |-> IF ResumedScan(reviews[n]) = NoScan THEN "scan" ELSE "decide", review |-> n,
     round |-> ResumedRound(reviews[n]), state |-> ResumedState(reviews[n]),
     latest |-> ResumedScan(reviews[n]), termination |-> "not_started"]

SkipReview ==
    /\ ~Reviewing /\ Reusable # {}
    /\ revReturned' = Max(Reusable)
    /\ UNCHANGED <<revEdition, reviews, rev, revEdits, revFailures>>

ResumeReview ==
    /\ ~Reviewing /\ Reusable = {} /\ Matches # {}
    /\ LET n == Max(Matches) IN
       /\ rev' = Restore(n)
       /\ reviews' = [reviews EXCEPT ![n].status = "running"]
    /\ UNCHANGED <<revEdition, revReturned, revEdits, revFailures>>

\* The directory of ReviewRunStore, which has no result yet.
CreateReview ==
    /\ ~Reviewing /\ Reusable = {} /\ Matches = {} /\ Len(reviews) < MaxReviews
    /\ reviews' = Append(reviews, [edition |-> revEdition, status |-> "created",
                                   checkpoint |-> NoCheckpoint, blocks |-> {}, patches |-> {},
                                   result |-> NoResult, tried |-> << >>, unfixed |-> {},
                                   decided |-> << >>])
    /\ rev' = [pc |-> "create", review |-> Len(reviews) + 1]
    /\ UNCHANGED <<revEdition, revReturned, revEdits, revFailures>>

\* start: the metadata, then the running result.
StartReview ==
    /\ rev.pc = "create"
    /\ Write([Current EXCEPT !.status = "running"])
    /\ rev' = Restore(rev.review)
    /\ UNCHANGED <<revEdition, revReturned, revEdits, revFailures>>

-----------------------------------------------------------------------------
(* One round                                                               *)

\* review_once: the block is screened and verified, and its result is cached.
ScanBlock(p) ==
    /\ rev.pc = "scan" /\ InScan(rev.round, p) = {}
    /\ \E found \in SUBSET IssuesAt(p) :
         Write([Current EXCEPT !.blocks = @ \cup {[round |-> rev.round, at |-> p, issues |-> found,
                                                   saw |-> rev.state.overlay]}])
    /\ UNCHANGED <<revEdition, rev, revReturned, revEdits, revFailures>>

\* review_round ends: the blocks of the round, new and cached; arbitration keeps every
\* issue and may leave it, as a degraded agent does, unfit to be fixed.
FinishScan ==
    /\ rev.pc = "scan"
    /\ \A p \in Paragraphs : InScan(rev.round, p) # {}
    /\ LET found == UNION {b.issues : b \in {d \in Current.blocks : d.round = rev.round}} IN
       \E unfixable \in SUBSET found :
         LET latest == [issues |-> found, unfixable |-> unfixable, round |-> rev.round] IN
         /\ rev' = [rev EXCEPT !.pc = "decide", !.latest = latest]
         /\ Write([Current EXCEPT !.checkpoint = Checkpoint("scan_done", rev.round, rev.state, latest),
                                   !.decided = Append(@, rev.round)])
    /\ UNCHANGED <<revEdition, revReturned, revEdits, revFailures>>

\* after_scan: a failed fix stays blocked until an active patch of an earlier round that
\* covers it is not reported again.
StillBlocked(state) ==
    state.blocked \ UNION {a.issues \ rev.latest.issues : a \in {b \in state.active : b.round < rev.round}}

Verdict(state, blocked, streak) ==
    CASE rev.latest.issues = {} /\ blocked # {}                  -> "unresolved_fixes"
      [] rev.latest.issues = {} /\ streak >= RequiredClean(Policy) -> "clean_confirmed"
      [] rev.latest.issues = {}                                  -> "continue"
      [] OTHER -> IF ~Policy.loop THEN "issues_reported"
                  ELSE IF state.fixes >= Policy.fixes THEN "max_rounds" ELSE "fix"

Summary(streak) == [round |-> rev.round, clean |-> rev.latest.issues = {}, streak |-> streak]

\* The loop goes on with the next round, or reaches its limit.
NextRound(state) ==
    rev' = IF rev.round < MaxRounds(Policy)
           THEN [review |-> rev.review, pc |-> "scan", round |-> rev.round + 1, state |-> state,
                 latest |-> rev.latest, termination |-> rev.termination]
           ELSE [review |-> rev.review, pc |-> "limit", round |-> rev.round, state |-> state,
                 latest |-> rev.latest, termination |-> rev.termination]

\* after_scan, and the end of a round that fixes nothing.
Decide ==
    /\ rev.pc = "decide"
    /\ LET blocked == StillBlocked(rev.state)
           clean == rev.latest.issues = {} /\ blocked = {}
           streak == IF clean THEN rev.state.streak + 1 ELSE 0
           verdict == Verdict(rev.state, blocked, streak)
           judged == [rev.state EXCEPT !.blocked = blocked, !.streak = streak]
           ended == [judged EXCEPT !.rounds = Append(@, Summary(streak))] IN
       IF verdict = "fix"
       THEN /\ rev' = [pc |-> "fix", review |-> rev.review, round |-> rev.round, state |-> judged,
                       latest |-> rev.latest, termination |-> rev.termination,
                       proposals |-> [p \in Paragraphs |-> NoProposal]]
            /\ UNCHANGED reviews
       ELSE /\ Write([Current EXCEPT !.checkpoint = Checkpoint("round_done", rev.round + 1, ended, NoScan)])
            /\ IF verdict = "continue" THEN NextRound(ended)
               ELSE rev' = [rev EXCEPT !.pc = "result", !.state = ended, !.termination = verdict]
    /\ UNCHANGED <<revEdition, revReturned, revEdits, revFailures>>

-----------------------------------------------------------------------------
(* Shadow fixes                                                            *)

Fixable(p) == (rev.latest.issues \ rev.latest.unfixable) \cap IssuesAt(p)

\* The finished trace of a fixer, when it is about this round, text and these issues.
Traces(p) ==
    {t \in Current.patches : t.at = p /\ t.round = rev.round /\ t.before = rev.state.overlay[p]
                               /\ t.issues = Fixable(p)}

\* propose: a cached patch, or a new one, which always changes the paragraph.
ProposePatch(p) ==
    /\ rev.pc = "fix" /\ Fixable(p) # {} /\ rev.proposals[p] = NoProposal
    /\ IF Traces(p) # {}
       THEN /\ rev' = [rev EXCEPT !.proposals[p] = (CHOOSE t \in Traces(p) : TRUE).after]
            /\ UNCHANGED reviews
       ELSE \E after \in Wordings \ {rev.state.overlay[p]} :
              /\ rev' = [rev EXCEPT !.proposals[p] = after]
              /\ Write([Current EXCEPT !.patches =
                      {t \in @ : t.at # p \/ t.round # rev.round}
                        \cup {[at |-> p, round |-> rev.round, before |-> rev.state.overlay[p],
                               issues |-> Fixable(p), after |-> after]}])
    /\ UNCHANGED <<revEdition, revReturned, revEdits, revFailures>>

\* An answer outside the protocol: the issues of the paragraph stay.
FailPatch(p) ==
    /\ rev.pc = "fix" /\ Fixable(p) # {} /\ rev.proposals[p] = NoProposal
    /\ Traces(p) = {}
    /\ rev' = [rev EXCEPT !.proposals[p] = FailedProposal]
    /\ UNCHANGED <<revEdition, reviews, revReturned, revEdits, revFailures>>

Answered(p) == rev.proposals[p] # NoProposal

\* prepare_fix, after_fix and the checkpoint of the round.
FinishFix ==
    /\ rev.pc = "fix"
    /\ \A p \in Paragraphs : Fixable(p) # {} => Answered(p)
    /\ LET patched == {p \in Paragraphs : rev.proposals[p] \in Wordings}
           failed == rev.latest.issues \ UNION {Fixable(p) : p \in patched}
           candidate == [p \in Paragraphs |-> IF p \in patched THEN rev.proposals[p]
                                              ELSE rev.state.overlay[p]]
           refused == [rev.state EXCEPT !.blocked = @ \cup failed,
                                        !.rounds = Append(@, Summary(0))]
           accepted == [refused EXCEPT
               !.overlay = candidate, !.seen = @ \cup {candidate}, !.fixes = @ + 1,
               !.active = {a \in @ : a.at \notin patched}
                            \cup {[at |-> p, round |-> rev.round, issues |-> Fixable(p)] : p \in patched}]
           advanced == patched # {} /\ candidate \notin rev.state.seen
           state == IF advanced THEN accepted ELSE refused IN
       /\ Write([Current EXCEPT
               !.checkpoint = Checkpoint("round_done", rev.round + 1, state, NoScan),
               !.unfixed = @ \cup {[issue |-> i, round |-> rev.round] : i \in failed},
               !.tried = IF advanced THEN Append(@, candidate) ELSE @])
       /\ IF advanced THEN NextRound(state)
          ELSE rev' = [review |-> rev.review, pc |-> "result", round |-> rev.round, state |-> state,
                       latest |-> rev.latest,
                       termination |-> IF patched = {} THEN "no_progress" ELSE "cycle_detected"]
    /\ UNCHANGED <<revEdition, revReturned, revEdits, revFailures>>

-----------------------------------------------------------------------------
(* The end of a session                                                    *)

\* The else clause of the loop.
ReachLimit ==
    /\ rev.pc = "limit"
    /\ rev' = [rev EXCEPT !.pc = "result", !.termination = "max_rounds"]
    /\ Write([Current EXCEPT
            !.checkpoint = Checkpoint("round_done", MaxRounds(Policy) + 1, rev.state, NoScan)])
    /\ UNCHANGED <<revEdition, revReturned, revEdits, revFailures>>

\* effective_issues.
Unresolved(state) == rev.latest.issues \cup state.blocked

\* write_completed.
WriteCompleted ==
    /\ rev.pc = "result"
    /\ Step("usage")
    /\ Write([Current EXCEPT
            !.status = "completed",
            !.result = [termination |-> rev.termination, issues |-> Unresolved(rev.state),
                        overlay |-> rev.state.overlay, rounds |-> rev.state.rounds]])
    /\ UNCHANGED <<revEdition, revReturned, revEdits, revFailures>>

\* The usage is flushed and the outcome returned.
ReturnReview ==
    /\ rev.pc = "usage"
    /\ rev' = IdleReview /\ revReturned' = rev.review
    /\ UNCHANGED <<revEdition, reviews, revEdits, revFailures>>

\* An exception: write_partial or mark_interrupted overwrite the result, a completed one
\* too.  Before start there is nothing to write to.
FailReview ==
    /\ Reviewing
    /\ revFailures < MaxRevFailures /\ revFailures' = revFailures + 1
    /\ IF rev.pc = "create" THEN UNCHANGED reviews
       ELSE \E status \in {"interrupted", "failed"} : Write([Current EXCEPT !.status = status])
    /\ rev' = IdleReview
    /\ UNCHANGED <<revEdition, revReturned, revEdits>>

\* The process dies.
DieReviewing ==
    /\ Reviewing
    /\ revFailures < MaxRevFailures /\ revFailures' = revFailures + 1
    /\ rev' = IdleReview
    /\ UNCHANGED <<revEdition, reviews, revReturned, revEdits>>

RevWork ==
    \/ StartReview \/ FinishScan \/ Decide \/ FinishFix \/ ReachLimit \/ WriteCompleted
    \/ ReturnReview
    \/ \E p \in Paragraphs : ScanBlock(p) \/ ProposePatch(p) \/ FailPatch(p)

RevNext ==
    \/ RevWork
    \/ SkipReview \/ ResumeReview \/ CreateReview
    \/ FailReview \/ DieReviewing
    \/ \E e \in Editions : ChangeEdition(e)

RevSpec == RevInit /\ [][RevNext]_revVars

\* A run, once begun, works until it ends; nobody has to ask for a review.
RevFairness == WF_revVars(RevWork)
RevFairSpec == RevSpec /\ RevFairness

-----------------------------------------------------------------------------
(* Properties                                                              *)

CompletedReviews == {n \in DOMAIN reviews : reviews[n].status = "completed"}

\* The outcome of an invocation is that of a completed review of the book, the settings
\* and the glossary as they are, whether it was reused, resumed or made.
OutcomesMatchTheBook ==
    revReturned # 0 =>
        /\ reviews[revReturned].status = "completed"
        /\ reviews[revReturned].edition = revEdition

\* However a review stopped, the next invocation goes on with it: no two unfinished
\* reviews are of the same edition, so nothing that was paid for is left behind.
NoReviewIsAbandoned ==
    \A m, n \in DOMAIN reviews :
        Resumable(reviews[m].status) /\ Resumable(reviews[n].status)
          /\ reviews[m].edition = reviews[n].edition => m = n

\* The shadow never returns to a text it had, over all the invocations of a review: the
\* loop cannot go back and forth between two wordings.
ShadowsDiffer ==
    \A n \in DOMAIN reviews : IsInjective(<<FormalText>> \o reviews[n].tried)

\* A finished scan is decided upon by itself: no round is scanned and arbitrated twice
\* over, except the last one, which a review that stopped between its last checkpoint
\* and its result goes through again.
ScansAreDecidedOnce ==
    \A n \in DOMAIN reviews : \A i, j \in DOMAIN reviews[n].decided :
        i < j /\ reviews[n].decided[i] = reviews[n].decided[j] => reviews[n].decided[i] = MaxRounds(reviews[n].edition)

\* A completed review reports every issue whose fix failed, unless a patch covered it and
\* a later blind scan did not report it any more: an omission of the reviewer alone does
\* not make a book clean.  (The patch may be older than the failure.)
FailedFixesAreReported ==
    \A n \in CompletedReviews : \A u \in reviews[n].unfixed :
        \/ u.issue \in reviews[n].result.issues
        \/ \E t \in reviews[n].patches : \E b \in reviews[n].blocks :
             /\ u.issue \in t.issues /\ b.at = t.at
             /\ b.round > t.round /\ b.round > u.round /\ u.issue \notin b.issues

\* A book is confirmed clean after as many clean scans as the configuration asks for, all
\* of the text the review ends with, and with no issue left, unless the last round was
\* gone through again after an interruption and its scan counted twice.
CleanIsConfirmed ==
    \A n \in CompletedReviews :
        LET review == reviews[n]
            rounds == review.result.rounds
            last == SubSeq(rounds, Len(rounds) - RequiredClean(review.edition) + 1, Len(rounds)) IN
        review.result.termination = "clean_confirmed" =>
            /\ review.result.issues = {} /\ Len(rounds) >= RequiredClean(review.edition)
            /\ \A k \in DOMAIN last : last[k].clean
            /\ \A b \in review.blocks : (\E k \in DOMAIN last : last[k].round = b.round) =>
                 b.issues = {} /\ b.saw = review.result.overlay
            /\ \/ Cardinality({last[k].round : k \in DOMAIN last}) = RequiredClean(review.edition)
               \/ last[Len(last)].round = MaxRounds(review.edition)

\* A review goes on with what it has decided, and only its own book is its business.
ReviewsGoOn == OutcomesMatchTheBook /\ NoReviewIsAbandoned /\ ScansAreDecidedOnce /\ ShadowsDiffer

\* What a completed review says of the book is what its scans and fixes support.
VerdictsAreSupported == FailedFixesAreReported /\ CleanIsConfirmed

\* Every invocation ends: the rounds are bounded, whatever the reviewer and the fixers
\* answer and however often the review was interrupted before.
ReviewsEnd == Reviewing ~> ~Reviewing

=============================================================================
