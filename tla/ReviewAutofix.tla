---------------------------- MODULE ReviewAutofix ----------------------------
(***************************************************************************)
(* How the recommendations of a completed review become formal text: the   *)
(* final fixes of its open issues, the index written before the first      *)
(* change, the publication chapter by chapter, and the alignment of the    *)
(* annotations with the new text.  What happens within a review is         *)
(* ReviewSessions; here it completes or stops in one step.                 *)
(*                                                                         *)
(* An invocation holds the run lock: the user edits between invocations.   *)
(***************************************************************************)
EXTENDS Naturals, Sequences

CONSTANTS
    Passages,       \* paragraphs of the book
    ChapterOf,      \* the number of the chapter of each
    Renderings,     \* texts of a passage
    FirstRendering, \* what the translation left
    MaxAfReviews,   \* bound: review directories
    MaxAfEdits,     \* bound: edits by the user
    MaxAfFailures   \* bound: exceptions and deaths

ASSUME AutofixAssumption ==
    /\ ChapterOf \in [Passages -> Nat] /\ FirstRendering \in Renderings
    /\ {MaxAfReviews, MaxAfEdits, MaxAfFailures} \subseteq Nat

VARIABLES
    afText,     \* the formal targets on disk
    afAligned,  \* the rendering the offsets of the annotations were computed for
    afReviews,  \* the review directories, in the order of their names
    af,         \* the invocation: _run_review_locked
    afEdits, afFailures

afVars == <<afText, afAligned, afReviews, af, afEdits, afFailures>>

NoRendering == "none"
NoIndex == [status |-> "none"]
IdleAutofix == [pc |-> "idle"]
InvokedAutofix == af.pc # "idle"
CurrentReview == afReviews[af.review]
ChaptersOf(rows) == {ChapterOf[p] : p \in DOMAIN rows}

AfTypeOK ==
    /\ afText \in [Passages -> Renderings] /\ afAligned \in [Passages -> Renderings]
    /\ Len(afReviews) <= MaxAfReviews
    /\ \A n \in DOMAIN afReviews : LET r == afReviews[n] IN
         /\ r.status \in {"unfinished", "completed"}
         /\ r.index.status \in {"none", "applying", "completed", "partial"}
         /\ r.index # NoIndex => /\ r.status = "completed"
                                 /\ \A p \in DOMAIN r.index.rows : r.index.rows[p].target \in Renderings
         /\ r.summary \in {"none", "completed", "partial"}
         /\ \A p \in Passages : r.traces[p] # NoRendering => p \in r.open
    /\ af.pc \in {"idle", "session", "plan", "apply", "align", "finish"}
    /\ InvokedAutofix => af.review \in DOMAIN afReviews
    /\ afEdits \in 0..MaxAfEdits /\ afFailures \in 0..MaxAfFailures

AfInit ==
    /\ afText = [p \in Passages |-> FirstRendering]
    /\ afAligned = afText
    /\ afReviews = << >> /\ af = IdleAutofix
    /\ afEdits = 0 /\ afFailures = 0

UpdateReview(review) == afReviews' = [afReviews EXCEPT ![af.review] = review]

-----------------------------------------------------------------------------
(* Between invocations                                                     *)

\* What changes a passage otherwise than the publication of a plan (ghost).
TouchedBut(n, passages) ==
    [m \in DOMAIN afReviews |->
        IF m = n THEN afReviews[m] ELSE [afReviews[m] EXCEPT !.touched = @ \cup passages]]

\* edit_segment.
EditPassage(p, rendering) ==
    /\ ~InvokedAutofix /\ rendering # afText[p]
    /\ afEdits < MaxAfEdits /\ afEdits' = afEdits + 1
    /\ afText' = [afText EXCEPT ![p] = rendering]
    /\ afReviews' = TouchedBut(0, {p})
    /\ UNCHANGED <<afAligned, af, afFailures>>

-----------------------------------------------------------------------------
(* Opening an invocation                                                   *)

Newest == Len(afReviews)
StatusOf(n) == afReviews[n].index.status
Begin(pc, n) == af' = [pc |-> pc, review |-> n]

\* resume_pending looks at the newest review only.
PendingIndex == {n \in DOMAIN afReviews : n = Newest /\ StatusOf(n) = "applying"}
PendingSummary == {n \in DOMAIN afReviews : n = Newest /\ StatusOf(n) \in {"completed", "partial"}
                                              /\ afReviews[n].summary = "none"}

\* The publication as the index on disk describes it; its rows change in memory first.
StartApplying(n, rows) ==
    af' = [pc |-> "apply", review |-> n, rows |-> rows, todo |-> ChaptersOf(rows)]

\* _apply_index of an interrupted publication.
ResumeIndex ==
    /\ ~InvokedAutofix
    /\ \E n \in PendingIndex : StartApplying(n, afReviews[n].index.rows)
    /\ UNCHANGED <<afText, afAligned, afReviews, afEdits, afFailures>>

\* The publication ended, its summary was not written.
ResumeSummary ==
    /\ ~InvokedAutofix /\ PendingIndex = {}
    /\ \E n \in PendingSummary : Begin("finish", n)
    /\ UNCHANGED <<afText, afAligned, afReviews, afEdits, afFailures>>

\* Mutant: the last completed review is planned for whatever the text is now.
SkipsAnyText == {n \in DOMAIN afReviews : n = Newest /\ afReviews[n].status = "completed"}

\* run_session returns the newest review when it is of this text.
Skips == {n \in DOMAIN afReviews :
            n = Newest /\ afReviews[n].status = "completed" /\ afReviews[n].text = afText}

\* It resumes an unfinished review of this text.
Resumes == {n \in DOMAIN afReviews : afReviews[n].status = "unfinished" /\ afReviews[n].text = afText}

OpenSession ==
    /\ ~InvokedAutofix /\ PendingIndex = {} /\ PendingSummary = {}
    /\ IF Skips # {}
       THEN /\ Begin(IF StatusOf(Newest) = "none" THEN "plan" ELSE "finish", Newest)
            /\ UNCHANGED afReviews
       ELSE IF Resumes # {}
       THEN /\ \E n \in Resumes : (\A m \in Resumes : m <= n) /\ Begin("session", n)
            /\ UNCHANGED afReviews
       ELSE /\ Len(afReviews) < MaxAfReviews
            /\ afReviews' = Append(afReviews, [text |-> afText, status |-> "unfinished",
                                               changes |-> afText, open |-> {},
                                               traces |-> [p \in Passages |-> NoRendering],
                                               index |-> NoIndex, summary |-> "none",
                                               touched |-> {}])
            /\ Begin("session", Newest + 1)
    /\ UNCHANGED <<afText, afAligned, afEdits, afFailures>>

\* The review completes: the shadow text it recommends, and the passages whose issues it
\* leaves open.
CompleteReview ==
    /\ af.pc = "session"
    /\ \E changes \in [Passages -> Renderings], open \in SUBSET Passages :
         UpdateReview([CurrentReview EXCEPT !.status = "completed", !.changes = changes, !.open = open])
    /\ Begin("plan", af.review)
    /\ UNCHANGED <<afText, afAligned, afEdits, afFailures>>

-----------------------------------------------------------------------------
(* The plan                                                                *)

\* fix_job: a passage with open issues is verified and fixed once; the trace keeps the
\* patch, the failure, or the dismissal of the issues.
FixPassage(p) ==
    /\ af.pc = "plan" /\ p \in CurrentReview.open /\ CurrentReview.traces[p] = NoRendering
    /\ \E answer \in (Renderings \ {CurrentReview.changes[p]}) \cup {"failed", "dismissed"} :
         UpdateReview([CurrentReview EXCEPT !.traces[p] = answer])
    /\ UNCHANGED <<afText, afAligned, af, afEdits, afFailures>>

\* The overrides: the recommended text, and over it the final fixes.
Planned(p) == IF CurrentReview.traces[p] \in Renderings THEN CurrentReview.traces[p] ELSE CurrentReview.changes[p]
Overridden == {p \in Passages : CurrentReview.changes[p] # afText[p] \/ CurrentReview.traces[p] \in Renderings}

\* save_plan: the index, before anything is changed.
SavePlan ==
    /\ af.pc = "plan"
    /\ \A p \in CurrentReview.open : CurrentReview.traces[p] # NoRendering
    /\ LET rows == [p \in Overridden |-> [before |-> afText[p], target |-> Planned(p),
                                          status |-> "pending", aligned |-> FALSE]] IN
       /\ UpdateReview([CurrentReview EXCEPT !.index = [status |-> "applying", rows |-> rows],
                                             !.touched = {}])
       /\ StartApplying(af.review, rows)
    /\ UNCHANGED <<afText, afAligned, afEdits, afFailures>>

-----------------------------------------------------------------------------
(* The publication                                                         *)

\* One row against the chapter as it is: published already, to be published, or changed
\* by somebody else.
ApplyRow(row, current) ==
    CASE current = row.target -> [row EXCEPT !.status = IF current = row.before THEN "no_net_change"
                                                        ELSE "applied"]
      [] current # row.target /\ current = row.before -> [row EXCEPT !.status = "applied"]
      [] OTHER -> [row EXCEPT !.status = "failed"]

InChapter(c) == {p \in DOMAIN af.rows : ChapterOf[p] = c}

\* The passages whose offsets are not known to be those of the published text.
Unaligned(rows, c) == {p \in InChapter(c) : rows[p].status = "applied" /\ ~rows[p].aligned}

\* In the order of the book the chapter is loaded, its rows applied in memory, and it is
\* saved if it changed.
ApplyChapter ==
    /\ af.pc = "apply"
    /\ \E c \in af.todo :
         LET rows == [p \in DOMAIN af.rows |-> IF p \in InChapter(c) THEN ApplyRow(af.rows[p], afText[p])
                                               ELSE af.rows[p]]
             changed == {p \in InChapter(c) : rows[p].status = "applied" /\ afText[p] = rows[p].before} IN
         /\ \A d \in af.todo : c <= d
         /\ afText' = [p \in Passages |-> IF p \in changed THEN rows[p].target ELSE afText[p]]
         /\ afReviews' = TouchedBut(af.review, changed)
         /\ af' = [pc |-> "align", review |-> af.review, rows |-> rows, todo |-> af.todo \ {c},
                   positions |-> Unaligned(rows, c)]
    /\ UNCHANGED <<afAligned, afEdits, afFailures>>

\* align_annotations_after_batch and align_styles_after_batch of one passage.
AlignPassage ==
    /\ af.pc = "align" /\ af.positions # {}
    /\ \E p \in af.positions :
         /\ afAligned' = [afAligned EXCEPT ![p] = afText[p]]
         /\ af' = [af EXCEPT !.positions = @ \ {p}, !.rows[p].aligned = TRUE]
    /\ UNCHANGED <<afText, afReviews, afEdits, afFailures>>

\* The index is written, the next chapter follows.
WriteRows ==
    /\ af.pc = "align" /\ af.positions = {}
    /\ UpdateReview([CurrentReview EXCEPT !.index = [status |-> "applying", rows |-> af.rows]])
    /\ af' = [pc |-> "apply", review |-> af.review, rows |-> af.rows, todo |-> af.todo]
    /\ UNCHANGED <<afText, afAligned, afEdits, afFailures>>

\* Partial when a row or a final fix failed.
Outcome(rows) ==
    IF (\E p \in DOMAIN rows : rows[p].status = "failed") \/ (\E p \in Passages : CurrentReview.traces[p] = "failed")
    THEN "partial" ELSE "completed"

CloseIndex ==
    /\ af.pc = "apply" /\ af.todo = {}
    /\ UpdateReview([CurrentReview EXCEPT !.index = [status |-> Outcome(af.rows), rows |-> af.rows]])
    /\ Begin("finish", af.review)
    /\ UNCHANGED <<afText, afAligned, afEdits, afFailures>>

\* finish: the summary goes into the result of the review, once.
FinishSummary ==
    /\ af.pc = "finish"
    /\ UpdateReview([CurrentReview EXCEPT !.summary = CurrentReview.index.status])
    /\ af' = IdleAutofix
    /\ UNCHANGED <<afText, afAligned, afEdits, afFailures>>

\* An exception or the death of the process: what was not written is lost.
StopAutofix ==
    /\ InvokedAutofix
    /\ afFailures < MaxAfFailures /\ afFailures' = afFailures + 1
    /\ af' = IdleAutofix
    /\ UNCHANGED <<afText, afAligned, afReviews, afEdits>>

AfWork ==
    \/ CompleteReview \/ SavePlan \/ ApplyChapter \/ AlignPassage \/ WriteRows \/ CloseIndex
    \/ FinishSummary
    \/ \E p \in Passages : FixPassage(p)

AfNext ==
    \/ AfWork
    \/ ResumeIndex \/ ResumeSummary \/ OpenSession \/ StopAutofix
    \/ \E p \in Passages, r \in Renderings : EditPassage(p, r)

AfSpec == AfInit /\ [][AfNext]_afVars

-----------------------------------------------------------------------------
(* Properties                                                              *)

\* A publication replaces the very text the review has read: neither a word of the user
\* nor that of a later review is overwritten by a recommendation made without them.
OnlyReviewedTextIsReplaced ==
    [][InvokedAutofix => \A p \in Passages :
          afText'[p] # afText[p] => afText[p] = CurrentReview.text[p]]_afVars

\* Every passage a plan says it published and nobody changed since then carries the text
\* of the plan, and from the moment the index is closed its annotations are aligned with
\* that text, wherever the publication was interrupted.
PublishedTextIsAligned ==
    \A n \in DOMAIN afReviews : LET r == afReviews[n] IN
        r.index # NoIndex => \A p \in DOMAIN r.index.rows \ r.touched :
            r.index.rows[p].status = "applied" =>
                /\ afText[p] = r.index.rows[p].target
                /\ r.index.status # "applying" => afAligned[p] = afText[p]

\* A passage fails only because somebody else changed it: a publication that was
\* interrupted recognises its own work.
FailuresAreForeign ==
    \A n \in DOMAIN afReviews : LET r == afReviews[n] IN
        r.index # NoIndex => \A p \in DOMAIN r.index.rows :
            r.index.rows[p].status = "failed" => p \in r.touched

\* The summary in the result of a review is that of a closed index whose rows are all
\* settled; it says "completed" only if every recommendation is in the book or was
\* refuted.
SummariesAreTrue ==
    \A n \in DOMAIN afReviews : LET r == afReviews[n] IN
        r.summary # "none" =>
            /\ r.index.status = r.summary
            /\ \A p \in DOMAIN r.index.rows : r.index.rows[p].status # "pending"
            /\ r.summary = "completed" =>
                 \A p \in DOMAIN r.index.rows : r.index.rows[p].status # "failed"

\* The index of a publication tells what became of each passage.
IndexTellsTheTruth == PublishedTextIsAligned /\ FailuresAreForeign /\ SummariesAreTrue

=============================================================================
