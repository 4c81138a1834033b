---------------------------- MODULE TranslationBatches ----------------------------
(***************************************************************************)
(* The translation of one prepared book: chapters and batches in order,    *)
(* what each step leaves on disk, and how a later invocation goes on from  *)
(* there, with another batch size or in the other mode.  An invocation     *)
(* holds the run lock, so the user edits between invocations only.         *)
(*                                                                         *)
(* A text is a number: 0 is none, 1 the user's, the others are drawn from  *)
(* the models in turn.  Titles, styles and the prose filter of BabelDOC    *)
(* are left out; every batch has words in it.                              *)
(***************************************************************************)
EXTENDS Naturals, FiniteSets, SequencesExt, FiniteSetsExt, Functions

CONSTANTS
    Chapters,        \* how many
    Length,          \* segments of each
    Settings,        \* of an invocation: mode, size of a batch, only_chapter or 0
    DraftIds,        \* T1, T2, T3
    MaxBookFailures, \* bound: exceptions and deaths
    MaxBookEdits     \* bound: edits by the user

ASSUME BookAssumption ==
    /\ Chapters \in Nat /\ Length \in [1..Chapters -> Nat]
    /\ Settings \subseteq [mode : {"standard", "best_of_three"}, size : Nat \ {0},
                            only : 0..Chapters]
    /\ "synthesis" \notin DraftIds
    /\ {MaxBookFailures, MaxBookEdits} \subseteq Nat

VARIABLES
    bookText,         \* the formal targets on disk
    bookStatus,       \* the manifest: "pending" or "done"
    bookTerms,        \* segments whose terms are in the glossary; 0 is the whole chapter
    bookKeys,         \* batches with a batch_glossary_extracted event
    bookCalls,        \* completed receipts of precision calls
    bookBound,        \* drafts bound to their plan
    bookResults,      \* result.json of each plan
    bookPublications, \* publication.json: plan, text and status
    bookWork,         \* the invocation: TranslationService
    bookDrafts,       \* its three drafts
    bookDraws,        \* texts drawn
    bookSettings,     \* settings of the first invocation (ghost)
    bookVaried,       \* have settings changed, or has the user edited? (ghost)
    bookFailures, bookEdits

bookFormal == <<bookText, bookStatus>>
bookGlossary == <<bookTerms, bookKeys>>
bookPrecision == <<bookCalls, bookBound, bookResults, bookPublications>>
bookGhosts == <<bookSettings, bookVaried, bookEdits>>
bookVars == <<bookFormal, bookGlossary, bookPrecision, bookWork, bookDrafts, bookDraws,
              bookGhosts, bookFailures>>

NoText == 0
UserText == 1
NoPlan == [chapter |-> 0]
NoSettings == [mode |-> "none"]
IdleWork == [pc |-> "idle"]
IdleDrafts == [d \in DraftIds |-> "idle"]

Segments(c) == 1..Length[c]
Working == bookWork.pc # "idle"
\* Chapters and batches are taken in their order.
Chapter == Min(bookWork.todo)
Batch == CHOOSE next \in bookWork.batches : \A other \in bookWork.batches : next.start <= other.start
Key == <<Chapter, Batch.start, Batch.count>>
Span(batch) == batch.start..(batch.start + batch.count - 1)

BookTypeOK ==
    /\ bookText \in [1..Chapters -> Seq(Nat)]
    /\ \A c \in 1..Chapters : Len(bookText[c]) = Length[c]
    /\ bookStatus \in [1..Chapters -> {"pending", "done"}]
    /\ \A t \in bookTerms : t[1] \in 1..Chapters /\ t[2] \in 0..Length[t[1]]
    /\ \A k \in bookKeys : k[1] \in 1..Chapters /\ k[2] + k[3] - 1 \in Segments(k[1])
    /\ bookWork.pc \in {"idle", "chapter", "open", "batch", "request", "save", "reuse", "drafts",
                        "synthesis", "synthesizing", "result", "publish", "merge", "mark",
                        "align", "extract", "event", "terms", "close", "closing"}
    /\ Working => /\ bookWork.todo \subseteq 1..Chapters
                  /\ bookWork.pc = "batch" /\ bookWork.batches # {} => Batch.count > 0
    /\ bookDrafts \in [DraftIds -> {"idle", "recovered", "calling", "received", "bound", "failed"}]
    /\ \A r, t \in bookCalls : r.plan = t.plan /\ r.stage = t.stage => r = t
    /\ \A p, q \in bookResults : p.plan = q.plan => p = q
    /\ \A p, q \in bookPublications : p.plan = q.plan => p = q
    /\ bookFailures \in 0..MaxBookFailures /\ bookEdits \in 0..MaxBookEdits

BookInit ==
    /\ bookText = [c \in 1..Chapters |-> [s \in Segments(c) |-> NoText]]
    /\ bookStatus = [c \in 1..Chapters |-> "pending"]
    /\ bookTerms = {} /\ bookKeys = {}
    /\ bookCalls = {} /\ bookBound = {} /\ bookResults = {} /\ bookPublications = {}
    /\ bookWork = IdleWork
    /\ bookDrafts = IdleDrafts
    /\ bookDraws = 0
    /\ bookSettings = NoSettings /\ bookVaried = FALSE
    /\ bookFailures = 0 /\ bookEdits = 0

-----------------------------------------------------------------------------
(* Batches and plans                                                       *)

Pending == {c \in 1..Chapters : bookStatus[c] # "done"}

\* The paragraph after the batch that begins at a paragraph.
EndAmong(begins, texts, begin) == Min({next \in begins : next > begin} \cup {Len(texts) + 1})
BatchesFrom(begins, texts) ==
    {[start |-> begin, count |-> EndAmong(begins, texts, begin) - begin,
      done |-> texts[begin] # NoText] : begin \in begins}

\* resume_batches: the batches of the budget, split where translated text begins or
\* ends.
ResumeBatches(texts, size) ==
    LET translated(s) == texts[s] # NoText IN
    BatchesFrom({s \in DOMAIN texts : (s - 1) % size = 0 \/ translated(s) # translated(s - 1)}, texts)

Texts(seq) == SelectSeq(seq, LAMBDA t : t # NoText)
Before(c) == FlattenSeq([b \in 1..(c - 1) |-> bookText[b]])

\* recent_context: the prefix of the chapter in memory, then the chapters before it.
RecentContext(c, copy, start) == Texts(Before(c) \o SubSeq(copy, 1, start - 1))

\* BatchPlan.capture; its hash is the fingerprint of the precision records.
CapturePlan(terms) ==
    [chapter |-> Chapter, start |-> Batch.start, count |-> Batch.count, terms |-> terms,
     context |-> RecentContext(Chapter, bookWork.copy, Batch.start)]

-----------------------------------------------------------------------------
(* Invocations and chapters                                                *)

Work(pc) == bookWork' = [bookWork EXCEPT !.pc = pc]
NextBatch == [bookWork EXCEPT !.pc = "batch", !.batches = @ \ {Batch}]
NextChapter(pc) == [bookWork EXCEPT !.pc = pc, !.todo = @ \ {Chapter}]

\* run: the pending chapters, or one chapter of the user's choice.
StartBook(settings) ==
    /\ ~Working
    /\ LET todo == IF settings.only = 0 THEN Pending ELSE {settings.only} IN
       /\ todo # {}
       /\ bookWork' = [pc |-> "chapter", mode |-> settings.mode, size |-> settings.size,
                       whole |-> settings.only = 0, todo |-> todo, copy |-> << >>, batches |-> {}, keys |-> {},
                       snapshot |-> {}, stale |-> FALSE, plan |-> NoPlan, text |-> NoText]
       /\ bookSettings' = IF bookSettings = NoSettings THEN settings ELSE bookSettings
       /\ bookVaried' = (bookVaried \/ settings.only # 0 \/ bookSettings \notin {NoSettings, settings})
    /\ UNCHANGED <<bookFormal, bookGlossary, bookPrecision, bookDrafts, bookDraws, bookEdits,
                   bookFailures>>

\* recover_publications: a text that has reached the chapter is published.
Reached(p) ==
    /\ p.plan.chapter = Chapter /\ p.status = "ready"
    /\ \A s \in Span(p.plan) : bookText[Chapter][s] = p.text
Recovered(publications) ==
    {IF Reached(p) THEN [p EXCEPT !.status = "published"] ELSE p : p \in publications}

\* The chapter, its batches, the extraction events and the glossary are read once.
OpenChapter ==
    /\ bookWork.pc = "chapter" /\ bookWork.todo # {}
    /\ bookPublications' = Recovered(bookPublications)
    /\ IF Length[Chapter] = 0
       THEN /\ bookStatus' = [bookStatus EXCEPT ![Chapter] = "done"]
            /\ bookWork' = NextChapter("chapter")
       ELSE /\ LET copy == bookText[Chapter] IN
               bookWork' = [bookWork EXCEPT
                   !.pc = "batch", !.copy = copy, !.batches = ResumeBatches(copy, bookWork.size),
                   !.keys = {k \in bookKeys : k[1] = Chapter}, !.snapshot = bookTerms,
                   !.stale = FALSE]
            /\ UNCHANGED bookStatus
    /\ UNCHANGED <<bookText, bookGlossary, bookCalls, bookBound, bookResults, bookDrafts, bookDraws,
                   bookGhosts, bookFailures>>

\* A translated batch is not translated again.
SkipBatch ==
    /\ bookWork.pc = "batch" /\ bookWork.batches # {} /\ Batch.done
    /\ Work("align")
    /\ UNCHANGED <<bookFormal, bookGlossary, bookPrecision, bookDrafts, bookDraws, bookGhosts,
                   bookFailures>>

\* The glossary is read again when it may have changed.
PlanBatch ==
    /\ bookWork.pc = "batch" /\ bookWork.batches # {} /\ ~Batch.done
    /\ LET terms == IF bookWork.stale THEN bookTerms ELSE bookWork.snapshot IN
       bookWork' = [bookWork EXCEPT
           !.pc = IF bookWork.mode = "standard" THEN "request" ELSE "reuse",
           !.snapshot = terms, !.stale = FALSE, !.plan = CapturePlan(terms)]
    /\ UNCHANGED <<bookFormal, bookGlossary, bookPrecision, bookDrafts, bookDraws, bookGhosts,
                   bookFailures>>

-----------------------------------------------------------------------------
(* A batch in the standard mode                                            *)

Filled(texts, plan, text) ==
    [s \in DOMAIN texts |-> IF s \in Span(plan) THEN text ELSE texts[s]]

TranslateBatch ==
    /\ bookWork.pc = "request"
    /\ bookDraws' = bookDraws + 1
    /\ bookWork' = [bookWork EXCEPT !.pc = "save", !.copy = Filled(@, bookWork.plan, bookDraws + 2)]
    /\ UNCHANGED <<bookFormal, bookGlossary, bookPrecision, bookDrafts, bookGhosts, bookFailures>>

SaveCopy == bookText' = [bookText EXCEPT ![Chapter] = bookWork.copy]

SaveBatch ==
    /\ bookWork.pc = "save"
    /\ SaveCopy
    /\ Work("align")
    /\ UNCHANGED <<bookStatus, bookGlossary, bookPrecision, bookDrafts, bookDraws, bookGhosts,
                   bookFailures>>

-----------------------------------------------------------------------------
(* A batch in the precision mode                                           *)

Stages == DraftIds \cup {"synthesis"}
Receipts(stage) == {r \in bookCalls : r.plan = bookWork.plan /\ r.stage = stage}
IsBound(d) == [plan |-> bookWork.plan, stage |-> d] \in bookBound

\* Mutant: a receipt without a binding is not looked for.
ReuseBoundDrafts ==
    /\ bookWork.pc = "reuse"
    /\ LET saved == {r \in bookResults : r.plan = bookWork.plan} IN
       IF saved # {}
       THEN /\ bookWork' = [bookWork EXCEPT !.pc = "publish", !.text = (CHOOSE r \in saved : TRUE).text]
            /\ UNCHANGED bookDrafts
       ELSE /\ bookDrafts' = [d \in DraftIds |-> IF IsBound(d) THEN "bound" ELSE "calling"]
            /\ Work("drafts")
    /\ UNCHANGED <<bookFormal, bookGlossary, bookPrecision, bookDraws, bookGhosts, bookFailures>>

\* A saved result is used as it is; a draft that is bound or has a completed receipt is
\* not asked for again.
ReuseResults ==
    /\ bookWork.pc = "reuse"
    /\ LET saved == {r \in bookResults : r.plan = bookWork.plan} IN
       IF saved # {}
       THEN /\ bookWork' = [bookWork EXCEPT !.pc = "publish", !.text = (CHOOSE r \in saved : TRUE).text]
            /\ UNCHANGED bookDrafts
       ELSE /\ bookDrafts' = [d \in DraftIds |->
                  IF IsBound(d) THEN "bound"
                  ELSE IF Receipts(d) # {} THEN "recovered" ELSE "calling"]
            /\ Work("drafts")
    /\ UNCHANGED <<bookFormal, bookGlossary, bookPrecision, bookDraws, bookGhosts, bookFailures>>

\* The calls run side by side, after what is recovered has been bound.
DraftAnswers(d) ==
    /\ bookWork.pc = "drafts"
    /\ bookDrafts[d] = "calling"
    /\ \A e \in DraftIds : bookDrafts[e] # "recovered"
    /\ bookCalls' = bookCalls \cup {[plan |-> bookWork.plan, stage |-> d, text |-> NoText]}
    /\ bookDrafts' = [bookDrafts EXCEPT ![d] = "received"]
    /\ UNCHANGED <<bookFormal, bookGlossary, bookBound, bookResults, bookPublications, bookWork,
                   bookDraws, bookGhosts, bookFailures>>

DraftFails(d) ==
    /\ bookWork.pc = "drafts"
    /\ bookDrafts[d] = "calling"
    /\ \A e \in DraftIds : bookDrafts[e] # "recovered"
    /\ bookFailures < MaxBookFailures
    /\ bookFailures' = bookFailures + 1
    /\ bookDrafts' = [bookDrafts EXCEPT ![d] = "failed"]
    /\ UNCHANGED <<bookFormal, bookGlossary, bookPrecision, bookWork, bookDraws, bookGhosts>>

BindDraft(d) ==
    /\ bookWork.pc = "drafts"
    /\ bookDrafts[d] \in {"recovered", "received"}
    /\ bookBound' = bookBound \cup {[plan |-> bookWork.plan, stage |-> d]}
    /\ bookDrafts' = [bookDrafts EXCEPT ![d] = "bound"]
    /\ UNCHANGED <<bookFormal, bookGlossary, bookCalls, bookResults, bookPublications, bookWork,
                   bookDraws, bookGhosts, bookFailures>>

\* A failed draft ends the invocation, once its siblings are safe.
DraftsEnd ==
    /\ bookWork.pc = "drafts"
    /\ \A d \in DraftIds : bookDrafts[d] \in {"bound", "failed"}
    /\ IF \E d \in DraftIds : bookDrafts[d] = "failed"
       THEN bookWork' = IdleWork ELSE Work("synthesis")
    /\ bookDrafts' = IdleDrafts
    /\ UNCHANGED <<bookFormal, bookGlossary, bookPrecision, bookDraws, bookGhosts, bookFailures>>

RecoverSynthesis ==
    /\ bookWork.pc = "synthesis"
    /\ LET found == Receipts("synthesis") IN
       bookWork' = IF found = {} THEN [bookWork EXCEPT !.pc = "synthesizing"]
                   ELSE [bookWork EXCEPT !.pc = "result", !.text = (CHOOSE r \in found : TRUE).text]
    /\ UNCHANGED <<bookFormal, bookGlossary, bookPrecision, bookDrafts, bookDraws, bookGhosts,
                   bookFailures>>

SynthesisAnswers ==
    /\ bookWork.pc = "synthesizing"
    /\ bookDraws' = bookDraws + 1
    /\ bookCalls' = bookCalls \cup
          {[plan |-> bookWork.plan, stage |-> "synthesis", text |-> bookDraws + 2]}
    /\ bookWork' = [bookWork EXCEPT !.pc = "result", !.text = bookDraws + 2]
    /\ UNCHANGED <<bookFormal, bookGlossary, bookBound, bookResults, bookPublications, bookDrafts,
                   bookGhosts, bookFailures>>

WriteResult ==
    /\ bookWork.pc = "result"
    /\ bookResults' = bookResults \cup {[plan |-> bookWork.plan, text |-> bookWork.text]}
    /\ Work("publish")
    /\ UNCHANGED <<bookFormal, bookGlossary, bookCalls, bookBound, bookPublications, bookDrafts,
                   bookDraws, bookGhosts, bookFailures>>

PreparePublication ==
    /\ bookWork.pc = "publish"
    /\ bookPublications' =
          IF \E p \in bookPublications : p.plan = bookWork.plan THEN bookPublications
          ELSE bookPublications \cup
                  {[plan |-> bookWork.plan, text |-> bookWork.text, status |-> "ready"]}
    /\ Work("merge")
    /\ UNCHANGED <<bookFormal, bookGlossary, bookCalls, bookBound, bookResults, bookDrafts,
                   bookDraws, bookGhosts, bookFailures>>

\* Mutant: the chapter in memory is not replaced by the one that was saved.
MergeBehindCopy ==
    /\ bookWork.pc = "merge"
    /\ bookText' = [bookText EXCEPT ![Chapter] = Filled(@, bookWork.plan, bookWork.text)]
    /\ Work("mark")
    /\ UNCHANGED <<bookStatus, bookGlossary, bookPrecision, bookDrafts, bookDraws, bookGhosts,
                   bookFailures>>

\* save_precision_batch: into the chapter as it is on disk, never over another text.
MergeBatch ==
    /\ bookWork.pc = "merge"
    /\ IF \A s \in Span(bookWork.plan) : bookText[Chapter][s] \in {NoText, bookWork.text}
       THEN LET merged == Filled(bookText[Chapter], bookWork.plan, bookWork.text) IN
            /\ bookText' = [bookText EXCEPT ![Chapter] = merged]
            /\ bookWork' = [bookWork EXCEPT !.pc = "mark", !.copy = merged]
       ELSE bookWork' = IdleWork /\ UNCHANGED bookText
    /\ UNCHANGED <<bookStatus, bookGlossary, bookPrecision, bookDrafts, bookDraws, bookGhosts,
                   bookFailures>>

MarkPublished ==
    /\ bookWork.pc = "mark"
    /\ bookPublications' = {IF p.plan = bookWork.plan THEN [p EXCEPT !.status = "published"] ELSE p :
                               p \in bookPublications}
    /\ Work("align")
    /\ UNCHANGED <<bookFormal, bookGlossary, bookCalls, bookBound, bookResults, bookDrafts,
                   bookDraws, bookGhosts, bookFailures>>

PrecisionStep ==
    \/ ReuseResults \/ DraftsEnd \/ RecoverSynthesis \/ SynthesisAnswers \/ WriteResult
    \/ PreparePublication \/ MergeBatch \/ MarkPublished
    \/ \E d \in DraftIds : DraftAnswers(d) \/ BindDraft(d)

-----------------------------------------------------------------------------
(* After the text of a batch: alignment, terms, the end of the chapter     *)

\* _align_batch_context saves the whole chapter when a paragraph with annotations is
\* complete and not aligned yet.  A translated batch without an event was
\* interrupted before its terms were extracted.
AlignBatch ==
    /\ bookWork.pc = "align"
    /\ SaveCopy \/ UNCHANGED bookText
    /\ bookWork' = IF Batch.done /\ Key \in bookWork.keys THEN NextBatch
                   ELSE [bookWork EXCEPT !.pc = "extract"]
    /\ UNCHANGED <<bookStatus, bookGlossary, bookPrecision, bookDrafts, bookDraws, bookGhosts,
                   bookFailures>>

ExtractTerms ==
    /\ bookWork.pc = "extract"
    /\ bookTerms' = bookTerms \cup {<<Chapter, s>> : s \in Span(Batch)}
    /\ Work("event")
    /\ UNCHANGED <<bookFormal, bookKeys, bookPrecision, bookDrafts, bookDraws, bookGhosts,
                   bookFailures>>

LogExtraction ==
    /\ bookWork.pc = "event"
    /\ bookKeys' = bookKeys \cup {Key}
    /\ bookWork' = [NextBatch EXCEPT !.keys = @ \cup {Key}, !.stale = TRUE]
    /\ UNCHANGED <<bookFormal, bookTerms, bookPrecision, bookDrafts, bookDraws, bookGhosts,
                   bookFailures>>

ExtractChapter ==
    /\ bookWork.pc = "batch" /\ bookWork.batches = {}
    /\ bookTerms' = bookTerms \cup {<<Chapter, 0>>}
    /\ Work("close")
    /\ UNCHANGED <<bookFormal, bookKeys, bookPrecision, bookDrafts, bookDraws, bookGhosts,
                   bookFailures>>

\* save_chapter_with_status: two files, one after the other.
CloseChapter ==
    /\ \/ bookWork.pc = "close" /\ SaveCopy /\ Work("closing") /\ UNCHANGED bookStatus
       \/ /\ bookWork.pc = "closing"
          /\ bookStatus' = [bookStatus EXCEPT ![Chapter] = "done"]
          /\ bookWork' = NextChapter("chapter")
          /\ UNCHANGED bookText
    /\ UNCHANGED <<bookGlossary, bookPrecision, bookDrafts, bookDraws, bookGhosts, bookFailures>>

EndBook ==
    /\ bookWork.pc = "chapter" /\ bookWork.todo = {}
    /\ bookWork' = IdleWork
    /\ UNCHANGED <<bookFormal, bookGlossary, bookPrecision, bookDrafts, bookDraws, bookGhosts,
                   bookFailures>>

BookStep ==
    \/ OpenChapter \/ SkipBatch \/ PlanBatch \/ TranslateBatch \/ SaveBatch \/ PrecisionStep
    \/ AlignBatch \/ ExtractTerms \/ LogExtraction \/ ExtractChapter \/ CloseChapter \/ EndBook

\* The process dies, a pause is noticed, or a call of the invocation raises.
InvocationFails ==
    /\ Working
    /\ bookFailures < MaxBookFailures
    /\ bookFailures' = bookFailures + 1
    /\ bookWork' = IdleWork /\ bookDrafts' = IdleDrafts
    /\ UNCHANGED <<bookFormal, bookGlossary, bookPrecision, bookDraws, bookGhosts>>

\* edit_segment, under the run lock.
EditSegment(c, s) ==
    /\ ~Working
    /\ bookEdits < MaxBookEdits
    /\ bookText[c][s] # UserText
    /\ bookText' = [bookText EXCEPT ![c][s] = UserText]
    /\ bookEdits' = bookEdits + 1
    /\ bookVaried' = TRUE
    /\ UNCHANGED <<bookStatus, bookGlossary, bookPrecision, bookWork, bookDrafts, bookDraws,
                   bookSettings, bookFailures>>

BookNext ==
    \/ \E settings \in Settings : StartBook(settings)
    \/ BookStep
    \/ \E d \in DraftIds : DraftFails(d)
    \/ InvocationFails
    \/ \E c \in 1..Chapters : \E s \in Segments(c) : EditSegment(c, s)

BookSpec == BookInit /\ [][BookNext]_bookVars
BookFairSpec == BookSpec /\ WF_bookVars(BookStep)

-----------------------------------------------------------------------------
(* Properties                                                              *)

\* A formal target is never replaced by the program, whichever copy of the chapter
\* it saves: not another invocation's text, and never an edit of the user.
FormalTextIsKept ==
    [][\A c \in 1..Chapters : \A s \in Segments(c) :
          bookText[c][s] # NoText /\ bookEdits' = bookEdits =>
             bookText'[c][s] = bookText[c][s]]_bookVars

\* What has been paid for is not asked for again: no request for a text that is on
\* disk, for a draft or a synthesis with a completed receipt of the same plan, after
\* whatever interruption.
NothingIsPaidTwice ==
    /\ bookWork.pc \in {"request", "reuse"} =>
          \A s \in Span(bookWork.plan) : bookText[Chapter][s] = NoText
    /\ \A d \in DraftIds : bookDrafts[d] = "calling" => Receipts(d) = {}
    /\ bookWork.pc = "synthesizing" => Receipts("synthesis") = {}

\* While settings stay and nobody edits, a batch has one plan, however often the book is
\* interrupted: what precision has saved stays reusable.
PlansAreReproducible ==
    ~bookVaried => \A r, t \in bookCalls :
        r.plan.chapter = t.plan.chapter /\ r.plan.start = t.plan.start => r.plan = t.plan

\* The context of a batch is all the formal text before it, on a fresh run as on a
\* resumed one; a run of the whole book leaves no gap before it.
ContextIsComplete ==
    bookWork.pc \in {"request", "reuse"} =>
        /\ bookWork.plan.context = RecentContext(Chapter, bookText[Chapter], Batch.start)
        /\ bookWork.whole =>
              /\ \A c \in 1..(Chapter - 1) : \A s \in Segments(c) : bookText[c][s] # NoText
              /\ \A s \in 1..(Batch.start - 1) : bookText[Chapter][s] # NoText

\* A chapter that is done has a text and extracted terms for every segment.
DoneIsComplete ==
    \A c \in 1..Chapters : bookStatus[c] = "done" =>
        \A s \in Segments(c) : bookText[c][s] # NoText /\ <<c, s>> \in bookTerms

\* When a chapter is done no publication of it is left ready whose text is the
\* chapter's, also when the commit was interrupted before its marker.
DoneIsReconciled ==
    \A p \in bookPublications :
        p.status = "ready" /\ bookStatus[p.plan.chapter] = "done" =>
            \E s \in Span(p.plan) : bookText[p.plan.chapter][s] # p.text

\* A resumed book goes on where it was: it pays for nothing again, plans as it planned and
\* reads what a fresh one reads, until nothing is missing or still on its way.
ResumptionIsExact ==
    /\ NothingIsPaidTwice
    /\ PlansAreReproducible
    /\ ContextIsComplete
    /\ DoneIsComplete
    /\ DoneIsReconciled

\* An invocation ends, also when one of three drafts fails.
InvocationsEnd == Working ~> ~Working

=============================================================================
