# Formal models of the Slovnik trainer

Slovnik teaches Serbian vocabulary and written grammar to Russian speakers: a FastAPI backend
(`src/backend/app`) over PostgreSQL and a Vue frontend (`src/frontend`).  This directory holds
TLA+ models of the parts of it where requests of several tabs, threads, workers and operators meet in
the database, of the rules that decide what a learner gets next, and of the practice page over a
network that loses; the TLC runs that check them on small instances; and TLAPS proofs of their most
important properties for instances of any size.

Paths below are relative to `src/backend/app` unless they start with `docs/` or `tests/`
(`src/docs`, `src/backend/tests`) or name the frontend.

## 1. The system

| Component | State it keeps | Operations | Module |
|---|---|---|---|
| AI vocabulary fill (`services/ai_vocabulary_service.py`) | `ai_vocabulary_generations` (one row a normalized word, never changed), `ai_vocabulary_generation_reservations` (word, owner token, expiry), a heartbeat thread for each request | `fill_vocabulary`: look up, reserve or take over, look again, call the provider, fence, persist, release | `AiFill`, `GenerationStore` |
| Local written practice (`services/local_practice_service.py`, `local_workload.py`) | practice runs and activities of the local policies | create or resume a run, next activity, submit, feedback, repair | `LocalPractice` |
| Practice runs and learning events (`services/practice_service.py`, `learning_event_service.py`, `repositories/practice.py`, `domain/practice.py`) | `practice_runs`, `activity_instances`, `learning_events` (append-only, unique key for a learner, one event for an activity) | start, add, retry, complete, abandon, record | `LearningEvents` |
| Projection and memory policy (`services/learner_projection_service.py`, `domain/memory_policy.py`, `domain/progress.py`, `repositories/progress.py`) | `learner_target_states`: competence, evidence cursor, schedule | apply an event, replay, bootstrap from the legacy row | `MemoryPolicy`, `LearningEvents` |
| Quiz and shadow quiz (`services/quiz_service.py`, `shadow_quiz_service.py`) | `quiz_attempts`, `quiz_answers`, the shadow run of an attempt, the shadow flag | start, answer, complete; enroll, record, abandon | `LegacyQuiz` |
| Shadow learning (`services/shadow_learning_service.py`) | shadow runs of reviews and new words | record a rating, record a batch | a rating in `LearningEvents`, its key and schedule in `WordReview` |
| New words and review (`services/learning_service.py`) | `user_word_progress` | daily words, completion, grading | one word in `WordReview` |
| Learner time and profile (`learner_time.py`, `services/profile_service.py`) | zone, pending change of zone, level | windows, change of zone | `LearnerTime`, `LearnerPath`; numbered windows in `LocalPractice` |
| Selection and frontier (`services/next_activity_service.py`, `domain/selection_policy.py`, `domain/curriculum_policy.py`) | none | readiness, intent, ranking | `Selection`, `LearnerPath` |
| Publication (`services/content_publication_service.py`, `services/reviewed_pilot_publication_service.py`, `services/curriculum_service.py`, `repositories/curriculum.py`) | versions of a curriculum, at most one active; units from draft to published | preflight, publish, recover, bootstrap of the pilot | `Publication`, `VersionTimeline` |
| Catalog, mapping and bootstraps | lexical units, the words they were made from | create, publish, map | units in `Publication`, a state's baseline in `LearningEvents` |
| Practice page (`src/frontend/src/views/PracticeView.vue`) | the retained run, submission and repair in `sessionStorage` | load, next, submit, repair, new run, leave, refresh | `PracticeView` |
| Diagnostics, research ledger, dataset, example bank, answer policy | none, or files | read and validate | not modelled |
| The other views of the frontend | component state only | | not modelled |

How they interact.  A request is one thread with one database session (READ COMMITTED).
Local practice calls the event service to record an answer; that service calls the projector in
the same transaction, and the projector the memory policy.  The quiz and the review write their
legacy tables first and, while `LANGUAGE_ASSISTANT_SHADOW_ENABLED` is set, the same evidence into
practice runs, events and projections within the same transaction.  Selection reads projections
and history.  The practice page calls the practice routes and keeps what is uncertain.  Publication decides
which targets there are.  AI fill shares only the vocabulary with the rest.  What orders two requests is a row
lock (`SELECT ... FOR UPDATE` on a profile, run, activity, attempt or state), a unique key, or,
where neither is used, nothing.

What is hard.  Leases that run out while their owner works; deletion and takeover of one row;
counting issued rows in two tabs; events that commit out of the order in which they occurred;
two creators of one state row; one key used by two requests; a flag that is off for part of a
sequence; a locking read that returns an object loaded before the lock.  `PROJECT.json` lists the
hazards at their lines with the properties that would catch them.

What makes each part correct: one generation and one text for a word, and progress after any crash
(AI fill); ceilings, at most one pending activity, one repair and no unrecorded help (local
practice); one event for each completed activity, runs that end whole, a projection that equals the
canonical replay of the log, and no ring of waiting transactions (evidence); answer limits, frozen
scores, and shadow runs that end with all their evidence or are abandoned (quiz); due instants rated
once, and recalls that count only in a row (review); versions that follow one another, pinned to
their requests, whole and made from the words as they are (publication); windows that tile time and
do not come back early (learner time); targets that open by the learner's own answers, and no refusal
without a reason (selection); one answer for each key, kept until its fate is known, and no dead end
but the one another tab's answer leaves (practice page).

## 2. Modules and runs

| Module | Kind | Uses | Runs |
|---|---|---|---|
| `GenerationStore` | abstract specification | - | as a property of `ai_fill` |
| `AiFill` | component | - | `ai_fill`, `ai_fill_prompt` |
| `LocalPractice` | component | - | `practice_tabs`, `practice_disclosure` |
| `MemoryPolicy` | pure operators | - | through `LearningEvents`, `WordReview`, `Selection`, `LearnerPath` |
| `LearningEvents` | component, composed with the projection | `MemoryPolicy` | `events_replay` |
| `LegacyQuiz` | component, composed with its shadow run | - | `quiz_shadow` |
| `WordReview` | component, composed with its shadow memory | `MemoryPolicy` | `word_ratings`, `word_mark` |
| `LearnerTime`, `Selection` | pure operators | `Selection` extends `MemoryPolicy` | through `LearnerPath` |
| `LearnerPath` | composition over days | `LearnerTime`, `Selection`, `MemoryPolicy` | `learner_path` |
| `PracticeView` | component over a network, with an open server | - | `practice_view` |
| `VersionTimeline` | abstract specification | - | as a property of `publication` |
| `Publication` | component | `VersionTimeline` | `publication`, `publication_changed` |
| `AiFillProofs`, `LearnerPathProofs`, `LearningEventsProofs`, `LegacyQuizProofs`, `LocalPracticeProofs`, `PracticeViewProofs`, `PublicationProofs`, `WordReviewProofs` | theorems | the component of their name | - |
| `MC*` | instances for TLC | their component | all |

A definition named `Mistaken` in its comment is a plausible bug in the definition below it.  It is
used by nothing; putting it in the place of that definition makes TLC refute the property it is
meant for, which shows that the property depends on that part of the code.

### AiFill

One normalized word: different words never share a row.  A request is a program counter through
`fill_vocabulary`.  Each read and each committed statement is one action.  `Fence`,
`InsertGeneration`, `DeleteReservation` and `Commit` are separate, because other requests run
between them; `lock` is the reservation row's lock, which the fence takes and the transaction's end
releases.  `left` is what remains of the lease on the database clock, `wait` what remains of the
request's own deadline, `timer` what remains of a heartbeat's wait or statement timeout.  `Crash`
stops a worker with its heartbeat at any point; `DatabaseFails`, `ReleaseFails` and `RenewFails` are
the error paths.  `EditVocabulary` is somebody giving the word to a vocabulary item or taking it away.
`Editing` are the requests that edit the matching item themselves, which do not find it.

- `ai_fill`: two requests, one of which edits the item, under `FairSpec`.  Scheduling is arbitrary up
  to fairness, so every reservation can expire under its owner; `Lease` 2 makes waiting, and
  renewing, more than one step.  `FencedOwnerIsAlone` and `OneText` hold, and `ImplementsStore` shows
  that the protocol is a write-once store.  Fairness is weak fairness of each request and heartbeat
  (threads are scheduled, statements return or time out, the provider's client has a timeout) and of
  the clock.  No fault is fair.  Every request ends, and a reservation whose request ended or crashed
  expires or is taken over.  Two requests are enough for both sides of a takeover; the proofs below
  cover any number.
- `ai_fill_prompt`: three requests whose threads run before their timeouts (`PromptSpec`: time does
  not pass over a heartbeat that is due) and one failed renewal in a row.  Lease 5, beat 1: the code
  renews at a fraction of the lease, and a failed renewal costs a wait and a statement timeout.
  Under this assumption the provider is called once at a time, never for a word already stored, and
  never in vain.  The assumption is needed: TLC violates all three under `Spec`, which is why the
  code has the fence.

### LocalPractice

One learner.  A request locks the profile row (`LockProfile`), decides what to write (`Decide`), and
commits (`Commit`), and may end without writing at any point (`GiveUp`).  Run and activity
rows are locked under the profile's lock only, so that lock stands for all.  An example stands for
its target, because the reviewed pack has one for each outcome; which targets are ready and which one
ranks first is left open (`Selectable`).  `today` numbers the allocation windows.  `RetirePolicy` is
the deployment of a newer policy.  `exposed` is a history variable: the pending activities whose
answer was on a screen, by feedback, by a presented exposure, by a revealing repair, or by resuming
a run that has one.

- `practice_tabs`: two tabs, two runs, three activities, two examples, two windows and ceilings of 2,
  2, 1 and 1, so that each ceiling is reached and each pair of them cuts the other.
- `practice_disclosure` refutes `RecordedDisclosure`: `docs/product-state.md:223-225` says that the
  order of repair and feedback "prevents unrecorded disclosure".  In one run it does
  (`RecordedWithinRun`).  In two runs an example issued again in a later window waits in the second
  run while feedback on it is shown in the first.

### MemoryPolicy and LearningEvents

`MemoryPolicy` translates the interval table, the due instants, the peak of competence and the replay: a
recursive function on sets of events, which projects the last event, in canonical order, last. Time is in
ticks and fractions are pairs, so that comparison is exact.  `LearningEvents` has the transactions: a
request looks its key up, locks its run, looks again, inserts the event, creates or finds the state's
row, locks it, projects, and commits everything or nothing. An insert waits for another transaction's
uncommitted row with the same key, and then conflicts or not. A shadow review (`BeginReview`) has a run
of its own, does not recover from a key conflict, and then takes the same steps. Operations on runs that
lock the run's row first and hold it to their end are one step that needs the row unlocked.

- `events_replay`: two transactions, three activities in one run or in shadow runs, three keys, two
  instants, a bootstrap, every error.  `CanonicalProjection` compares the committed row with a
  replay of the log after every step.  The caps are 3 and 5 days and the outcomes those that need an
  order to matter: a success doubles, `again` resets.  `WaitsForLater` puts the things a transaction
  may wait for (run, key, state row) in one order, and whoever waits waits for somebody further on:
  no two wait for each other, whatever the database does about deadlocks.  No fairness is stated;
  `WaitsForLater` is why the requests of this module need none beyond a fair queue for each lock.

### LegacyQuiz

One attempt.  `PlanFor` is the plan of its questions: the three types take turns over the words, a
type that got none is asked of the first word, and places may have gaps.  Every question keeps the
version of the word's content it was made from as its key.  With the shadow flag a request locks the
attempt's row; without it nothing is locked.  `Submit` reads the history, `Answer` writes the answer
with its event, activity and retry; `Complete` loads the attempt, `ReadAnswers` locks it and reads the
answers, `FinishAttempt` writes.  The object loaded first is the one the locking select returns, so
`FinishAttempt` does not look at `completed` again.  `EditWords` changes the words between a start
and an answer.  `Restart` changes the flag, only while no request is open.  `bypasses` counts the
requests that ran without the lock.  A catalogue mapping that became stale is a shadow failure, which
writes nothing (`GiveUp`).

- `quiz_shadow`: two tabs, two words, two versions of their content, every order of settings.  As
  long as all requests lock, the repeat limit holds, and a completed attempt's score and breakdown
  are those of the answers to the keys as they were issued; through all settings a completed shadow
  run has exactly one event for every answer, and as long as the evidence is whole each question that
  can be answered has its pending activity.  Without the flag two tabs can repeat a wrong answer at the
  same time, which `docs/product-state.md:364` and `tests/test_quizzes.py:660` do not expect: this is
  why `LimitUnderLock` and `ScoreUnderLock` say `bypasses = 0`.

### WordReview

One row of `user_word_progress`, written by four operations of two requests.  A rating locks the row
and checks that it is due (`LockForGrade`).  The batch and the first exposure select, then load
(`Select`, `Load`); a quiz answer loads (`LoadForAnswer`).  From there to the commit a request only
computes, so `write` holds what it is going to write: the columns whose value differs from the loaded
one, because that is what the ORM puts into an UPDATE.  The commit waits for a row lock of another
request and merges `write` into the row as it is then.  `keys` are the idempotency keys of the review
events; `memory` is the target's schedule in the shadow projection, dropped (`None`) once a write had
no event (the batch, a repeated exposure) or a quiz answer came in, after which the two schedules
are meant to differ.  `recalls` is a history variable.

- `word_ratings`: every start (a new word, one from before schedules, one in review at two
  intervals), two requests, a day of three ticks and the four instants from one midnight to the next,
  so that a delay of ten minutes and one of a day both end within the behaviour; caps low enough to
  be met.  A request takes less than a day (`Tick`): one that took longer could write a due instant
  that has been rated since.  Two distinct events allow a rating of what a rating scheduled, and
  three recalls in a row make a word learned; a recall can follow at once when a wrong answer has
  cleared the due instant.  The legacy schedule and the memory policy agree while every write had an
  event (`ShadowAgrees`).
- `word_mark` refutes `WrongAnswerIsDue`: a wrong answer that loaded a row with no due instant, and
  commits after a rating, leaves the rating's due instant in place, against
  `docs/product-state.md:469-470`.

### LearnerTime, Selection and LearnerPath

`LearnerTime` translates the calendar: the first instant of a date in a zone with one transition (a
skipped or a repeated midnight), day and allocation windows, and a pending change of zone.  Its
assumption `DatesDoNotReturn` excludes a clock set back into a date that had ended, which in the time
zone database occurs in history only (St. John's until 2011).  `Selection` translates the frontier,
the intents in their order, the ranking and the fallback with its reasons.  `Hard` and `Invalid` are
parameters of the selector's contract: in the shipped pack all edges are soft and all candidates
valid.  Candidates that tie in what the model has are left to choice, since the code breaks the
tie by repetition counts and keys.

`LearnerPath` composes both with `MemoryPolicy` and the ceilings: one learner over days, each
request one step, because the profile's lock puts requests in sequence (`LocalPractice`).
`NextActivity` selects and issues, `Submit` records and projects, `Repair`, `ChooseZone`, `ChooseLevel`
and `Tick` do what their names say.  What is displayed, keys, support and retired policies are in
`LocalPractice`; the pack stays the active version.

- `learner_path`: five targets (one a level up and behind a hard edge, one behind a soft edge, one
  without a valid candidate), three zones (one skips midnight, one repeats it), two days of five
  ticks, four operations.  The windows follow one another at every step (`WindowsFollow`), no sequence
  of zone changes returns a limit early (`NoEarlyReset`: a period shorter than any day sees at most two
  windows' worth), nothing is issued before the learner's own answers had earned its prerequisites
  (`UnlockedByAnswers`, which counts answers where the code compares a stored peak), and a refusal has
  a reason in each target (`SentAwayForAReason`).  Four operations are enough to issue, answer and
  change the zone twice; a day of five ticks has a transition in its middle and at its end.

### PracticeView

One tab of the practice page.  `view` is the mounted component, `storage` its key in
`sessionStorage`, `net` and `replies` what is on its way.  A request may be taken by the server at any
later time, once, or never; a reply may be lost at any time (`Fail`).  `Leave` unmounts,
`Refresh` also kills all that was going on.  The server is open: it issues, refuses and answers as
`LocalPractice` allows, each request in one step, and another tab answers the same activities
(`AnswerElsewhere`).  An unmounted component goes on in one place only: `persist()` after a refused
repair (`PracticeView.vue:171-173`) has no check of `mounted` (`WritesLate`).  What it writes is of
the run it had, over whatever a newer instance has stored; `late` remembers that it was another run or
a retained answer, and `UncertainIsRetained` and `NoOwnDeadEnd` except it.  `elsewhere` is history
too: which activities another tab has answered.

- `practice_view`: two answers, six ids and eight calls, enough for an answer, its refusal or loss, a
  repair and a second instance.  `KeyKeepsAnswer`, `ShownIsStored` and `UncertainIsRetained` are about
  the tokens.  `NoOwnDeadEnd` is about the controls, which hide each other, and about what they can
  still do: a submit counts only if the server would take its answer or has stored it.  It fails as
  soon as an answer is sent before it is in `sessionStorage`.

The page does have a dead end, which `NoOwnDeadEnd` names instead of passing over it.  If another tab
has answered the open activity (`elsewhere`), every submit of this one is refused with 409
(`learning_event_service.py:61-62`).  `submit` treats the refusal like a lost connection
(`PracticeView.vue:128`), keeps the answer and says that it was saved for sending again
(`i18n/messages.ts:73`); with a retained answer above an activity the reload is hidden
(`PracticeView.vue:254`), and next and the new run wait for a result.  What is left is a retry that is
refused each time; only leaving the page or refreshing it reads the run again, where `adopt` shows the
stored result and drops the answer.  A definitely refused repair is reconciled with the server
(`PracticeView.vue:169-177`), a definitely refused answer is not.  TLC reaches the state after a load, a
next and a submit if the exception is left out.  The page comes there without another tab only
through a late write (`late`), which loses the retained answer, so that the learner sends a second one
before the first arrives.

### Publication and VersionTimeline

Versions of one curriculum with the units they refer to.  A request is a thread through one of three
services: a reviewed bundle (preflight, adoption of a version that is active already, insertion of
units and version, publication, recovery after a conflict), a request over a draft catalog, and the
bootstrap's technical pilot.  All three end in `CheckDraft`, `ReadActive`, `Retire`, `Activate` and
`Commit`, the code's one `publish_in_transaction`.  What a transaction has written is its own until it
commits (`rows`, `units`), what it has locked are those rows and `words`; the partial unique index on
the active version is `IndexFree`.  A linked unit is the one unit of its word, and the code goes
through units in an order the model leaves open.  A bundle is made from words as they are or were
(`BeginBundle`), never from an edition a word has not had yet.  `Crash` is any failure, a deadlock's
victim included.  Editors change words (`EditWord`) and add children to draft units (`AddChild`).  A
recovery reads in two statements (`RecoverPreflight`, `RecoverWinner`), between which another request
may commit, and `Adopt` locks a row whose status it has read before.

`VersionTimeline` is the abstract specification: publications with growing numbers and dates that do
not go back, one open period at a time.

- `publication`: three threads, two units, five requests (the pilot, a draft, three bundles of which
  two contend for one number), one edit of a word, from an empty catalog, a draft or a version that
  was published before fingerprints were stored.  `ImplementsTimeline` is the refinement.
  `AcceptedIsPinned` leaves out answers of a recovery, which reads the fingerprint before the row it
  answers with.  Deadlock checking is off in this and the other runs, because everything may have
  been answered.
- `publication_changed` refutes `ChangedContentRejected`: two bundles that bring one unit with
  different content can both be accepted, although `docs/product-state.md:120-121` says that changed
  content under an existing id is rejected.

## 3. Proofs

A component's proofs are in a module of its name with `Proofs`.  They hold for all constants allowed
by the named assumptions of the component: sets of threads, runs, keys, words or units of any
size, all limits and bounds, and a `None` that is not a value of the kind it stands beside.
Each module has an inductive invariant (`IInv`, and stronger ones under other names for the theorems that
need more), one step for each action, and the theorems at its end.  TLC checked them on the instances
of the runs before they were proved.  Four theorems rest on one of two
hypotheses of their own, named and explained below: `LeaseOutlasts` (three theorems about `PromptSpec`)
and `RepeatsAgree` (`ExactRepeats`).

**`AiFillProofs`**: `TypeCorrect`, `FencedAlone`, `SameText` and `Refinement` (`ImplementsStore`: every
step is a step of the write-once store or leaves its variables unchanged).  `LockHeld`: the row lock
belongs to a transaction past its fence, and a request past its fence holds it and owns the
reservation.  `OwnerSawNothing`: a request that looked at the store after it had acquired the
reservation, and still owns it, knows that nothing is stored, since only an owner past its fence stores
and storing ends its ownership.  From the two follows that a commit finds the store empty, which is
the step the refinement needs.  No assumption on time is used, so the safety of the protocol does not
rest on the heartbeat.

That no work is wasted does rest on it.  `OneCall` (`SingleProviderCall`), `NoCallIsWasted`
(`NoWastedCall`) and `NoWorkIsLost` (`NoLostWork`) are about `PromptSpec` and assume `LeaseOutlasts`: the
lease is longer than twice the beat for each renewal that may fail and for the one that must not.
The code beats three times a lease or every second, whichever is more often
(`services/ai_vocabulary_service.py:416-448`), and a lease is five seconds longer than the client's
timeout, so it holds with room for failures.  The invariant `PInv` is an account: what a request has
left of its lease and what its heartbeat's timers have taken of it (`Spent`) are never less than the
lease (`Paid`), so that nothing is ever left to expire, and whoever is inside owns the reservation
(`Kept`).  A tick takes as much from a timer as from the lease; a failed renewal costs two beats.

**`LocalPracticeProofs`**: `Limits`, `NoExampleTwice`, `Sequence`, `RepairLink`, `Disclosure`.
`Exclusive`: whoever has left `idle` holds the profile's lock.  `StagedFits`: what a transaction has
decided to write still fits what is stored when it commits, because nobody else could write
in between; that is why one row lock carries all the limits.  The limits are counted with the
library's theorems on finite sets.

**`LearningEventsProofs`**: `TypeCorrect`, `OneEvent`, `EndedRuns`, `OwnEvent`, `NoRing`.  `RunHeld`: an
answer past its check holds its run, which stays active, and its activity pending.  `ReviewsApart`: a
review's activity is nobody else's before it commits.  `RowHeld`: whoever made the state's row, or saves
a projection, has it locked.  `NoRing` needs all three.  `Canonical` (`CanonicalProjection`): the
stored state is the replay of the log, although events commit out of their order.  `ProjectedBy`: what
a transaction is about to commit is the replay of the log and its own event.  It is stable because the
row is locked, and it is true because the code appends an event only when it comes after the state's
cursor (`ReplayLast`, `ReplayCursor`: the cursor of a replay is its last event), and otherwise replays
everything.  The lemmas on replays are inductions over finite sets: of the sets for which a claim
fails, one would be smallest (`SmallestSet`, from the library's `WFMin`).

**`LegacyQuizProofs`**: `RepeatLimit`, `CompletedRun`, `FrozenScore` (`ScoreUnderLock`) and
`ActivityForEach` (`ActivityPerOpenQuestion`).  `Held`: under the lock, what a request has
read is what is stored.  `EventsTrue`: every event says what one stored answer was.
`RunEndsWithAttempt`: no open answer takes a completed run's attempt for an uncompleted one, which
is what keeps an answer in flight out of a completed run.  A second invariant, `AttemptInv`, rests on
these.  `PlanWell`: no two questions of a plan have one key (`PlanKeys` shows it of `PlanFor`), so that
places and questions can be counted against each other.  `JudgedAsAsked`: whatever is answered is a
question of the plan, judged by its own key.  `Frozen`: what a completion stored is still what the
answers give.  `OneDue`: an answer takes the one activity of its place and leaves that of the repeat;
one that is not recorded leaves a gap (`Unrecorded`), and a run with a gap is never enrolled again.

**`WordReviewProofs`**: `NoSecondRating`, `LearnedByRecalls`, `SchedulesAgree`.  `WritesRating`: a rating
computes from the row as it is, which it has locked.  `WritesPlainly`: whatever the others loaded, the
columns they write contain no recall and no due instant that was rated before, which needs a
request to take less than a day.  `SchedulesAgree` depends on `NoSecondRating` (an event that is taken
for a repeat would be missing from the memory) and on `CapAssumption`: the maxima of the two places
that compute an interval are equal.

**`PublicationProofs`**: `TypeCorrect`, `Fingerprint` (`AcceptedIsPinned`), `WholeVersion`
(`ActiveIsWhole`), `FreshVersion` (`FreshAtActivation`), `Refinement` (`ImplementsTimeline`).
`RowsFit` and `UnitsFit`: what a transaction has written fits what is committed by now, a retirement
to an active row and an activation to a draft.  `Locks`: no row is written by two, and one transaction at
most has activated a version and not committed.  `HeldOrToDo` and `AllHeld`: the words of a version
are locked and compared one by one, and stay so until the commit.  `Ordered`: the active version is
the last one, so that the version that is replaced is the one before.  Most of the proof is that a
step of one thread keeps what the others know: the lemmas `Keeps` and `Others` say once what a step
must leave alone.

`ExactRepeats` (`ExactRepeatAccepted`) says that a bundle that describes what is published is never
refused.  Its invariant `RInv` collects what a refused bundle has against it, and always will: a
version with its number and other content, changed or newer words, a later version or date.  None of
it is true of an exact repeat, provided `RepeatsAgree`: requests that would be taken for one another
(one number, and one fingerprint or a pilot) ask for one date.  Neither the fingerprint nor a pilot's
row says for which date a bundle was asked (`services/reviewed_pilot_publication_service.py:59-75`), so a
repeat with an earlier date is refused by a version that was published in between, and the
hypothesis cannot be dropped.

**`PracticeViewProofs`**: `KeyKeepsItsAnswer`, `ShownIsAlwaysStored`, `UncertainIsAlwaysRetained`,
`NeverItsOwnDeadEnd`.  `TokensFit`, `RepairsFit`: what is retained or on its way belongs to rows the server
has, and its keys and ids are drawn.  `RepliesFit`: the reply to a read of a run shows the activity of
a retained answer that still waits for one; without that, `adopt` would forget it.  It needs
`StoresWell` (unless `late`, page and storage agree on the run and the answer) and `RunsFit` (a run
with a retained repair has an activity).  `ShowsWell` is what the page shows and which of its controls
can be there.  `NeverItsOwnDeadEnd` needs `OwnAnswers` besides (`HInv`): an activity that the page shows as
waiting, or that a reply is about to bring, waits, or another tab has answered it, or the answer was
the one the page retains.  `UncertainIsRetained` gives the last case when the server takes a
submission, and `KeyOfRow` (a key is of one activity) keeps `adopt` from dropping it.  The lemma
`Growth` says once what every step of the server leaves true of rows, tokens and activities: rows are
added and answered, nothing else.  The stricter reading of `late`, storage of the same run, was found by the proof: only longer histories than
those of the run tell the two apart.

**`LearnerPathProofs`**: `TypeCorrect`, `WindowsInOrder` (`WindowsFollow`), `LimitsHold`
(`NoEarlyReset`), `UnlockedFirst` (`UnlockedByAnswers`), `ReasonGiven` (`SentAwayForAReason`), and two
results about algorithms for all inputs.  The assumptions are types of the constants (a day has ticks,
zones are records of integers, targets and zones are finite, levels, priorities and limits are numbers) and
`DatesDoNotReturn`.

- `FirstDayInstantOpens`: `first_day_instant` returns the one instant from which on it is that date or a
  later one (`Opens`).  The bisection ends there because an interval that misses it would have a
  shorter one that misses it too (`SearchEnds`).  So each first instant is a midnight that no other date
  shares (`FirstIsMidnight`, `NextMidnight`), and two of them are a shortest day apart (`DayIsLong`).
- `WindowsInOrder`: `Calendar` says that a pending change ends at a midnight of the new zone and that the
  window until then began before now and is no shorter than a day.  Hence the window that begins when
  the change takes effect is the new zone's day, without a gap.
- `LimitsHold`: `Within` counts the activities of the window, of the shortest day before it, and of any
  shortest day, for all activities, roots and new roots.  A new window inherits the second count from the
  first one of the old; an activity issued now is in the window, and whatever is less than a day
  earlier is in the window or the shortest day before it.
- `UnlockedFirst` and `ReasonGiven`: `CountsAnswers` ties a state to the answers given, in particular its
  peak: it has reached three fifths exactly if the answers had at some moment (`MasteredIn`), because
  the higher of two ratios is there if either is (`HigherEarned`) and only a right answer raises one.
  With `StatesSeen` (a target has a state when it has been answered) `SelectionJustified`, an
  induction over the fallback of `select_next`, gives both.  It includes that a selection that does not
  refuse has a target: the keys of an intent are numbers of one length, so one is best (`BestIsThere`).

Only model-checked: `RequestsEnd` and `AbandonedLeaseEnds` (liveness under fairness and `ENABLED` are
out of the prover's reach), and the disagreements of the runs that expect a violation.

## 4. Not modelled

Text: prompts, payload validation, answer comparison, stress marks, document formats, HTTP status codes
but those the practice page tells apart.  Read-only reports (evidence diagnostics, shadow comparison,
workload display) have no state.  The research ledger and dataset are offline validation of
documents.  Operator scripts run by hand around a stopped system.  Migrations are schema; the
constraints the models rely on are cited where they are used.  The other views of the frontend keep
component state only.

Of the modelled components: `PracticeService.complete_activity`, which nothing calls; SQLite, which
the tests use and which has no row locks; attempts issued before keys were frozen; the counters of
right and wrong answers of a word, which only displays read; which words a day brings and in which
order; the manifests, artifacts and prerequisite graphs a publication refers to, which are one accept
or refuse choice before the request.

Hazards without a property: a second rating of one value after wrong answers, whose event is taken
for a repeat (`shadow_learning_service.py:332`; `RatedOnce` leaves ratings without a due instant out,
and no document says what should happen); two batches of new words in opposite orders
(`shadow_learning_service.py:233`; `LearningEvents` has one target, and the victim's request may be
repeated); comparison of instants of two clocks at the end of a run (`domain/practice.py:510`; the models
have one clock, and such a refusal writes nothing).

## 5. Plan

Done, in the order of importance: `AiFill`; `LocalPractice`; `MemoryPolicy` and `LearningEvents`;
`LegacyQuiz`; `WordReview`; `Publication`; `LearnerTime`, `Selection`, `LearnerPath`; `PracticeView`;
the proofs of section 3.

What could follow, in this order:

1. Shadow batches over several targets: `LearningEvents` with a set of state rows for a transaction,
   and an order of acquisition that a deadlock violates.
2. `LearnerPath` with the server of `PracticeView`, so that an uncertain request meets a real ceiling.
3. The research ledger's decisions as sequences.

Each run stays below a few minutes with two or three actors.
