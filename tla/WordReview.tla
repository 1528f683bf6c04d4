----------------------------- MODULE WordReview -----------------------------
(***************************************************************************)
(* One word of one learner: the row of user_word_progress, written by the  *)
(* first exposure, by single ratings, by the compatibility batch and by    *)
(* quiz answers (backend/app/services/learning_service.py,                 *)
(* quiz_service.py), and the shadow evidence of its ratings                *)
(* (services/shadow_learning_service.py), with                             *)
(* LANGUAGE_ASSISTANT_SHADOW_ENABLED set throughout.                       *)
(*                                                                         *)
(* Only a rating locks the row.  The others load it, compute new values    *)
(* and write at commit, and the ORM writes the columns that differ from    *)
(* what was loaded: see Update.  Time is counted in ticks; the learner's    *)
(* day starts at the multiples of Day.                                     *)
(***************************************************************************)
EXTENDS MemoryPolicy, FiniteSets

CONSTANTS Thread, None,
          GoodMax, EasyMax,  \* *_MAX_INTERVAL_DAYS
          MaxTime,           \* bound: the last tick
          MaxEvents,         \* bound: review events
          MaxRecalls         \* bound: ratings `good` or `easy` in a row

ASSUME WordAssumption == /\ Delay \in Nat \ {0} /\ Day \in Nat \ {0} /\ NoTime \notin Nat
                         /\ GoodMax \in Nat \ {0} /\ EasyMax \in Nat \ {0}
                         /\ MaxTime \in Nat /\ Day <= MaxTime
                         /\ MaxRecalls \in Nat \ {0} /\ MaxEvents \in Nat
                         /\ None \notin Thread
\* Both schedules have the same maxima.
ASSUME CapAssumption == GoodMax = DeterministicCap /\ EasyMax = EasyCap

VARIABLES
  now,
  row,       \* the row of user_word_progress, None before the first exposure
  lock,      \* the thread that holds the row FOR UPDATE
  pc,
  req,       \* what the request wants, when and with what it loaded the row, and
             \* what it is going to write
  keys,      \* idempotency keys of the review events, as <<locked_due_at, rating>>
  recalls,   \* history: how many ratings at the end of all were good or easy
  memory     \* memory of the target, None once a write had no event or a quiz one

requests == <<lock, pc, req>>
evidence == <<keys, memory, recalls>>
vars == <<now, row, requests, evidence>>

Due == Nat \union {NoTime}
ProgressRow == [status : {"seen", "reviewing", "learned"}, weak : BOOLEAN, due : Due,
                interval : Nat, streak : Nat, last : Nat]

Memory == [due : Due, interval : Nat]

ASSUME RowAssumption == None \notin ProgressRow \union Memory

Learning == [name : {"learn"}]
Batch == [name : {"batch"}]
Grading == [name : {"grade"}, rating : Rating]
Answering == [name : {"answer"}, outcome : {"wrong", "right", "right in a weekly quiz"}]
Operation == Learning \union Batch \union Grading \union Answering

Selected == [op : Learning \union Batch]
\* A word not met yet, one seen before reviews were scheduled, and one that was
\* in review when its memory was bootstrapped.
Unscheduled == [status |-> "seen", weak |-> FALSE, due |-> NoTime, interval |-> 0,
                streak |-> 0, last |-> 0]
InReview(interval) == [status |-> "reviewing", weak |-> FALSE, due |-> Day,
                       interval |-> interval, streak |-> 1, last |-> 0]

IsRequest(q) == /\ q.op \in Operation /\ q.at \in Due
                /\ q.due \in Due /\ q.insert \in BOOLEAN
                /\ DOMAIN q.write \subseteq DOMAIN Unscheduled

TypeOK == /\ now \in 0..MaxTime
          /\ row \in ProgressRow \union {None}
          /\ lock \in Thread \union {None}
          /\ pc \in [Thread -> {"idle", "selected", "open"}]
          /\ \A t \in Thread : CASE pc[t] = "idle" -> req[t] = None
                                [] pc[t] = "selected" -> req[t] \in Selected
                                [] pc[t] = "open" -> IsRequest(req[t])
          /\ keys \subseteq Due \X Rating
          /\ recalls \in 0..MaxRecalls
          /\ memory \in Memory \union {None}

\* _legacy_due_at: the word is not weak, and was last seen on an earlier day.
Bootstrapped(r) == [due |-> IF r.due = NoTime THEN Day ELSE r.due, interval |-> r.interval]

Init == /\ now = Day
        /\ row \in {None, Unscheduled, InReview(2), InReview(4)}
        /\ memory = IF row = None THEN [due |-> NoTime, interval |-> 0] ELSE Bootstrapped(row)
        /\ lock = None
        /\ pc = [t \in Thread |-> "idle"]
        /\ req = [t \in Thread |-> None]
        /\ keys = {}
        /\ recalls = IF row = None THEN 0 ELSE row.streak

-----------------------------------------------------------------------------
(* What the operations compute from the row they loaded.                   *)

TodayStart == (now \div Day) * Day

\* _is_review_due, and the queue's WHERE clause; first_seen_at <= last_seen_at.
IsDue(r) == IF r.due # NoTime THEN r.due <= now ELSE r.weak \/ r.last < TodayStart

\* Mistaken: there is no maximum.
GrownUncapped(interval, initial, factor, max) ==
  IF interval < initial THEN initial ELSE interval * factor

Grown(interval, initial, factor, max) ==
  IF interval < initial THEN initial ELSE Lesser(interval * factor, max)

RatedInterval(interval, rating) ==
  CASE rating = "again" -> 0
    [] rating = "hard" -> 1
    [] rating = "good" -> Grown(interval, 2, 2, GoodMax)
    [] rating = "easy" -> Grown(interval, 4, 3, EasyMax)

Recalled(rating) == rating \in {"good", "easy"}

\* Mistaken: `hard` leaves the streak as it is.
StreakThroughHard(streak, rating) ==
  IF Recalled(rating) THEN streak + 1 ELSE IF rating = "hard" THEN streak ELSE 0

StreakAfter(streak, rating) == IF Recalled(rating) THEN streak + 1 ELSE 0

\* apply_review_rating
Rated(r, rating, at) ==
  LET streak == StreakAfter(r.streak, rating)
      days == RatedInterval(r.interval, rating)
  IN [status |-> IF streak >= 3 THEN "learned" ELSE "reviewing",
      weak |-> rating = "again" \/ (rating = "hard" /\ r.weak),
      due |-> IF rating = "again" THEN at + Delay ELSE at + days * Day,
      interval |-> days, streak |-> streak, last |-> at]

Learned(r, at) ==
  IF r = None THEN [Unscheduled EXCEPT !.due = at + Day, !.last = at]
  ELSE [r EXCEPT !.status = "seen", !.due = at + Day, !.last = at]

Batched(r, at) ==
  [r EXCEPT !.status = IF @ = "learned" THEN @ ELSE "reviewing",
            !.due = at + Day, !.streak = 0, !.last = at]

\* A right answer clears the weak mark in a weekly quiz only.
Answered(r, o) ==
  CASE o.outcome = "wrong" -> [r EXCEPT !.weak = TRUE, !.due = NoTime]
    [] o.outcome = "right" -> r
    [] o.outcome = "right in a weekly quiz" -> [r EXCEPT !.weak = FALSE]

Computed(r, o, at) ==
  CASE o.name = "learn" -> Learned(r, at)
    [] o.name = "batch" -> Batched(r, at)
    [] o.name = "answer" -> Answered(r, o)
    [] o.name = "grade" -> Rated(r, o.rating, at)

\* An UPDATE names the columns whose value is not the one that was loaded.
Update(r, computed) ==
  IF r = None THEN computed
  ELSE [c \in {c \in DOMAIN r : computed[c] # r[c]} |-> computed[c]]
Updated(r, write) == [c \in DOMAIN r |-> IF c \in DOMAIN write THEN write[c] ELSE r[c]]

\* MemoryPolicyV1.apply, of the target's state.
Remember(m, outcome, at) ==
  IF ~Reschedules(m, outcome) THEN m
  ELSE [interval |-> NextInterval(m.interval, outcome),
        due |-> DueAfter(outcome, at, NextInterval(m.interval, outcome))]

-----------------------------------------------------------------------------
(* Requests.                                                               *)

Begin(t, where, request) ==
  /\ pc' = [pc EXCEPT ![t] = where]
  /\ req' = [req EXCEPT ![t] = request]
  /\ UNCHANGED <<now, row, evidence>>

\* Between the SELECT of the row and the commit the request only computes.
Loaded(o) == [op |-> o, at |-> IF o \in Answering THEN NoTime ELSE now,
              insert |-> row = None, due |-> IF o \in Grading THEN row.due ELSE NoTime,
              write |-> Update(row, Computed(row, o, now))]

\* complete_new_words: the word has no row.  complete_review: it is in the queue.
\* What was selected is read again, and is not checked again.
Select(t, o) ==
  /\ pc[t] = "idle"
  /\ o \in Learning \union Batch
  /\ IF o \in Learning THEN row = None ELSE row # None /\ IsDue(row)
  /\ Begin(t, "selected", [op |-> o])
  /\ UNCHANGED lock

Load(t) == /\ pc[t] = "selected"
           /\ Begin(t, "open", Loaded(req[t].op))
           /\ UNCHANGED lock

\* submit_answer: a question of a quiz that was made of words with a row.
LoadForAnswer(t, o) == /\ pc[t] = "idle" /\ o \in Answering
                       /\ row # None
                       /\ Begin(t, "open", Loaded(o))
                       /\ UNCHANGED lock

\* Mistaken: the row is read without FOR UPDATE.
GradeUnlocked(t, rating) ==
  /\ pc[t] = "idle"
  /\ row # None /\ IsDue(row)
  /\ Begin(t, "open", Loaded([name |-> "grade", rating |-> rating]))
  /\ UNCHANGED lock

\* grade_review: SELECT ... FOR UPDATE, then the checks.
LockForGrade(t, rating) ==
  /\ pc[t] = "idle"
  /\ lock = None
  /\ row # None /\ IsDue(row)
  /\ Begin(t, "open", Loaded([name |-> "grade", rating |-> rating]))
  /\ lock' = t

End(t) == /\ pc' = [pc EXCEPT ![t] = "idle"]
          /\ req' = [req EXCEPT ![t] = None]
          /\ lock' = IF lock = t THEN None ELSE lock

\* record_new_word_batch, of one word: a run of its own with one exposure, which is
\* completed and projected.
RecordNewWord(at) == memory' = Remember(memory, "exposure", at)

\* Of two first exposures one inserts the row and the other is refused.  The
\* exposure event is keyed by first_seen_at: an update of the row adds none.
CommitLearned(t) ==
  LET q == req[t]
  IN /\ q.op \in Learning
     /\ IF q.insert
          THEN /\ row = None
               /\ row' = q.write
               /\ RecordNewWord(q.at)
          ELSE /\ row' = Updated(row, q.write)
               /\ memory' = None
     /\ UNCHANGED <<keys, recalls>>

\* The batch has no shadow evidence; that of an answer is its quiz's.
CommitOther(t) ==
  LET q == req[t]
  IN /\ q.op \in Batch \union Answering
     /\ row' = Updated(row, q.write)
     /\ memory' = None
     /\ UNCHANGED <<keys, recalls>>

\* _review_idempotency_key: the due instant that was locked and the rating.
ReviewKey(q) == <<q.due, q.op.rating>>

\* A key that exists already is taken for a retry, and nothing is recorded.
CommitGrade(t) ==
  LET q == req[t]
      key == ReviewKey(q)
  IN /\ q.op \in Grading
     /\ Recalled(q.op.rating) => recalls < MaxRecalls
     /\ Cardinality(keys \union {key}) <= MaxEvents
     /\ row' = Updated(row, q.write)
     /\ keys' = keys \union {key}
     /\ recalls' = IF Recalled(q.op.rating) THEN recalls + 1 ELSE 0
     /\ memory' = IF memory = None \/ key \in keys THEN memory
                  ELSE Remember(memory, q.op.rating, q.at)

\* An UPDATE waits for the row lock of another transaction.
Commit(t) == /\ pc[t] = "open" /\ lock \in {t, None}
             /\ CommitLearned(t) \/ CommitOther(t) \/ CommitGrade(t)
             /\ End(t)
             /\ UNCHANGED now

\* A refusal, a failed write, a lost connection or a crash: nothing is written.
GiveUp(t) == /\ pc[t] # "idle"
             /\ End(t)
             /\ UNCHANGED <<now, row, evidence>>

\* Bound: a request takes less than a day.
Tick == /\ now < MaxTime
        /\ \A t \in Thread : pc[t] = "open" /\ req[t].at # NoTime => now + 1 < req[t].at + Day
        /\ now' = now + 1
        /\ UNCHANGED <<row, requests, evidence>>

Next == \/ \E t \in Thread :
             \/ \E o \in Learning \union Batch : Select(t, o)
             \/ \E o \in Answering : LoadForAnswer(t, o)
             \/ \E rating \in Rating : LockForGrade(t, rating)
             \/ Load(t) \/ Commit(t) \/ GiveUp(t)
        \/ Tick

Spec == Init /\ [][Next]_vars

-----------------------------------------------------------------------------
(* Properties.                                                             *)

Grades(t) == pc[t] = "open" /\ req[t].op \in Grading

\* product-state.md: concurrent ratings cannot both apply to the same due state.
\* A due instant that has been rated is not the row's again, whatever else writes
\* the row meanwhile, and no rating that is under way is for it.
RatedOnce ==
  \A key \in keys : key[1] # NoTime =>
    /\ row.due # key[1]
    /\ \A t \in Thread : Grades(t) => req[t].due # key[1]

\* A word is learned only by three ratings `good` or `easy` in a row, and the
\* streak counts at most the ratings in a row there were: a write computed from
\* an older row does not bring a streak back.
LearnedEarned ==
  row # None => /\ row.status = "learned" => recalls >= 3
                /\ row.streak <= recalls

\* As long as every write had its event, the shadow memory has the schedule of
\* the row it shadows, as soon as the row has one.
ShadowAgrees ==
  row # None /\ memory # None /\ row.due # NoTime => memory.due = row.due

\* product-state.md: an incorrect quiz answer marks the word weak and clears
\* next_review_at, making it immediately eligible.
WrongAnswerIsDue ==
  [][\A t \in Thread :
       Commit(t) /\ req[t].op \in Answering /\ req[t].op.outcome = "wrong" => IsDue(row')]_vars
=============================================================================
