----------------------------- MODULE LegacyQuiz -----------------------------
(***************************************************************************)
(* One quiz attempt made of the learner's words, answered and completed    *)
(* from several browser tabs (backend/app/services/quiz_service.py), and   *)
(* the shadow practice run that follows it while                           *)
(* LANGUAGE_ASSISTANT_SHADOW_ENABLED is set                                *)
(* (services/shadow_quiz_service.py).                                      *)
(*                                                                         *)
(* With the flag a request locks the attempt's row; without it nothing is  *)
(* locked.  The flag is read at startup, so it changes between requests    *)
(* only.  A word's content and the answer to an objective question are     *)
(* version numbers: an answer is the right one of some version.  The       *)
(* learner's word counters and weak marks are left to the rows of          *)
(* user_word_progress, which this module does not have.                    *)
(***************************************************************************)
EXTENDS Integers, FiniteSets, SequencesExt, Functions

CONSTANTS Thread, Word, None,
          Flags,      \* bound: the settings of the flag that are explored
          MaxVersion, \* bound: the versions of the words' content
          MaxBypasses \* bound: requests that run without the lock

ASSUME FlagAssumption == Flags \subseteq BOOLEAN /\ None \notin Thread
ASSUME BoundAssumption == MaxVersion \in Nat \ {0} /\ MaxBypasses \in Nat

VARIABLES
  shadow,    \* settings.language_assistant_shadow_enabled
  content,   \* the version of the words' content
  started,   \* the attempt has a row
  plan,      \* question_plan: the question at each place
  answers,   \* quiz_answers of each question, in order of id
  completed, \* completed_at is set
  score,
  run,       \* status of the shadow run, "none" if the attempt has none
  open,      \* its pending activities
  events,    \* learning_events of the run
  lock,      \* the thread that holds the attempt's row
  pc, req,
  read,      \* what the request has read
  told,      \* the breakdown the last completion was answered with
  bypasses   \* history: how many requests ran without the lock

attempt == <<started, plan, answers, completed, score, told>>
evidence == <<run, open, events>>
requests == <<lock, pc, req, read>>
vars == <<shadow, content, attempt, evidence, requests, bypasses>>

QuestionTypes == <<"sr_to_ru_choice", "ru_to_sr_typing", "remembered_forgot_self_check">>
SelfCheck == "remembered_forgot_self_check"
Version == 1..MaxVersion
Key == [word : Word, type : Range(QuestionTypes)]
KeyOf(question) == [word |-> question.word, type |-> question.type]

\* Mistaken: an objective answer is compared with the word as it is now.
JudgedByContent(question, given) ==
  IF question.type = SelfCheck THEN given = "remembered" ELSE given = content

\* An answer is judged by the key that was frozen with its question; a
\* self-check is what the learner says.
IsCorrect(question, given) ==
  IF question.type = SelfCheck THEN given = "remembered" ELSE given = question.key

Given(question) == IF question.type = SelfCheck THEN {"remembered", "forgot"} ELSE Version

Init == /\ shadow \in Flags
        /\ content = 1
        /\ started = FALSE
        /\ plan = [p \in {} |-> None]
        /\ answers = [k \in Key |-> <<>>]
        /\ completed = FALSE
        /\ score = 0
        /\ told = None
        /\ run = "none" /\ open = {} /\ events = {}
        /\ lock = None
        /\ pc = [t \in Thread |-> "idle"]
        /\ req = [t \in Thread |-> None]
        /\ read = [t \in Thread |-> None]
        /\ bypasses = 0

-----------------------------------------------------------------------------
(* The plan of an attempt.                                                 *)

\* The learner's words, each once, in the order the weak and recent ones come.
\* The order and the times that select them are left open.
SourceWords == {s \in SeqOf(Word, Cardinality(Word)) : IsInjective(s)}

\* The question on a word of the n-th type, with its key.
QuestionOf(word, n) == [word |-> word, type |-> QuestionTypes[n], key |-> content]

\* A choice needs a second label; `choosable' are the words that have one.
Askable(question, choosable) ==
  question.type = "sr_to_ru_choice" => question.word \in choosable

\* The types take turns over the words; a type that got no question is asked of
\* the first word.  Questions have the order of their places, which may have gaps.
PlanFor(words, choosable) ==
  LET turn(i) == QuestionOf(words[i], 1 + ((i - 1) % 3))
      extra(n) == QuestionOf(words[1], n)
      turns == {i \in DOMAIN words : Askable(turn(i), choosable)}
      extras == {n \in 1..3 : /\ words # <<>> /\ Askable(extra(n), choosable)
                              /\ \A i \in turns : turn(i).type # QuestionTypes[n]}
  IN [p \in turns \union {Len(words) + n : n \in extras} |->
        IF p \in turns THEN turn(p) ELSE extra(p - Len(words))]

\* The activity of a question, by the question's place and the number of its
\* try; what it practises and how it is scored follow from the question.
ActivityFor(i) == [question |-> i, try |-> 1]

Activities(questions) == {ActivityFor(i) : i \in DOMAIN questions}

-----------------------------------------------------------------------------
(* What is computed from the answers.                                      *)

AnyCorrect(history) == \E i \in DOMAIN history : history[i].correct

\* A question takes one answer, and a repeat if that one was wrong.
Finished(history) == AnyCorrect(history) \/ Len(history) >= 2

Asked == {KeyOf(plan[i]) : i \in DOMAIN plan}

ScoreOf(histories) == Cardinality({k \in Asked : AnyCorrect(histories[k])})

\* What the learner is told: first tries of objective questions, mistakes that
\* were put right, and what was remembered at once.
Breakdown(histories) ==
  LET objective == {k \in Asked : k.type # SelfCheck}
      reported == Asked \ objective
  IN [first     |-> Cardinality({k \in objective : histories[k][1].correct}),
      eligible  |-> Cardinality(objective),
      recovered |-> Cardinality({k \in objective : /\ ~histories[k][1].correct
                                                   /\ Len(histories[k]) > 1
                                                   /\ histories[k][2].correct}),
      remembered |-> Cardinality({k \in reported : histories[k][1].correct}),
      reports   |-> Cardinality(reported)]

\* What an event says of an answer: a self-check is a rating and proves nothing.
EvidenceOf(key, correct) ==
  IF key.type = SelfCheck THEN IF correct THEN "good" ELSE "again"
  ELSE IF correct THEN "correct" ELSE "incorrect"

Stored == UNION {{<<k, n>> : n \in DOMAIN answers[k]} : k \in Key}
Referred == {<<e.key, e.nth>> : e \in events}

\* Mistaken: a gap in the evidence is not looked for.
EnrolledWhileActive == run = "active"

\* _enroll: the run's events are of exactly the attempt's answers.
Enrolled == run = "active" /\ Referred = Stored

\* What _enroll does with a run that missed an answer.
AbandonIfGap == IF run = "active" /\ ~Enrolled
                  THEN run' = "abandoned" /\ open' = {}
                  ELSE UNCHANGED <<run, open>>

-----------------------------------------------------------------------------
(* Requests.                                                               *)

\* The attempt and, with the flag, its shadow run.  A plan without questions has
\* no run.
Start(words, choosable) ==
  LET questions == PlanFor(words, choosable)
      enroll == shadow /\ DOMAIN questions # {}
  IN /\ ~started
     /\ started' = TRUE
     /\ plan' = questions
     /\ run' = IF enroll THEN "active" ELSE "none"
     /\ open' = IF enroll THEN Activities(questions) ELSE {}
     /\ UNCHANGED <<shadow, content, answers, completed, score, told, events, requests,
                    bypasses>>

CountBypass(locks) == /\ locks \/ bypasses < MaxBypasses
                      /\ bypasses' = IF locks THEN bypasses ELSE bypasses + 1

Snapshot == [answers |-> answers, completed |-> completed]

Submission(i, given) == [name |-> "submit", question |-> plan[i], given |-> given]

\* Mistaken: the flag makes no difference to the reads.
SubmitUnlocked(t, i, given) ==
  /\ started /\ pc[t] = "idle"
  /\ req' = [req EXCEPT ![t] = Submission(i, given)]
  /\ read' = [read EXCEPT ![t] = Snapshot]
  /\ pc' = [pc EXCEPT ![t] = "open"]
  /\ CountBypass(shadow)
  /\ UNCHANGED <<shadow, content, attempt, evidence, lock>>

\* submit_answer reads the attempt and the question's history, under the lock
\* when there is one.
Submit(t, i, given) ==
  /\ started /\ pc[t] = "idle"
  /\ lock = None /\ lock' = IF shadow THEN t ELSE None
  /\ req' = [req EXCEPT ![t] = Submission(i, given)]
  /\ read' = [read EXCEPT ![t] = Snapshot]
  /\ pc' = [pc EXCEPT ![t] = "open"]
  /\ CountBypass(shadow)
  /\ UNCHANGED <<shadow, content, attempt, evidence>>

End(t) == /\ pc' = [pc EXCEPT ![t] = "idle"]
          /\ req' = [req EXCEPT ![t] = None]
          /\ read' = [read EXCEPT ![t] = None]
          /\ lock' = IF lock = t THEN None ELSE lock

\* The pending activities lock_for_answer finds for a question.  An answer needs
\* exactly one.
Matches(key) == {a \in open : KeyOf(plan[a.question]) = key}

\* The event of the answer just inserted.
EventOf(key, correct) == [key |-> key, nth |-> Len(answers[key]) + 1,
                          says |-> EvidenceOf(key, correct)]

\* Mistaken: no retry is created.
OpenWithoutRetry(activity, history, correct) == open \ {activity}

\* The activity is completed; a first wrong answer has a retry created at once.
OpenAfter(activity, history, correct) ==
  (open \ {activity}) \union
    (IF ~correct /\ (\A n \in DOMAIN history : history[n].correct)
       THEN {[activity EXCEPT !.try = @ + 1]} ELSE {})

\* record_answer.
Record(key, history, correct) ==
  \E activity \in Matches(key) :
    /\ Matches(key) = {activity}
    /\ events' = events \union {EventOf(key, correct)}
    /\ open' = OpenAfter(activity, history, correct)
    /\ UNCHANGED run

\* The answer that is inserted, its event and its activity.
Answer(t) ==
  LET o == req[t]
      k == KeyOf(o.question)
      correct == IsCorrect(o.question, o.given)
  IN /\ pc[t] = "open" /\ o.name = "submit"
     /\ ~read[t].completed
     /\ ~Finished(read[t].answers[k])
     /\ answers' = [answers EXCEPT ![k] = Append(@, [given |-> o.given, correct |-> correct])]
     /\ IF shadow /\ Enrolled
          THEN Record(k, read[t].answers[k], correct)
          ELSE /\ IF shadow THEN AbandonIfGap ELSE UNCHANGED <<run, open>>
               /\ UNCHANGED events
     /\ End(t)
     /\ UNCHANGED <<shadow, content, started, plan, completed, score, told, bypasses>>

\* complete_quiz loads the attempt, and only then locks it.  The locking SELECT
\* returns the object already loaded, so completed_at is as it was before.
Complete(t) ==
  /\ started /\ ~completed /\ pc[t] = "idle"
  /\ req' = [req EXCEPT ![t] = [name |-> "complete"]]
  /\ pc' = [pc EXCEPT ![t] = "queued"]
  /\ UNCHANGED <<shadow, content, attempt, evidence, lock, read, bypasses>>

Locking == shadow /\ DOMAIN plan # {}

ReadAnswers(t) ==
  /\ pc[t] = "queued"
  /\ lock = None /\ lock' = IF Locking THEN t ELSE None
  /\ read' = [read EXCEPT ![t] = Snapshot]
  /\ pc' = [pc EXCEPT ![t] = "open"]
  /\ CountBypass(Locking)
  /\ UNCHANGED <<shadow, content, attempt, evidence, req>>

\* ShadowQuizService.complete: the run must be enrolled and have no activity
\* left; a run that was completed already is not enrolled any more.
CompleteRun ==
  IF Enrolled THEN open = {} /\ run' = "completed" /\ UNCHANGED open ELSE AbandonIfGap

FinishAttempt(t) ==
  LET histories == read[t].answers
  IN /\ pc[t] = "open" /\ req[t].name = "complete"
     /\ \A k \in Asked : Finished(histories[k])
     /\ completed' = TRUE
     /\ score' = ScoreOf(histories)
     /\ told' = Breakdown(histories)
     /\ IF Locking THEN CompleteRun ELSE UNCHANGED <<run, open>>
     /\ End(t)
     /\ UNCHANGED <<shadow, content, started, plan, answers, events, bypasses>>

\* A refusal, a shadow failure (a catalogue mapping that changed since the start
\* is one), a lost connection or a crash: nothing is written.
GiveUp(t) == /\ pc[t] # "idle"
             /\ End(t)
             /\ UNCHANGED <<shadow, content, attempt, evidence, bypasses>>

\* The words are edited.
EditWords == /\ content < MaxVersion
             /\ content' = content + 1
             /\ UNCHANGED <<shadow, attempt, evidence, requests, bypasses>>

Restart(flag) == /\ flag # shadow
                 /\ \A t \in Thread : pc[t] = "idle"
                 /\ shadow' = flag
                 /\ UNCHANGED <<content, attempt, evidence, requests, bypasses>>

Next == \/ \E words \in SourceWords, choosable \in SUBSET Word : Start(words, choosable)
        \/ \E t \in Thread :
             \/ \E i \in DOMAIN plan : \E given \in Given(plan[i]) : Submit(t, i, given)
             \/ Answer(t) \/ Complete(t) \/ ReadAnswers(t)
             \/ FinishAttempt(t) \/ GiveUp(t)
        \/ EditWords
        \/ \E flag \in Flags : Restart(flag)

Spec == Init /\ [][Next]_vars

-----------------------------------------------------------------------------
(* Properties.                                                             *)

\* product-state.md: an incorrect answer can be repeated once per question.  The
\* code ensures it as long as every request took the lock: a question has at most
\* one repeat, and no answer after a correct one.
LimitUnderLock ==
  bypasses = 0 =>
    \A k \in Key :
      /\ Len(answers[k]) <= 2
      /\ \A n \in DOMAIN answers[k] : answers[k][n].correct => n = Len(answers[k])

\* The answer that was right when the question was asked is in the history.
KnownAsAsked(question) ==
  \E n \in DOMAIN answers[KeyOf(question)] :
    answers[KeyOf(question)][n].given =
      IF question.type = SelfCheck THEN "remembered" ELSE question.key

\* A completed attempt is frozen under the lock: its score counts the questions
\* that were answered as their keys were when the quiz was issued, whatever the
\* vocabulary says by now, no answer is added by a request that was in flight, and
\* the breakdown the learner was told adds up to the score.
ScoreUnderLock ==
  completed /\ bypasses = 0 =>
    /\ score = Cardinality({i \in DOMAIN plan : KnownAsAsked(plan[i])})
    /\ \A k \in Asked : Finished(answers[k])
    /\ told = Breakdown(answers)
    /\ told.eligible + told.reports = Cardinality(DOMAIN plan)
    /\ told.first + told.recovered
         = Cardinality({k \in Asked : k.type # SelfCheck /\ AnyCorrect(answers[k])})

\* A shadow run that was completed has exactly one event for every answer of its
\* attempt, which says what the answer was, through whatever settings of the
\* flag, and no activity left over.
CompletedRunIsComplete ==
  run = "completed" =>
    /\ events = {[key |-> a[1], nth |-> a[2],
                  says |-> EvidenceOf(a[1], answers[a[1]][a[2]].correct)] : a \in Stored}
    /\ open = {}

\* While the evidence is whole, a question can be answered again exactly when one
\* activity, the one of its next try, waits for the answer: enrolled requests
\* never fail for want of an activity, or because there are two.
ActivityPerOpenQuestion ==
  Enrolled =>
    \A i \in DOMAIN plan :
      LET k == KeyOf(plan[i])
      IN Matches(k) = IF Finished(answers[k]) THEN {}
                      ELSE {[question |-> i, try |-> Len(answers[k]) + 1]}
=============================================================================
