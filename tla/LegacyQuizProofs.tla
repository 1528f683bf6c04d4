-------------------------- MODULE LegacyQuizProofs --------------------------
(***************************************************************************)
(* Proofs about LegacyQuiz, for every number of tabs and words.            *)
(***************************************************************************)
EXTENDS LegacyQuiz, FiniteSetTheorems, TLAPS

Answered == Version \union {"remembered", "forgot"}
Question == [word : Word, type : Range(QuestionTypes), key : Version]
Entry == [given : Answered, correct : BOOLEAN]

IsSubmission(t) == pc[t] = "open" /\ req[t].name = "submit"

\* What the requests and the attempt are made of.
Types == /\ shadow \in BOOLEAN /\ content \in Version
         /\ started \in BOOLEAN /\ completed \in BOOLEAN
         /\ \A p \in DOMAIN plan : plan[p] \in Question
         /\ answers \in [Key -> Seq(Entry)]
         /\ pc \in [Thread -> {"idle", "queued", "open"}]
         /\ DOMAIN req = Thread /\ DOMAIN read = Thread
         /\ bypasses \in Nat
         /\ \A t \in Thread : IsSubmission(t) => /\ req[t].question \in Question
                                                 /\ req[t].given \in Answered
         /\ \A t \in Thread : pc[t] = "queued" => req[t].name = "complete"

\* An attempt that is not made has no request and no run.
StartedFirst == ~started => /\ \A t \in Thread : pc[t] = "idle"
                            /\ run = "none"

\* A request that locks the attempt is the only open one, and what it has read is
\* what is stored.
Held == Locking \/ bypasses = 0 =>
          \A t \in Thread : pc[t] = "open" =>
            /\ shadow /\ lock = t
            /\ read[t].answers = answers /\ read[t].completed = completed

EvidenceOfAnswers ==
  {[key |-> a[1], nth |-> a[2], says |-> EvidenceOf(a[1], answers[a[1]][a[2]].correct)] :
     a \in Stored}

\* Every event says what one stored answer was.
EventsTrue == events \subseteq EvidenceOfAnswers

\* A completed run belongs to a completed attempt, and no answer that is open
\* takes it for an uncompleted one.
RunEndsWithAttempt ==
  run = "completed" =>
    /\ completed
    /\ \A t \in Thread : IsSubmission(t) => read[t].completed

IInv == /\ Types /\ StartedFirst /\ Held
        /\ EventsTrue /\ RunEndsWithAttempt
        /\ LimitUnderLock /\ CompletedRunIsComplete

-----------------------------------------------------------------------------

LEMMA KeyTyped ==
  ASSUME NEW q \in Question
  PROVE  KeyOf(q) \in Key
BY DEF Question, KeyOf, Key

\* The plan of an attempt asks about the learner's words.
LEMMA PlanTyped ==
  ASSUME NEW words \in SourceWords, NEW choosable \in SUBSET Word, content \in Version,
         NEW p \in DOMAIN PlanFor(words, choosable)
  PROVE  PlanFor(words, choosable)[p] \in Question
<1> DEFINE turn(i) == QuestionOf(words[i], 1 + ((i - 1) % 3))
           extra(n) == QuestionOf(words[1], n)
           turns == {i \in DOMAIN words : Askable(turn(i), choosable)}
           extras == {n \in 1..3 : /\ words # <<>> /\ Askable(extra(n), choosable)
                                   /\ \A i \in turns : turn(i).type # QuestionTypes[n]}
           places == turns \union {Len(words) + n : n \in extras}
           ask(x) == IF x \in turns THEN turn(x) ELSE extra(x - Len(words))
<1>1. PICK m \in 0..Cardinality(Word) : words \in [1..m -> Word]
  BY DEF SourceWords, SeqOf
<1>2. \A w \in Word, n \in 1..3 : QuestionOf(w, n) \in Question
  BY DEF QuestionOf, Question, Range, QuestionTypes
<1>3. PlanFor(words, choosable) = [x \in places |-> ask(x)]
  BY DEF PlanFor
<1>4. p \in places /\ PlanFor(words, choosable)[p] = ask(p)
  BY <1>3
<1>5. CASE p \in turns
  <2>1. p \in 1..m /\ words[p] \in Word
    BY <1>1, <1>5
  <2>2. 1 + ((p - 1) % 3) \in 1..3
    BY <2>1
  <2> QED
    BY <1>2, <1>4, <1>5, <2>1, <2>2
<1>6. CASE p \notin turns
  <2>1. PICK n \in 1..3 : p = Len(words) + n /\ words # <<>>
    BY <1>4, <1>6
  <2>2. Len(words) = m /\ m \in Nat /\ m # 0
    BY <1>1, <2>1
  <2>3. words[1] \in Word /\ p - Len(words) = n
    BY <1>1, <2>1, <2>2
  <2> QED
    BY <1>2, <1>4, <1>6, <2>3
<1> QED
  BY <1>5, <1>6

LEMMA GivenTyped ==
  ASSUME NEW q, NEW given \in Given(q)
  PROVE  given \in Answered
BY DEF Given, Answered

\* The parts of the invariant hold at first.
LEMMA InitInv == Init => IInv
<1> SUFFICES ASSUME Init PROVE IInv
  OBVIOUS
<1> USE DEF Init
<1>1. Types
  <2>1. content \in Version /\ shadow \in BOOLEAN
    BY FlagAssumption, BoundAssumption DEF Version
  <2>2. answers \in [Key -> Seq(Entry)]
    OBVIOUS
  <2>3. \A p \in DOMAIN plan : plan[p] \in Question
    OBVIOUS
  <2> QED
    BY <2>1, <2>2, <2>3 DEF Types, IsSubmission
<1>2. StartedFirst /\ Held /\ EventsTrue /\ RunEndsWithAttempt
  BY DEF StartedFirst, Held, EventsTrue, RunEndsWithAttempt
<1>3. LimitUnderLock /\ CompletedRunIsComplete
  BY DEF LimitUnderLock, CompletedRunIsComplete
<1> QED
  BY <1>1, <1>2, <1>3 DEF IInv

-----------------------------------------------------------------------------
(* Steps.                                                                  *)

USE DEF attempt, evidence, requests

LEMMA TypesStep == IInv /\ [Next]_vars => Types'
<1> SUFFICES ASSUME IInv, [Next]_vars PROVE Types'
  OBVIOUS
<1> USE DEF IInv, Types, IsSubmission
<1>1. ASSUME NEW words \in SourceWords, NEW choosable \in SUBSET Word, Start(words, choosable)
      PROVE  Types'
  BY <1>1, PlanTyped DEF Start
<1>2. ASSUME NEW t \in Thread, NEW i \in DOMAIN plan, NEW given \in Given(plan[i]),
             Submit(t, i, given)
      PROVE  Types'
  <2>1. given \in Answered /\ plan[i] \in Question
    BY GivenTyped
  <2>2. bypasses' \in Nat
    BY <1>2 DEF Submit, CountBypass
  <2> QED
    BY <1>2, <2>1, <2>2 DEF Submit, Submission
<1>3. ASSUME NEW t \in Thread, Answer(t) PROVE Types'
  <2> DEFINE k == KeyOf(req[t].question)
             correct == IsCorrect(req[t].question, req[t].given)
  <2>1. req[t].question \in Question /\ req[t].given \in Answered
    BY <1>3 DEF Answer
  <2>2. k \in Key /\ correct \in BOOLEAN
    BY <2>1, KeyTyped DEF IsCorrect
  <2> DEFINE entry == [given |-> req[t].given, correct |-> correct]
  <2>4. entry \in Entry
    BY <2>1, <2>2 DEF Entry
  <2>5. answers' = [answers EXCEPT ![k] = Append(@, entry)]
    BY <1>3 DEF Answer
  <2>3. answers' \in [Key -> Seq(Entry)]
    <3> HIDE DEF entry, k
    <3> QED
      BY <2>2, <2>4, <2>5
  <2> QED
    BY <1>3, <2>3 DEF Answer, End
<1>4. ASSUME NEW t \in Thread, Complete(t) PROVE Types'
  BY <1>4 DEF Complete
<1>5. ASSUME NEW t \in Thread, ReadAnswers(t) PROVE Types'
  <2>1. bypasses' \in Nat
    BY <1>5 DEF ReadAnswers, CountBypass
  <2> QED
    BY <1>5, <2>1 DEF ReadAnswers
<1>6. ASSUME NEW t \in Thread, FinishAttempt(t) PROVE Types'
  BY <1>6 DEF FinishAttempt, End
<1>7. ASSUME NEW t \in Thread, GiveUp(t) PROVE Types'
  BY <1>7 DEF GiveUp, End
<1>8. ASSUME EditWords PROVE Types'
  BY <1>8, BoundAssumption DEF EditWords, Version
<1>9. ASSUME NEW flag \in Flags, Restart(flag) PROVE Types'
  BY <1>9, FlagAssumption DEF Restart
<1>10. ASSUME UNCHANGED vars PROVE Types'
  BY <1>10 DEF vars
<1> QED
  BY <1>1, <1>2, <1>3, <1>4, <1>5, <1>6, <1>7, <1>8, <1>9, <1>10 DEF Next

LEMMA StartedFirstStep == IInv /\ [Next]_vars => StartedFirst'
<1> SUFFICES ASSUME IInv, [Next]_vars, ~started' PROVE StartedFirst'
  BY DEF StartedFirst
<1>1. StartedFirst /\ Types
  BY DEF IInv
<1> USE DEF StartedFirst, Types
<1>2. ASSUME NEW words \in SourceWords, NEW choosable \in SUBSET Word, Start(words, choosable)
      PROVE  FALSE
  BY <1>2 DEF Start
<1>3. ASSUME NEW t \in Thread, NEW i \in DOMAIN plan, NEW given \in Given(plan[i]),
             Submit(t, i, given)
      PROVE  FALSE
  BY <1>3 DEF Submit
<1>4. ASSUME NEW t \in Thread,
             Answer(t) \/ ReadAnswers(t) \/ FinishAttempt(t) \/ GiveUp(t)
      PROVE  FALSE
  BY <1>1, <1>4 DEF Answer, ReadAnswers, FinishAttempt, GiveUp, Submit, Complete
<1>5. ASSUME NEW t \in Thread, Complete(t) PROVE FALSE
  BY <1>5 DEF Complete
<1>6. CASE EditWords \/ (\E flag \in Flags : Restart(flag)) \/ UNCHANGED vars
  BY <1>1, <1>6 DEF EditWords, Restart, vars
<1> QED
  BY <1>2, <1>3, <1>4, <1>5, <1>6 DEF Next

\* While the attempt is locked the threads that wait cannot become open, and its
\* holder alone changes what was read.
LEMMA HeldStep == IInv /\ [Next]_vars => Held'
<1> SUFFICES ASSUME IInv, [Next]_vars, Locking' \/ bypasses' = 0,
                    NEW u \in Thread, pc'[u] = "open"
             PROVE  /\ shadow' /\ lock' = u
                    /\ read'[u].answers = answers' /\ read'[u].completed = completed'
  BY DEF Held
<1> DEFINE Whole == /\ shadow' /\ lock' = u
                    /\ read'[u].answers = answers' /\ read'[u].completed = completed'
<1>1. Types /\ StartedFirst /\ Held
  BY DEF IInv
<1> USE DEF Locking
<1>2. ASSUME NEW words \in SourceWords, NEW choosable \in SUBSET Word, Start(words, choosable)
      PROVE  FALSE
  BY <1>1, <1>2 DEF Start, StartedFirst
<1>3. ASSUME NEW t \in Thread, NEW i \in DOMAIN plan, NEW given \in Given(plan[i]),
             Submit(t, i, given)
      PROVE  Whole
  <2>1. /\ shadow /\ lock' = t /\ lock = None /\ pc' = [pc EXCEPT ![t] = "open"]
        /\ read' = [read EXCEPT ![t] = Snapshot]
        /\ UNCHANGED <<shadow, plan, answers, completed>>
        /\ Locking \/ bypasses = 0
    BY <1>1, <1>3 DEF Submit, CountBypass, Types
  <2>2. u = t
    BY <1>1, <2>1, FlagAssumption DEF Held, Types
  <2> QED
    BY <1>1, <2>1, <2>2 DEF Types, Snapshot
<1>4. ASSUME NEW t \in Thread, ReadAnswers(t) PROVE Whole
  <2>1. /\ shadow /\ lock' = t /\ lock = None /\ pc' = [pc EXCEPT ![t] = "open"]
        /\ read' = [read EXCEPT ![t] = Snapshot]
        /\ UNCHANGED <<shadow, plan, answers, completed>>
        /\ Locking
    BY <1>1, <1>4 DEF ReadAnswers, CountBypass, Types
  <2>2. u = t
    BY <1>1, <2>1, FlagAssumption DEF Held, Types
  <2> QED
    BY <1>1, <2>1, <2>2 DEF Types, Snapshot
<1>5. ASSUME NEW t \in Thread, Complete(t) PROVE Whole
  BY <1>1, <1>5 DEF Complete, Held, Types
<1>6. ASSUME NEW t \in Thread, Answer(t) \/ FinishAttempt(t) \/ GiveUp(t) PROVE Whole
  <2>1. /\ pc' = [pc EXCEPT ![t] = "idle"] /\ read' = [read EXCEPT ![t] = None]
        /\ lock' = IF lock = t THEN None ELSE lock
        /\ UNCHANGED <<shadow, plan, bypasses>>
    BY <1>6 DEF Answer, FinishAttempt, GiveUp, End
  <2>2. /\ u # t /\ pc[u] = "open" /\ read'[u] = read[u]
        /\ shadow /\ lock = u
        /\ read[u].answers = answers /\ read[u].completed = completed
    BY <1>1, <2>1 DEF Held, Types
  <2>3. pc[t] # "open"
    BY <1>1, <2>1, <2>2 DEF Held
  <2>4. GiveUp(t)
    BY <1>6, <2>3 DEF Answer, FinishAttempt
  <2> QED
    BY <2>1, <2>2, <2>4 DEF GiveUp
<1>7. CASE EditWords \/ UNCHANGED vars
  BY <1>1, <1>7 DEF EditWords, vars, Held
<1>8. ASSUME NEW flag \in Flags, Restart(flag) PROVE FALSE
  BY <1>8 DEF Restart
<1> QED
  BY <1>2, <1>3, <1>4, <1>5, <1>6, <1>7, <1>8 DEF Next

\* The question an open answer is about, and whether it is right.
Answers(t) == KeyOf(req[t].question)
Right(t) == IsCorrect(req[t].question, req[t].given)

\* What an inserted answer does to the history of its question.
LEMMA AnswerAppends ==
  ASSUME IInv, NEW t \in Thread, Answer(t)
  PROVE  LET k == Answers(t)
         IN /\ k \in Key /\ Right(t) \in BOOLEAN
            /\ \A other \in Key \ {k} : answers'[other] = answers[other]
            /\ Len(answers'[k]) = Len(answers[k]) + 1
            /\ \A n \in DOMAIN answers[k] : answers'[k][n] = answers[k][n]
            /\ answers'[k][Len(answers[k]) + 1].correct = Right(t)
            /\ answers'[k][Len(answers[k]) + 1].given = req[t].given
            /\ DOMAIN answers'[k] = DOMAIN answers[k] \union {Len(answers[k]) + 1}
<1> DEFINE k == Answers(t)
           entry == [given |-> req[t].given, correct |-> Right(t)]
<1>1. req[t].question \in Question /\ req[t].given \in Answered
  BY DEF Answer, IInv, Types, IsSubmission
<1>2. k \in Key /\ Right(t) \in BOOLEAN
  BY <1>1, KeyTyped DEF IsCorrect, Answers, Right
<1>3. entry \in Entry /\ entry.correct = Right(t) /\ entry.given = req[t].given
  BY <1>1, <1>2 DEF Entry
<1>4. answers' = [answers EXCEPT ![k] = Append(@, entry)] /\ answers \in [Key -> Seq(Entry)]
  BY DEF Answer, IInv, Types, Answers, Right
<1> HIDE DEF entry, k
<1>5. answers'[k] = Append(answers[k], entry) /\ answers[k] \in Seq(Entry)
  BY <1>2, <1>4
<1>6. \A other \in Key \ {k} : answers'[other] = answers[other]
  BY <1>4
<1> QED
  BY <1>2, <1>3, <1>5, <1>6 DEF k

LEMMA LimitStep == IInv /\ [Next]_vars => LimitUnderLock'
<1> SUFFICES ASSUME IInv, [Next]_vars, bypasses' = 0, NEW key \in Key
             PROVE  /\ Len(answers'[key]) <= 2
                    /\ \A n \in DOMAIN answers'[key] :
                         answers'[key][n].correct => n = Len(answers'[key])
  BY DEF LimitUnderLock
<1>1. Types /\ Held /\ LimitUnderLock
  BY DEF IInv
<1>2. ASSUME UNCHANGED answers, bypasses = 0
      PROVE  /\ Len(answers'[key]) <= 2
             /\ \A n \in DOMAIN answers'[key] :
                  answers'[key][n].correct => n = Len(answers'[key])
  BY <1>1, <1>2 DEF LimitUnderLock
<1>3. ASSUME NEW words \in SourceWords, NEW choosable \in SUBSET Word, Start(words, choosable)
      PROVE  UNCHANGED answers /\ bypasses = 0
  BY <1>3 DEF Start
<1>4. ASSUME NEW t \in Thread, NEW i \in DOMAIN plan, NEW given \in Given(plan[i]),
             Submit(t, i, given)
      PROVE  UNCHANGED answers /\ bypasses = 0
  BY <1>1, <1>4 DEF Submit, CountBypass, Types
<1>5. ASSUME NEW t \in Thread, Answer(t)
      PROVE  /\ Len(answers'[key]) <= 2
             /\ \A n \in DOMAIN answers'[key] :
                  answers'[key][n].correct => n = Len(answers'[key])
  <2> DEFINE k == Answers(t)
  <2>1. bypasses = 0 /\ pc[t] = "open" /\ ~Finished(read[t].answers[k])
    BY <1>5 DEF Answer, Answers
  <2>2. read[t].answers = answers
    BY <1>1, <2>1 DEF Held
  <2>3. /\ k \in Key
        /\ \A other \in Key \ {k} : answers'[other] = answers[other]
        /\ Len(answers'[k]) = Len(answers[k]) + 1
        /\ \A n \in DOMAIN answers[k] : answers'[k][n] = answers[k][n]
        /\ DOMAIN answers'[k] = DOMAIN answers[k] \union {Len(answers[k]) + 1}
    BY <1>5, AnswerAppends
  <2>4. answers[k] \in Seq(Entry) /\ Len(answers[k]) \in Nat
    BY <1>1, <2>3 DEF Types
  <2> HIDE DEF k
  <2>5. Len(answers[k]) < 2 /\ \A n \in DOMAIN answers[k] : ~answers[k][n].correct
    BY <2>1, <2>2, <2>4 DEF Finished, AnyCorrect
  <2>6. CASE key = k
    BY <2>3, <2>4, <2>5, <2>6
  <2>7. CASE key # k
    BY <1>1, <2>1, <2>3, <2>7 DEF LimitUnderLock
  <2> QED
    BY <2>6, <2>7
<1>6. ASSUME NEW t \in Thread, Complete(t) \/ FinishAttempt(t) \/ GiveUp(t)
      PROVE  UNCHANGED answers /\ bypasses = 0
  BY <1>6 DEF Complete, FinishAttempt, GiveUp
<1>7. ASSUME NEW t \in Thread, ReadAnswers(t) PROVE UNCHANGED answers /\ bypasses = 0
  BY <1>1, <1>7 DEF ReadAnswers, CountBypass, Types
<1>8. CASE EditWords \/ (\E flag \in Flags : Restart(flag)) \/ UNCHANGED vars
  BY <1>2, <1>8 DEF EditWords, Restart, vars
<1> QED
  BY <1>2, <1>3, <1>4, <1>5, <1>6, <1>7, <1>8 DEF Next

LEMMA EventOfAnswer ==
  ASSUME EventsTrue, NEW e \in events
  PROVE  \E key \in Key : \E n \in DOMAIN answers[key] :
           e = [key |-> key, nth |-> n, says |-> EvidenceOf(key, answers[key][n].correct)]
<1>1. PICK a \in Stored :
        e = [key |-> a[1], nth |-> a[2], says |-> EvidenceOf(a[1], answers[a[1]][a[2]].correct)]
  BY DEF EventsTrue, EvidenceOfAnswers
<1>2. PICK key \in Key : \E n \in DOMAIN answers[key] : a = <<key, n>>
  BY DEF Stored
<1>3. PICK n \in DOMAIN answers[key] : a = <<key, n>>
  BY <1>2
<1> QED
  BY <1>1, <1>3

\* Each event stays true: the history it is about only grows.
LEMMA EventsStep == IInv /\ [Next]_vars => EventsTrue'
<1> SUFFICES ASSUME IInv, [Next]_vars PROVE EventsTrue'
  OBVIOUS
<1>1. EventsTrue /\ Types
  BY DEF IInv
<1>2. ASSUME UNCHANGED <<events, answers>> PROVE EventsTrue'
  BY <1>1, <1>2 DEF EventsTrue, EvidenceOfAnswers, Stored, EvidenceOf
<1>3. ASSUME NEW t \in Thread, Answer(t) PROVE EventsTrue'
  <2> DEFINE k == Answers(t)
             correct == Right(t)
  <2>1. /\ k \in Key
        /\ \A other \in Key \ {k} : answers'[other] = answers[other]
        /\ \A n \in DOMAIN answers[k] : answers'[k][n] = answers[k][n]
        /\ answers'[k][Len(answers[k]) + 1].correct = correct
        /\ DOMAIN answers'[k] = DOMAIN answers[k] \union {Len(answers[k]) + 1}
    BY <1>3, AnswerAppends
  <2>2. events' \subseteq events \union {EventOf(k, correct)}
    BY <1>3 DEF Answer, Record, Answers, Right
  <2> HIDE DEF k, correct
  <2>3. ASSUME NEW e \in events PROVE e \in EvidenceOfAnswers'
    <3>1. PICK key \in Key : \E n \in DOMAIN answers[key] :
            e = [key |-> key, nth |-> n, says |-> EvidenceOf(key, answers[key][n].correct)]
      BY <1>1, <2>3, EventOfAnswer
    <3>2. PICK n \in DOMAIN answers[key] :
            e = [key |-> key, nth |-> n, says |-> EvidenceOf(key, answers[key][n].correct)]
      BY <3>1
    <3>3. n \in DOMAIN answers'[key] /\ answers'[key][n] = answers[key][n]
      BY <2>1, <3>2
    <3>4. <<key, n>> \in Stored'
      BY <3>3 DEF Stored
    <3> QED
      BY <3>2, <3>3, <3>4 DEF EvidenceOfAnswers, EvidenceOf
  <2>4. EventOf(k, correct) \in EvidenceOfAnswers'
    <3> DEFINE n == Len(answers[k]) + 1
    <3>1. n \in DOMAIN answers'[k] /\ answers'[k][n].correct = correct
      BY <2>1
    <3>2. EventOf(k, correct) = [key |-> k, nth |-> n, says |-> EvidenceOf(k, correct)]
      BY DEF EventOf
    <3> HIDE DEF n
    <3>3. <<k, n>> \in Stored'
      BY <2>1, <3>1 DEF Stored
    <3> QED
      BY <3>1, <3>2, <3>3 DEF EvidenceOfAnswers, EvidenceOf
  <2> QED
    BY <2>2, <2>3, <2>4 DEF EventsTrue
<1>4. ASSUME NEW words \in SourceWords, NEW choosable \in SUBSET Word, Start(words, choosable)
      PROVE  EventsTrue'
  BY <1>2, <1>4 DEF Start
<1>5. ASSUME NEW t \in Thread, NEW i \in DOMAIN plan, NEW given \in Given(plan[i]),
             Submit(t, i, given)
      PROVE  EventsTrue'
  BY <1>2, <1>5 DEF Submit
<1>6. ASSUME NEW t \in Thread,
             Complete(t) \/ ReadAnswers(t) \/ FinishAttempt(t) \/ GiveUp(t)
      PROVE  EventsTrue'
  BY <1>2, <1>6 DEF Complete, ReadAnswers, FinishAttempt, GiveUp
<1>7. CASE EditWords \/ (\E flag \in Flags : Restart(flag)) \/ UNCHANGED vars
  BY <1>2, <1>7 DEF EditWords, Restart, vars
<1> QED
  BY <1>3, <1>4, <1>5, <1>6, <1>7 DEF Next

\* A completion finds the events of exactly the answers.
LEMMA EnrolledEvents ==
  ASSUME Enrolled, EventsTrue
  PROVE  events = EvidenceOfAnswers
<1> SUFFICES ASSUME NEW a \in Stored
             PROVE  [key |-> a[1], nth |-> a[2],
                     says |-> EvidenceOf(a[1], answers[a[1]][a[2]].correct)] \in events
  BY DEF EvidenceOfAnswers, EventsTrue
<1>1. PICK e \in events : a = <<e.key, e.nth>>
  BY DEF Enrolled, Referred
<1>2. PICK b \in Stored :
        e = [key |-> b[1], nth |-> b[2],
             says |-> EvidenceOf(b[1], answers[b[1]][b[2]].correct)]
  BY DEF EventsTrue, EvidenceOfAnswers
<1>3. a[1] = b[1] /\ a[2] = b[2]
  BY <1>1, <1>2
<1> QED
  BY <1>2, <1>3

\* No answer is inserted once the run is completed.
LEMMA NoAnswerAfterRun ==
  ASSUME IInv, NEW t \in Thread, Answer(t)
  PROVE  run' # "completed"
<1>1. run # "completed"
  BY DEF Answer, IInv, RunEndsWithAttempt, IsSubmission
<1> QED
  BY <1>1 DEF Answer, Record, AbandonIfGap

LEMMA RunStep == IInv /\ [Next]_vars => RunEndsWithAttempt' /\ CompletedRunIsComplete'
<1> SUFFICES ASSUME IInv, [Next]_vars, run' = "completed"
             PROVE  /\ completed'
                    /\ \A u \in Thread : IsSubmission(u)' => read'[u].completed
                    /\ events' = EvidenceOfAnswers' /\ open' = {}
  BY DEF RunEndsWithAttempt, CompletedRunIsComplete, EvidenceOfAnswers
<1> DEFINE Whole == /\ completed'
                    /\ \A u \in Thread : IsSubmission(u)' => read'[u].completed
                    /\ events' = EvidenceOfAnswers' /\ open' = {}
<1>1. /\ Types /\ StartedFirst /\ Held /\ EventsTrue
      /\ run = "completed" =>
           /\ completed
           /\ \A u \in Thread : IsSubmission(u) => read[u].completed
           /\ events = EvidenceOfAnswers /\ open = {}
  BY DEF IInv, RunEndsWithAttempt, CompletedRunIsComplete, EvidenceOfAnswers
<1>2. ASSUME UNCHANGED <<events, answers>>
      PROVE  EvidenceOfAnswers' = EvidenceOfAnswers
  BY <1>2 DEF EvidenceOfAnswers, Stored, EvidenceOf
<1>3. ASSUME NEW words \in SourceWords, NEW choosable \in SUBSET Word, Start(words, choosable)
      PROVE  FALSE
  BY <1>3 DEF Start
<1>4. ASSUME NEW t \in Thread, Answer(t) PROVE FALSE
  BY <1>4, NoAnswerAfterRun
<1>5. ASSUME NEW t \in Thread, NEW i \in DOMAIN plan, NEW given \in Given(plan[i]),
             Submit(t, i, given)
      PROVE  Whole
  <2>1. EvidenceOfAnswers' = EvidenceOfAnswers
    BY <1>2, <1>5 DEF Submit
  <2>2. read'[t].completed
    BY <1>1, <1>5 DEF Submit, Snapshot, Types
  <2> QED
    BY <1>1, <1>5, <2>1, <2>2 DEF Submit, Types, IsSubmission
<1>6. ASSUME NEW t \in Thread, FinishAttempt(t) PROVE Whole
  <2>1. EvidenceOfAnswers' = EvidenceOfAnswers /\ UNCHANGED events /\ completed'
    BY <1>2, <1>6 DEF FinishAttempt
  <2>2. /\ pc' = [pc EXCEPT ![t] = "idle"] /\ req' = [req EXCEPT ![t] = None]
        /\ read' = [read EXCEPT ![t] = None] /\ pc[t] = "open"
    BY <1>6 DEF FinishAttempt, End
  <2>3. CASE run = "completed"
    <3>1. open' = open
      BY <1>6, <2>3 DEF FinishAttempt, CompleteRun, Enrolled, AbandonIfGap
    <3> QED
      BY <1>1, <2>1, <2>2, <2>3, <3>1 DEF Types, IsSubmission
  <2>4. CASE run # "completed"
    <3>1. Locking /\ Enrolled /\ open = {} /\ open' = open
      BY <1>6, <2>4 DEF FinishAttempt, CompleteRun, AbandonIfGap
    <3>2. events = EvidenceOfAnswers
      BY <1>1, <3>1, EnrolledEvents
    <3>3. \A u \in Thread \ {t} : pc[u] # "open"
      BY <1>1, <2>2, <3>1 DEF Held
    <3> QED
      BY <1>1, <2>1, <2>2, <3>1, <3>2, <3>3 DEF Types, IsSubmission
  <2> QED
    BY <2>3, <2>4
<1>7. ASSUME NEW t \in Thread, Complete(t) \/ ReadAnswers(t) \/ GiveUp(t) PROVE Whole
  <2>1. EvidenceOfAnswers' = EvidenceOfAnswers
        /\ UNCHANGED <<run, events, open, completed>>
    BY <1>2, <1>7 DEF Complete, ReadAnswers, GiveUp
  <2>2. \A u \in Thread : IsSubmission(u)' => IsSubmission(u) /\ read'[u] = read[u]
    BY <1>1, <1>7 DEF Complete, ReadAnswers, GiveUp, End, Types, IsSubmission
  <2> QED
    BY <1>1, <2>1, <2>2
<1>8. CASE EditWords \/ (\E flag \in Flags : Restart(flag)) \/ UNCHANGED vars
  <2>1. EvidenceOfAnswers' = EvidenceOfAnswers
        /\ UNCHANGED <<run, events, open, completed, pc, req, read>>
    BY <1>2, <1>8 DEF EditWords, Restart, vars
  <2> QED
    BY <1>1, <2>1 DEF IsSubmission
<1> QED
  BY <1>3, <1>4, <1>5, <1>6, <1>7, <1>8 DEF Next

-----------------------------------------------------------------------------
(* Theorems.                                                               *)

THEOREM Invariance == Spec => []IInv
<1>1. IInv /\ [Next]_vars => IInv'
  BY TypesStep, StartedFirstStep, HeldStep, LimitStep, EventsStep, RunStep DEF IInv
<1> QED
  BY InitInv, <1>1, PTL DEF Spec

\* However many tabs answer one attempt: as long as each of them takes its lock, a
\* question has at most one repeat and no answer after a correct one.
THEOREM RepeatLimit == Spec => []LimitUnderLock
<1>1. IInv => LimitUnderLock
  BY DEF IInv
<1> QED
  BY Invariance, <1>1, PTL

\* However the flag was set in the meantime: a completed shadow run has exactly
\* one true event for every answer of its attempt, and no activity left over.
THEOREM CompletedRun == Spec => []CompletedRunIsComplete
<1>1. IInv => CompletedRunIsComplete
  BY DEF IInv
<1> QED
  BY Invariance, <1>1, PTL

-----------------------------------------------------------------------------
(* Keys, activities and score: what the invariant needs besides.           *)

\* No two questions of a plan have one key.
PlanWell == /\ IsFiniteSet(DOMAIN plan)
            /\ \A i, j \in DOMAIN plan : KeyOf(plan[i]) = KeyOf(plan[j]) => i = j

\* What a request answers is a question as it was asked, and so was every answer judged.
JudgedAsAsked ==
  /\ \A t \in Thread : IsSubmission(t) => \E i \in DOMAIN plan : req[t].question = plan[i]
  /\ \A i \in DOMAIN plan : \A n \in DOMAIN answers[KeyOf(plan[i])] :
       answers[KeyOf(plan[i])][n].correct = IsCorrect(plan[i], answers[KeyOf(plan[i])][n].given)

\* Before the start nothing is answered.
Fresh == ~started => (\A k \in Key : answers[k] = <<>>) /\ events = {} /\ ~completed

OpenFits == \A a \in open : a.question \in DOMAIN plan

\* While the evidence is whole, the activity of an open question is that of its next try.
Due(i) == LET history == answers[KeyOf(plan[i])]
          IN IF Finished(history) THEN {} ELSE {[question |-> i, try |-> Len(history) + 1]}

OpenOf(i) == {a \in open : a.question = i}

OneDue == Enrolled => \A i \in DOMAIN plan : OpenOf(i) = Due(i)

\* What a completion stored under the lock is still what the answers give.
Frozen == completed /\ bypasses = 0 =>
            /\ score = ScoreOf(answers) /\ told = Breakdown(answers)
            /\ \A k \in Asked : Finished(answers[k])

AttemptInv == PlanWell /\ JudgedAsAsked /\ Fresh /\ OpenFits /\ OneDue /\ Frozen

LEMMA PlanKeys ==
  ASSUME NEW words \in SourceWords, NEW choosable \in SUBSET Word
  PROVE  /\ IsFiniteSet(DOMAIN PlanFor(words, choosable))
         /\ \A i, j \in DOMAIN PlanFor(words, choosable) :
              KeyOf(PlanFor(words, choosable)[i]) = KeyOf(PlanFor(words, choosable)[j]) => i = j
<1> DEFINE turn(i) == QuestionOf(words[i], 1 + ((i - 1) % 3))
           extra(n) == QuestionOf(words[1], n)
           turns == {i \in DOMAIN words : Askable(turn(i), choosable)}
           extras == {n \in 1..3 : /\ words # <<>> /\ Askable(extra(n), choosable)
                                   /\ \A i \in turns : turn(i).type # QuestionTypes[n]}
           places == turns \union {Len(words) + n : n \in extras}
           ask(x) == IF x \in turns THEN turn(x) ELSE extra(x - Len(words))
<1>1. PICK m \in 0..Cardinality(Word) : words \in [1..m -> Word]
  BY DEF SourceWords, SeqOf
<1>2. m \in Nat /\ DOMAIN words = 1..m /\ Len(words) = m
  BY <1>1
<1>3. \A i, j \in 1..m : words[i] = words[j] => i = j
  BY <1>2 DEF SourceWords, IsInjective
<1>4. PlanFor(words, choosable) = [x \in places |-> ask(x)]
  BY DEF PlanFor
<1>5. IsFiniteSet(places)
  <2>1. places \subseteq 1..(m + 3)
    BY <1>2
  <2>2. IsFiniteSet(1..(m + 3))
    BY <1>2, FS_Interval
  <2> QED
    BY <2>1, <2>2, FS_Subset
<1>6. \A w1, w2, n1, n2 : KeyOf(QuestionOf(w1, n1)) = KeyOf(QuestionOf(w2, n2)) =>
        w1 = w2 /\ QuestionTypes[n1] = QuestionTypes[n2]
  BY DEF KeyOf, QuestionOf
<1>7. \A n1, n2 \in 1..3 : QuestionTypes[n1] = QuestionTypes[n2] => n1 = n2
  BY DEF QuestionTypes
<1>8. \A w, n : QuestionOf(w, n).type = QuestionTypes[n]
  BY DEF QuestionOf
<1>9. ASSUME NEW i \in places, NEW j \in places, KeyOf(ask(i)) = KeyOf(ask(j)) PROVE i = j
  <2>1. ASSUME NEW p \in places, p \notin turns
        PROVE  \E n \in extras : p = m + n /\ ask(p) = extra(n)
    <3>1. PICK n \in extras : p = m + n
      BY <1>2, <2>1
    <3>2. n \in 1..3
      OBVIOUS
    <3> HIDE DEF extras
    <3>3. p - Len(words) = n
      BY <1>2, <3>1, <3>2
    <3>4. ask(p) = extra(n)
      BY <2>1, <3>3
    <3> QED
      BY <3>1, <3>4
  <2>2. CASE i \in turns /\ j \in turns
    BY <1>2, <1>3, <1>6, <1>9, <2>2
  <2>3. CASE i \in turns /\ j \notin turns
    BY <1>6, <1>8, <1>9, <2>1, <2>3
  <2>4. CASE i \notin turns /\ j \in turns
    BY <1>6, <1>8, <1>9, <2>1, <2>4
  <2>5. CASE i \notin turns /\ j \notin turns
    <3>1. PICK n1 \in extras : i = m + n1 /\ ask(i) = extra(n1)
      BY <2>1, <2>5
    <3>2. PICK n2 \in extras : j = m + n2 /\ ask(j) = extra(n2)
      BY <2>1, <2>5
    <3>3. QuestionTypes[n1] = QuestionTypes[n2]
      BY <1>6, <1>9, <3>1, <3>2
    <3>4. n1 \in 1..3 /\ n2 \in 1..3
      OBVIOUS
    <3> QED
      BY <1>7, <3>1, <3>2, <3>3, <3>4
  <2> QED
    BY <2>2, <2>3, <2>4, <2>5
<1> QED
  BY <1>4, <1>5, <1>9

\* The activities an answer finds are those of its question's place.
LEMMA MatchesPlace ==
  ASSUME PlanWell, OpenFits, NEW i \in DOMAIN plan
  PROVE  Matches(KeyOf(plan[i])) = OpenOf(i)
BY DEF PlanWell, OpenFits, Matches, OpenOf

LEMMA InitAttempt == Init => AttemptInv
<1> SUFFICES ASSUME Init PROVE AttemptInv
  OBVIOUS
<1> USE DEF Init
<1>1. DOMAIN plan = {}
  OBVIOUS
<1>2. IsFiniteSet({})
  BY FS_EmptySet
<1>3. PlanWell /\ JudgedAsAsked /\ OpenFits /\ OneDue
  BY <1>1, <1>2 DEF PlanWell, JudgedAsAsked, OpenFits, OneDue, IsSubmission
<1> QED
  BY <1>3 DEF AttemptInv, Fresh, Frozen

\* What the steps that leave the attempt and its evidence alone keep.
LEMMA Untouched ==
  ASSUME AttemptInv, UNCHANGED <<attempt, evidence>>, bypasses' = 0 => bypasses = 0,
         \A t \in Thread : IsSubmission(t)' => IsSubmission(t) /\ req'[t] = req[t]
  PROVE  AttemptInv'
<1>1. PlanWell' /\ OpenFits' /\ Fresh'
  BY DEF AttemptInv, PlanWell, OpenFits, Fresh
<1>2. JudgedAsAsked'
  BY DEF AttemptInv, JudgedAsAsked, IsCorrect
<1>3. OneDue'
  BY DEF AttemptInv, OneDue, Enrolled, Referred, Stored, OpenOf, Due, Finished, AnyCorrect
<1>4. Frozen'
  BY DEF AttemptInv, Frozen, ScoreOf, Asked, AnyCorrect, Finished, Breakdown
<1> QED
  BY <1>1, <1>2, <1>3, <1>4 DEF AttemptInv

LEMMA StartAttempt ==
  ASSUME IInv, AttemptInv, NEW words \in SourceWords, NEW choosable \in SUBSET Word,
         Start(words, choosable)
  PROVE  AttemptInv'
<1> DEFINE questions == PlanFor(words, choosable)
<1>1. /\ ~started /\ started' /\ plan' = questions
      /\ UNCHANGED <<answers, completed, pc, req>>
      /\ open' = {} \/ open' = Activities(questions)
      /\ run' = "active" => open' = Activities(questions)
  BY DEF Start
<1>2. (\A k \in Key : answers[k] = <<>>) /\ ~completed /\ Types /\ StartedFirst
  BY <1>1 DEF IInv, AttemptInv, Fresh
<1>3. PlanWell'
  BY <1>1, PlanKeys DEF PlanWell
<1>4. \A i \in DOMAIN plan' : plan'[i] \in Question
  BY <1>1, <1>2, PlanTyped DEF Types
<1>5. \A i \in DOMAIN plan' : answers'[KeyOf(plan'[i])] = <<>>
  BY <1>1, <1>2, <1>4, KeyTyped
<1>6. JudgedAsAsked'
  <2>1. \A t \in Thread : ~IsSubmission(t)'
    BY <1>1, <1>2 DEF IsSubmission, StartedFirst
  <2>2. \A i \in DOMAIN plan' : DOMAIN answers'[KeyOf(plan'[i])] = {}
    BY <1>5
  <2> QED
    BY <2>1, <2>2 DEF JudgedAsAsked
<1>7. OpenFits'
  BY <1>1 DEF OpenFits, Activities, ActivityFor
<1>8. OneDue'
  <2> SUFFICES ASSUME run' = "active", NEW i \in DOMAIN plan'
               PROVE  OpenOf(i)' = Due(i)'
    BY DEF OneDue, Enrolled
  <2>1. open' = {ActivityFor(j) : j \in DOMAIN plan'}
    BY <1>1 DEF Activities
  <2>2. OpenOf(i)' = {[question |-> i, try |-> 1]}
    BY <2>1 DEF OpenOf, ActivityFor
  <2>3. Due(i)' = {[question |-> i, try |-> 1]}
    BY <1>5 DEF Due, Finished, AnyCorrect
  <2> QED
    BY <2>2, <2>3
<1> QED
  BY <1>1, <1>2, <1>3, <1>6, <1>7, <1>8 DEF AttemptInv, Fresh, Frozen

\* The question of an open answer has a place, and what it takes to be there is there.
LEMMA AnsweredPlace ==
  ASSUME IInv, AttemptInv, NEW t \in Thread, Answer(t)
  PROVE  \E i \in DOMAIN plan : plan[i] = req[t].question /\ Answers(t) = KeyOf(plan[i])
BY DEF AttemptInv, JudgedAsAsked, Answer, IsSubmission, Answers

LEMMA AnswerJudged ==
  ASSUME IInv, AttemptInv, NEW t \in Thread, Answer(t)
  PROVE  JudgedAsAsked'
<1> DEFINE k == Answers(t)
           last == Len(answers[k]) + 1
<1>1. /\ k \in Key
      /\ \A other \in Key \ {k} : answers'[other] = answers[other]
      /\ \A n \in DOMAIN answers[k] : answers'[k][n] = answers[k][n]
      /\ answers'[k][last].correct = Right(t) /\ answers'[k][last].given = req[t].given
      /\ DOMAIN answers'[k] = DOMAIN answers[k] \union {last}
  BY AnswerAppends
<1>2. PICK p \in DOMAIN plan : plan[p] = req[t].question /\ k = KeyOf(plan[p])
  BY AnsweredPlace
<1>3. /\ \A i \in DOMAIN plan : plan[i] \in Question
      /\ pc' = [pc EXCEPT ![t] = "idle"] /\ req' = [req EXCEPT ![t] = None]
      /\ DOMAIN req = Thread /\ DOMAIN pc = Thread /\ UNCHANGED plan
  BY DEF IInv, Types, Answer, End
<1>4. ASSUME NEW u \in Thread, IsSubmission(u)'
      PROVE  \E i \in DOMAIN plan' : req'[u].question = plan'[i]
  BY <1>3, <1>4 DEF IsSubmission, AttemptInv, JudgedAsAsked
<1>5. ASSUME NEW i \in DOMAIN plan, NEW n \in DOMAIN answers'[KeyOf(plan[i])]
      PROVE  answers'[KeyOf(plan[i])][n].correct
               = IsCorrect(plan[i], answers'[KeyOf(plan[i])][n].given)
  <2>1. KeyOf(plan[i]) \in Key
    BY <1>3, KeyTyped
  <2>2. CASE KeyOf(plan[i]) # k
    BY <1>1, <1>5, <2>1, <2>2 DEF AttemptInv, JudgedAsAsked
  <2>3. CASE KeyOf(plan[i]) = k /\ n # last
    BY <1>1, <1>5, <2>3 DEF AttemptInv, JudgedAsAsked
  <2>4. CASE KeyOf(plan[i]) = k /\ n = last
    <3>1. plan[i] = req[t].question
      BY <1>2, <2>4 DEF AttemptInv, PlanWell
    <3> QED
      BY <1>1, <2>4, <3>1 DEF Right
  <2> QED
    BY <2>2, <2>3, <2>4
<1> QED
  BY <1>3, <1>4, <1>5 DEF JudgedAsAsked, IsCorrect

\* An answer that is not recorded leaves a gap, and the run is no longer enrolled.
LEMMA Unrecorded ==
  ASSUME IInv, NEW t \in Thread, Answer(t), ~(shadow /\ Enrolled)
  PROVE  ~Enrolled'
<1> DEFINE k == Answers(t)
           last == Len(answers[k]) + 1
<1>1. k \in Key /\ DOMAIN answers'[k] = DOMAIN answers[k] \union {last}
  BY AnswerAppends
<1>2. last \notin DOMAIN answers[k]
  <2>1. answers[k] \in Seq(Entry)
    BY <1>1 DEF IInv, Types
  <2> QED
    BY <2>1
<1>3. <<k, last>> \in Stored' /\ <<k, last>> \notin Stored
  BY <1>1, <1>2 DEF Stored
<1>4. Referred \subseteq Stored
  <2>1. \A e \in events : <<e.key, e.nth>> \in Stored
    BY EventOfAnswer DEF IInv, Stored
  <2> QED
    BY <2>1 DEF Referred
<1>5. UNCHANGED events
  BY DEF Answer
<1>6. Referred' = Referred
  BY <1>5 DEF Referred
<1> QED
  BY <1>3, <1>4, <1>6 DEF Enrolled

\* A request that answers while its attempt can be locked read what is stored.
LEMMA ReadWhole ==
  ASSUME IInv, AttemptInv, NEW t \in Thread, Answer(t), shadow \/ bypasses = 0
  PROVE  read[t].answers = answers /\ read[t].completed = completed
<1>1. DOMAIN plan # {}
  BY AnsweredPlace
<1> QED
  BY <1>1 DEF IInv, Held, Locking, Answer

\* A recorded answer takes the activity of its question, and leaves that of the repeat.
LEMMA RecordedDue ==
  ASSUME IInv, AttemptInv, NEW t \in Thread, Answer(t), shadow, Enrolled
  PROVE  OpenFits' /\ OneDue'
<1> DEFINE k == Answers(t)
           last == Len(answers[k]) + 1
           correct == Right(t)
<1>1. PICK p \in DOMAIN plan : plan[p] = req[t].question /\ k = KeyOf(plan[p])
  BY AnsweredPlace
<1>2. /\ k \in Key /\ correct \in BOOLEAN
      /\ \A other \in Key \ {k} : answers'[other] = answers[other]
      /\ Len(answers'[k]) = Len(answers[k]) + 1
      /\ \A n \in DOMAIN answers[k] : answers'[k][n] = answers[k][n]
      /\ answers'[k][last].correct = correct
      /\ DOMAIN answers'[k] = DOMAIN answers[k] \union {last}
  BY AnswerAppends
<1>3. answers[k] \in Seq(Entry) /\ UNCHANGED plan
  BY <1>2 DEF IInv, Types, Answer
<1>4. read[t].answers = answers
  BY ReadWhole
<1>5. ~Finished(answers[k])
  BY <1>4 DEF Answer, Answers
<1>6. Record(k, answers[k], correct)
  BY <1>4 DEF Answer, Answers, Right
<1> DEFINE due == [question |-> p, try |-> last]
           again == [question |-> p, try |-> last + 1]
<1>7. OpenOf(p) = {due} /\ Matches(k) = {due}
  BY <1>1, <1>5, MatchesPlace DEF AttemptInv, OneDue, Due
<1>8. open' = OpenAfter(due, answers[k], correct)
  BY <1>6, <1>7 DEF Record
<1>9. Len(answers[k]) \in {0, 1} /\ (\A n \in DOMAIN answers[k] : ~answers[k][n].correct)
  <2>1. Len(answers[k]) \in Nat
    BY <1>3
  <2> HIDE DEF k
  <2>2. Len(answers[k]) < 2 /\ \A n \in DOMAIN answers[k] : ~answers[k][n].correct
    BY <1>5, <2>1 DEF Finished, AnyCorrect
  <2>3. \A m \in Nat : m < 2 => m \in {0, 1}
    OBVIOUS
  <2>4. Len(answers[k]) \in {0, 1}
    BY <2>1, <2>2, <2>3
  <2> QED
    BY <2>2, <2>4
<1>10. (\A n \in DOMAIN answers[k] : answers[k][n].correct) <=> Len(answers[k]) = 0
  <2>1. DOMAIN answers[k] = 1..Len(answers[k])
    BY <1>3
  <2> HIDE DEF k
  <2>2. CASE Len(answers[k]) = 0
    BY <2>1, <2>2
  <2>3. CASE Len(answers[k]) = 1
    <3>1. 1 \in DOMAIN answers[k]
      BY <2>1, <2>3
    <3> QED
      BY <1>9, <2>3, <3>1
  <2> QED
    BY <1>9, <2>2, <2>3
<1>11. open' = (open \ {due}) \union (IF ~correct /\ Len(answers[k]) = 0 THEN {again} ELSE {})
  <2>1. [due EXCEPT !.try = @ + 1] = again
    OBVIOUS
  <2> HIDE DEF due, again, k, correct
  <2> QED
    BY <1>8, <1>10, <2>1 DEF OpenAfter
<1>12. Finished(answers'[k]) <=> correct \/ Len(answers[k]) = 1
  <2> HIDE DEF k, correct
  <2>1. AnyCorrect(answers'[k]) <=> correct
    BY <1>2, <1>9 DEF AnyCorrect
  <2> QED
    BY <1>2, <1>9, <2>1 DEF Finished
<1>13. OpenFits'
  BY <1>3, <1>11 DEF AttemptInv, OpenFits
<1>14. ASSUME NEW i \in DOMAIN plan PROVE OpenOf(i)' = Due(i)'
  <2>1. CASE i = p
    <3>1. OpenOf(p)' = IF ~correct /\ Len(answers[k]) = 0 THEN {again} ELSE {}
      <4>1. {a \in open \ {due} : a.question = p} = {}
        BY <1>7 DEF OpenOf
      <4>2. again.question = p
        OBVIOUS
      <4> HIDE DEF again, due, k, correct
      <4> QED
        BY <1>11, <4>1, <4>2 DEF OpenOf
    <3>2. Due(p)' = IF Finished(answers'[k]) THEN {}
                    ELSE {[question |-> p, try |-> Len(answers'[k]) + 1]}
      BY <1>1, <1>3 DEF Due
    <3>3. Len(answers'[k]) + 1 = last + 1
      BY <1>2
    <3> QED
      BY <1>2, <1>9, <1>12, <2>1, <3>1, <3>2, <3>3
  <2>2. CASE i # p
    <3>1. OpenOf(i)' = OpenOf(i)
      BY <1>11, <2>2 DEF OpenOf
    <3>2. KeyOf(plan[i]) # k /\ KeyOf(plan[i]) \in Key
      BY <1>1, <2>2, KeyTyped DEF AttemptInv, PlanWell, IInv, Types
    <3>3. Due(i)' = Due(i)
      BY <1>2, <1>3, <3>2 DEF Due
    <3>4. OpenOf(i) = Due(i)
      BY DEF AttemptInv, OneDue
    <3> QED
      BY <3>1, <3>3, <3>4
  <2> QED
    BY <2>1, <2>2
<1> QED
  BY <1>3, <1>13, <1>14 DEF OneDue

LEMMA AnswerAttempt ==
  ASSUME IInv, AttemptInv, NEW t \in Thread, Answer(t)
  PROVE  AttemptInv'
<1>1. /\ UNCHANGED <<plan, started, completed, bypasses>> /\ pc[t] # "idle"
      /\ ~read[t].completed
  BY DEF Answer
<1>2. PlanWell'
  BY <1>1 DEF AttemptInv, PlanWell
<1>3. Fresh'
  BY <1>1 DEF IInv, StartedFirst, Fresh
<1>4. Frozen'
  BY <1>1, ReadWhole DEF Frozen
<1>5. OpenFits' /\ OneDue'
  <2>1. CASE shadow /\ Enrolled
    BY <2>1, RecordedDue
  <2>2. CASE ~(shadow /\ Enrolled)
    <3>1. open' \subseteq open
      BY <2>2 DEF Answer, AbandonIfGap
    <3>2. OneDue'
      BY <2>2, Unrecorded DEF OneDue
    <3> QED
      BY <1>1, <3>1, <3>2 DEF AttemptInv, OpenFits
  <2> QED
    BY <2>1, <2>2
<1> QED
  BY <1>2, <1>3, <1>4, <1>5, AnswerJudged DEF AttemptInv

\* A completion stores what the answers give, and ends the run or leaves it enrolled.
LEMMA FinishKeeps ==
  ASSUME IInv, AttemptInv, NEW t \in Thread, FinishAttempt(t)
  PROVE  AttemptInv'
<1>1. /\ UNCHANGED <<plan, started, answers, events, bypasses>> /\ pc[t] = "open"
      /\ open' \subseteq open
  BY DEF FinishAttempt, CompleteRun, AbandonIfGap
<1>2. PlanWell' /\ OpenFits'
  BY <1>1 DEF AttemptInv, PlanWell, OpenFits
<1>3. Fresh'
  BY <1>1 DEF IInv, StartedFirst, Fresh
<1>4. JudgedAsAsked'
  <2>1. /\ pc' = [pc EXCEPT ![t] = "idle"] /\ req' = [req EXCEPT ![t] = None]
        /\ DOMAIN req = Thread /\ DOMAIN pc = Thread
    BY DEF FinishAttempt, End, IInv, Types
  <2> QED
    BY <1>1, <2>1 DEF AttemptInv, JudgedAsAsked, IsSubmission, IsCorrect
<1>5. Frozen'
  <2> SUFFICES ASSUME bypasses = 0 PROVE Frozen'
    BY <1>1 DEF Frozen
  <2>1. read[t].answers = answers
    BY <1>1 DEF IInv, Held
  <2>2. /\ score' = ScoreOf(answers) /\ told' = Breakdown(answers)
        /\ \A k \in Asked : Finished(answers[k])
    BY <2>1 DEF FinishAttempt
  <2> QED
    BY <1>1, <2>2 DEF Frozen, ScoreOf, Asked, AnyCorrect, Finished, Breakdown
<1>6. OneDue'
  <2> SUFFICES ASSUME Enrolled' PROVE OneDue'
    BY DEF OneDue
  <2>1. Referred' = Referred /\ Stored' = Stored
    BY <1>1 DEF Referred, Stored
  <2>2. UNCHANGED <<run, open>>
    BY <2>1 DEF FinishAttempt, CompleteRun, AbandonIfGap, Enrolled
  <2>3. Enrolled
    BY <2>1, <2>2 DEF Enrolled
  <2> QED
    BY <1>1, <2>2, <2>3 DEF AttemptInv, OneDue, OpenOf, Due, Finished, AnyCorrect
<1> QED
  BY <1>2, <1>3, <1>4, <1>5, <1>6 DEF AttemptInv

LEMMA AttemptStep == IInv /\ AttemptInv /\ [Next]_vars => AttemptInv'
<1> SUFFICES ASSUME IInv, AttemptInv, [Next]_vars PROVE AttemptInv'
  OBVIOUS
<1>1. Types
  BY DEF IInv
<1>2. ASSUME NEW words \in SourceWords, NEW choosable \in SUBSET Word, Start(words, choosable)
      PROVE  AttemptInv'
  BY <1>2, StartAttempt
<1>3. ASSUME NEW t \in Thread, NEW i \in DOMAIN plan, NEW given \in Given(plan[i]),
             Submit(t, i, given)
      PROVE  AttemptInv'
  <2>1. UNCHANGED <<attempt, evidence>> /\ (bypasses' = 0 => bypasses = 0)
    BY <1>1, <1>3 DEF Submit, CountBypass, Types
  <2>2. /\ pc' = [pc EXCEPT ![t] = "open"]
        /\ req' = [req EXCEPT ![t] = Submission(i, given)]
        /\ DOMAIN req = Thread /\ DOMAIN pc = Thread
    BY <1>1, <1>3 DEF Submit, Types
  <2>3. \A u \in Thread : IsSubmission(u)' =>
          \E j \in DOMAIN plan' : req'[u].question = plan'[j]
    BY <2>1, <2>2 DEF AttemptInv, JudgedAsAsked, IsSubmission, Submission
  <2>4. JudgedAsAsked'
    BY <2>1, <2>3 DEF AttemptInv, JudgedAsAsked, IsCorrect
  <2>5. PlanWell' /\ OpenFits' /\ Fresh'
    BY <2>1 DEF AttemptInv, PlanWell, OpenFits, Fresh
  <2>6. OneDue'
    BY <2>1 DEF AttemptInv, OneDue, Enrolled, Referred, Stored, OpenOf, Due, Finished, AnyCorrect
  <2>7. Frozen'
    BY <2>1 DEF AttemptInv, Frozen, ScoreOf, Asked, AnyCorrect, Finished, Breakdown
  <2> QED
    BY <2>4, <2>5, <2>6, <2>7 DEF AttemptInv
<1>4. ASSUME NEW t \in Thread, Answer(t) PROVE AttemptInv'
  BY <1>4, AnswerAttempt
<1>5. ASSUME NEW t \in Thread, FinishAttempt(t) PROVE AttemptInv'
  BY <1>5, FinishKeeps
<1>6. ASSUME NEW t \in Thread, Complete(t) PROVE AttemptInv'
  <2>1. \A u \in Thread : IsSubmission(u)' => IsSubmission(u) /\ req'[u] = req[u]
    BY <1>1, <1>6 DEF Complete, Types, IsSubmission
  <2> QED
    BY <1>6, <2>1, Untouched DEF Complete
<1>7. ASSUME NEW t \in Thread, ReadAnswers(t) PROVE AttemptInv'
  <2>1. \A u \in Thread : IsSubmission(u)' => IsSubmission(u) /\ req'[u] = req[u]
    BY <1>1, <1>7 DEF ReadAnswers, Types, IsSubmission
  <2>2. bypasses' = 0 => bypasses = 0
    BY <1>1, <1>7 DEF ReadAnswers, CountBypass, Types
  <2> QED
    BY <1>7, <2>1, <2>2, Untouched DEF ReadAnswers
<1>8. ASSUME NEW t \in Thread, GiveUp(t) PROVE AttemptInv'
  <2>1. \A u \in Thread : IsSubmission(u)' => IsSubmission(u) /\ req'[u] = req[u]
    BY <1>1, <1>8 DEF GiveUp, End, Types, IsSubmission
  <2> QED
    BY <1>8, <2>1, Untouched DEF GiveUp
<1>9. CASE EditWords \/ (\E flag \in Flags : Restart(flag)) \/ UNCHANGED vars
  <2>1. UNCHANGED <<attempt, evidence, requests, bypasses>>
    BY <1>9 DEF EditWords, Restart, vars
  <2>2. \A u \in Thread : IsSubmission(u)' => IsSubmission(u) /\ req'[u] = req[u]
    BY <2>1 DEF IsSubmission
  <2> QED
    BY <2>1, <2>2, Untouched
<1> QED
  BY <1>2, <1>3, <1>4, <1>5, <1>6, <1>7, <1>8, <1>9 DEF Next

\* The places of a plan and the questions asked are as many.
LEMMA Counted ==
  ASSUME PlanWell, NEW I \in SUBSET DOMAIN plan
  PROVE  /\ IsFiniteSet({KeyOf(plan[i]) : i \in I}) /\ IsFiniteSet(I)
         /\ Cardinality({KeyOf(plan[i]) : i \in I}) = Cardinality(I)
<1> DEFINE keys == {KeyOf(plan[i]) : i \in I}
           f == [i \in I |-> KeyOf(plan[i])]
<1>1. IsFiniteSet(I)
  BY FS_Subset DEF PlanWell
<1>2. f \in Bijection(I, keys)
  BY DEF PlanWell, Bijection, Injection, Surjection, IsInjective
<1> QED
  BY <1>1, <1>2, FS_Bijection DEF ExistsBijection

LEMMA DisjointSum ==
  ASSUME NEW S, NEW T, IsFiniteSet(S), IsFiniteSet(T), S \cap T = {}
  PROVE  Cardinality(S \union T) = Cardinality(S) + Cardinality(T)
<1>1. /\ Cardinality(S \union T) = Cardinality(S) + Cardinality(T) - Cardinality(S \cap T)
      /\ Cardinality(S) \in Nat /\ Cardinality(T) \in Nat
  BY FS_Union, FS_CardinalityType
<1>2. Cardinality(S \cap T) = 0
  BY FS_EmptySet
<1> QED
  BY <1>1, <1>2

\* An answer is right exactly when it is the one that was right when it was asked.
LEMMA KnownIsCorrect ==
  ASSUME JudgedAsAsked, NEW i \in DOMAIN plan
  PROVE  KnownAsAsked(plan[i]) <=> AnyCorrect(answers[KeyOf(plan[i])])
BY DEF JudgedAsAsked, KnownAsAsked, AnyCorrect, IsCorrect

LEMMA ScoreHolds == IInv /\ AttemptInv => ScoreUnderLock
<1> SUFFICES ASSUME IInv, AttemptInv, completed, bypasses = 0
             PROVE  /\ score = Cardinality({i \in DOMAIN plan : KnownAsAsked(plan[i])})
                    /\ told.eligible + told.reports = Cardinality(DOMAIN plan)
                    /\ told.first + told.recovered
                         = Cardinality({k \in Asked : k.type # SelfCheck /\ AnyCorrect(answers[k])})
  BY DEF ScoreUnderLock, AttemptInv, Frozen
<1>1. /\ score = ScoreOf(answers) /\ told = Breakdown(answers)
      /\ \A k \in Asked : Finished(answers[k])
  BY DEF AttemptInv, Frozen
<1>2. PlanWell /\ JudgedAsAsked /\ Types /\ LimitUnderLock
  BY DEF IInv, AttemptInv
<1>3. IsFiniteSet(Asked) /\ Cardinality(Asked) = Cardinality(DOMAIN plan)
  BY <1>2, Counted DEF Asked
<1>4. score = Cardinality({i \in DOMAIN plan : KnownAsAsked(plan[i])})
  <2> DEFINE known == {i \in DOMAIN plan : KnownAsAsked(plan[i])}
  <2>1. {k \in Asked : AnyCorrect(answers[k])} = {KeyOf(plan[i]) : i \in known}
    BY <1>2, KnownIsCorrect DEF Asked
  <2>2. known \in SUBSET DOMAIN plan
    OBVIOUS
  <2> HIDE DEF known
  <2>3. Cardinality({KeyOf(plan[i]) : i \in known}) = Cardinality(known)
    BY <1>2, <2>2, Counted
  <2> QED
    BY <1>1, <2>1, <2>3 DEF ScoreOf, known
<1> DEFINE objective == {k \in Asked : k.type # SelfCheck}
<1>5. told.eligible + told.reports = Cardinality(DOMAIN plan)
  <2>1. IsFiniteSet(objective) /\ IsFiniteSet(Asked \ objective)
    BY <1>3, FS_Subset
  <2>2. objective \union (Asked \ objective) = Asked /\ objective \cap (Asked \ objective) = {}
    OBVIOUS
  <2>3. told.eligible = Cardinality(objective) /\ told.reports = Cardinality(Asked \ objective)
    BY <1>1 DEF Breakdown
  <2> HIDE DEF objective
  <2>4. Cardinality(Asked) = Cardinality(objective) + Cardinality(Asked \ objective)
    BY <2>1, <2>2, DisjointSum
  <2> QED
    BY <1>3, <2>3, <2>4
<1>6. told.first + told.recovered
        = Cardinality({k \in Asked : k.type # SelfCheck /\ AnyCorrect(answers[k])})
  <2> DEFINE first == {k \in objective : answers[k][1].correct}
             recovered == {k \in objective : /\ ~answers[k][1].correct
                                             /\ Len(answers[k]) > 1
                                             /\ answers[k][2].correct}
             right == {k \in Asked : k.type # SelfCheck /\ AnyCorrect(answers[k])}
  <2>1. told.first = Cardinality(first) /\ told.recovered = Cardinality(recovered)
    BY <1>1 DEF Breakdown
  <2>2. IsFiniteSet(first) /\ IsFiniteSet(recovered)
    BY <1>3, FS_Subset
  <2>3. first \cap recovered = {}
    OBVIOUS
  <2>4. first \union recovered = right
    <3>1. ASSUME NEW k \in Asked
          PROVE  AnyCorrect(answers[k]) <=>
                   \/ answers[k][1].correct
                   \/ Len(answers[k]) > 1 /\ answers[k][2].correct
      <4>1. k \in Key
        BY <1>2, <3>1, KeyTyped DEF Asked, Types
      <4>2. answers[k] \in Seq(Entry) /\ Len(answers[k]) <= 2
        BY <1>2, <4>1 DEF Types, LimitUnderLock
      <4>3. Len(answers[k]) \in Nat /\ DOMAIN answers[k] = 1..Len(answers[k])
        BY <4>2
      <4>4. Len(answers[k]) >= 1
        BY <1>1, <3>1, <4>3 DEF Finished, AnyCorrect
      <4>5. \A m \in Nat : m >= 1 /\ m <= 2 => m \in {1, 2}
        OBVIOUS
      <4>6. Len(answers[k]) \in {1, 2}
        BY <4>2, <4>3, <4>4, <4>5
      <4> QED
        BY <4>3, <4>6 DEF AnyCorrect
    <3> QED
      BY <3>1
  <2> HIDE DEF first, recovered, right
  <2>5. Cardinality(right) = Cardinality(first) + Cardinality(recovered)
    BY <2>2, <2>3, <2>4, DisjointSum
  <2> QED
    BY <2>1, <2>5 DEF right
<1> QED
  BY <1>4, <1>5, <1>6

LEMMA ActivityHolds == IInv /\ AttemptInv => ActivityPerOpenQuestion
<1> SUFFICES ASSUME IInv, AttemptInv, Enrolled, NEW i \in DOMAIN plan
             PROVE  LET k == KeyOf(plan[i])
                    IN Matches(k) = IF Finished(answers[k]) THEN {}
                                    ELSE {[question |-> i, try |-> Len(answers[k]) + 1]}
  BY DEF ActivityPerOpenQuestion
<1>1. Matches(KeyOf(plan[i])) = OpenOf(i) /\ OpenOf(i) = Due(i)
  BY MatchesPlace DEF AttemptInv, OneDue
<1> QED
  BY <1>1 DEF Due

\* With the invariant above, the bookkeeping of the attempt is inductive.
THEOREM BothInvariant == Spec => [](IInv /\ AttemptInv)
<1>1. Init => AttemptInv
  BY InitAttempt
<1>2. IInv /\ AttemptInv /\ [Next]_vars => AttemptInv'
  BY AttemptStep
<1> QED
  BY Invariance, <1>1, <1>2, PTL DEF Spec

\* However many tabs answer and complete one attempt under its lock, and whatever
\* becomes of the words: the score is what was known as it was asked, and the
\* breakdown adds up to it.
THEOREM FrozenScore == Spec => []ScoreUnderLock
BY BothInvariant, ScoreHolds, PTL

\* Through whatever settings of the flag: a run that is enrolled has the activity
\* of the next try of each open question, and no other.
THEOREM ActivityForEach == Spec => []ActivityPerOpenQuestion
BY BothInvariant, ActivityHolds, PTL
=============================================================================
