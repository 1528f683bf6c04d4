------------------------ MODULE LearningEventsProofs ------------------------
(***************************************************************************)
(* Proofs about LearningEvents, for every number of transactions, runs,    *)
(* keys and activities: what a transaction holds and records first; then   *)
(* what a replay is, and that the projection is one.                       *)
(***************************************************************************)
EXTENDS LearningEvents, FiniteSetTheorems, WellFoundedInduction, TLAPS

InFlight(t) == pc[t] \in {"insert", "ensure", "apply", "commit"}
IsAnswer(t) == req[t].kind = "answer"
Holds(t) == (pc[t] = "check" \/ InFlight(t)) /\ IsAnswer(t)

\* A transaction has a request, an answer's activity belongs to a run, and the
\* event that will be inserted is the request's.
RequestedBy(t) ==
  /\ pc[t] # "idle" => req[t] \in Request
  /\ pc[t] \in {"lock", "check", "recover"} => IsAnswer(t)
  /\ pc[t] # "idle" /\ IsAnswer(t) => req[t].act \in Issued /\ RunOf(t) \in Run
  /\ InFlight(t) => staged[t] = EventOf(req[t])
Requested == \A t \in Thread : RequestedBy(t)

\* An answer holds its run, which stays active, and so its activity pending.
RunHeldBy(t) ==
  /\ Holds(t) => runLock[RunOf(t)] = t /\ run[RunOf(t)] = "active"
  /\ InFlight(t) /\ IsAnswer(t) => Pending(req[t].act)
  /\ \A r \in Run : runLock[r] = t => Holds(t)
RunHeld == \A t \in Thread : RunHeldBy(t)

\* A review's activity is its own, and is not there before it commits.
ReviewApart(t) ==
  pc[t] # "idle" /\ ~IsAnswer(t) =>
    /\ req[t].act \notin Issued
    /\ \A u \in Thread \ {t} : req[u] # None => req[u].act # req[t].act
ReviewsApart == \A t \in Thread : ReviewApart(t)

\* Who makes the state's row locks it, and nobody else is past it; who saves a
\* projection has the row locked.
RowHeldBy(t) ==
  /\ made[t] => state = {} /\ rowLock = t /\ pc[t] \in {"apply", "commit"}
  /\ pc[t] \in {"apply", "commit"} /\ state = {} => made[t]
  /\ pc[t] = "commit" => rowLock = t
  /\ rowLock = t => made[t] \/ pc[t] = "commit"
RowHeld == \A t \in Thread : RowHeldBy(t)

IInv == /\ TypeOK /\ Requested /\ RunHeld /\ ReviewsApart /\ RowHeld
        /\ IsFiniteSet(log)
        /\ OneEventEach /\ EndedRunIsWhole /\ AnsweredIsRecorded

-----------------------------------------------------------------------------
(* What a step leaves alone.                                               *)

USE DEF tables, private

Place == {"idle", "lock", "check", "insert", "recover", "ensure", "apply", "commit"}

Begin(t) == \E q \in Request : BeginAnswer(t, q) \/ BeginReview(t, q)
Proceed(t) == \/ LockRun(t) \/ CheckActivity(t) \/ InsertEvent(t) \/ Recover(t)
              \/ EnsureState(t) \/ ApplyEvent(t)
Threads(t) == Begin(t) \/ Proceed(t) \/ Commit(t) \/ Fail(t)
Runs == \/ \E r \in Run : \/ StartRun(r) \/ CompleteRun(r) \/ AbandonRun(r)
                          \/ \E a \in Act : AddActivity(r, a)
        \/ \E p, a \in Act : CreateRetry(p, a)
Bootstraps == \E days \in Schedules : Bootstrap(LegacyBaseline(days * Day, days))

LEMMA NextCases ==
  [Next]_vars <=> \/ Runs \/ Bootstraps \/ UNCHANGED vars
                  \/ \E t \in Thread : Threads(t)
BY DEF Next, Runs, Bootstraps, Threads, Begin, Proceed

LEMMA RequestTyped ==
  ASSUME NEW q \in Request
  PROVE  /\ q.act \in Act /\ q.key \in Key /\ q.kind \in {"answer", "review"}
         /\ q # None /\ EventOf(q) \in Event
         /\ EventOf(q).act = q.act /\ EventOf(q).key = q.key
         /\ EventOf(q).outcome = q.outcome
<1>1. q # None
  BY NoneAssumption
<1>2. CASE q \in [kind : {"answer"}, act : Act, key : Key, at : 0..MaxTime, outcome : Answers]
  BY <1>1, <1>2 DEF EventOf, Event
<1>3. CASE q \in [kind : {"review"}, act : Act, key : Key, at : 0..MaxTime, outcome : Ratings]
  BY <1>1, <1>3 DEF EventOf, Event
<1> QED
  BY <1>2, <1>3 DEF Request

\* How a transaction that is left, or over, leaves what is its own.
LEMMA LeaveEffect ==
  ASSUME TypeOK, NEW t \in Thread, NEW place \in Place, Leave(t, place)
  PROVE  /\ pc'[t] = place /\ pc' \in [Thread -> Place]
         /\ staged'[t] = None /\ staged' \in [Thread -> Event \union {None}]
         /\ made'[t] = FALSE /\ made' \in [Thread -> BOOLEAN]
         /\ \A u \in Thread \ {t} : /\ pc'[u] = pc[u] /\ staged'[u] = staged[u]
                                    /\ made'[u] = made[u]
         /\ runLock' \in [Run -> Thread \union {None}]
         /\ \A r \in Run : runLock'[r] = IF runLock[r] = t THEN None ELSE runLock[r]
         /\ rowLock' \in Thread \union {None}
         /\ rowLock' = IF rowLock = t THEN None ELSE rowLock
BY DEF TypeOK, Leave, Unlock, Place

LEMMA EndEffect ==
  ASSUME TypeOK, NEW t \in Thread, NEW answered, End(t, answered)
  PROVE  /\ Leave(t, "idle")
         /\ req' \in [Thread -> Request \union {None}]
         /\ req'[t] \in {req[t], None}
         /\ \A u \in Thread \ {t} : req'[u] = req[u]
BY DEF TypeOK, End

\* A step of a transaction is no step of another.
Apart(t) == \A u \in Thread \ {t} : /\ pc'[u] = pc[u] /\ req'[u] = req[u]
                                    /\ staged'[u] = staged[u] /\ made'[u] = made[u]

LEMMA BeginEffect ==
  ASSUME TypeOK, NEW t \in Thread, NEW q \in Request, BeginAnswer(t, q) \/ BeginReview(t, q)
  PROVE  /\ UNCHANGED <<tables, runLock, rowLock, made, value>>
         /\ req' = [req EXCEPT ![t] = q]
         /\ pc[t] = "idle" /\ pc' \in [Thread -> Place]
         /\ q.kind = "answer" => /\ q.act \in Issued /\ act[q.act].run # None
                                 /\ pc'[t] = "lock" /\ staged' = staged
         /\ q.kind = "review" => /\ Fresh(q.act) /\ pc'[t] = "insert"
                                 /\ staged' = [staged EXCEPT ![t] = EventOf(q)]
         /\ Apart(t)
BY DEF TypeOK, BeginAnswer, BeginReview, Stage, Apart, Place

LEMMA ThreadApart ==
  ASSUME TypeOK, NEW t \in Thread, Threads(t)
  PROVE  Apart(t)
<1>1. CASE Begin(t)
  BY <1>1, BeginEffect DEF Begin
<1>2. ASSUME NEW answered, End(t, answered) PROVE Apart(t)
  <2>1. Leave(t, "idle") /\ \A u \in Thread \ {t} : req'[u] = req[u]
    BY <1>2, EndEffect
  <2> QED
    BY <2>1, LeaveEffect DEF Apart, Place
<1>3. CASE LockRun(t)
  BY <1>2, <1>3 DEF LockRun, TypeOK, Apart
<1>4. CASE CheckActivity(t)
  BY <1>2, <1>4 DEF CheckActivity, ReturnDuplicate, Stage, TypeOK, Apart
<1>5. CASE InsertEvent(t)
  <2>1. ASSUME Leave(t, "recover"), UNCHANGED req PROVE Apart(t)
    BY <2>1, LeaveEffect DEF Apart, Place
  <2> QED
    BY <1>2, <1>5, <2>1 DEF InsertEvent, TypeOK, Apart
<1>6. CASE Recover(t)
  BY <1>2, <1>6 DEF Recover, ReturnDuplicate
<1>7. CASE EnsureState(t) \/ ApplyEvent(t)
  BY <1>7 DEF EnsureState, ApplyEvent, TypeOK, Apart
<1>8. CASE Commit(t) \/ Fail(t)
  BY <1>2, <1>8 DEF Commit, Fail
<1> QED
  BY <1>1, <1>3, <1>4, <1>5, <1>6, <1>7, <1>8 DEF Threads, Proceed

\* Activities stay, in their runs.
LEMMA ActivitiesStay ==
  ASSUME IInv, [Next]_vars
  PROVE  /\ act' \in [Act -> Activity \union {None}]
         /\ \A a \in Issued : a \in Issued' /\ act'[a].run = act[a].run
<1>1. TypeOK /\ Requested /\ None \notin Activity
  BY NoneAssumption DEF IInv
<1>2. ASSUME UNCHANGED act
      PROVE  /\ act' \in [Act -> Activity \union {None}]
             /\ \A a \in Issued : a \in Issued' /\ act'[a].run = act[a].run
  BY <1>1, <1>2 DEF TypeOK, Issued
<1>3. ASSUME NEW a \in Act, a \notin Issued, NEW row \in Activity, act' = [act EXCEPT ![a] = row]
      PROVE  /\ act' \in [Act -> Activity \union {None}]
             /\ \A b \in Issued : b \in Issued' /\ act'[b].run = act[b].run
  BY <1>1, <1>3 DEF TypeOK, Issued
<1>4. ASSUME NEW a \in Issued, NEW status \in {"completed", "cancelled"}
      PROVE  /\ [act[a] EXCEPT !.status = status] \in Activity
             /\ [act[a] EXCEPT !.status = status].run = act[a].run
  BY <1>1 DEF TypeOK, Issued, Activity
<1>5. CASE Runs
  <2>1. ASSUME NEW r \in Run, StartRun(r) \/ CompleteRun(r) PROVE UNCHANGED act
    BY <2>1 DEF StartRun, CompleteRun
  <2>2. ASSUME NEW r \in Run, AbandonRun(r)
        PROVE  /\ act' \in [Act -> Activity \union {None}]
               /\ \A a \in Issued : a \in Issued' /\ act'[a].run = act[a].run
    <3>1. act' = [a \in Act |-> IF a \in Of(r) /\ Pending(a) THEN Cancelled(a) ELSE act[a]]
      BY <2>2 DEF AbandonRun, Abandoned
    <3>2. \A a \in Of(r) : Cancelled(a) \in Activity /\ Cancelled(a).run = act[a].run
      BY <1>4 DEF Of, Cancelled
    <3> QED
      BY <1>1, <3>1, <3>2 DEF TypeOK, Issued, Of
  <2>3. ASSUME NEW r \in Run, NEW a \in Act, AddActivity(r, a)
        PROVE  a \notin Issued /\ NewRow(r, None) \in Activity
               /\ act' = [act EXCEPT ![a] = NewRow(r, None)]
    BY <2>3 DEF AddActivity, Fresh, NewRow, Activity
  <2>4. ASSUME NEW p \in Act, NEW a \in Act, CreateRetry(p, a)
        PROVE  a \notin Issued /\ NewRow(act[p].run, p) \in Activity
               /\ act' = [act EXCEPT ![a] = NewRow(act[p].run, p)]
    <3>1. p \in Issued /\ act[p] \in Activity
      BY <1>1, <2>4 DEF CreateRetry, TypeOK, Issued
    <3> QED
      BY <2>4, <3>1 DEF CreateRetry, Fresh, NewRow, Activity
  <2> QED
    BY <1>2, <1>3, <1>5, <2>1, <2>2, <2>3, <2>4 DEF Runs
<1>6. CASE Bootstraps \/ UNCHANGED vars
  BY <1>2, <1>6 DEF Bootstraps, Bootstrap, vars
<1>7. ASSUME NEW t \in Thread, Begin(t) \/ Proceed(t) \/ Fail(t) PROVE UNCHANGED act
  BY <1>7 DEF Begin, Proceed, Fail, BeginAnswer, BeginReview, LockRun, CheckActivity,
     InsertEvent, Recover, EnsureState, ApplyEvent, ReturnDuplicate
<1>8. ASSUME NEW t \in Thread, Commit(t)
      PROVE  /\ act' \in [Act -> Activity \union {None}]
             /\ \A a \in Issued : a \in Issued' /\ act'[a].run = act[a].run
  <2>1. pc[t] = "commit" /\ req[t] \in Request /\ staged[t].act = req[t].act
        /\ req[t].act \in Act
    BY <1>1, <1>8, RequestTyped DEF Commit, Requested, RequestedBy, InFlight
  <2>2. CASE IsAnswer(t)
    <3>1. act' = [act EXCEPT ![req[t].act] = [@ EXCEPT !.status = "completed"]]
      BY <1>8, <2>1, <2>2 DEF Commit, IsAnswer
    <3>2. req[t].act \in Issued
      BY <1>1, <2>1, <2>2 DEF Requested, RequestedBy
    <3> QED
      BY <1>1, <1>4, <3>1, <3>2 DEF TypeOK, Issued
  <2>3. CASE ~IsAnswer(t)
    <3>1. req[t].act \notin Issued
      BY <2>1, <2>3 DEF IInv, ReviewsApart, ReviewApart
    <3>2. act' = [act EXCEPT ![req[t].act] =
                    [run |-> None, parent |-> None, status |-> "completed"]]
      BY <1>8, <2>1, <2>3 DEF Commit, IsAnswer
    <3> QED
      BY <1>3, <2>1, <3>1, <3>2 DEF Activity
  <2> QED
    BY <2>2, <2>3
<1> QED
  BY <1>2, <1>5, <1>6, <1>7, <1>8, NextCases DEF Threads

-----------------------------------------------------------------------------
(* What a step of a transaction does.                                      *)

\* It is over without a trace; its caller may be given a recorded event.
Closes(t) ==
  /\ pc[t] # "idle" /\ Leave(t, "idle") /\ UNCHANGED tables
  /\ \/ req' = req /\ \E e \in log : e.key = req[t].key /\ SameRequest(e, req[t])
     \/ req' = [req EXCEPT ![t] = None]

TakesRun(t) ==
  /\ pc[t] = "lock" /\ pc' = [pc EXCEPT ![t] = "check"]
  /\ runLock[RunOf(t)] = None /\ run[RunOf(t)] = "active"
  /\ runLock' = [runLock EXCEPT ![RunOf(t)] = t]
  /\ UNCHANGED <<tables, rowLock, req, private>>

Stages(t) ==
  /\ pc[t] = "check" /\ pc' = [pc EXCEPT ![t] = "insert"]
  /\ Pending(req[t].act)
  /\ staged' = [staged EXCEPT ![t] = EventOf(req[t])]
  /\ UNCHANGED <<tables, runLock, rowLock, req, made, value>>

Inserts(t) ==
  /\ pc[t] = "insert" /\ pc' = [pc EXCEPT ![t] = "ensure"]
  /\ UNCHANGED <<tables, runLock, rowLock, req, private>>

Retreats(t) ==
  /\ pc[t] = "insert" /\ req[t].kind = "answer" /\ Leave(t, "recover")
  /\ UNCHANGED <<tables, req>>

LEMMA ThreadCases ==
  ASSUME IInv, NEW t \in Thread, Threads(t)
  PROVE  \/ Begin(t) \/ Closes(t) \/ TakesRun(t) \/ Stages(t) \/ Inserts(t)
         \/ Retreats(t) \/ EnsureState(t) \/ ApplyEvent(t) \/ Commit(t)
<1>1. ASSUME pc[t] # "idle", End(t, FALSE), UNCHANGED tables PROVE Closes(t)
  BY <1>1 DEF End, Closes
<1>2. ASSUME pc[t] # "idle", ReturnDuplicate(t, req[t]) PROVE Closes(t)
  <2>1. CASE \E e \in Under(req[t].key) : SameRequest(e, req[t])
    BY <1>2, <2>1 DEF ReturnDuplicate, End, Closes, Under
  <2>2. CASE ~\E e \in Under(req[t].key) : SameRequest(e, req[t])
    BY <1>2, <2>2 DEF ReturnDuplicate, End, Closes
  <2> QED
    BY <2>1, <2>2
<1>3. CASE LockRun(t)
  BY <1>1, <1>3 DEF LockRun, TakesRun
<1>4. CASE CheckActivity(t)
  BY <1>1, <1>2, <1>4 DEF CheckActivity, Stages, Stage
<1>5. CASE InsertEvent(t)
  BY <1>1, <1>5 DEF InsertEvent, Inserts, Retreats
<1>6. CASE Recover(t) \/ Fail(t)
  BY <1>1, <1>2, <1>6 DEF Recover, Fail
<1> QED
  BY <1>3, <1>4, <1>5, <1>6 DEF Threads, Proceed

LEMMA CommitEffect ==
  ASSUME TypeOK, NEW t \in Thread, Commit(t)
  PROVE  /\ pc[t] = "commit" /\ Leave(t, "idle") /\ req' = req
         /\ log' = log \union {staged[t]} /\ state' = {value[t]} /\ UNCHANGED run
BY DEF Commit, End

LEMMA TypesStep == IInv /\ [Next]_vars => TypeOK' /\ Requested'
<1> SUFFICES ASSUME IInv, [Next]_vars PROVE TypeOK' /\ Requested'
  OBVIOUS
<1>1. TypeOK /\ Requested
  BY DEF IInv
<1>2. act' \in [Act -> Activity \union {None}]
  BY ActivitiesStay
<1>3. ASSUME NEW u \in Thread, pc'[u] = pc[u], req'[u] = req[u], staged'[u] = staged[u]
      PROVE  RequestedBy(u)'
  BY <1>1, <1>3, ActivitiesStay DEF Requested, RequestedBy, RunOf, InFlight, IsAnswer
<1>4. CASE Runs
  <2>1. /\ run' \in [Run -> {"none", "active", "completed", "abandoned"}]
        /\ UNCHANGED <<log, runLock, rowLock, pc, req, staged, made>>
    BY <1>1, <1>4
    DEF Runs, StartRun, CompleteRun, AbandonRun, AddActivity, CreateRetry, TypeOK
  <2> QED
    BY <1>1, <1>2, <1>3, <2>1 DEF TypeOK, Requested
<1>5. CASE Bootstraps \/ UNCHANGED vars
  <2>1. UNCHANGED <<run, log, runLock, rowLock, pc, req, staged, made>>
    BY <1>5 DEF Bootstraps, Bootstrap, vars
  <2> QED
    BY <1>1, <1>2, <1>3, <2>1 DEF TypeOK, Requested
<1>6. ASSUME NEW t \in Thread, Threads(t) PROVE TypeOK' /\ Requested'
  <2>1. \A u \in Thread \ {t} : RequestedBy(u)'
    BY <1>1, <1>3, <1>6, ThreadApart DEF Apart
  <2>2. RequestedBy(t) /\ (pc[t] # "idle" => req[t] \in Request /\ EventOf(req[t]) \in Event)
    BY <1>1, RequestTyped DEF Requested, RequestedBy
  <2>3. ASSUME NEW q \in Request, BeginAnswer(t, q) \/ BeginReview(t, q)
        PROVE  TypeOK' /\ RequestedBy(t)'
    <3>1. /\ UNCHANGED <<tables, runLock, rowLock, made, value>>
          /\ req' = [req EXCEPT ![t] = q]
          /\ pc' \in [Thread -> Place]
          /\ q.kind = "answer" => /\ q.act \in Issued /\ act[q.act].run # None
                                  /\ pc'[t] = "lock" /\ staged' = staged
          /\ q.kind = "review" => /\ pc'[t] = "insert"
                                  /\ staged' = [staged EXCEPT ![t] = EventOf(q)]
      BY <1>1, <2>3, BeginEffect
    <3>2. EventOf(q) \in Event /\ q.kind \in {"answer", "review"}
      BY RequestTyped
    <3>3. q.kind = "answer" => act[q.act].run \in Run
      BY <1>1, <3>1 DEF TypeOK, Issued, Activity
    <3>4. TypeOK'
      BY <1>1, <3>1, <3>2 DEF TypeOK, Place
    <3> QED
      BY <1>1, <3>1, <3>2, <3>3, <3>4
      DEF TypeOK, RequestedBy, RunOf, InFlight, IsAnswer, Issued
  <2>4. ASSUME NEW place \in {"idle", "recover"}, Leave(t, place), UNCHANGED <<run, log>>,
               req' = req \/ req' = [req EXCEPT ![t] = None],
               place = "recover" => IsAnswer(t) /\ UNCHANGED req /\ pc[t] # "idle"
        PROVE  TypeOK' /\ RequestedBy(t)'
    <3>1. /\ pc'[t] = place /\ pc' \in [Thread -> Place]
          /\ staged' \in [Thread -> Event \union {None}] /\ made' \in [Thread -> BOOLEAN]
          /\ runLock' \in [Run -> Thread \union {None}] /\ rowLock' \in Thread \union {None}
      <4>1. place \in Place
        BY DEF Place
      <4> QED
        BY <1>1, <2>4, <4>1, LeaveEffect
    <3>2. TypeOK'
      BY <1>1, <1>2, <2>4, <3>1 DEF TypeOK, Place
    <3> QED
      BY <1>1, <2>2, <2>4, <3>1, <3>2, ActivitiesStay DEF RequestedBy, RunOf, InFlight, IsAnswer
  <2>5. CASE Closes(t)
    BY <2>1, <2>4, <2>5 DEF Closes, Requested
  <2>6. CASE Retreats(t)
    BY <2>1, <2>4, <2>6 DEF Retreats, Requested, IsAnswer
  <2>7. CASE TakesRun(t)
    <3>1. RunOf(t) \in Run
      BY <2>2, <2>7 DEF TakesRun, RequestedBy
    <3>2. TypeOK'
      BY <1>1, <2>7, <3>1 DEF TakesRun, TypeOK
    <3> QED
      BY <1>1, <2>1, <2>2, <2>7, <3>2
      DEF TakesRun, TypeOK, Requested, RequestedBy, RunOf, InFlight, IsAnswer, Issued
  <2>8. CASE Stages(t) \/ Inserts(t)
    <3>1. TypeOK'
      BY <1>1, <2>2, <2>8 DEF Stages, Inserts, TypeOK
    <3> QED
      BY <1>1, <2>1, <2>2, <2>8, <3>1
      DEF Stages, Inserts, TypeOK, Requested, RequestedBy, RunOf, InFlight, IsAnswer, Issued
  <2>9. CASE EnsureState(t) \/ ApplyEvent(t)
    <3>1. TypeOK'
      BY <1>1, <2>9 DEF EnsureState, ApplyEvent, TypeOK
    <3> QED
      BY <1>1, <2>1, <2>2, <2>9, <3>1
      DEF EnsureState, ApplyEvent, TypeOK, Requested, RequestedBy, RunOf, InFlight,
          IsAnswer, Issued
  <2>10. CASE Commit(t)
    <3>1. /\ Leave(t, "idle") /\ req' = req /\ UNCHANGED run
          /\ log' = log \union {staged[t]} /\ staged[t] \in Event
      BY <1>1, <2>2, <2>10, CommitEffect DEF RequestedBy, InFlight
    <3>2. TypeOK' /\ pc'[t] = "idle"
      BY <1>1, <1>2, <3>1, LeaveEffect DEF TypeOK, Place
    <3> QED
      BY <2>1, <3>2 DEF Requested, RequestedBy, InFlight
  <2> QED
    BY <1>6, <2>1, <2>3, <2>5, <2>6, <2>7, <2>8, <2>9, <2>10, ThreadCases DEF Begin, Requested
<1> QED
  BY <1>4, <1>5, <1>6, NextCases

\* A committed answer changes the one activity that its run's lock protects; a
\* committed review one that was not there.
LEMMA CommitActivity ==
  ASSUME IInv, NEW t \in Thread, Commit(t)
  PROVE  /\ req[t].act \in Act /\ staged[t] \in Event /\ staged[t] = EventOf(req[t])
         /\ \A a \in Act \ {req[t].act} : act'[a] = act[a]
         /\ act'[req[t].act].status = "completed" /\ req[t].act \in Issued'
         /\ IsAnswer(t) => Pending(req[t].act) /\ runLock[RunOf(t)] = t
         /\ ~IsAnswer(t) => req[t].act \notin Issued /\ act'[req[t].act].run = None
<1>1. TypeOK /\ RequestedBy(t) /\ RunHeldBy(t) /\ ReviewApart(t) /\ pc[t] = "commit"
  BY DEF IInv, Requested, RunHeld, ReviewsApart, Commit
<1>2. req[t] \in Request /\ staged[t] = EventOf(req[t])
  BY <1>1 DEF RequestedBy, InFlight
<1>3. req[t].act \in Act /\ staged[t] \in Event /\ staged[t].act = req[t].act
  BY <1>2, RequestTyped
<1>4. IsAnswer(t) => Pending(req[t].act) /\ runLock[RunOf(t)] = t
  BY <1>1 DEF RunHeldBy, Holds, InFlight
<1>5. ~IsAnswer(t) => req[t].act \notin Issued
  BY <1>1 DEF ReviewApart
<1>6. act \in [Act -> Activity \union {None}] /\ None \notin Activity
  BY <1>1, NoneAssumption DEF TypeOK
<1>7. CASE IsAnswer(t)
  <2>1. act' = [act EXCEPT ![req[t].act] = [@ EXCEPT !.status = "completed"]]
    BY <1>3, <1>7 DEF Commit, IsAnswer
  <2>2. req[t].act \in Issued /\ act[req[t].act] \in Activity
    BY <1>1, <1>6, <1>7 DEF RequestedBy, Issued
  <2>3. [act[req[t].act] EXCEPT !.status = "completed"] \in Activity
    BY <2>2 DEF Activity
  <2>4. act'[req[t].act] = [act[req[t].act] EXCEPT !.status = "completed"]
    BY <1>3, <1>6, <2>1
  <2>5. act'[req[t].act].status = "completed"
    BY <2>2, <2>4 DEF Activity
  <2> QED
    BY <1>2, <1>3, <1>4, <1>6, <1>7, <2>1, <2>3, <2>4, <2>5 DEF Issued
<1>8. CASE ~IsAnswer(t)
  <2> DEFINE row == [run |-> None, parent |-> None, status |-> "completed"]
  <2>1. act' = [act EXCEPT ![req[t].act] = row]
    BY <1>3, <1>8 DEF Commit, IsAnswer
  <2>2. row \in Activity /\ row.status = "completed" /\ row.run = None
    BY DEF Activity
  <2> HIDE DEF row
  <2> QED
    BY <1>2, <1>3, <1>4, <1>5, <1>6, <1>8, <2>1, <2>2 DEF Issued
<1> QED
  BY <1>7, <1>8

LEMMA RunHeldStep == IInv /\ [Next]_vars => RunHeld'
<1> SUFFICES ASSUME IInv, [Next]_vars PROVE RunHeld'
  OBVIOUS
<1>1. TypeOK /\ Requested /\ RunHeld
  BY DEF IInv
<1>2. None \notin Thread
  BY ActAssumption
<1>3. ASSUME NEW u \in Thread, pc'[u] = pc[u], req'[u] = req[u],
             \A r \in Run : (runLock'[r] = u) = (runLock[r] = u),
             \A r \in Run : runLock[r] = u /\ run[r] = "active" => run'[r] = "active",
             \A a \in Issued : runLock[act[a].run] = u => act'[a].status = act[a].status
      PROVE  RunHeldBy(u)'
  <2>1. Holds(u) => RunOf(u) \in Run /\ RunOf(u)' = RunOf(u) /\ req[u].act \in Issued
    BY <1>1, <1>3, ActivitiesStay DEF Requested, RequestedBy, Holds, InFlight, RunOf
  <2>2. Holds(u)' = Holds(u) /\ InFlight(u)' = InFlight(u) /\ IsAnswer(u)' = IsAnswer(u)
    BY <1>3 DEF Holds, InFlight, IsAnswer
  <2>3. RunHeldBy(u)
    BY <1>1 DEF RunHeld
  <2>4. InFlight(u) /\ IsAnswer(u) => Holds(u)
    BY DEF Holds
  <2>5. CASE Holds(u)
    <3>1. runLock'[RunOf(u)'] = u /\ run'[RunOf(u)'] = "active"
      BY <1>3, <2>1, <2>3, <2>5 DEF RunHeldBy
    <3>2. act'[req[u].act].status = act[req[u].act].status
      BY <1>3, <2>1, <2>3, <2>5 DEF RunHeldBy, RunOf
    <3> QED
      BY <1>3, <2>2, <2>3, <2>5, <3>1, <3>2 DEF RunHeldBy, Pending
  <2>6. CASE ~Holds(u)
    BY <1>3, <2>2, <2>3, <2>4, <2>6 DEF RunHeldBy
  <2> QED
    BY <2>5, <2>6
<1>4. CASE Runs
  <2>1. UNCHANGED <<pc, req, runLock>>
    BY <1>4 DEF Runs, StartRun, CompleteRun, AbandonRun, AddActivity, CreateRetry
  <2>2. ASSUME NEW u \in Thread
        PROVE  /\ \A r \in Run : runLock[r] = u /\ run[r] = "active" => run'[r] = "active"
               /\ \A a \in Issued : runLock[act[a].run] = u => act'[a].status = act[a].status
    <3>1. ASSUME NEW r \in Run, StartRun(r)
          PROVE  /\ \A s \in Run : runLock[s] = u /\ run[s] = "active" => run'[s] = "active"
                 /\ UNCHANGED act
      BY <1>1, <3>1 DEF StartRun, TypeOK
    <3>2. ASSUME NEW r \in Run, CompleteRun(r)
          PROVE  /\ \A s \in Run : runLock[s] = u /\ run[s] = "active" => run'[s] = "active"
                 /\ UNCHANGED act
      BY <1>1, <1>2, <3>2 DEF CompleteRun, Free, TypeOK
    <3>3. ASSUME NEW r \in Run, AbandonRun(r)
          PROVE  /\ \A s \in Run : runLock[s] = u /\ run[s] = "active" => run'[s] = "active"
                 /\ \A a \in Issued : runLock[act[a].run] = u => act'[a] = act[a]
      BY <1>1, <1>2, <3>3 DEF AbandonRun, Abandoned, Free, TypeOK, Of, Issued
    <3>4. ASSUME NEW a \in Act, NEW row, a \notin Issued, act' = [act EXCEPT ![a] = row]
          PROVE  \A b \in Issued : act'[b] = act[b]
      BY <1>1, <3>4 DEF TypeOK, Issued
    <3>5. ASSUME NEW r \in Run, NEW a \in Act, AddActivity(r, a)
          PROVE  UNCHANGED run /\ \A b \in Issued : act'[b] = act[b]
      BY <3>4, <3>5 DEF AddActivity, Fresh
    <3>6. ASSUME NEW p \in Act, NEW a \in Act, CreateRetry(p, a)
          PROVE  UNCHANGED run /\ \A b \in Issued : act'[b] = act[b]
      BY <3>4, <3>6 DEF CreateRetry, Fresh
    <3> QED
      BY <1>4, <3>1, <3>2, <3>3, <3>5, <3>6 DEF Runs
  <2> QED
    BY <1>3, <2>1, <2>2 DEF RunHeld
<1>5. CASE Bootstraps \/ UNCHANGED vars
  <2>1. UNCHANGED <<pc, req, runLock, run, act>>
    BY <1>5 DEF Bootstraps, Bootstrap, vars
  <2> QED
    BY <1>3, <2>1 DEF RunHeld
<1>6. ASSUME NEW t \in Thread, Threads(t) PROVE RunHeld'
  <2>1. Apart(t) /\ RequestedBy(t) /\ RunHeldBy(t)
    BY <1>1, <1>6, ThreadApart DEF Requested, RunHeld
  <2>2. ASSUME UNCHANGED <<run, act>>,
               \A u \in Thread \ {t}, r \in Run : (runLock'[r] = u) = (runLock[r] = u),
               RunHeldBy(t)'
        PROVE  RunHeld'
    BY <1>3, <2>1, <2>2 DEF Apart, RunHeld
  <2>3. ASSUME NEW place \in {"idle", "recover"}, Leave(t, place)
        PROVE  /\ \A u \in Thread \ {t}, r \in Run : (runLock'[r] = u) = (runLock[r] = u)
               /\ RunHeldBy(t)'
    <3>1. pc'[t] = place /\ \A r \in Run : runLock'[r] = IF runLock[r] = t THEN None ELSE runLock[r]
      <4>1. place \in Place
        BY DEF Place
      <4> QED
        BY <1>1, <2>3, <4>1, LeaveEffect
    <3> QED
      BY <1>2, <2>3, <3>1 DEF RunHeldBy, Holds, InFlight
  <2>4. CASE Closes(t) \/ Retreats(t)
    BY <2>2, <2>3, <2>4 DEF Closes, Retreats
  <2>5. ASSUME NEW q \in Request, BeginAnswer(t, q) \/ BeginReview(t, q) PROVE RunHeld'
    <3>1. /\ UNCHANGED <<run, act, runLock>> /\ pc[t] = "idle"
          /\ req'[t] = q
          /\ pc'[t] = "lock" \/ (pc'[t] = "insert" /\ q.kind = "review")
      BY <1>1, <2>5, BeginEffect, RequestTyped DEF TypeOK
    <3>2. \A r \in Run : runLock[r] # t
      BY <2>1, <3>1 DEF RunHeldBy, Holds, InFlight
    <3>3. RunHeldBy(t)'
      BY <3>1, <3>2 DEF RunHeldBy, Holds, InFlight, IsAnswer
    <3> QED
      BY <2>2, <3>1, <3>3
  <2>6. CASE TakesRun(t)
    <3>1. RunOf(t) \in Run /\ IsAnswer(t)
      BY <2>1, <2>6 DEF TakesRun, RequestedBy
    <3>2. /\ UNCHANGED <<run, act, req>> /\ pc'[t] = "check"
          /\ runLock' = [runLock EXCEPT ![RunOf(t)] = t] /\ runLock[RunOf(t)] = None
          /\ run[RunOf(t)] = "active"
      BY <1>1, <2>6 DEF TakesRun, TypeOK
    <3>3. RunHeldBy(t)'
      BY <1>1, <2>1, <3>1, <3>2 DEF TypeOK, RunHeldBy, Holds, InFlight, IsAnswer, RunOf
    <3> QED
      BY <1>1, <1>2, <2>2, <3>1, <3>2, <3>3 DEF TypeOK
  <2>7. CASE Stages(t) \/ Inserts(t) \/ EnsureState(t) \/ ApplyEvent(t)
    <3>1. /\ UNCHANGED <<run, act, runLock, req>>
          /\ pc[t] \in {"check", "insert", "ensure", "apply"}
          /\ pc'[t] \in {"insert", "ensure", "apply", "commit"}
          /\ pc[t] = "check" => Pending(req[t].act)
      BY <1>1, <2>7 DEF Stages, Inserts, EnsureState, ApplyEvent, TypeOK
    <3>2. RunHeldBy(t)'
      BY <2>1, <3>1 DEF RunHeldBy, Holds, InFlight, IsAnswer, RunOf, Pending
    <3> QED
      BY <2>2, <3>1, <3>2
  <2>8. CASE Commit(t)
    <3>1. UNCHANGED run /\ Leave(t, "idle")
      BY <1>1, <2>8, CommitEffect
    <3>2. \A u \in Thread \ {t} : \A a \in Issued :
            runLock[act[a].run] = u => act'[a].status = act[a].status
      <4>1. \A a \in Act \ {req[t].act} : act'[a] = act[a]
        BY <2>8, CommitActivity
      <4>2. req[t].act \in Issued => runLock[act[req[t].act].run] = t
        BY <2>8, CommitActivity DEF RunOf
      <4> QED
        BY <4>1, <4>2 DEF Issued
    <3> QED
      BY <1>3, <2>1, <2>3, <3>1, <3>2 DEF Apart, RunHeld
  <2> QED
    BY <1>6, <2>4, <2>5, <2>6, <2>7, <2>8, ThreadCases DEF Begin
<1> QED
  BY <1>4, <1>5, <1>6, NextCases

LEMMA ReviewsStep == IInv /\ [Next]_vars => ReviewsApart'
<1> SUFFICES ASSUME IInv, [Next]_vars, NEW u \in Thread PROVE ReviewApart(u)'
  BY DEF ReviewsApart
<1>1. /\ TypeOK /\ RequestedBy(u) /\ ReviewApart(u)
      /\ pc[u] # "idle" => req[u] # None
  BY RequestTyped DEF IInv, Requested, ReviewsApart, RequestedBy
<1>2. CASE Runs
  <2>1. UNCHANGED <<pc, req>>
    BY <1>2 DEF Runs, StartRun, CompleteRun, AbandonRun, AddActivity, CreateRetry
  <2>2. ASSUME NEW b \in Act, b \notin Issued, b \in Issued' PROVE Fresh(b)
    <3>1. ASSUME NEW r \in Run, StartRun(r) \/ CompleteRun(r) \/ AbandonRun(r) PROVE FALSE
      BY <1>1, <2>2, <3>1 DEF StartRun, CompleteRun, AbandonRun, Abandoned, Issued, Of
    <3>2. ASSUME NEW a \in Act, Fresh(a), NEW row, act' = [act EXCEPT ![a] = row] PROVE Fresh(b)
      BY <1>1, <2>2, <3>2 DEF TypeOK, Issued
    <3> QED
      BY <1>2, <3>1, <3>2 DEF Runs, AddActivity, CreateRetry
  <2>3. Issued' \subseteq Act
    BY DEF Issued
  <2> QED
    BY <1>1, <2>1, <2>2, <2>3 DEF ReviewApart, Fresh, IsAnswer
<1>3. CASE Bootstraps \/ UNCHANGED vars
  <2>1. UNCHANGED <<pc, req, act>>
    BY <1>3 DEF Bootstraps, Bootstrap, vars
  <2> QED
    BY <1>1, <2>1 DEF ReviewApart, IsAnswer, Issued
<1>4. ASSUME NEW t \in Thread, Threads(t) PROVE ReviewApart(u)'
  <2>1. Apart(t) /\ RequestedBy(t) /\ (pc[t] # "idle" => req[t] # None)
    BY <1>4, ThreadApart, RequestTyped DEF IInv, Requested, RequestedBy
  <2>2. ASSUME UNCHANGED act, \A v \in Thread : req'[v] \in {req[v], None}, u # t
        PROVE  ReviewApart(u)'
    BY <1>1, <2>1, <2>2 DEF ReviewApart, Apart, IsAnswer, Issued
  <2>3. ASSUME NEW q \in Request, BeginAnswer(t, q) \/ BeginReview(t, q) PROVE ReviewApart(u)'
    <3>1. /\ UNCHANGED act /\ req' = [req EXCEPT ![t] = q] /\ req \in [Thread -> Request \union {None}]
          /\ q.kind = "answer" => q.act \in Issued
          /\ q.kind = "review" => Fresh(q.act)
          /\ q.kind \in {"answer", "review"}
      BY <1>1, <2>3, BeginEffect, RequestTyped DEF TypeOK
    <3>2. CASE u = t
      BY <3>1, <3>2 DEF ReviewApart, Fresh, IsAnswer, Issued
    <3>3. CASE u # t
      BY <1>1, <2>1, <3>1, <3>3 DEF ReviewApart, Fresh, IsAnswer, Issued, Apart
    <3> QED
      BY <3>2, <3>3
  <2>4. CASE Closes(t) \/ Retreats(t)
    <3>1. UNCHANGED act /\ \A v \in Thread : req'[v] \in {req[v], None}
      BY <1>1, <2>4 DEF Closes, Retreats, TypeOK
    <3>2. pc'[t] = "idle" \/ (UNCHANGED req /\ IsAnswer(t))
      BY <1>1, <2>4, LeaveEffect DEF Closes, Retreats, Place, IsAnswer
    <3> QED
      BY <2>2, <3>1, <3>2 DEF ReviewApart, IsAnswer
  <2>5. CASE TakesRun(t) \/ Stages(t) \/ Inserts(t) \/ EnsureState(t) \/ ApplyEvent(t)
    <3>1. UNCHANGED <<act, req>> /\ pc[t] # "idle"
      BY <2>5 DEF TakesRun, Stages, Inserts, EnsureState, ApplyEvent
    <3> QED
      BY <1>1, <2>1, <3>1 DEF ReviewApart, IsAnswer, Issued, Apart
  <2>6. CASE Commit(t)
    <3>1. /\ req' = req /\ pc'[t] = "idle" /\ pc[t] = "commit"
          /\ \A a \in Act \ {req[t].act} : act'[a] = act[a]
      BY <1>1, <2>6, CommitEffect, CommitActivity, LeaveEffect DEF Place
    <3> QED
      BY <1>1, <2>1, <3>1 DEF ReviewApart, IsAnswer, Issued, Apart
  <2> QED
    BY <1>4, <2>3, <2>4, <2>5, <2>6, ThreadCases DEF Begin
<1> QED
  BY <1>2, <1>3, <1>4, NextCases

LEMMA RowHeldStep == IInv /\ [Next]_vars => RowHeld'
<1> SUFFICES ASSUME IInv, [Next]_vars PROVE RowHeld'
  OBVIOUS
<1>1. TypeOK /\ RowHeld /\ None \notin Thread
  BY ActAssumption DEF IInv
<1>2. CASE Runs \/ UNCHANGED vars
  <2>1. UNCHANGED <<pc, made, state, rowLock>>
    BY <1>2 DEF Runs, StartRun, CompleteRun, AbandonRun, AddActivity, CreateRetry, vars
  <2> QED
    BY <1>1, <2>1 DEF RowHeld, RowHeldBy
<1>3. CASE Bootstraps
  <2>1. rowLock = None /\ UNCHANGED <<pc, made, rowLock>> /\ state' # {}
    BY <1>3 DEF Bootstraps, Bootstrap
  <2> QED
    BY <1>1, <2>1 DEF RowHeld, RowHeldBy
<1>4. ASSUME NEW t \in Thread, Threads(t) PROVE RowHeld'
  <2>1. Apart(t)
    BY <1>1, <1>4, ThreadApart
  <2>2. CASE Begin(t) \/ TakesRun(t) \/ Stages(t) \/ Inserts(t)
    <3>1. /\ UNCHANGED <<made, state, rowLock>>
          /\ pc[t] \notin {"apply", "commit"} /\ pc'[t] \notin {"apply", "commit"}
      BY <1>1, <2>2 DEF Begin, BeginAnswer, BeginReview, Stage, TakesRun, Stages, Inserts, TypeOK
    <3> QED
      BY <1>1, <2>1, <3>1 DEF Apart, RowHeld, RowHeldBy
  <2>3. ASSUME NEW place \in {"idle", "recover"}, Leave(t, place),
               state' = state \/ (state' # {} /\ rowLock = t)
        PROVE  RowHeld'
    <3>1. /\ pc'[t] = place /\ made'[t] = FALSE
          /\ rowLock' = IF rowLock = t THEN None ELSE rowLock
      <4>1. place \in Place
        BY DEF Place
      <4> QED
        BY <1>1, <2>3, <4>1, LeaveEffect
    <3> QED
      BY <1>1, <2>1, <2>3, <3>1 DEF Apart, RowHeld, RowHeldBy
  <2>4. CASE Closes(t) \/ Retreats(t)
    BY <2>3, <2>4 DEF Closes, Retreats
  <2>5. CASE EnsureState(t)
    <3>1. /\ pc[t] = "ensure" /\ \A u \in Thread : ~made[u]
          /\ made' = [made EXCEPT ![t] = state = {}] /\ UNCHANGED state
          /\ rowLock' = IF state = {} THEN t ELSE rowLock
          /\ pc'[t] = "apply"
      BY <1>1, <2>5 DEF EnsureState, TypeOK
    <3>2. CASE state = {}
      BY <1>1, <2>1, <3>1, <3>2 DEF Apart, RowHeld, RowHeldBy, TypeOK
    <3>3. CASE state # {}
      BY <1>1, <2>1, <3>1, <3>3 DEF Apart, RowHeld, RowHeldBy, TypeOK
    <3> QED
      BY <3>2, <3>3
  <2>6. CASE ApplyEvent(t)
    <3>1. /\ pc[t] = "apply" /\ rowLock \in {None, t} /\ rowLock' = t
          /\ UNCHANGED <<made, state>> /\ pc'[t] = "commit"
      BY <1>1, <2>6 DEF ApplyEvent, TypeOK
    <3> QED
      BY <1>1, <2>1, <3>1 DEF Apart, RowHeld, RowHeldBy
  <2>7. CASE Commit(t)
    <3>1. Leave(t, "idle") /\ state' # {} /\ rowLock = t
      BY <1>1, <2>7, CommitEffect DEF RowHeld, RowHeldBy
    <3> QED
      BY <2>3, <3>1
  <2> QED
    BY <1>4, <2>2, <2>4, <2>5, <2>6, <2>7, ThreadCases
<1> QED
  BY <1>2, <1>3, <1>4, NextCases

\* Only a commit adds an event, completes an activity or is given one.
LEMMA Uncommitted ==
  ASSUME IInv, [Next]_vars, \A t \in Thread : ~Commit(t)
  PROVE  /\ UNCHANGED log
         /\ \A a \in Act : \/ act'[a] = act[a]
                           \/ a \notin Issued /\ act'[a].status = "pending"
                           \/ /\ a \in Issued /\ Pending(a) /\ act'[a].status = "cancelled"
                              /\ \E r \in Run : a \in Of(r) /\ AbandonRun(r)
<1>1. TypeOK
  BY DEF IInv
<1>2. ASSUME NEW b \in Act, b \notin Issued, NEW r, NEW p, act' = [act EXCEPT ![b] = NewRow(r, p)]
      PROVE  \A a \in Act : act'[a] = act[a] \/ (a \notin Issued /\ act'[a].status = "pending")
  BY <1>1, <1>2 DEF TypeOK, NewRow
<1>3. CASE Runs
  <2>1. UNCHANGED log
    BY <1>3 DEF Runs, StartRun, CompleteRun, AbandonRun, AddActivity, CreateRetry
  <2>2. ASSUME NEW r \in Run, StartRun(r) \/ CompleteRun(r) PROVE UNCHANGED act
    BY <2>2 DEF StartRun, CompleteRun
  <2>3. ASSUME NEW r \in Run, AbandonRun(r), NEW a \in Act
        PROVE  \/ act'[a] = act[a]
               \/ a \in Of(r) /\ a \in Issued /\ Pending(a) /\ act'[a].status = "cancelled"
    <3>1. act'[a] = IF a \in Of(r) /\ Pending(a) THEN Cancelled(a) ELSE act[a]
      BY <2>3 DEF AbandonRun, Abandoned
    <3>2. a \in Issued => Cancelled(a).status = "cancelled"
      BY <1>1 DEF TypeOK, Issued, Cancelled, Activity
    <3> QED
      BY <3>1, <3>2 DEF Of
  <2> QED
    BY <1>2, <1>3, <2>1, <2>2, <2>3 DEF Runs, AddActivity, CreateRetry, Fresh
<1>4. CASE Bootstraps \/ UNCHANGED vars
  BY <1>4 DEF Bootstraps, Bootstrap, vars
<1>5. ASSUME NEW t \in Thread, Threads(t) PROVE UNCHANGED <<log, act>>
  BY <1>5, ThreadCases
  DEF Begin, BeginAnswer, BeginReview, Closes, TakesRun, Stages, Inserts, Retreats,
      EnsureState, ApplyEvent
<1> QED
  BY <1>3, <1>4, <1>5, NextCases

Done(a) == a \in Issued /\ act[a].status = "completed"

\* The event that is committed is the first one of its activity.
LEMMA EventsStep == IInv /\ [Next]_vars => IsFiniteSet(log)' /\ OneEventEach'
<1> SUFFICES ASSUME IInv, [Next]_vars PROVE IsFiniteSet(log)' /\ OneEventEach'
  OBVIOUS
<1> DEFINE about(a) == {e \in log : e.act = a}
<1>1. /\ TypeOK /\ IsFiniteSet(log) /\ None \notin Activity
      /\ \A a \in Act : Cardinality(about(a)) = IF Done(a) THEN 1 ELSE 0
  BY NoneAssumption DEF IInv, OneEventEach, Done
<1>2. CASE \A t \in Thread : ~Commit(t)
  <2>1. /\ UNCHANGED log
        /\ \A a \in Act : \/ act'[a] = act[a]
                          \/ a \notin Issued /\ act'[a].status = "pending"
                          \/ a \in Issued /\ Pending(a) /\ act'[a].status = "cancelled"
    BY <1>2, Uncommitted
  <2>2. \A a \in Act : Done(a)' <=> Done(a)
    BY <2>1 DEF Done, Issued, Pending
  <2> QED
    BY <1>1, <2>1, <2>2 DEF OneEventEach, Done
<1>3. ASSUME NEW t \in Thread, Commit(t) PROVE IsFiniteSet(log)' /\ OneEventEach'
  <2> DEFINE b == req[t].act
             new == staged[t]
  <2>1. /\ b \in Act /\ new \in Event /\ new.act = b
        /\ \A a \in Act \ {b} : act'[a] = act[a]
        /\ act'[b].status = "completed" /\ b \in Issued'
        /\ ~Done(b)
    <3>1. req[t] \in Request
      BY <1>3 DEF IInv, Requested, RequestedBy, Commit
    <3> QED
      BY <1>3, <3>1, CommitActivity, RequestTyped DEF Done, Pending
  <2>2. log' = log \union {new}
    BY <1>1, <1>3, CommitEffect
  <2> HIDE DEF b, new
  <2>3. IsFiniteSet(log')
    BY <1>1, <2>2, FS_AddElement
  <2>4. about(b) = {}
    <3>1. IsFiniteSet(about(b))
      BY <1>1, FS_Subset
    <3> QED
      BY <1>1, <2>1, <3>1, FS_EmptySet
  <2>5. {e \in log' : e.act = b} = {new}
    BY <2>1, <2>2, <2>4
  <2>6. Cardinality({new}) = 1
    BY FS_Singleton
  <2>7. \A a \in Act : Done(a)' <=> (a = b \/ Done(a))
    BY <2>1 DEF Done, Issued
  <2>8. \A a \in Act \ {b} : {e \in log' : e.act = a} = about(a)
    BY <2>1, <2>2
  <2>9. \A a \in Act : Cardinality({e \in log' : e.act = a}) = IF Done(a)' THEN 1 ELSE 0
    <3> SUFFICES ASSUME NEW a \in Act
                 PROVE  Cardinality({e \in log' : e.act = a}) = IF Done(a)' THEN 1 ELSE 0
      OBVIOUS
    <3>1. CASE a = b
      BY <2>5, <2>6, <2>7, <3>1
    <3>2. CASE a # b
      BY <1>1, <2>7, <2>8, <3>2
    <3> QED
      BY <3>1, <3>2
  <2> QED
    BY <2>3, <2>9 DEF OneEventEach, Done
<1> QED
  BY <1>2, <1>3

LEMMA EndedStep == IInv /\ [Next]_vars => EndedRunIsWhole'
<1> SUFFICES ASSUME IInv, [Next]_vars, NEW s \in Run
             PROVE  /\ run'[s] = "completed" =>
                         Of(s)' # {} /\ \A a \in Of(s)' : act'[a].status = "completed"
                    /\ run'[s] = "abandoned" => \A a \in Of(s)' : ~Pending(a)'
  BY DEF EndedRunIsWhole
<1> DEFINE Whole == /\ run'[s] = "completed" =>
                         Of(s)' # {} /\ \A a \in Of(s)' : act'[a].status = "completed"
                    /\ run'[s] = "abandoned" => \A a \in Of(s)' : ~Pending(a)'
<1>1. /\ TypeOK /\ None \notin Activity /\ None \notin Run
      /\ run[s] = "completed" => Of(s) # {} /\ \A a \in Of(s) : act[a].status = "completed"
      /\ run[s] = "abandoned" => \A a \in Of(s) : ~Pending(a)
  BY NoneAssumption, ActAssumption DEF IInv, EndedRunIsWhole
<1>2. ASSUME run'[s] \in {run[s], "active"},
             run[s] # "active" => /\ Of(s)' = Of(s)
                                  /\ \A a \in Of(s) : act'[a] = act[a]
      PROVE  Whole
  BY <1>1, <1>2 DEF Pending
<1>3. ASSUME UNCHANGED act PROVE Of(s)' = Of(s) /\ \A a \in Of(s) : act'[a] = act[a]
  BY <1>3 DEF Of, Issued
<1>4. ASSUME NEW b \in Act, b \notin Issued, NEW row, row.run # s, act' = [act EXCEPT ![b] = row]
      PROVE  Of(s)' = Of(s) /\ \A a \in Of(s) : act'[a] = act[a]
  BY <1>1, <1>4 DEF TypeOK, Of, Issued
<1>5. CASE Runs
  <2>1. ASSUME NEW r \in Run, StartRun(r) PROVE Whole
    BY <1>1, <1>2, <1>3, <2>1 DEF StartRun, TypeOK
  <2>2. ASSUME NEW r \in Run, CompleteRun(r) PROVE Whole
    <3>1. CASE r = s
      BY <1>1, <1>3, <2>2, <3>1 DEF CompleteRun, Completable, TypeOK
    <3>2. CASE r # s
      BY <1>1, <1>2, <1>3, <2>2, <3>2 DEF CompleteRun, TypeOK
    <3> QED
      BY <3>1, <3>2
  <2>3. ASSUME NEW r \in Run, AbandonRun(r) PROVE Whole
    <3>1. act' = Abandoned(r) /\ run' = [run EXCEPT ![r] = "abandoned"]
      BY <2>3 DEF AbandonRun
    <3>2. \A a \in Act : a \in Issued <=> a \in Issued'
      <4>1. \A a \in Issued : a \in Issued'
        BY ActivitiesStay
      <4> QED
        BY <3>1, <4>1 DEF Abandoned, Issued, Of
    <3>3. \A a \in Issued : act'[a].run = act[a].run
      BY ActivitiesStay
    <3>4. Of(s)' = Of(s)
      BY <3>2, <3>3 DEF Of, Issued
    <3>5. CASE r = s
      <4>1. \A a \in Of(s) : ~Pending(a)'
        <5> SUFFICES ASSUME NEW a \in Of(s) PROVE act'[a].status # "pending"
          BY DEF Pending
        <5>1. a \in Issued /\ act[a] \in Activity
          BY <1>1 DEF Of, TypeOK, Issued
        <5>2. Cancelled(a).status = "cancelled"
          BY <5>1 DEF Cancelled, Activity
        <5> QED
          BY <3>1, <3>5, <5>1, <5>2 DEF Abandoned, Pending, Issued
      <4> QED
        BY <1>1, <3>1, <3>4, <3>5, <4>1 DEF TypeOK
    <3>6. CASE r # s
      <4>1. \A a \in Of(s) : act'[a] = act[a]
        BY <3>1, <3>6 DEF Abandoned, Of, Issued
      <4> QED
        BY <1>1, <1>2, <3>1, <3>4, <3>6, <4>1 DEF TypeOK
    <3> QED
      BY <3>5, <3>6
  <2>4. ASSUME NEW b \in Act, NEW r, NEW p, Free(r), Fresh(b), UNCHANGED run,
               act' = [act EXCEPT ![b] = NewRow(r, p)]
        PROVE  Whole
    <3>1. CASE r = s
      BY <1>1, <1>2, <2>4, <3>1 DEF Free
    <3>2. CASE r # s
      <4>1. NewRow(r, p).run # s /\ b \notin Issued
        BY <2>4, <3>2 DEF NewRow, Fresh
      <4> QED
        BY <1>2, <1>4, <2>4, <4>1
    <3> QED
      BY <3>1, <3>2
  <2>5. ASSUME NEW r \in Run, NEW b \in Act, AddActivity(r, b) PROVE Whole
    BY <2>4, <2>5 DEF AddActivity
  <2>6. ASSUME NEW p \in Act, NEW b \in Act, CreateRetry(p, b) PROVE Whole
    BY <2>4, <2>6 DEF CreateRetry
  <2> QED
    BY <1>5, <2>1, <2>2, <2>3, <2>5, <2>6 DEF Runs
<1>6. CASE Bootstraps \/ UNCHANGED vars
  <2>1. UNCHANGED <<run, act>>
    BY <1>6 DEF Bootstraps, Bootstrap, vars
  <2> QED
    BY <1>2, <1>3, <2>1
<1>7. ASSUME NEW t \in Thread, Threads(t) PROVE Whole
  <2>1. CASE ~Commit(t)
    <3>1. UNCHANGED <<run, act>>
      BY <1>7, <2>1, ThreadCases
      DEF Begin, BeginAnswer, BeginReview, Closes, TakesRun, Stages, Inserts, Retreats,
          EnsureState, ApplyEvent
    <3> QED
      BY <1>2, <1>3, <3>1
  <2>2. CASE Commit(t)
    <3> DEFINE b == req[t].act
    <3>1. /\ b \in Act /\ \A a \in Act \ {b} : act'[a] = act[a]
          /\ IsAnswer(t) => Pending(b)
          /\ ~IsAnswer(t) => b \notin Issued /\ act'[b].run = None
      BY <2>2, CommitActivity
    <3>2. UNCHANGED run /\ pc[t] = "commit"
      BY <1>1, <2>2, CommitEffect
    <3>3. IsAnswer(t) => run[act[b].run] = "active" /\ act'[b].run = act[b].run /\ b \in Issued
      <4>1. RequestedBy(t) /\ RunHeldBy(t)
        BY DEF IInv, Requested, RunHeld
      <4> QED
        BY <3>2, <4>1, ActivitiesStay DEF RequestedBy, RunHeldBy, Holds, InFlight, RunOf
    <3> HIDE DEF b
    <3>4. ASSUME run[s] # "active" PROVE b \notin Of(s) /\ b \notin Of(s)'
      BY <1>1, <3>1, <3>3, <3>4 DEF Of
    <3>5. ASSUME run[s] # "active"
          PROVE  Of(s)' = Of(s) /\ \A a \in Of(s) : act'[a] = act[a]
      <4>1. \A a \in Act \ {b} : a \in Of(s)' <=> a \in Of(s)
        BY <3>1 DEF Of, Issued
      <4>2. Of(s) \subseteq Act /\ Of(s)' \subseteq Act
        BY DEF Of, Issued
      <4> QED
        BY <3>1, <3>4, <3>5, <4>1, <4>2
    <3> QED
      BY <1>2, <3>2, <3>5
  <2> QED
    BY <2>1, <2>2
<1> QED
  BY <1>5, <1>6, <1>7, NextCases

LEMMA AnsweredStep == IInv /\ [Next]_vars => AnsweredIsRecorded'
<1> SUFFICES ASSUME IInv, [Next]_vars, NEW u \in Thread, pc'[u] = "idle", req'[u] # None
             PROVE  \E e \in log' : e.key = req'[u].key /\ SameRequest(e, req'[u])
  BY DEF AnsweredIsRecorded, SameRequest
<1>1. TypeOK
      /\ (pc[u] = "idle" /\ req[u] # None =>
           \E e \in log : e.key = req[u].key /\ SameRequest(e, req[u]))
  BY DEF IInv, AnsweredIsRecorded
<1>2. log \subseteq log'
  BY Uncommitted, CommitEffect, <1>1
<1>3. CASE Runs \/ Bootstraps \/ UNCHANGED vars
  <2>1. UNCHANGED <<pc, req>>
    BY <1>3 DEF Runs, StartRun, CompleteRun, AbandonRun, AddActivity, CreateRetry,
       Bootstraps, Bootstrap, vars
  <2> QED
    BY <1>1, <1>2, <2>1
<1>4. ASSUME NEW t \in Thread, Threads(t)
      PROVE  \E e \in log' : e.key = req'[u].key /\ SameRequest(e, req'[u])
  <2>1. CASE u # t
    BY <1>1, <1>2, <1>4, <2>1, ThreadApart DEF Apart
  <2>2. CASE u = t /\ Commit(t)
    <3>1. /\ staged[t] = EventOf(req[t]) /\ req' = req
          /\ log' = log \union {staged[t]} /\ req[t] \in Request
      BY <1>1, <2>2, CommitEffect
      DEF IInv, Requested, RequestedBy, InFlight
    <3> QED
      BY <2>2, <3>1, RequestTyped DEF SameRequest
  <2>3. CASE u = t /\ Closes(t)
    BY <1>1, <1>2, <2>3 DEF Closes, TypeOK
  <2>4. CASE u = t /\ ~Commit(t) /\ ~Closes(t)
    <3>1. pc'[t] # "idle"
      <4>1. Retreats(t) => pc'[t] = "recover"
        BY <1>1, LeaveEffect DEF Retreats, Place
      <4> QED
        BY <1>1, <1>4, <2>4, <4>1, ThreadCases
        DEF Begin, BeginAnswer, BeginReview, Stage, TakesRun, Stages, Inserts,
            EnsureState, ApplyEvent, TypeOK
    <3> QED
      BY <2>4, <3>1
  <2> QED
    BY <2>1, <2>2, <2>3, <2>4
<1> QED
  BY <1>3, <1>4, NextCases

LEMMA InitInv == Init => IInv
<1> SUFFICES ASSUME Init PROVE IInv
  OBVIOUS
<1> USE DEF Init
<1>1. TypeOK /\ Requested
  BY DEF TypeOK, Requested, RequestedBy, InFlight
<1>2. Issued = {} /\ None \notin Thread
  BY ActAssumption DEF Issued
<1>3. RunHeld /\ ReviewsApart /\ RowHeld
  BY <1>2 DEF RunHeld, RunHeldBy, Holds, InFlight, ReviewsApart, ReviewApart, RowHeld, RowHeldBy
<1>4. IsFiniteSet(log)
  BY FS_EmptySet
<1>5. OneEventEach
  <2>1. \A a \in Act : {e \in log : e.act = a} = {}
    OBVIOUS
  <2> QED
    BY <1>2, <2>1, FS_EmptySet DEF OneEventEach
<1>6. EndedRunIsWhole /\ AnsweredIsRecorded
  BY <1>2 DEF EndedRunIsWhole, AnsweredIsRecorded, Of
<1> QED
  BY <1>1, <1>3, <1>4, <1>5, <1>6 DEF IInv

-----------------------------------------------------------------------------
(* Theorems.                                                               *)

THEOREM Invariance == Spec => []IInv
<1>1. IInv /\ [Next]_vars => IInv'
  BY TypesStep, RunHeldStep, ReviewsStep, RowHeldStep, EventsStep, EndedStep, AnsweredStep
  DEF IInv
<1> QED
  BY InitInv, <1>1, PTL DEF Spec

\* Types of the control state.
THEOREM TypeCorrect == Spec => []TypeOK
<1>1. IInv => TypeOK
  BY DEF IInv
<1> QED
  BY Invariance, <1>1, PTL

\* However many transactions race on it: an activity is completed if and only if
\* exactly one event records how.
THEOREM OneEvent == Spec => []OneEventEach
<1>1. IInv => OneEventEach
  BY DEF IInv
<1> QED
  BY Invariance, <1>1, PTL

\* A completed run has only completed activities, an abandoned one nothing that an
\* answer in flight could still complete.
THEOREM EndedRuns == Spec => []EndedRunIsWhole
<1>1. IInv => EndedRunIsWhole
  BY DEF IInv
<1> QED
  BY Invariance, <1>1, PTL

\* A caller that was given an event was given its own.
THEOREM OwnEvent == Spec => []AnsweredIsRecorded
<1>1. IInv => AnsweredIsRecorded
  BY DEF IInv
<1> QED
  BY Invariance, <1>1, PTL

\* However many transactions wait: each waits for one that is further on its way,
\* so no ring of them waits for one another.
THEOREM NoRing == Spec => []WaitsForLater
<1>1. ASSUME IInv, NEW t \in Thread, NEW u \in Thread, t # u, Waits(t, u)
      PROVE  Progress[pc[t]] < Progress[pc[u]]
  <2>1. /\ TypeOK /\ RequestedBy(t) /\ RunHeldBy(u) /\ RowHeldBy(t) /\ RowHeldBy(u)
    BY <1>1 DEF IInv, Requested, RunHeld, RowHeld
  <2>2. CASE pc[t] = "lock"
    <3>1. RunOf(t) \in Run /\ runLock[RunOf(t)] = u
      BY <1>1, <2>1, <2>2 DEF RequestedBy, Waits
    <3>2. pc[u] \in {"check", "insert", "ensure", "apply", "commit"}
      BY <2>1, <3>1 DEF RunHeldBy, Holds, InFlight
    <3> QED
      BY <2>2, <3>2 DEF Progress
  <2>3. CASE pc[t] = "insert"
    BY <1>1, <2>3 DEF Waits, Inserted, Progress
  <2>4. CASE pc[t] = "ensure"
    BY <1>1, <2>1, <2>4 DEF Waits, RowHeldBy, Progress
  <2>5. CASE pc[t] = "apply"
    <3>1. rowLock = u
      BY <1>1, <2>5 DEF Waits
    <3>2. ~made[u]
      BY <1>1, <2>1, <2>5, <3>1 DEF RowHeldBy
    <3> QED
      BY <2>1, <2>5, <3>1, <3>2 DEF RowHeldBy, Progress
  <2> QED
    BY <1>1, <2>2, <2>3, <2>4, <2>5 DEF Waits
<1>2. IInv => WaitsForLater
  BY <1>1 DEF WaitsForLater
<1> QED
  BY Invariance, <1>2, PTL

-----------------------------------------------------------------------------
(* Induction.  The prover has no scheme of it; the library's theorem about *)
(* minimal elements says the same of sets.                                 *)

LEMMA LessRelation ==
  \E R : IsWellFoundedOn(R, Nat) /\ \A x, y \in Nat : <<x, y>> \in R <=> x < y
<1>1. \A x, y \in Nat : <<x, y>> \in OpToRel(<, Nat) <=> x < y
  BY DEF OpToRel
<1> QED
  BY <1>1, NatLessThanWellFounded

LEMMA LeastNumber ==
  ASSUME NEW T \in SUBSET Nat, T # {}
  PROVE  \E x \in T : \A y \in T : x <= y
<1>1. PICK R : IsWellFoundedOn(R, Nat) /\ \A x, y \in Nat : <<x, y>> \in R <=> x < y
  BY LessRelation
<1>2. IsWellFoundedOn(R, Nat) /\ T \subseteq Nat
  BY <1>1
<1>3. PICK x \in T : \A y \in T : <<y, x>> \notin R
  BY <1>2, WFMin
<1>4. ASSUME NEW y \in T
      PROVE  x <= y
  <2>1. x \in Nat /\ y \in Nat
    OBVIOUS
  <2>2. <<y, x>> \in R <=> y < x
    BY <1>1, <2>1
  <2> QED
    BY <1>3, <2>1, <2>2
<1> QED
  BY <1>4

\* Of the finite sets of a family, one has no smaller one in it.
LEMMA SmallestSet ==
  ASSUME NEW F, F # {}, \A S \in F : IsFiniteSet(S)
  PROVE  \E S \in F : \A T \in F : Cardinality(S) <= Cardinality(T)
<1> DEFINE N == {n \in Nat : \E S \in F : n = Cardinality(S)}
<1>1. \A S \in F : Cardinality(S) \in N
  BY FS_CardinalityType
<1>2. N \in SUBSET Nat /\ N # {}
  BY <1>1
<1> HIDE DEF N
<1>3. PICK x \in N : \A y \in N : x <= y
  BY <1>2, LeastNumber
<1>4. PICK S \in F : x = Cardinality(S)
  BY DEF N
<1> QED
  BY <1>1, <1>3, <1>4

\* What is true of a finite set when it is true of its proper subsets.
LEMMA Smaller ==
  ASSUME NEW S, IsFiniteSet(S), NEW e \in S
  PROVE  /\ IsFiniteSet(S \ {e}) /\ Cardinality(S \ {e}) < Cardinality(S)
         /\ Cardinality(S) \in Nat /\ Cardinality(S \ {e}) \in Nat
         /\ Cardinality(S \ {e}) = Cardinality(S) - 1
<1>1. IsFiniteSet(S \ {e}) /\ Cardinality(S \ {e}) = Cardinality(S) - 1
  BY FS_RemoveElement
<1>2. Cardinality(S) \in Nat /\ Cardinality(S \ {e}) \in Nat
  BY <1>1, FS_CardinalityType
<1> QED
  BY <1>1, <1>2

-----------------------------------------------------------------------------
(* The canonical order.                                                    *)

\* Events that the canonical order puts in a sequence.
Sequenced(S) ==
  /\ IsFiniteSet(S)
  /\ \A e \in S : e.at \in Nat /\ e.id \in Nat
  /\ \A e, f \in S : e.id = f.id => e = f

LEMMA EarlierOrders ==
  ASSUME NEW S, Sequenced(S)
  PROVE  /\ \A e, f \in S : e = f \/ Earlier(e, f) \/ Earlier(f, e)
         /\ \A e, f \in S : ~(Earlier(e, f) /\ Earlier(f, e))
         /\ \A e, f, g \in S : Earlier(e, f) /\ Earlier(f, g) => Earlier(e, g)
BY DEF Sequenced, Earlier

LEMMA SequencedPart ==
  ASSUME NEW S, Sequenced(S), NEW T \in SUBSET S
  PROVE  Sequenced(T)
<1>1. IsFiniteSet(T)
  BY FS_Subset DEF Sequenced
<1> QED
  BY <1>1 DEF Sequenced

IsLast(e, S) == e \in S /\ \A f \in S : f = e \/ Earlier(f, e)

LEMMA HasLast ==
  ASSUME NEW S, Sequenced(S), S # {}
  PROVE  \E e : IsLast(e, S)
<1> DEFINE F == {T \in SUBSET S : T # {} /\ ~\E e : IsLast(e, T)}
<1> SUFFICES ASSUME F # {} PROVE FALSE
  BY DEF F
<1>1. \A T \in F : IsFiniteSet(T)
  BY SequencedPart DEF Sequenced
<1>2. PICK T \in F : \A U \in F : Cardinality(T) <= Cardinality(U)
  <2> HIDE DEF F
  <2> QED
    BY <1>1, SmallestSet
<1>3. PICK x \in T : TRUE
  OBVIOUS
<1>4. CASE T \ {x} = {}
  <2>1. IsLast(x, T)
    BY <1>3, <1>4 DEF IsLast
  <2> QED
    BY <2>1
<1>5. CASE T \ {x} # {}
  <2>1. T \ {x} \notin F
    <3>1. /\ Cardinality(T \ {x}) < Cardinality(T)
          /\ Cardinality(T) \in Nat /\ Cardinality(T \ {x}) \in Nat
      BY <1>1, <1>3, Smaller
    <3>2. ~(Cardinality(T) <= Cardinality(T \ {x}))
      BY <3>1
    <3> QED
      BY <1>2, <3>2
  <2>2. PICK e : IsLast(e, T \ {x})
    BY <1>5, <2>1
  <2>3. e \in S /\ x \in S /\ T \subseteq S
    BY <1>3, <2>2 DEF IsLast
  <2>4. CASE Earlier(x, e)
    <3>1. IsLast(e, T)
      BY <2>2, <2>4 DEF IsLast
    <3> QED
      BY <3>1
  <2>5. CASE Earlier(e, x)
    <3>1. \A f \in T : f = x \/ Earlier(f, x)
      BY <2>2, <2>3, <2>5, EarlierOrders DEF IsLast
    <3>2. IsLast(x, T)
      BY <1>3, <3>1 DEF IsLast
    <3> QED
      BY <3>2
  <2>6. e # x
    BY <2>2 DEF IsLast
  <2> QED
    BY <2>3, <2>4, <2>5, <2>6, EarlierOrders
<1> QED
  BY <1>4, <1>5

LEMMA LastEvent ==
  ASSUME NEW S, Sequenced(S), S # {}
  PROVE  IsLast(LastOf(S), S)
<1>1. \E e \in S : \A f \in S : f = e \/ Earlier(f, e)
  BY HasLast DEF IsLast
<1> QED
  BY <1>1 DEF LastOf, IsLast

LEMMA OnlyLast ==
  ASSUME NEW S, Sequenced(S), NEW e, IsLast(e, S)
  PROVE  LastOf(S) = e
<1>1. IsLast(LastOf(S), S)
  BY LastEvent DEF IsLast
<1> QED
  BY <1>1, EarlierOrders DEF IsLast

-----------------------------------------------------------------------------
(* Replays.                                                                *)

\* F is the replay from base of each subset of S.
IsReplay(F, base, S) ==
  \A T \in SUBSET S : F[T] = IF T = {} THEN FromBaseline(base)
                             ELSE Project(F[T \ {LastOf(T)}], LastOf(T))

\* Two of them agree on what they have in common.
LEMMA SameReplay ==
  ASSUME NEW S, NEW R, Sequenced(S), NEW F, NEW G, NEW base, IsReplay(F, base, S),
         IsReplay(G, base, R), S \subseteq R
  PROVE  F[S] = G[S]
<1> DEFINE D == {T \in SUBSET S : F[T] # G[T]}
<1> SUFFICES ASSUME D # {} PROVE FALSE
  OBVIOUS
<1>1. \A T \in D : IsFiniteSet(T) /\ Sequenced(T)
  BY SequencedPart DEF Sequenced
<1>2. PICK T \in D : \A U \in D : Cardinality(T) <= Cardinality(U)
  <2> HIDE DEF D
  <2> QED
    BY <1>1, SmallestSet
<1>3. T \in SUBSET S /\ T \in SUBSET R
  OBVIOUS
<1>4. CASE T = {}
  BY <1>2, <1>3, <1>4 DEF IsReplay
<1>5. CASE T # {}
  <2>1. LastOf(T) \in T
    BY <1>1, <1>5, LastEvent DEF IsLast
  <2> DEFINE U == T \ {LastOf(T)}
  <2>2. /\ Cardinality(U) < Cardinality(T)
        /\ Cardinality(T) \in Nat /\ Cardinality(U) \in Nat
    BY <1>1, <2>1, Smaller
  <2>3. ~(Cardinality(T) <= Cardinality(U))
    BY <2>2
  <2>4. F[U] = G[U]
    BY <1>2, <1>3, <2>3
  <2> QED
    BY <1>2, <1>3, <1>5, <2>4 DEF IsReplay
<1> QED
  BY <1>4, <1>5

\* There is one, and it is a function on the subsets.
Fixed(F, base, S) == F = [T \in SUBSET S |->
                            IF T = {} THEN FromBaseline(base)
                            ELSE Project(F[T \ {LastOf(T)}], LastOf(T))]

LEMMA SomeReplay ==
  ASSUME NEW S, Sequenced(S), NEW base
  PROVE  \E F : Fixed(F, base, S)
<1> DEFINE Upto(n) == {T \in SUBSET S : Cardinality(T) <= n}
           Result(F, T) == IF T = {} THEN FromBaseline(base)
                           ELSE Project(F[T \ {LastOf(T)}], LastOf(T))
           Has(n) == \E F : F = [T \in Upto(n) |-> Result(F, T)]
           Bad == {n \in Nat : ~Has(n)}
<1>1. \A T \in SUBSET S : IsFiniteSet(T) /\ Cardinality(T) \in Nat /\ Sequenced(T)
  BY SequencedPart, FS_CardinalityType DEF Sequenced
<1>2. \A T \in SUBSET S : T # {} => /\ LastOf(T) \in T
                                    /\ Cardinality(T \ {LastOf(T)}) = Cardinality(T) - 1
  BY <1>1, LastEvent, Smaller DEF IsLast
<1>3. Has(0)
  <2>1. \A T \in Upto(0) : T = {}
    BY <1>1, FS_EmptySet
  <2> DEFINE F == [T \in Upto(0) |-> FromBaseline(base)]
  <2>2. F = [T \in Upto(0) |-> Result(F, T)]
    BY <2>1
  <2> QED
    BY <2>2
<1>4. ASSUME NEW n \in Nat, Has(n)
      PROVE  Has(n + 1)
  <2>1. PICK F : F = [T \in Upto(n) |-> Result(F, T)]
    BY <1>4
  <2> DEFINE G == [T \in Upto(n + 1) |-> IF T \in Upto(n) THEN F[T] ELSE Result(F, T)]
  <2>2. Upto(n) \subseteq Upto(n + 1)
    BY <1>1
  <2>3. \A T \in Upto(n) : G[T] = F[T]
    BY <2>2
  <2>4. \A T \in Upto(n + 1) : T # {} => T \ {LastOf(T)} \in Upto(n)
    BY <1>1, <1>2
  <2>5. \A T \in Upto(n + 1) : G[T] = Result(G, T)
    <3> SUFFICES ASSUME NEW T \in Upto(n + 1) PROVE G[T] = Result(G, T)
      OBVIOUS
    <3>1. Result(G, T) = Result(F, T)
      <4>1. CASE T = {}
        BY <4>1
      <4>2. CASE T # {}
        <5>1. G[T \ {LastOf(T)}] = F[T \ {LastOf(T)}]
          BY <2>3, <2>4, <4>2
        <5> HIDE DEF G
        <5> QED
          BY <4>2, <5>1
      <4> QED
        BY <4>1, <4>2
    <3>2. G[T] = Result(F, T)
      BY <2>1
    <3> QED
      BY <3>1, <3>2
  <2>6. G = [T \in Upto(n + 1) |-> Result(G, T)]
    BY <2>5
  <2> QED
    BY <2>6
<1>5. Bad = {}
  <2> SUFFICES ASSUME Bad # {} PROVE FALSE
    OBVIOUS
  <2>1. PICK n \in Bad : \A m \in Bad : n <= m
    <3>1. Bad \in SUBSET Nat
      OBVIOUS
    <3> HIDE DEF Bad
    <3> QED
      BY <3>1, LeastNumber
  <2>2. n \in Nat /\ n # 0 /\ n - 1 \in Nat /\ ~(n <= n - 1) /\ (n - 1) + 1 = n
    <3>1. n \in Nat /\ n # 0
      <4> HIDE DEF Has
      <4> QED
        BY <1>3
    <3> QED
      BY <3>1
  <2>3. Has(n - 1)
    BY <2>1, <2>2
  <2> HIDE DEF Has
  <2> QED
    BY <1>4, <2>1, <2>2, <2>3
<1>6. Has(Cardinality(S))
  BY <1>1, <1>5
<1>7. Upto(Cardinality(S)) = SUBSET S
  <2>1. \A T \in SUBSET S : Cardinality(T) <= Cardinality(S)
    BY <1>1, FS_Subset
  <2> QED
    BY <2>1
<1> QED
  BY <1>6, <1>7 DEF Fixed

\* The replay of a set is what a replay of its subsets says of it.
LEMMA ReplayIs ==
  ASSUME NEW S, Sequenced(S), NEW base
  PROVE  \E F : IsReplay(F, base, S) /\ Replay(base, S) = F[S]
<1> DEFINE F == CHOOSE G : Fixed(G, base, S)
<1>1. Fixed(F, base, S)
  BY SomeReplay
<1>2. Replay(base, S) = F[S]
  BY DEF Replay, Fixed
<1> HIDE DEF F
<1>3. IsReplay(F, base, S)
  BY <1>1 DEF Fixed, IsReplay
<1> QED
  BY <1>2, <1>3

LEMMA ReplayNothing ==
  ASSUME NEW base
  PROVE  Replay(base, {}) = FromBaseline(base)
<1>1. Sequenced({})
  BY FS_EmptySet DEF Sequenced
<1> QED
  BY <1>1, ReplayIs DEF IsReplay

LEMMA ProjectCursor ==
  ASSUME NEW s, NEW e
  PROVE  /\ Project(s, e).count = s.count + 1
         /\ Project(s, e).at = e.at /\ Project(s, e).id = e.id
BY DEF Project

\* What is last is projected onto the replay of the rest.
LEMMA ReplayLast ==
  ASSUME NEW S, Sequenced(S), NEW e, IsLast(e, S), NEW base
  PROVE  Replay(base, S) = Project(Replay(base, S \ {e}), e)
<1>1. Sequenced(S \ {e}) /\ S # {} /\ LastOf(S) = e
  BY SequencedPart, OnlyLast DEF IsLast
<1>2. PICK F : IsReplay(F, base, S) /\ Replay(base, S) = F[S]
  BY ReplayIs
<1>3. PICK G : IsReplay(G, base, S \ {e}) /\ Replay(base, S \ {e}) = G[S \ {e}]
  BY <1>1, ReplayIs
<1>4. G[S \ {e}] = F[S \ {e}]
  BY <1>1, <1>2, <1>3, SameReplay
<1> QED
  BY <1>1, <1>2, <1>3, <1>4 DEF IsReplay

\* A replay counts events, and its cursor is on the last one.
LEMMA ReplayCursor ==
  ASSUME NEW S, Sequenced(S), NEW base
  PROVE  /\ Replay(base, S).count \in Nat
         /\ S = {} <=> Replay(base, S).count = 0
         /\ S # {} => /\ IsLast(LastOf(S), S)
                      /\ Replay(base, S).at = LastOf(S).at
                      /\ Replay(base, S).id = LastOf(S).id
<1> DEFINE Counts(T) == /\ Replay(base, T).count \in Nat
                        /\ T = {} <=> Replay(base, T).count = 0
           Bad == {T \in SUBSET S : ~Counts(T)}
<1>1. \A T \in SUBSET S : IsFiniteSet(T) /\ Sequenced(T)
  BY SequencedPart DEF Sequenced
<1>2. Bad = {}
  <2> SUFFICES ASSUME Bad # {} PROVE FALSE
    OBVIOUS
  <2>1. PICK T \in Bad : \A U \in Bad : Cardinality(T) <= Cardinality(U)
    <3>1. \A U \in Bad : IsFiniteSet(U)
      BY <1>1
    <3> HIDE DEF Bad
    <3> QED
      BY <3>1, SmallestSet
  <2>2. CASE T = {}
    <3>1. Replay(base, T).count = 0
      BY <2>2, ReplayNothing DEF FromBaseline
    <3> QED
      BY <2>2, <3>1
  <2>3. CASE T # {}
    <3> DEFINE e == LastOf(T)
    <3>1. IsLast(e, T)
      BY <1>1, <2>3, LastEvent
    <3>2. Replay(base, T).count = Replay(base, T \ {e}).count + 1
      <4>1. Sequenced(T)
        BY <1>1
      <4> HIDE DEF e
      <4>2. Replay(base, T) = Project(Replay(base, T \ {e}), e)
        BY <3>1, <4>1, ReplayLast
      <4> QED
        BY <4>2, ProjectCursor
    <3>3. Counts(T \ {e})
      <4>1. /\ Cardinality(T \ {e}) < Cardinality(T)
            /\ Cardinality(T) \in Nat /\ Cardinality(T \ {e}) \in Nat
        BY <1>1, <3>1, Smaller DEF IsLast
      <4>2. ~(Cardinality(T) <= Cardinality(T \ {e}))
        BY <4>1
      <4> HIDE DEF e, Counts
      <4> QED
        BY <2>1, <4>2
    <3> HIDE DEF e
    <3> QED
      BY <2>3, <3>2, <3>3
  <2> QED
    BY <2>2, <2>3
<1>3. ASSUME S # {}
      PROVE  /\ IsLast(LastOf(S), S)
             /\ Replay(base, S).at = LastOf(S).at /\ Replay(base, S).id = LastOf(S).id
  <2>1. IsLast(LastOf(S), S)
    BY <1>3, LastEvent
  <2>2. Replay(base, S) = Project(Replay(base, S \ {LastOf(S)}), LastOf(S))
    BY <2>1, ReplayLast
  <2> QED
    BY <2>1, <2>2, ProjectCursor
<1> QED
  BY <1>2, <1>3

-----------------------------------------------------------------------------
(* Why the projection is canonical: it is at rest, and what a transaction  *)
(* is going to commit is, with its event, too.                             *)

ProjectedBy(t) ==
  pc[t] = "commit" =>
    value[t].projected = Replay(value[t].base, log \union {staged[t]})

CInv == /\ IInv /\ CanonicalProjection
        /\ DOMAIN value = Thread
        /\ \A e \in log : e.id = e.act
        /\ \A t \in Thread : ProjectedBy(t)

LEMMA LogSequenced ==
  ASSUME IInv, \A e \in log : e.id = e.act
  PROVE  Sequenced(log)
<1>1. log \subseteq Event /\ IsFiniteSet(log) /\ Act \subseteq Nat
  BY ActAssumption DEF IInv, TypeOK
<1>2. ASSUME NEW e \in log
      PROVE  e.at \in Nat /\ e.id \in Nat /\ e.act \in Act
  <2>1. e.at \in 0..MaxTime /\ e.id \in Act /\ e.act \in Act
    BY <1>1 DEF Event
  <2>2. 0..MaxTime \subseteq Nat
    BY TimeAssumption
  <2> QED
    BY <1>1, <2>1, <2>2
<1>3. ASSUME NEW e \in log, NEW f \in log, e.act = f.act PROVE e = f
  <2> DEFINE A == {g \in log : g.act = e.act}
  <2>1. IsFiniteSet(A) /\ e \in A /\ f \in A
    BY <1>1, <1>3, FS_Subset
  <2>2. Cardinality(A) \in {0, 1}
    BY <1>2 DEF IInv, OneEventEach
  <2> HIDE DEF A
  <2>3. Cardinality(A) = 1
    BY <2>1, <2>2, FS_EmptySet
  <2>4. PICK x : A = {x}
    BY <2>1, <2>3, FS_Singleton
  <2> QED
    BY <2>1, <2>4
<1> QED
  BY <1>1, <1>2, <1>3 DEF Sequenced

\* The event that a transaction is going to insert is of an activity without one.
LEMMA StagedSequenced ==
  ASSUME IInv, \A e \in log : e.id = e.act, NEW t \in Thread, InFlight(t)
  PROVE  /\ Sequenced(log \union {staged[t]}) /\ staged[t] \notin log
         /\ staged[t].id = staged[t].act
<1>1. TypeOK /\ RequestedBy(t) /\ RunHeldBy(t) /\ ReviewApart(t) /\ pc[t] # "idle"
      /\ req[t] \in Request /\ staged[t] = EventOf(req[t])
  BY DEF IInv, Requested, RequestedBy, RunHeld, ReviewsApart, InFlight
<1>2. staged[t] \in Event /\ staged[t].act = req[t].act /\ req[t].act \in Act
      /\ staged[t].id = staged[t].act
  BY <1>1, RequestTyped DEF EventOf
<1>3. Sequenced(log)
  BY LogSequenced
<1>4. ~(req[t].act \in Issued /\ act[req[t].act].status = "completed")
  BY <1>1 DEF RunHeldBy, ReviewApart, Pending
<1>5. \A e \in log : e.act # staged[t].act
  <2>1. Cardinality({e \in log : e.act = req[t].act}) = 0
    BY <1>2, <1>4 DEF IInv, OneEventEach
  <2>2. IsFiniteSet({e \in log : e.act = req[t].act})
    BY FS_Subset DEF IInv
  <2>3. {e \in log : e.act = req[t].act} = {}
    BY <2>1, <2>2, FS_EmptySet
  <2> QED
    BY <1>2, <2>3
<1>6. staged[t].at \in Nat /\ staged[t].id \in Nat
  <2>1. staged[t].at \in 0..MaxTime /\ staged[t].id \in Act
    BY <1>2 DEF Event
  <2>2. 0..MaxTime \subseteq Nat /\ Act \subseteq Nat
    BY ActAssumption, TimeAssumption
  <2> QED
    BY <2>1, <2>2
<1>7. IsFiniteSet(log \union {staged[t]})
  BY FS_AddElement DEF IInv
<1> QED
  BY <1>2, <1>3, <1>5, <1>6, <1>7 DEF Sequenced

\* A row that is the replay of the log is left the replay of the log and the event.
LEMMA AppliedIsReplay ==
  ASSUME NEW e, Sequenced(log \union {e}), e \notin log, NEW row,
         row.projected = Replay(row.base, log)
  PROVE  Applied(row, e) = Replay(row.base, log \union {e})
<1>1. Sequenced(log)
  BY SequencedPart
<1>2. CASE row.projected.count > 0 /\ Earlier(e, row.projected)
  BY <1>2 DEF Applied
<1>3. CASE ~(row.projected.count > 0 /\ Earlier(e, row.projected))
  <2>1. IsLast(e, log \union {e})
    <3>1. CASE log = {}
      BY <3>1 DEF IsLast
    <3>2. CASE log # {}
      <4> DEFINE l == LastOf(log)
      <4>1. /\ IsLast(l, log) /\ row.projected.count > 0
            /\ row.projected.at = l.at /\ row.projected.id = l.id
        BY <1>1, <3>2, ReplayCursor
      <4>2. ~Earlier(e, l) /\ l \in log \union {e} /\ l # e
        BY <1>3, <4>1 DEF Earlier, IsLast
      <4> HIDE DEF l
      <4>3. Earlier(l, e)
        BY <4>2, EarlierOrders
      <4> QED
        BY <4>1, <4>3, EarlierOrders DEF IsLast
    <3> QED
      BY <3>1, <3>2
  <2>2. (log \union {e}) \ {e} = log
    OBVIOUS
  <2>3. Replay(row.base, log \union {e}) = Project(Replay(row.base, log), e)
    BY <2>1, <2>2, ReplayLast
  <2> QED
    BY <1>3, <2>3 DEF Applied
<1> QED
  BY <1>2, <1>3

LEMMA CanonicalStep ==
  ASSUME CInv, IInv', [Next]_vars
  PROVE  CInv'
<1>1. /\ TypeOK /\ RowHeld /\ CanonicalProjection /\ DOMAIN value = Thread
      /\ \A e \in log : e.id = e.act
      /\ \A t \in Thread : ProjectedBy(t)
  BY DEF CInv, IInv
<1>2. CASE UNCHANGED <<log, state, pc, staged, value>>
  BY <1>1, <1>2 DEF CInv, CanonicalProjection, ProjectedBy
<1>3. CASE Runs \/ UNCHANGED vars
  <2>1. UNCHANGED <<log, state, pc, staged, value>>
    BY <1>3 DEF Runs, StartRun, CompleteRun, AbandonRun, AddActivity, CreateRetry, vars
  <2> QED
    BY <1>2, <2>1
<1>4. CASE Bootstraps
  <2>1. PICK base : Bootstrap(base)
    BY <1>4 DEF Bootstraps
  <2>2. UNCHANGED <<log, pc, staged, value>> /\ state' = {Row(base, FromBaseline(base))}
    BY <2>1 DEF Bootstrap
  <2>3. log = {}
    <3>1. ASSUME NEW row \in state PROVE log = {}
      BY <1>1, <2>1, <3>1, LogSequenced, ReplayCursor DEF Bootstrap, CanonicalProjection, CInv
    <3> QED
      BY <1>1, <3>1 DEF CanonicalProjection
  <2>4. CanonicalProjection'
    BY <2>2, <2>3, ReplayNothing DEF CanonicalProjection, Row
  <2> QED
    BY <1>1, <2>2, <2>4 DEF CInv, ProjectedBy
<1>5. ASSUME NEW t \in Thread, Threads(t) PROVE CInv'
  <2>1. \A u \in Thread \ {t} : pc'[u] = pc[u] /\ staged'[u] = staged[u]
    BY <1>1, <1>5, ThreadApart DEF Apart
  <2>2. ASSUME UNCHANGED <<log, state>>, DOMAIN value' = Thread, pc'[t] # "commit",
               \A u \in Thread \ {t} : value'[u] = value[u]
        PROVE  CInv'
    BY <1>1, <2>1, <2>2 DEF CInv, CanonicalProjection, ProjectedBy
  <2>3. ASSUME NEW place \in {"idle", "recover"}, Leave(t, place)
        PROVE  /\ DOMAIN value' = Thread /\ pc'[t] # "commit"
               /\ \A u \in Thread \ {t} : value'[u] = value[u]
    BY <1>1, <2>3 DEF Leave, TypeOK
  <2>4. CASE Begin(t) \/ TakesRun(t) \/ Stages(t) \/ Inserts(t) \/ EnsureState(t)
    <3>1. UNCHANGED <<log, state, value>> /\ pc'[t] # "commit"
      BY <1>1, <2>4
      DEF Begin, BeginAnswer, BeginReview, Stage, TakesRun, Stages, Inserts, EnsureState, TypeOK
    <3> QED
      BY <1>1, <2>2, <3>1
  <2>5. CASE Closes(t) \/ Retreats(t)
    BY <2>2, <2>3, <2>5 DEF Closes, Retreats
  <2>6. CASE ApplyEvent(t)
    <3>1. /\ pc[t] = "apply" /\ rowLock \in {None, t} /\ pc'[t] = "commit"
          /\ UNCHANGED <<log, state, staged>>
      BY <1>1, <2>6 DEF ApplyEvent, TypeOK
    <3>2. Sequenced(log \union {staged[t]}) /\ staged[t] \notin log
      BY <3>1, StagedSequenced DEF CInv, InFlight
    <3>3. PICK row \in IF made[t] THEN {Row(NoBase, FromBaseline(NoBase))} ELSE state :
                 value' = [value EXCEPT ![t] = Row(row.base, Applied(row, staged[t]))]
      BY <2>6 DEF ApplyEvent
    <3>4. row.projected = Replay(row.base, log)
      <4>1. CASE made[t]
        <5>1. log = {} /\ row = Row(NoBase, FromBaseline(NoBase))
          BY <1>1, <3>3, <4>1 DEF RowHeld, RowHeldBy, CanonicalProjection
        <5> QED
          BY <5>1, ReplayNothing DEF Row
      <4>2. CASE ~made[t]
        BY <1>1, <3>3, <4>2 DEF CanonicalProjection
      <4> QED
        BY <4>1, <4>2
    <3>5. Applied(row, staged[t]) = Replay(row.base, log \union {staged[t]})
      BY <3>2, <3>4, AppliedIsReplay
    <3>6. /\ value'[t].base = row.base /\ value'[t].projected = Applied(row, staged[t])
          /\ DOMAIN value' = Thread /\ \A u \in Thread \ {t} : value'[u] = value[u]
      BY <1>1, <3>3 DEF Row
    <3> QED
      BY <1>1, <2>1, <3>1, <3>5, <3>6 DEF CInv, CanonicalProjection, ProjectedBy
  <2>7. CASE Commit(t)
    <3>1. /\ pc[t] = "commit" /\ Leave(t, "idle")
          /\ log' = log \union {staged[t]} /\ state' = {value[t]}
      BY <1>1, <2>7, CommitEffect
    <3>2. staged[t].id = staged[t].act
      BY <1>1, <3>1, StagedSequenced DEF CInv, InFlight
    <3>3. CanonicalProjection'
      BY <1>1, <3>1 DEF CanonicalProjection, ProjectedBy
    <3>4. \A u \in Thread : pc'[u] # "commit"
      <4>1. \A u \in Thread \ {t} : pc[u] # "commit"
        BY <1>1, <3>1 DEF RowHeld, RowHeldBy
      <4> QED
        BY <2>1, <2>3, <3>1, <4>1
    <3> QED
      BY <1>1, <2>3, <3>1, <3>2, <3>3, <3>4 DEF CInv, ProjectedBy
  <2> QED
    BY <1>5, <2>4, <2>5, <2>6, <2>7, ThreadCases DEF CInv
<1> QED
  BY <1>3, <1>4, <1>5, NextCases

\* However the transactions are interleaved, retried and rolled back, in whatever
\* order events arrive, and whoever makes the row: the projection is the replay, in
\* canonical order, of the events that are stored.
THEOREM Canonical == Spec => []CanonicalProjection
<1>1. Init => CInv
  <2> SUFFICES ASSUME Init PROVE CInv
    OBVIOUS
  <2> QED
    BY InitInv DEF Init, CInv, CanonicalProjection, ProjectedBy
<1>2. CInv /\ IInv' /\ [Next]_vars => CInv'
  BY CanonicalStep
<1>3. CInv => CanonicalProjection
  BY DEF CInv
<1> QED
  BY Invariance, <1>1, <1>2, <1>3, PTL DEF Spec
=============================================================================
