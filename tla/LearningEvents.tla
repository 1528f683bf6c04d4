--------------------------- MODULE LearningEvents ---------------------------
(***************************************************************************)
(* How evidence is recorded: concurrent transactions that complete an      *)
(* activity, insert its learning event and update the projection of the    *)
(* learner's state on the target, all committed at once                    *)
(* (services/learning_event_service.py, practice_service.py,               *)
(* learner_projection_service.py, repositories/progress.py; the shadow     *)
(* review path of shadow_learning_service.py and the legacy bootstrap).    *)
(*                                                                         *)
(* One learner and one target: other pairs share no row of the projection. *)
(* The isolation level is PostgreSQL's default, READ COMMITTED: a read     *)
(* sees what is committed and what its own transaction wrote; an insert    *)
(* waits for another transaction's uncommitted row with the same unique    *)
(* key; row locks are kept to the end of the transaction.  An activity row *)
(* is locked only while its run's row is, so run locks stand for both.     *)
(***************************************************************************)
EXTENDS MemoryPolicy, FiniteSets

CONSTANTS Thread, Run, Key, None,
          Act,      \* activity ids; an event's id is its activity's
          Answers,  \* bound: the outcomes of answers, and
          Ratings,  \* of shadow reviews, that are explored
          Schedules, \* bound: the legacy schedules bootstrapped, as intervals
          MaxTime   \* bound: occurred_at of the requests

ASSUME ActAssumption == Act \subseteq Nat \ {0} /\ None \notin Act \union Run \union Thread
ASSUME OutcomeAssumption == Answers \subseteq Verdict /\ Ratings \subseteq Rating
ASSUME ScheduleAssumption == Schedules \subseteq Nat
ASSUME TimeAssumption == MaxTime \in Nat

VARIABLES
  run,     \* status of each practice run, "none" before its insertion
  act,     \* activity_instances
  log,     \* committed learning_events
  state,   \* the committed learner_target_states rows: none, or the one
  runLock, \* the transaction that holds each run's row
  rowLock, \* the transaction that holds the state's row
  pc, req,
  staged,  \* the event a transaction is going to insert, or has inserted
  made,    \* it has inserted the state's row
  value    \* the projection it has saved

vars == <<run, act, log, state, runLock, rowLock, pc, req, staged, made, value>>
tables == <<run, act, log, state>>
private == <<staged, made, value>>

Request == [kind : {"answer"}, act : Act, key : Key, at : 0..MaxTime, outcome : Answers]
           \union [kind : {"review"}, act : Act, key : Key, at : 0..MaxTime, outcome : Ratings]
Activity == [run : Run \union {None}, parent : Act \union {None},
             status : {"pending", "completed", "cancelled"}]
Event == [key : Key, act : Act, at : 0..MaxTime, id : Act, outcome : Answers \union Ratings]

ASSUME NoneAssumption == None \notin Request \union Activity

Issued == {a \in Act : act[a] # None}
Of(r) == {a \in Issued : act[a].run = r}
Pending(a) == act[a].status = "pending"
Terminal(r) == run[r] \in {"completed", "abandoned"}

\* get_learning_event: what is committed under a key.
Under(key) == {e \in log : e.key = key}

NoBase == NeutralBaseline
Row(base, projected) == [base |-> base, projected |-> projected]

\* Types of the control state; the projection's contents are the concern of
\* CanonicalProjection.
TypeOK == /\ run \in [Run -> {"none", "active", "completed", "abandoned"}]
          /\ act \in [Act -> Activity \union {None}]
          /\ log \subseteq Event
          /\ runLock \in [Run -> Thread \union {None}]
          /\ rowLock \in Thread \union {None}
          /\ pc \in [Thread -> {"idle", "lock", "check", "insert", "recover",
                                "ensure", "apply", "commit"}]
          /\ req \in [Thread -> Request \union {None}]
          /\ staged \in [Thread -> Event \union {None}]
          /\ made \in [Thread -> BOOLEAN]

Init == /\ run = [r \in Run |-> "none"]
        /\ act = [a \in Act |-> None]
        /\ log = {}
        /\ state = {}
        /\ runLock = [r \in Run |-> None]
        /\ rowLock = None
        /\ pc = [t \in Thread |-> "idle"]
        /\ req = [t \in Thread |-> None]
        /\ staged = [t \in Thread |-> None]
        /\ made = [t \in Thread |-> FALSE]
        /\ value = [t \in Thread |-> None]

-----------------------------------------------------------------------------
(* Practice runs: each is a transaction that locks the run's row first, so *)
(* it is one step that needs the row unlocked.                             *)

Free(r) == runLock[r] = None /\ run[r] = "active"
Fresh(a) == a \notin Issued /\ \A t \in Thread : req[t] # None => req[t].act # a
NewRow(r, parent) == [run |-> r, parent |-> parent, status |-> "pending"]

StartRun(r) == /\ run[r] = "none"
               /\ run' = [run EXCEPT ![r] = "active"]
               /\ UNCHANGED <<act, log, state, runLock, rowLock, pc, req, private>>

AddActivity(r, a) == /\ Free(r) /\ Fresh(a)
                     /\ act' = [act EXCEPT ![a] = NewRow(r, None)]
                     /\ UNCHANGED <<run, log, state, runLock, rowLock, pc, req, private>>

\* Only a completed activity is retried, and once.
MayRetry(p) == /\ act[p].status = "completed"
               /\ \A c \in Issued : act[c].parent # p

CreateRetry(p, a) ==
  /\ p \in Issued /\ act[p].run # None /\ Free(act[p].run) /\ Fresh(a)
  /\ MayRetry(p)
  /\ act' = [act EXCEPT ![a] = NewRow(act[p].run, p)]
  /\ UNCHANGED <<run, log, state, runLock, rowLock, pc, req, private>>

\* Mistaken: what is still pending is not looked for.
CompletableEarly(r) == Of(r) # {}

Completable(r) == Of(r) # {} /\ \A a \in Of(r) : act[a].status = "completed"

CompleteRun(r) ==
  /\ Free(r) /\ Completable(r)
  /\ run' = [run EXCEPT ![r] = "completed"]
  /\ UNCHANGED <<act, log, state, runLock, rowLock, pc, req, private>>

Cancelled(a) == [act[a] EXCEPT !.status = "cancelled"]

\* The run's activities after it was abandoned.
Abandoned(r) == [a \in Act |-> IF a \in Of(r) /\ Pending(a) THEN Cancelled(a) ELSE act[a]]

AbandonRun(r) ==
  /\ Free(r)
  /\ run' = [run EXCEPT ![r] = "abandoned"]
  /\ act' = Abandoned(r)
  /\ UNCHANGED <<log, state, runLock, rowLock, pc, req, private>>

-----------------------------------------------------------------------------
(* The end of a request's transaction: its locks are released and, unless  *)
(* it commits, what it wrote is gone.                                      *)

Unlock(t) == /\ runLock' = [r \in Run |-> IF runLock[r] = t THEN None ELSE runLock[r]]
             /\ rowLock' = IF rowLock = t THEN None ELSE rowLock

Leave(t, place) == /\ pc' = [pc EXCEPT ![t] = place]
                   /\ Unlock(t)
                   /\ staged' = [staged EXCEPT ![t] = None]
                   /\ made' = [made EXCEPT ![t] = FALSE]
                   /\ value' = [value EXCEPT ![t] = None]

\* `answered` says whether the caller is given the event under its key.
End(t, answered) == /\ Leave(t, "idle")
                    /\ req' = IF answered THEN req ELSE [req EXCEPT ![t] = None]

\* semantic_fingerprint: the activity and the response, not the time.
SameRequest(e, q) == e.act = q.act /\ e.outcome = q.outcome

\* Mistaken: any event under the key is taken for the request's own.
ReturnAnyDuplicate(t, q) == /\ End(t, TRUE)
                            /\ UNCHANGED tables

\* _return_duplicate: another request under the key is a conflict.
ReturnDuplicate(t, q) ==
  /\ End(t, \E e \in Under(q.key) : SameRequest(e, q))
  /\ UNCHANGED tables

-----------------------------------------------------------------------------
(* LearningEventService.record, and the shadow review adapter, which looks *)
(* its key up once and completes an activity of a run of its own.          *)

EventOf(q) == [key |-> q.key, act |-> q.act, at |-> q.at, id |-> q.act, outcome |-> q.outcome]

Stage(t, q, place) == /\ staged' = [staged EXCEPT ![t] = EventOf(q)]
                      /\ pc' = [pc EXCEPT ![t] = place]

BeginAnswer(t, q) ==
  /\ pc[t] = "idle" /\ q.kind = "answer"
  /\ q.act \in Issued /\ act[q.act].run # None
  /\ Under(q.key) = {}
  /\ req' = [req EXCEPT ![t] = q]
  /\ pc' = [pc EXCEPT ![t] = "lock"]
  /\ UNCHANGED <<tables, runLock, rowLock, private>>

BeginReview(t, q) ==
  /\ pc[t] = "idle" /\ q.kind = "review"
  /\ Fresh(q.act)
  /\ Under(q.key) = {}
  /\ req' = [req EXCEPT ![t] = q]
  /\ Stage(t, q, "insert")
  /\ UNCHANGED <<tables, runLock, rowLock, made, value>>

RunOf(t) == act[req[t].act].run

LockRun(t) ==
  /\ pc[t] = "lock"
  /\ runLock[RunOf(t)] = None
  /\ \/ /\ run[RunOf(t)] = "active"
        /\ runLock' = [runLock EXCEPT ![RunOf(t)] = t]
        /\ pc' = [pc EXCEPT ![t] = "check"]
        /\ UNCHANGED <<tables, rowLock, req, private>>
     \/ /\ run[RunOf(t)] # "active"
        /\ End(t, FALSE) /\ UNCHANGED tables

\* The key again, now under the lock, and the activity's status.
CheckActivity(t) ==
  /\ pc[t] = "check"
  /\ \/ /\ Under(req[t].key) # {}
        /\ ReturnDuplicate(t, req[t])
     \/ /\ Under(req[t].key) = {} /\ ~Pending(req[t].act)
        /\ End(t, FALSE) /\ UNCHANGED tables
     \/ /\ Under(req[t].key) = {} /\ Pending(req[t].act)
        /\ Stage(t, req[t], "insert")
        /\ UNCHANGED <<tables, runLock, rowLock, req, made, value>>

Inserted(t) == pc[t] \in {"ensure", "apply", "commit"}

\* flush: unique (learner, idempotency key), and one event for an activity.
InsertEvent(t) ==
  /\ pc[t] = "insert"
  /\ \A u \in Thread : Inserted(u) => staged[u].key # req[t].key
  /\ \/ /\ Under(req[t].key) = {} /\ \A e \in log : e.act # req[t].act
        /\ pc' = [pc EXCEPT ![t] = "ensure"]
        /\ UNCHANGED <<tables, runLock, rowLock, req, private>>
     \/ /\ Under(req[t].key) # {}
        /\ IF req[t].kind = "answer"
             THEN Leave(t, "recover") /\ UNCHANGED req
             ELSE End(t, FALSE)
        /\ UNCHANGED tables

\* After the rollback the row that won is read.
Recover(t) == /\ pc[t] = "recover"
              /\ ReturnDuplicate(t, req[t])

-----------------------------------------------------------------------------
(* apply_event: materialize the state's row, lock it, project, save.       *)

\* A row found, or a conflict with one committed meanwhile, is used as it is.
EnsureState(t) ==
  /\ pc[t] = "ensure"
  /\ \A u \in Thread : ~made[u]
  /\ made' = [made EXCEPT ![t] = state = {}]
  /\ rowLock' = IF state = {} THEN t ELSE rowLock
  /\ pc' = [pc EXCEPT ![t] = "apply"]
  /\ UNCHANGED <<tables, runLock, req, staged, value>>

\* Mistaken: an event that is older than the cursor is projected like any other.
AppliedInArrivalOrder(row, event) == Project(row.projected, event)

\* Incremental after the cursor, a replay of what is stored before it.
Applied(row, event) ==
  IF row.projected.count > 0 /\ Earlier(event, row.projected)
    THEN Replay(row.base, log \union {event})
    ELSE Project(row.projected, event)

ApplyEvent(t) ==
  /\ pc[t] = "apply"
  /\ rowLock \in {None, t}
  /\ rowLock' = t
  /\ \E row \in IF made[t] THEN {Row(NoBase, FromBaseline(NoBase))} ELSE state :
       value' = [value EXCEPT ![t] = Row(row.base, Applied(row, staged[t]))]
  /\ pc' = [pc EXCEPT ![t] = "commit"]
  /\ UNCHANGED <<tables, runLock, req, staged, made>>

\* Mistaken: the activity that is answered keeps its status.
CommitEventOnly(t) ==
  /\ pc[t] = "commit"
  /\ log' = log \union {staged[t]}
  /\ state' = {value[t]}
  /\ End(t, TRUE)
  /\ UNCHANGED <<run, act>>

Commit(t) ==
  /\ pc[t] = "commit"
  /\ log' = log \union {staged[t]}
  /\ act' = [act EXCEPT ![staged[t].act] =
               IF req[t].kind = "answer" THEN [@ EXCEPT !.status = "completed"]
               ELSE [run |-> None, parent |-> None, status |-> "completed"]]
  /\ state' = {value[t]}
  /\ End(t, TRUE)
  /\ UNCHANGED run

\* Mistaken: a transaction that fails keeps its locks.
FailLocked(t) == /\ pc[t] # "idle"
                 /\ pc' = [pc EXCEPT ![t] = "idle"]
                 /\ req' = [req EXCEPT ![t] = None]
                 /\ UNCHANGED <<tables, runLock, rowLock, private>>

\* Any other error, or the worker's crash, rolls the transaction back.
Fail(t) == /\ pc[t] # "idle"
           /\ End(t, FALSE)
           /\ UNCHANGED tables

-----------------------------------------------------------------------------
(* bootstrap_legacy_state: a row without evidence takes the legacy         *)
(* schedule; one that an event made, or has moved on, is left alone.       *)

Bootstrap(base) ==
  /\ rowLock = None
  /\ \A row \in state : /\ row.base.kind = "legacy_bootstrap" /\ row.base # base
                        /\ row.projected.count = 0
  /\ state' = {Row(base, FromBaseline(base))}
  /\ UNCHANGED <<run, act, log, runLock, rowLock, pc, req, private>>

Next == \/ \E r \in Run : \/ StartRun(r) \/ CompleteRun(r) \/ AbandonRun(r)
                          \/ \E a \in Act : AddActivity(r, a)
        \/ \E p, a \in Act : CreateRetry(p, a)
        \/ \E t \in Thread :
             \/ \E q \in Request : BeginAnswer(t, q) \/ BeginReview(t, q)
             \/ LockRun(t) \/ CheckActivity(t) \/ InsertEvent(t) \/ Recover(t)
             \/ EnsureState(t) \/ ApplyEvent(t) \/ Commit(t) \/ Fail(t)
        \/ \E days \in Schedules : Bootstrap(LegacyBaseline(days * Day, days))

Spec == Init /\ [][Next]_vars

-----------------------------------------------------------------------------
(* Properties.                                                             *)

\* SDD: the projection equals a replay of the stored events in canonical order,
\* whatever order they arrive, are locked and commit in, and whether the row was
\* made by the first event, by a concurrent one or by the bootstrap.
CanonicalProjection ==
  /\ state = {} => log = {}
  /\ \A row \in state : row.projected = Replay(row.base, log)

\* An activity is completed if and only if exactly one event records how.
OneEventEach ==
  \A a \in Act : Cardinality({e \in log : e.act = a}) =
                   IF a \in Issued /\ act[a].status = "completed" THEN 1 ELSE 0

\* A run that was completed has only completed activities, and at least one; an
\* abandoned run has no activity left that an answer could still complete.
EndedRunIsWhole ==
  \A r \in Run :
    /\ run[r] = "completed" =>
         Of(r) # {} /\ \A a \in Of(r) : act[a].status = "completed"
    /\ run[r] = "abandoned" => \A a \in Of(r) : ~Pending(a)

\* A caller that was given an event was given the one that records its own
\* activity and response under its key, however it was retried and raced.
AnsweredIsRecorded ==
  \A t \in Thread : pc[t] = "idle" /\ req[t] # None =>
    \E e \in log : e.key = req[t].key /\ SameRequest(e, req[t])

\* For what each statement that waits is another transaction held.
Waits(t, u) ==
  CASE pc[t] = "lock" -> runLock[RunOf(t)] = u
    [] pc[t] = "insert" -> Inserted(u) /\ staged[u].key = req[t].key
    [] pc[t] = "ensure" -> made[u]
    [] pc[t] = "apply" -> rowLock = u
    [] OTHER -> FALSE

Progress == [idle |-> 0, recover |-> 0, lock |-> 1, check |-> 2, insert |-> 3,
             ensure |-> 4, apply |-> 5, commit |-> 6]

\* No order of locks makes the transactions wait for one another in a ring, and
\* none waits for one that is over: who is waited for is strictly further on its
\* way from the run's lock to the commit.
WaitsForLater ==
  \A t, u \in Thread : t # u /\ Waits(t, u) => Progress[pc[t]] < Progress[pc[u]]
=============================================================================
