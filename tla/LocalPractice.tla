---------------------------- MODULE LocalPractice ----------------------------
(***************************************************************************)
(* Local written practice of one learner                                   *)
(* (backend/app/services/local_practice_service.py): runs, the activities  *)
(* issued in them, first answers, one immediate repair per failed answer,  *)
(* feedback, and the issuance limits of an allocation window               *)
(* (local_workload.py).  Requests of several browser tabs run in threads;  *)
(* each one that writes locks the learner's profile row, reads, and        *)
(* commits.  Run and activity rows are only ever locked under that lock,   *)
(* so it is the one lock modelled here; LearningEvents has the others.     *)
(*                                                                         *)
(* A reviewed practice example stands for its target: the pack has one per *)
(* outcome.  Which targets are ready and which of the eligible ones ranks  *)
(* first is left open.  An answer is named by the verdict it gets.         *)
(***************************************************************************)
EXTENDS Integers, FiniteSets

CONSTANTS Thread, Run, Act, Example, Key, None,
          TotalLimit, RootLimit, NewLimit, RepairLimit,  \* LocalWorkloadPolicy
          MaxDay       \* bound: allocation windows explored

ASSUME LimitAssumption ==
  /\ TotalLimit \in Nat /\ RootLimit \in Nat /\ NewLimit \in Nat /\ RepairLimit \in Nat
  /\ MaxDay \in Nat
ASSUME NoneAssumption == None \notin Act \union Example \union Run \union Thread \union Key

VARIABLES
  runs,    \* runs that have a row
  retired, \* those started under an older selection policy
  acts,    \* activity_instances by id
  events,  \* learning_events: idempotency key -> the activity it completed
  today,   \* the current allocation window
  owner,   \* the thread whose transaction holds the profile row
  pc, op,  \* where each thread is, and what it was asked for
  staged,  \* the row its transaction will commit
  exposed  \* pending activities whose answer was displayed meanwhile

vars == <<runs, retired, acts, events, today, owner, pc, op, staged, exposed>>
threads == <<owner, pc, op, staged>>

Verdict == {"correct", "incorrect", "unresolved"}
Failed == {"incorrect", "unresolved"}
Support == {"cue", "reveal", "correction"}
Showing == {"reveal", "correction"}

Activity == [run : Run, example : Example, kind : {"exercise", "exposure"},
             parent : Act \union {None}, support : Support \union {"none"},
             seq : Nat \ {0}, day : 0..MaxDay, new : BOOLEAN,
             status : {"pending", "completed"}, outcome : Verdict \union {"none"}]

ASSUME RowAssumption == None \notin Activity

Issued == {a \in Act : acts[a] # None}
Of(r) == {a \in Issued : acts[a].run = r}
Pending == {a \in Issued : acts[a].status = "pending"}
Roots == {a \in Issued : acts[a].parent = None}
Children(a) == {c \in Issued : acts[c].parent = a}

Request == [name : {"next"}, run : Run, kind : {"exercise", "exposure"}]
           \union [name : {"submit"}, act : Act, key : Key, outcome : Verdict \union {"none"}]
           \union [name : {"repair"}, act : Act, id : Act, support : Support]

Write == [id : Act, row : Activity, key : Key \union {None}]

TypeOK == /\ runs \subseteq Run /\ retired \subseteq runs
          /\ acts \in [Act -> Activity \union {None}]
          /\ events \in [Key -> Act \union {None}]
          /\ today \in 0..MaxDay
          /\ owner \in Thread \union {None}
          /\ pc \in [Thread -> {"idle", "locked", "staged"}]
          /\ op \in [Thread -> Request \union {None}]
          /\ staged \in [Thread -> Write \union {None}]
          /\ exposed \subseteq Act

Init == /\ runs = {} /\ retired = {}
        /\ acts = [a \in Act |-> None]
        /\ events = [k \in Key |-> None]
        /\ today = 0
        /\ owner = None
        /\ pc = [t \in Thread |-> "idle"]
        /\ op = [t \in Thread |-> None]
        /\ staged = [t \in Thread |-> None]
        /\ exposed = {}

-----------------------------------------------------------------------------
(* The workload policy: rows issued in the current window, in any run.     *)

Today == {a \in Issued : acts[a].day = today}
TodaysRoots == Today \intersect Roots
TodaysNew == {a \in TodaysRoots : acts[a].new}
TodaysRepairs == Today \ Roots

\* remaining of report(): each limit is also cut by what is left of the total.
Remains(limit, rows) == Cardinality(rows) < limit /\ Cardinality(Today) < TotalLimit

-----------------------------------------------------------------------------
(* next_activity: a pending activity is returned as it is; otherwise a     *)
(* context not used in this run, not issued in this window and not         *)
(* pending in any run.                                                     *)

\* Mistaken: only this run and what is pending anywhere are looked at.
ExcludedYesterdays(r) == {acts[a].example : a \in Of(r) \union Pending}

Excluded(r) == {acts[a].example : a \in Of(r) \union Today \union Pending}
Unseen == Example \ {acts[a].example : a \in Issued}

\* A first opportunity comes before backlog until the window has had one; an
\* unseen target is otherwise one choice among others, while its limit lasts.
Eligible(open) ==
  IF TodaysNew = {} /\ Remains(NewLimit, TodaysNew) /\ open \intersect Unseen # {}
    THEN open \intersect Unseen
    ELSE IF Remains(NewLimit, TodaysNew) THEN open ELSE open \ Unseen

NextSeq(r) == Cardinality(Of(r)) + 1

IssueRow(r, e, kind) ==
  [run |-> r, example |-> e, kind |-> kind, parent |-> None, support |-> "none",
   seq |-> NextSeq(r), day |-> today, new |-> e \in Unseen,
   status |-> "pending", outcome |-> "none"]

MayIssue(r) == /\ Of(r) \intersect Pending = {}
               /\ r \notin retired
               /\ Remains(RootLimit, TodaysRoots)

\* Which targets are ready is open, so any part of what is left may be.
Selectable(r) == UNION {Eligible(ready) : ready \in SUBSET (Example \ Excluded(r))}

NextWrites(o) ==
  IF MayIssue(o.run)
    THEN {[id |-> a, row |-> IssueRow(o.run, e, o.kind), key |-> None] :
            a \in Act \ Issued, e \in Selectable(o.run)}
    ELSE {}

-----------------------------------------------------------------------------
(* submit: the first answer completes the activity; a key seen before      *)
(* answers from its event or is refused, and so is a terminal activity.    *)

MaySubmit(o) == /\ events[o.key] = None
                /\ o.act \in Pending
                /\ (o.outcome = "none") = (acts[o.act].kind = "exposure")

SubmitWrites(o) ==
  IF MaySubmit(o)
    THEN {[id |-> o.act, key |-> o.key,
           row |-> [acts[o.act] EXCEPT !.status = "completed", !.outcome = o.outcome]]}
    ELSE {}

-----------------------------------------------------------------------------
(* repair: one child per failed root, under its own limit, when nothing in *)
(* the run is pending.  Asking again for the same child changes nothing.   *)

RepairRow(o) ==
  [acts[o.act] EXCEPT !.parent = o.act, !.support = o.support, !.new = FALSE,
     !.seq = NextSeq(acts[o.act].run), !.day = today, !.status = "pending",
     !.outcome = "none"]

\* Mistaken: the run's pending activity is not looked for.
MayRepairBeside(o) ==
  /\ o.act \in Roots
  /\ Children(o.act) = {}
  /\ acts[o.act].run \notin retired
  /\ Remains(RepairLimit, TodaysRepairs)
  /\ acts[o.act].kind = "exercise" /\ acts[o.act].outcome \in Failed
  /\ o.id \notin Issued

\* Mistaken: an earlier repair is not looked for.
MayRepairAgain(o) ==
  /\ o.act \in Roots
  /\ acts[o.act].run \notin retired
  /\ Remains(RepairLimit, TodaysRepairs)
  /\ Of(acts[o.act].run) \intersect Pending = {}
  /\ acts[o.act].kind = "exercise" /\ acts[o.act].outcome \in Failed
  /\ o.id \notin Issued

MayRepair(o) ==
  /\ o.act \in Roots
  /\ Children(o.act) = {}
  /\ acts[o.act].run \notin retired
  /\ Remains(RepairLimit, TodaysRepairs)
  /\ Of(acts[o.act].run) \intersect Pending = {}
  /\ acts[o.act].kind = "exercise" /\ acts[o.act].outcome \in Failed
  /\ o.id \notin Issued

RepairWrites(o) ==
  IF MayRepair(o) THEN {[id |-> o.id, row |-> RepairRow(o), key |-> None]} ELSE {}

-----------------------------------------------------------------------------
(* The steps of a request.                                                 *)

CreateRun(r) == /\ runs' = runs \union {r}
                /\ UNCHANGED <<retired, acts, events, today, threads, exposed>>

\* The checks before the lock: the run or the activity exists, and stays.
Known(o) == IF o.name = "next" THEN o.run \in runs ELSE o.act \in Issued

\* Mistaken: the profile row is read without FOR UPDATE.
ReadProfile(t, o) == /\ pc[t] = "idle"
                     /\ Known(o)
                     /\ owner' = t
                     /\ pc' = [pc EXCEPT ![t] = "locked"]
                     /\ op' = [op EXCEPT ![t] = o]
                     /\ UNCHANGED <<runs, retired, acts, events, today, staged, exposed>>

LockProfile(t, o) == /\ pc[t] = "idle"
                     /\ Known(o)
                     /\ owner = None
                     /\ owner' = t
                     /\ pc' = [pc EXCEPT ![t] = "locked"]
                     /\ op' = [op EXCEPT ![t] = o]
                     /\ UNCHANGED <<runs, retired, acts, events, today, staged, exposed>>

Writes(o) == CASE o.name = "next" -> NextWrites(o)
               [] o.name = "submit" -> SubmitWrites(o)
               [] o.name = "repair" -> RepairWrites(o)

Decide(t) == /\ pc[t] = "locked"
             /\ \E w \in Writes(op[t]) : staged' = [staged EXCEPT ![t] = w]
             /\ pc' = [pc EXCEPT ![t] = "staged"]
             /\ UNCHANGED <<runs, retired, acts, events, today, owner, op, exposed>>

Finish(t) == /\ pc' = [pc EXCEPT ![t] = "idle"]
             /\ op' = [op EXCEPT ![t] = None]
             /\ staged' = [staged EXCEPT ![t] = None]
             /\ owner' = IF owner = t THEN None ELSE owner

Displayed(e, rows) == {a \in Act : /\ rows[a] # None
                                   /\ rows[a].example = e
                                   /\ rows[a].status = "pending"}

\* public_activity presents an exposure's text and a revealing repair's answer.
Shows(row) == row.kind = "exposure" \/ row.support \in Showing

Commit(t) ==
  /\ pc[t] = "staged"
  /\ LET w == staged[t] IN
       /\ acts' = [acts EXCEPT ![w.id] = w.row]
       /\ events' = IF w.key = None THEN events ELSE [events EXCEPT ![w.key] = w.id]
       /\ exposed' = IF w.key = None /\ Shows(w.row)
                       THEN exposed \union Displayed(w.row.example, acts')
                       ELSE exposed
  /\ Finish(t)
  /\ UNCHANGED <<runs, retired, today>>

\* A refusal, a repeat that finds its row, a lost connection or a worker crash:
\* the transaction ends with nothing written.
GiveUp(t) == /\ pc[t] # "idle"
             /\ Finish(t)
             /\ UNCHANGED <<runs, retired, acts, events, today, exposed>>

\* Mistaken: a reserved cue counts as revealed support.
CanDiscloseEarly(a) ==
  /\ a \in Issued /\ acts[a].status = "completed" /\ acts[a].kind = "exercise"
  /\ acts[a].parent = None /\ acts[a].outcome \in Failed => Children(a) # {}

\* feedback: needs the saved first answer, and for a failed root a repair that is
\* not a cue still waiting for its answer.  It takes no lock.
CanDisclose(a) ==
  /\ a \in Issued /\ acts[a].status = "completed" /\ acts[a].kind = "exercise"
  /\ acts[a].parent = None /\ acts[a].outcome \in Failed =>
       /\ Children(a) # {}
       /\ \A c \in Children(a) \intersect Pending : acts[c].support # "cue"

Feedback(a) == /\ CanDisclose(a)
               /\ exposed' = exposed \union Displayed(acts[a].example, acts)
               /\ UNCHANGED <<runs, retired, acts, events, today, threads>>

NextDay == /\ today < MaxDay
           /\ today' = today + 1
           /\ UNCHANGED <<runs, retired, acts, events, threads, exposed>>

\* resume lists the run's activities, the answered ones too.
Resume(r) ==
  /\ r \in runs
  /\ exposed' = exposed \union
       UNION {Displayed(acts[a].example, acts) : a \in {b \in Of(r) : Shows(acts[b])}}
  /\ UNCHANGED <<runs, retired, acts, events, today, threads>>

\* A release with a newer policy version: older runs stay readable and answerable.
RetirePolicy == /\ retired' = runs
                /\ UNCHANGED <<runs, acts, events, today, threads, exposed>>

Next == \/ \E r \in Run : CreateRun(r) \/ Resume(r)
        \/ \E t \in Thread : \/ \E o \in Request : LockProfile(t, o)
                             \/ Decide(t) \/ Commit(t) \/ GiveUp(t)
        \/ \E a \in Act : Feedback(a)
        \/ NextDay \/ RetirePolicy

Spec == Init /\ [][Next]_vars

-----------------------------------------------------------------------------
(* Properties.                                                             *)

\* product-state.md: the ceilings hold for the allocation window over all runs,
\* whichever tabs ask for activities and repairs at the same time.
WithinLimits ==
  \A day \in 0..MaxDay :
    LET rows == {a \in Issued : acts[a].day = day}
        roots == rows \intersect Roots
    IN /\ Cardinality(rows) <= TotalLimit
       /\ Cardinality(roots) <= RootLimit
       /\ Cardinality(rows \ roots) <= RepairLimit
       /\ Cardinality({a \in roots : acts[a].new}) <= NewLimit

\* product-state.md: each practice example is issued at most once per run and
\* allocation window, its linked repair excepted.
OncePerRunAndWindow ==
  \A a, b \in Roots :
    /\ acts[a].example = acts[b].example
    /\ acts[a].run = acts[b].run \/ acts[a].day = acts[b].day
    => a = b

\* A run never has two activities waiting for an answer, and the activities of a
\* run are numbered 1, 2, ... in the order they were issued, without a gap.
OneAtATime ==
  \A r \in Run : /\ Cardinality(Of(r) \intersect Pending) <= 1
                 /\ {acts[a].seq : a \in Of(r)} = 1..Cardinality(Of(r))

\* Every repair belongs to the failed first answer of a root of the same run and
\* example, follows it, and is the only one.
OneRepair ==
  \A c \in Issued \ Roots :
    LET p == acts[c].parent IN
      /\ p \in Roots /\ acts[p].outcome \in Failed
      /\ acts[p].run = acts[c].run /\ acts[p].example = acts[c].example
      /\ acts[p].seq < acts[c].seq
      /\ Children(p) = {c}

\* product-state.md: feedback with an answer is withheld before the repair is
\* reserved and while a cue child is pending.  This prevents unrecorded
\* disclosure: an answer shown while an exercise on it waits is on its record.
RecordedDisclosure ==
  \A a \in exposed \intersect Pending :
    acts[a].kind = "exposure" \/ acts[a].support \in Showing

\* What the code ensures of that: it holds of an example only one run has used.
RecordedWithinRun ==
  \A a \in exposed \intersect Pending :
    \/ acts[a].kind = "exposure" \/ acts[a].support \in Showing
    \/ \E b \in Issued : /\ acts[b].example = acts[a].example
                        /\ acts[b].run # acts[a].run
=============================================================================
