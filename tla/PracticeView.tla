---------------------------- MODULE PracticeView ----------------------------
(***************************************************************************)
(* The practice page of one browser tab (frontend/src/views/               *)
(* PracticeView.vue, with api/client.ts) over a network that loses and     *)
(* delays: each failure is uncertain, since the server may take the        *)
(* request, once, at any later time.  What the page must not forget while  *)
(* an answer or a repair is uncertain is in sessionStorage, which outlives *)
(* a refresh of the tab and every instance of the component.               *)
(*                                                                         *)
(* The server takes a request in one step: LocalPractice and LearnerPath   *)
(* have its transactions and choices, which are left open here.  A repair's *)
(* support goes with its id.  Exposures, which are submitted alike with    *)
(* nothing typed, the availability check, feedback and the refreshed       *)
(* workload, which change no token, are left out.                          *)
(***************************************************************************)
EXTENDS Integers, Sequences, FiniteSets

CONSTANTS Answer,              \* what a learner may type
          Wrong,               \* the answers that are not accepted
          None,                \* null or undefined
          MaxUuid, MaxCalls    \* bounds: ids drawn, and requests sent

ASSUME AnswerAssumption == Wrong \subseteq Answer /\ None \notin Answer

\* Pending, PendingRepair and the activities of a run, with numbers for ids.
Token == [act : Nat, key : Nat, answer : Answer]
RepairToken == [id : Nat, parent : Nat]
Activity == [id : Nat, parent : Nat \union {None}, answer : Answer \union {None}]
RunId == Nat \union {None}
SavedTokens == [run : RunId, pending : Token \union {None}, repair : RepairToken \union {None}]
Request == [id : Nat, name : {"load", "next", "rejected"}, run : RunId]
           \union [id : Nat, name : {"submit"}, token : Token]
           \union [id : Nat, name : {"repair"}, token : RepairToken]
Page == [mounted : BOOLEAN, run : RunId, loaded : BOOLEAN,
         activity : Activity \union {None}, pending : Token \union {None},
         repair : RepairToken \union {None}, call : Request \union {None},
         stopped : BOOLEAN, error : BOOLEAN]

ASSUME NoneAssumption ==
  None \notin Nat \union Token \union RepairToken \union Activity \union SavedTokens
             \union Request \union Page

VARIABLES
  rows,     \* the learner's activities on the server, in the order of issue
  net,      \* requests that the server may still take
  replies,  \* its replies to calls that are waited for, by the call's id
  storage,  \* the learner's key in sessionStorage: Saved
  view,     \* the mounted instance of the component, or the last one
  gone,     \* calls of unmounted instances whose reply can still write storage
  uuid,     \* ids drawn, by crypto.randomUUID or by the server
  calls,    \* bound: requests sent
  late,     \* history: an unmounted instance has written over another run or answer
  elsewhere \* history: the activities that another tab has answered

vars == <<rows, net, replies, storage, view, gone, uuid, calls, late, elsewhere>>

Saved(run, pending, repair) == [run |-> run, pending |-> pending, repair |-> repair]

\* A component as its setup leaves it.
Blank == [mounted |-> TRUE, run |-> None, loaded |-> FALSE, activity |-> None,
          pending |-> None, repair |-> None, call |-> None, stopped |-> FALSE,
          error |-> FALSE]

Init == /\ rows = <<>> /\ net = {} /\ replies = <<>> /\ storage = None
        /\ view = [Blank EXCEPT !.mounted = FALSE]
        /\ gone = {} /\ uuid = 0 /\ calls = 0 /\ late = FALSE
        /\ elsewhere = {}

-----------------------------------------------------------------------------
(* Activities as the server returns them.                                  *)

Open(row) == row.answer = None
OfRun(r) == {i \in DOMAIN rows : rows[i].run = r}
OpenIn(r) == {i \in OfRun(r) : Open(rows[i])}
Row(act) == CHOOSE i \in DOMAIN rows : rows[i].id = act
Public(i) == [id |-> rows[i].id, parent |-> rows[i].parent, answer |-> rows[i].answer]

\* adopt: the pending activity of the run, or its last one.
Current(r) ==
  IF OfRun(r) = {} THEN None
  ELSE Public(IF OpenIn(r) # {} THEN CHOOSE i \in OpenIn(r) : \A j \in OpenIn(r) : i <= j
              ELSE CHOOSE i \in OfRun(r) : \A j \in OfRun(r) : j <= i)

-----------------------------------------------------------------------------
(* Calls.                                                                  *)

Awaited(id) == id \in {g.id : g \in gone} \/ (view.call # None /\ view.call.id = id)
Arrived(name) == /\ view.call # None /\ view.call.name = name
                 /\ view.call.id \in DOMAIN replies
Reply == replies[view.call.id]
Without(ids) == [id \in DOMAIN replies \ ids |-> replies[id]]
Idle == view.mounted /\ view.call = None

\* fetch: the instance v goes on when the reply is there, or without one.
Call(v, request) ==
  LET call == [request EXCEPT !.id = calls + 1]
  IN /\ calls < MaxCalls
     /\ calls' = calls + 1
     /\ net' = net \union {call}
     /\ view' = [v EXCEPT !.call = call, !.error = FALSE]

Get(name, r) == [id |-> 0, name |-> name, run |-> r]
Post(token) == [id |-> 0, name |-> "submit", token |-> token]
PostRepair(token) == [id |-> 0, name |-> "repair", token |-> token]

Persist(v) == storage' = Saved(v.run, v.pending, v.repair)

\* The call has ended, for the learner in v.
Returned(v) == /\ view' = [v EXCEPT !.call = None]
               /\ replies' = Without({view.call.id})

-----------------------------------------------------------------------------
(* load, and adopt of what it returns.                                     *)

Load(v) ==
  LET saved == IF storage = None THEN Saved(uuid + 1, None, None) ELSE storage
  IN /\ uuid' = uuid + (IF storage = None THEN 1 ELSE 0)
     /\ uuid' <= MaxUuid
     /\ storage' = saved
     /\ Call([v EXCEPT !.run = saved.run, !.pending = saved.pending, !.repair = saved.repair],
             Get("load", saved.run))

Answered(activity) == activity # None /\ ~Open(activity)
IdOf(value) == IF value = None THEN None ELSE value.id

\* Mistaken: a retained answer is forgotten when its activity still waits for one.
AdoptedAnew(v, activity) ==
  [v EXCEPT !.activity = activity, !.loaded = TRUE, !.pending = None,
            !.repair = IF IdOf(activity) = IdOf(@) THEN None ELSE @]

Adopted(v, activity) ==
  LET foreign == v.pending # None /\ v.pending.act # IdOf(activity)
  IN [v EXCEPT !.activity = activity, !.loaded = TRUE,
        !.pending = IF Answered(activity) \/ foreign THEN None ELSE @,
        !.repair = IF IdOf(activity) = IdOf(@) THEN None ELSE @]

AdoptPersists(v, activity) ==
  Answered(activity) \/ Adopted(v, activity).pending # v.pending
                     \/ IdOf(activity) = IdOf(v.repair)

Adopt(v, activity) ==
  /\ Returned(Adopted(v, activity))
  /\ IF AdoptPersists(v, activity) THEN Persist(Adopted(v, activity)) ELSE UNCHANGED storage

Mount == /\ ~view.mounted
         /\ Load(Blank)
         /\ UNCHANGED <<rows, replies, gone, late, elsewhere>>

\* The tab is refreshed: no instance and no call is left to go on.
Refresh == /\ Load(Blank)
           /\ gone' = {} /\ replies' = <<>>
           /\ UNCHANGED <<rows, late, elsewhere>>

CanReload == Idle /\ view.error /\ (view.pending = None \/ view.activity = None)

Reload == /\ CanReload
          /\ Load(view)
          /\ UNCHANGED <<rows, replies, gone, late, elsewhere>>

Loaded == /\ Arrived("load")
          /\ Adopt(view, Reply.activity)
          /\ UNCHANGED <<rows, net, gone, uuid, calls, late, elsewhere>>

\* onUnmounted: only a repair goes on writing after that.
Leave ==
  /\ view.mounted
  /\ view' = [Blank EXCEPT !.mounted = FALSE]
  /\ IF view.call # None /\ view.call.name \in {"repair", "rejected"}
       THEN /\ gone' = gone \union {[id |-> view.call.id, run |-> view.run,
                                   refused |-> view.call.name = "rejected"]}
            /\ UNCHANGED replies
       ELSE /\ replies' = IF view.call = None THEN replies ELSE Without({view.call.id})
            /\ UNCHANGED gone
  /\ UNCHANGED <<rows, net, storage, uuid, calls, late, elsewhere>>

-----------------------------------------------------------------------------
(* next and newRun.                                                        *)

CanGoOn ==
  /\ Idle /\ view.run # None /\ view.repair = None
  /\ \/ Answered(view.activity)
     \/ view.loaded /\ view.activity = None /\ ~view.stopped /\ ~view.error

NextActivity ==
  /\ CanGoOn
  /\ Call(view, Get("next", view.run))
  /\ UNCHANGED <<rows, replies, storage, gone, uuid, late, elsewhere>>

NextArrives == /\ Arrived("next")
               /\ Returned([view EXCEPT !.activity = Reply.activity,
                                        !.stopped = (Reply.activity = None)])
               /\ UNCHANGED <<rows, net, storage, gone, uuid, calls, late, elsewhere>>

CanStartAnew == /\ Idle /\ view.stopped /\ view.pending = None /\ view.repair = None
                /\ view.activity = None \/ Answered(view.activity)

NewRun == /\ CanStartAnew
          /\ uuid < MaxUuid /\ uuid' = uuid + 1
          /\ storage' = Saved(uuid + 1, None, None)
          /\ Call([Blank EXCEPT !.run = uuid + 1], Get("load", uuid + 1))
          /\ UNCHANGED <<rows, replies, gone, late, elsewhere>>

-----------------------------------------------------------------------------
(* submit: the answer is retained, with its key, before it is sent.        *)

\* Mistaken: a retry sends what is typed now under the old key.
RetainedAsTyped(answer) ==
  [act |-> view.activity.id, answer |-> answer,
   key |-> IF view.pending # None THEN view.pending.key ELSE uuid + 1]

Retained(answer) ==
  IF view.pending # None THEN view.pending
  ELSE [act |-> view.activity.id, key |-> uuid + 1, answer |-> answer]

CanSubmit == Idle /\ view.activity # None /\ Open(view.activity)

\* Mistaken: the answer is retained by the page alone while it is sent.
SubmitUnsaved(answer) ==
  /\ CanSubmit
  /\ uuid' = uuid + (IF view.pending = None THEN 1 ELSE 0)
  /\ uuid' <= MaxUuid
  /\ LET token == Retained(answer)
     IN Call([view EXCEPT !.pending = token], Post(token))
  /\ UNCHANGED <<rows, replies, storage, gone, late, elsewhere>>

Submit(answer) ==
  /\ CanSubmit
  /\ uuid' = uuid + (IF view.pending = None THEN 1 ELSE 0)
  /\ uuid' <= MaxUuid
  /\ LET token == Retained(answer)
         v == [view EXCEPT !.pending = token]
     IN Persist(v) /\ Call(v, Post(token))
  /\ UNCHANGED <<rows, replies, gone, late, elsewhere>>

Failed(v) == Returned([v EXCEPT !.error = TRUE])

\* Mistaken: whatever was refused has been saved before.
SubmittedAnyway ==
  /\ Arrived("submit")
  /\ LET v == [view EXCEPT !.activity.answer = view.pending.answer, !.pending = None]
     IN Returned(v) /\ Persist(v)
  /\ UNCHANGED <<rows, net, gone, uuid, calls, late, elsewhere>>

Submitted ==
  /\ Arrived("submit")
  /\ IF Reply.ok
       THEN LET v == [view EXCEPT !.activity.answer = Reply.answer, !.pending = None]
            IN Returned(v) /\ Persist(v)
       ELSE Failed(view) /\ UNCHANGED storage
  /\ UNCHANGED <<rows, net, gone, uuid, calls, late, elsewhere>>

-----------------------------------------------------------------------------
(* repair: a refusal is definite, and forgets the repair; the instance     *)
(* does so even when it is unmounted.                                      *)

CanRepair ==
  /\ Idle /\ Answered(view.activity)
  /\ view.repair = None => view.activity.parent = None /\ view.activity.answer \in Wrong

Repair ==
  /\ CanRepair
  /\ uuid' = uuid + (IF view.repair = None THEN 1 ELSE 0)
  /\ uuid' <= MaxUuid
  /\ LET token == IF view.repair # None THEN view.repair
                  ELSE [id |-> uuid + 1, parent |-> view.activity.id]
         v == [view EXCEPT !.repair = token]
     IN Persist(v) /\ Call(v, PostRepair(token))
  /\ UNCHANGED <<rows, replies, gone, late, elsewhere>>

Repaired ==
  /\ Arrived("repair") /\ Reply.ok
  /\ LET v == [view EXCEPT !.activity = Reply.activity, !.repair = None]
     IN Returned(v) /\ Persist(v)
  /\ UNCHANGED <<rows, net, gone, uuid, calls, late, elsewhere>>

RepairRejected ==
  /\ Arrived("repair") /\ ~Reply.ok
  /\ LET v == [view EXCEPT !.repair = None]
     IN Persist(v) /\ Call(v, Get("rejected", view.run))
  /\ replies' = Without({view.call.id})
  /\ UNCHANGED <<rows, gone, uuid, late, elsewhere>>

Reconciled == /\ Arrived("rejected")
              /\ Adopt([view EXCEPT !.error = TRUE], Reply.activity)
              /\ UNCHANGED <<rows, net, gone, uuid, calls, late, elsewhere>>

\* An unmounted instance learns that its repair was refused, and writes once more
\* when it has read the run again; nothing else it is told makes it write.
WritesLate(g) ==
  /\ g.refused \/ (g.id \in DOMAIN replies /\ ~replies[g.id].ok)
  /\ storage' = Saved(g.run, None, None)
  /\ late' = (late \/ storage.run # g.run \/ storage.pending # None)
  /\ gone' = (gone \ {g}) \union (IF g.refused THEN {} ELSE {[g EXCEPT !.refused = TRUE]})
  /\ replies' = Without({g.id})
  /\ UNCHANGED <<rows, net, view, uuid, calls, elsewhere>>

EndsLate(g) == /\ gone' = gone \ {g}
               /\ replies' = Without({g.id})
               /\ UNCHANGED <<rows, net, storage, view, uuid, calls, late, elsewhere>>

-----------------------------------------------------------------------------
(* Failures: the reply is lost, or the request, or the server fails.       *)

Fail == /\ view.call # None
        /\ Failed(view)
        /\ UNCHANGED <<rows, net, storage, gone, uuid, calls, late, elsewhere>>

-----------------------------------------------------------------------------
(* The server takes a request.                                             *)

Answers(q, reply) ==
  /\ net' = net \ {q}
  /\ replies' = IF Awaited(q.id)
                  THEN [id \in DOMAIN replies \union {q.id} |->
                          IF id = q.id THEN reply ELSE replies[id]]
                  ELSE replies
  /\ UNCHANGED <<storage, view, gone, calls, late, elsewhere>>

Ok(activity) == [ok |-> TRUE, activity |-> activity]
Conflict == [ok |-> FALSE]

ServeRun(q) == /\ q.name \in {"load", "rejected"}
               /\ Answers(q, Ok(Current(q.run)))
               /\ UNCHANGED <<rows, uuid>>

NewRow(id, r, parent) ==
  [id |-> id, run |-> r, parent |-> parent, key |-> None, answer |-> None]

\* next_activity: the pending one, a new one, or a reason why there is none.
ServeNext(q) ==
  /\ q.name = "next"
  /\ IF OpenIn(q.run) # {}
       THEN Answers(q, Ok(Current(q.run))) /\ UNCHANGED <<rows, uuid>>
       ELSE \/ Answers(q, Ok(None)) /\ UNCHANGED <<rows, uuid>>
            \/ /\ uuid < MaxUuid /\ uuid' = uuid + 1
               /\ rows' = Append(rows, NewRow(uuid', q.run, None))
               /\ Answers(q, Ok([id |-> uuid', parent |-> None, answer |-> None]))

\* submit: a key answers for its own request only, and the first answer stays.
ServeSubmit(q) ==
  LET i == Row(q.token.act)
      same == rows[i].key = q.token.key /\ rows[i].answer = q.token.answer
      taken == \E j \in DOMAIN rows : rows[j].key = q.token.key
  IN /\ q.name = "submit"
     /\ IF Open(rows[i]) /\ ~taken
          THEN /\ rows' = [rows EXCEPT ![i].key = q.token.key, ![i].answer = q.token.answer]
               /\ Answers(q, [ok |-> TRUE, answer |-> q.token.answer])
          ELSE /\ Answers(q, IF same THEN [ok |-> TRUE, answer |-> rows[i].answer] ELSE Conflict)
               /\ UNCHANGED rows
     /\ UNCHANGED uuid

\* repair: the child that was issued under this id, a new one, or a refusal.
ServeRepair(q) ==
  LET p == Row(q.token.parent)
      children == {i \in DOMAIN rows : rows[i].parent = q.token.parent}
      known == {i \in children : rows[i].id = q.token.id}
  IN /\ q.name = "repair"
     /\ \/ /\ known # {}
           /\ \E i \in known : Answers(q, Ok(Public(i)))
           /\ UNCHANGED rows
        \/ known = {} /\ Answers(q, Conflict) /\ UNCHANGED rows
        \/ /\ children = {} /\ OpenIn(rows[p].run) = {}
           /\ rows' = Append(rows, NewRow(q.token.id, rows[p].run, q.token.parent))
           /\ Answers(q, Ok([id |-> q.token.id, parent |-> q.token.parent, answer |-> None]))
     /\ UNCHANGED uuid

Serve(q) == ServeRun(q) \/ ServeNext(q) \/ ServeSubmit(q) \/ ServeRepair(q)

\* A duplicated tab has the same run: it answers what waits, under its own key.
AnswerElsewhere(i, answer) ==
  /\ Open(rows[i])
  /\ uuid < MaxUuid /\ uuid' = uuid + 1
  /\ rows' = [rows EXCEPT ![i].key = uuid', ![i].answer = answer]
  /\ elsewhere' = elsewhere \union {rows[i].id}
  /\ UNCHANGED <<net, replies, storage, view, gone, calls, late>>

-----------------------------------------------------------------------------
Next == \/ Mount \/ Refresh \/ Reload \/ Loaded \/ Leave
        \/ NextActivity \/ NextArrives \/ NewRun
        \/ \E answer \in Answer : Submit(answer)
        \/ Submitted \/ Repair \/ Repaired \/ RepairRejected \/ Reconciled
        \/ \E g \in gone : WritesLate(g) \/ EndsLate(g)
        \/ Fail
        \/ \E q \in net : Serve(q)
        \/ \E i \in DOMAIN rows, answer \in Answer : AnswerElsewhere(i, answer)

Spec == Init /\ [][Next]_vars

-----------------------------------------------------------------------------
(* Properties.                                                             *)

Submissions == {q.token : q \in {n \in net : n.name = "submit"}}
Kept(saved) == IF saved = None \/ saved.pending = None THEN {} ELSE {saved.pending}
Recorded == {[act |-> rows[i].id, key |-> rows[i].key, answer |-> rows[i].answer] :
               i \in {j \in DOMAIN rows : ~Open(rows[j])}}

\* submit and docs/product-state.md: network retries send that same answer and
\* token.  Whatever is retained, on its way or stored under a key is one answer to
\* one activity, whichever instance sent it and however often.
KeyKeepsAnswer ==
  \A s, t \in Submissions \union Kept(storage) \union Kept(view) \union Recorded :
    s.key = t.key => s = t

\* The result the page shows for an activity is the answer the server keeps for it,
\* although the learner's own may have been refused, and the page shows only
\* a retained answer that belongs to the activity above it.
ShownIsStored ==
  /\ Answered(view.activity) => rows[Row(view.activity.id)].answer = view.activity.answer
  /\ view.pending # None /\ view.activity # None => view.pending.act = view.activity.id

\* The server takes what a submission of the page would send, or has taken it before.
Wanted ==
  LET row == rows[Row(view.activity.id)]
  IN \/ Open(row)
     \/ /\ view.pending # None
        /\ row.key = view.pending.key /\ row.answer = view.pending.answer

\* docs/product-state.md: network retries send that same answer and token.  A page that
\* waits for the learner has a control that leads on: whatever was lost or late, an
\* activity that is still to be answered is one whose answer the server would take,
\* and a resumption that failed over a retained answer, a repair that was refused
\* and no activity left can be got over.  The only dead end is an activity that
\* another tab has answered: its answer is refused for good, and nothing but
\* "leave" or a refresh reads the run again.  (After a late write the page may be
\* refused for an answer of its own, too.)
NoOwnDeadEnd ==
  ~late /\ Idle => \/ CanSubmit /\ (Wanted \/ view.activity.id \in elsewhere)
                   \/ CanRepair \/ CanGoOn \/ CanStartAnew \/ CanReload

\* docs/product-state.md: an uncertain submission's token and first answer stay
\* across a refresh.  As long as the server may still take a submission as the first,
\* sessionStorage has its token, unless an instance that learnt after it was
\* unmounted that its repair had been refused has written its own run over another.
UncertainIsRetained ==
  ~late => \A s \in Submissions : Open(rows[Row(s.act)]) => s \in Kept(storage)
=============================================================================
