------------------------- MODULE PracticeViewProofs -------------------------
(***************************************************************************)
(* Proofs about PracticeView, for every number of requests, instances and  *)
(* refreshes and any answers.                                              *)
(***************************************************************************)
EXTENDS PracticeView, SequenceTheorems, WellFoundedInduction, TLAPS

RowType == [id : Nat, run : RunId, parent : Nat \union {None}, key : Nat \union {None},
            answer : Answer \union {None}]
GoneType == [id : Nat, run : RunId, refused : BOOLEAN]

Types == /\ rows \in Seq(RowType)
         /\ net \subseteq Request
         /\ storage \in SavedTokens \union {None}
         /\ view \in Page
         /\ gone \subseteq GoneType
         /\ uuid \in Nat /\ calls \in Nat
         /\ late \in BOOLEAN

-----------------------------------------------------------------------------
(* The server's rows.                                                      *)

Has(a) == \E i \in DOMAIN rows : rows[i].id = a
At(a) == rows[Row(a)]

RowsFit ==
  /\ \A i, j \in DOMAIN rows : rows[i].id = rows[j].id => i = j
  /\ \A i \in DOMAIN rows : /\ rows[i].id <= uuid
                            /\ ~Open(rows[i]) => rows[i].key \in 1..uuid
  /\ \A i, j \in DOMAIN rows :
       Open(rows[i]) /\ Open(rows[j]) /\ rows[i].run = rows[j].run => i = j

\* A repair is in the run of its parent.
ChildrenFit == \A i \in DOMAIN rows :
  rows[i].parent # None => Has(rows[i].parent) /\ rows[i].run = At(rows[i].parent).run

-----------------------------------------------------------------------------
(* Tokens: what is retained or on its way.                                 *)

Tokens == Submissions \union Kept(storage) \union Kept(view)
TokenFits(s) == s \in Token /\ Has(s.act) /\ s.key \in 1..uuid
TokensFit == \A s \in Tokens : TokenFits(s)

OwnRepair(saved) == IF saved = None \/ saved.repair = None THEN {} ELSE {saved.repair}
Repairs == {q.token : q \in {n \in net : n.name = "repair"}}
           \union OwnRepair(storage) \union OwnRepair(view)

\* A repair's id is the id of its parent's repair or of no row.
RepairFits(s) ==
  /\ s \in RepairToken /\ s.id <= uuid /\ Has(s.parent)
  /\ \A i \in DOMAIN rows : rows[i].id = s.id => rows[i].parent = s.parent
RepairsFit == /\ \A s \in Repairs : RepairFits(s)
              /\ \A s, t \in Repairs : s.id = t.id => s = t

\* What is known of an activity: an answer that is shown is the stored one.
ActivityFits(a) ==
  /\ a \in Activity /\ Has(a.id)
  /\ a.answer # None => At(a.id).answer = a.answer

-----------------------------------------------------------------------------
(* Calls and replies.                                                      *)

RunCall(c) == c.name \in {"load", "next", "rejected"}

CallsFit ==
  /\ \A q \in net : q.id \in 1..calls
  /\ DOMAIN replies \subseteq 1..calls
  /\ view.call # None =>
       /\ view.call.id \in 1..calls
       /\ \A q \in net : q.id = view.call.id => q = view.call

\* The reply to the call the view waits for.  A run that was read has shown the
\* activity of a retained answer, if it still waits for one.
ReplyFits(c, reply) ==
  /\ RunCall(c) /\ reply.activity # None =>
       /\ ActivityFits(reply.activity)
       /\ At(reply.activity.id).run = c.run
  /\ c.name \in {"load", "rejected"} =>
       /\ view.repair # None => reply.activity # None
       /\ view.pending # None /\ ~late /\ Open(At(view.pending.act)) =>
            reply.activity # None /\ reply.activity.id = view.pending.act
  /\ c.name = "submit" /\ reply.ok =>
       reply.answer \in Answer /\ At(c.token.act).answer = reply.answer
  /\ c.name = "repair" /\ reply.ok =>
       /\ ActivityFits(reply.activity)
       /\ At(reply.activity.id).run = At(c.token.parent).run

RepliesFit == view.call # None /\ view.call.id \in DOMAIN replies =>
                ReplyFits(view.call, replies[view.call.id])

-----------------------------------------------------------------------------
(* The page and its storage.                                               *)

\* What the page waits for.
WaitsWell ==
  view.call # None =>
    LET c == view.call IN
      /\ view.mounted
      /\ RunCall(c) => c.run = view.run
      /\ c.name # "load" => view.loaded
      /\ c.name \in {"next", "rejected"} => view.pending = None /\ view.repair = None
      /\ c.name = "submit" => view.activity # None /\ view.pending = c.token
      /\ c.name = "repair" => view.repair = c.token
      /\ c.name \in {"repair", "rejected"} => Answered(view.activity)

ShowsWell ==
  /\ ~view.mounted => view = [Blank EXCEPT !.mounted = FALSE]
  /\ view.mounted => view.run # None
  /\ view.mounted /\ view.call = None /\ ~view.error => view.loaded
  /\ view.activity # None =>
       /\ view.loaded /\ ActivityFits(view.activity)
       /\ view.pending # None => /\ view.pending.act = view.activity.id
                                 /\ view.activity.answer = None
  /\ view.loaded /\ view.activity = None => view.pending = None /\ view.repair = None

\* Runs that have activities: that of an activity, of a repair, and that of
\* an instance which may still write its own.
RunsFit ==
  /\ view.activity # None \/ view.repair # None => OfRun(view.run) # {}
  /\ storage # None /\ storage.repair # None => OfRun(storage.run) # {}
  /\ view.mounted /\ storage.run # view.run => OfRun(storage.run) # {}
  /\ \A g \in gone : g.run # None /\ OfRun(g.run) # {}

StoresWell ==
  /\ storage # None => storage.run # None
  /\ view.mounted =>
       /\ storage # None
       /\ storage.pending \in {None, view.pending} /\ storage.repair \in {None, view.repair}
  /\ ~late =>
       /\ view.mounted => storage.run = view.run /\ storage.pending = view.pending
       /\ view.activity # None => At(view.activity.id).run = view.run
       /\ view.repair # None => At(view.repair.parent).run = view.run
       /\ storage # None /\ storage.pending # None => At(storage.pending.act).run = storage.run
       /\ storage # None /\ storage.repair # None => At(storage.repair.parent).run = storage.run

IInv == /\ Types /\ RowsFit /\ ChildrenFit /\ TokensFit /\ RepairsFit /\ CallsFit
        /\ RepliesFit /\ WaitsWell /\ ShowsWell /\ RunsFit /\ StoresWell
        /\ KeyKeepsAnswer /\ UncertainIsRetained

-----------------------------------------------------------------------------
(* Rows are added and answered, and otherwise stay.                        *)

Grown ==
  /\ rows' \in Seq(RowType) /\ uuid' \in Nat /\ uuid <= uuid' /\ RowsFit'
  /\ \A a : Has(a) => /\ Has(a)' /\ At(a)'.run = At(a).run
                      /\ Open(At(a))' => Open(At(a))
                      /\ ~Open(At(a)) => At(a)'.answer = At(a).answer
  /\ \A s : TokenFits(s) => TokenFits(s)'
  /\ \A a : ActivityFits(a) => ActivityFits(a)'
  /\ \A r : OfRun(r) # {} => OfRun(r)' # {}

LEMMA RowTyped ==
  ASSUME Types, NEW i \in DOMAIN rows
  PROVE  /\ rows[i] \in RowType
         /\ rows[i].id \in Nat /\ rows[i].run \in RunId /\ rows[i].key \in Nat \union {None}
         /\ rows[i].parent \in Nat \union {None} /\ rows[i].answer \in Answer \union {None}
<1>1. rows \in Seq(RowType)
  BY DEF Types
<1>2. rows[i] \in RowType
  BY <1>1
<1> QED
  BY <1>2 DEF RowType

LEMMA RowIs ==
  ASSUME RowsFit, NEW i \in DOMAIN rows
  PROVE  Row(rows[i].id) = i /\ Has(rows[i].id) /\ At(rows[i].id) = rows[i]
BY DEF RowsFit, Row, Has, At

LEMMA HasRow ==
  ASSUME RowsFit, NEW a, Has(a)
  PROVE  Row(a) \in DOMAIN rows /\ rows[Row(a)].id = a /\ At(a) = rows[Row(a)]
BY DEF Row, Has, At

LEMMA Growth ==
  ASSUME Types, RowsFit, rows' \in Seq(RowType), uuid' \in Nat, uuid <= uuid', RowsFit',
         \A i \in DOMAIN rows :
           /\ i \in DOMAIN rows'
           /\ rows'[i].id = rows[i].id /\ rows'[i].run = rows[i].run
           /\ ~Open(rows[i]) => rows'[i].answer = rows[i].answer
  PROVE  Grown
<1>1. ASSUME NEW a, Has(a)
      PROVE  /\ Has(a)' /\ At(a)'.run = At(a).run
             /\ ~Open(At(a)) => At(a)'.answer = At(a).answer
  <2>1. PICK i \in DOMAIN rows : rows[i].id = a
    BY <1>1 DEF Has
  <2>2. At(a) = rows[i]
    BY <2>1, RowIs
  <2>3. i \in DOMAIN rows' /\ rows'[i].id = a
    BY <2>1
  <2>4. Has(a)' /\ Row(a)' = i
    BY <2>3 DEF Has, Row, RowsFit
  <2>5. At(a)' = rows'[i]
    BY <2>4 DEF At
  <2> QED
    BY <2>1, <2>2, <2>4, <2>5
<1>2. ASSUME NEW a, Has(a), Open(At(a))' PROVE Open(At(a))
  BY <1>1, <1>2 DEF Open
<1>3. ASSUME NEW s, TokenFits(s) PROVE TokenFits(s)'
  BY <1>1, <1>3 DEF TokenFits, Types
<1>4. ASSUME NEW a, ActivityFits(a) PROVE ActivityFits(a)'
  BY <1>1, <1>4 DEF ActivityFits, Open
<1>5. ASSUME NEW r, OfRun(r) # {} PROVE OfRun(r)' # {}
  BY <1>5 DEF OfRun
<1> QED
  BY <1>1, <1>2, <1>3, <1>4, <1>5 DEF Grown

\* A step of the page.
LEMMA Quiet ==
  ASSUME Types, RowsFit, UNCHANGED rows, uuid' \in Nat, uuid <= uuid'
  PROVE  /\ Grown
         /\ \A s : RepairFits(s) => RepairFits(s)'
         /\ Recorded' = Recorded
         /\ \A a : At(a)' = At(a) /\ (Has(a)' <=> Has(a))
         /\ ChildrenFit => ChildrenFit'
<1>6. rows \in Seq(RowType) /\ uuid \in Nat
  BY DEF Types
<1>7. \A i \in DOMAIN rows : rows[i].id \in Nat
  BY RowTyped
<1>1. RowsFit'
  BY <1>6, <1>7 DEF RowsFit, Open
<1>2. Grown
  BY <1>1, <1>6, Growth
<1>3. ASSUME NEW s, RepairFits(s) PROVE RepairFits(s)'
  BY <1>3, <1>6 DEF RepairFits, RepairToken, Has
<1>4. Recorded' = Recorded
  BY DEF Recorded, Open
<1>5. \A a : At(a)' = At(a) /\ (Has(a)' <=> Has(a))
  BY DEF At, Row, Has
<1>8. ChildrenFit => ChildrenFit'
  BY <1>5 DEF ChildrenFit
<1> QED
  BY <1>2, <1>3, <1>4, <1>5, <1>8

-----------------------------------------------------------------------------
(* Tokens and repairs of a step that draws one id at most.                 *)

LEMMA KeysApart ==
  ASSUME Types, RowsFit, TokensFit, KeyKeepsAnswer, NEW x, x.key = uuid + 1,
         (Tokens \union Recorded)' \subseteq Tokens \union Recorded \union {x}
  PROVE  KeyKeepsAnswer'
<1>1. \A s \in Tokens \union Recorded : s.key # uuid + 1
  <2>1. ASSUME NEW s \in Tokens PROVE s.key # uuid + 1
    BY DEF TokensFit, TokenFits, Types
  <2>2. ASSUME NEW s \in Recorded PROVE s.key # uuid + 1
    BY DEF Recorded, RowsFit, Types
  <2> QED
    BY <2>1, <2>2
<1>2. KeyKeepsAnswer <=> \A s, t \in Tokens \union Recorded : s.key = t.key => s = t
  BY DEF KeyKeepsAnswer, Tokens
<1>3. KeyKeepsAnswer' <=> \A s, t \in (Tokens \union Recorded)' : s.key = t.key => s = t
  BY DEF KeyKeepsAnswer, Tokens
<1> QED
  BY <1>1, <1>2, <1>3

LEMMA TokensKept ==
  ASSUME Types, RowsFit, TokensFit, KeyKeepsAnswer, Grown,
         Tokens' \subseteq Tokens, Recorded' \subseteq Tokens \union Recorded
  PROVE  TokensFit' /\ KeyKeepsAnswer'
<1>1. TokensFit'
  BY DEF TokensFit, Grown
<1>2. (Tokens \union Recorded)' \subseteq Tokens \union Recorded \union {[key |-> uuid + 1]}
  OBVIOUS
<1>3. [key |-> uuid + 1].key = uuid + 1
  OBVIOUS
<1> QED
  BY <1>1, <1>2, <1>3, KeysApart

LEMMA RepairsKept ==
  ASSUME RepairsFit, \A s : RepairFits(s) => RepairFits(s)', Repairs' \subseteq Repairs
  PROVE  RepairsFit'
BY DEF RepairsFit

-----------------------------------------------------------------------------
(* A call is sent.                                                         *)

LEMMA CallEffect ==
  ASSUME Types, CallsFit, NEW v \in Page, NEW c, NEW q \in Request,
         q = [c EXCEPT !.id = calls + 1], q.id = calls + 1, Call(v, c),
         DOMAIN replies' \subseteq 1..calls
  PROVE  /\ net' = net \union {q} /\ net' \subseteq Request /\ calls' = calls + 1 /\ calls' \in Nat
         /\ view' \in Page /\ view'.call = q /\ ~view'.error
         /\ view'.mounted = v.mounted /\ view'.run = v.run /\ view'.loaded = v.loaded
         /\ view'.activity = v.activity /\ view'.pending = v.pending
         /\ view'.repair = v.repair /\ view'.stopped = v.stopped
         /\ CallsFit' /\ RepliesFit'
<1>1. net' = net \union {q} /\ calls' = calls + 1 /\ view' = [v EXCEPT !.call = q, !.error = FALSE]
  BY DEF Call
<1>2. net' \subseteq Request /\ calls' \in Nat /\ calls \in Nat
  BY <1>1 DEF Types
<1>3. /\ view' \in Page /\ view'.call = q /\ ~view'.error
      /\ view'.mounted = v.mounted /\ view'.run = v.run /\ view'.loaded = v.loaded
      /\ view'.activity = v.activity /\ view'.pending = v.pending
      /\ view'.repair = v.repair /\ view'.stopped = v.stopped
  BY <1>1 DEF Page
<1>4. CallsFit'
  <2>1. \A p \in net' : p.id \in 1..(calls + 1) /\ (p.id = calls + 1 => p = q)
    <3>1. \A p \in net : p.id \in 1..calls
      BY DEF CallsFit
    <3>2. q.id \in 1..(calls + 1)
      BY <1>2
    <3>3. ASSUME NEW p \in net PROVE p.id \in 1..(calls + 1) /\ p.id # calls + 1
      BY <1>2, <3>1
    <3> QED
      BY <1>1, <3>2, <3>3
  <2>2. DOMAIN replies' \subseteq 1..(calls + 1)
    BY <1>2
  <2> QED
    BY <1>1, <1>2, <1>3, <2>1, <2>2 DEF CallsFit
<1>5. RepliesFit'
  BY <1>2, <1>3 DEF RepliesFit
<1> QED
  BY <1>1, <1>2, <1>3, <1>4, <1>5

LEMMA GetTyped ==
  ASSUME Types, NEW name \in {"load", "next", "rejected"}, NEW r \in RunId
  PROVE  /\ [Get(name, r) EXCEPT !.id = calls + 1] \in Request
         /\ [Get(name, r) EXCEPT !.id = calls + 1]
              = [id |-> calls + 1, name |-> name, run |-> r]
BY DEF Get, Request, Types

\* No call but a submission adds one.
LEMMA SubmissionsSame ==
  ASSUME NEW q, q.name # "submit", net' = net \union {q}
  PROVE  Submissions' = Submissions
BY DEF Submissions

LEMMA BlankTyped == Blank \in Page
BY DEF Blank, Page, RunId

LEMMA SavedTyped ==
  ASSUME NEW run \in RunId, NEW pending \in Token \union {None},
         NEW repair \in RepairToken \union {None}
  PROVE  /\ Saved(run, pending, repair) \in SavedTokens /\ Saved(run, pending, repair) # None
         /\ Saved(run, pending, repair).run = run
         /\ Saved(run, pending, repair).pending = pending
         /\ Saved(run, pending, repair).repair = repair
<1>1. Saved(run, pending, repair) \in SavedTokens
  BY DEF Saved, SavedTokens
<1> QED
  BY <1>1, NoneAssumption DEF Saved

LEMMA PersistTyped ==
  ASSUME NEW v \in Page, Persist(v)
  PROVE  /\ storage' \in SavedTokens /\ storage' # None
         /\ storage'.run = v.run /\ storage'.pending = v.pending /\ storage'.repair = v.repair
<1>1. v.run \in RunId /\ v.pending \in Token \union {None} /\ v.repair \in RepairToken \union {None}
  BY DEF Page
<1> QED
  BY <1>1, SavedTyped DEF Persist

LEMMA PageStep ==
  ASSUME IInv, UNCHANGED rows, uuid' \in Nat, uuid <= uuid', net' \subseteq Request,
         storage' \in SavedTokens \union {None}, view' \in Page, gone' \subseteq GoneType,
         calls' \in Nat, late' \in BOOLEAN, Tokens' \subseteq Tokens, Repairs' \subseteq Repairs
  PROVE  Types' /\ RowsFit' /\ ChildrenFit' /\ TokensFit' /\ RepairsFit' /\ KeyKeepsAnswer'
<1>1. /\ Grown /\ \A s : RepairFits(s) => RepairFits(s)'
      /\ Recorded' = Recorded /\ ChildrenFit'
  BY Quiet DEF IInv
<1>2. Types' /\ RowsFit'
  BY <1>1 DEF Types, Grown
<1>3. TokensFit' /\ KeyKeepsAnswer'
  BY <1>1, TokensKept DEF IInv
<1>4. RepairsFit'
  BY <1>1, RepairsKept DEF IInv
<1> QED
  BY <1>1, <1>2, <1>3, <1>4

LEMMA LoadInv ==
  ASSUME IInv, NEW v \in {Blank, view}, v = view => CanReload, Load(v),
         UNCHANGED <<rows, late>>, gone' \subseteq gone, DOMAIN replies' \subseteq 1..calls
  PROVE  IInv'
<1> USE DEF IInv
<1>1. PICK saved : saved = IF storage = None THEN Saved(uuid + 1, None, None) ELSE storage
  OBVIOUS
<1>2. /\ saved \in SavedTokens /\ saved # None
      /\ saved.run \in Nat /\ saved.pending \in Token \union {None}
      /\ saved.repair \in RepairToken \union {None}
      /\ storage = None => saved.pending = None /\ saved.repair = None
      /\ storage # None => saved = storage
  <2>1. CASE storage = None
    <3>1. uuid + 1 \in RunId /\ uuid + 1 \in Nat
      BY DEF Types, RunId
    <3> QED
      BY <1>1, <2>1, <3>1, SavedTyped
  <2>2. CASE storage # None
    BY <1>1, <2>2 DEF Types, SavedTokens, StoresWell, RunId
  <2> QED
    BY <2>1, <2>2
<1>3. /\ uuid' \in Nat /\ uuid <= uuid' /\ storage' = saved
      /\ Call([v EXCEPT !.run = saved.run, !.pending = saved.pending, !.repair = saved.repair],
              Get("load", saved.run))
  BY <1>1 DEF Load, Types
<1>4. PICK w : w = [v EXCEPT !.run = saved.run, !.pending = saved.pending, !.repair = saved.repair]
  OBVIOUS
<1>5. v \in Page /\ v.mounted
  <2>1. CASE v = Blank
    BY <2>1, BlankTyped DEF Blank
  <2>2. CASE v = view
    BY <2>2 DEF Types, CanReload, Idle
  <2> QED
    BY <2>1, <2>2
<1>6. /\ w \in Page /\ w.mounted /\ w.run = saved.run /\ w.pending = saved.pending
      /\ w.repair = saved.repair /\ w.loaded = v.loaded /\ w.activity = v.activity
  BY <1>2, <1>4, <1>5 DEF Page, RunId
<1>7. PICK q \in Request : q = [Get("load", saved.run) EXCEPT !.id = calls + 1]
                           /\ q.id = calls + 1 /\ q.name = "load" /\ q.run = saved.run
  <2>1. saved.run \in RunId
    BY <1>2 DEF RunId
  <2>2. [Get("load", saved.run) EXCEPT !.id = calls + 1] \in Request
    BY <2>1, GetTyped
  <2>3. [Get("load", saved.run) EXCEPT !.id = calls + 1]
          = [id |-> calls + 1, name |-> "load", run |-> saved.run]
    BY <2>1, GetTyped
  <2> QED
    BY <2>2, <2>3
<1>21. Call(w, Get("load", saved.run))
  BY <1>3, <1>4
<1>8. /\ net' = net \union {q} /\ net' \subseteq Request /\ calls' \in Nat
      /\ view' \in Page /\ view'.call = q
      /\ view'.mounted /\ view'.run = saved.run /\ view'.loaded = v.loaded
      /\ view'.activity = v.activity /\ view'.pending = saved.pending
      /\ view'.repair = saved.repair
      /\ CallsFit' /\ RepliesFit'
  BY <1>21, <1>6, <1>7, CallEffect
<1>9. /\ Grown /\ \A s : RepairFits(s) => RepairFits(s)'
      /\ Recorded' = Recorded /\ \A a : At(a)' = At(a)
  BY <1>3, Quiet
<1>10. /\ v = Blank => ~v.loaded /\ v.activity = None
       /\ v = view => view.mounted /\ (view.pending = None \/ view.activity = None)
  BY DEF Blank, CanReload, Idle
<1>12. Submissions' = Submissions
  BY <1>7, <1>8, SubmissionsSame
<1>13. Kept(storage)' = Kept(storage) /\ Kept(view)' = Kept(storage)
  BY <1>2, <1>3, <1>8, NoneAssumption DEF Kept, Types
<1>14. Tokens' \subseteq Tokens
  BY <1>12, <1>13 DEF Tokens
<1>15. Repairs' \subseteq Repairs
  <2>1. /\ OwnRepair(storage)' \subseteq OwnRepair(storage)
        /\ OwnRepair(view)' \subseteq OwnRepair(storage)
    BY <1>2, <1>3, <1>8 DEF OwnRepair
  <2> QED
    BY <1>7, <1>8, <2>1 DEF Repairs
<1>11. Types' /\ RowsFit' /\ ChildrenFit' /\ TokensFit' /\ RepairsFit' /\ KeyKeepsAnswer'
  <2>1. storage' \in SavedTokens \union {None} /\ gone' \subseteq GoneType /\ late' \in BOOLEAN
    BY <1>2, <1>3 DEF Types
  <2> QED
    BY <1>3, <1>8, <1>14, <1>15, <2>1, PageStep
<1>16. WaitsWell'
  BY <1>7, <1>8 DEF WaitsWell, RunCall
<1>17. ShowsWell'
  BY <1>2, <1>8, <1>9, <1>10, <1>7, NoneAssumption DEF ShowsWell, Grown, StoresWell
<1>18. RunsFit'
  <2>1. \A r : OfRun(r) # {} => OfRun(r)' # {}
    BY <1>9 DEF Grown
  <2>2. view'.activity # None \/ view'.repair # None => OfRun(saved.run) # {}
    <3>1. v = view => storage # None /\ saved.run = storage.run
      BY <1>2, <1>10 DEF StoresWell
    <3>2. view.activity # None /\ v = view => OfRun(saved.run) # {}
      BY <1>10, <3>1 DEF RunsFit
    <3>3. saved.repair # None => OfRun(saved.run) # {}
      BY <1>2 DEF RunsFit
    <3> QED
      BY <1>8, <1>10, <3>2, <3>3
  <2>3. \A g \in gone' : g.run # None /\ OfRun(g.run)' # {}
    BY <2>1 DEF RunsFit
  <2> QED
    BY <1>2, <1>3, <1>8, <2>1, <2>2, <2>3 DEF RunsFit
<1>19. StoresWell'
  BY <1>2, <1>3, <1>8, <1>9, <1>10, NoneAssumption DEF StoresWell
<1>20. UncertainIsRetained'
  BY <1>9, <1>12, <1>13 DEF UncertainIsRetained, At
<1> QED
  BY <1>8, <1>11, <1>16, <1>17, <1>18, <1>19, <1>20

-----------------------------------------------------------------------------
(* A call returns to the page.                                             *)

LEMMA ReturnEffect ==
  ASSUME Types, CallsFit, NEW v \in Page, view.call # None, Returned(v), UNCHANGED <<net, calls>>
  PROVE  /\ view' \in Page /\ view'.call = None
         /\ view'.mounted = v.mounted /\ view'.run = v.run /\ view'.loaded = v.loaded
         /\ view'.activity = v.activity /\ view'.pending = v.pending
         /\ view'.repair = v.repair /\ view'.error = v.error
         /\ CallsFit' /\ RepliesFit' /\ WaitsWell'
<1>1. /\ view' \in Page /\ view'.call = None
      /\ view'.mounted = v.mounted /\ view'.run = v.run /\ view'.loaded = v.loaded
      /\ view'.activity = v.activity /\ view'.pending = v.pending
      /\ view'.repair = v.repair /\ view'.error = v.error
  BY DEF Returned, Page
<1>2. DOMAIN replies' \subseteq DOMAIN replies
  BY DEF Returned, Without
<1>3. CallsFit'
  BY <1>1, <1>2 DEF CallsFit
<1>4. RepliesFit' /\ WaitsWell'
  BY <1>1 DEF RepliesFit, WaitsWell
<1> QED
  BY <1>1, <1>3, <1>4

LEMMA ReturnInv ==
  ASSUME IInv, UNCHANGED <<rows, net, gone, uuid, calls, late>>,
         NEW v \in Page, view.call # None, Returned(v),
         \/ UNCHANGED storage /\ v.pending = view.pending /\ v.repair = view.repair
         \/ Persist(v),
         v.mounted, v.run = view.run, v.error \/ v.loaded,
         v.pending \in {None, view.pending}, v.repair \in {None, view.repair},
         v.activity # None =>
           /\ v.loaded /\ ActivityFits(v.activity) /\ OfRun(view.run) # {}
           /\ ~late => At(v.activity.id).run = view.run
           /\ v.pending # None => v.pending.act = v.activity.id /\ v.activity.answer = None,
         v.loaded /\ v.activity = None => v.pending = None /\ v.repair = None,
         ~late /\ v.pending # view.pending => ~Open(At(view.pending.act))
  PROVE  IInv'
<1> USE DEF IInv
<1>1. /\ view' \in Page /\ view'.call = None
      /\ view'.mounted = v.mounted /\ view'.run = v.run /\ view'.loaded = v.loaded
      /\ view'.activity = v.activity /\ view'.pending = v.pending
      /\ view'.repair = v.repair /\ view'.error = v.error
      /\ CallsFit' /\ RepliesFit' /\ WaitsWell'
  BY ReturnEffect
<1>2. /\ v.run \in RunId /\ v.pending \in Token \union {None}
      /\ v.repair \in RepairToken \union {None}
      /\ view.mounted /\ view.run # None /\ storage # None
  BY DEF Page, WaitsWell, ShowsWell, StoresWell
<1>3. /\ storage' \in SavedTokens /\ storage' # None
      /\ \/ storage' = storage /\ v.pending = view.pending /\ v.repair = view.repair
         \/ storage'.run = v.run /\ storage'.pending = v.pending /\ storage'.repair = v.repair
  <2>1. CASE storage' = storage /\ v.pending = view.pending /\ v.repair = view.repair
    BY <1>2, <2>1 DEF Types
  <2>2. CASE Persist(v)
    BY <2>2, PersistTyped
  <2> QED
    BY <2>1, <2>2
<1>4. /\ Grown /\ \A s : RepairFits(s) => RepairFits(s)'
      /\ Recorded' = Recorded /\ \A a : At(a)' = At(a) /\ Submissions' = Submissions
  BY Quiet DEF Types, Submissions
<1>5. Tokens' \subseteq Tokens
  <2>1. Kept(view)' \subseteq Kept(view)
    BY <1>1, <1>2, NoneAssumption DEF Kept, Types
  <2>2. Kept(storage)' \subseteq Kept(storage) \union Kept(view)
    BY <1>2, <1>3, NoneAssumption DEF Kept, Types
  <2> QED
    BY <1>4, <2>1, <2>2 DEF Tokens
<1>6. Repairs' \subseteq Repairs
  <2>1. OwnRepair(view)' \subseteq OwnRepair(view)
    BY <1>1, <1>2, NoneAssumption DEF OwnRepair, Types
  <2>2. OwnRepair(storage)' \subseteq OwnRepair(storage) \union OwnRepair(view)
    BY <1>2, <1>3, NoneAssumption DEF OwnRepair, Types
  <2> QED
    BY <2>1, <2>2 DEF Repairs
<1>7. Types' /\ RowsFit' /\ ChildrenFit' /\ TokensFit' /\ RepairsFit' /\ KeyKeepsAnswer'
  BY <1>1, <1>3, <1>5, <1>6, PageStep DEF Types
<1>8. ShowsWell'
  <2>1. v.activity # None => ActivityFits(v.activity)'
    BY <1>4 DEF Grown
  <2> QED
    BY <1>1, <1>2, <2>1 DEF ShowsWell
<1>9. RunsFit'
  <2>1. \A r : OfRun(r) # {} => OfRun(r)' # {}
    BY <1>4 DEF Grown
  <2>2. OfRun(view.run) # {} \/ (view'.activity = None /\ view'.repair = None)
    BY <1>1 DEF RunsFit
  <2>3. storage'.repair # None => OfRun(storage'.run) # {}
    BY <1>2, <1>3 DEF RunsFit
  <2>4. storage'.run # v.run => OfRun(storage'.run) # {}
    BY <1>2, <1>3 DEF RunsFit
  <2> QED
    BY <1>1, <2>1, <2>2, <2>3, <2>4 DEF RunsFit
<1>10. StoresWell'
  BY <1>1, <1>2, <1>3, <1>4 DEF StoresWell
<1>11. UncertainIsRetained'
  <2> SUFFICES ASSUME ~late, NEW s \in Submissions, Open(At(s.act))
               PROVE  s \in Kept(storage')
    BY <1>4 DEF UncertainIsRetained, At
  <2>1. s \in Kept(storage) /\ s = view.pending /\ view.pending # None
    BY <1>2 DEF UncertainIsRetained, At, Kept, StoresWell
  <2>2. v.pending = view.pending
    BY <2>1
  <2> QED
    BY <1>2, <1>3, <2>1, <2>2 DEF Kept
<1> QED
  BY <1>1, <1>7, <1>8, <1>9, <1>10, <1>11

LEMMA HasRun ==
  ASSUME RowsFit, NEW a, Has(a)
  PROVE  OfRun(At(a).run) # {}
BY HasRow DEF OfRun

LEMMA AdoptInv ==
  ASSUME IInv, UNCHANGED <<rows, net, gone, uuid, calls, late>>,
         Arrived("load") \/ Arrived("rejected"),
         NEW v \in {view, [view EXCEPT !.error = TRUE]}, Adopt(v, Reply.activity)
  PROVE  IInv'
<1> USE DEF IInv
<1>1. PICK a : a = Reply.activity
  OBVIOUS
<1>2. /\ view.call # None /\ view.call.name \in {"load", "rejected"}
      /\ view.call.id \in DOMAIN replies /\ view \in Page /\ view.mounted
      /\ view.call.run = view.run
  BY DEF Arrived, Types, WaitsWell, RunCall
<1>3. ReplyFits(view.call, Reply)
  BY <1>2 DEF RepliesFit, Reply
<1>4. /\ a # None => ActivityFits(a) /\ At(a.id).run = view.run
      /\ view.repair # None => a # None
      /\ view.pending # None /\ ~late /\ Open(At(view.pending.act)) =>
           a # None /\ a.id = view.pending.act
  BY <1>1, <1>2, <1>3 DEF ReplyFits, RunCall
<1>5. a \in Activity \union {None}
  BY <1>4 DEF ActivityFits
<1>6. /\ v \in Page /\ v.mounted /\ v.run = view.run /\ v.pending = view.pending
      /\ v.repair = view.repair
      /\ v.pending \in Token \union {None} /\ v.repair \in RepairToken \union {None}
  BY <1>2 DEF Page
<1>7. PICK w : w = Adopted(v, a)
  OBVIOUS
<1>8. /\ w \in Page /\ w.mounted /\ w.run = view.run /\ w.loaded /\ w.activity = a
      /\ w.pending = IF Answered(a) \/ (v.pending # None /\ v.pending.act # IdOf(a))
                       THEN None ELSE v.pending
      /\ w.repair = IF IdOf(a) = IdOf(v.repair) THEN None ELSE v.repair
  BY <1>5, <1>6, <1>7 DEF Adopted, Page
<1>9. w.pending # None => a # None /\ w.pending.act = a.id /\ a.answer = None
  BY <1>6, <1>8, NoneAssumption DEF Answered, Open, IdOf, Token
<1>10. Returned(w)
  BY <1>1, <1>7 DEF Adopt
<1>11. \/ UNCHANGED storage /\ w.pending = view.pending /\ w.repair = view.repair
       \/ Persist(w)
  <2>1. CASE AdoptPersists(v, a)
    BY <1>1, <1>7, <2>1 DEF Adopt
  <2>2. CASE ~AdoptPersists(v, a)
    BY <1>1, <1>6, <1>7, <1>8, <2>2 DEF Adopt, AdoptPersists
  <2> QED
    BY <2>1, <2>2
<1>12. ~late /\ w.pending # view.pending => ~Open(At(view.pending.act))
  <2> SUFFICES ASSUME ~late, w.pending # view.pending, Open(At(view.pending.act)) PROVE FALSE
    OBVIOUS
  <2>1. view.pending # None /\ (Answered(a) \/ view.pending.act # IdOf(a))
    BY <1>6, <1>8
  <2>2. a # None /\ a.id = view.pending.act
    BY <1>4, <2>1
  <2>3. Answered(a)
    BY <2>1, <2>2 DEF IdOf
  <2>4. At(a.id).answer # None
    BY <1>4, <2>3 DEF ActivityFits, Answered, Open
  <2> QED
    BY <2>2, <2>4 DEF Open
<1>13. a # None => OfRun(view.run) # {}
  BY <1>4, HasRun DEF ActivityFits
<1>14. a = None => w.pending = None /\ w.repair = None
  BY <1>4, <1>6, <1>8, <1>9
<1> QED
  BY <1>2, <1>4, <1>6, <1>8, <1>9, <1>10, <1>11, <1>12, <1>13, <1>14, ReturnInv

LEMMA NextArrivesInv ==
  ASSUME IInv, NextArrives
  PROVE  IInv'
<1> USE DEF IInv
<1>1. PICK a : a = Reply.activity
  OBVIOUS
<1>2. /\ view.call # None /\ view.call.name = "next" /\ view.call.id \in DOMAIN replies
      /\ view \in Page /\ view.mounted /\ view.loaded /\ view.call.run = view.run
      /\ view.pending = None /\ view.repair = None
  BY DEF NextArrives, Arrived, Types, WaitsWell, RunCall
<1>3. a # None => ActivityFits(a) /\ At(a.id).run = view.run
  BY <1>1, <1>2 DEF RepliesFit, Reply, ReplyFits, RunCall
<1>4. PICK w : w = [view EXCEPT !.activity = a, !.stopped = (a = None)]
  OBVIOUS
<1>5. /\ w \in Page /\ w.mounted /\ w.run = view.run /\ w.loaded /\ w.activity = a
      /\ w.pending = None /\ w.repair = None
  BY <1>2, <1>3, <1>4 DEF Page, ActivityFits
<1>6. a # None => OfRun(view.run) # {}
  BY <1>3, HasRun DEF ActivityFits
<1>7. Returned(w) /\ UNCHANGED <<rows, net, storage, gone, uuid, calls, late>>
  BY <1>1, <1>4 DEF NextArrives
<1> QED
  BY <1>2, <1>3, <1>5, <1>6, <1>7, ReturnInv

LEMMA FailedInv ==
  ASSUME IInv, view.call # None, Failed(view),
         UNCHANGED <<rows, net, storage, gone, uuid, calls, late>>
  PROVE  IInv'
<1> USE DEF IInv
<1>1. PICK w : w = [view EXCEPT !.error = TRUE]
  OBVIOUS
<1>2. view \in Page /\ view.mounted
  BY DEF Types, WaitsWell
<1>3. /\ w \in Page /\ w.mounted /\ w.run = view.run /\ w.error /\ w.activity = view.activity
      /\ w.pending = view.pending /\ w.repair = view.repair /\ w.loaded = view.loaded
  BY <1>1, <1>2 DEF Page
<1>4. Returned(w)
  BY <1>1 DEF Failed
<1>5. view.pending \in {None, view.pending} /\ view.repair \in {None, view.repair}
  OBVIOUS
<1>6. w.activity # None =>
           /\ w.loaded /\ ActivityFits(w.activity) /\ OfRun(view.run) # {}
           /\ ~late => At(w.activity.id).run = view.run
           /\ w.pending # None => w.pending.act = w.activity.id /\ w.activity.answer = None
  BY <1>3 DEF ShowsWell, RunsFit, StoresWell
<1>7. w.loaded /\ w.activity = None => w.pending = None /\ w.repair = None
  BY <1>3 DEF ShowsWell
<1> QED
  BY <1>2, <1>3, <1>4, <1>5, <1>6, <1>7, ReturnInv

LEMMA SubmittedInv ==
  ASSUME IInv, Submitted
  PROVE  IInv'
<1> USE DEF IInv
<1>1. CASE ~Reply.ok
  BY <1>1, FailedInv DEF Submitted, Arrived
<1>2. CASE Reply.ok
  <2>1. /\ view.call # None /\ view.call.name = "submit" /\ view.call.id \in DOMAIN replies
        /\ view \in Page /\ view.mounted /\ view.loaded
        /\ view.activity # None /\ view.pending = view.call.token /\ view.call \in Request
    BY DEF Submitted, Arrived, Types, WaitsWell, RunCall, Page
  <2>2. /\ Reply.answer \in Answer /\ At(view.pending.act).answer = Reply.answer
    BY <1>2, <2>1 DEF RepliesFit, Reply, ReplyFits
  <2>3. view.call.token \in Token /\ view.pending # None
    BY <2>1, NoneAssumption DEF Request
  <2>4. /\ view.pending.act = view.activity.id /\ ActivityFits(view.activity)
        /\ view.activity \in Activity
    BY <2>1, <2>3 DEF ShowsWell, ActivityFits
  <2>5. PICK a : a = [view.activity EXCEPT !.answer = Reply.answer]
    OBVIOUS
  <2>6. a \in Activity /\ a.id = view.activity.id /\ a.answer = Reply.answer
    BY <2>2, <2>4, <2>5 DEF Activity
  <2>7. ActivityFits(a)
    BY <2>2, <2>4, <2>6 DEF ActivityFits
  <2>8. PICK w : w = [view EXCEPT !.activity.answer = Reply.answer, !.pending = None]
    OBVIOUS
  <2>9. /\ w \in Page /\ w.mounted /\ w.run = view.run /\ w.loaded /\ w.activity = a
        /\ w.pending = None /\ w.repair = view.repair
    BY <2>1, <2>5, <2>6, <2>8 DEF Page
  <2>10. Returned(w) /\ Persist(w) /\ UNCHANGED <<rows, net, gone, uuid, calls, late>>
    BY <1>2, <2>8 DEF Submitted
  <2>11. ~Open(At(view.pending.act))
    BY <2>2, AnswerAssumption DEF Open
  <2>12. OfRun(view.run) # {} /\ (~late => At(a.id).run = view.run)
    BY <2>1, <2>6 DEF RunsFit, StoresWell
  <2>13. a # None
    BY <2>6, NoneAssumption
  <2> QED
    BY <2>1, <2>7, <2>9, <2>10, <2>11, <2>12, <2>13, ReturnInv
<1> QED
  BY <1>1, <1>2

LEMMA RepairedInv ==
  ASSUME IInv, Repaired
  PROVE  IInv'
<1> USE DEF IInv
<1>1. PICK a : a = Reply.activity
  OBVIOUS
<1>2. /\ view.call # None /\ view.call.name = "repair" /\ view.call.id \in DOMAIN replies
      /\ view \in Page /\ view.mounted /\ view.loaded /\ view.call \in Request
      /\ view.repair = view.call.token /\ Answered(view.activity)
  BY DEF Repaired, Arrived, Types, WaitsWell, RunCall, Page
<1>3. ActivityFits(a) /\ At(a.id).run = At(view.repair.parent).run
  BY <1>1, <1>2 DEF RepliesFit, Reply, ReplyFits, Repaired
<1>4. view.repair # None
  BY <1>2, NoneAssumption DEF Request
<1>5. view.pending = None
  BY <1>2 DEF ShowsWell, Answered, Open
<1>6. PICK w : w = [view EXCEPT !.activity = a, !.repair = None]
  OBVIOUS
<1>7. /\ w \in Page /\ w.mounted /\ w.run = view.run /\ w.loaded /\ w.activity = a
      /\ w.pending = None /\ w.repair = None
  BY <1>2, <1>3, <1>5, <1>6 DEF Page, ActivityFits
<1>8. Returned(w) /\ Persist(w) /\ UNCHANGED <<rows, net, gone, uuid, calls, late>>
  BY <1>1, <1>6 DEF Repaired
<1>9. OfRun(view.run) # {} /\ (~late => At(a.id).run = view.run)
  BY <1>3, <1>4 DEF RunsFit, StoresWell
<1> QED
  BY <1>2, <1>3, <1>5, <1>7, <1>8, <1>9, ReturnInv

-----------------------------------------------------------------------------
(* A call is sent from what is shown.                                      *)

LEMMA CallInv ==
  ASSUME IInv, UNCHANGED <<rows, gone, late>>, uuid' \in Nat, uuid <= uuid',
         NEW v \in Page, NEW c, NEW q \in Request,
         q = [c EXCEPT !.id = calls + 1], q.id = calls + 1, Call(v, c),
         DOMAIN replies' \subseteq 1..calls,
         view.mounted, v.mounted, v.loaded, v.run = view.run, v.activity = view.activity,
         \/ UNCHANGED storage /\ v.pending = view.pending /\ v.repair = view.repair
         \/ Persist(v),
         TokensFit', RepairsFit', KeyKeepsAnswer',
         view.pending \in {None, v.pending},
         v.pending # None =>
           v.activity # None /\ v.pending.act = v.activity.id /\ v.activity.answer = None,
         v.repair # None => v.activity # None /\ (~late => At(v.repair.parent).run = v.run),
         q.name # "load", RunCall(q) => q.run = v.run,
         q.name \in {"next", "rejected"} => v.pending = None /\ v.repair = None,
         q.name = "submit" => v.activity # None /\ v.pending = q.token,
         q.name = "repair" => v.repair = q.token,
         q.name \in {"repair", "rejected"} => Answered(v.activity)
  PROVE  IInv'
<1> USE DEF IInv
<1>1. /\ net' = net \union {q} /\ net' \subseteq Request /\ calls' \in Nat
      /\ view' \in Page /\ view'.call = q
      /\ view'.mounted = v.mounted /\ view'.run = v.run /\ view'.loaded = v.loaded
      /\ view'.activity = v.activity /\ view'.pending = v.pending
      /\ view'.repair = v.repair
      /\ CallsFit' /\ RepliesFit'
  BY CallEffect
<1>2. /\ v.run \in RunId /\ v.pending \in Token \union {None}
      /\ v.repair \in RepairToken \union {None} /\ view.run # None /\ storage # None
  BY DEF Page, ShowsWell, StoresWell
<1>3. /\ storage' \in SavedTokens /\ storage' # None
      /\ \/ storage' = storage /\ v.pending = view.pending /\ v.repair = view.repair
         \/ storage'.run = v.run /\ storage'.pending = v.pending /\ storage'.repair = v.repair
  <2>1. CASE storage' = storage /\ v.pending = view.pending /\ v.repair = view.repair
    BY <1>2, <2>1 DEF Types
  <2>2. CASE Persist(v)
    BY <2>2, PersistTyped
  <2> QED
    BY <2>1, <2>2
<1>4. Grown /\ ChildrenFit' /\ \A a : At(a)' = At(a)
  BY Quiet
<1>5. Types' /\ RowsFit'
  BY <1>1, <1>3, <1>4 DEF Types, Grown
<1>6. WaitsWell'
  BY <1>1 DEF WaitsWell, RunCall
<1>7. v.activity # None => v.loaded /\ ActivityFits(v.activity) /\ OfRun(v.run) # {}
  BY DEF ShowsWell, RunsFit
<1>8. ShowsWell'
  BY <1>1, <1>2, <1>4, <1>7, NoneAssumption DEF ShowsWell, Grown
<1>9. RunsFit'
  <2>1. \A r : OfRun(r) # {} => OfRun(r)' # {}
    BY <1>4 DEF Grown
  <2>2. storage'.repair # None => OfRun(storage'.run) # {}
    BY <1>2, <1>3, <1>7 DEF RunsFit
  <2>3. storage'.run # v.run => OfRun(storage'.run) # {}
    BY <1>2, <1>3 DEF RunsFit
  <2> QED
    BY <1>1, <1>7, <2>1, <2>2, <2>3 DEF RunsFit
<1>10. StoresWell'
  <2>1. ~late /\ v.activity # None => At(v.activity.id).run = v.run
    BY DEF StoresWell
  <2> QED
    BY <1>1, <1>2, <1>3, <1>4, <2>1 DEF StoresWell
<1>11. UncertainIsRetained'
  <2> SUFFICES ASSUME ~late, NEW s \in Submissions', Open(At(s.act))
               PROVE  s \in Kept(storage')
    BY <1>4 DEF UncertainIsRetained, At
  <2>1. s \in Submissions \/ (q.name = "submit" /\ s = q.token)
    BY <1>1 DEF Submissions
  <2>2. s = v.pending /\ v.pending # None
    <3>1. CASE s \in Submissions
      <4>1. s \in Kept(storage)
        BY <3>1 DEF UncertainIsRetained, At
      <4> QED
        BY <1>2, <4>1 DEF Kept, StoresWell
    <3>2. CASE q.name = "submit" /\ s = q.token
      BY <3>2, NoneAssumption DEF Request
    <3> QED
      BY <2>1, <3>1, <3>2
  <2>3. storage'.pending = v.pending
    BY <1>3 DEF StoresWell
  <2> QED
    BY <1>3, <2>2, <2>3 DEF Kept
<1> QED
  BY <1>1, <1>4, <1>5, <1>6, <1>8, <1>9, <1>10, <1>11

LEMMA NextActivityInv ==
  ASSUME IInv, NextActivity
  PROVE  IInv'
<1> USE DEF IInv
<1>1. /\ view \in Page /\ view.mounted /\ view.repair = None
      /\ view.run \in RunId /\ uuid \in Nat
      /\ UNCHANGED <<rows, replies, storage, gone, uuid, late>>
      /\ Call(view, Get("next", view.run))
  BY DEF NextActivity, CanGoOn, Idle, Types, Page
<1>2. view.loaded /\ view.pending = None
  BY DEF NextActivity, CanGoOn, Answered, Open, ShowsWell
<1>3. PICK q \in Request : /\ q = [Get("next", view.run) EXCEPT !.id = calls + 1]
                           /\ q.id = calls + 1 /\ q.name = "next" /\ q.run = view.run
  <2>1. [Get("next", view.run) EXCEPT !.id = calls + 1] \in Request
    BY <1>1, GetTyped
  <2>2. [Get("next", view.run) EXCEPT !.id = calls + 1]
          = [id |-> calls + 1, name |-> "next", run |-> view.run]
    BY <1>1, GetTyped
  <2> QED
    BY <2>1, <2>2
<1>4. Submissions' = Submissions
  BY <1>1, <1>3, SubmissionsSame DEF Call
<1>5. view'.pending = view.pending /\ view'.repair = view.repair /\ view' \in Page
      /\ net' = net \union {q} /\ net' \subseteq Request /\ calls' \in Nat
  BY <1>1, <1>3, CallEffect DEF CallsFit
<1>6. Tokens' \subseteq Tokens
  BY <1>1, <1>2, <1>4, <1>5 DEF Tokens, Kept
<1>7. Repairs' \subseteq Repairs
  BY <1>1, <1>3, <1>5 DEF Repairs, OwnRepair
<1>8. TokensFit' /\ RepairsFit' /\ KeyKeepsAnswer'
  BY <1>1, <1>5, <1>6, <1>7, PageStep DEF Types
<1>9. DOMAIN replies' \subseteq 1..calls
  BY <1>1 DEF CallsFit
<1>10. uuid' \in Nat /\ uuid <= uuid'
  BY <1>1
<1> QED
  BY <1>1, <1>2, <1>3, <1>8, <1>9, <1>10, CallInv

LEMMA RepairRejectedInv ==
  ASSUME IInv, RepairRejected
  PROVE  IInv'
<1> USE DEF IInv
<1>1. /\ view.call # None /\ view.call.name = "repair"
      /\ view \in Page /\ view.mounted /\ view.loaded /\ Answered(view.activity)
      /\ view.run \in RunId /\ uuid \in Nat
      /\ UNCHANGED <<rows, gone, uuid, late>>
  BY DEF RepairRejected, Arrived, Types, WaitsWell, Page
<1>2. view.pending = None /\ view.activity # None
  BY <1>1 DEF ShowsWell, Answered, Open
<1>3. PICK w : w = [view EXCEPT !.repair = None]
  OBVIOUS
<1>4. /\ w \in Page /\ w.mounted /\ w.run = view.run /\ w.loaded /\ w.activity = view.activity
      /\ w.pending = None /\ w.repair = None
  BY <1>1, <1>2, <1>3 DEF Page
<1>5. Persist(w) /\ Call(w, Get("rejected", view.run))
  BY <1>3 DEF RepairRejected
<1>6. PICK q \in Request : /\ q = [Get("rejected", view.run) EXCEPT !.id = calls + 1]
                           /\ q.id = calls + 1 /\ q.name = "rejected" /\ q.run = view.run
  <2>1. [Get("rejected", view.run) EXCEPT !.id = calls + 1] \in Request
    BY <1>1, GetTyped
  <2>2. [Get("rejected", view.run) EXCEPT !.id = calls + 1]
          = [id |-> calls + 1, name |-> "rejected", run |-> view.run]
    BY <1>1, GetTyped
  <2> QED
    BY <2>1, <2>2
<1>7. DOMAIN replies' \subseteq 1..calls
  BY DEF RepairRejected, Without, CallsFit
<1>8. Submissions' = Submissions
  BY <1>5, <1>6, SubmissionsSame DEF Call
<1>9. view'.pending = None /\ view'.repair = None /\ view' \in Page
      /\ net' = net \union {q} /\ net' \subseteq Request /\ calls' \in Nat
  BY <1>4, <1>5, <1>6, <1>7, CallEffect
<1>10. storage' \in SavedTokens /\ storage'.pending = None /\ storage'.repair = None
  BY <1>4, <1>5, PersistTyped
<1>11. Tokens' \subseteq Tokens
  BY <1>8, <1>9, <1>10 DEF Tokens, Kept
<1>12. Repairs' \subseteq Repairs
  BY <1>6, <1>9, <1>10 DEF Repairs, OwnRepair
<1>13. TokensFit' /\ RepairsFit' /\ KeyKeepsAnswer'
  BY <1>1, <1>9, <1>10, <1>11, <1>12, PageStep DEF Types
<1>14. uuid' \in Nat /\ uuid <= uuid'
  BY <1>1
<1> QED
  BY <1>1, <1>2, <1>4, <1>5, <1>6, <1>7, <1>13, <1>14, CallInv

LEMMA PostTyped ==
  ASSUME Types, NEW token \in Token
  PROVE  \E q \in Request : /\ q = [Post(token) EXCEPT !.id = calls + 1]
                            /\ q.id = calls + 1 /\ q.name = "submit" /\ q.token = token
<1>1. [Post(token) EXCEPT !.id = calls + 1] = [id |-> calls + 1, name |-> "submit", token |-> token]
  BY DEF Post
<1>2. [id |-> calls + 1, name |-> "submit", token |-> token] \in Request
  BY DEF Request, Types
<1> QED
  BY <1>1, <1>2

LEMMA PostRepairTyped ==
  ASSUME Types, NEW token \in RepairToken
  PROVE  \E q \in Request : /\ q = [PostRepair(token) EXCEPT !.id = calls + 1]
                            /\ q.id = calls + 1 /\ q.name = "repair" /\ q.token = token
<1>1. [PostRepair(token) EXCEPT !.id = calls + 1]
        = [id |-> calls + 1, name |-> "repair", token |-> token]
  BY DEF PostRepair
<1>2. [id |-> calls + 1, name |-> "repair", token |-> token] \in Request
  BY DEF Request, Types
<1> QED
  BY <1>1, <1>2

LEMMA SubmitInv ==
  ASSUME IInv, NEW answer \in Answer, Submit(answer)
  PROVE  IInv'
<1> USE DEF IInv
<1>1. /\ view \in Page /\ view.mounted /\ view.activity # None /\ view.activity.answer = None
      /\ view.loaded /\ ActivityFits(view.activity) /\ view.activity.id \in Nat
      /\ uuid \in Nat /\ UNCHANGED <<rows, replies, gone, late>>
  BY DEF Submit, CanSubmit, Idle, Open, ShowsWell, ActivityFits, Activity, Types
<1>2. PICK token : token = Retained(answer)
  OBVIOUS
<1>3. /\ token \in Token /\ token # None /\ token.act = view.activity.id
      /\ uuid' \in Nat /\ uuid <= uuid'
      /\ token = view.pending \/ (token.key = uuid + 1 /\ uuid' = uuid + 1 /\ view.pending = None)
  <2>1. CASE view.pending = None
    <3>1. token = [act |-> view.activity.id, key |-> uuid + 1, answer |-> answer]
      BY <1>2, <2>1 DEF Retained
    <3>2. token \in Token /\ token.act = view.activity.id /\ token.key = uuid + 1
      BY <1>1, <3>1 DEF Token
    <3> QED
      BY <1>1, <2>1, <3>2, NoneAssumption DEF Submit
  <2>2. CASE view.pending # None
    <3>1. token = view.pending
      BY <1>2, <2>2 DEF Retained
    <3> QED
      BY <1>1, <2>2, <3>1 DEF Submit, Page, ShowsWell
  <2> QED
    BY <2>1, <2>2
<1>4. PICK w : w = [view EXCEPT !.pending = token]
  OBVIOUS
<1>5. /\ w \in Page /\ w.mounted /\ w.run = view.run /\ w.loaded /\ w.activity = view.activity
      /\ w.pending = token /\ w.repair = view.repair
  BY <1>1, <1>3, <1>4 DEF Page
<1>6. Persist(w) /\ Call(w, Post(token))
  BY <1>2, <1>4 DEF Submit
<1>7. PICK q \in Request : /\ q = [Post(token) EXCEPT !.id = calls + 1]
                           /\ q.id = calls + 1 /\ q.name = "submit" /\ q.token = token
  BY <1>3, PostTyped
<1>8. DOMAIN replies' \subseteq 1..calls
  BY <1>1 DEF CallsFit
<1>9. view'.pending = token /\ view'.repair = view.repair /\ net' = net \union {q}
  BY <1>5, <1>6, <1>7, <1>8, CallEffect
<1>10. storage'.pending = token /\ storage'.repair = view.repair /\ storage' # None
  BY <1>5, <1>6, PersistTyped
<1>11. Tokens' \subseteq Tokens \union {token}
  <2>1. Submissions' \subseteq Submissions \union {token}
    BY <1>7, <1>9 DEF Submissions
  <2>2. Kept(view)' \subseteq {token} /\ Kept(storage)' \subseteq {token}
    BY <1>9, <1>10 DEF Kept
  <2> QED
    BY <2>1, <2>2 DEF Tokens
<1>12. Repairs' \subseteq Repairs
  BY <1>1, <1>7, <1>9, <1>10, NoneAssumption DEF Repairs, OwnRepair
<1>13. Grown /\ (\A s : RepairFits(s) => RepairFits(s)') /\ Recorded' = Recorded
  BY <1>1, <1>3, Quiet
<1>14. RepairsFit'
  BY <1>12, <1>13, RepairsKept
<1>15. TokensFit' /\ KeyKeepsAnswer'
  <2>1. CASE token = view.pending
    <3>1. token \in Tokens
      BY <1>1, <1>3, <2>1, NoneAssumption DEF Tokens, Kept
    <3>2. Tokens' \subseteq Tokens
      BY <1>11, <3>1
    <3> QED
      BY <1>13, <3>2, TokensKept
  <2>2. CASE token.key = uuid + 1 /\ uuid' = uuid + 1
    <3>1. TokenFits(token)'
      <4>1. Has(token.act)'
        BY <1>1, <1>3, <1>13 DEF ActivityFits, Grown
      <4> QED
        BY <1>1, <1>3, <2>2, <4>1 DEF TokenFits
    <3>2. TokensFit'
      BY <1>11, <1>13, <3>1 DEF TokensFit, Grown
    <3>3. (Tokens \union Recorded)' \subseteq Tokens \union Recorded \union {token}
      BY <1>11, <1>13
    <3> QED
      BY <2>2, <3>2, <3>3, KeysApart
  <2> QED
    BY <1>3, <2>1, <2>2
<1>16. view.pending \in {None, w.pending}
  BY <1>3, <1>5
<1>17. w.repair # None /\ ~late => At(w.repair.parent).run = w.run
  BY <1>5 DEF StoresWell
<1> QED
  BY <1>1, <1>3, <1>5, <1>6, <1>7, <1>8, <1>14, <1>15, <1>16, <1>17, CallInv DEF RunCall

LEMMA RepairInv ==
  ASSUME IInv, Repair
  PROVE  IInv'
<1> USE DEF IInv
<1>1. /\ view \in Page /\ view.mounted /\ view.activity # None /\ view.activity.answer # None
      /\ Answered(view.activity)
      /\ view.loaded /\ ActivityFits(view.activity) /\ view.activity.id \in Nat
      /\ uuid \in Nat /\ UNCHANGED <<rows, replies, gone, late>>
  BY DEF Repair, CanRepair, Idle, Answered, Open, ShowsWell, ActivityFits, Activity, Types
<1>2. view.pending = None
  BY <1>1 DEF ShowsWell
<1>3. PICK token : token = IF view.repair # None THEN view.repair
                           ELSE [id |-> uuid + 1, parent |-> view.activity.id]
  OBVIOUS
<1>4. /\ token \in RepairToken /\ token # None
      /\ uuid' \in Nat /\ uuid <= uuid'
      /\ \/ token = view.repair
         \/ token.id = uuid + 1 /\ uuid' = uuid + 1 /\ token.parent = view.activity.id
  <2>1. CASE view.repair = None
    <3>1. token = [id |-> uuid + 1, parent |-> view.activity.id]
      BY <1>3, <2>1
    <3>2. token \in RepairToken /\ token.parent = view.activity.id /\ token.id = uuid + 1
      BY <1>1, <3>1 DEF RepairToken
    <3> QED
      BY <1>1, <2>1, <3>2, NoneAssumption DEF Repair
  <2>2. CASE view.repair # None
    <3>1. token = view.repair
      BY <1>3, <2>2
    <3> QED
      BY <1>1, <2>2, <3>1 DEF Repair, Page
  <2> QED
    BY <2>1, <2>2
<1>5. PICK w : w = [view EXCEPT !.repair = token]
  OBVIOUS
<1>6. /\ w \in Page /\ w.mounted /\ w.run = view.run /\ w.loaded /\ w.activity = view.activity
      /\ w.pending = None /\ w.repair = token
  BY <1>1, <1>2, <1>4, <1>5 DEF Page
<1>7. Persist(w) /\ Call(w, PostRepair(token))
  BY <1>3, <1>5 DEF Repair
<1>8. PICK q \in Request : /\ q = [PostRepair(token) EXCEPT !.id = calls + 1]
                           /\ q.id = calls + 1 /\ q.name = "repair" /\ q.token = token
  BY <1>4, PostRepairTyped
<1>9. DOMAIN replies' \subseteq 1..calls
  BY <1>1 DEF CallsFit
<1>10. view'.pending = None /\ view'.repair = token /\ net' = net \union {q}
  BY <1>6, <1>7, <1>8, <1>9, CallEffect
<1>11. storage'.pending = None /\ storage'.repair = token /\ storage' # None
  BY <1>6, <1>7, PersistTyped
<1>12. Tokens' \subseteq Tokens
  <2>1. Submissions' = Submissions
    BY <1>8, <1>10, SubmissionsSame
  <2> QED
    BY <1>10, <1>11, <2>1 DEF Tokens, Kept
<1>13. Repairs' \subseteq Repairs \union {token}
  BY <1>8, <1>10, <1>11 DEF Repairs, OwnRepair
<1>14. Grown /\ (\A s : RepairFits(s) => RepairFits(s)') /\ Recorded' = Recorded
  BY <1>1, <1>4, Quiet
<1>15. TokensFit' /\ KeyKeepsAnswer'
  BY <1>12, <1>14, TokensKept
<1>16. RepairsFit'
  <2>1. CASE token = view.repair
    <3>1. token \in Repairs
      BY <1>1, <1>4, <2>1, NoneAssumption DEF Repairs, OwnRepair
    <3>2. Repairs' \subseteq Repairs
      BY <1>13, <3>1
    <3> QED
      BY <1>14, <3>2, RepairsKept
  <2>2. CASE token.id = uuid + 1 /\ uuid' = uuid + 1 /\ token.parent = view.activity.id
    <3>1. \A s \in Repairs : s.id \in Nat /\ s.id <= uuid
      BY DEF RepairsFit, RepairFits, RepairToken
    <3>2. \A i \in DOMAIN rows : rows[i].id # uuid + 1
      BY <1>1, RowTyped DEF RowsFit
    <3>3. RepairFits(token)'
      <4>1. Has(token.parent)'
        BY <1>1, <1>14, <2>2 DEF ActivityFits, Grown
      <4> QED
        BY <1>1, <1>4, <2>2, <3>2, <4>1 DEF RepairFits
    <3>4. \A s \in Repairs' : RepairFits(s)'
      BY <1>13, <1>14, <3>3 DEF RepairsFit
    <3>5. \A s, t \in Repairs \union {token} : s.id = t.id => s = t
      BY <1>1, <2>2, <3>1 DEF RepairsFit
    <3> QED
      BY <1>13, <3>4, <3>5 DEF RepairsFit
  <2> QED
    BY <1>4, <2>1, <2>2
<1>17. ~late => At(w.repair.parent).run = w.run
  BY <1>1, <1>4, <1>6 DEF StoresWell
<1> QED
  BY <1>1, <1>2, <1>4, <1>6, <1>7, <1>8, <1>9, <1>15, <1>16, <1>17, CallInv DEF RunCall

LEMMA NewRunInv ==
  ASSUME IInv, NewRun
  PROVE  IInv'
<1> USE DEF IInv
<1>1. /\ view \in Page /\ view.mounted /\ view.pending = None /\ view.repair = None
      /\ uuid \in Nat /\ uuid + 1 \in Nat /\ uuid + 1 \in RunId /\ uuid + 1 # None
      /\ uuid' = uuid + 1 /\ UNCHANGED <<rows, replies, gone, late>>
  BY NoneAssumption DEF NewRun, CanStartAnew, Idle, Types, RunId
<1>2. PICK w : w = [Blank EXCEPT !.run = uuid + 1]
  OBVIOUS
<1>3. /\ w \in Page /\ w.mounted /\ w.run = uuid + 1 /\ ~w.loaded /\ w.activity = None
      /\ w.pending = None /\ w.repair = None
  BY <1>1, <1>2 DEF Page, Blank
<1>4. Call(w, Get("load", uuid + 1)) /\ storage' = Saved(uuid + 1, None, None)
  BY <1>2 DEF NewRun
<1>5. PICK q \in Request : /\ q = [Get("load", uuid + 1) EXCEPT !.id = calls + 1]
                           /\ q.id = calls + 1 /\ q.name = "load" /\ q.run = uuid + 1
  <2>1. [Get("load", uuid + 1) EXCEPT !.id = calls + 1] \in Request
    BY <1>1, GetTyped
  <2>2. [Get("load", uuid + 1) EXCEPT !.id = calls + 1]
          = [id |-> calls + 1, name |-> "load", run |-> uuid + 1]
    BY <1>1, GetTyped
  <2> QED
    BY <2>1, <2>2
<1>6. DOMAIN replies' \subseteq 1..calls
  BY <1>1 DEF CallsFit
<1>7. /\ net' = net \union {q} /\ net' \subseteq Request /\ calls' \in Nat
      /\ view' \in Page /\ view'.call = q
      /\ view'.mounted /\ view'.run = uuid + 1 /\ ~view'.loaded
      /\ view'.activity = None /\ view'.pending = None /\ view'.repair = None
      /\ CallsFit' /\ RepliesFit'
  BY <1>3, <1>4, <1>5, <1>6, CallEffect
<1>8. /\ storage' \in SavedTokens /\ storage' # None /\ storage'.run = uuid + 1
      /\ storage'.pending = None /\ storage'.repair = None
  BY <1>1, <1>4, SavedTyped
<1>9. Submissions' = Submissions
  BY <1>5, <1>7, SubmissionsSame
<1>10. Tokens' \subseteq Tokens
  BY <1>7, <1>8, <1>9 DEF Tokens, Kept
<1>11. Repairs' \subseteq Repairs
  BY <1>5, <1>7, <1>8 DEF Repairs, OwnRepair
<1>12. uuid' \in Nat /\ uuid <= uuid'
  BY <1>1
<1>13. Types' /\ RowsFit' /\ ChildrenFit' /\ TokensFit' /\ RepairsFit' /\ KeyKeepsAnswer'
  BY <1>1, <1>7, <1>8, <1>10, <1>11, <1>12, PageStep DEF Types
<1>14. Grown /\ \A a : At(a)' = At(a)
  BY <1>1, <1>12, Quiet
<1>15. WaitsWell' /\ ShowsWell'
  BY <1>1, <1>5, <1>7, NoneAssumption DEF WaitsWell, ShowsWell, RunCall
<1>16. RunsFit'
  BY <1>1, <1>7, <1>8, <1>14 DEF RunsFit, Grown
<1>17. StoresWell'
  BY <1>1, <1>7, <1>8 DEF StoresWell
<1>18. UncertainIsRetained'
  BY <1>1, <1>9, <1>14 DEF UncertainIsRetained, StoresWell, Kept, At
<1> QED
  BY <1>7, <1>13, <1>15, <1>16, <1>17, <1>18

LEMMA LeaveInv ==
  ASSUME IInv, Leave
  PROVE  IInv'
<1> USE DEF IInv
<1>1. /\ view.mounted /\ view \in Page /\ uuid \in Nat
      /\ UNCHANGED <<rows, net, storage, uuid, calls, late>>
      /\ view' = [Blank EXCEPT !.mounted = FALSE]
  BY DEF Leave, Types
<1>2. /\ view' \in Page /\ ~view'.mounted /\ view'.call = None /\ view'.activity = None
      /\ view'.pending = None /\ view'.repair = None /\ ~view'.loaded /\ view' # None
  BY <1>1, BlankTyped, NoneAssumption DEF Blank, Page
<1>3. /\ gone' \subseteq GoneType /\ DOMAIN replies' \subseteq DOMAIN replies
      /\ \A g \in gone' : g.run # None /\ OfRun(g.run) # {}
  <2>1. CASE view.call # None /\ view.call.name \in {"repair", "rejected"}
    <3>1. PICK x : x = [id |-> view.call.id, run |-> view.run, refused |-> view.call.name = "rejected"]
      OBVIOUS
    <3>2. gone' = gone \union {x} /\ replies' = replies
      BY <2>1, <3>1 DEF Leave
    <3>3. view.call.id \in 1..calls /\ calls \in Nat
      BY <2>1 DEF CallsFit, Types
    <3>4. x \in GoneType /\ x.run = view.run
      BY <1>1, <3>1, <3>3 DEF GoneType, Page
    <3>5. view.run # None /\ OfRun(view.run) # {}
      BY <1>1, <2>1 DEF WaitsWell, Answered, RunsFit, ShowsWell
    <3> QED
      BY <3>2, <3>4, <3>5 DEF Types, RunsFit
  <2>2. CASE ~(view.call # None /\ view.call.name \in {"repair", "rejected"})
    BY <2>2 DEF Leave, Without, Types, RunsFit
  <2> QED
    BY <2>1, <2>2
<1>4. /\ Tokens' \subseteq Tokens /\ Repairs' \subseteq Repairs
  BY <1>1, <1>2 DEF Tokens, Repairs, Submissions, Kept, OwnRepair
<1>5. Types' /\ RowsFit' /\ ChildrenFit' /\ TokensFit' /\ RepairsFit' /\ KeyKeepsAnswer'
  BY <1>1, <1>2, <1>3, <1>4, PageStep DEF Types
<1>6. Grown /\ \A a : At(a)' = At(a)
  BY <1>1, Quiet
<1>7. CallsFit' /\ RepliesFit' /\ WaitsWell'
  BY <1>1, <1>2, <1>3 DEF CallsFit, RepliesFit, WaitsWell
<1>8. ShowsWell'
  BY <1>1, <1>2 DEF ShowsWell
<1>9. RunsFit'
  BY <1>1, <1>2, <1>3, <1>6 DEF RunsFit, Grown
<1>10. StoresWell'
  BY <1>1, <1>2, <1>6 DEF StoresWell
<1>11. UncertainIsRetained'
  BY <1>1, <1>6 DEF UncertainIsRetained, Submissions, Kept, At
<1> QED
  BY <1>5, <1>7, <1>8, <1>9, <1>10, <1>11

LEMMA WritesLateInv ==
  ASSUME IInv, NEW g \in gone, WritesLate(g)
  PROVE  IInv'
<1> USE DEF IInv
<1>1. /\ g \in GoneType /\ g.run \in RunId /\ g.run # None /\ OfRun(g.run) # {}
      /\ uuid \in Nat /\ UNCHANGED <<rows, net, view, uuid, calls>>
  BY DEF WritesLate, Types, GoneType, RunsFit
<1>2. /\ storage' \in SavedTokens /\ storage' # None /\ storage'.run = g.run
      /\ storage'.pending = None /\ storage'.repair = None
  BY <1>1, SavedTyped DEF WritesLate
<1>3. /\ DOMAIN replies' \subseteq DOMAIN replies
      /\ \A i \in DOMAIN replies' : replies'[i] = replies[i]
  BY DEF WritesLate, Without
<1>4. /\ late \in BOOLEAN /\ late' \in BOOLEAN
      /\ ~late' => ~late /\ storage.run = g.run /\ storage.pending = None
  BY DEF WritesLate, Types
<1>5. /\ gone' \subseteq GoneType /\ \A x \in gone' : x.run # None /\ OfRun(x.run) # {}
  <2>1. PICK y : y = [g EXCEPT !.refused = TRUE]
    OBVIOUS
  <2>2. y \in GoneType /\ y.run = g.run
    BY <1>1, <2>1 DEF GoneType
  <2>3. gone' \subseteq gone \union {y}
    BY <2>1 DEF WritesLate
  <2> QED
    BY <1>1, <2>2, <2>3 DEF Types, RunsFit
<1>6. /\ Tokens' \subseteq Tokens /\ Repairs' \subseteq Repairs
  BY <1>1, <1>2 DEF Tokens, Repairs, Submissions, Kept, OwnRepair
<1>7. Types' /\ RowsFit' /\ ChildrenFit' /\ TokensFit' /\ RepairsFit' /\ KeyKeepsAnswer'
  BY <1>1, <1>2, <1>4, <1>5, <1>6, PageStep DEF Types
<1>8. Grown /\ \A a : At(a)' = At(a)
  BY <1>1, Quiet
<1>9. CallsFit' /\ WaitsWell'
  BY <1>1, <1>3 DEF CallsFit, WaitsWell, Answered, Open
<1>10. ShowsWell'
  BY <1>1, <1>8 DEF ShowsWell, Grown
<1>11. RepliesFit'
  <2> SUFFICES ASSUME view.call # None, view.call.id \in DOMAIN replies'
               PROVE  ReplyFits(view.call, replies[view.call.id])'
    BY <1>1 DEF RepliesFit
  <2>1. ReplyFits(view.call, replies[view.call.id])
    BY <1>3 DEF RepliesFit
  <2> QED
    BY <1>1, <1>3, <1>4, <1>8, <2>1 DEF ReplyFits, RunCall, Grown, Open
<1>12. RunsFit'
  BY <1>1, <1>2, <1>5, <1>8 DEF RunsFit, Grown
<1>13. StoresWell'
  BY <1>1, <1>2, <1>4, <1>8 DEF StoresWell
<1>14. UncertainIsRetained'
  BY <1>1, <1>4, <1>8 DEF UncertainIsRetained, Submissions, Kept, At
<1> QED
  BY <1>7, <1>9, <1>10, <1>11, <1>12, <1>13, <1>14

LEMMA EndsLateInv ==
  ASSUME IInv, NEW g \in gone, EndsLate(g)
  PROVE  IInv'
<1> USE DEF IInv
<1>1. uuid \in Nat /\ gone' \subseteq gone /\ UNCHANGED <<rows, net, storage, view, uuid, calls, late>>
  BY DEF EndsLate, Types
<1>2. /\ DOMAIN replies' \subseteq DOMAIN replies
      /\ \A i \in DOMAIN replies' : replies'[i] = replies[i]
  BY DEF EndsLate, Without
<1>3. /\ Tokens' \subseteq Tokens /\ Repairs' \subseteq Repairs
  BY <1>1 DEF Tokens, Repairs, Submissions, Kept, OwnRepair
<1>4. Types' /\ RowsFit' /\ ChildrenFit' /\ TokensFit' /\ RepairsFit' /\ KeyKeepsAnswer'
  BY <1>1, <1>3, PageStep DEF Types
<1>5. Grown /\ \A a : At(a)' = At(a)
  BY <1>1, Quiet
<1>6. CallsFit' /\ WaitsWell'
  BY <1>1, <1>2 DEF CallsFit, WaitsWell, Answered, Open
<1>7. ShowsWell'
  BY <1>1, <1>5 DEF ShowsWell, Grown
<1>8. RepliesFit'
  <2> SUFFICES ASSUME view.call # None, view.call.id \in DOMAIN replies'
               PROVE  ReplyFits(view.call, replies[view.call.id])'
    BY <1>1, <1>2 DEF RepliesFit
  <2>1. ReplyFits(view.call, replies[view.call.id])
    BY <1>2 DEF RepliesFit
  <2> QED
    BY <1>1, <1>2, <1>5, <2>1 DEF ReplyFits, RunCall, Grown, Open
<1>9. RunsFit'
  BY <1>1, <1>5 DEF RunsFit, Grown
<1>10. StoresWell'
  BY <1>1, <1>5 DEF StoresWell
<1>11. UncertainIsRetained'
  BY <1>1, <1>5 DEF UncertainIsRetained, Submissions, Kept, At
<1> QED
  BY <1>4, <1>6, <1>7, <1>8, <1>9, <1>10, <1>11

LEMMA LoadsInv ==
  ASSUME IInv, Mount \/ Refresh \/ Reload
  PROVE  IInv'
<1>1. DOMAIN replies \subseteq 1..calls
  BY DEF IInv, CallsFit
<1>2. CASE Mount
  <2>1. Blank = view => CanReload
    BY <1>2 DEF Mount, Blank
  <2> QED
    BY <1>1, <1>2, <2>1, LoadInv DEF Mount
<1>3. CASE Refresh
  <2>1. DOMAIN replies' \subseteq 1..calls /\ gone' \subseteq gone
    BY <1>3 DEF Refresh
  <2>2. Blank # view
    BY DEF IInv, ShowsWell, Blank
  <2> QED
    BY <1>3, <2>1, <2>2, LoadInv DEF Refresh
<1>4. CASE Reload
  BY <1>1, <1>4, LoadInv DEF Reload
<1> QED
  BY <1>2, <1>3, <1>4

-----------------------------------------------------------------------------
(* A step of the server.                                                   *)

LEMMA ReplyStays ==
  ASSUME IInv, Grown, UNCHANGED <<view, late>>, view.call # None,
         NEW reply, ReplyFits(view.call, reply)
  PROVE  ReplyFits(view.call, reply)'
<1> USE DEF IInv
<1>1. view \in Page /\ view # None /\ view.call \in Request
  BY NoneAssumption DEF Types, Page
<1>2. view.pending # None => Has(view.pending.act)
  BY <1>1 DEF TokensFit, TokenFits, Tokens, Kept
<1>3. view.repair # None => Has(view.repair.parent)
  BY <1>1 DEF RepairsFit, RepairFits, Repairs, OwnRepair
<1>4. view.call.name = "submit" => Has(view.call.token.act)
  BY <1>1, <1>2, NoneAssumption DEF WaitsWell, Request
<1>5. view.call.name = "repair" => Has(view.call.token.parent)
  BY <1>1, <1>3, NoneAssumption DEF WaitsWell, Request
<1>6. RunCall(view.call) /\ reply.activity # None =>
        ActivityFits(reply.activity)' /\ At(reply.activity.id)'.run = view.call.run
  BY DEF ReplyFits, Grown, ActivityFits
<1>7. view.call.name \in {"load", "rejected"} =>
        /\ view.repair # None => reply.activity # None
        /\ view.pending # None /\ ~late /\ Open(At(view.pending.act))' =>
             reply.activity # None /\ reply.activity.id = view.pending.act
  <2>1. view.pending # None /\ Open(At(view.pending.act))' => Open(At(view.pending.act))
    BY <1>2 DEF Grown, Open
  <2> QED
    BY <2>1 DEF ReplyFits
<1>8. view.call.name = "submit" /\ reply.ok =>
        reply.answer \in Answer /\ At(view.call.token.act)'.answer = reply.answer
  BY <1>4, AnswerAssumption DEF ReplyFits, Grown, Open
<1>9. view.call.name = "repair" /\ reply.ok =>
        /\ ActivityFits(reply.activity)'
        /\ At(reply.activity.id)'.run = At(view.call.token.parent)'.run
  BY <1>5 DEF ReplyFits, Grown, ActivityFits
<1> QED
  BY <1>6, <1>7, <1>8, <1>9 DEF ReplyFits, RunCall, Open

LEMMA ServerInv ==
  ASSUME IInv, Grown, ChildrenFit', UNCHANGED <<storage, view, gone, calls, late>>,
         net' \subseteq net, \A s \in Repairs : RepairFits(s)',
         TokensFit', KeyKeepsAnswer', CallsFit', RepliesFit'
  PROVE  IInv'
<1> USE DEF IInv
<1>1. Types' /\ RowsFit'
  BY DEF Types, Grown
<1>2. view \in Page /\ view # None
  BY NoneAssumption DEF Types
<1>3. RepairsFit'
  <2>1. Repairs' \subseteq Repairs
    BY DEF Repairs, OwnRepair
  <2> QED
    BY <2>1 DEF RepairsFit
<1>4. WaitsWell'
  BY DEF WaitsWell, Answered, Open, RunCall
<1>5. ShowsWell'
  BY DEF ShowsWell, Grown
<1>6. RunsFit'
  BY DEF RunsFit, Grown
<1>7. /\ view.repair # None => Has(view.repair.parent)
      /\ storage # None /\ storage.repair # None => Has(storage.repair.parent)
  BY <1>2 DEF RepairsFit, RepairFits, Repairs, OwnRepair
<1>8. storage # None /\ storage.pending # None => Has(storage.pending.act)
  BY DEF TokensFit, TokenFits, Tokens, Kept
<1>9. view.activity # None => Has(view.activity.id)
  BY DEF ShowsWell, ActivityFits
<1>10. StoresWell'
  BY <1>7, <1>8, <1>9 DEF StoresWell, Grown
<1>11. UncertainIsRetained'
  <2> SUFFICES ASSUME ~late, NEW s \in Submissions', Open(At(s.act)')
               PROVE  s \in Kept(storage)
    BY DEF UncertainIsRetained, At, Kept
  <2>1. s \in Submissions
    BY DEF Submissions
  <2>2. Has(s.act)
    BY <2>1 DEF TokensFit, TokenFits, Tokens
  <2>3. Open(At(s.act))
    BY <2>2 DEF Grown, Open
  <2> QED
    BY <2>1, <2>3 DEF UncertainIsRetained, At
<1> QED
  BY <1>1, <1>3, <1>4, <1>5, <1>6, <1>10, <1>11

LEMMA AnswersInv ==
  ASSUME IInv, NEW q \in net, NEW reply, Answers(q, reply), Grown, ChildrenFit',
         \A s \in Repairs : RepairFits(s)', Recorded' \subseteq Recorded \union Tokens,
         view.call = q => ReplyFits(q, reply)'
  PROVE  IInv'
<1> USE DEF IInv
<1>1. /\ net' = net \ {q} /\ UNCHANGED <<storage, view, gone, calls, late>>
      /\ DOMAIN replies' \subseteq DOMAIN replies \union {q.id}
  BY DEF Answers
<1>2. Tokens' \subseteq Tokens
  BY <1>1 DEF Tokens, Submissions, Kept
<1>3. TokensFit' /\ KeyKeepsAnswer'
  BY <1>2, TokensKept
<1>4. CallsFit'
  BY <1>1 DEF CallsFit
<1>5. RepliesFit'
  <2> SUFFICES ASSUME view.call # None, view.call.id \in DOMAIN replies'
               PROVE  ReplyFits(view.call, replies[view.call.id])'
    BY <1>1 DEF RepliesFit
  <2>1. CASE view.call.id = q.id /\ replies' # replies
    <3>1. view.call = q
      BY <2>1 DEF CallsFit
    <3>2. replies'[view.call.id] = reply
      BY <2>1 DEF Answers
    <3>3. ReplyFits(q, reply)'
      BY <3>1
    <3> QED
      BY <1>1, <3>1, <3>2, <3>3
  <2>2. CASE ~(view.call.id = q.id /\ replies' # replies)
    <3>1. view.call.id \in DOMAIN replies /\ replies'[view.call.id] = replies[view.call.id]
      BY <1>1, <2>2 DEF Answers
    <3>2. ReplyFits(view.call, replies[view.call.id])
      BY <3>1 DEF RepliesFit
    <3>3. PICK r : r = replies[view.call.id]
      OBVIOUS
    <3>4. ReplyFits(view.call, r)'
      BY <1>1, <3>2, <3>3, ReplyStays
    <3> QED
      BY <1>1, <3>1, <3>3, <3>4
  <2> QED
    BY <2>1, <2>2
<1> QED
  BY <1>1, <1>3, <1>4, <1>5, ServerInv

LEMMA LastOf ==
  ASSUME NEW n \in Nat, NEW S \in SUBSET (1..n), S # {}
  PROVE  \E i \in S : \A j \in S : j <= i
<1> DEFINE T == {n - i : i \in S}
<1>1. T \subseteq Nat /\ T # {}
  <2>1. \A i \in S : i \in 1..n
    OBVIOUS
  <2>2. \A i \in S : n - i \in Nat
    BY <2>1
  <2>3. T \subseteq Nat
    BY <2>2
  <2>4. PICK i \in S : TRUE
    OBVIOUS
  <2>5. n - i \in T
    OBVIOUS
  <2> QED
    BY <2>3, <2>5
<1>2. PICK least \in T : \A m \in T : ~(<<m, least>> \in OpToRel(<, Nat))
  <2>1. IsWellFoundedOn(OpToRel(<, Nat), Nat)
    BY NatLessThanWellFounded
  <2> QED
    BY <1>1, <2>1, WFMin
<1>3. \A m \in T : ~(m < least)
  BY <1>1, <1>2 DEF OpToRel
<1>4. PICK i \in S : least = n - i
  OBVIOUS
<1>5. \A j \in S : n - j \in T
  OBVIOUS
<1>6. ASSUME NEW j \in S PROVE j <= i
  BY <1>3, <1>4, <1>5
<1> QED
  BY <1>6

LEMMA PublicFits ==
  ASSUME Types, RowsFit, NEW i \in DOMAIN rows
  PROVE  /\ Public(i) # None /\ Public(i).id = rows[i].id /\ ActivityFits(Public(i))
         /\ At(Public(i).id) = rows[i]
<1>1. /\ rows[i].id \in Nat /\ rows[i].parent \in Nat \union {None}
      /\ rows[i].answer \in Answer \union {None}
  BY RowTyped
<1>2. Public(i) \in Activity /\ Public(i).id = rows[i].id /\ Public(i).answer = rows[i].answer
  BY <1>1 DEF Public, Activity
<1> QED
  BY <1>2, RowIs, NoneAssumption DEF ActivityFits

LEMMA CurrentFits ==
  ASSUME Types, RowsFit, NEW r
  PROVE  /\ Current(r) # None => ActivityFits(Current(r)) /\ At(Current(r).id).run = r
         /\ OfRun(r) # {} => Current(r) # None
         /\ \A i \in OpenIn(r) : Current(r) # None /\ Current(r).id = rows[i].id
<1>1. /\ DOMAIN rows = 1..Len(rows) /\ Len(rows) \in Nat
      /\ OfRun(r) \subseteq DOMAIN rows /\ OpenIn(r) \subseteq OfRun(r)
  BY DEF Types, OfRun, OpenIn
<1>2. CASE OfRun(r) = {}
  BY <1>1, <1>2 DEF Current
<1>3. CASE OpenIn(r) # {}
  <2>1. PICK i \in OpenIn(r) : TRUE
    BY <1>3
  <2>2. \A j \in OpenIn(r) : j = i
    BY <1>1, <2>1 DEF OpenIn, OfRun, RowsFit
  <2>3. i \in 1..Len(rows) /\ i <= i
    BY <1>1, <2>1
  <2>4. i = CHOOSE k \in OpenIn(r) : \A j \in OpenIn(r) : k <= j
    BY <2>1, <2>2, <2>3
  <2>5. Current(r) = Public(i)
    BY <1>1, <1>3, <2>4 DEF Current
  <2> QED
    BY <1>1, <2>1, <2>2, <2>5, PublicFits DEF OfRun
<1>4. CASE OpenIn(r) = {} /\ OfRun(r) # {}
  <2>1. \E i \in OfRun(r) : \A j \in OfRun(r) : j <= i
    BY <1>1, <1>4, LastOf
  <2>2. PICK i \in OfRun(r) : i = CHOOSE k \in OfRun(r) : \A j \in OfRun(r) : j <= k
    BY <2>1
  <2>3. Current(r) = Public(i)
    BY <1>4, <2>2 DEF Current
  <2> QED
    BY <1>1, <1>4, <2>3, PublicFits DEF OfRun
<1> QED
  BY <1>2, <1>3, <1>4

LEMMA ServeRunInv ==
  ASSUME IInv, NEW q \in net, ServeRun(q)
  PROVE  IInv'
<1> USE DEF IInv
<1>1. /\ q.name \in {"load", "rejected"} /\ UNCHANGED <<rows, uuid>> /\ uuid \in Nat
      /\ Answers(q, Ok(Current(q.run)))
  BY DEF ServeRun, Types
<1>2. PICK reply : reply = Ok(Current(q.run))
  OBVIOUS
<1>3. reply.activity = Current(q.run)
  BY <1>2 DEF Ok
<1>4. /\ Grown /\ \A s : RepairFits(s) => RepairFits(s)'
      /\ Recorded' = Recorded /\ ChildrenFit'
  BY <1>1, Quiet
<1>5. ASSUME view.call = q, view.call # None PROVE ReplyFits(q, reply)
  <2>1. q.run = view.run
    BY <1>1, <1>5 DEF WaitsWell, RunCall
  <2>2. reply.activity # None => ActivityFits(reply.activity) /\ At(reply.activity.id).run = q.run
    BY <1>3, CurrentFits
  <2>3. view.repair # None => reply.activity # None
    BY <1>3, <2>1, CurrentFits DEF RunsFit
  <2>4. ASSUME view.pending # None, ~late, Open(At(view.pending.act))
        PROVE  reply.activity # None /\ reply.activity.id = view.pending.act
    <3>1. /\ view.mounted /\ storage # None /\ storage.pending = view.pending
          /\ At(view.pending.act).run = view.run
      BY <1>5, <2>4 DEF WaitsWell, StoresWell
    <3>2. Has(view.pending.act)
      BY <2>4, <3>1 DEF TokensFit, TokenFits, Tokens, Kept
    <3>3. Row(view.pending.act) \in OpenIn(view.run)
      BY <2>4, <3>1, <3>2, HasRow DEF OpenIn, OfRun
    <3> QED
      BY <1>3, <2>1, <3>2, <3>3, CurrentFits, HasRow
  <2> QED
    BY <1>1, <2>2, <2>3, <2>4 DEF ReplyFits
<1>6. q # None
  BY NoneAssumption DEF Types
<1>7. view.call = q => ReplyFits(q, reply)'
  <2> SUFFICES ASSUME view.call = q PROVE ReplyFits(view.call, reply)'
    BY <1>1 DEF Answers
  <2>1. ReplyFits(view.call, reply)
    BY <1>5, <1>6
  <2> QED
    BY <1>1, <1>4, <1>6, <2>1, ReplyStays DEF Answers
<1>8. \A s \in Repairs : RepairFits(s)'
  BY <1>4 DEF RepairsFit
<1> QED
  BY <1>1, <1>2, <1>4, <1>7, <1>8, AnswersInv

LEMMA RowAdded ==
  ASSUME Types, RowsFit, ChildrenFit, NEW id \in Nat, NEW r \in RunId,
         NEW parent \in Nat \union {None}, rows' = Append(rows, NewRow(id, r, parent)),
         uuid' \in Nat, uuid <= uuid', id <= uuid', OpenIn(r) = {},
         \A i \in DOMAIN rows : rows[i].id # id,
         parent # None => Has(parent) /\ At(parent).run = r
  PROVE  /\ Grown /\ ChildrenFit' /\ Recorded' \subseteq Recorded
         /\ Has(id)' /\ At(id)'.run = r /\ At(id)'.answer = None
         /\ \A s : RepairFits(s) /\ (s.id = id => s.parent = parent) => RepairFits(s)'
<1>1. PICK row : row = NewRow(id, r, parent)
  OBVIOUS
<1>2. /\ row \in RowType /\ row.id = id /\ row.run = r /\ row.parent = parent /\ row.answer = None
  BY <1>1 DEF RowType, NewRow
<1>3. PICK n \in Nat : n = Len(rows) + 1
  BY DEF Types
<1>4. /\ rows \in Seq(RowType) /\ DOMAIN rows = 1..(n - 1) /\ rows' = Append(rows, row) /\ uuid \in Nat
  BY <1>1, <1>3 DEF Types
<1>5. /\ rows' \in Seq(RowType) /\ DOMAIN rows' = DOMAIN rows \union {n} /\ n \notin DOMAIN rows
      /\ rows'[n] = row /\ \A i \in DOMAIN rows : rows'[i] = rows[i]
  BY <1>2, <1>3, <1>4
<1>6. \A i \in DOMAIN rows : rows[i].id \in Nat
  BY RowTyped
<1>7. RowsFit'
  <2>1. \A i, j \in DOMAIN rows' : rows'[i].id = rows'[j].id => i = j
    BY <1>2, <1>5 DEF RowsFit
  <2>2. \A i \in DOMAIN rows' : /\ rows'[i].id <= uuid'
                                /\ rows'[i].answer # None => rows'[i].key \in 1..uuid'
    BY <1>2, <1>4, <1>5, <1>6 DEF RowsFit, Open
  <2>3. \A i \in DOMAIN rows : ~(rows[i].answer = None /\ rows[i].run = r)
    BY DEF OpenIn, OfRun, Open
  <2>4. \A i, j \in DOMAIN rows' :
          rows'[i].answer = None /\ rows'[j].answer = None /\ rows'[i].run = rows'[j].run => i = j
    BY <1>2, <1>5, <2>3 DEF RowsFit, Open
  <2> QED
    BY <2>1, <2>2, <2>4 DEF RowsFit, Open
<1>8. Grown
  BY <1>5, <1>7, Growth
<1>9. Has(id)' /\ At(id)' = row
  <2>1. Has(id)' /\ Row(id)' = n
    BY <1>2, <1>5, <1>7 DEF Has, Row, RowsFit
  <2> QED
    BY <1>5, <2>1 DEF At
<1>10. ChildrenFit'
  <2> SUFFICES ASSUME NEW i \in DOMAIN rows', NEW a, a = rows'[i].parent, a # None
               PROVE  Has(a)' /\ rows'[i].run = At(a)'.run
    BY DEF ChildrenFit, At, Has, Row
  <2>1. CASE i = n
    BY <1>2, <1>5, <1>8, <2>1 DEF Grown
  <2>2. CASE i \in DOMAIN rows
    BY <1>5, <1>8, <2>2 DEF Grown, ChildrenFit
  <2> QED
    BY <1>5, <2>1, <2>2
<1>11. Recorded' \subseteq Recorded
  <2> SUFFICES ASSUME NEW i \in DOMAIN rows', ~Open(rows'[i])
               PROVE  i \in DOMAIN rows /\ rows'[i] = rows[i]
    BY DEF Recorded, Open
  <2> QED
    BY <1>2, <1>5 DEF Open
<1>12. ASSUME NEW s, RepairFits(s), s.id = id => s.parent = parent PROVE RepairFits(s)'
  <2>1. \A i \in DOMAIN rows' : rows'[i].id = s.id => rows'[i].parent = s.parent
    BY <1>2, <1>5, <1>12 DEF RepairFits
  <2>2. s \in RepairToken /\ s.id <= uuid' /\ Has(s.parent)'
    BY <1>4, <1>8, <1>12 DEF RepairFits, RepairToken, Grown
  <2> QED
    BY <2>1, <2>2 DEF RepairFits
<1> QED
  BY <1>2, <1>8, <1>9, <1>10, <1>11, <1>12

LEMMA ServeNextInv ==
  ASSUME IInv, NEW q \in net, ServeNext(q)
  PROVE  IInv'
<1> USE DEF IInv
<1>1. q.name = "next" /\ q \in Request /\ uuid \in Nat /\ q.run \in RunId
  BY DEF ServeNext, Types, Request
<1>2. ASSUME NEW reply, Answers(q, reply), UNCHANGED <<rows, uuid>>,
             reply.activity # None => ActivityFits(reply.activity) /\ At(reply.activity.id).run = q.run
      PROVE  IInv'
  <2>1. /\ Grown /\ \A s : RepairFits(s) => RepairFits(s)'
        /\ Recorded' = Recorded /\ ChildrenFit'
    BY <1>1, <1>2, Quiet
  <2>2. ReplyFits(q, reply)
    BY <1>1, <1>2 DEF ReplyFits
  <2>3. ASSUME view.call = q PROVE ReplyFits(q, reply)'
    <3>1. view.call # None /\ UNCHANGED <<view, late>>
      BY <1>1, <1>2, <2>3, NoneAssumption DEF Answers
    <3>2. ReplyFits(view.call, reply)
      BY <2>2, <2>3
    <3>3. ReplyFits(view.call, reply)'
      BY <2>1, <3>1, <3>2, ReplyStays
    <3> QED
      BY <2>3, <3>1, <3>3
  <2>4. \A s \in Repairs : RepairFits(s)'
    BY <2>1 DEF RepairsFit
  <2> QED
    BY <1>2, <2>1, <2>3, <2>4, AnswersInv
<1>3. CASE OpenIn(q.run) # {}
  <2>1. PICK reply : reply = Ok(Current(q.run))
    OBVIOUS
  <2>2. reply.activity = Current(q.run)
    BY <2>1 DEF Ok
  <2>3. Answers(q, reply) /\ UNCHANGED <<rows, uuid>>
    BY <1>3, <2>1 DEF ServeNext
  <2> QED
    BY <1>2, <2>2, <2>3, CurrentFits
<1>4. CASE Answers(q, Ok(None)) /\ UNCHANGED <<rows, uuid>>
  <2>1. PICK reply : reply = Ok(None)
    OBVIOUS
  <2>2. reply.activity = None
    BY <2>1 DEF Ok
  <2> QED
    BY <1>2, <1>4, <2>1, <2>2
<1>5. CASE /\ OpenIn(q.run) = {} /\ uuid' = uuid + 1
           /\ rows' = Append(rows, NewRow(uuid', q.run, None))
           /\ Answers(q, Ok([id |-> uuid', parent |-> None, answer |-> None]))
  <2>1. PICK n \in Nat : n = uuid + 1
    BY <1>1
  <2>2. /\ rows' = Append(rows, NewRow(n, q.run, None)) /\ uuid' = n /\ n <= uuid' /\ uuid <= uuid'
        /\ Answers(q, Ok([id |-> n, parent |-> None, answer |-> None]))
    BY <1>1, <1>5, <2>1
  <2>3. \A i \in DOMAIN rows : rows[i].id # n
    BY <1>1, <2>1, RowTyped DEF RowsFit
  <2>4. /\ Grown /\ ChildrenFit' /\ Recorded' \subseteq Recorded
        /\ Has(n)' /\ At(n)'.run = q.run /\ At(n)'.answer = None
        /\ \A s : RepairFits(s) /\ s.id # n => RepairFits(s)'
    BY <1>1, <1>5, <2>1, <2>2, <2>3, RowAdded
  <2>5. PICK a : a = [id |-> n, parent |-> None, answer |-> None]
    OBVIOUS
  <2>6. a.id = n /\ ActivityFits(a)'
    BY <2>1, <2>4, <2>5 DEF ActivityFits, Activity
  <2>7. PICK reply : reply = Ok(a)
    OBVIOUS
  <2>8. reply.activity = a
    BY <2>7 DEF Ok
  <2>9. ReplyFits(q, reply)'
    BY <1>1, <2>4, <2>6, <2>8 DEF ReplyFits
  <2>10. \A s \in Repairs : RepairFits(s)'
    <3>1. \A s \in Repairs : RepairFits(s) /\ s.id # n
      BY <1>1, <2>1 DEF RepairsFit, RepairFits, RepairToken
    <3> QED
      BY <2>4, <3>1
  <2> QED
    BY <2>2, <2>4, <2>5, <2>7, <2>9, <2>10, AnswersInv
<1> QED
  BY <1>3, <1>4, <1>5 DEF ServeNext

LEMMA RowAnswered ==
  ASSUME Types, RowsFit, ChildrenFit, NEW i \in DOMAIN rows, Open(rows[i]),
         NEW k \in Nat, NEW answer \in Answer,
         rows' = [rows EXCEPT ![i].key = k, ![i].answer = answer],
         uuid' \in Nat, uuid <= uuid', k \in 1..uuid'
  PROVE  /\ Grown /\ ChildrenFit' /\ At(rows[i].id)'.answer = answer
         /\ Recorded' \subseteq Recorded \union {[act |-> rows[i].id, key |-> k, answer |-> answer]}
         /\ \A s : RepairFits(s) => RepairFits(s)'
<1>1. /\ rows \in Seq(RowType) /\ uuid \in Nat /\ rows[i] \in RowType
      /\ \A j \in DOMAIN rows : rows[j].id \in Nat
  BY RowTyped DEF Types
<1>2. PICK row : row = [rows[i] EXCEPT !.key = k, !.answer = answer]
  OBVIOUS
<1>3. /\ row \in RowType /\ row.id = rows[i].id /\ row.run = rows[i].run
      /\ row.parent = rows[i].parent /\ row.key = k /\ row.answer = answer /\ answer # None
  BY <1>1, <1>2, AnswerAssumption DEF RowType
<1>4. rows' = [rows EXCEPT ![i] = row]
  BY <1>1, <1>2
<1>5. /\ rows' \in Seq(RowType) /\ DOMAIN rows' = DOMAIN rows /\ rows'[i] = row
      /\ \A j \in DOMAIN rows : j # i => rows'[j] = rows[j]
  <2>1. /\ DOMAIN rows' = DOMAIN rows /\ rows'[i] = row
        /\ \A j \in DOMAIN rows : j # i => rows'[j] = rows[j]
    BY <1>4
  <2>2. i \in 1..Len(rows)
    BY <1>1
  <2>3. [rows EXCEPT ![i] = row] \in Seq(RowType)
    BY <1>1, <1>3, <2>2, ExceptSeq
  <2> QED
    BY <1>4, <2>1, <2>3
<1>6. \A j \in DOMAIN rows : /\ rows'[j].id = rows[j].id /\ rows'[j].run = rows[j].run
                             /\ rows'[j].parent = rows[j].parent
                             /\ rows'[j].answer = None => rows[j].answer = None
                             /\ rows[j].answer # None => rows'[j] = rows[j]
  BY <1>3, <1>5 DEF Open
<1>7. RowsFit'
  <2>1. \A j, m \in DOMAIN rows' : rows'[j].id = rows'[m].id => j = m
    BY <1>5, <1>6 DEF RowsFit
  <2>2. \A j \in DOMAIN rows' : /\ rows'[j].id <= uuid'
                                /\ rows'[j].answer # None => rows'[j].key \in 1..uuid'
    BY <1>1, <1>3, <1>5, <1>6 DEF RowsFit, Open
  <2>3. \A j, m \in DOMAIN rows' :
          rows'[j].answer = None /\ rows'[m].answer = None /\ rows'[j].run = rows'[m].run => j = m
    BY <1>5, <1>6 DEF RowsFit, Open
  <2> QED
    BY <2>1, <2>2, <2>3 DEF RowsFit, Open
<1>8. Grown
  BY <1>5, <1>6, <1>7, Growth DEF Open
<1>9. ChildrenFit'
  <2> SUFFICES ASSUME NEW j \in DOMAIN rows', NEW b, b = rows'[j].parent, b # None
               PROVE  Has(b)' /\ rows'[j].run = At(b)'.run
    BY DEF ChildrenFit, At, Has, Row
  <2>1. Has(b) /\ rows[j].run = At(b).run
    BY <1>5, <1>6 DEF ChildrenFit
  <2> QED
    BY <1>5, <1>6, <1>8, <2>1 DEF Grown
<1>10. Recorded' \subseteq Recorded \union {[act |-> rows[i].id, key |-> k, answer |-> answer]}
  <2> SUFFICES ASSUME NEW j \in DOMAIN rows', ~Open(rows'[j])
               PROVE  [act |-> rows'[j].id, key |-> rows'[j].key, answer |-> rows'[j].answer]
                        \in Recorded \union {[act |-> rows[i].id, key |-> k, answer |-> answer]}
    BY DEF Recorded, Open
  <2>1. CASE j = i
    BY <1>3, <1>5, <2>1
  <2>2. CASE j # i
    BY <1>5, <2>2 DEF Recorded
  <2> QED
    BY <2>1, <2>2
<1>11. ASSUME NEW s, RepairFits(s) PROVE RepairFits(s)'
  <2>1. \A j \in DOMAIN rows' : rows'[j].id = s.id => rows'[j].parent = s.parent
    BY <1>5, <1>6, <1>11 DEF RepairFits
  <2>2. s \in RepairToken /\ s.id <= uuid' /\ Has(s.parent)'
    BY <1>1, <1>8, <1>11 DEF RepairFits, RepairToken, Grown
  <2> QED
    BY <2>1, <2>2 DEF RepairFits
<1>12. At(rows[i].id)'.answer = answer
  <2>1. rows'[i].id = rows[i].id /\ i \in DOMAIN rows'
    BY <1>5, <1>6
  <2>2. At(rows[i].id)' = rows'[i]
    BY <1>7, <2>1 DEF At, Row, RowsFit
  <2> QED
    BY <1>3, <1>5, <2>2
<1> QED
  BY <1>8, <1>9, <1>10, <1>11, <1>12

LEMMA ServeSubmitInv ==
  ASSUME IInv, NEW q \in net, ServeSubmit(q)
  PROVE  IInv'
<1> USE DEF IInv
<1>1. q.name = "submit" /\ q \in Request /\ uuid' = uuid /\ uuid \in Nat /\ q # None
  BY NoneAssumption DEF ServeSubmit, Types
<1>2. q.token \in Tokens /\ TokenFits(q.token)
  BY <1>1 DEF Tokens, Submissions, TokensFit
<1>3. PICK i \in DOMAIN rows : i = Row(q.token.act) /\ rows[i].id = q.token.act
  BY <1>2, HasRow DEF TokenFits
<1>4. /\ q.token \in Token /\ q.token.key \in 1..uuid /\ q.token.key \in Nat
      /\ q.token.answer \in Answer
      /\ [act |-> rows[i].id, key |-> q.token.key, answer |-> q.token.answer] = q.token
  BY <1>1, <1>2, <1>3 DEF TokenFits, Token
<1>5. CASE /\ Open(rows[i])
           /\ rows' = [rows EXCEPT ![i].key = q.token.key, ![i].answer = q.token.answer]
           /\ Answers(q, [ok |-> TRUE, answer |-> q.token.answer])
  <2>1. PICK reply : reply = [ok |-> TRUE, answer |-> q.token.answer]
    OBVIOUS
  <2>2. /\ Grown /\ ChildrenFit' /\ At(rows[i].id)'.answer = q.token.answer
        /\ Recorded' \subseteq Recorded \union {q.token}
        /\ \A s : RepairFits(s) => RepairFits(s)'
    <3>1. PICK k \in Nat, answer \in Answer : k = q.token.key /\ answer = q.token.answer
      BY <1>4
    <3>2. /\ rows' = [rows EXCEPT ![i].key = k, ![i].answer = answer]
          /\ uuid' \in Nat /\ uuid <= uuid' /\ k \in 1..uuid'
      BY <1>1, <1>4, <1>5, <3>1
    <3> QED
      BY <1>4, <1>5, <3>1, <3>2, RowAnswered
  <2>3. At(q.token.act)'.answer = q.token.answer
    <3>1. PICK a : a = q.token.act
      OBVIOUS
    <3>2. rows'[i].id = a /\ i \in DOMAIN rows' /\ rows'[i].answer = q.token.answer
      BY <1>3, <1>5, <3>1, RowTyped DEF RowType
    <3>3. At(a)' = rows'[i]
      BY <2>2, <3>2 DEF At, Row, RowsFit, Grown
    <3> QED
      BY <3>1, <3>2, <3>3
  <2>4. ReplyFits(q, reply)'
    BY <1>1, <1>4, <2>1, <2>3 DEF ReplyFits, RunCall
  <2>5. Recorded' \subseteq Recorded \union Tokens
    BY <1>2, <2>2
  <2>6. \A s \in Repairs : RepairFits(s)'
    BY <2>2 DEF RepairsFit
  <2> QED
    BY <1>5, <2>1, <2>2, <2>4, <2>5, <2>6, AnswersInv
<1>6. CASE /\ UNCHANGED rows
           /\ \/ /\ rows[i].answer = q.token.answer
                 /\ Answers(q, [ok |-> TRUE, answer |-> rows[i].answer])
              \/ Answers(q, Conflict)
  <2>1. PICK reply : /\ Answers(q, reply)
                     /\ reply.ok => reply.answer = q.token.answer /\ rows[i].answer = q.token.answer
    BY <1>6 DEF Conflict
  <2>2. /\ Grown /\ \A s : RepairFits(s) => RepairFits(s)'
        /\ Recorded' = Recorded /\ ChildrenFit'
    BY <1>1, <1>6, Quiet
  <2>3. ReplyFits(q, reply)
    BY <1>1, <1>3, <1>4, <2>1 DEF ReplyFits, RunCall, At
  <2>4. ASSUME view.call = q PROVE ReplyFits(q, reply)'
    <3>1. view.call # None /\ UNCHANGED <<view, late>>
      BY <1>1, <2>1, <2>4 DEF Answers
    <3>2. ReplyFits(view.call, reply)
      BY <2>3, <2>4
    <3>3. ReplyFits(view.call, reply)'
      BY <2>2, <3>1, <3>2, ReplyStays
    <3> QED
      BY <2>4, <3>1, <3>3
  <2>5. \A s \in Repairs : RepairFits(s)'
    BY <2>2 DEF RepairsFit
  <2> QED
    BY <2>1, <2>2, <2>4, <2>5, AnswersInv
<1> QED
  BY <1>3, <1>5, <1>6 DEF ServeSubmit

LEMMA ServeRepairInv ==
  ASSUME IInv, NEW q \in net, ServeRepair(q)
  PROVE  IInv'
<1> USE DEF IInv
<1>1. q.name = "repair" /\ q \in Request /\ uuid' = uuid /\ uuid \in Nat /\ q # None
  BY NoneAssumption DEF ServeRepair, Types
<1>2. q.token \in Repairs /\ RepairFits(q.token)
  BY <1>1 DEF Repairs, RepairsFit
<1>3. PICK p \in DOMAIN rows : p = Row(q.token.parent) /\ rows[p] = At(q.token.parent)
  BY <1>2, HasRow DEF RepairFits
<1>4. /\ q.token.id \in Nat /\ q.token.parent \in Nat /\ q.token.parent # None
      /\ q.token.id <= uuid /\ Has(q.token.parent)
  BY <1>2, NoneAssumption DEF RepairFits, RepairToken
<1>5. ASSUME UNCHANGED rows, NEW reply, Answers(q, reply),
             reply.ok => /\ ActivityFits(reply.activity)
                         /\ At(reply.activity.id).run = At(q.token.parent).run
      PROVE  IInv'
  <2>1. /\ Grown /\ \A s : RepairFits(s) => RepairFits(s)'
        /\ Recorded' = Recorded /\ ChildrenFit'
    BY <1>1, <1>5, Quiet
  <2>2. ReplyFits(q, reply)
    BY <1>1, <1>5 DEF ReplyFits, RunCall
  <2>3. ASSUME view.call = q PROVE ReplyFits(q, reply)'
    <3>1. view.call # None /\ UNCHANGED <<view, late>>
      BY <1>1, <1>5, <2>3 DEF Answers
    <3>2. ReplyFits(view.call, reply)
      BY <2>2, <2>3
    <3>3. ReplyFits(view.call, reply)'
      BY <2>1, <3>1, <3>2, ReplyStays
    <3> QED
      BY <2>3, <3>1, <3>3
  <2>4. \A s \in Repairs : RepairFits(s)'
    BY <2>1 DEF RepairsFit
  <2> QED
    BY <1>5, <2>1, <2>3, <2>4, AnswersInv
<1>6. ASSUME NEW i \in DOMAIN rows, rows[i].parent = q.token.parent, UNCHANGED rows,
             Answers(q, Ok(Public(i)))
      PROVE  IInv'
  <2>1. PICK reply : reply = Ok(Public(i))
    OBVIOUS
  <2>2. reply.activity = Public(i)
    BY <2>1 DEF Ok
  <2>3. rows[i].run = At(q.token.parent).run
    BY <1>4, <1>6 DEF ChildrenFit
  <2>4. ActivityFits(reply.activity) /\ At(reply.activity.id).run = At(q.token.parent).run
    BY <2>2, <2>3, PublicFits
  <2> QED
    BY <1>5, <1>6, <2>1, <2>4
<1>7. CASE Answers(q, Conflict) /\ UNCHANGED rows
  <2>1. PICK reply : reply = Conflict
    OBVIOUS
  <2>2. ~reply.ok
    BY <2>1 DEF Conflict
  <2> QED
    BY <1>5, <1>7, <2>1, <2>2
<1>8. CASE /\ \A i \in DOMAIN rows : rows[i].parent # q.token.parent
           /\ OpenIn(rows[p].run) = {}
           /\ rows' = Append(rows, NewRow(q.token.id, rows[p].run, q.token.parent))
           /\ Answers(q, Ok([id |-> q.token.id, parent |-> q.token.parent, answer |-> None]))
  <2>1. PICK n \in Nat, par \in Nat, r \in RunId :
          n = q.token.id /\ par = q.token.parent /\ r = rows[p].run
    BY <1>4, RowTyped
  <2>2. /\ par # None /\ Has(par) /\ At(par).run = r /\ n <= uuid'
        /\ rows' = Append(rows, NewRow(n, r, par)) /\ OpenIn(r) = {}
        /\ uuid' \in Nat /\ uuid <= uuid'
    BY <1>1, <1>3, <1>4, <1>8, <2>1
  <2>3. \A i \in DOMAIN rows : rows[i].id # n
    BY <1>2, <1>8, <2>1 DEF RepairFits
  <2>4. /\ Grown /\ ChildrenFit' /\ Recorded' \subseteq Recorded
        /\ Has(n)' /\ At(n)'.run = r /\ At(n)'.answer = None
        /\ \A s : RepairFits(s) /\ (s.id = n => s.parent = par) => RepairFits(s)'
    BY <2>2, <2>3, RowAdded
  <2>5. PICK a : a = [id |-> n, parent |-> par, answer |-> None]
    OBVIOUS
  <2>6. a.id = n /\ ActivityFits(a)'
    BY <2>1, <2>4, <2>5 DEF ActivityFits, Activity
  <2>7. PICK reply : reply = Ok(a)
    OBVIOUS
  <2>8. reply.activity = a
    BY <2>7 DEF Ok
  <2>9. At(par)'.run = r
    BY <2>2, <2>4 DEF Grown
  <2>10. ReplyFits(q, reply)'
    BY <1>1, <2>1, <2>4, <2>6, <2>8, <2>9 DEF ReplyFits, RunCall
  <2>11. \A s \in Repairs : RepairFits(s)'
    BY <1>2, <2>1, <2>4 DEF RepairsFit
  <2> QED
    BY <1>8, <2>1, <2>4, <2>5, <2>7, <2>10, <2>11, AnswersInv
<1> QED
  BY <1>3, <1>6, <1>7, <1>8 DEF ServeRepair

LEMMA ElsewhereInv ==
  ASSUME IInv, NEW i \in DOMAIN rows, NEW answer \in Answer, AnswerElsewhere(i, answer)
  PROVE  IInv'
<1> USE DEF IInv
<1>1. PICK k \in Nat : k = uuid + 1
  BY DEF Types
<1>2. /\ Open(rows[i]) /\ uuid \in Nat /\ uuid' = k /\ uuid' \in Nat /\ uuid <= uuid' /\ k \in 1..uuid'
      /\ rows' = [rows EXCEPT ![i].key = k, ![i].answer = answer]
      /\ UNCHANGED <<net, replies, storage, view, gone, calls, late>>
  BY <1>1 DEF AnswerElsewhere, Types
<1>3. PICK x : x = [act |-> rows[i].id, key |-> k, answer |-> answer]
  OBVIOUS
<1>4. /\ Grown /\ ChildrenFit' /\ Recorded' \subseteq Recorded \union {x}
      /\ \A s : RepairFits(s) => RepairFits(s)'
  BY <1>2, <1>3, RowAnswered
<1>5. Tokens' = Tokens
  BY <1>2 DEF Tokens, Submissions, Kept
<1>6. TokensFit'
  BY <1>4, <1>5 DEF TokensFit, Grown
<1>7. KeyKeepsAnswer'
  <2>1. x.key = uuid + 1
    BY <1>1, <1>3
  <2>2. (Tokens \union Recorded)' \subseteq Tokens \union Recorded \union {x}
    BY <1>4, <1>5
  <2> QED
    BY <2>1, <2>2, KeysApart
<1>8. CallsFit'
  BY <1>2 DEF CallsFit
<1>9. RepliesFit'
  <2> SUFFICES ASSUME view.call # None, view.call.id \in DOMAIN replies
               PROVE  ReplyFits(view.call, replies[view.call.id])'
    BY <1>2 DEF RepliesFit
  <2>1. PICK r : r = replies[view.call.id] /\ ReplyFits(view.call, r)
    BY DEF RepliesFit
  <2>2. ReplyFits(view.call, r)'
    BY <1>2, <1>4, <2>1, ReplyStays
  <2> QED
    BY <1>2, <2>1, <2>2
<1>10. \A s \in Repairs : RepairFits(s)'
  BY <1>4 DEF RepairsFit
<1> QED
  BY <1>2, <1>4, <1>6, <1>7, <1>8, <1>9, <1>10, ServerInv

-----------------------------------------------------------------------------
(* Every behaviour.                                                        *)

LEMMA InitInv == Init => IInv
<1> SUFFICES ASSUME Init PROVE IInv
  OBVIOUS
<1>1. /\ rows = <<>> /\ net = {} /\ replies = <<>> /\ storage = None /\ gone = {}
      /\ uuid = 0 /\ calls = 0 /\ ~late /\ late \in BOOLEAN
  BY DEF Init
<1>2. /\ view \in Page /\ ~view.mounted /\ view.call = None /\ view.activity = None
      /\ view.pending = None /\ view.repair = None /\ ~view.loaded
      /\ view = [Blank EXCEPT !.mounted = FALSE]
  BY BlankTyped DEF Init, Blank, Page
<1>3. Types /\ RowsFit /\ ChildrenFit
  BY <1>1, <1>2 DEF Types, RowsFit, ChildrenFit
<1>4. /\ Submissions = {} /\ Kept(storage) = {} /\ Kept(view) = {} /\ Recorded = {}
  BY <1>1, <1>2 DEF Submissions, Kept, Recorded
<1>5. TokensFit /\ KeyKeepsAnswer /\ UncertainIsRetained
  BY <1>4 DEF TokensFit, Tokens, KeyKeepsAnswer, UncertainIsRetained
<1>6. RepairsFit
  BY <1>1, <1>2 DEF RepairsFit, Repairs, OwnRepair
<1>7. CallsFit /\ RepliesFit /\ WaitsWell /\ ShowsWell
  BY <1>1, <1>2 DEF CallsFit, RepliesFit, WaitsWell, ShowsWell
<1>8. RunsFit /\ StoresWell
  BY <1>1, <1>2 DEF RunsFit, StoresWell
<1> QED
  BY <1>3, <1>5, <1>6, <1>7, <1>8 DEF IInv

LEMMA StutterInv ==
  ASSUME IInv, UNCHANGED vars
  PROVE  IInv'
<1>1. UNCHANGED <<rows, net, replies, storage, view, gone, uuid, calls, late>>
  BY DEF vars
<1>2. Types' /\ RowsFit' /\ ChildrenFit' /\ TokensFit' /\ RepairsFit' /\ KeyKeepsAnswer'
  <2>1. Tokens' = Tokens /\ Repairs' = Repairs
    BY <1>1 DEF Tokens, Repairs, Submissions, Kept, OwnRepair
  <2> QED
    BY <1>1, <2>1, PageStep DEF IInv, Types
<1>3. CallsFit' /\ RepliesFit'
  <2>1. CallsFit'
    BY <1>1 DEF IInv, CallsFit
  <2>2. RepliesFit'
    BY <1>1 DEF IInv, RepliesFit, ReplyFits, RunCall, ActivityFits, At, Has, Row, Open
  <2> QED
    BY <2>1, <2>2
<1>4. WaitsWell' /\ ShowsWell'
  BY <1>1 DEF IInv, WaitsWell, ShowsWell, RunCall, Answered, Open, ActivityFits, Has, At, Row
<1>5. RunsFit' /\ StoresWell'
  BY <1>1 DEF IInv, RunsFit, StoresWell, OfRun, At, Row
<1>6. UncertainIsRetained'
  BY <1>1 DEF IInv, UncertainIsRetained, Submissions, Kept, Row, Open
<1> QED
  BY <1>2, <1>3, <1>4, <1>5, <1>6 DEF IInv

LEMMA StepInv == IInv /\ [Next]_vars => IInv'
<1> SUFFICES ASSUME IInv, [Next]_vars PROVE IInv'
  OBVIOUS
<1>1. CASE Mount \/ Refresh \/ Reload
  BY <1>1, LoadsInv
<1>2. CASE Loaded
  BY <1>2, AdoptInv DEF Loaded
<1>3. CASE Leave
  BY <1>3, LeaveInv
<1>4. CASE NextActivity \/ NextArrives \/ NewRun
  BY <1>4, NextActivityInv, NextArrivesInv, NewRunInv
<1>5. ASSUME NEW answer \in Answer, Submit(answer) PROVE IInv'
  BY <1>5, SubmitInv
<1>6. CASE Submitted \/ Repair \/ Repaired \/ RepairRejected
  BY <1>6, SubmittedInv, RepairInv, RepairedInv, RepairRejectedInv
<1>7. CASE Reconciled
  BY <1>7, AdoptInv DEF Reconciled
<1>8. ASSUME NEW g \in gone, WritesLate(g) \/ EndsLate(g) PROVE IInv'
  BY <1>8, WritesLateInv, EndsLateInv
<1>9. CASE Fail
  BY <1>9, FailedInv DEF Fail
<1>10. ASSUME NEW q \in net, Serve(q) PROVE IInv'
  BY <1>10, ServeRunInv, ServeNextInv, ServeSubmitInv, ServeRepairInv DEF Serve
<1>11. ASSUME NEW i \in DOMAIN rows, NEW answer \in Answer, AnswerElsewhere(i, answer)
       PROVE  IInv'
  BY <1>11, ElsewhereInv
<1>12. CASE UNCHANGED vars
  BY <1>12, StutterInv
<1> QED
  BY <1>1, <1>2, <1>3, <1>4, <1>5, <1>6, <1>7, <1>8, <1>9, <1>10, <1>11, <1>12 DEF Next

\* What the page, its storage, the requests on their way and the server's rows have
\* to do with one another, at every moment.
THEOREM Invariance == Spec => []IInv
BY InitInv, StepInv, PTL DEF Spec

\* A key stands for one answer to one activity, wherever and however often it is sent.
THEOREM KeyKeepsItsAnswer == Spec => []KeyKeepsAnswer
<1>1. IInv => KeyKeepsAnswer
  BY DEF IInv
<1> QED
  BY <1>1, Invariance, PTL

\* The page shows as the result of an activity what the server keeps for it.
THEOREM ShownIsAlwaysStored == Spec => []ShownIsStored
<1>1. IInv => ShownIsStored
  BY DEF IInv, ShownIsStored, ShowsWell, ActivityFits, Answered, Open, At
<1> QED
  BY <1>1, Invariance, PTL

\* A submission that the server may still take as the first is in sessionStorage.
THEOREM UncertainIsAlwaysRetained == Spec => []UncertainIsRetained
<1>1. IInv => UncertainIsRetained
  BY DEF IInv
<1> QED
  BY <1>1, Invariance, PTL

-----------------------------------------------------------------------------
(* Whose answer closes an activity that the page shows as waiting.         *)

\* The activity waits, or another tab has answered it, or the answer was the
\* retained one, which the page will send again.
Mine(a) == \/ Open(At(a))
           \/ a \in elsewhere
           \/ view.pending # None /\ view.pending.key = At(a).key

\* The activity above the controls, and one that a reply brings.
Arriving ==
  {replies[c.id].activity : c \in {call \in {view.call} :
     /\ call # None /\ call.id \in DOMAIN replies
     /\ RunCall(call) \/ (call.name = "repair" /\ replies[call.id].ok)}}
Shown == ({view.activity} \union Arriving) \ {None}

OwnAnswers == ~late => \A b \in Shown : b.answer = None => Mine(b.id)

HInv == IInv /\ OwnAnswers

LEMMA ShownFits ==
  ASSUME IInv, NEW b \in Shown
  PROVE  /\ view.mounted /\ ActivityFits(b)
         /\ b = view.activity \/ (view.call # None /\ view.call.id \in DOMAIN replies)
<1>1. CASE b = view.activity
  <2>1. view.activity # None
    BY <1>1 DEF Shown
  <2>2. ~view.mounted => view.activity = None
    BY DEF IInv, ShowsWell, Blank
  <2> QED
    BY <1>1, <2>1, <2>2 DEF IInv, ShowsWell
<1>2. CASE b # view.activity
  <2>1. /\ view.call # None /\ view.call.id \in DOMAIN replies
        /\ b = replies[view.call.id].activity /\ b # None
        /\ RunCall(view.call) \/ (view.call.name = "repair" /\ replies[view.call.id].ok)
    BY <1>2 DEF Shown, Arriving
  <2>2. ReplyFits(view.call, replies[view.call.id])
    BY <2>1 DEF IInv, RepliesFit
  <2> QED
    BY <2>1, <2>2 DEF IInv, ReplyFits, WaitsWell
<1> QED
  BY <1>1, <1>2

\* A retained answer is of one activity only.
LEMMA KeyOfRow ==
  ASSUME IInv, NEW a, Has(a), ~Open(At(a)), view.pending # None, view.pending.key = At(a).key
  PROVE  view.pending.act = a /\ view.pending.answer = At(a).answer
<1>1. PICK i \in DOMAIN rows : i = Row(a) /\ rows[i].id = a /\ At(a) = rows[i]
  BY HasRow DEF IInv
<1>2. PICK t : t = [act |-> rows[i].id, key |-> rows[i].key, answer |-> rows[i].answer]
  OBVIOUS
<1>3. t \in Recorded
  BY <1>1, <1>2 DEF Recorded
<1>4. view.pending \in Kept(view)
  BY NoneAssumption DEF Kept, IInv, Types
<1>5. t.key = view.pending.key
  BY <1>1, <1>2
<1>6. view.pending = t
  BY <1>3, <1>4, <1>5 DEF IInv, KeyKeepsAnswer
<1> QED
  BY <1>1, <1>2, <1>6

\* A step of the page: what it shows as waiting was shown or brought before, and the
\* retained answer is not forgotten beside its own activity.
LEMMA PageKeeps ==
  ASSUME HInv, UNCHANGED <<rows, elsewhere>>, ~late' => ~late,
         \A b \in Shown' : b.answer = None /\ ~late' =>
           /\ b \in Shown
           /\ \/ view'.pending = view.pending
              \/ view.pending = None
              \/ view.pending.act # b.id
  PROVE  OwnAnswers'
<1> SUFFICES ASSUME ~late', NEW b \in Shown', b.answer = None
             PROVE  Mine(b.id)'
  BY DEF OwnAnswers
<1>1. /\ b \in Shown /\ Mine(b.id) /\ Has(b.id)
      /\ view'.pending = view.pending \/ view.pending = None \/ view.pending.act # b.id
  BY ShownFits DEF HInv, OwnAnswers, ActivityFits
<1>2. Open(At(b.id)) => Open(At(b.id))'
  BY DEF Open, At, Row
<1>3. At(b.id)' = At(b.id)
  BY DEF At, Row
<1>4. CASE Open(At(b.id)) \/ b.id \in elsewhere
  BY <1>2, <1>4 DEF Mine
<1>5. CASE ~Open(At(b.id)) /\ b.id \notin elsewhere
  <2>1. view.pending # None /\ view.pending.key = At(b.id).key
    BY <1>1, <1>5 DEF Mine
  <2>2. view.pending.act = b.id
    BY <1>1, <1>5, <2>1, KeyOfRow DEF HInv
  <2> QED
    BY <1>1, <1>3, <2>1, <2>2 DEF Mine
<1> QED
  BY <1>4, <1>5

\* Calls that are sent have no reply yet.
LEMMA CallShows ==
  ASSUME IInv, NEW v \in Page, NEW request, Call(v, request), DOMAIN replies' \subseteq 1..calls,
         \/ \E name, r : request = Get(name, r)
         \/ \E token : request = Post(token) \/ request = PostRepair(token)
  PROVE  Shown' = {v.activity} \ {None} /\ view'.pending = v.pending
<1>1. calls \in Nat
  BY DEF IInv, Types
<1>2. PICK q : q = [request EXCEPT !.id = calls + 1]
  OBVIOUS
<1>3. q.id = calls + 1
  <2>1. CASE \E name, r : request = Get(name, r)
    BY <1>2, <2>1 DEF Get
  <2>2. CASE \E token : request = Post(token) \/ request = PostRepair(token)
    BY <1>2, <2>2 DEF Post, PostRepair
  <2> QED
    BY <2>1, <2>2
<1>4. view' = [v EXCEPT !.call = q, !.error = FALSE]
  BY <1>2 DEF Call
<1>5. view'.activity = v.activity /\ view'.pending = v.pending /\ view'.call = q
  BY <1>4 DEF Page
<1>6. q.id \notin DOMAIN replies'
  BY <1>1, <1>3
<1> QED
  BY <1>5, <1>6 DEF Shown, Arriving

LEMMA ReturnShows ==
  ASSUME NEW v \in Page, Returned(v)
  PROVE  Shown' = {v.activity} \ {None} /\ view'.pending = v.pending
<1>1. view'.activity = v.activity /\ view'.pending = v.pending /\ view'.call = None
  BY DEF Returned, Page
<1> QED
  BY <1>1 DEF Shown, Arriving

LEMMA LoadOwn ==
  ASSUME HInv, NEW v \in {Blank, view}, v = view => CanReload, Load(v),
         UNCHANGED <<rows, late, elsewhere>>, DOMAIN replies' \subseteq 1..calls
  PROVE  OwnAnswers'
<1>1. PICK saved : saved = IF storage = None THEN Saved(uuid + 1, None, None) ELSE storage
  OBVIOUS
<1>2. saved \in SavedTokens /\ (storage # None => saved = storage)
  <2>1. uuid + 1 \in RunId
    BY DEF HInv, IInv, Types, RunId
  <2> QED
    BY <1>1, <2>1, SavedTyped DEF HInv, IInv, Types
<1>3. PICK w : w = [v EXCEPT !.run = saved.run, !.pending = saved.pending, !.repair = saved.repair]
  OBVIOUS
<1>4. v \in Page
  BY BlankTyped DEF HInv, IInv, Types
<1>5. w \in Page /\ w.activity = v.activity /\ w.pending = saved.pending
  BY <1>2, <1>3, <1>4 DEF Page, SavedTokens
<1>6. Call(w, Get("load", saved.run))
  BY <1>1, <1>3 DEF Load
<1>7. Shown' = {v.activity} \ {None} /\ view'.pending = saved.pending
  BY <1>5, <1>6, CallShows DEF HInv
<1>8. CASE v = Blank
  <2>1. Shown' = {}
    BY <1>7, <1>8 DEF Blank
  <2> QED
    BY <2>1, PageKeeps
<1>9. CASE v = view
  <2>1. Shown' \subseteq Shown
    BY <1>7, <1>9 DEF Shown
  <2>2. ~late => saved.pending = view.pending
    BY <1>2, <1>9 DEF HInv, IInv, StoresWell, CanReload, Idle
  <2> QED
    BY <1>7, <2>1, <2>2, PageKeeps
<1> QED
  BY <1>8, <1>9

LEMMA LoadsOwn ==
  ASSUME HInv, Mount \/ Refresh \/ Reload
  PROVE  OwnAnswers'
<1>1. DOMAIN replies \subseteq 1..calls
  BY DEF HInv, IInv, CallsFit
<1>2. CASE Mount
  <2>1. Blank = view => CanReload
    BY <1>2 DEF Mount, Blank
  <2> QED
    BY <1>1, <1>2, <2>1, LoadOwn DEF Mount
<1>3. CASE Refresh
  <2>1. DOMAIN replies' \subseteq 1..calls
    BY <1>3 DEF Refresh
  <2>2. Blank # view
    BY DEF HInv, IInv, ShowsWell, Blank
  <2> QED
    BY <1>3, <2>1, <2>2, LoadOwn DEF Refresh
<1>4. CASE Reload
  BY <1>1, <1>4, LoadOwn DEF Reload
<1> QED
  BY <1>2, <1>3, <1>4

\* The activity of the run that was read takes the place of the one above it.
LEMMA AdoptOwn ==
  ASSUME HInv, UNCHANGED <<rows, late, elsewhere>>, Arrived("load") \/ Arrived("rejected"),
         NEW v \in {view, [view EXCEPT !.error = TRUE]}, Adopt(v, Reply.activity)
  PROVE  OwnAnswers'
<1>1. PICK a : a = Reply.activity
  OBVIOUS
<1>2. view.call # None /\ view.call.name \in {"load", "rejected"} /\ view.call.id \in DOMAIN replies
  BY DEF Arrived
<1>3. a # None => a \in Shown
  BY <1>1, <1>2 DEF Shown, Arriving, RunCall, Reply
<1>4. a \in Activity \union {None}
  BY <1>3, ShownFits DEF HInv, ActivityFits
<1>5. v \in Page /\ v.pending = view.pending
  BY DEF HInv, IInv, Types, Page
<1>6. PICK w : w = Adopted(v, a)
  OBVIOUS
<1>7. /\ w \in Page /\ w.activity = a
      /\ w.pending = IF Answered(a) \/ (v.pending # None /\ v.pending.act # IdOf(a))
                       THEN None ELSE v.pending
  <2>1. v.pending \in Token \union {None} /\ v.repair \in RepairToken \union {None}
    BY <1>5 DEF Page
  <2> QED
    BY <1>4, <1>5, <1>6, <2>1 DEF Adopted, Page
<1>8. Shown' = {a} \ {None} /\ view'.pending = w.pending
  <2>1. Returned(w)
    BY <1>1, <1>6 DEF Adopt
  <2> QED
    BY <1>7, <2>1, ReturnShows
<1>9. ASSUME NEW b \in Shown', b.answer = None
      PROVE  b \in Shown /\ (view'.pending = view.pending \/ view.pending.act # b.id)
  BY <1>3, <1>5, <1>7, <1>8, <1>9 DEF Answered, Open, IdOf
<1> QED
  BY <1>9, PageKeeps

LEMMA ReturnsOwn ==
  ASSUME HInv, NextArrives \/ Submitted \/ Repaired \/ Fail
  PROVE  OwnAnswers'
<1>1. view \in Page /\ UNCHANGED <<rows, late, elsewhere>>
  BY DEF HInv, IInv, Types, NextArrives, Submitted, Repaired, Fail
<1>2. ASSUME view.call # None, Failed(view) PROVE OwnAnswers'
  <2>1. PICK w : w = [view EXCEPT !.error = TRUE]
    OBVIOUS
  <2>2. w \in Page /\ w.activity = view.activity /\ w.pending = view.pending /\ Returned(w)
    BY <1>1, <1>2, <2>1 DEF Page, Failed
  <2>3. Shown' \subseteq Shown /\ view'.pending = view.pending
    BY <2>2, ReturnShows DEF Shown
  <2> QED
    BY <1>1, <2>3, PageKeeps
<1>3. ASSUME NEW a, a = None \/ a \in Shown, NEW w \in Page, Returned(w), w.activity = a,
             w.pending = view.pending
      PROVE  OwnAnswers'
  <2>1. Shown' \subseteq Shown /\ view'.pending = view.pending
    BY <1>3, ReturnShows
  <2> QED
    BY <1>1, <2>1, PageKeeps
<1>4. CASE NextArrives
  <2>1. PICK a : a = Reply.activity
    OBVIOUS
  <2>2. a = None \/ a \in Shown
    BY <1>4, <2>1 DEF NextArrives, Arrived, Shown, Arriving, RunCall, Reply
  <2>3. a \in Activity \union {None}
    BY <2>2, ShownFits DEF HInv, ActivityFits
  <2>4. PICK w : w = [view EXCEPT !.activity = a, !.stopped = (a = None)]
    OBVIOUS
  <2>5. w \in Page /\ w.activity = a /\ w.pending = view.pending
    BY <1>1, <2>3, <2>4 DEF Page
  <2>6. Returned(w)
    BY <1>4, <2>1, <2>4 DEF NextArrives
  <2> QED
    BY <1>3, <2>2, <2>5, <2>6
<1>5. CASE Repaired
  <2>1. PICK a : a = Reply.activity
    OBVIOUS
  <2>2. a = None \/ a \in Shown
    BY <1>5, <2>1 DEF Repaired, Arrived, Shown, Arriving, Reply
  <2>3. a \in Activity \union {None}
    BY <2>2, ShownFits DEF HInv, ActivityFits
  <2>4. PICK w : w = [view EXCEPT !.activity = a, !.repair = None]
    OBVIOUS
  <2>5. w \in Page /\ w.activity = a /\ w.pending = view.pending
    BY <1>1, <2>3, <2>4 DEF Page
  <2>6. Returned(w)
    BY <1>5, <2>1, <2>4 DEF Repaired
  <2> QED
    BY <1>3, <2>2, <2>5, <2>6
<1>6. CASE Submitted
  <2>1. CASE ~Reply.ok
    BY <1>2, <1>6, <2>1 DEF Submitted, Arrived
  <2>2. CASE Reply.ok
    <3>1. /\ view.call # None /\ view.call.name = "submit" /\ view.call.id \in DOMAIN replies
          /\ view.activity # None
      BY <1>6 DEF HInv, IInv, WaitsWell, Submitted, Arrived
    <3>2. Reply.answer \in Answer
      BY <2>2, <3>1 DEF HInv, IInv, RepliesFit, Reply, ReplyFits
    <3>3. view.activity \in Activity
      BY <1>1, <3>1 DEF Page
    <3>4. PICK a : a = [view.activity EXCEPT !.answer = Reply.answer]
      OBVIOUS
    <3>5. a \in Activity /\ a.answer # None
      BY <3>2, <3>3, <3>4, AnswerAssumption DEF Activity
    <3>6. PICK w : w = [view EXCEPT !.activity.answer = Reply.answer, !.pending = None]
      OBVIOUS
    <3>7. w \in Page /\ w.activity = a
      BY <1>1, <3>4, <3>5, <3>6 DEF Page
    <3>8. Returned(w)
      BY <1>6, <2>2, <3>6 DEF Submitted
    <3>9. \A b \in Shown' : b.answer # None
      BY <3>5, <3>7, <3>8, ReturnShows
    <3> QED
      BY <1>1, <3>9, PageKeeps
  <2> QED
    BY <2>1, <2>2
<1>7. CASE Fail
  BY <1>2, <1>7 DEF Fail
<1> QED
  BY <1>4, <1>5, <1>6, <1>7

LEMMA PostsOwn ==
  ASSUME HInv, NextActivity \/ NewRun \/ Repair \/ RepairRejected \/ \E answer \in Answer : Submit(answer)
  PROVE  OwnAnswers'
<1>1. /\ view \in Page /\ DOMAIN replies \subseteq 1..calls /\ uuid \in Nat /\ calls \in Nat
      /\ UNCHANGED <<rows, late, elsewhere>>
  BY DEF HInv, IInv, Types, CallsFit, NextActivity, NewRun, Submit, Repair, RepairRejected
<1>2. ASSUME NEW w \in Page, w.activity = view.activity,
             w.pending = view.pending \/ view.pending = None,
             Shown' = {w.activity} \ {None} /\ view'.pending = w.pending
      PROVE  OwnAnswers'
  <2>1. Shown' \subseteq Shown
    BY <1>2 DEF Shown
  <2> QED
    BY <1>1, <1>2, <2>1, PageKeeps
<1>3. CASE NextActivity
  <2>1. Shown' = {view.activity} \ {None} /\ view'.pending = view.pending
    BY <1>1, <1>3, CallShows DEF NextActivity, HInv
  <2> QED
    BY <1>1, <1>2, <2>1
<1>4. CASE NewRun
  <2>1. PICK w : w = [Blank EXCEPT !.run = uuid + 1]
    OBVIOUS
  <2>2. w \in Page /\ w.activity = None
    <3>1. Blank.activity = None /\ uuid + 1 \in RunId
      BY <1>1 DEF Blank, RunId
    <3> QED
      BY <2>1, <3>1, BlankTyped DEF Page
  <2>3. Call(w, Get("load", uuid + 1)) /\ replies' = replies
    BY <1>4, <2>1 DEF NewRun
  <2>4. Shown' = {}
    BY <1>1, <2>2, <2>3, CallShows DEF HInv
  <2> QED
    BY <1>1, <2>4, PageKeeps
<1>5. ASSUME NEW answer \in Answer, Submit(answer) PROVE OwnAnswers'
  <2>1. PICK token : token = Retained(answer)
    OBVIOUS
  <2>2. view.activity \in Activity
    BY <1>1, <1>5 DEF Submit, CanSubmit, Page
  <2>3. token \in Token /\ (view.pending # None => token = view.pending)
    BY <1>1, <2>1, <2>2 DEF Retained, Token, Activity, Page
  <2>4. PICK w : w = [view EXCEPT !.pending = token]
    OBVIOUS
  <2>5. w \in Page /\ w.activity = view.activity /\ w.pending = token
    BY <1>1, <2>3, <2>4 DEF Page
  <2>6. Call(w, Post(token)) /\ replies' = replies
    BY <1>5, <2>1, <2>4 DEF Submit
  <2>7. Shown' = {w.activity} \ {None} /\ view'.pending = w.pending
    BY <1>1, <2>5, <2>6, CallShows DEF HInv
  <2> QED
    BY <1>2, <2>3, <2>5, <2>7
<1>6. CASE Repair
  <2>1. PICK token : token = IF view.repair # None THEN view.repair
                             ELSE [id |-> uuid + 1, parent |-> view.activity.id]
    OBVIOUS
  <2>2. view.activity \in Activity
    BY <1>1, <1>6 DEF Repair, CanRepair, Answered, Page
  <2>3. token \in RepairToken
    BY <1>1, <2>1, <2>2 DEF RepairToken, Activity, Page
  <2>4. PICK w : w = [view EXCEPT !.repair = token]
    OBVIOUS
  <2>5. w \in Page /\ w.activity = view.activity /\ w.pending = view.pending
    BY <1>1, <2>3, <2>4 DEF Page
  <2>6. Call(w, PostRepair(token)) /\ replies' = replies
    BY <1>6, <2>1, <2>4 DEF Repair
  <2>7. Shown' = {w.activity} \ {None} /\ view'.pending = w.pending
    BY <1>1, <2>5, <2>6, CallShows DEF HInv
  <2> QED
    BY <1>2, <2>5, <2>7
<1>7. CASE RepairRejected
  <2>1. PICK w : w = [view EXCEPT !.repair = None]
    OBVIOUS
  <2>2. w \in Page /\ w.activity = view.activity /\ w.pending = view.pending
    BY <1>1, <2>1 DEF Page
  <2>3. Call(w, Get("rejected", view.run)) /\ DOMAIN replies' \subseteq 1..calls
    BY <1>1, <1>7, <2>1 DEF RepairRejected, Without
  <2>4. Shown' = {w.activity} \ {None} /\ view'.pending = w.pending
    BY <2>2, <2>3, CallShows DEF HInv
  <2> QED
    BY <1>2, <2>2, <2>4
<1> QED
  BY <1>3, <1>4, <1>5, <1>6, <1>7

LEMMA AbsentOwn ==
  ASSUME HInv, Leave \/ \E g \in gone : WritesLate(g) \/ EndsLate(g)
  PROVE  OwnAnswers'
<1>1. CASE Leave
  <2>1. view' = [Blank EXCEPT !.mounted = FALSE] /\ UNCHANGED <<rows, late, elsewhere>>
    BY <1>1 DEF Leave
  <2>2. view'.activity = None /\ view'.call = None
    BY <2>1 DEF Blank
  <2>3. Shown' = {}
    BY <2>2 DEF Shown, Arriving
  <2> QED
    BY <2>1, <2>3, PageKeeps
<1>2. ASSUME NEW g \in gone, WritesLate(g) \/ EndsLate(g) PROVE OwnAnswers'
  <2>1. UNCHANGED <<rows, view, elsewhere>> /\ replies' = Without({g.id})
    BY <1>2 DEF WritesLate, EndsLate
  <2>3. late' = late \/ late' = (late \/ storage.run # g.run \/ storage.pending # None)
    BY <1>2 DEF WritesLate, EndsLate
  <2>4. ~late' => ~late
    BY <2>3
  <2>2. Shown' \subseteq Shown
    BY <2>1 DEF Shown, Arriving, Without, RunCall
  <2> QED
    BY <2>1, <2>2, <2>4, PageKeeps
<1> QED
  BY <1>1, <1>2

-----------------------------------------------------------------------------
(* The server closes an activity for a submission or for another tab.      *)

RowsSteady ==
  \A i \in DOMAIN rows :
    /\ i \in DOMAIN rows' /\ rows'[i].id = rows[i].id
    /\ \/ rows'[i] = rows[i]
       \/ Open(rows[i]) /\ rows[i].id \in elsewhere'
       \/ /\ Open(rows[i])
          /\ \E s \in Submissions : s.act = rows[i].id /\ s.key = rows'[i].key

LEMMA ServerKeeps ==
  ASSUME HInv, IInv', RowsSteady, UNCHANGED <<storage, view, late>>, elsewhere \subseteq elsewhere',
         \A b \in Shown' : b \in Shown \/ b.answer # None \/ Open(At(b.id))'
  PROVE  OwnAnswers'
<1> SUFFICES ASSUME ~late, NEW b \in Shown', b.answer = None, ~Open(At(b.id))'
             PROVE  Mine(b.id)'
  BY DEF OwnAnswers, Mine
<1>1. /\ b \in Shown /\ view.mounted /\ Has(b.id) /\ Mine(b.id)
  BY ShownFits DEF HInv, OwnAnswers, ActivityFits
<1>2. PICK i \in DOMAIN rows : i = Row(b.id) /\ rows[i].id = b.id /\ At(b.id) = rows[i]
  BY <1>1, HasRow DEF HInv, IInv
<1>3. At(b.id)' = rows'[i]
  <2>1. i \in DOMAIN rows' /\ rows'[i].id = b.id
    BY <1>2 DEF RowsSteady
  <2>2. Row(b.id)' = i
    BY <2>1 DEF IInv, RowsFit, Row
  <2> QED
    BY <2>2 DEF At
<1>4. CASE rows'[i] = rows[i]
  BY <1>1, <1>2, <1>3, <1>4 DEF Mine, Open
<1>5. CASE rows[i].id \in elsewhere'
  BY <1>2, <1>5 DEF Mine
<1>6. ASSUME Open(rows[i]), NEW s \in Submissions, s.act = rows[i].id, s.key = rows'[i].key
      PROVE  Mine(b.id)'
  <2>1. s \in Kept(storage)
    BY <1>2, <1>6 DEF HInv, IInv, UncertainIsRetained, At
  <2>2. view.pending = s /\ view.pending # None
    BY <1>1, <2>1 DEF HInv, IInv, StoresWell, Kept
  <2> QED
    BY <1>3, <1>6, <2>2 DEF Mine
<1> QED
  BY <1>2, <1>4, <1>5, <1>6 DEF RowsSteady

LEMMA AnswersShows ==
  ASSUME IInv, NEW q \in net, NEW reply, Answers(q, reply)
  PROVE  \A b \in Shown' :
           \/ b \in Shown
           \/ /\ b = reply.activity /\ b # None
              /\ RunCall(q) \/ (q.name = "repair" /\ reply.ok)
<1>1. view' = view
  BY DEF Answers
<1> SUFFICES ASSUME NEW b \in Shown', b \notin Shown
             PROVE  /\ b = reply.activity /\ b # None
                    /\ RunCall(q) \/ (q.name = "repair" /\ reply.ok)
  OBVIOUS
<1>2. /\ view.call # None /\ view.call.id \in DOMAIN replies' /\ b # None
      /\ b = replies'[view.call.id].activity
      /\ RunCall(view.call) \/ (view.call.name = "repair" /\ replies'[view.call.id].ok)
  BY <1>1 DEF Shown, Arriving, RunCall
<1>3. CASE view.call.id = q.id /\ replies' # replies
  <2>1. view.call = q
    BY <1>2, <1>3 DEF IInv, CallsFit
  <2>2. replies'[view.call.id] = reply
    BY <1>2, <1>3 DEF Answers
  <2> QED
    BY <1>2, <2>1, <2>2
<1>4. CASE ~(view.call.id = q.id /\ replies' # replies)
  <2>1. view.call.id \in DOMAIN replies /\ replies'[view.call.id] = replies[view.call.id]
    BY <1>2, <1>4 DEF Answers
  <2> QED
    BY <1>2, <2>1 DEF Shown, Arriving
<1> QED
  BY <1>3, <1>4

\* A request that leaves the rows, or adds one that waits.
LEMMA OpenAnswersOwn ==
  ASSUME HInv, IInv', NEW q \in net, NEW reply, Answers(q, reply), UNCHANGED elsewhere,
         \/ UNCHANGED rows
         \/ \E row : rows' = Append(rows, row),
         RunCall(q) \/ (q.name = "repair" /\ reply.ok) =>
           \/ reply.activity = None
           \/ reply.activity.answer # None
           \/ Open(At(reply.activity.id))'
  PROVE  OwnAnswers'
<1>1. RowsSteady
  <2>1. CASE UNCHANGED rows
    BY <2>1 DEF RowsSteady
  <2>2. ASSUME NEW row, rows' = Append(rows, row) PROVE RowsSteady
    <3>1. rows \in Seq(RowType)
      BY DEF HInv, IInv, Types
    <3>2. \A i \in DOMAIN rows : i \in DOMAIN rows' /\ rows'[i] = rows[i]
      BY <2>2, <3>1
    <3> QED
      BY <3>2 DEF RowsSteady
  <2> QED
    BY <2>1, <2>2
<1>2. UNCHANGED <<storage, view, late>>
  BY DEF Answers
<1>3. \A b \in Shown' : b \in Shown \/ b.answer # None \/ Open(At(b.id))'
  BY AnswersShows DEF HInv
<1> QED
  BY <1>1, <1>2, <1>3, ServerKeeps

\* What the server returns of a row, with an answer or waiting.
LEMMA PublicOpen ==
  ASSUME IInv, NEW i \in DOMAIN rows
  PROVE  Public(i).answer # None \/ Open(At(Public(i).id))
<1>1. Public(i).answer = rows[i].answer
  BY DEF Public
<1> QED
  BY <1>1, PublicFits DEF IInv, Open

LEMMA CurrentOpen ==
  ASSUME IInv, NEW r
  PROVE  Current(r) = None \/ Current(r).answer # None \/ Open(At(Current(r).id))
<1>1. OfRun(r) # {} => \E i \in DOMAIN rows : Current(r) = Public(i)
  <2> SUFFICES ASSUME OfRun(r) # {} PROVE \E i \in DOMAIN rows : Current(r) = Public(i)
    OBVIOUS
  <2>1. /\ DOMAIN rows = 1..Len(rows) /\ Len(rows) \in Nat
        /\ OfRun(r) \subseteq DOMAIN rows /\ OpenIn(r) \subseteq OfRun(r)
    BY DEF IInv, Types, OfRun, OpenIn
  <2>2. CASE OpenIn(r) # {}
    <3>1. PICK i \in OpenIn(r) : TRUE
      BY <2>2
    <3>2. \A j \in OpenIn(r) : i <= j
      BY <2>1, <3>1 DEF OpenIn, OfRun, IInv, RowsFit
    <3>3. PICK k \in OpenIn(r) : k = CHOOSE m \in OpenIn(r) : \A j \in OpenIn(r) : m <= j
      BY <3>1, <3>2
    <3>4. Current(r) = Public(k)
      BY <2>2, <3>3 DEF Current
    <3> QED
      BY <2>1, <3>4
  <2>3. CASE OpenIn(r) = {}
    <3>1. \E i \in OfRun(r) : \A j \in OfRun(r) : j <= i
      BY <2>1, LastOf
    <3>2. PICK k \in OfRun(r) : k = CHOOSE m \in OfRun(r) : \A j \in OfRun(r) : j <= m
      BY <3>1
    <3>3. Current(r) = Public(k)
      BY <2>3, <3>2 DEF Current
    <3> QED
      BY <2>1, <3>3
  <2> QED
    BY <2>2, <2>3
<1>2. OfRun(r) = {} => Current(r) = None
  BY DEF Current
<1> QED
  BY <1>1, <1>2, PublicOpen

LEMMA SameRows ==
  ASSUME UNCHANGED rows, NEW a, Open(At(a))
  PROVE  Open(At(a))'
BY DEF Open, At, Row

LEMMA NewRowOpen ==
  ASSUME IInv, IInv', NEW id \in Nat, NEW r, NEW parent, rows' = Append(rows, NewRow(id, r, parent))
  PROVE  Open(At(id))'
<1>1. PICK n : n = Len(rows) + 1
  OBVIOUS
<1>2. n \in DOMAIN rows' /\ rows'[n] = NewRow(id, r, parent)
  BY <1>1 DEF IInv, Types
<1>3. rows'[n].id = id /\ rows'[n].answer = None
  BY <1>2 DEF NewRow
<1>4. Row(id)' = n
  BY <1>2, <1>3 DEF IInv, RowsFit, Row
<1> QED
  BY <1>3, <1>4 DEF Open, At

LEMMA ServesOwn ==
  ASSUME HInv, IInv', NEW q \in net, Serve(q), UNCHANGED elsewhere
  PROVE  OwnAnswers'
<1>1. uuid \in Nat
  BY DEF HInv, IInv, Types
<1>2. ASSUME NEW r, Answers(q, Ok(Current(r))), UNCHANGED rows PROVE OwnAnswers'
  <2>1. PICK reply : reply = Ok(Current(r))
    OBVIOUS
  <2>2. reply.activity = Current(r)
    BY <2>1 DEF Ok
  <2>3. \/ reply.activity = None \/ reply.activity.answer # None
        \/ Open(At(reply.activity.id))'
    BY <1>2, <2>2, CurrentOpen, SameRows DEF HInv
  <2> QED
    BY <1>2, <2>1, <2>3, OpenAnswersOwn
<1>3. ASSUME NEW id \in Nat, NEW r, NEW parent, rows' = Append(rows, NewRow(id, r, parent)),
             NEW a, a.id = id, Answers(q, Ok(a))
      PROVE  OwnAnswers'
  <2>1. PICK reply : reply = Ok(a)
    OBVIOUS
  <2>2. reply.activity = a
    BY <2>1 DEF Ok
  <2>3. Open(At(reply.activity.id))'
    BY <1>3, <2>2, NewRowOpen DEF HInv
  <2>4. \E row : rows' = Append(rows, row)
    BY <1>3
  <2> QED
    BY <1>3, <2>1, <2>3, <2>4, OpenAnswersOwn
<1>4. CASE ServeRun(q)
  BY <1>2, <1>4 DEF ServeRun
<1>5. CASE ServeNext(q)
  <2>1. CASE Answers(q, Ok(Current(q.run))) /\ UNCHANGED rows
    BY <1>2, <2>1
  <2>2. CASE Answers(q, Ok(None)) /\ UNCHANGED rows
    <3>1. PICK reply : reply = Ok(None)
      OBVIOUS
    <3>2. reply.activity = None
      BY <3>1 DEF Ok
    <3> QED
      BY <2>2, <3>1, <3>2, OpenAnswersOwn
  <2>3. CASE /\ uuid' = uuid + 1 /\ rows' = Append(rows, NewRow(uuid', q.run, None))
             /\ Answers(q, Ok([id |-> uuid', parent |-> None, answer |-> None]))
    <3>1. PICK id \in Nat : id = uuid'
      BY <1>1, <2>3
    <3>2. PICK a : a = [id |-> id, parent |-> None, answer |-> None]
      OBVIOUS
    <3>3. a.id = id
      BY <3>2
    <3> QED
      BY <1>3, <2>3, <3>1, <3>2, <3>3
  <2> QED
    BY <1>5, <2>1, <2>2, <2>3 DEF ServeNext
<1>6. CASE ServeSubmit(q)
  <2>1. q.name = "submit" /\ q.token \in Submissions /\ q.token \in Token /\ Has(q.token.act)
    BY <1>6 DEF ServeSubmit, Submissions, HInv, IInv, TokensFit, TokenFits, Tokens
  <2>2. PICK i \in DOMAIN rows : i = Row(q.token.act) /\ rows[i].id = q.token.act
    BY <2>1, HasRow DEF HInv, IInv
  <2>3. \E reply : Answers(q, reply)
    BY <1>6 DEF ServeSubmit
  <2>4. /\ UNCHANGED <<storage, view, late>>
        /\ \A b \in Shown' : b \in Shown
    BY <2>1, <2>3, AnswersShows DEF HInv, Answers, RunCall
  <2>5. RowsSteady
    <3>1. CASE UNCHANGED rows
      BY <3>1 DEF RowsSteady
    <3>2. CASE /\ Open(rows[i])
               /\ rows' = [rows EXCEPT ![i].key = q.token.key, ![i].answer = q.token.answer]
      <4>1. rows[i] \in RowType
        BY RowTyped DEF HInv, IInv
      <4>2. /\ DOMAIN rows' = DOMAIN rows
            /\ rows'[i].id = rows[i].id /\ rows'[i].key = q.token.key
            /\ \A j \in DOMAIN rows : j # i => rows'[j] = rows[j]
        BY <3>2, <4>1 DEF RowType, HInv, IInv, Types
      <4> QED
        BY <2>1, <2>2, <3>2, <4>2 DEF RowsSteady
    <3> QED
      BY <1>6, <2>2, <3>1, <3>2 DEF ServeSubmit
  <2> QED
    BY <2>4, <2>5, ServerKeeps
<1>7. CASE ServeRepair(q)
  <2>1. CASE \E i \in DOMAIN rows : Answers(q, Ok(Public(i))) /\ UNCHANGED rows
    <3>1. PICK i \in DOMAIN rows : Answers(q, Ok(Public(i))) /\ UNCHANGED rows
      BY <2>1
    <3>2. PICK reply : reply = Ok(Public(i))
      OBVIOUS
    <3>3. reply.activity = Public(i)
      BY <3>2 DEF Ok
    <3>4. reply.activity.answer # None \/ Open(At(reply.activity.id))'
      BY <3>1, <3>3, PublicOpen, SameRows DEF HInv
    <3> QED
      BY <3>1, <3>2, <3>4, OpenAnswersOwn
  <2>2. CASE Answers(q, Conflict) /\ UNCHANGED rows
    <3>1. PICK reply : reply = Conflict
      OBVIOUS
    <3>2. ~reply.ok /\ q.name = "repair"
      BY <1>7, <3>1 DEF Conflict, ServeRepair
    <3> QED
      BY <2>2, <3>1, <3>2, OpenAnswersOwn DEF RunCall
  <2>3. CASE \E r : /\ rows' = Append(rows, NewRow(q.token.id, r, q.token.parent))
                    /\ Answers(q, Ok([id |-> q.token.id, parent |-> q.token.parent, answer |-> None]))
    <3>1. PICK r : rows' = Append(rows, NewRow(q.token.id, r, q.token.parent))
      BY <2>3
    <3>2. q.token \in Repairs
      BY <1>7 DEF ServeRepair, Repairs
    <3>3. q.token.id \in Nat
      BY <3>2 DEF HInv, IInv, RepairsFit, RepairFits, RepairToken
    <3>4. PICK a : a = [id |-> q.token.id, parent |-> q.token.parent, answer |-> None]
      OBVIOUS
    <3>5. a.id = q.token.id
      BY <3>4
    <3> QED
      BY <1>3, <2>3, <3>1, <3>3, <3>4, <3>5
  <2> QED
    BY <1>7, <2>1, <2>2, <2>3 DEF ServeRepair
<1> QED
  BY <1>4, <1>5, <1>6, <1>7 DEF Serve

LEMMA ElsewhereOwn ==
  ASSUME HInv, IInv', NEW i \in DOMAIN rows, NEW answer \in Answer, AnswerElsewhere(i, answer)
  PROVE  OwnAnswers'
<1>1. /\ Open(rows[i]) /\ elsewhere' = elsewhere \union {rows[i].id}
      /\ rows' = [rows EXCEPT ![i].key = uuid', ![i].answer = answer]
      /\ UNCHANGED <<replies, storage, view, late>>
  BY DEF AnswerElsewhere
<1>2. rows[i] \in RowType
  BY RowTyped DEF HInv, IInv
<1>3. /\ DOMAIN rows' = DOMAIN rows /\ rows'[i].id = rows[i].id
      /\ \A j \in DOMAIN rows : j # i => rows'[j] = rows[j]
  BY <1>1, <1>2 DEF RowType, HInv, IInv, Types
<1>4. RowsSteady
  BY <1>1, <1>3 DEF RowsSteady
<1>5. Shown' = Shown
  BY <1>1 DEF Shown, Arriving, RunCall
<1> QED
  BY <1>1, <1>4, <1>5, ServerKeeps

LEMMA StepOwn == HInv /\ [Next]_vars => HInv'
<1> SUFFICES ASSUME HInv, [Next]_vars PROVE OwnAnswers'
  BY StepInv DEF HInv
<1>1. IInv'
  BY StepInv DEF HInv
<1>2. CASE Mount \/ Refresh \/ Reload
  BY <1>2, LoadsOwn
<1>3. CASE Loaded
  BY <1>3, AdoptOwn DEF Loaded
<1>4. CASE Reconciled
  BY <1>4, AdoptOwn DEF Reconciled
<1>5. CASE NextArrives \/ Submitted \/ Repaired \/ Fail
  BY <1>5, ReturnsOwn
<1>6. CASE NextActivity \/ NewRun \/ Repair \/ RepairRejected \/ \E answer \in Answer : Submit(answer)
  BY <1>6, PostsOwn
<1>7. CASE Leave \/ \E g \in gone : WritesLate(g) \/ EndsLate(g)
  BY <1>7, AbsentOwn
<1>8. ASSUME NEW q \in net, Serve(q) PROVE OwnAnswers'
  <2>1. UNCHANGED elsewhere
    BY <1>8 DEF Serve, ServeRun, ServeNext, ServeSubmit, ServeRepair, Answers
  <2> QED
    BY <1>1, <1>8, <2>1, ServesOwn
<1>9. ASSUME NEW i \in DOMAIN rows, NEW answer \in Answer, AnswerElsewhere(i, answer)
      PROVE  OwnAnswers'
  BY <1>1, <1>9, ElsewhereOwn
<1>10. CASE UNCHANGED vars
  <2>1. UNCHANGED <<rows, view, replies, late, elsewhere>>
    BY <1>10 DEF vars
  <2>2. Shown' = Shown
    BY <2>1 DEF Shown, Arriving, RunCall
  <2> QED
    BY <2>1, <2>2, PageKeeps
<1> QED
  BY <1>2, <1>3, <1>4, <1>5, <1>6, <1>7, <1>8, <1>9, <1>10 DEF Next

\* A page that waits for the learner has a control that leads on, and an answer it
\* would send is one the server takes, unless another tab has answered.
THEOREM NeverItsOwnDeadEnd == Spec => []NoOwnDeadEnd
<1>1. Init => HInv
  <2> SUFFICES ASSUME Init PROVE OwnAnswers
    BY InitInv DEF HInv
  <2>1. view.activity = None /\ view.call = None
    BY DEF Init, Blank
  <2>2. Shown = {}
    BY <2>1 DEF Shown, Arriving
  <2> QED
    BY <2>2 DEF OwnAnswers
<1>2. HInv => NoOwnDeadEnd
  <2> SUFFICES ASSUME HInv, ~late, Idle
               PROVE  \/ CanSubmit /\ (Wanted \/ view.activity.id \in elsewhere)
                      \/ CanRepair \/ CanGoOn \/ CanStartAnew \/ CanReload
    BY DEF NoOwnDeadEnd
  <2>1. CASE view.activity = None
    BY <2>1 DEF HInv, IInv, Idle, ShowsWell, CanGoOn, CanStartAnew, CanReload
  <2>2. CASE view.activity # None /\ Open(view.activity)
    <3>1. view.activity \in Shown /\ view.activity.answer = None
      BY <2>2 DEF Shown, Open
    <3>2. Mine(view.activity.id) /\ Has(view.activity.id)
      BY <3>1, ShownFits DEF HInv, OwnAnswers, ActivityFits
    <3>3. Wanted \/ view.activity.id \in elsewhere
      BY <3>2, KeyOfRow DEF HInv, Mine, Wanted, At
    <3> QED
      BY <2>2, <3>3 DEF CanSubmit
  <2>3. CASE Answered(view.activity)
    BY <2>3 DEF HInv, IInv, Idle, ShowsWell, CanGoOn, CanRepair
  <2> QED
    BY <2>1, <2>2, <2>3 DEF Answered
<1> QED
  BY <1>1, <1>2, StepOwn, PTL DEF Spec
=============================================================================
