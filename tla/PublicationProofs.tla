-------------------------- MODULE PublicationProofs --------------------------
(***************************************************************************)
(* Proofs about Publication, for every number of requests and threads, and *)
(* any units, versions and dates: its versions follow the abstract         *)
(* timeline, a fingerprint pins a request, an active version is whole and  *)
(* made of the words as they are, and an exact repeat is not refused.      *)
(***************************************************************************)
EXTENDS Publication, TLAPS

Now(t) == req[t].number

\* A row that is retired or active.
Shown(row) == row # None /\ row.status # "draft"

-----------------------------------------------------------------------------
(* What a transaction has written and locked.                              *)

\* No row is written by two transactions.
Locks == \A t, u \in Thread : t # u =>
           /\ pc[t] = "commit" => pc[u] # "commit"
           /\ \A v \in Number : rows[t][v] = None \/ rows[u][v] = None
           /\ \A x \in Unit : units[t][x] = None \/ units[u][x] = None

\* The version of the request, which is not published yet, ...
FitsOwn(row, v, q) ==
  /\ version[v] = None \/ version[v].status = "draft"
  /\ row.status \in {"draft", "active"}
  /\ row.status = "active" => row.at = q.at /\ (q.kind # "pilot" => row.print = q.print)

\* ... and the active one that it replaces.
FitsOther(row, v, q) ==
  /\ Is(version[v], "active") /\ row.status = "retired"
  /\ row.at = version[v].at /\ row.until = q.at /\ row.print = version[v].print
  /\ v < q.number /\ version[v].at <= q.at

RowsFit(t) == \A v \in Number : \A row \in {rows[t][v]} : row # None =>
  /\ version[v] # None => row.refs = version[v].refs
  /\ IF v = req[t].number THEN FitsOwn(row, v, req[t]) ELSE FitsOther(row, v, req[t])

UnitsFit(t) == \A x \in Unit : \A row \in {units[t][x]} : row # None =>
  /\ row.status = "published"
  /\ unit[x] = None => row.shown = row.children
  /\ unit[x] # None => /\ unit[x].status = "draft" /\ row.shown = unit[x].children
                       /\ row.base = unit[x].base

\* A unit that was made of its word as it is, and the word is locked.
Held(t, x) == x \in words[t] /\ UnitAt(t, x) # None /\ UnitAt(t, x).base = word[x]

Refs(t) == RowAt(t, Now(t)).refs
AllHeld(t) == \A x \in Refs(t) \intersect Linked : Held(t, x)
HeldOrToDo(t) == \A x \in Refs(t) \intersect Linked : x \in todo[t] \/ Held(t, x)

Pinned(v, print) == Shown(version[v]) /\ version[v].print = print

-----------------------------------------------------------------------------
(* Where a request is.                                                     *)

Place == {"idle", "refuse", "compare", "look", "adopt", "get", "repeat", "legacy", "units",
          "words", "active", "retire", "activate", "commit", "pilot", "insert", "ready",
          "draft", "reread", "recover", "winner"}
Checked == {"words", "active", "retire", "activate", "commit"}
Resolved == {"active", "retire", "activate", "commit"}

ThreadInv(t) ==
  /\ pc[t] \in {"idle", "pilot", "insert", "ready"} =>
       rows[t] = NoRows /\ units[t] = NoUnits /\ words[t] = {}
  /\ pc[t] = "adopt" => Shown(version[Now(t)])
  /\ pc[t] = "repeat" => Pinned(Now(t), req[t].print)
  /\ pc[t] \in {"pilot", "insert", "ready", "draft", "reread"} => req[t].kind = "pilot"
  /\ pc[t] \in {"compare", "look", "adopt", "get", "words", "recover", "winner"} =>
       req[t].kind = "bundle"
  /\ pc[t] \in {"legacy", "units"} => req[t].kind = "catalog" /\ version[Now(t)] # None
  /\ pc[t] = "legacy" => HeldOrToDo(t)
  /\ pc[t] = "units" => AllHeld(t)
  /\ pc[t] \in Checked => /\ RowAt(t, Now(t)) # None
                          /\ \A x \in Refs(t) : Published(t, x)
  /\ pc[t] = "words" => HeldOrToDo(t)
  /\ pc[t] \in Resolved /\ req[t].kind # "pilot" => AllHeld(t)
  /\ pc[t] = "retire" => /\ seen[t] \in Number /\ seen[t] < Now(t)
                         /\ Shown(version[seen[t]]) /\ version[seen[t]].at <= req[t].at
  /\ pc[t] = "commit" => /\ Is(rows[t][Now(t)], "active")
                         /\ \A a \in Active : rows[t][a] # None

-----------------------------------------------------------------------------
(* What is committed.                                                      *)

\* The active version is the last one, and there is one from the first on.
Ordered ==
  /\ \A a \in Active : \A v \in Number :
       Shown(version[v]) => v <= a /\ version[v].at <= version[a].at
  /\ (\E v \in Number : Shown(version[v])) => Active # {}

AllShown == \A x \in Unit : Is(unit[x], "published") => unit[x].shown = unit[x].children

RefsPublished == \A v \in Active : \A x \in version[v].refs : Is(unit[x], "published")

RepliesPinned == \A t \in Thread : \A r \in {reply[t]} :
  r # None /\ r.outcome = "accepted" /\ r.request.kind # "pilot" =>
    /\ r.request.number \in Number /\ r.request.print # None
    /\ Pinned(r.request.number, r.request.print)

Domains == /\ DOMAIN pc = Thread /\ DOMAIN reply = Thread
           /\ \A t \in Thread : pc[t] \in Place

IInv == /\ TypeOK /\ Domains /\ Locks /\ Ordered /\ AllShown /\ RefsPublished /\ RepliesPinned
        /\ \A t \in Thread : RowsFit(t) /\ UnitsFit(t) /\ ThreadInv(t)

-----------------------------------------------------------------------------
(* Rows.                                                                   *)

Prints == {q.print : q \in Request}

LEMMA RequestFields ==
  ASSUME NEW q \in Request
  PROVE  /\ q.kind \in {"bundle", "catalog", "pilot"}
         /\ q.number \in Number /\ q.number \in Nat /\ q.units \subseteq Unit
         /\ q.at \in Date /\ q.at \in Nat /\ q.base \in Edition /\ q.print # None
         /\ q.print \in Prints /\ q.text \in {p.text : p \in Request}
         /\ q # None
BY PublicationAssumption DEF IsRequest, Prints

LEMMA VersionFields ==
  ASSUME NEW r \in VersionRow
  PROVE  /\ r # None /\ r.refs \subseteq Unit
         /\ r.status \in {"draft", "active", "retired"}
         /\ r.at \in Date \union {None} /\ r.until \in Date \union {None}
         /\ r.status # "draft" => r.at \in Date /\ r.at \in Nat
         /\ r.status # "retired" => r.until = None
         /\ r.status = "retired" => r.until \in Date
BY PublicationAssumption, RowAssumption DEF VersionRow, Columns

LEMMA DraftVersion ==
  ASSUME NEW refs \in SUBSET Unit
  PROVE  /\ DraftRow(refs) \in VersionRow /\ DraftRow(refs).status = "draft"
         /\ DraftRow(refs).refs = refs
<1>1. DraftRow(refs) \in Columns
  BY DEF DraftRow, Columns
<1> QED
  BY <1>1 DEF DraftRow, VersionRow

LEMMA OldVersion ==
  ASSUME NEW refs \in SUBSET Unit, NEW at \in Date
  PROVE  /\ OldRow(refs, at) \in VersionRow /\ OldRow(refs, at).status = "active"
         /\ OldRow(refs, at).refs = refs /\ OldRow(refs, at).at = at
<1> DEFINE draft == DraftRow(refs)
           old == [draft EXCEPT !.status = "active", !.at = at]
<1>1. draft \in Columns /\ draft.refs = refs /\ draft.until = None
  BY DEF DraftRow, Columns
<1>2. OldRow(refs, at) = old
  BY DEF OldRow
<1>3. at # None
  BY PublicationAssumption
<1> HIDE DEF draft
<1>4. /\ old \in Columns /\ old.status = "active" /\ old.refs = refs /\ old.at = at
      /\ old.until = None
  BY <1>1 DEF Columns
<1> HIDE DEF old
<1> QED
  BY <1>2, <1>3, <1>4 DEF VersionRow

Retired(r, at) == [r EXCEPT !.status = "retired", !.until = at]

LEMMA RetiredVersion ==
  ASSUME NEW r \in VersionRow, r.status = "active", NEW at \in Date,
         NEW new, new = Retired(r, at)
  PROVE  /\ new \in VersionRow /\ new.status = "retired" /\ new.until = at
         /\ new.refs = r.refs /\ new.at = r.at /\ new.print = r.print
<1>1. /\ new \in Columns /\ new.status = "retired" /\ new.until = at
      /\ new.refs = r.refs /\ new.at = r.at /\ new.print = r.print
  BY DEF VersionRow, Columns, Retired
<1>2. at # None
  BY PublicationAssumption
<1> QED
  BY <1>1, <1>2 DEF VersionRow

Activated(r, at, print) == [r EXCEPT !.status = "active", !.at = at, !.print = print]

LEMMA ActiveVersion ==
  ASSUME NEW r \in VersionRow, r.status = "draft", NEW at \in Date,
         NEW print \in Prints \union {r.print},
         NEW new, new = Activated(r, at, print)
  PROVE  /\ new \in VersionRow /\ new.status = "active" /\ new.at = at
         /\ new.refs = r.refs /\ new.print = print
<1>1. /\ new \in Columns /\ new.status = "active" /\ new.until = r.until
      /\ new.refs = r.refs /\ new.at = at /\ new.print = print
  BY DEF VersionRow, Columns, Prints, Activated
<1>2. at # None
  BY PublicationAssumption
<1> QED
  BY <1>1, <1>2 DEF VersionRow

LEMMA PrintedVersion ==
  ASSUME NEW r \in VersionRow, NEW print \in Prints,
         NEW new, new = [r EXCEPT !.print = print]
  PROVE  /\ new \in VersionRow /\ new.status = r.status /\ new.until = r.until
         /\ new.refs = r.refs /\ new.at = r.at /\ new.print = print
<1>1. /\ new \in Columns /\ new.status = r.status /\ new.until = r.until
      /\ new.refs = r.refs /\ new.at = r.at /\ new.print = print
  BY DEF VersionRow, Columns, Prints
<1> QED
  BY <1>1 DEF VersionRow

LEMMA UnitFields ==
  ASSUME NEW r \in UnitRow
  PROVE  /\ r # None /\ r.status \in {"draft", "published"} /\ r.children \in Nat
         /\ r.shown \in Nat /\ r.base \in Edition
BY RowAssumption DEF UnitRow

LEMMA NewUnits ==
  /\ \A q \in Request : /\ Content(q) \in UnitRow /\ Content(q).status = "published"
                        /\ Content(q).shown = Content(q).children
  /\ DraftUnit \in UnitRow /\ DraftUnit.status = "draft"
<1>1. 0 \in Edition
  BY PublicationAssumption DEF Edition
<1>2. \A q \in Request : q.text \in {p.text : p \in Request} /\ q.base \in Edition
  BY RequestFields
<1> QED
  BY <1>1, <1>2 DEF Content, DraftUnit, UnitRow

LEMMA ImportedUnit ==
  ASSUME NEW x, word[x] \in Edition, NEW status \in {"draft", "published"}
  PROVE  /\ Imported(x, status) \in UnitRow /\ Imported(x, status).status = status
         /\ status = "published" => Imported(x, status).shown = Imported(x, status).children
BY DEF Imported, UnitRow

LEMMA PublishedUnit ==
  ASSUME NEW r \in UnitRow, NEW new, new = [r EXCEPT !.status = "published", !.shown = r.children]
  PROVE  /\ new \in UnitRow /\ new.status = "published" /\ new.shown = r.children
         /\ new.base = r.base
BY DEF UnitRow

-----------------------------------------------------------------------------
(* Types.                                                                  *)

USE DEF catalog, local, work

\* An end of a request leaves nothing of it.
LEMMA AnswerTypes ==
  ASSUME TypeOK, Domains, NEW t \in Thread, NEW outcome, Answer(t, outcome),
         word' \in [Linked -> Edition], unit' \in [Unit -> UnitRow \union {None}],
         version' \in [Number -> VersionRow \union {None}]
  PROVE  TypeOK' /\ Domains'
<1>1. /\ NoUnits \in [Unit -> UnitRow \union {None}]
      /\ NoRows \in [Number -> VersionRow \union {None}]
  BY DEF NoUnits, NoRows
<1>2. TypeOK'
  BY <1>1 DEF TypeOK, Domains, Answer, Goto, Forget, Release
<1>3. Domains'
  BY DEF Domains, Answer, Goto, Place
<1> QED
  BY <1>2, <1>3

LEMMA RefuseTypes ==
  ASSUME TypeOK, Domains, NEW t \in Thread, Refuse(t)
  PROVE  TypeOK' /\ Domains'
BY AnswerTypes DEF Refuse, TypeOK

\* A request that goes on.
LEMMA StepTypes ==
  ASSUME TypeOK, Domains, NEW t \in Thread, NEW where \in Place \ {"idle"}, Step(t, where),
         pc[t] # "idle",
         word' \in [Linked -> Edition], unit' \in [Unit -> UnitRow \union {None}],
         version' \in [Number -> VersionRow \union {None}],
         todo' \in [Thread -> SUBSET Unit], absent' \in [Thread -> Unit \union {None}],
         creates' \in [Thread -> BOOLEAN], seen' \in [Thread -> Number \union {None}],
         words' \in [Thread -> SUBSET Linked],
         units' \in [Thread -> [Unit -> UnitRow \union {None}]],
         rows' \in [Thread -> [Number -> VersionRow \union {None}]]
  PROVE  TypeOK' /\ Domains'
<1>1. TypeOK'
  BY DEF TypeOK, Domains, Step, Goto
<1>2. Domains'
  BY DEF Domains, Step, Goto
<1> QED
  BY <1>1, <1>2

LEMMA ConflictTypes ==
  ASSUME TypeOK, Domains, NEW t \in Thread, pc[t] # "idle", Conflict(t)
  PROVE  TypeOK' /\ Domains'
<1>1. CASE Refuse(t)
  BY <1>1, RefuseTypes
<1>2. CASE ~Refuse(t)
  <2>1. PICK where : where \in {"recover", "reread"} /\ Step(t, where)
    BY <1>2 DEF Conflict
  <2>2. Forget(t) /\ Release(t) /\ UNCHANGED <<catalog, version>>
    BY <1>2 DEF Conflict
  <2>3. /\ NoUnits \in [Unit -> UnitRow \union {None}]
        /\ NoRows \in [Number -> VersionRow \union {None}]
    BY DEF NoUnits, NoRows
  <2>4. where \in Place \ {"idle"}
    BY <2>1 DEF Place
  <2>5. /\ todo' \in [Thread -> SUBSET Unit] /\ absent' \in [Thread -> Unit \union {None}]
        /\ creates' \in [Thread -> BOOLEAN] /\ seen' \in [Thread -> Number \union {None}]
    BY <2>2 DEF Forget, TypeOK
  <2>6. /\ words' \in [Thread -> SUBSET Linked]
        /\ units' \in [Thread -> [Unit -> UnitRow \union {None}]]
        /\ rows' \in [Thread -> [Number -> VersionRow \union {None}]]
    BY <2>2, <2>3 DEF Release, TypeOK
  <2>7. /\ word' \in [Linked -> Edition] /\ unit' \in [Unit -> UnitRow \union {None}]
        /\ version' \in [Number -> VersionRow \union {None}]
    BY <2>2 DEF TypeOK
  <2> QED
    BY <2>1, <2>4, <2>5, <2>6, <2>7, StepTypes
<1> QED
  BY <1>1, <1>2

\* A request that begins.
LEMMA BeginTypes ==
  ASSUME TypeOK, Domains, NEW t \in Thread, NEW q \in Request,
         NEW where \in Place \ {"idle"},
         Begin(t, q, where), todo' \in [Thread -> SUBSET Unit],
         UNCHANGED <<absent, creates, seen>>
  PROVE  TypeOK' /\ Domains'
<1>1. q # None
  BY RequestFields
<1>2. begun' \in 0..MaxRequests
  BY PublicationAssumption DEF Begin, TypeOK
<1>3. TypeOK'
  BY <1>1, <1>2 DEF TypeOK, Begin, Goto, Domains
<1>4. Domains'
  BY DEF Begin, Goto, Domains
<1> QED
  BY <1>3, <1>4

\* What a transaction sees.
LEMMA SeenTypes ==
  ASSUME TypeOK, NEW t \in Thread
  PROVE  /\ \A u \in Unit : UnitAt(t, u) \in UnitRow \union {None}
         /\ \A v \in Number : RowAt(t, v) \in VersionRow \union {None}
         /\ pc[t] # "idle" => req[t] \in Request /\ Now(t) \in Number
BY RequestFields DEF TypeOK, UnitAt, RowAt, Now

LEMMA LockWordTypes ==
  ASSUME TypeOK, Domains, NEW t \in Thread, NEW u \in Unit, LockWord(t, u)
  PROVE  TypeOK' /\ Domains'
<1>1. CASE Refuse(t)
  BY <1>1, RefuseTypes
<1>2. CASE ~Refuse(t)
  <2>1. /\ u \in Linked /\ todo' = [todo EXCEPT ![t] = @ \ {u}]
        /\ words' = [words EXCEPT ![t] = @ \union {u}]
    BY <1>2 DEF LockWord
  <2>2. todo' \in [Thread -> SUBSET Unit] /\ words' \in [Thread -> SUBSET Linked]
    BY <2>1 DEF TypeOK
  <2>3. TypeOK'
    BY <1>2, <2>2 DEF LockWord, TypeOK
  <2> QED
    BY <1>2, <2>3 DEF LockWord, Domains
<1> QED
  BY <1>1, <1>2

LEMMA BundleTypes ==
  ASSUME TypeOK, Domains, NEW t \in Thread, ThreadInv(t), Bundle(t)
  PROVE  TypeOK' /\ Domains'
<1> USE SeenTypes
<1>1. CASE Compare(t)
  <2>1. PICK where \in {"look", "refuse"} : Step(t, where)
    BY <1>1 DEF Compare
  <2> QED
    BY <1>1, <2>1, StepTypes DEF Compare, TypeOK, Place
<1>2. CASE PreflightRefuses(t)
  BY <1>2, RefuseTypes DEF PreflightRefuses
<1>3. CASE Look(t)
  <2>1. PICK where \in {"adopt", "get"} : Step(t, where)
    BY <1>3 DEF Look
  <2>2. todo' \in [Thread -> SUBSET Unit] /\ creates' \in [Thread -> BOOLEAN]
    <3>1. req[t].units \subseteq Unit
      BY <1>3, RequestFields DEF Look
    <3>2. (version[Now(t)] = None) \in BOOLEAN
      OBVIOUS
    <3> QED
      BY <1>3, <3>1, <3>2 DEF Look, TypeOK, Now
  <2> QED
    BY <1>3, <2>1, <2>2, StepTypes DEF Look, TypeOK, Place
<1>4. CASE Adopt(t)
  <2>1. CASE Refuse(t)
    BY <2>1, RefuseTypes
  <2>2. CASE ~Refuse(t)
    <3>1. /\ version[Now(t)].print \in {None, req[t].print} /\ Answer(t, "accepted")
          /\ version' = [version EXCEPT ![Now(t)].print = req[t].print] /\ UNCHANGED catalog
      BY <1>4, <2>2 DEF Adopt, Now
    <3>2. version' \in [Number -> VersionRow \union {None}]
      <4>1. PICK q \in Request : q = req[t]
        BY <1>4, SeenTypes DEF Adopt
      <4>2. PICK r \in VersionRow : r = version[Now(t)] /\ Now(t) \in Number
        BY <1>4, SeenTypes DEF Adopt, TypeOK, ThreadInv, Shown
      <4>3. PICK new : new = [r EXCEPT !.print = q.print]
        OBVIOUS
      <4>4. new \in VersionRow
        BY <4>3, RequestFields, PrintedVersion
      <4>5. version' = [version EXCEPT ![Now(t)] = new]
        BY <3>1, <4>1, <4>2, <4>3
      <4> QED
        BY <4>2, <4>4, <4>5 DEF TypeOK
    <3> QED
      BY <3>1, <3>2, AnswerTypes DEF TypeOK
  <2> QED
    BY <2>1, <2>2
<1>5. ASSUME NEW u \in Unit, Get(t, u)
      PROVE  TypeOK' /\ Domains'
  <2>1. todo' \in [Thread -> SUBSET Unit] /\ absent' \in [Thread -> Unit \union {None}]
    BY <1>5 DEF Get, TypeOK
  <2>2. TypeOK'
    BY <1>5, <2>1 DEF Get, TypeOK
  <2> QED
    BY <1>5, <2>2 DEF Get, Domains
<1>6. ASSUME NEW u \in Unit, InsertUnit(t, u)
      PROVE  TypeOK' /\ Domains'
  <2>1. CASE Conflict(t)
    BY <1>6, <2>1, ConflictTypes DEF InsertUnit
  <2>2. CASE ~Conflict(t)
    <3>1. PICK new \in UnitRow : new = Content(req[t])
      BY <1>6, NewUnits DEF InsertUnit
    <3>2. /\ units' = [units EXCEPT ![t][u] = new]
          /\ absent' = [absent EXCEPT ![t] = None]
      BY <1>6, <2>2, <3>1 DEF InsertUnit
    <3>3. /\ units' \in [Thread -> [Unit -> UnitRow \union {None}]]
          /\ absent' \in [Thread -> Unit \union {None}]
      BY <3>2 DEF TypeOK
    <3>4. TypeOK'
      BY <1>6, <2>2, <3>3 DEF InsertUnit, TypeOK
    <3> QED
      BY <1>6, <2>2, <3>4 DEF InsertUnit, Domains
  <2> QED
    BY <2>1, <2>2
<1>7. ASSUME NEW u \in Unit, ResolveWord(t, u)
      PROVE  TypeOK' /\ Domains'
  BY <1>7, LockWordTypes DEF ResolveWord
<1>8. CASE InsertVersion(t)
  <2>1. CASE Conflict(t)
    BY <1>8, <2>1, ConflictTypes DEF InsertVersion, UnitsDone
  <2>2. CASE ~Conflict(t)
    <3>1. PICK new \in VersionRow : new = DraftRow(req[t].units)
      BY <1>8, RequestFields, DraftVersion DEF InsertVersion, UnitsDone
    <3>2. rows' = [rows EXCEPT ![t][Now(t)] = new] /\ Now(t) \in Number
      BY <1>8, <2>2, <3>1 DEF InsertVersion, Now, UnitsDone
    <3>3. rows' \in [Thread -> [Number -> VersionRow \union {None}]]
      BY <3>2 DEF TypeOK
    <3>4. TypeOK'
      BY <1>8, <2>2, <3>3 DEF InsertVersion, TypeOK
    <3> QED
      BY <1>8, <2>2, <3>4 DEF InsertVersion, Domains
  <2> QED
    BY <2>1, <2>2
<1>9. CASE RecoverPreflight(t)
  <2>1. CASE Refuse(t)
    BY <2>1, RefuseTypes
  <2>2. CASE ~Refuse(t)
    BY <1>9, <2>2, StepTypes DEF RecoverPreflight, TypeOK, Place
  <2> QED
    BY <2>1, <2>2
<1>10. CASE RecoverWinner(t)
  <2>1. CASE Refuse(t)
    BY <2>1, RefuseTypes
  <2>2. CASE ~Refuse(t)
    BY <1>10, <2>2, AnswerTypes DEF RecoverWinner, TypeOK
  <2> QED
    BY <2>1, <2>2
<1> QED
  BY <1>1, <1>2, <1>3, <1>4, <1>5, <1>6, <1>7, <1>8, <1>9, <1>10 DEF Bundle

LEMMA CatalogTypes ==
  ASSUME TypeOK, Domains, NEW t \in Thread, Catalog(t)
  PROVE  TypeOK' /\ Domains'
<1> USE SeenTypes
<1>1. CASE AnswerRepeat(t)
  BY <1>1, AnswerTypes DEF AnswerRepeat, TypeOK
<1>2. CASE LegacyDone(t)
  <2>1. todo' \in [Thread -> SUBSET Unit]
    BY <1>2, RequestFields DEF LegacyDone, TypeOK
  <2> QED
    BY <1>2, <2>1, StepTypes DEF LegacyDone, TypeOK, Place
<1>3. ASSUME NEW u \in Unit, LockLegacyWord(t, u)
      PROVE  TypeOK' /\ Domains'
  BY <1>3, LockWordTypes DEF LockLegacyWord
<1>4. ASSUME NEW u \in Unit, PublishUnit(t, u)
      PROVE  TypeOK' /\ Domains'
  <2>1. CASE Refuse(t)
    BY <2>1, RefuseTypes
  <2>2. CASE ~Refuse(t)
    <3>1. PICK r \in UnitRow : r = unit[u]
      BY <1>4, <2>2 DEF PublishUnit, TypeOK
    <3>2. PICK new : new = [r EXCEPT !.status = "published", !.shown = r.children]
      OBVIOUS
    <3>3. new \in UnitRow
      BY <3>2, PublishedUnit
    <3>4. units' = [units EXCEPT ![t][u] = new] /\ todo' = [todo EXCEPT ![t] = @ \ {u}]
      BY <1>4, <2>2, <3>1, <3>2 DEF PublishUnit
    <3>5. /\ units' \in [Thread -> [Unit -> UnitRow \union {None}]]
          /\ todo' \in [Thread -> SUBSET Unit]
      BY <3>3, <3>4 DEF TypeOK
    <3>6. TypeOK'
      BY <1>4, <2>2, <3>5 DEF PublishUnit, TypeOK
    <3> QED
      BY <1>4, <2>2, <3>6 DEF PublishUnit, Domains
  <2> QED
    BY <2>1, <2>2
<1> QED
  BY <1>1, <1>2, <1>3, <1>4 DEF Catalog

LEMMA PilotTypes ==
  ASSUME TypeOK, Domains, NEW t \in Thread, Pilot(t)
  PROVE  TypeOK' /\ Domains'
<1> USE SeenTypes
<1>1. CASE FindPilot(t)
  <2>1. PICK where \in {"insert", "ready"} : Step(t, where)
    BY <1>1 DEF FindPilot
  <2> QED
    BY <1>1, <2>1, StepTypes DEF FindPilot, TypeOK, Place
<1>2. CASE InsertPilot(t)
  <2>1. PICK refs \in SUBSET Unit : refs = {u \in Linked : unit[u] # None}
    BY PublicationAssumption
  <2>2. PICK new \in VersionRow : new = DraftRow(refs)
    BY DraftVersion
  <2>3. version' = IF version[Now(t)] # None THEN version
                   ELSE [version EXCEPT ![Now(t)] = new]
    BY <1>2, <2>1, <2>2 DEF InsertPilot, Now
  <2>4. version' \in [Number -> VersionRow \union {None}]
    BY <1>2, <2>3 DEF TypeOK, InsertPilot
  <2> QED
    BY <1>2, <2>4, StepTypes DEF InsertPilot, TypeOK, Place
<1>3. CASE PilotReady(t)
  <2>1. CASE Step(t, "draft") /\ UNCHANGED <<catalog, version, local, work>>
    BY <1>3, <2>1, StepTypes DEF PilotReady, TypeOK, Place
  <2>2. CASE Answer(t, "accepted") /\ UNCHANGED <<catalog, version>>
    BY <1>3, <2>2, AnswerTypes DEF PilotReady, TypeOK
  <2> QED
    BY <1>3, <2>1, <2>2 DEF PilotReady
<1>4. CASE Reread(t)
  <2>1. CASE Refuse(t)
    BY <2>1, RefuseTypes
  <2>2. CASE ~Refuse(t)
    BY <1>4, <2>2, AnswerTypes DEF Reread, TypeOK
  <2> QED
    BY <2>1, <2>2
<1> QED
  BY <1>1, <1>2, <1>3, <1>4 DEF Pilot

\* What a commit writes of a unit.
LEMMA StoredUnit ==
  ASSUME TypeOK, NEW t \in Thread, NEW x \in Unit
  PROVE  /\ Stored(t, x) \in UnitRow \union {None}
         /\ units[t][x] = None => Stored(t, x) = unit[x]
         /\ units[t][x] # None /\ unit[x] = None => Stored(t, x) = units[t][x]
         /\ units[t][x] # None /\ unit[x] # None =>
              /\ Stored(t, x) # None
              /\ Stored(t, x).status = units[t][x].status
              /\ Stored(t, x).shown = units[t][x].shown
              /\ Stored(t, x).base = units[t][x].base
              /\ Stored(t, x).children = unit[x].children
<1>1. CASE units[t][x] = None \/ unit[x] = None
  BY <1>1, SeenTypes DEF Stored, UnitAt
<1>2. CASE units[t][x] # None /\ unit[x] # None
  <2>1. PICK r \in UnitRow, s \in UnitRow : r = units[t][x] /\ s = unit[x]
    BY <1>2 DEF TypeOK
  <2>2. Stored(t, x) = [r EXCEPT !.children = s.children]
    BY <1>2, <2>1 DEF Stored
  <2>3. /\ [r EXCEPT !.children = s.children] \in UnitRow
        /\ [r EXCEPT !.children = s.children].children = s.children
        /\ [r EXCEPT !.children = s.children].status = r.status
        /\ [r EXCEPT !.children = s.children].shown = r.shown
        /\ [r EXCEPT !.children = s.children].base = r.base
    BY DEF UnitRow
  <2> QED
    BY <1>2, <2>1, <2>2, <2>3, UnitFields
<1> QED
  BY <1>1, <1>2

LEMMA PublishTypes ==
  ASSUME TypeOK, Domains, NEW t \in Thread, ThreadInv(t), Publish(t)
  PROVE  TypeOK' /\ Domains'
<1> USE SeenTypes
<1>1. CASE CheckDraft(t)
  <2>1. CASE Refuse(t) \/ Conflict(t)
    BY <1>1, <2>1, RefuseTypes, ConflictTypes DEF CheckDraft, Written, UnitsDone
  <2>2. CASE ~Refuse(t) /\ ~Conflict(t)
    <3>1. PICK where \in {"words", "active"} : Step(t, where)
      BY <1>1, <2>2 DEF CheckDraft
    <3>2. PICK r \in VersionRow : r = RowAt(t, req[t].number)
      BY <1>1, <2>2 DEF CheckDraft, Is, Now, Written, UnitsDone
    <3>3. PICK some \in SUBSET Unit :
            some = IF req[t].kind = "bundle" THEN r.refs \intersect Linked ELSE {}
      BY <3>2, VersionFields
    <3>4. todo' = [todo EXCEPT ![t] = some]
      BY <1>1, <2>2, <3>2, <3>3 DEF CheckDraft
    <3>5. todo' \in [Thread -> SUBSET Unit]
      BY <3>4 DEF TypeOK
    <3> QED
      BY <1>1, <2>2, <3>1, <3>5, StepTypes DEF CheckDraft, TypeOK, Place, Written, UnitsDone
  <2> QED
    BY <2>1, <2>2
<1>2. CASE ReadActive(t)
  <2>1. CASE Refuse(t)
    BY <2>1, RefuseTypes
  <2>2. CASE ~Refuse(t)
    <3>1. PICK where \in {"activate", "retire"} : Step(t, where)
      BY <1>2, <2>2 DEF ReadActive
    <3>2. PICK s \in Number \union {None} :
            s = IF Active = {} THEN None ELSE CHOOSE a \in Active : TRUE
      BY DEF Active
    <3>3. seen' \in [Thread -> Number \union {None}]
      BY <1>2, <2>2, <3>2 DEF ReadActive, TypeOK
    <3> QED
      BY <1>2, <2>2, <3>1, <3>3, StepTypes DEF ReadActive, TypeOK, Place
  <2> QED
    BY <2>1, <2>2
<1>3. CASE Retire(t)
  <2>1. CASE Conflict(t)
    BY <1>3, <2>1, ConflictTypes DEF Retire
  <2>2. CASE ~Conflict(t)
    <3>1. PICK a \in Number : a = seen[t]
      BY <1>3 DEF Retire, ThreadInv
    <3>2. PICK r \in VersionRow : r = version[a] /\ r.status = "active"
      BY <1>3, <2>2, <3>1 DEF Retire, Is, TypeOK
    <3>3. PICK at \in Date : at = req[t].at
      BY <1>3, RequestFields DEF Retire
    <3>4. PICK new : new = Retired(r, at)
      OBVIOUS
    <3>5. new \in VersionRow
      BY <3>2, <3>4, RetiredVersion
    <3>6. rows' = [rows EXCEPT ![t][a] = new]
      BY <1>3, <2>2, <3>1, <3>2, <3>3, <3>4 DEF Retire, Retired
    <3>7. rows' \in [Thread -> [Number -> VersionRow \union {None}]]
      BY <3>5, <3>6 DEF TypeOK
    <3> QED
      BY <1>3, <2>2, <3>7, StepTypes DEF Retire, TypeOK, Place
  <2> QED
    BY <2>1, <2>2
<1>4. CASE Activate(t)
  <2>1. CASE Conflict(t)
    BY <1>4, <2>1, ConflictTypes DEF Activate
  <2>2. CASE ~Conflict(t)
    <3>1. PICK v \in Number : v = Now(t)
      BY <1>4 DEF Activate
    <3>2. PICK r \in VersionRow : r = RowAt(t, v) /\ r.status = "draft"
      BY <1>4, <2>2, <3>1 DEF Activate, Is, Now
    <3>3. PICK at \in Date : at = req[t].at
      BY <1>4, RequestFields DEF Activate
    <3>4. PICK print \in Prints \union {r.print} :
            print = IF req[t].kind = "pilot" THEN r.print ELSE req[t].print
      BY <1>4, RequestFields DEF Activate
    <3>5. PICK new : new = Activated(r, at, print)
      OBVIOUS
    <3>6. new \in VersionRow
      BY <3>2, <3>5, ActiveVersion
    <3>7. rows' = [rows EXCEPT ![t][v] = new]
      BY <1>4, <2>2, <3>1, <3>2, <3>3, <3>4, <3>5 DEF Activate, Now, Activated
    <3>8. rows' \in [Thread -> [Number -> VersionRow \union {None}]]
      BY <3>6, <3>7 DEF TypeOK
    <3> QED
      BY <1>4, <2>2, <3>8, StepTypes DEF Activate, TypeOK, Place
  <2> QED
    BY <2>1, <2>2
<1>5. CASE Commit(t)
  <2>1. unit' \in [Unit -> UnitRow \union {None}]
    BY <1>5, StoredUnit DEF Commit
  <2>2. version' \in [Number -> VersionRow \union {None}]
    BY <1>5 DEF Commit
  <2> QED
    BY <1>5, <2>1, <2>2, AnswerTypes DEF Commit, TypeOK
<1> QED
  BY <1>1, <1>2, <1>3, <1>4, <1>5 DEF Publish

LEMMA BeginsTypes ==
  ASSUME TypeOK, Domains, NEW t \in Thread, NEW q \in Request
  PROVE  /\ BeginBundle(t, q) => TypeOK' /\ Domains'
         /\ BeginCatalog(t, q) => TypeOK' /\ Domains'
         /\ \A complete \in SUBSET Linked : BeginPilot(t, q, complete) => TypeOK' /\ Domains'
<1> USE SeenTypes
<1>1. ASSUME BeginBundle(t, q) PROVE TypeOK' /\ Domains'
  <2>1. PICK where \in {"compare", "refuse"} : Begin(t, q, where)
    BY <1>1 DEF BeginBundle
  <2>2. todo' \in [Thread -> SUBSET Unit]
    BY <1>1, RequestFields DEF BeginBundle, Missing, TypeOK
  <2> QED
    BY <1>1, <2>1, <2>2, BeginTypes DEF BeginBundle, Place
<1>2. ASSUME BeginCatalog(t, q) PROVE TypeOK' /\ Domains'
  <2>1. PICK where \in {"repeat", "legacy", "refuse"} : Begin(t, q, where)
    BY <1>2 DEF BeginCatalog
  <2>2. PICK some \in SUBSET Unit :
          some = IF Publishable(q) THEN version[q.number].refs \intersect Linked ELSE {}
    BY RequestFields, VersionFields, PublicationAssumption
  <2>3. todo' \in [Thread -> SUBSET Unit]
    BY <1>2, <2>2 DEF BeginCatalog, TypeOK
  <2> QED
    BY <1>2, <2>1, <2>3, BeginTypes DEF BeginCatalog, Place
<1>3. ASSUME NEW complete \in SUBSET Linked, BeginPilot(t, q, complete)
      PROVE  TypeOK' /\ Domains'
  <2>1. unit' \in [Unit -> UnitRow \union {None}]
    <3>1. \A x \in Linked : \A status \in {"draft", "published"} :
            Imported(x, status) \in UnitRow
      BY ImportedUnit DEF TypeOK
    <3> QED
      BY <1>3, <3>1 DEF BeginPilot, TypeOK
  <2>2. q # None /\ begun' \in 0..MaxRequests
    BY <1>3, RequestFields, PublicationAssumption DEF BeginPilot, TypeOK
  <2>3. TypeOK'
    BY <1>3, <2>1, <2>2 DEF BeginPilot, TypeOK, Goto, Domains
  <2> QED
    BY <1>3, <2>3 DEF BeginPilot, Goto, Domains, Place
<1> QED
  BY <1>1, <1>2, <1>3

LEMMA EditTypes ==
  ASSUME TypeOK, Domains
  PROVE  /\ \A u \in Linked : EditWord(u) => TypeOK' /\ Domains'
         /\ \A u \in Unit : AddChild(u) => TypeOK' /\ Domains'
<1>1. ASSUME NEW u \in Linked, EditWord(u) PROVE TypeOK' /\ Domains'
  <2>1. word' \in [Linked -> Edition]
    BY <1>1, PublicationAssumption DEF EditWord, TypeOK, Edition
  <2>2. TypeOK'
    BY <1>1, <2>1 DEF EditWord, TypeOK
  <2> QED
    BY <1>1, <2>2 DEF EditWord, Domains
<1>2. ASSUME NEW u \in Unit, AddChild(u) PROVE TypeOK' /\ Domains'
  <2>1. PICK r \in UnitRow : r = unit[u]
    BY <1>2 DEF AddChild, AddTo, TypeOK
  <2>2. [r EXCEPT !.children = @ + 1] \in UnitRow
    BY DEF UnitRow
  <2>3. unit' = [unit EXCEPT ![u] = [r EXCEPT !.children = @ + 1]]
    BY <1>2, <2>1 DEF AddChild, AddTo, TypeOK
  <2>4. unit' \in [Unit -> UnitRow \union {None}]
    BY <2>2, <2>3 DEF TypeOK
  <2>5. TypeOK'
    BY <1>2, <2>4 DEF AddChild, AddTo, TypeOK
  <2> QED
    BY <1>2, <2>5 DEF AddChild, AddTo, Domains
<1> QED
  BY <1>1, <1>2

-----------------------------------------------------------------------------
(* A transaction while others take steps.                                  *)

\* What the others do to committed rows: refs and publications stay, and a row that
\* u has written, or a word it has locked, is left alone.
Keeps(u) ==
  /\ \A v \in Number : version[v] # None => version'[v] # None /\ version'[v].refs = version[v].refs
  /\ \A v \in Number : Shown(version[v]) =>
       /\ Shown(version'[v]) /\ version'[v].at = version[v].at
       /\ version[v].print # None => version'[v].print = version[v].print
  /\ \A v \in Number : rows[u][v] # None => version'[v] = version[v]
  /\ \A x \in Unit : unit[x] # None => unit'[x] # None /\ unit'[x].base = unit[x].base
  /\ \A x \in Unit : Is(unit[x], "published") => Is(unit'[x], "published")
  /\ \A x \in Unit : units[u][x] # None => unit'[x] = unit[x]
  /\ \A x \in Linked : x \in words[u] => word'[x] = word[x]
  /\ pc[u] = "commit" => \A a \in Number : Is(version'[a], "active") => Is(version[a], "active")

Rests(u) ==
  /\ pc'[u] = pc[u] /\ req'[u] = req[u] /\ todo'[u] = todo[u] /\ seen'[u] = seen[u]
  /\ words'[u] = words[u] /\ units'[u] = units[u] /\ rows'[u] = rows[u]

\* What it sees does not change.
LEMMA SeenKept ==
  ASSUME TypeOK, NEW u \in Thread, Keeps(u), rows'[u] = rows[u], units'[u] = units[u],
         words'[u] = words[u]
  PROVE  /\ \A v \in Number : RowAt(u, v) # None =>
             RowAt(u, v)' # None /\ RowAt(u, v)'.refs = RowAt(u, v).refs
         /\ \A x \in Unit : Published(u, x) => Published(u, x)'
         /\ \A x \in Linked : Held(u, x) => Held(u, x)'
<1>1. ASSUME NEW v \in Number, RowAt(u, v) # None
      PROVE  RowAt(u, v)' # None /\ RowAt(u, v)'.refs = RowAt(u, v).refs
  BY <1>1 DEF RowAt, Keeps
<1>2. ASSUME NEW x \in Unit, Published(u, x)
      PROVE  Published(u, x)'
  BY <1>2 DEF Published, UnitAt, Keeps, Is
<1>3. ASSUME NEW x \in Linked, Held(u, x)
      PROVE  Held(u, x)'
  <2>1. x \in Unit
    BY PublicationAssumption
  <2>2. UnitAt(u, x)' # None /\ UnitAt(u, x)'.base = UnitAt(u, x).base
    BY <1>3, <2>1 DEF Held, UnitAt, Keeps
  <2>3. word'[x] = word[x] /\ x \in words'[u]
    BY <1>3 DEF Held, Keeps
  <2> QED
    BY <1>3, <2>2, <2>3 DEF Held
<1> QED
  BY <1>1, <1>2, <1>3

LEMMA RowsKept ==
  ASSUME TypeOK, NEW u \in Thread, Keeps(u), rows'[u] = rows[u], units'[u] = units[u],
         req'[u] = req[u], RowsFit(u), UnitsFit(u)
  PROVE  RowsFit(u)' /\ UnitsFit(u)'
<1>1. RowsFit(u)'
  <2>1. ASSUME NEW v \in Number, NEW row \in {rows'[u][v]}, row # None, NEW q, q = req[u]
        PROVE  /\ version'[v] # None => row.refs = version'[v].refs
               /\ IF v = q.number THEN FitsOwn(row, v, q)' ELSE FitsOther(row, v, q)'
    <3>1. row = rows[u][v] /\ version'[v] = version[v]
      BY <2>1 DEF Keeps
    <3>2. /\ version[v] # None => row.refs = version[v].refs
          /\ IF v = q.number THEN FitsOwn(row, v, q) ELSE FitsOther(row, v, q)
      BY <2>1, <3>1 DEF RowsFit, FitsOwn, FitsOther
    <3> QED
      BY <3>1, <3>2 DEF FitsOwn, FitsOther
  <2> QED
    BY <2>1 DEF RowsFit, FitsOwn, FitsOther
<1>2. UnitsFit(u)'
  BY DEF UnitsFit, Keeps
<1> QED
  BY <1>1, <1>2

LEMMA RefsKept ==
  ASSUME TypeOK, NEW u \in Thread, Keeps(u), Rests(u), req[u] # None, RowAt(u, Now(u)) # None
  PROVE  /\ AllHeld(u) => AllHeld(u)'
         /\ HeldOrToDo(u) => HeldOrToDo(u)'
         /\ (\A x \in Refs(u) : Published(u, x)) => \A x \in Refs(u)' : Published(u, x)'
         /\ RowAt(u, Now(u))' # None
<1>1. PICK v \in Number : v = Now(u) /\ v = Now(u)'
  BY RequestFields DEF Rests, Now, TypeOK
<1>2. Refs(u)' = Refs(u) /\ RowAt(u, Now(u))' # None
  BY <1>1, SeenKept DEF Refs, Rests
<1>3. Refs(u) \subseteq Unit
  BY <1>1, SeenTypes, VersionFields DEF Refs
<1>4. /\ \A x \in Unit : Published(u, x) => Published(u, x)'
      /\ \A x \in Linked : Held(u, x) => Held(u, x)'
  BY SeenKept DEF Rests
<1>5. AllHeld(u) => AllHeld(u)'
  BY <1>2, <1>4 DEF AllHeld
<1>6. HeldOrToDo(u) => HeldOrToDo(u)'
  BY <1>2, <1>4 DEF HeldOrToDo, Rests
<1>7. (\A x \in Refs(u) : Published(u, x)) => \A x \in Refs(u)' : Published(u, x)'
  BY <1>2, <1>3, <1>4
<1> QED
  BY <1>2, <1>5, <1>6, <1>7

LEMMA Others ==
  ASSUME TypeOK, NEW u \in Thread, Keeps(u), Rests(u), RowsFit(u), UnitsFit(u), ThreadInv(u)
  PROVE  RowsFit(u)' /\ UnitsFit(u)' /\ ThreadInv(u)'
<1>1. RowsFit(u)' /\ UnitsFit(u)'
  BY RowsKept DEF Rests
<1>2. CASE pc[u] = "idle"
  BY <1>1, <1>2 DEF ThreadInv, Rests, Checked, Resolved, NoRows, NoUnits
<1>3. CASE pc[u] # "idle"
  <2>1. PICK q \in Request : q = req[u] /\ q = req'[u]
    BY <1>3 DEF Rests, TypeOK
  <2>2. PICK v \in Number : v = Now(u) /\ v = Now(u)'
    BY <2>1, RequestFields DEF Now
  <2>3. pc'[u] = "adopt" => Shown(version'[Now(u)'])
    BY <2>2 DEF ThreadInv, Rests, Keeps
  <2>4. pc'[u] = "repeat" => Pinned(Now(u), req[u].print)'
    BY <2>1, <2>2, RequestFields DEF ThreadInv, Rests, Keeps, Pinned
  <2>5. pc[u] \in {"legacy", "units"} \union Checked => RowAt(u, Now(u)) # None
    BY <2>2 DEF ThreadInv, RowAt
  <2>6. pc'[u] = "legacy" => HeldOrToDo(u)'
    BY <2>1, <2>5, RefsKept, RequestFields DEF ThreadInv, Rests
  <2>7. pc'[u] = "units" => AllHeld(u)'
    BY <2>1, <2>5, RefsKept, RequestFields DEF ThreadInv, Rests
  <2>8. pc'[u] \in Checked => /\ RowAt(u, Now(u))' # None
                              /\ \A x \in Refs(u)' : Published(u, x)'
    BY <2>1, <2>5, RefsKept, RequestFields DEF ThreadInv, Rests
  <2>9. pc'[u] = "words" => HeldOrToDo(u)'
    BY <2>1, <2>5, RefsKept, RequestFields DEF ThreadInv, Rests, Checked
  <2>10. pc'[u] \in Resolved /\ req'[u].kind # "pilot" => AllHeld(u)'
    BY <2>1, <2>5, RefsKept, RequestFields DEF ThreadInv, Rests, Checked, Resolved
  <2>11. pc'[u] = "retire" =>
           /\ seen'[u] \in Number /\ seen'[u] < Now(u)'
           /\ Shown(version'[seen'[u]]) /\ version'[seen'[u]].at <= req'[u].at
    BY <2>1, <2>2 DEF ThreadInv, Rests, Keeps
  <2>12. pc'[u] = "commit" => /\ Is(rows'[u][Now(u)'], "active")
                              /\ \A a \in Active' : rows'[u][a] # None
    BY <2>2 DEF ThreadInv, Rests, Keeps, Active
  <2>13. pc'[u] \in {"legacy", "units"} => version'[Now(u)'] # None
    BY <2>2 DEF ThreadInv, Rests, Keeps
  <2> QED
    BY <1>1, <1>3, <2>1, <2>3, <2>4, <2>6, <2>7, <2>8, <2>9, <2>10, <2>11, <2>12, <2>13
       DEF ThreadInv, Rests
<1> QED
  BY <1>1, <1>2, <1>3

-----------------------------------------------------------------------------
(* Steps that leave the committed rows alone.                              *)

LEMMA SameKept ==
  ASSUME NEW u \in Thread, UNCHANGED <<catalog, version>>
  PROVE  Keeps(u)
BY DEF Keeps

LEMMA SameCommitted ==
  ASSUME IInv, UNCHANGED <<catalog, version>>
  PROVE  Ordered' /\ AllShown' /\ RefsPublished' /\ (UNCHANGED reply => RepliesPinned')
<1>1. Active' = Active
  BY DEF Active
<1>2. Ordered' /\ AllShown' /\ RefsPublished'
  BY <1>1 DEF IInv, Ordered, AllShown, RefsPublished
<1>3. UNCHANGED reply => RepliesPinned'
  BY DEF IInv, RepliesPinned, Pinned
<1> QED
  BY <1>2, <1>3

\* Only the transaction of t changes.
LEMMA OwnStep ==
  ASSUME IInv, NEW t \in Thread, UNCHANGED <<catalog, version>>,
         \A u \in Thread \ {t} : Rests(u),
         TypeOK', Domains', Locks', RepliesPinned', RowsFit(t)', UnitsFit(t)', ThreadInv(t)'
  PROVE  IInv'
<1>1. ASSUME NEW u \in Thread, u # t
      PROVE  RowsFit(u)' /\ UnitsFit(u)' /\ ThreadInv(u)'
  BY <1>1, SameKept, Others DEF IInv
<1>2. Ordered' /\ AllShown' /\ RefsPublished'
  BY SameCommitted
<1> QED
  BY <1>1, <1>2 DEF IInv

\* A transaction that ends releases what it has.
LEMMA Released ==
  ASSUME IInv, NEW t \in Thread, Release(t), pc' = [pc EXCEPT ![t] = pc'[t]],
         pc'[t] \in {"idle", "recover", "reread"},
         pc'[t] = "recover" => req'[t].kind = "bundle",
         pc'[t] = "reread" => req'[t].kind = "pilot"
  PROVE  Locks' /\ RowsFit(t)' /\ UnitsFit(t)' /\ ThreadInv(t)'
<1>1. /\ rows'[t] = NoRows /\ units'[t] = NoUnits /\ words'[t] = {}
      /\ \A u \in Thread \ {t} : rows'[u] = rows[u] /\ units'[u] = units[u]
  BY DEF Release, IInv, TypeOK
<1>2. (\A v \in Number : rows'[t][v] = None) /\ \A x \in Unit : units'[t][x] = None
  BY <1>1 DEF NoRows, NoUnits
<1>3. \A u \in Thread \ {t} : pc'[u] = pc[u]
  BY DEF IInv, Domains
<1>4. Locks'
  BY <1>1, <1>2, <1>3 DEF IInv, Locks
<1>5. RowsFit(t)' /\ UnitsFit(t)'
  BY <1>2 DEF RowsFit, UnitsFit
<1>6. ThreadInv(t)'
  BY <1>1 DEF ThreadInv, Checked, Resolved
<1> QED
  BY <1>4, <1>5, <1>6

LEMMA Answered ==
  ASSUME IInv, NEW t \in Thread, NEW outcome, Answer(t, outcome)
  PROVE  /\ Locks' /\ RowsFit(t)' /\ UnitsFit(t)' /\ ThreadInv(t)'
         /\ \A u \in Thread \ {t} : Rests(u) /\ reply'[u] = reply[u]
         /\ reply'[t] = [request |-> req[t], outcome |-> outcome]
<1>1. Locks' /\ RowsFit(t)' /\ UnitsFit(t)' /\ ThreadInv(t)'
  BY Released DEF Answer, Goto, IInv, Domains
<1>2. /\ \A u \in Thread \ {t} : Rests(u) /\ reply'[u] = reply[u]
      /\ reply'[t] = [request |-> req[t], outcome |-> outcome]
  BY DEF Answer, Goto, Forget, Release, Rests, IInv, Domains, TypeOK
<1> QED
  BY <1>1, <1>2

LEMMA AnswerInv ==
  ASSUME IInv, NEW t \in Thread, pc[t] # "idle", NEW outcome, Answer(t, outcome),
         UNCHANGED <<catalog, version>>,
         outcome = "accepted" /\ req[t].kind # "pilot" => Pinned(Now(t), req[t].print)
  PROVE  IInv'
<1>1. TypeOK' /\ Domains'
  BY AnswerTypes DEF IInv, TypeOK
<1>2. RepliesPinned'
  <2> SUFFICES ASSUME NEW u \in Thread, NEW r \in {reply'[u]}, r # None,
                      r.outcome = "accepted" /\ r.request.kind # "pilot"
               PROVE  /\ r.request.number \in Number /\ r.request.print # None
                      /\ Pinned(r.request.number, r.request.print)'
    BY DEF RepliesPinned, Pinned
  <2>0. /\ \A other \in Thread \ {t} : reply'[other] = reply[other]
        /\ reply'[t] = [request |-> req[t], outcome |-> outcome]
    BY Answered
  <2>1. CASE u = t
    <3>1. PICK q \in Request : q = req[t] /\ r = [request |-> q, outcome |-> outcome]
      BY <2>0, <2>1 DEF IInv, TypeOK
    <3> QED
      BY <3>1, RequestFields DEF Pinned, Now
  <2>2. CASE u # t
    BY <2>0, <2>2 DEF IInv, RepliesPinned, Pinned
  <2> QED
    BY <2>1, <2>2
<1> QED
  BY <1>1, <1>2, Answered, OwnStep

LEMMA RefuseInv ==
  ASSUME IInv, NEW t \in Thread, pc[t] # "idle", Refuse(t)
  PROVE  IInv'
BY AnswerInv DEF Refuse

LEMMA ConflictInv ==
  ASSUME IInv, NEW t \in Thread, pc[t] # "idle", Conflict(t)
  PROVE  IInv'
<1>1. CASE Refuse(t)
  BY <1>1, RefuseInv
<1>2. CASE ~Refuse(t)
  <2>1. PICK where : /\ where \in {"recover", "reread"} /\ Step(t, where)
                     /\ where = "recover" => req[t].kind = "bundle"
                     /\ where = "reread" => req[t].kind = "pilot"
    BY <1>2 DEF Conflict
  <2>2. Forget(t) /\ Release(t) /\ UNCHANGED <<catalog, version>>
    BY <1>2 DEF Conflict
  <2>3. TypeOK' /\ Domains'
    BY ConflictTypes DEF IInv
  <2>4. Locks' /\ RowsFit(t)' /\ UnitsFit(t)' /\ ThreadInv(t)'
    BY <2>1, <2>2, Released DEF Step, Goto, IInv, Domains
  <2>5. \A u \in Thread \ {t} : Rests(u)
    BY <2>1, <2>2 DEF Step, Goto, Forget, Release, Rests, IInv, Domains, TypeOK
  <2>6. RepliesPinned'
    BY <2>1, <2>2, SameCommitted DEF Step
  <2> QED
    BY <2>2, <2>3, <2>4, <2>5, <2>6, OwnStep
<1> QED
  BY <1>1, <1>2

\* A request that only goes on to another place.
LEMMA MoveInv ==
  ASSUME IInv, NEW t \in Thread, pc[t] # "idle", NEW where \in Place \ {"idle", "commit"},
         Step(t, where), UNCHANGED <<catalog, version, work>>,
         \A u \in Thread \ {t} : todo'[u] = todo[u] /\ seen'[u] = seen[u],
         TypeOK', Domains', ThreadInv(t)'
  PROVE  IInv'
<1>1. Locks'
  BY DEF Locks, Step, Goto, IInv, Domains
<1>2. RowsFit(t)' /\ UnitsFit(t)'
  BY RowsKept, SameKept DEF IInv, Step
<1>3. \A u \in Thread \ {t} : Rests(u)
  BY DEF Rests, Step, Goto, IInv, Domains
<1>4. RepliesPinned'
  BY SameCommitted DEF Step
<1> QED
  BY <1>1, <1>2, <1>3, <1>4, OwnStep

LEMMA BeginInv ==
  ASSUME IInv, NEW t \in Thread, NEW q \in Request,
         NEW where \in {"compare", "refuse", "repeat", "legacy"},
         Begin(t, q, where), UNCHANGED <<absent, creates, seen>>,
         \A u \in Thread \ {t} : todo'[u] = todo[u],
         TypeOK', Domains', ThreadInv(t)'
  PROVE  IInv'
<1>1. Locks'
  BY DEF Locks, Begin, Goto, IInv, Domains
<1>2. /\ \A v \in Number : rows'[t][v] = None
      /\ \A x \in Unit : units'[t][x] = None
  BY DEF Begin, IInv, ThreadInv, NoRows, NoUnits
<1>3. RowsFit(t)' /\ UnitsFit(t)'
  BY <1>2 DEF RowsFit, UnitsFit
<1>4. \A u \in Thread \ {t} : Rests(u)
  BY DEF Rests, Begin, Goto, IInv, Domains, TypeOK
<1>5. RepliesPinned'
  BY DEF RepliesPinned, Pinned, IInv, Begin, Domains
<1> QED
  BY <1>1, <1>3, <1>4, <1>5, OwnStep DEF Begin

LEMMA BeginBundleInv ==
  ASSUME IInv, NEW t \in Thread, NEW q \in Request, BeginBundle(t, q)
  PROVE  IInv'
<1>1. PICK where \in {"compare", "refuse"} : Begin(t, q, where)
  BY DEF BeginBundle
<1>2. TypeOK' /\ Domains'
  BY BeginsTypes DEF IInv
<1>3. ThreadInv(t)'
  BY <1>1 DEF ThreadInv, Begin, BeginBundle, Goto, Checked, Resolved, IInv, Domains, TypeOK
<1>4. \A u \in Thread \ {t} : todo'[u] = todo[u]
  BY DEF BeginBundle, IInv, TypeOK
<1> QED
  BY <1>1, <1>2, <1>3, <1>4, BeginInv DEF BeginBundle

LEMMA BeginCatalogInv ==
  ASSUME IInv, NEW t \in Thread, NEW q \in Request, BeginCatalog(t, q)
  PROVE  IInv'
<1>1. PICK where \in {"repeat", "legacy", "refuse"} :
        /\ Begin(t, q, where)
        /\ where = "repeat" => Repeats(q)
        /\ where = "legacy" => Publishable(q)
  BY DEF BeginCatalog
<1>2. TypeOK' /\ Domains'
  BY BeginsTypes DEF IInv
<1>3. /\ pc'[t] = where /\ req'[t] = q /\ UNCHANGED <<catalog, version, work>>
      /\ rows[t] = NoRows
  BY <1>1 DEF Begin, Goto, IInv, Domains, TypeOK, ThreadInv
<1>4. Now(t)' = q.number /\ q.number \in Number
  BY <1>3, RequestFields DEF Now
<1>5. where = "repeat" => Pinned(Now(t), req[t].print)'
  BY <1>1, <1>3, <1>4 DEF Repeats, Pinned, Is, Shown
<1>6. where = "legacy" => version'[Now(t)'] # None /\ HeldOrToDo(t)'
  <2> SUFFICES ASSUME where = "legacy"
               PROVE  version'[Now(t)'] # None /\ HeldOrToDo(t)'
    OBVIOUS
  <2>1. version[q.number] # None
    BY <1>1 DEF Publishable, Is
  <2>2. todo'[t] = version[q.number].refs \intersect Linked
    BY <1>1 DEF BeginCatalog, IInv, TypeOK
  <2>3. Refs(t)' = version[q.number].refs
    BY <1>3, <1>4 DEF Refs, RowAt, NoRows
  <2> QED
    BY <1>3, <1>4, <2>1, <2>2, <2>3 DEF HeldOrToDo
<1>7. ThreadInv(t)'
  BY <1>3, <1>5, <1>6 DEF ThreadInv, BeginCatalog, Checked, Resolved
<1>8. \A u \in Thread \ {t} : todo'[u] = todo[u]
  BY DEF BeginCatalog, IInv, TypeOK
<1> QED
  BY <1>1, <1>2, <1>7, <1>8, BeginInv DEF BeginCatalog

\* The rows of the request's version and of its units.
LEMMA SameSeen ==
  ASSUME IInv, NEW t \in Thread, UNCHANGED <<catalog, version, work, req>>
  PROVE  /\ Refs(t)' = Refs(t) /\ RowAt(t, Now(t))' = RowAt(t, Now(t))
         /\ \A x \in Unit : Published(t, x)' = Published(t, x)
         /\ \A x \in Linked : Held(t, x)' = Held(t, x)
BY DEF Refs, RowAt, Now, Published, Held, UnitAt

LEMMA LockWordInv ==
  ASSUME IInv, NEW t \in Thread, NEW u \in Unit, pc[t] \in {"legacy", "words"}, LockWord(t, u)
  PROVE  IInv'
<1>1. CASE Refuse(t)
  BY <1>1, RefuseInv
<1>2. CASE ~Refuse(t)
  <2>1. /\ u \in Linked /\ UnitAt(t, u) # None /\ UnitAt(t, u).base = word[u]
        /\ words' = [words EXCEPT ![t] = @ \union {u}] /\ todo' = [todo EXCEPT ![t] = @ \ {u}]
        /\ UNCHANGED <<catalog, version, pc, req, absent, creates, seen, units, rows, reply, begun>>
    BY <1>2 DEF LockWord
  <2>2. TypeOK' /\ Domains'
    BY LockWordTypes DEF IInv
  <2>3. /\ words'[t] = words[t] \union {u} /\ todo'[t] = todo[t] \ {u}
        /\ \A x \in Thread \ {t} : words'[x] = words[x] /\ todo'[x] = todo[x]
    BY <2>1 DEF IInv, TypeOK
  <2>4. Locks' /\ RepliesPinned'
    BY <2>1, SameCommitted DEF IInv, Locks
  <2>5. RowsFit(t)' /\ UnitsFit(t)'
    BY <2>1, RowsKept, SameKept DEF IInv
  <2>6. HeldOrToDo(t) => HeldOrToDo(t)'
    BY <2>1, <2>3 DEF HeldOrToDo, Refs, RowAt, Now, Held, UnitAt
  <2>7. (\A x \in Refs(t) : Published(t, x)) => \A x \in Refs(t)' : Published(t, x)'
    BY <2>1 DEF Refs, RowAt, Now, Published, UnitAt
  <2>8. RowAt(t, Now(t))' = RowAt(t, Now(t)) /\ Now(t)' = Now(t)
    BY <2>1 DEF RowAt, Now
  <2>9. ThreadInv(t)'
    BY <2>1, <2>6, <2>7, <2>8 DEF ThreadInv, Checked, Resolved, IInv
  <2>10. \A x \in Thread \ {t} : Rests(x)
    BY <2>1, <2>3 DEF Rests
  <2> QED
    BY <2>1, <2>2, <2>4, <2>5, <2>9, <2>10, OwnStep
<1> QED
  BY <1>1, <1>2

LEMMA LookInv ==
  ASSUME IInv, NEW t \in Thread, Look(t)
  PROVE  IInv'
<1>1. PICK where \in {"adopt", "get"} :
        Step(t, where) /\ (where = "adopt" => Is(version[Now(t)], "active"))
  BY DEF Look, Now
<1>2. TypeOK' /\ Domains'
  BY BundleTypes DEF IInv, Bundle
<1>3. pc'[t] = where /\ req' = req /\ UNCHANGED version
  BY <1>1 DEF Step, Goto, Look, IInv, Domains
<1>4. ThreadInv(t)'
  BY <1>1, <1>3 DEF ThreadInv, Look, Checked, Resolved, Shown, Is, Now, IInv
<1>5. \A u \in Thread \ {t} : todo'[u] = todo[u] /\ seen'[u] = seen[u]
  BY DEF Look, IInv, TypeOK
<1> QED
  BY <1>1, <1>2, <1>4, <1>5, MoveInv DEF Look, Place

LEMMA GetInv ==
  ASSUME IInv, NEW t \in Thread, NEW u \in Unit, Get(t, u)
  PROVE  IInv'
<1>1. TypeOK' /\ Domains'
  BY BundleTypes DEF IInv, Bundle
<1>2. Locks' /\ RepliesPinned'
  BY SameCommitted DEF Get, IInv, Locks
<1>3. RowsFit(t)' /\ UnitsFit(t)'
  BY RowsKept, SameKept DEF IInv, Get
<1>4. ThreadInv(t)'
  BY DEF ThreadInv, Get, Checked, Resolved, IInv
<1>5. \A x \in Thread \ {t} : Rests(x)
  BY DEF Get, Rests, IInv, TypeOK
<1> QED
  BY <1>1, <1>2, <1>3, <1>4, <1>5, OwnStep DEF Get

LEMMA InsertUnitInv ==
  ASSUME IInv, NEW t \in Thread, NEW u \in Unit, InsertUnit(t, u)
  PROVE  IInv'
<1>1. CASE Conflict(t)
  BY <1>1, ConflictInv DEF InsertUnit
<1>2. CASE ~Conflict(t)
  <2>1. PICK new \in UnitRow : /\ new = Content(req[t]) /\ new.status = "published"
                               /\ new.shown = new.children
    BY NewUnits DEF InsertUnit, IInv, TypeOK
  <2>2. /\ unit[u] = None /\ units' = [units EXCEPT ![t][u] = new] /\ pc[t] = "get"
        /\ UNCHANGED <<catalog, version, pc, req, todo, creates, seen, words, rows, reply, begun>>
    BY <1>2, <2>1 DEF InsertUnit
  <2>3. TypeOK' /\ Domains'
    BY BundleTypes DEF IInv, Bundle
  <2>4. /\ units'[t][u] = new
        /\ \A x \in Unit \ {u} : units'[t][x] = units[t][x]
        /\ \A other \in Thread \ {t} : units'[other] = units[other]
    BY <2>2 DEF IInv, TypeOK
  <2>5. Locks'
    BY <2>2, <2>4 DEF IInv, Locks, InsertUnit, UnitFree
  <2>6. RepliesPinned'
    BY <2>2, SameCommitted
  <2>7. RowsFit(t)'
    BY <2>2 DEF IInv, RowsFit, FitsOwn, FitsOther
  <2>8. UnitsFit(t)'
    BY <2>1, <2>2, <2>4 DEF IInv, UnitsFit
  <2>9. ThreadInv(t)'
    BY <2>2 DEF ThreadInv, Checked, Resolved, IInv
  <2>10. \A other \in Thread \ {t} : Rests(other)
    BY <2>2, <2>4 DEF Rests
  <2> QED
    BY <2>2, <2>3, <2>5, <2>6, <2>7, <2>8, <2>9, <2>10, OwnStep
<1> QED
  BY <1>1, <1>2

LEMMA InsertVersionInv ==
  ASSUME IInv, NEW t \in Thread, InsertVersion(t)
  PROVE  IInv'
<1>1. CASE Conflict(t)
  BY <1>1, ConflictInv DEF InsertVersion, UnitsDone
<1>2. CASE ~Conflict(t)
  <2>1. PICK new \in VersionRow, v \in Number :
          new = DraftRow(req[t].units) /\ new.status = "draft" /\ v = req[t].number
    BY RequestFields, DraftVersion DEF InsertVersion, UnitsDone, IInv, TypeOK
  <2>2. /\ version[v] = None /\ rows' = [rows EXCEPT ![t][v] = new] /\ pc[t] = "get"
        /\ UNCHANGED <<catalog, version, pc, req, local, words, units, reply, begun>>
    BY <1>2, <2>1 DEF InsertVersion, UnitsDone
  <2>3. TypeOK' /\ Domains'
    BY BundleTypes DEF IInv, Bundle
  <2>4. /\ rows'[t][v] = new
        /\ \A x \in Number \ {v} : rows'[t][x] = rows[t][x]
        /\ \A other \in Thread \ {t} : rows'[other] = rows[other]
    BY <2>2 DEF IInv, TypeOK
  <2>5. Locks'
    BY <2>1, <2>2, <2>4 DEF IInv, Locks, InsertVersion, RowFree
  <2>6. RepliesPinned'
    BY <2>2, SameCommitted
  <2>7. RowsFit(t)'
    BY <2>1, <2>2, <2>4 DEF IInv, RowsFit, FitsOwn, FitsOther
  <2>8. UnitsFit(t)'
    BY <2>2 DEF IInv, UnitsFit
  <2>9. ThreadInv(t)'
    BY <2>2 DEF ThreadInv, Checked, Resolved, IInv
  <2>10. \A other \in Thread \ {t} : Rests(other)
    BY <2>2, <2>4 DEF Rests
  <2> QED
    BY <2>2, <2>3, <2>5, <2>6, <2>7, <2>8, <2>9, <2>10, OwnStep
<1> QED
  BY <1>1, <1>2

-----------------------------------------------------------------------------
(* Answers that come with a change of the committed rows.                  *)

LEMMA PinnedKept ==
  ASSUME NEW u \in Thread, Keeps(u), NEW v \in Number, NEW print, print # None, Pinned(v, print)
  PROVE  Pinned(v, print)'
BY DEF Keeps, Pinned

LEMMA AcceptInv ==
  ASSUME IInv, NEW t \in Thread, Answer(t, "accepted"), NEW q \in Request, q = req[t],
         \A u \in Thread \ {t} : Keeps(u),
         q.kind # "pilot" => Pinned(q.number, q.print)',
         TypeOK', Domains', Ordered', AllShown', RefsPublished'
  PROVE  IInv'
<1>1. /\ Locks' /\ RowsFit(t)' /\ UnitsFit(t)' /\ ThreadInv(t)'
      /\ \A u \in Thread \ {t} : Rests(u) /\ reply'[u] = reply[u]
      /\ reply'[t] = [request |-> q, outcome |-> "accepted"]
  BY Answered
<1>2. RepliesPinned'
  <2> SUFFICES ASSUME NEW u \in Thread, NEW r \in {reply'[u]}, r # None,
                      r.outcome = "accepted" /\ r.request.kind # "pilot"
               PROVE  /\ r.request.number \in Number /\ r.request.print # None
                      /\ Pinned(r.request.number, r.request.print)'
    BY DEF RepliesPinned, Pinned
  <2>1. CASE u = t
    BY <1>1, <2>1, RequestFields DEF Pinned
  <2>2. CASE u # t
    BY <1>1, <2>2, PinnedKept DEF IInv, RepliesPinned
  <2> QED
    BY <2>1, <2>2
<1>3. ASSUME NEW u \in Thread, u # t
      PROVE  RowsFit(u)' /\ UnitsFit(u)' /\ ThreadInv(u)'
  BY <1>1, <1>3, Others DEF IInv
<1> QED
  BY <1>1, <1>2, <1>3 DEF IInv

LEMMA AdoptInv ==
  ASSUME IInv, NEW t \in Thread, Adopt(t)
  PROVE  IInv'
<1>1. CASE Refuse(t)
  BY <1>1, RefuseInv DEF Adopt
<1>2. CASE ~Refuse(t)
  <2>1. PICK q \in Request, v \in Number : q = req[t] /\ v = q.number
    BY RequestFields DEF Adopt, IInv, TypeOK
  <2>2. PICK r \in VersionRow : r = version[v] /\ r.status # "draft"
    BY <2>1 DEF Adopt, IInv, TypeOK, ThreadInv, Shown, Now
  <2>3. PICK new : new = [r EXCEPT !.print = q.print]
    OBVIOUS
  <2>4. /\ new \in VersionRow /\ new.status = r.status /\ new.refs = r.refs /\ new.at = r.at
        /\ new.print = q.print /\ new # None
    BY <2>3, RequestFields, PrintedVersion, VersionFields
  <2>5. /\ version' = [version EXCEPT ![v] = new] /\ r.print \in {None, q.print}
        /\ Answer(t, "accepted") /\ UNCHANGED catalog /\ RowFree(t, v)
    BY <1>2, <2>1, <2>2, <2>3 DEF Adopt
  <2>6. version'[v] = new /\ \A x \in Number \ {v} : version'[x] = version[x]
    BY <2>5 DEF IInv, TypeOK
  <2>7. TypeOK' /\ Domains'
    BY BundleTypes DEF IInv, Bundle
  <2>8. \A x \in Number : /\ Shown(version'[x]) <=> Shown(version[x])
                          /\ Is(version'[x], "active") <=> Is(version[x], "active")
                          /\ version[x] # None => /\ version'[x] # None
                                                  /\ version'[x].refs = version[x].refs
                                                  /\ version'[x].at = version[x].at
    <3> SUFFICES ASSUME NEW x \in Number
                 PROVE  /\ Shown(version'[x]) <=> Shown(version[x])
                        /\ Is(version'[x], "active") <=> Is(version[x], "active")
                        /\ version[x] # None => /\ version'[x] # None
                                                /\ version'[x].refs = version[x].refs
                                                /\ version'[x].at = version[x].at
      OBVIOUS
    <3>1. CASE x = v
      BY <2>2, <2>4, <2>6, <3>1, VersionFields DEF Shown, Is
    <3>2. CASE x # v
      BY <2>6, <3>2
    <3> QED
      BY <3>1, <3>2
  <2>9. \A u \in Thread \ {t} : Keeps(u)
    <3> SUFFICES ASSUME NEW u \in Thread, u # t PROVE Keeps(u)
      OBVIOUS
    <3>1. rows[u][v] = None
      BY <2>5 DEF RowFree
    <3> QED
      BY <2>2, <2>4, <2>5, <2>6, <2>8, <3>1, RequestFields DEF Keeps, Shown
  <2>10. Pinned(q.number, q.print)'
    BY <2>1, <2>2, <2>4, <2>6 DEF Pinned, Shown
  <2>11. Active' = Active
    BY <2>8 DEF Active
  <2>12. Ordered' /\ AllShown' /\ RefsPublished'
    <3>1. Ordered'
      BY <2>8, <2>11 DEF IInv, Ordered, Shown, Active, Is
    <3>2. AllShown'
      BY <2>5 DEF IInv, AllShown
    <3>3. RefsPublished'
      BY <2>5, <2>8, <2>11 DEF IInv, RefsPublished, Active, Is
    <3> QED
      BY <3>1, <3>2, <3>3
  <2> QED
    BY <2>1, <2>5, <2>7, <2>9, <2>10, <2>12, AcceptInv
<1> QED
  BY <1>1, <1>2

LEMMA BundleInv ==
  ASSUME IInv, NEW t \in Thread, Bundle(t)
  PROVE  IInv'
<1>0. TypeOK' /\ Domains'
  BY BundleTypes DEF IInv
<1>1. CASE Compare(t)
  <2>1. PICK where \in {"look", "refuse"} : Step(t, where)
    BY <1>1 DEF Compare
  <2>2. pc'[t] = where /\ req' = req
    BY <2>1 DEF Step, Goto, IInv, Domains
  <2>3. ThreadInv(t)'
    BY <1>1, <2>2 DEF ThreadInv, Compare, Checked, Resolved, IInv
  <2> QED
    BY <1>0, <1>1, <2>1, <2>3, MoveInv DEF Compare, Place
<1>2. CASE PreflightRefuses(t)
  BY <1>2, RefuseInv DEF PreflightRefuses
<1>3. CASE Look(t) \/ Adopt(t) \/ InsertVersion(t)
  BY <1>3, LookInv, AdoptInv, InsertVersionInv
<1>4. ASSUME NEW u \in Unit, Get(t, u) \/ InsertUnit(t, u) \/ ResolveWord(t, u)
      PROVE  IInv'
  BY <1>4, GetInv, InsertUnitInv, LockWordInv DEF ResolveWord
<1>5. CASE RecoverPreflight(t)
  <2>1. CASE Refuse(t)
    BY <1>5, <2>1, RefuseInv DEF RecoverPreflight
  <2>2. CASE ~Refuse(t)
    <3>1. Step(t, "winner") /\ UNCHANGED <<catalog, version, local, work>>
      BY <1>5, <2>2 DEF RecoverPreflight
    <3>2. pc'[t] = "winner" /\ req' = req
      BY <3>1 DEF Step, Goto, IInv, Domains
    <3>3. ThreadInv(t)'
      BY <1>5, <3>2 DEF ThreadInv, RecoverPreflight, Checked, Resolved, IInv
    <3> QED
      BY <1>0, <1>5, <3>1, <3>3, MoveInv DEF RecoverPreflight, Place
  <2> QED
    BY <2>1, <2>2
<1>6. CASE RecoverWinner(t)
  <2>1. CASE Refuse(t)
    BY <1>6, <2>1, RefuseInv DEF RecoverWinner
  <2>2. CASE ~Refuse(t)
    BY <1>6, <2>2, AnswerInv DEF RecoverWinner
  <2> QED
    BY <2>1, <2>2
<1> QED
  BY <1>1, <1>2, <1>3, <1>4, <1>5, <1>6 DEF Bundle

LEMMA LegacyDoneInv ==
  ASSUME IInv, NEW t \in Thread, LegacyDone(t)
  PROVE  IInv'
<1>1. TypeOK' /\ Domains'
  BY CatalogTypes DEF IInv, Catalog
<1>2. pc'[t] = "units" /\ req' = req /\ UNCHANGED <<catalog, version, work>>
  BY DEF LegacyDone, Step, Goto, IInv, Domains
<1>3. AllHeld(t)'
  <2>1. HeldOrToDo(t) /\ todo[t] = {}
    BY DEF LegacyDone, IInv, ThreadInv
  <2> QED
    BY <1>2, <2>1, SameSeen DEF AllHeld, HeldOrToDo
<1>4. ThreadInv(t)'
  BY <1>2, <1>3 DEF ThreadInv, LegacyDone, Checked, Resolved, IInv, Now
<1>5. \A u \in Thread \ {t} : todo'[u] = todo[u] /\ seen'[u] = seen[u]
  BY DEF LegacyDone, IInv, TypeOK
<1> QED
  BY <1>1, <1>4, <1>5, MoveInv DEF LegacyDone, Place

LEMMA PublishUnitInv ==
  ASSUME IInv, NEW t \in Thread, NEW u \in Unit, PublishUnit(t, u)
  PROVE  IInv'
<1>1. CASE Refuse(t)
  BY <1>1, RefuseInv DEF PublishUnit
<1>2. CASE ~Refuse(t)
  <2>1. PICK r \in UnitRow : r = unit[u] /\ r.status = "draft"
    BY <1>2 DEF PublishUnit, IInv, TypeOK
  <2>2. PICK new : new = [r EXCEPT !.status = "published", !.shown = r.children]
    OBVIOUS
  <2>3. /\ new \in UnitRow /\ new.status = "published" /\ new.shown = r.children
        /\ new.base = r.base /\ new # None /\ r # None
    BY <2>2, PublishedUnit, UnitFields
  <2>4. /\ units' = [units EXCEPT ![t][u] = new] /\ todo' = [todo EXCEPT ![t] = @ \ {u}]
        /\ pc[t] = "units" /\ UnitFree(t, u)
        /\ UNCHANGED <<catalog, version, pc, req, absent, creates, seen, words, rows, reply, begun>>
    BY <1>2, <2>1, <2>2 DEF PublishUnit
  <2>5. TypeOK' /\ Domains'
    BY CatalogTypes DEF IInv, Catalog
  <2>6. /\ units'[t][u] = new
        /\ \A x \in Unit \ {u} : units'[t][x] = units[t][x]
        /\ \A other \in Thread \ {t} : units'[other] = units[other] /\ todo'[other] = todo[other]
    BY <2>4 DEF IInv, TypeOK
  <2>7. Locks'
    BY <2>4, <2>6 DEF IInv, Locks, UnitFree
  <2>8. RepliesPinned'
    BY <2>4, SameCommitted
  <2>9. RowsFit(t)'
    BY <2>4 DEF IInv, RowsFit, FitsOwn, FitsOther
  <2>10. UnitsFit(t)'
    BY <2>1, <2>3, <2>4, <2>6 DEF IInv, UnitsFit
  <2>11. AllHeld(t)'
    <3>1. AllHeld(t)
      BY <2>4 DEF IInv, ThreadInv
    <3>2. Refs(t)' = Refs(t)
      BY <2>4 DEF Refs, RowAt, Now
    <3>3. ASSUME NEW x \in Refs(t) \intersect Linked, Held(t, x)
          PROVE  Held(t, x)'
      <4>1. CASE x = u
        <5>1. UnitAt(t, u)' = new
          BY <2>3, <2>6 DEF UnitAt
        <5>2. UnitAt(t, u) # None /\ UnitAt(t, u).base = r.base
          <6>1. units[t][u] = None \/ units[t][u].base = r.base
            BY <2>1, <2>3 DEF IInv, UnitsFit
          <6> QED
            BY <2>1, <2>3, <6>1 DEF UnitAt
        <5> QED
          BY <2>3, <2>4, <3>3, <4>1, <5>1, <5>2 DEF Held
      <4>2. CASE x # u
        <5>1. x \in Unit
          BY PublicationAssumption
        <5> QED
          BY <2>4, <2>6, <3>3, <4>2, <5>1 DEF Held, UnitAt
      <4> QED
        BY <4>1, <4>2
    <3> QED
      BY <3>1, <3>2, <3>3 DEF AllHeld
  <2>12. ThreadInv(t)'
    BY <2>4, <2>11 DEF ThreadInv, Checked, Resolved, IInv, Now
  <2>13. \A other \in Thread \ {t} : Rests(other)
    BY <2>4, <2>6 DEF Rests
  <2> QED
    BY <2>4, <2>5, <2>7, <2>8, <2>9, <2>10, <2>12, <2>13, OwnStep
<1> QED
  BY <1>1, <1>2

LEMMA CatalogInv ==
  ASSUME IInv, NEW t \in Thread, Catalog(t)
  PROVE  IInv'
<1>1. CASE AnswerRepeat(t)
  BY <1>1, AnswerInv DEF AnswerRepeat, IInv, ThreadInv
<1>2. CASE LegacyDone(t)
  BY <1>2, LegacyDoneInv
<1>3. ASSUME NEW u \in Unit, LockLegacyWord(t, u) \/ PublishUnit(t, u)
      PROVE  IInv'
  BY <1>3, LockWordInv, PublishUnitInv DEF LockLegacyWord
<1> QED
  BY <1>1, <1>2, <1>3 DEF Catalog

LEMMA InsertPilotInv ==
  ASSUME IInv, NEW t \in Thread, InsertPilot(t)
  PROVE  IInv'
<1>1. PICK v \in Number : v = Now(t) /\ v = req[t].number
  BY RequestFields DEF InsertPilot, Now, IInv, TypeOK
<1>2. /\ Step(t, "ready") /\ UNCHANGED <<catalog, local, work>> /\ RowFree(t, v)
      /\ pc[t] = "insert"
  BY <1>1 DEF InsertPilot
<1>3. /\ \A x \in Number \ {v} : version'[x] = version[x]
      /\ version[v] # None => version'[v] = version[v]
      /\ version[v] = None => version'[v] \in VersionRow /\ version'[v].status = "draft"
  <2>1. PICK refs \in SUBSET Unit : refs = {u \in Linked : unit[u] # None}
    BY PublicationAssumption
  <2>2. DraftRow(refs) \in VersionRow /\ DraftRow(refs).status = "draft"
    BY DraftVersion
  <2>3. version' = IF version[v] # None THEN version ELSE [version EXCEPT ![v] = DraftRow(refs)]
    BY <1>1, <2>1 DEF InsertPilot
  <2> QED
    BY <2>2, <2>3 DEF IInv, TypeOK
<1>4. \A x \in Number : /\ Shown(version'[x]) <=> Shown(version[x])
                        /\ Is(version'[x], "active") <=> Is(version[x], "active")
                        /\ version[x] # None => version'[x] = version[x]
  <2> SUFFICES ASSUME NEW x \in Number
               PROVE  /\ Shown(version'[x]) <=> Shown(version[x])
                      /\ Is(version'[x], "active") <=> Is(version[x], "active")
                      /\ version[x] # None => version'[x] = version[x]
    OBVIOUS
  <2>1. CASE version'[x] = version[x]
    BY <2>1
  <2>2. CASE version'[x] # version[x]
    BY <1>3, <2>2 DEF Shown, Is
  <2> QED
    BY <2>1, <2>2
<1>5. \A u \in Thread : Keeps(u)
  <2> SUFFICES ASSUME NEW u \in Thread PROVE Keeps(u)
    OBVIOUS
  <2>1. rows[u][v] = None
    BY <1>2 DEF RowFree, IInv, ThreadInv, NoRows
  <2> QED
    BY <1>2, <1>3, <1>4, <2>1 DEF Keeps, Shown
<1>6. Active' = Active
  BY <1>4 DEF Active
<1>7. Ordered' /\ AllShown' /\ RefsPublished'
  <2>1. Ordered'
    BY <1>4, <1>6 DEF IInv, Ordered, Shown, Active, Is
  <2>2. AllShown'
    BY <1>2 DEF IInv, AllShown
  <2>3. RefsPublished'
    BY <1>2, <1>4, <1>6 DEF IInv, RefsPublished, Active, Is
  <2> QED
    BY <2>1, <2>2, <2>3
<1>8. RepliesPinned'
  BY <1>2, <1>5, PinnedKept DEF Step, IInv, RepliesPinned
<1>9. TypeOK' /\ Domains'
  BY PilotTypes DEF IInv, Pilot
<1>10. /\ pc'[t] = "ready" /\ req' = req /\ UNCHANGED <<local, work>>
       /\ \A u \in Thread \ {t} : pc'[u] = pc[u]
  BY <1>2 DEF Step, Goto, IInv, Domains
<1>11. Locks'
  BY <1>10 DEF Locks, IInv
<1>12. RowsFit(t)' /\ UnitsFit(t)'
  BY <1>5, <1>10, RowsKept DEF IInv
<1>13. ThreadInv(t)'
  BY <1>2, <1>10 DEF ThreadInv, Checked, Resolved, IInv
<1>14. ASSUME NEW u \in Thread, u # t
       PROVE  RowsFit(u)' /\ UnitsFit(u)' /\ ThreadInv(u)'
  BY <1>5, <1>10, <1>14, Others DEF IInv, Rests
<1> QED
  BY <1>7, <1>8, <1>9, <1>11, <1>12, <1>13, <1>14 DEF IInv

LEMMA PilotInv ==
  ASSUME IInv, NEW t \in Thread, Pilot(t)
  PROVE  IInv'
<1>0. TypeOK' /\ Domains'
  BY PilotTypes DEF IInv
<1>1. CASE FindPilot(t)
  <2>1. PICK where \in {"insert", "ready"} : Step(t, where)
    BY <1>1 DEF FindPilot
  <2>2. pc'[t] = where /\ req' = req /\ UNCHANGED work
    BY <1>1, <2>1 DEF Step, Goto, FindPilot, IInv, Domains
  <2>3. ThreadInv(t)'
    BY <1>1, <2>2 DEF ThreadInv, FindPilot, Checked, Resolved, IInv
  <2> QED
    BY <1>0, <1>1, <2>1, <2>3, MoveInv DEF FindPilot, Place
<1>2. CASE InsertPilot(t)
  BY <1>2, InsertPilotInv
<1>3. CASE PilotReady(t)
  <2>1. CASE Step(t, "draft") /\ UNCHANGED <<catalog, version, local, work>>
    <3>1. pc'[t] = "draft" /\ req' = req
      BY <2>1 DEF Step, Goto, IInv, Domains
    <3>2. ThreadInv(t)'
      BY <1>3, <3>1 DEF ThreadInv, PilotReady, Checked, Resolved, IInv
    <3> QED
      BY <1>0, <1>3, <2>1, <3>2, MoveInv DEF PilotReady, Place
  <2>2. CASE Answer(t, "accepted") /\ UNCHANGED <<catalog, version>>
    BY <1>3, <2>2, AnswerInv DEF PilotReady, IInv, ThreadInv
  <2> QED
    BY <1>3, <2>1, <2>2 DEF PilotReady
<1>4. CASE Reread(t)
  <2>1. CASE Refuse(t)
    BY <1>4, <2>1, RefuseInv DEF Reread
  <2>2. CASE ~Refuse(t)
    BY <1>4, <2>2, AnswerInv DEF Reread, IInv, ThreadInv
  <2> QED
    BY <2>1, <2>2
<1> QED
  BY <1>1, <1>2, <1>3, <1>4 DEF Pilot

LEMMA CheckDraftInv ==
  ASSUME IInv, NEW t \in Thread, CheckDraft(t)
  PROVE  IInv'
<1>0. pc[t] \in {"get", "units", "draft"} /\ (pc[t] = "get" => req[t].kind = "bundle")
  BY DEF CheckDraft, Written, UnitsDone, IInv, ThreadInv
<1>1. CASE Refuse(t) \/ Conflict(t)
  BY <1>0, <1>1, RefuseInv, ConflictInv
<1>2. CASE ~Refuse(t) /\ ~Conflict(t)
  <2>1. PICK where \in {"words", "active"} :
          /\ Step(t, where)
          /\ where = "words" <=> req[t].kind = "bundle"
    BY <1>2 DEF CheckDraft
  <2>2. PICK r \in VersionRow : r = RowAt(t, Now(t)) /\ r.refs = Refs(t)
    BY <1>0, <1>2, SeenTypes DEF CheckDraft, Is, Now, IInv, Refs
  <2>3. /\ \A x \in Refs(t) : Published(t, x)
        /\ req[t].kind = "bundle" => todo' = [todo EXCEPT ![t] = Refs(t) \intersect Linked]
    BY <1>2, <2>2 DEF CheckDraft, Now
  <2>4. TypeOK' /\ Domains'
    BY PublishTypes DEF IInv, Publish
  <2>5. /\ pc'[t] = where /\ req' = req /\ UNCHANGED <<catalog, version, work>>
        /\ req[t].kind = "bundle" => todo'[t] = Refs(t) \intersect Linked
    BY <1>2, <2>1, <2>3 DEF Step, Goto, CheckDraft, IInv, Domains, TypeOK
  <2>6. where = "words" => HeldOrToDo(t)'
    BY <2>1, <2>5, SameSeen DEF HeldOrToDo
  <2>7. where = "active" /\ req[t].kind # "pilot" => AllHeld(t)'
    <3> SUFFICES ASSUME where = "active", req[t].kind # "pilot" PROVE AllHeld(t)'
      OBVIOUS
    <3>1. AllHeld(t)
      BY <1>0, <2>1 DEF IInv, ThreadInv
    <3> QED
      BY <2>5, <3>1, SameSeen DEF AllHeld
  <2>8. RowAt(t, Now(t))' # None /\ \A x \in Refs(t)' : Published(t, x)'
    <3>1. Refs(t) \subseteq Unit
      BY <2>2, VersionFields
    <3> QED
      BY <2>2, <2>3, <2>5, <3>1, SameSeen, VersionFields
  <2>9. ThreadInv(t)'
    BY <2>1, <2>5, <2>6, <2>7, <2>8 DEF ThreadInv, Checked, Resolved
  <2>10. \A u \in Thread \ {t} : todo'[u] = todo[u] /\ seen'[u] = seen[u]
    BY <1>2 DEF CheckDraft, IInv, TypeOK
  <2> QED
    BY <1>0, <2>1, <2>4, <2>5, <2>9, <2>10, MoveInv DEF Place
<1> QED
  BY <1>1, <1>2

LEMMA ReadActiveInv ==
  ASSUME IInv, NEW t \in Thread, ReadActive(t)
  PROVE  IInv'
<1>0. pc[t] = "active" \/ (pc[t] = "words" /\ todo[t] = {})
  BY DEF ReadActive
<1>1. CASE Refuse(t)
  BY <1>0, <1>1, RefuseInv
<1>2. CASE ~Refuse(t)
  <2>1. PICK where \in {"activate", "retire"} :
          /\ Step(t, where)
          /\ where = "retire" => ~(Active \subseteq {Now(t)})
    BY <1>2 DEF ReadActive, Now
  <2>2. TypeOK' /\ Domains'
    BY PublishTypes DEF IInv, Publish
  <2>3. pc'[t] = where /\ req' = req /\ UNCHANGED <<catalog, version, work, todo>>
    BY <1>2, <2>1 DEF Step, Goto, ReadActive, IInv, Domains
  <2>4. PICK v \in Number : v = Now(t) /\ v = Now(t)'
    BY <1>0, <2>3, SeenTypes DEF IInv, Now
  <2>5. where = "retire" => /\ seen'[t] \in Number /\ seen'[t] < v
                            /\ Shown(version'[seen'[t]]) /\ version'[seen'[t]].at <= req'[t].at
    <3> SUFFICES ASSUME where = "retire"
                 PROVE  /\ seen'[t] \in Number /\ seen'[t] < v
                        /\ Shown(version'[seen'[t]]) /\ version'[seen'[t]].at <= req'[t].at
      OBVIOUS
    <3>1. PICK a \in Active : a # v
      BY <2>1, <2>4
    <3>2. \A b \in Active : b = a
      <4> SUFFICES ASSUME NEW b \in Active PROVE b = a
        OBVIOUS
      <4>1. a \in Nat /\ b \in Nat
        BY PublicationAssumption DEF Active
      <4>2. Shown(version[a]) /\ Shown(version[b])
        BY DEF Active, Is, Shown
      <4>3. a <= b /\ b <= a
        BY <4>2 DEF IInv, Ordered, Active
      <4> QED
        BY <4>1, <4>3
    <3>3. (CHOOSE b \in Active : TRUE) = a /\ Active # {}
      BY <3>2
    <3>4. seen'[t] = a
      BY <1>2, <3>3 DEF ReadActive, IInv, TypeOK
    <3>5. Replaces(req[t], a)
      BY <1>2, <2>4, <3>1 DEF ReadActive, Now
    <3>6. a \in Number /\ a \in Nat /\ v \in Nat /\ Shown(version[a])
      BY PublicationAssumption DEF Active, Is, Shown
    <3>7. version[a].at \in Nat /\ req[t].at \in Nat
      BY <1>0, <3>6, VersionFields, RequestFields DEF IInv, TypeOK, Shown
    <3>8. a < v /\ version[a].at <= req[t].at
      BY <2>4, <3>5, <3>6, <3>7 DEF Replaces, Now
    <3> QED
      BY <2>3, <3>4, <3>6, <3>8
  <2>6. req[t].kind # "pilot" => AllHeld(t)'
    <3> SUFFICES ASSUME req[t].kind # "pilot" PROVE AllHeld(t)'
      OBVIOUS
    <3>1. AllHeld(t)
      BY <1>0 DEF IInv, ThreadInv, HeldOrToDo, AllHeld, Resolved
    <3> QED
      BY <2>3, <3>1, SameSeen DEF AllHeld
  <2>7. RowAt(t, Now(t))' # None /\ \A x \in Refs(t)' : Published(t, x)'
    <3>1. RowAt(t, Now(t)) # None /\ \A x \in Refs(t) : Published(t, x)
      BY <1>0 DEF IInv, ThreadInv, Checked
    <3>2. Refs(t) \subseteq Unit
      BY <2>4, <3>1, SeenTypes, VersionFields DEF Refs, IInv
    <3> QED
      BY <2>3, <3>1, <3>2, SameSeen
  <2>8. ThreadInv(t)'
    BY <2>3, <2>4, <2>5, <2>6, <2>7 DEF ThreadInv, Checked, Resolved
  <2>9. \A u \in Thread \ {t} : todo'[u] = todo[u] /\ seen'[u] = seen[u]
    BY <1>2 DEF ReadActive, IInv, TypeOK
  <2> QED
    BY <1>0, <2>1, <2>2, <2>3, <2>8, <2>9, MoveInv DEF Place
<1> QED
  BY <1>1, <1>2

\* A row of a version is written, at another number or with the same references.
LEMMA WriteRow ==
  ASSUME IInv, NEW t \in Thread, NEW v \in Number, NEW new \in VersionRow,
         rows' = [rows EXCEPT ![t][v] = new], UNCHANGED <<catalog, version, words, units, req>>,
         req[t] # None, v # Now(t) \/ new.refs = Refs(t), RowAt(t, Now(t)) # None
  PROVE  /\ RowAt(t, Now(t))' # None /\ Refs(t)' = Refs(t)
         /\ AllHeld(t) => AllHeld(t)'
         /\ (\A x \in Refs(t) : Published(t, x)) => \A x \in Refs(t)' : Published(t, x)'
         /\ rows'[t][v] = new /\ \A x \in Number \ {v} : rows'[t][x] = rows[t][x]
         /\ \A u \in Thread \ {t} : rows'[u] = rows[u]
<1>1. /\ rows'[t][v] = new /\ \A x \in Number \ {v} : rows'[t][x] = rows[t][x]
      /\ \A u \in Thread \ {t} : rows'[u] = rows[u]
  BY DEF IInv, TypeOK
<1>2. PICK n \in Number : n = Now(t) /\ n = Now(t)'
  BY RequestFields DEF Now, IInv, TypeOK
<1>3. RowAt(t, Now(t))' # None /\ Refs(t)' = Refs(t)
  BY <1>1, <1>2, VersionFields DEF RowAt, Refs
<1>4. \A x \in Linked : Held(t, x) => Held(t, x)'
  BY DEF Held, UnitAt
<1>5. \A x \in Unit : Published(t, x)' = Published(t, x)
  BY DEF Published, UnitAt
<1>6. Refs(t) \subseteq Unit
  BY <1>2, SeenTypes, VersionFields DEF Refs, IInv
<1>7. AllHeld(t) => AllHeld(t)'
  BY <1>3, <1>4 DEF AllHeld
<1>8. (\A x \in Refs(t) : Published(t, x)) => \A x \in Refs(t)' : Published(t, x)'
  BY <1>3, <1>5, <1>6
<1> QED
  BY <1>1, <1>3, <1>7, <1>8

LEMMA RowsFitNow ==
  ASSUME NEW t \in Thread, NEW q, q = req'[t], UNCHANGED version,
         \A x \in Number : \A row \in {rows'[t][x]} : row # None =>
           /\ version[x] # None => row.refs = version[x].refs
           /\ IF x = q.number THEN FitsOwn(row, x, q) ELSE FitsOther(row, x, q)
  PROVE  RowsFit(t)'
<1>1. ASSUME NEW x \in Number, NEW row \in {rows'[t][x]}, row # None
      PROVE  /\ version'[x] # None => row.refs = version'[x].refs
             /\ IF x = q.number THEN FitsOwn(row, x, q)' ELSE FitsOther(row, x, q)'
  <2>1. /\ version[x] # None => row.refs = version[x].refs
        /\ IF x = q.number THEN FitsOwn(row, x, q) ELSE FitsOther(row, x, q)
    BY <1>1
  <2> QED
    BY <2>1 DEF FitsOwn, FitsOther
<1> QED
  BY <1>1 DEF RowsFit, FitsOwn, FitsOther

LEMMA RetireInv ==
  ASSUME IInv, NEW t \in Thread, Retire(t)
  PROVE  IInv'
<1>1. CASE Conflict(t)
  BY <1>1, ConflictInv DEF Retire
<1>2. CASE ~Conflict(t)
  <2>1. PICK a \in Number, q \in Request, v \in Number :
          /\ a = seen[t] /\ q = req[t] /\ v = q.number /\ v = Now(t) /\ a < v
          /\ version[a].at <= q.at
    BY RequestFields DEF Retire, IInv, ThreadInv, TypeOK, Now
  <2>2. PICK r \in VersionRow : r = version[a] /\ r.status = "active"
    BY <1>2, <2>1 DEF Retire, Is, IInv, TypeOK
  <2>3. PICK new : new = Retired(r, q.at)
    OBVIOUS
  <2>4. /\ new \in VersionRow /\ new.status = "retired" /\ new.until = q.at
        /\ new.refs = r.refs /\ new.at = r.at /\ new.print = r.print /\ new # None /\ r # None
    BY <2>2, <2>3, RequestFields, RetiredVersion, VersionFields
  <2>5. /\ rows' = [rows EXCEPT ![t][a] = new] /\ Step(t, "activate") /\ RowFree(t, a)
        /\ UNCHANGED <<catalog, version, local, words, units>> /\ pc[t] = "retire"
    BY <1>2, <2>1, <2>2, <2>3 DEF Retire, Retired
  <2>6. TypeOK' /\ Domains'
    BY PublishTypes DEF IInv, Publish
  <2>7. pc'[t] = "activate" /\ req' = req /\ reply' = reply /\ \A u \in Thread \ {t} : pc'[u] = pc[u]
    BY <2>5 DEF Step, Goto, IInv, Domains
  <2>8. a # v
    BY <2>1, PublicationAssumption
  <2>9. /\ RowAt(t, Now(t)) # None /\ \A x \in Refs(t) : Published(t, x)
        /\ req[t].kind # "pilot" => AllHeld(t)
    BY <2>5 DEF IInv, ThreadInv, Checked, Resolved
  <2>10. /\ RowAt(t, Now(t))' # None
         /\ AllHeld(t) => AllHeld(t)'
         /\ (\A x \in Refs(t) : Published(t, x)) => \A x \in Refs(t)' : Published(t, x)'
         /\ rows'[t][a] = new /\ \A x \in Number \ {a} : rows'[t][x] = rows[t][x]
         /\ \A u \in Thread \ {t} : rows'[u] = rows[u]
    BY <2>1, <2>4, <2>5, <2>7, <2>8, <2>9, RequestFields, WriteRow
  <2>11. Locks'
    BY <2>5, <2>7, <2>10 DEF IInv, Locks, RowFree
  <2>12. RepliesPinned'
    BY <2>5, <2>7, SameCommitted
  <2>13. RowsFit(t)'
    <3>1. FitsOther(new, a, q) /\ new.refs = version[a].refs
      BY <2>1, <2>2, <2>4 DEF FitsOther, Is
    <3>2. ASSUME NEW x \in Number, NEW row \in {rows'[t][x]}, row # None
          PROVE  /\ version[x] # None => row.refs = version[x].refs
                 /\ IF x = q.number THEN FitsOwn(row, x, q) ELSE FitsOther(row, x, q)
      <4>1. CASE x = a
        BY <2>1, <2>8, <2>10, <3>1, <3>2, <4>1
      <4>2. CASE x # a
        <5>1. row = rows[t][x]
          BY <2>10, <3>2, <4>2
        <5> QED
          BY <2>1, <3>2, <5>1 DEF IInv, RowsFit
      <4> QED
        BY <4>1, <4>2
    <3>3. q = req'[t] /\ UNCHANGED version
      BY <2>1, <2>5, <2>7
    <3> QED
      BY <3>2, <3>3, RowsFitNow
  <2>14. UnitsFit(t)'
    BY <2>5 DEF IInv, UnitsFit
  <2>15. ThreadInv(t)'
    BY <2>7, <2>9, <2>10 DEF ThreadInv, Checked, Resolved
  <2>16. \A u \in Thread \ {t} : Rests(u)
    BY <2>5, <2>7, <2>10 DEF Rests
  <2> QED
    BY <2>5, <2>6, <2>11, <2>12, <2>13, <2>14, <2>15, <2>16, OwnStep
<1> QED
  BY <1>1, <1>2

LEMMA ActivateInv ==
  ASSUME IInv, NEW t \in Thread, Activate(t)
  PROVE  IInv'
<1>1. CASE Conflict(t)
  BY <1>1, ConflictInv DEF Activate
<1>2. CASE ~Conflict(t)
  <2>1. PICK q \in Request, v \in Number : q = req[t] /\ v = q.number /\ v = Now(t)
    BY RequestFields DEF Activate, IInv, TypeOK, Now
  <2>2. PICK r \in VersionRow : r = RowAt(t, v) /\ r.status = "draft"
    BY <1>2, <2>1, SeenTypes DEF Activate, Is, IInv
  <2>3. PICK print \in Prints \union {r.print} :
          print = IF q.kind = "pilot" THEN r.print ELSE q.print
    BY RequestFields
  <2>4. PICK new : new = Activated(r, q.at, print)
    OBVIOUS
  <2>5. /\ new \in VersionRow /\ new.status = "active" /\ new.at = q.at
        /\ new.refs = r.refs /\ new.print = print /\ new # None /\ r # None
    BY <2>2, <2>4, RequestFields, ActiveVersion, VersionFields
  <2>6. /\ rows' = [rows EXCEPT ![t][v] = new] /\ Step(t, "commit") /\ RowFree(t, v)
        /\ IndexFree(t) /\ \A a \in Number : ~Is(RowAt(t, a), "active")
        /\ UNCHANGED <<catalog, version, local, words, units>> /\ pc[t] = "activate"
    BY <1>2, <2>1, <2>2, <2>3, <2>4 DEF Activate, Activated
  <2>7. TypeOK' /\ Domains'
    BY PublishTypes DEF IInv, Publish
  <2>8. pc'[t] = "commit" /\ req' = req /\ reply' = reply /\ \A u \in Thread \ {t} : pc'[u] = pc[u]
    BY <2>6 DEF Step, Goto, IInv, Domains
  <2>9. /\ RowAt(t, Now(t)) # None /\ \A x \in Refs(t) : Published(t, x)
        /\ req[t].kind # "pilot" => AllHeld(t)
    BY <2>6 DEF IInv, ThreadInv, Checked, Resolved
  <2>10. /\ RowAt(t, Now(t))' # None
         /\ AllHeld(t) => AllHeld(t)'
         /\ (\A x \in Refs(t) : Published(t, x)) => \A x \in Refs(t)' : Published(t, x)'
         /\ rows'[t][v] = new /\ \A x \in Number \ {v} : rows'[t][x] = rows[t][x]
         /\ \A u \in Thread \ {t} : rows'[u] = rows[u]
    <3>1. new.refs = Refs(t) /\ req[t] # None
      BY <2>1, <2>2, <2>5, RequestFields DEF Refs
    <3> QED
      BY <2>5, <2>6, <2>8, <2>9, <3>1, WriteRow
  <2>11. \A u \in Thread \ {t} : pc[u] # "commit"
    <3> SUFFICES ASSUME NEW u \in Thread, u # t, pc[u] = "commit" PROVE FALSE
      OBVIOUS
    <3>1. Is(rows[u][Now(u)], "active") /\ Now(u) \in Number
      BY SeenTypes DEF IInv, ThreadInv
    <3> QED
      BY <2>6, <3>1 DEF IndexFree, Is
  <2>12. Locks'
    BY <2>6, <2>8, <2>10, <2>11 DEF IInv, Locks, RowFree
  <2>13. RepliesPinned'
    BY <2>6, <2>8, SameCommitted
  <2>14. RowsFit(t)'
    <3>1. FitsOwn(new, v, q) /\ (version[v] # None => new.refs = version[v].refs)
      <4>1. rows[t][v] # None => FitsOwn(r, v, q) /\ (version[v] # None => r.refs = version[v].refs)
        BY <2>1, <2>2 DEF IInv, RowsFit, RowAt
      <4>2. rows[t][v] = None => version[v] = r
        BY <2>2 DEF RowAt
      <4> QED
        BY <2>2, <2>3, <2>5, <4>1, <4>2 DEF FitsOwn
    <3>2. ASSUME NEW x \in Number, NEW row \in {rows'[t][x]}, row # None
          PROVE  /\ version[x] # None => row.refs = version[x].refs
                 /\ IF x = q.number THEN FitsOwn(row, x, q) ELSE FitsOther(row, x, q)
      <4>1. CASE x = v
        BY <2>1, <2>10, <3>1, <3>2, <4>1
      <4>2. CASE x # v
        <5>1. row = rows[t][x]
          BY <2>10, <3>2, <4>2
        <5> QED
          BY <2>1, <3>2, <5>1 DEF IInv, RowsFit
      <4> QED
        BY <4>1, <4>2
    <3>3. q = req'[t] /\ UNCHANGED version
      BY <2>1, <2>6, <2>8
    <3> QED
      BY <3>2, <3>3, RowsFitNow
  <2>15. UnitsFit(t)'
    BY <2>6 DEF IInv, UnitsFit
  <2>16. \A a \in Active' : rows'[t][a] # None
    <3> SUFFICES ASSUME NEW a \in Number, Is(version[a], "active") PROVE rows'[t][a] # None
      BY <2>6 DEF Active
    <3>1. rows[t][a] # None
      BY <2>6 DEF RowAt
    <3> QED
      BY <2>5, <2>10, <3>1
  <2>17. Is(rows'[t][Now(t)'], "active")
    BY <2>1, <2>5, <2>8, <2>10 DEF Is, Now
  <2>18. ThreadInv(t)'
    BY <2>8, <2>9, <2>10, <2>16, <2>17 DEF ThreadInv, Checked, Resolved
  <2>19. \A u \in Thread \ {t} : Rests(u)
    BY <2>6, <2>8, <2>10 DEF Rests
  <2> QED
    BY <2>6, <2>7, <2>12, <2>13, <2>14, <2>15, <2>18, <2>19, OwnStep
<1> QED
  BY <1>1, <1>2

\* What a commit leaves: the version of the request is the active one.
LEMMA Committed ==
  ASSUME IInv, NEW t \in Thread, Commit(t)
  PROVE  \E q \in Request, v \in Number :
           /\ q = req[t] /\ v = q.number /\ v = Now(t)
           /\ version'[v] = rows[t][v] /\ version'[v] # None
           /\ version'[v].status = "active" /\ version'[v].at = q.at
           /\ q.kind # "pilot" => version'[v].print = q.print
           /\ version'[v].refs = Refs(t)
           /\ version[v] = None \/ version[v].status = "draft"
           /\ version[v] # None => version'[v].refs = version[v].refs
           /\ Active' = {v}
           /\ \A x \in Number \ {v} :
                \/ version'[x] = version[x] /\ ~Is(version[x], "active") /\ rows[t][x] = None
                \/ /\ rows[t][x] # None
                   /\ Is(version[x], "active") /\ Is(version'[x], "retired")
                   /\ version'[x].refs = version[x].refs /\ version'[x].at = version[x].at
                   /\ version'[x].print = version[x].print /\ version'[x].until = q.at
                   /\ x < v /\ version[x].at <= q.at
<1>1. PICK q \in Request, v \in Number : q = req[t] /\ v = q.number /\ v = Now(t)
  BY RequestFields DEF Commit, IInv, TypeOK, Now
<1>2. \A x \in Number : version'[x] = RowAt(t, x)
  BY DEF Commit
<1>3. Is(rows[t][v], "active") /\ \A a \in Active : rows[t][a] # None
  BY <1>1 DEF Commit, IInv, ThreadInv
<1>4. /\ version'[v] = rows[t][v] /\ version'[v] # None /\ version'[v].status = "active"
      /\ version'[v].refs = Refs(t)
  BY <1>1, <1>2, <1>3 DEF Is, RowAt, Refs
<1>5. /\ FitsOwn(rows[t][v], v, q)
      /\ version[v] # None => rows[t][v].refs = version[v].refs
  BY <1>1, <1>3 DEF IInv, RowsFit, Is
<1>6. ASSUME NEW x \in Number \ {v}
      PROVE  \/ version'[x] = version[x] /\ ~Is(version[x], "active") /\ rows[t][x] = None
             \/ /\ rows[t][x] # None
                /\ Is(version[x], "active") /\ Is(version'[x], "retired")
                /\ version'[x].refs = version[x].refs /\ version'[x].at = version[x].at
                /\ version'[x].print = version[x].print /\ version'[x].until = q.at
                /\ x < v /\ version[x].at <= q.at
  <2>1. CASE rows[t][x] = None
    BY <1>2, <1>3, <1>6, <2>1 DEF RowAt, Active
  <2>2. CASE rows[t][x] # None
    <3>1. FitsOther(rows[t][x], x, q) /\ (version[x] # None => rows[t][x].refs = version[x].refs)
      BY <1>1, <1>6, <2>2 DEF IInv, RowsFit
    <3> QED
      BY <1>1, <1>2, <1>6, <2>2, <3>1 DEF FitsOther, RowAt, Is
  <2> QED
    BY <2>1, <2>2
<1>7. Active' = {v}
  <2>1. \A x \in Number \ {v} : ~Is(version'[x], "active")
    BY <1>6 DEF Is
  <2>2. Is(version'[v], "active")
    BY <1>4 DEF Is
  <2> QED
    BY <2>1, <2>2 DEF Active
<1> QED
  BY <1>1, <1>4, <1>5, <1>6, <1>7 DEF FitsOwn

LEMMA StoredUnits ==
  ASSUME IInv, NEW t \in Thread, Commit(t)
  PROVE  /\ \A x \in Unit : unit'[x] = Stored(t, x)
         /\ \A x \in Unit : unit[x] # None => unit'[x] # None /\ unit'[x].base = unit[x].base
         /\ \A x \in Unit : Is(unit[x], "published") => unit'[x] = unit[x]
         /\ \A x \in Unit : units[t][x] = None => unit'[x] = unit[x]
         /\ \A x \in Unit : Published(t, x) => Is(unit'[x], "published")
         /\ AllShown'
<1>1. \A x \in Unit : unit'[x] = Stored(t, x)
  BY DEF Commit
<1>2. ASSUME NEW x \in Unit
      PROVE  /\ units[t][x] = None => unit'[x] = unit[x]
             /\ units[t][x] # None /\ unit[x] = None =>
                  /\ unit'[x] = units[t][x] /\ units[t][x].status = "published"
                  /\ unit'[x].shown = unit'[x].children
             /\ units[t][x] # None /\ unit[x] # None =>
                  /\ unit'[x] # None /\ unit'[x].status = "published" /\ unit[x].status = "draft"
                  /\ unit'[x].shown = unit'[x].children /\ unit'[x].base = unit[x].base
  <2>1. /\ units[t][x] = None => Stored(t, x) = unit[x]
        /\ units[t][x] # None /\ unit[x] = None => Stored(t, x) = units[t][x]
        /\ units[t][x] # None /\ unit[x] # None =>
             /\ Stored(t, x) # None
             /\ Stored(t, x).status = units[t][x].status
             /\ Stored(t, x).shown = units[t][x].shown
             /\ Stored(t, x).base = units[t][x].base
             /\ Stored(t, x).children = unit[x].children
    BY StoredUnit DEF IInv
  <2>2. units[t][x] # None =>
          /\ units[t][x].status = "published"
          /\ unit[x] = None => units[t][x].shown = units[t][x].children
          /\ unit[x] # None => /\ unit[x].status = "draft"
                               /\ units[t][x].shown = unit[x].children
                               /\ units[t][x].base = unit[x].base
    BY DEF IInv, UnitsFit
  <2> QED
    BY <1>1, <2>1, <2>2
<1>3. \A x \in Unit : unit[x] # None => unit'[x] # None /\ unit'[x].base = unit[x].base
  BY <1>2
<1>4. \A x \in Unit : Is(unit[x], "published") => unit'[x] = unit[x]
  BY <1>2 DEF Is
<1>5. \A x \in Unit : Published(t, x) => Is(unit'[x], "published")
  BY <1>2 DEF Published, UnitAt, Is
<1>6. AllShown'
  <2> SUFFICES ASSUME NEW x \in Unit, Is(unit'[x], "published")
               PROVE  unit'[x].shown = unit'[x].children
    BY DEF AllShown, Is
  <2>1. CASE units[t][x] = None
    BY <1>2, <2>1 DEF IInv, AllShown
  <2>2. CASE units[t][x] # None
    BY <1>2, <2>2
  <2> QED
    BY <2>1, <2>2
<1>7. \A x \in Unit : units[t][x] = None => unit'[x] = unit[x]
  BY <1>2
<1> QED
  BY <1>1, <1>3, <1>4, <1>5, <1>6, <1>7

LEMMA CommitInv ==
  ASSUME IInv, NEW t \in Thread, Commit(t)
  PROVE  IInv'
<1>1. PICK q \in Request, v \in Number :
        /\ q = req[t] /\ v = q.number /\ v = Now(t)
        /\ version'[v] = rows[t][v] /\ version'[v] # None
        /\ version'[v].status = "active" /\ version'[v].at = q.at
        /\ q.kind # "pilot" => version'[v].print = q.print
        /\ version'[v].refs = Refs(t)
        /\ version[v] = None \/ version[v].status = "draft"
        /\ version[v] # None => version'[v].refs = version[v].refs
        /\ Active' = {v}
        /\ \A x \in Number \ {v} :
             \/ version'[x] = version[x] /\ ~Is(version[x], "active") /\ rows[t][x] = None
             \/ /\ rows[t][x] # None
                /\ Is(version[x], "active") /\ Is(version'[x], "retired")
                /\ version'[x].refs = version[x].refs /\ version'[x].at = version[x].at
                /\ version'[x].print = version[x].print /\ version'[x].until = q.at
                /\ x < v /\ version[x].at <= q.at
  BY Committed
<1>2. /\ \A x \in Unit : unit'[x] = Stored(t, x)
      /\ \A x \in Unit : unit[x] # None => unit'[x] # None /\ unit'[x].base = unit[x].base
      /\ \A x \in Unit : Is(unit[x], "published") => unit'[x] = unit[x]
      /\ \A x \in Unit : units[t][x] = None => unit'[x] = unit[x]
      /\ \A x \in Unit : Published(t, x) => Is(unit'[x], "published")
      /\ AllShown'
  BY StoredUnits
<1>3. pc[t] = "commit" /\ Answer(t, "accepted") /\ UNCHANGED word
  BY DEF Commit
<1>4. TypeOK' /\ Domains'
  BY PublishTypes DEF IInv, Publish
<1>5. ASSUME NEW u \in Thread \ {t}
      PROVE  Keeps(u)
  <2>1. \A x \in Number : version[x] # None => version'[x] # None /\ version'[x].refs = version[x].refs
    BY <1>1 DEF Is
  <2>2. \A x \in Number : Shown(version[x]) =>
          /\ Shown(version'[x]) /\ version'[x].at = version[x].at
          /\ version[x].print # None => version'[x].print = version[x].print
    BY <1>1 DEF Is, Shown
  <2>3. \A x \in Number : rows[u][x] # None => version'[x] = version[x]
    BY <1>1, <1>5 DEF IInv, Locks
  <2>4. \A x \in Unit : units[u][x] # None => unit'[x] = unit[x]
    BY <1>2, <1>5 DEF IInv, Locks
  <2>5. pc[u] # "commit"
    BY <1>3, <1>5 DEF IInv, Locks
  <2> QED
    BY <1>2, <1>3, <2>1, <2>2, <2>3, <2>4, <2>5 DEF Keeps
<1>6. Pinned(q.number, q.print)' \/ q.kind = "pilot"
  BY <1>1 DEF Pinned, Shown
<1>7. Ordered'
  <2>1. ASSUME NEW x \in Number, Shown(version'[x])
        PROVE  x <= v /\ version'[x].at <= version'[v].at
    <3>0. \A n \in Number : n \in Nat
      BY PublicationAssumption
    <3>1. CASE x = v
      <4>1. v \in Nat /\ version'[v].at \in Nat
        BY <1>1, <3>0, RequestFields
      <4> QED
        BY <3>1, <4>1
    <3>2. CASE x # v /\ rows[t][x] = None
      <4>1. version'[x] = version[x] /\ Shown(version[x])
        BY <1>1, <2>1, <3>2
      <4>2. PICK a \in Active : x <= a /\ version[x].at <= version[a].at
        BY <4>1 DEF IInv, Ordered
      <4>3. a \in Number /\ Is(version[a], "active") /\ a # v
        BY <1>1 DEF Active, Is
      <4>4. a < v /\ version[a].at <= q.at
        BY <1>1, <4>3
      <4>5. version[x].at \in Nat /\ version[a].at \in Nat /\ q.at \in Nat
        BY <4>1, <4>3, VersionFields, RequestFields DEF IInv, TypeOK, Shown, Is
      <4> QED
        BY <1>1, <3>0, <4>1, <4>2, <4>3, <4>4, <4>5
    <3>3. CASE x # v /\ rows[t][x] # None
      <4>1. x < v /\ version'[x].at = version[x].at /\ version[x].at <= q.at
        BY <1>1, <3>3
      <4> QED
        BY <1>1, <3>0, <4>1
    <3> QED
      BY <3>1, <3>2, <3>3
  <2> QED
    BY <1>1, <2>1 DEF Ordered, Shown
<1>8. RefsPublished'
  <2>1. \A x \in Refs(t) : Published(t, x)
    BY <1>3 DEF IInv, ThreadInv, Checked
  <2>2. Refs(t) \subseteq Unit
    BY <1>1, <1>4, VersionFields DEF TypeOK
  <2> QED
    BY <1>1, <1>2, <2>1, <2>2 DEF RefsPublished, Is
<1> QED
  BY <1>1, <1>2, <1>3, <1>4, <1>5, <1>6, <1>7, <1>8, AcceptInv

LEMMA PublishInv ==
  ASSUME IInv, NEW t \in Thread, Publish(t)
  PROVE  IInv'
BY CheckDraftInv, ReadActiveInv, RetireInv, ActivateInv, CommitInv DEF Publish

-----------------------------------------------------------------------------
(* Changes of words and units outside of these transactions.               *)

LEMMA UnitsChange ==
  ASSUME IInv, UNCHANGED <<version, words, units, rows>>,
         \A u \in Thread, x \in Linked : x \in words[u] => word'[x] = word[x],
         \A x \in Unit : unit[x] # None => /\ unit'[x] # None /\ unit'[x].base = unit[x].base
                                           /\ unit'[x].status = unit[x].status,
         \A u \in Thread, x \in Unit : units[u][x] # None => unit'[x] = unit[x],
         AllShown'
  PROVE  Ordered' /\ RefsPublished' /\ \A u \in Thread : Keeps(u)
<1>1. Active' = Active
  BY DEF Active
<1>2. Ordered'
  BY <1>1 DEF IInv, Ordered
<1>3. \A x \in Unit : Is(unit[x], "published") => Is(unit'[x], "published")
  BY DEF Is
<1>4. ASSUME NEW u \in Thread
      PROVE  Keeps(u)
  BY <1>3, <1>4 DEF Keeps
<1>5. RefsPublished'
  <2>1. \A v \in Active : version[v].refs \subseteq Unit
    BY VersionFields DEF Active, Is, IInv, TypeOK
  <2> QED
    BY <1>1, <1>3, <2>1 DEF IInv, RefsPublished
<1> QED
  BY <1>2, <1>4, <1>5

LEMMA EditInv ==
  ASSUME IInv,
         \/ \E u \in Linked : EditWord(u)
         \/ \E u \in Unit : AddChild(u)
  PROVE  IInv'
<1>1. TypeOK' /\ Domains'
  BY EditTypes DEF IInv
<1>2. UNCHANGED <<version, pc, req, local, work, reply>>
  BY DEF EditWord, AddChild, AddTo
<1>3. /\ \A u \in Thread, x \in Linked : x \in words[u] => word'[x] = word[x]
      /\ \A x \in Unit : unit[x] # None => /\ unit'[x] # None /\ unit'[x].base = unit[x].base
                                           /\ unit'[x].status = unit[x].status
      /\ \A u \in Thread, x \in Unit : units[u][x] # None => unit'[x] = unit[x]
      /\ AllShown'
  <2>1. ASSUME NEW w \in Linked, EditWord(w)
        PROVE  /\ \A u \in Thread, x \in Linked : x \in words[u] => word'[x] = word[x]
               /\ unit' = unit
    BY <2>1 DEF EditWord, IInv, TypeOK
  <2>2. ASSUME NEW w \in Unit, AddChild(w)
        PROVE  /\ word' = word
               /\ \A x \in Unit : unit[x] # None =>
                    /\ unit'[x] # None /\ unit'[x].base = unit[x].base
                    /\ unit'[x].status = unit[x].status
               /\ \A u \in Thread, x \in Unit : units[u][x] # None => unit'[x] = unit[x]
               /\ AllShown'
    <3>1. PICK r \in UnitRow : r = unit[w] /\ r.status = "draft"
      BY <2>2 DEF AddChild, AddTo, IInv, TypeOK
    <3>2. PICK new : new = [r EXCEPT !.children = @ + 1]
      OBVIOUS
    <3>3. new \in UnitRow /\ new.base = r.base /\ new.status = "draft"
      BY <3>1, <3>2 DEF UnitRow
    <3>4. /\ unit' = [unit EXCEPT ![w] = new] /\ word' = word
          /\ \A u \in Thread : units[u][w] = None
      BY <2>2, <3>1, <3>2 DEF AddChild, AddTo, IInv, TypeOK
    <3>5. unit'[w] = new /\ \A x \in Unit \ {w} : unit'[x] = unit[x]
      BY <3>4 DEF IInv, TypeOK
    <3>6. AllShown'
      BY <3>3, <3>5 DEF IInv, AllShown, Is
    <3> QED
      BY <3>1, <3>3, <3>4, <3>5, <3>6, UnitFields
  <2>3. unit' = unit => AllShown'
    BY DEF IInv, AllShown
  <2> QED
    BY <2>1, <2>2, <2>3
<1>4. Ordered' /\ RefsPublished' /\ \A u \in Thread : Keeps(u)
  BY <1>2, <1>3, UnitsChange
<1>5. ASSUME NEW u \in Thread
      PROVE  RowsFit(u)' /\ UnitsFit(u)' /\ ThreadInv(u)'
  BY <1>2, <1>4, <1>5, Others DEF IInv, Rests
<1>6. Locks' /\ RepliesPinned'
  BY <1>2 DEF IInv, Locks, RepliesPinned, Pinned
<1> QED
  BY <1>1, <1>3, <1>4, <1>5, <1>6 DEF IInv

LEMMA BeginPilotInv ==
  ASSUME IInv, NEW t \in Thread, NEW q \in Request, NEW complete \in SUBSET Linked,
         BeginPilot(t, q, complete)
  PROVE  IInv'
<1>1. TypeOK' /\ Domains'
  BY BeginsTypes DEF IInv
<1>2. /\ UNCHANGED <<word, version, local, work>> /\ pc[t] = "idle"
      /\ pc'[t] = "pilot" /\ req'[t] = q /\ reply'[t] = None /\ q.kind = "pilot"
      /\ \A u \in Thread \ {t} : pc'[u] = pc[u] /\ req'[u] = req[u] /\ reply'[u] = reply[u]
  BY DEF BeginPilot, Goto, IInv, Domains, TypeOK
<1>3. /\ rows[t] = NoRows /\ units[t] = NoUnits /\ words[t] = {}
      /\ \A v \in Number : rows'[t][v] = None
      /\ \A x \in Unit : units'[t][x] = None
  BY <1>2 DEF IInv, ThreadInv, NoRows, NoUnits
<1>4. ASSUME NEW x \in Unit
      PROVE  /\ unit[x] # None => unit'[x] = unit[x]
             /\ unit[x] = None /\ unit'[x] # None =>
                  /\ Is(unit'[x], "published") => unit'[x].shown = unit'[x].children
                  /\ \A u \in Thread : units[u][x] = None
  <2>1. CASE unit[x] # None \/ x \notin Linked
    BY <2>1 DEF BeginPilot
  <2>2. CASE unit[x] = None /\ x \in Linked
    <3>1. PICK status \in {"draft", "published"} : unit'[x] = Imported(x, status)
      BY <2>2 DEF BeginPilot
    <3>2. UnitFree(t, x)
      BY <2>2 DEF BeginPilot
    <3>3. \A u \in Thread : units[u][x] = None
      BY <1>3, <3>2 DEF UnitFree, NoUnits
    <3>4. Is(unit'[x], "published") => unit'[x].shown = unit'[x].children
      BY <2>2, <3>1, ImportedUnit DEF Is, IInv, TypeOK
    <3> QED
      BY <2>2, <3>3, <3>4
  <2> QED
    BY <2>1, <2>2
<1>5. AllShown'
  BY <1>4 DEF IInv, AllShown, Is
<1>6. Ordered' /\ RefsPublished' /\ \A u \in Thread : Keeps(u)
  BY <1>2, <1>4, <1>5, UnitsChange
<1>7. ASSUME NEW u \in Thread, u # t
      PROVE  RowsFit(u)' /\ UnitsFit(u)' /\ ThreadInv(u)'
  BY <1>2, <1>6, <1>7, Others DEF IInv, Rests
<1>8. RowsFit(t)' /\ UnitsFit(t)'
  BY <1>3 DEF RowsFit, UnitsFit
<1>9. ThreadInv(t)'
  BY <1>2, <1>3 DEF ThreadInv, Checked, Resolved
<1>10. Locks'
  BY <1>2 DEF IInv, Locks
<1>11. RepliesPinned'
  BY <1>2 DEF IInv, RepliesPinned, Pinned
<1> QED
  BY <1>1, <1>5, <1>6, <1>7, <1>8, <1>9, <1>10, <1>11 DEF IInv

-----------------------------------------------------------------------------
(* The invariant.                                                          *)

LEMMA InitInv == Init => IInv
<1> SUFFICES ASSUME Init PROVE IInv
  OBVIOUS
<1>1. /\ NoUnits \in [Unit -> UnitRow \union {None}]
      /\ NoRows \in [Number -> VersionRow \union {None}]
      /\ 0 \in Edition /\ 0 \in 0..MaxRequests
  BY PublicationAssumption DEF NoUnits, NoRows, Edition
<1> DEFINE Start ==
             /\ unit \in [Unit -> UnitRow \union {None}]
             /\ \A x \in Unit : Is(unit[x], "published") => unit[x].shown = unit[x].children
             /\ version \in [Number -> VersionRow \union {None}]
             /\ \/ Active = {} /\ \A n \in Number : ~Shown(version[n])
                \/ \E v \in Number : /\ Active = {v} /\ version[v].at \in Nat
                                     /\ \A n \in Number : Shown(version[n]) => n = v
                                     /\ \A x \in version[v].refs : Is(unit[x], "published")
<1>2. Start
  <2>1. CASE unit = NoUnits /\ version = NoRows
    BY <1>1, <2>1 DEF NoUnits, NoRows, Is, Shown, Active
  <2>2. ASSUME NEW q \in Request, NEW at \in Date,
               unit = [x \in Unit |-> IF x \in q.units THEN Content(q) ELSE None],
               version = [NoRows EXCEPT ![q.number] = OldRow(q.units, at)]
        PROVE  Start
    <3>1. PICK v \in Number, refs \in SUBSET Unit : v = q.number /\ refs = q.units
      BY RequestFields
    <3>2. PICK row \in VersionRow : /\ row = OldRow(refs, at) /\ row.status = "active"
                                    /\ row.refs = refs /\ row.at = at
      BY OldVersion
    <3>3. PICK new \in UnitRow : /\ new = Content(q) /\ new.status = "published"
                                 /\ new.shown = new.children /\ new # None
      BY NewUnits, UnitFields
    <3>4. version = [n \in Number |-> IF n = v THEN row ELSE None] /\ row # None
      BY <2>2, <3>1, <3>2, VersionFields DEF NoRows
    <3>5. Active = {v} /\ \A n \in Number : Shown(version[n]) => n = v
      BY <3>2, <3>4 DEF Active, Is, Shown
    <3>6. unit = [x \in Unit |-> IF x \in refs THEN new ELSE None]
      BY <2>2, <3>1, <3>3
    <3>7. version[v].at \in Nat
      BY <3>2, <3>4, PublicationAssumption
    <3>8. \A x \in version[v].refs : Is(unit[x], "published")
      BY <3>2, <3>3, <3>4, <3>6 DEF Is
    <3>9. \A x \in Unit : Is(unit[x], "published") => unit[x].shown = unit[x].children
      BY <3>3, <3>6 DEF Is
    <3>10. /\ unit \in [Unit -> UnitRow \union {None}]
           /\ version \in [Number -> VersionRow \union {None}]
      BY <3>4, <3>6
    <3> QED
      BY <3>5, <3>7, <3>8, <3>9, <3>10
  <2>3. ASSUME NEW q \in Request,
               unit = [x \in Unit |-> IF x \in q.units THEN DraftUnit ELSE None],
               version = [NoRows EXCEPT ![q.number] = DraftRow(q.units)]
        PROVE  Start
    <3>1. PICK row \in VersionRow : row = DraftRow(q.units) /\ row.status = "draft"
      BY RequestFields, DraftVersion
    <3>2. version \in [Number -> VersionRow \union {None}]
      BY <1>1, <2>3, <3>1
    <3>3. Active = {} /\ \A n \in Number : ~Shown(version[n])
      BY <2>3, <3>1 DEF NoRows, Active, Is, Shown
    <3>4. /\ unit \in [Unit -> UnitRow \union {None}]
          /\ \A x \in Unit : ~Is(unit[x], "published")
      BY <2>3, NewUnits DEF Is
    <3> QED
      BY <3>2, <3>3, <3>4
  <2> QED
    BY <2>1, <2>2, <2>3 DEF Init
<1>3. TypeOK
  BY <1>1, <1>2 DEF Init, TypeOK
<1>4. Domains
  BY DEF Init, Domains, Place
<1>5. /\ \A t \in Thread : /\ pc[t] = "idle" /\ reply[t] = None
                           /\ rows[t] = NoRows /\ units[t] = NoUnits /\ words[t] = {}
      /\ \A v \in Number : NoRows[v] = None
      /\ \A x \in Unit : NoUnits[x] = None
  BY DEF Init, NoRows, NoUnits
<1>6. Locks /\ RepliesPinned
  BY <1>5 DEF Locks, RepliesPinned
<1>7. \A t \in Thread : RowsFit(t) /\ UnitsFit(t) /\ ThreadInv(t)
  BY <1>5 DEF RowsFit, UnitsFit, ThreadInv, Checked, Resolved
<1>8. Ordered
  BY <1>2, PublicationAssumption DEF Ordered
<1>9. AllShown /\ RefsPublished
  BY <1>2 DEF AllShown, RefsPublished
<1> QED
  BY <1>3, <1>4, <1>6, <1>7, <1>8, <1>9 DEF IInv

LEMMA NextInv == IInv /\ [Next]_vars => IInv'
<1> SUFFICES ASSUME IInv, [Next]_vars PROVE IInv'
  OBVIOUS
<1>1. ASSUME NEW t \in Thread, NEW q \in Request, BeginBundle(t, q) \/ BeginCatalog(t, q)
      PROVE  IInv'
  BY <1>1, BeginBundleInv, BeginCatalogInv
<1>2. ASSUME NEW t \in Thread, NEW q \in Request, NEW complete \in SUBSET Linked,
             BeginPilot(t, q, complete)
      PROVE  IInv'
  BY <1>2, BeginPilotInv
<1>3. ASSUME NEW t \in Thread, Bundle(t) \/ Catalog(t) \/ Pilot(t) \/ Publish(t)
      PROVE  IInv'
  BY <1>3, BundleInv, CatalogInv, PilotInv, PublishInv
<1>4. ASSUME NEW t \in Thread, Crash(t)
      PROVE  IInv'
  BY <1>4, AnswerInv DEF Crash
<1>5. CASE (\E u \in Linked : EditWord(u)) \/ \E u \in Unit : AddChild(u)
  BY <1>5, EditInv
<1>6. CASE UNCHANGED vars
  <2>1. UNCHANGED <<word, unit, version, pc, req, todo, absent, creates, seen, words, units, rows,
                    reply, begun>>
    BY <1>6 DEF vars
  <2>2. TypeOK' /\ Domains' /\ Locks'
    BY <2>1 DEF IInv, TypeOK, Domains, Locks
  <2>3. \A t \in Thread : RowsFit(t)' /\ UnitsFit(t)' /\ ThreadInv(t)'
    BY <2>1, SameKept, Others DEF IInv, Rests
  <2> QED
    BY <2>1, <2>2, <2>3, SameCommitted DEF IInv
<1> QED
  BY <1>1, <1>2, <1>3, <1>4, <1>5, <1>6 DEF Next

THEOREM Invariance == Spec => []IInv
BY InitInv, NextInv, PTL DEF Spec

\* Every variable keeps its type, whatever requests overlap.
THEOREM TypeCorrect == Spec => []TypeOK
<1>1. IInv => TypeOK
  BY DEF IInv
<1> QED
  BY <1>1, Invariance, PTL

\* publish and _replay of both services: a request that was accepted has its
\* fingerprint in the row of the version, and no other request is accepted for it.
THEOREM Fingerprint == Spec => []AcceptedIsPinned
<1>1. IInv => AcceptedIsPinned
  BY DEF IInv, RepliesPinned, Pinned, AcceptedIsPinned
<1> QED
  BY <1>1, Invariance, PTL

\* What an active version refers to is published with all the children that there are.
THEOREM WholeVersion == Spec => []ActiveIsWhole
<1>1. IInv => ActiveIsWhole
  <2> SUFFICES ASSUME IInv PROVE ActiveIsWhole
    OBVIOUS
  <2>1. \A v \in Active : version[v].refs \subseteq Unit
    BY VersionFields DEF Active, Is, IInv, TypeOK
  <2> QED
    BY <2>1 DEF IInv, AllShown, RefsPublished, ActiveIsWhole
<1> QED
  BY <1>1, Invariance, PTL

\* The words of a version that is activated were locked and compared with its units
\* before, and are locked still.
THEOREM FreshVersion == Spec => FreshAtActivation
<1> DEFINE FreshStep == \A t \in Thread, v \in Number :
                          Commit(t) /\ Activates(v) /\ req[t].kind # "pilot" =>
                            \A u \in version'[v].refs : Fresh(u, unit'[u].base)
<1>1. IInv => [FreshStep]_vars
  <2> SUFFICES ASSUME IInv, NEW t \in Thread, NEW v \in Number, Commit(t), Activates(v),
                      req[t].kind # "pilot", NEW u \in version'[v].refs, u \in Linked
               PROVE  unit'[u].base = word[u]
    BY DEF Fresh
  <2>1. PICK n \in Number : /\ n = Now(t) /\ version'[n].refs = Refs(t)
                            /\ \A x \in Number \ {n} :
                                 version'[x] = version[x] \/ Is(version'[x], "retired")
    BY Committed
  <2>2. v = n
    BY <2>1 DEF Activates, Is
  <2>3. Held(t, u)
    BY <2>1, <2>2 DEF Commit, IInv, ThreadInv, Resolved, AllHeld
  <2>4. u \in Unit
    BY PublicationAssumption
  <2>5. unit'[u].base = UnitAt(t, u).base
    <3>1. /\ units[t][u] = None => unit'[u] = unit[u]
          /\ unit[u] # None => unit'[u].base = unit[u].base
          /\ unit'[u] = Stored(t, u)
      BY <2>4, StoredUnits
    <3>2. units[t][u] # None /\ unit[u] = None => Stored(t, u) = units[t][u]
      BY <2>4, StoredUnit DEF IInv
    <3>3. units[t][u] # None /\ unit[u] # None => units[t][u].base = unit[u].base
      BY <2>4 DEF IInv, UnitsFit
    <3> QED
      BY <3>1, <3>2, <3>3 DEF UnitAt
  <2> QED
    BY <2>3, <2>5 DEF Held
<1> HIDE DEF FreshStep
<1>2. Spec => [][FreshStep]_vars
  BY <1>1, Invariance, PTL
<1> QED
  BY <1>2 DEF FreshStep, FreshAtActivation

-----------------------------------------------------------------------------
(* The versions of the curriculum follow each other.                       *)

Dated(v, row) == [number |-> v, from |-> row.at, to |-> row.until]

LEMMA PeriodOf ==
  \A p : p \in Periods <=> \E v \in Number : Shown(version[v]) /\ p = Dated(v, version[v])
BY DEF Periods, Shown, Dated

\* A step that leaves dates and publications alone.
LEMMA SamePeriods ==
  ASSUME \A v \in Number : /\ Shown(version'[v]) <=> Shown(version[v])
                           /\ Shown(version[v]) => /\ version'[v].at = version[v].at
                                                   /\ version'[v].until = version[v].until
  PROVE  Periods' = Periods
<1>1. \A p : p \in Periods' <=> \E v \in Number : Shown(version'[v]) /\ p = Dated(v, version'[v])
  BY DEF Periods, Shown, Dated
<1>2. \A v \in Number : Shown(version[v]) => Dated(v, version'[v]) = Dated(v, version[v])
  BY DEF Dated
<1>3. \A p : p \in Periods' <=> p \in Periods
  BY <1>1, <1>2, PeriodOf
<1> QED
  BY <1>3

LEMMA CommitPublishes ==
  ASSUME IInv, NEW t \in Thread, Commit(t)
  PROVE  Timeline!Next
<1>1. PICK q \in Request, v \in Number :
        /\ version'[v] # None /\ version'[v].status = "active" /\ version'[v].at = q.at
        /\ version[v] = None \/ version[v].status = "draft"
        /\ \A x \in Number \ {v} :
             \/ version'[x] = version[x] /\ ~Is(version[x], "active") /\ rows[t][x] = None
             \/ /\ rows[t][x] # None
                /\ Is(version[x], "active") /\ Is(version'[x], "retired")
                /\ version'[x].at = version[x].at /\ version'[x].until = q.at
                /\ x < v /\ version[x].at <= q.at
        /\ Active' = {v}
  BY Committed
<1>2. PICK at \in Date : at = q.at /\ at \in Nat
  BY RequestFields
<1>3. version' \in [Number -> VersionRow \union {None}]
  BY PublishTypes DEF IInv, Publish, TypeOK
<1>4. version'[v].until = None /\ Dated(v, version'[v]) = [number |-> v, from |-> at, to |-> None]
  BY <1>1, <1>2, <1>3, VersionFields DEF Dated
<1> DEFINE closed(p) == IF p.to = None THEN [p EXCEPT !.to = at] ELSE p
\* What becomes of the period of an older version.
<1>5. ASSUME NEW x \in Number \ {v}
      PROVE  /\ Shown(version'[x]) <=> Shown(version[x])
             /\ Shown(version[x]) => /\ Dated(x, version'[x]) = closed(Dated(x, version[x]))
                                     /\ x < v /\ version[x].at <= at
  <2>1. CASE version'[x] = version[x] /\ ~Is(version[x], "active") /\ rows[t][x] = None
    <3>1. Shown(version[x]) => version[x].until # None
      BY <2>1, VersionFields, PublicationAssumption DEF Shown, Is, IInv, TypeOK
    <3>2. Shown(version[x]) => Dated(x, version'[x]) = closed(Dated(x, version[x]))
      BY <2>1, <3>1 DEF Dated
    <3>3. Shown(version[x]) => x < v /\ version[x].at <= at
      <4> SUFFICES ASSUME Shown(version[x]) PROVE x < v /\ version[x].at <= at
        OBVIOUS
      <4>1. IInv'
        BY CommitInv
      <4>2. x <= v /\ version'[x].at <= version'[v].at
        BY <1>1, <2>1, <4>1 DEF IInv, Ordered, Shown, Active
      <4>3. x \in Nat /\ v \in Nat
        BY PublicationAssumption
      <4> QED
        BY <1>1, <1>2, <2>1, <4>2, <4>3
    <3> QED
      BY <2>1, <3>2, <3>3
  <2>2. CASE /\ Is(version[x], "active") /\ Is(version'[x], "retired")
             /\ version'[x].at = version[x].at /\ version'[x].until = q.at
             /\ x < v /\ version[x].at <= q.at
    <3>1. version[x].until = None
      BY <2>2, VersionFields DEF Is, IInv, TypeOK
    <3>2. Shown(version[x]) /\ Shown(version'[x])
      BY <2>2 DEF Shown, Is
    <3>3. Dated(x, version'[x]) = closed(Dated(x, version[x]))
      BY <1>2, <2>2, <3>1 DEF Dated
    <3> QED
      BY <1>2, <2>2, <3>2, <3>3
  <2> QED
    BY <1>1, <2>1, <2>2
<1>6. ~Shown(version[v]) /\ Shown(version'[v])
  BY <1>1 DEF Shown
<1>7. \A p : p \in Periods' <=> \E x \in Number : Shown(version'[x]) /\ p = Dated(x, version'[x])
  BY DEF Periods, Shown, Dated
<1> HIDE DEF closed
<1>8. Periods' = {closed(p) : p \in Periods} \union {[number |-> v, from |-> at, to |-> None]}
  <2>1. ASSUME NEW p \in Periods'
        PROVE  p \in {closed(o) : o \in Periods} \union {[number |-> v, from |-> at, to |-> None]}
    <3>1. PICK x \in Number : Shown(version'[x]) /\ p = Dated(x, version'[x])
      BY <1>7, <2>1
    <3>2. CASE x = v
      BY <1>4, <3>1, <3>2
    <3>3. CASE x # v
      <4>1. Dated(x, version[x]) \in Periods /\ p = closed(Dated(x, version[x]))
        BY <1>5, <3>1, <3>3, PeriodOf
      <4> QED
        BY <4>1
    <3> QED
      BY <3>2, <3>3
  <2>2. ASSUME NEW o \in Periods
        PROVE  closed(o) \in Periods'
    <3>1. PICK x \in Number : Shown(version[x]) /\ o = Dated(x, version[x])
      BY <2>2, PeriodOf
    <3>2. x # v
      BY <1>6, <3>1
    <3> QED
      BY <1>5, <1>7, <3>1, <3>2
  <2>3. [number |-> v, from |-> at, to |-> None] \in Periods'
    BY <1>4, <1>6, <1>7
  <2> QED
    BY <2>1, <2>2, <2>3
<1>9. \A p \in Periods : p.number < v /\ p.from <= at
  <2> SUFFICES ASSUME NEW p \in Periods PROVE p.number < v /\ p.from <= at
    OBVIOUS
  <2>1. PICK x \in Number : Shown(version[x]) /\ p = Dated(x, version[x])
    BY PeriodOf
  <2>2. p.number = x /\ p.from = version[x].at
    BY <2>1 DEF Dated
  <2> QED
    BY <1>5, <1>6, <2>1, <2>2
<1>10. Timeline!Publish(v, at)
  BY <1>8, <1>9 DEF Timeline!Publish, Timeline!Closed, closed
<1> QED
  BY <1>10 DEF Timeline!Next

LEMMA TimelineStep ==
  ASSUME IInv, [Next]_vars
  PROVE  [Timeline!Next]_Periods
<1>1. ASSUME UNCHANGED version
      PROVE  Periods' = Periods
  BY <1>1, SamePeriods
<1>2. ASSUME NEW t \in Thread, Conflict(t)
      PROVE  UNCHANGED version
  BY <1>2 DEF Conflict, Refuse
<1>3. ASSUME NEW t \in Thread, Adopt(t)
      PROVE  Periods' = Periods
  <2>1. CASE UNCHANGED version
    BY <1>1, <2>1
  <2>2. CASE version' # version
    <3>1. PICK q \in Request, v \in Number : q = req[t] /\ v = q.number
      BY <1>3, RequestFields DEF Adopt, IInv, TypeOK
    <3>2. PICK r \in VersionRow : r = version[v]
      BY <1>3, <3>1 DEF Adopt, IInv, TypeOK, ThreadInv, Shown, Now
    <3>3. PICK new : new = [r EXCEPT !.print = q.print]
      OBVIOUS
    <3>4. /\ new \in VersionRow /\ new.status = r.status /\ new.at = r.at
          /\ new.until = r.until /\ new # None /\ r # None
      BY <3>3, RequestFields, PrintedVersion, VersionFields
    <3>5. version' = [version EXCEPT ![v] = new]
      BY <1>3, <2>2, <3>1, <3>2, <3>3 DEF Adopt, Refuse
    <3>6. \A x \in Number : /\ Shown(version'[x]) <=> Shown(version[x])
                            /\ Shown(version[x]) => /\ version'[x].at = version[x].at
                                                    /\ version'[x].until = version[x].until
      BY <3>2, <3>4, <3>5 DEF Shown, IInv, TypeOK
    <3> QED
      BY <3>6, SamePeriods
  <2> QED
    BY <2>1, <2>2
<1>4. ASSUME NEW t \in Thread, InsertPilot(t)
      PROVE  Periods' = Periods
  <2>1. PICK v \in Number, refs \in SUBSET Unit :
          v = req[t].number /\ refs = {u \in Linked : unit[u] # None}
    BY <1>4, RequestFields, PublicationAssumption DEF InsertPilot, IInv, TypeOK
  <2>2. PICK new \in VersionRow : new = DraftRow(refs) /\ new.status = "draft"
    BY DraftVersion
  <2>3. version' = IF version[v] # None THEN version ELSE [version EXCEPT ![v] = new]
    BY <1>4, <2>1, <2>2 DEF InsertPilot
  <2>4. \A x \in Number : /\ Shown(version'[x]) <=> Shown(version[x])
                          /\ Shown(version[x]) => version'[x] = version[x]
    BY <2>2, <2>3 DEF Shown, IInv, TypeOK
  <2> QED
    BY <2>4, SamePeriods
<1>5. ASSUME NEW t \in Thread, Bundle(t)
      PROVE  Periods' = Periods
  <2>1. CASE Adopt(t)
    BY <1>3, <2>1
  <2>2. CASE ~Adopt(t)
    BY <1>1, <1>2, <1>5, <2>2
    DEF Bundle, Compare, PreflightRefuses, Look, Get, InsertUnit, ResolveWord, LockWord,
        InsertVersion, RecoverPreflight, RecoverWinner, Refuse
  <2> QED
    BY <2>1, <2>2
<1>6. ASSUME NEW t \in Thread, Catalog(t) \/ Crash(t)
      PROVE  Periods' = Periods
  BY <1>1, <1>6 DEF Catalog, AnswerRepeat, LegacyDone, LockLegacyWord, LockWord, PublishUnit,
     Crash, Refuse
<1>7. ASSUME NEW t \in Thread, Pilot(t)
      PROVE  Periods' = Periods
  BY <1>1, <1>4, <1>7 DEF Pilot, FindPilot, PilotReady, Reread, Refuse
<1>8. ASSUME NEW t \in Thread, Publish(t)
      PROVE  Timeline!Next \/ Periods' = Periods
  <2>1. CASE Commit(t)
    BY <2>1, CommitPublishes
  <2>2. CASE ~Commit(t)
    BY <1>1, <1>2, <1>8, <2>2 DEF Publish, CheckDraft, ReadActive, Retire, Activate, Refuse
  <2> QED
    BY <2>1, <2>2
<1>9. ASSUME NEW t \in Thread, NEW q \in Request,
              \/ BeginBundle(t, q) \/ BeginCatalog(t, q)
              \/ \E complete \in SUBSET Linked : BeginPilot(t, q, complete)
       PROVE  Periods' = Periods
  BY <1>1, <1>9 DEF BeginBundle, BeginCatalog, BeginPilot, Begin
<1>10. CASE (\E u \in Linked : EditWord(u)) \/ \E u \in Unit : AddChild(u)
  BY <1>1, <1>10 DEF EditWord, AddChild, AddTo
<1>11. CASE UNCHANGED vars
  BY <1>1, <1>11 DEF vars
<1> QED
  BY <1>5, <1>6, <1>7, <1>8, <1>9, <1>10, <1>11 DEF Next

\* However publications overlap, fail and repeat, they are publications of the
\* abstract timeline, one after the other.
THEOREM Refinement == Spec => ImplementsTimeline
<1>1. Init => Timeline!Init
  <2> SUFFICES ASSUME Init PROVE Timeline!Init
    OBVIOUS
  <2>1. CASE \A v \in Number : ~Shown(version[v])
    BY <2>1, PeriodOf DEF Timeline!Init
  <2>2. CASE \E v \in Number : Shown(version[v])
    <3>1. PICK q \in Request, at \in Date :
            version = [NoRows EXCEPT ![q.number] = OldRow(q.units, at)]
      BY <2>2, RequestFields, DraftVersion DEF Init, NoRows, Shown
    <3>2. PICK v \in Number, refs \in SUBSET Unit : v = q.number /\ refs = q.units
      BY RequestFields
    <3>3. PICK row \in VersionRow : /\ row = OldRow(refs, at) /\ row.status = "active"
                                    /\ row.at = at
      BY OldVersion
    <3>4. version = [n \in Number |-> IF n = v THEN row ELSE None]
      BY <3>1, <3>2, <3>3 DEF NoRows
    <3>5. PICK p : p = [number |-> v, from |-> at, to |-> None]
      OBVIOUS
    <3>6. Dated(v, version[v]) = p /\ Shown(version[v])
      BY <3>3, <3>4, <3>5, VersionFields DEF Dated, Shown
    <3>7. \A n \in Number : Shown(version[n]) => n = v
      BY <3>4 DEF Shown
    <3>8. Periods = {p}
      BY <3>6, <3>7, PeriodOf
    <3>9. p \in Timeline!Period /\ p.to = None
      BY <3>5 DEF Timeline!Period
    <3> QED
      BY <3>8, <3>9 DEF Timeline!Init
  <2> QED
    BY <2>1, <2>2
<1> QED
  BY <1>1, Invariance, TimelineStep, PTL DEF ImplementsTimeline, Timeline!Spec, Spec

-----------------------------------------------------------------------------
(* Exact repeats of a bundle.                                              *)

\* Requests that would be taken for one another agree on the date: neither the
\* fingerprint nor the row of a pilot says for which date a bundle was asked.
RepeatsAgree ==
  \A p, q \in Request : q.kind = "bundle" /\ p.number = q.number
                        /\ (p.print = q.print \/ p.kind = "pilot") => p.at = q.at

\* What a refused bundle has against it, and always will.
Changed(q) == \E u \in q.units : unit[u] # None /\ unit[u] # Content(q)
Stale(q) == \E u \in q.units \intersect Linked : q.base < word[u]
Surpassed(q) == \E a \in Number : Shown(version[a]) /\ q.number < a
Early(q) == /\ ~Shown(version[q.number])
            /\ \E a \in Number : Shown(version[a]) /\ q.at < version[a].at
Taken(q) == LET row == version[q.number]
            IN /\ row # None
               /\ \/ row.refs # q.units
                  \/ row.status = "retired"
                  \/ row.status = "active" /\ row.print \notin {None, q.print}
Doomed(q) == Changed(q) \/ Stale(q) \/ Surpassed(q) \/ Early(q) \/ Taken(q)

\* A draft unit has no text of a bundle, and keeps none.
Texts == \A x \in Unit : /\ Is(unit[x], "draft") => unit[x].text = None
                         /\ \A t \in Thread : units[t][x] # None /\ unit[x] # None =>
                              units[t][x].text = None

Settled(t) == /\ pc[t] = "refuse" /\ req[t].kind = "bundle" => Doomed(req[t])
              /\ pc[t] = "words" => todo[t] \subseteq Refs(t)

RInv == IInv /\ Texts /\ \A t \in Thread : Settled(t)

\* What no step takes back.
Stays ==
  /\ \A x \in Unit : unit[x] # None =>
       /\ unit'[x] # None /\ unit'[x].text = unit[x].text
       /\ Is(unit[x], "published") => unit'[x] = unit[x]
  /\ \A u \in Linked : word[u] <= word'[u]
  /\ \A v \in Number : version[v] # None =>
       /\ version'[v] # None /\ version'[v].refs = version[v].refs
       /\ version[v].status = "retired" => version'[v].status = "retired"
       /\ Shown(version[v]) =>
            /\ Shown(version'[v]) /\ version'[v].at = version[v].at
            /\ version[v].print # None => version'[v].print = version[v].print
  /\ \A v \in Number : Shown(version'[v]) /\ ~Shown(version[v]) =>
       \E p \in Request : /\ p.number = v /\ version'[v].at = p.at
                          /\ version'[v].status = "active"
                          /\ version'[v].print = p.print \/ p.kind = "pilot"

LEMMA DescribedIsNotDoomed ==
  ASSUME IInv, NEW q \in Request, Describes(q)
  PROVE  ~Doomed(q)
<1>1. q.number \in Active /\ q.number \in Number /\ Shown(version[q.number])
  BY RequestFields DEF Describes, Active, Is, Shown
<1>2. ~Changed(q)
  BY DEF Describes, Changed
<1>3. ~Stale(q)
  BY RequestFields DEF Describes, FreshUnits, Fresh, Stale, IInv, TypeOK, Edition
<1>4. ~Surpassed(q)
  <2> SUFFICES ASSUME NEW a \in Number, Shown(version[a]), q.number < a PROVE FALSE
    BY DEF Surpassed
  <2>1. a <= q.number
    BY <1>1 DEF IInv, Ordered
  <2> QED
    BY <1>1, <2>1, PublicationAssumption
<1>5. ~Early(q)
  BY <1>1 DEF Early
<1>6. ~Taken(q)
  BY DEF Describes, Taken, Is
<1> QED
  BY <1>2, <1>3, <1>4, <1>5, <1>6 DEF Doomed

LEMMA DoomStays ==
  ASSUME IInv, IInv', Texts, Stays, RepeatsAgree,
         NEW q \in Request, q.kind = "bundle", Doomed(q)
  PROVE  Doomed(q)'
<1>0. /\ q.number \in Number /\ q.units \subseteq Unit /\ q.at \in Nat /\ q.base \in Nat
      /\ q.text # None /\ q.print # None
  BY RequestFields, PublicationAssumption DEF IsRequest, Edition
<1>1. CASE Changed(q)
  <2>1. PICK u \in q.units : unit[u] # None /\ unit[u] # Content(q)
    BY <1>1 DEF Changed
  <2>2. CASE Is(unit[u], "published")
    BY <1>0, <2>1, <2>2 DEF Stays, Changed, Doomed
  <2>3. CASE Is(unit[u], "draft")
    <3>1. unit'[u] # None /\ unit'[u].text = None
      BY <1>0, <2>1, <2>3 DEF Stays, Texts
    <3>2. Content(q).text = q.text
      BY DEF Content
    <3>3. unit'[u] # Content(q)
      BY <1>0, <3>1, <3>2
    <3> QED
      BY <2>1, <3>1, <3>3 DEF Changed, Doomed, Content
  <2> QED
    BY <1>0, <2>1, <2>2, <2>3, UnitFields DEF Is, IInv, TypeOK
<1>2. CASE Stale(q)
  <2>1. PICK u \in q.units \intersect Linked : q.base < word[u]
    BY <1>2 DEF Stale
  <2>2. word[u] <= word'[u] /\ word[u] \in Nat /\ word'[u] \in Nat
    BY <2>1 DEF Stays, IInv, TypeOK, Edition
  <2> QED
    BY <1>0, <2>1, <2>2 DEF Stale, Doomed
<1>3. CASE Surpassed(q)
  <2>1. PICK a \in Number : Shown(version[a]) /\ q.number < a
    BY <1>3 DEF Surpassed
  <2>2. Shown(version'[a])
    BY <2>1 DEF Stays, Shown
  <2> QED
    BY <2>1, <2>2 DEF Surpassed, Doomed, Shown
<1>4. CASE Early(q)
  <2>1. PICK a \in Number : Shown(version[a]) /\ q.at < version[a].at
    BY <1>4 DEF Early
  <2>2. Shown(version'[a]) /\ version'[a].at = version[a].at
    BY <2>1 DEF Stays, Shown
  <2>3. CASE ~Shown(version'[q.number])
    BY <2>1, <2>2, <2>3 DEF Early, Doomed, Shown
  <2>4. CASE Shown(version'[q.number])
    <3>1. PICK p \in Request :
            /\ p.number = q.number /\ version'[q.number].at = p.at
            /\ version'[q.number].status = "active"
            /\ version'[q.number].print = p.print \/ p.kind = "pilot"
      BY <1>0, <1>4, <2>4 DEF Early, Stays
    <3>2. q.number \in Active'
      BY <1>0, <2>4, <3>1 DEF Active, Is, Shown
    <3>3. version'[a].at <= p.at
      BY <2>2, <3>1, <3>2 DEF IInv, Ordered, Shown
    <3>4. p.at \in Nat /\ version[a].at \in Nat /\ p.print # None
      BY <2>1, RequestFields, VersionFields DEF IInv, TypeOK, Shown
    <3>5. p.at # q.at
      BY <1>0, <2>1, <2>2, <3>3, <3>4
    <3>6. p.print # q.print /\ p.kind # "pilot"
      BY <3>1, <3>5 DEF RepeatsAgree
    <3> QED
      BY <2>4, <3>1, <3>4, <3>6 DEF Taken, Doomed, Shown
  <2> QED
    BY <2>3, <2>4
<1>5. CASE Taken(q)
  <2>1. version'[q.number] # None /\ version'[q.number].refs = version[q.number].refs
    BY <1>0, <1>5 DEF Taken, Stays
  <2>2. version[q.number].refs # q.units => Taken(q)'
    BY <2>1 DEF Taken
  <2>3. version[q.number].status = "retired" => Taken(q)'
    BY <1>0, <1>5, <2>1 DEF Taken, Stays
  <2>4. ASSUME version[q.number].status = "active", version[q.number].print \notin {None, q.print}
        PROVE  Taken(q)'
    <3>1. /\ Shown(version'[q.number])
          /\ version'[q.number].print = version[q.number].print
      BY <1>0, <1>5, <2>4 DEF Stays, Taken, Shown
    <3>2. version'[q.number].status \in {"active", "retired"}
      BY <1>0, <3>1, VersionFields DEF Shown, IInv, TypeOK
    <3> QED
      BY <2>1, <2>4, <3>1, <3>2 DEF Taken
  <2> QED
    BY <1>5, <2>2, <2>3, <2>4 DEF Taken, Doomed
<1> QED
  BY <1>1, <1>2, <1>3, <1>4, <1>5 DEF Doomed

LEMMA SameStays ==
  ASSUME UNCHANGED <<unit, version>>, \A u \in Linked : word[u] <= word'[u]
  PROVE  Stays
BY DEF Stays

LEMMA AdoptStays ==
  ASSUME IInv, NEW t \in Thread, Adopt(t)
  PROVE  Stays
<1>0. \A u \in Linked : word[u] <= word[u]
  BY DEF IInv, TypeOK, Edition
<1>1. CASE Refuse(t)
  BY <1>0, <1>1, SameStays DEF Refuse
<1>2. CASE ~Refuse(t)
  <2>1. PICK q \in Request, v \in Number : q = req[t] /\ v = q.number
    BY RequestFields DEF Adopt, IInv, TypeOK
  <2>2. PICK r \in VersionRow : r = version[v] /\ r.status # "draft"
    BY <2>1 DEF Adopt, IInv, TypeOK, ThreadInv, Shown, Now
  <2>3. PICK new : new = [r EXCEPT !.print = q.print]
    OBVIOUS
  <2>4. /\ new.status = r.status /\ new.refs = r.refs /\ new.at = r.at /\ new.print = q.print
        /\ new # None /\ r.print \in {None, q.print}
    BY <1>2, <2>1, <2>2, <2>3, RequestFields, PrintedVersion, VersionFields DEF Adopt
  <2>5. version' = [version EXCEPT ![v] = new] /\ UNCHANGED <<word, unit>>
    BY <1>2, <2>1, <2>2, <2>3 DEF Adopt
  <2>6. version'[v] = new /\ \A x \in Number \ {v} : version'[x] = version[x]
    BY <2>5 DEF IInv, TypeOK
  <2>7. \A x \in Number :
          /\ Shown(version'[x]) <=> Shown(version[x])
          /\ version[x] # None =>
               /\ version'[x] # None /\ version'[x].refs = version[x].refs
               /\ version'[x].status = version[x].status /\ version'[x].at = version[x].at
               /\ version[x].print # None => version'[x].print = version[x].print
    <3> SUFFICES ASSUME NEW x \in Number, x = v
                 PROVE  /\ Shown(version'[x]) /\ Shown(version[x])
                        /\ version'[x] # None /\ version'[x].refs = version[x].refs
                        /\ version'[x].status = version[x].status
                        /\ version'[x].at = version[x].at
                        /\ version[x].print # None => version'[x].print = version[x].print
      BY <2>6
    <3> QED
      BY <2>2, <2>4, <2>6, VersionFields DEF Shown
  <2> QED
    BY <1>0, <2>5, <2>7 DEF Stays
<1> QED
  BY <1>1, <1>2

LEMMA CommitStays ==
  ASSUME IInv, Texts, NEW t \in Thread, Commit(t)
  PROVE  Stays
<1>1. PICK q \in Request, v \in Number :
        /\ v = q.number
        /\ version'[v] # None /\ version'[v].status = "active" /\ version'[v].at = q.at
        /\ q.kind # "pilot" => version'[v].print = q.print
        /\ version[v] = None \/ version[v].status = "draft"
        /\ version[v] # None => version'[v].refs = version[v].refs
        /\ \A x \in Number \ {v} :
             \/ version'[x] = version[x]
             \/ /\ Is(version[x], "active") /\ Is(version'[x], "retired")
                /\ version'[x].refs = version[x].refs /\ version'[x].at = version[x].at
                /\ version'[x].print = version[x].print
  BY Committed
<1>2. UNCHANGED word /\ \A u \in Linked : word[u] <= word[u]
  BY DEF Commit, IInv, TypeOK, Edition
<1>3. ASSUME NEW x \in Unit, unit[x] # None
      PROVE  /\ unit'[x] # None /\ unit'[x].text = unit[x].text
             /\ Is(unit[x], "published") => unit'[x] = unit[x]
  <2>1. /\ unit'[x] = Stored(t, x) /\ unit'[x] # None
        /\ Is(unit[x], "published") => unit'[x] = unit[x]
        /\ units[t][x] = None => unit'[x] = unit[x]
    BY <1>3, StoredUnits
  <2>2. CASE units[t][x] # None
    <3>1. PICK r \in UnitRow : r = units[t][x]
      BY <2>2 DEF IInv, TypeOK
    <3>2. r.text = None
      BY <1>3, <2>2, <3>1 DEF Texts
    <3>3. unit[x].status = "draft"
      BY <1>3, <2>2, <3>1 DEF IInv, UnitsFit
    <3>4. Stored(t, x) = [r EXCEPT !.children = unit[x].children]
      BY <1>3, <2>2, <3>1 DEF Stored
    <3>5. Stored(t, x).text = r.text
      BY <3>4 DEF UnitRow
    <3> QED
      BY <1>3, <2>1, <3>2, <3>3, <3>5 DEF Texts, Is
  <2> QED
    BY <2>1, <2>2
<1>4. ASSUME NEW x \in Number, version[x] # None
      PROVE  /\ version'[x] # None /\ version'[x].refs = version[x].refs
             /\ version[x].status = "retired" => version'[x].status = "retired"
             /\ Shown(version[x]) =>
                  /\ Shown(version'[x]) /\ version'[x].at = version[x].at
                  /\ version[x].print # None => version'[x].print = version[x].print
  BY <1>1, <1>4 DEF Shown, Is
<1>5. ASSUME NEW x \in Number, Shown(version'[x]), ~Shown(version[x])
      PROVE  \E p \in Request : /\ p.number = x /\ version'[x].at = p.at
                                /\ version'[x].status = "active"
                                /\ version'[x].print = p.print \/ p.kind = "pilot"
  <2>1. x = v
    BY <1>1, <1>5 DEF Shown, Is
  <2> QED
    BY <1>1, <2>1
<1> QED
  BY <1>2, <1>3, <1>4, <1>5 DEF Stays

LEMMA PilotStays ==
  ASSUME IInv, NEW t \in Thread,
         InsertPilot(t) \/ \E q \in Request, complete \in SUBSET Linked : BeginPilot(t, q, complete)
  PROVE  Stays
<1>0. \A u \in Linked : word[u] <= word[u]
  BY DEF IInv, TypeOK, Edition
<1>1. CASE InsertPilot(t)
  <2>1. PICK v \in Number : v = req[t].number
    BY <1>1, RequestFields DEF InsertPilot, IInv, TypeOK
  <2>2. \A x \in Number : \/ version'[x] = version[x]
                          \/ version[x] = None /\ version'[x].status = "draft"
    BY <1>1, <2>1 DEF InsertPilot, IInv, TypeOK, DraftRow
  <2> QED
    BY <1>0, <1>1, <2>2 DEF InsertPilot, Stays, Shown
<1>2. ASSUME NEW q \in Request, NEW complete \in SUBSET Linked, BeginPilot(t, q, complete)
      PROVE  Stays
  <2>1. \A x \in Unit : unit[x] # None => unit'[x] = unit[x]
    BY <1>2 DEF BeginPilot
  <2> QED
    BY <1>0, <1>2, <2>1 DEF BeginPilot, Stays
<1> QED
  BY <1>1, <1>2

LEMMA EditStays ==
  ASSUME IInv, (\E u \in Linked : EditWord(u)) \/ \E u \in Unit : AddChild(u)
  PROVE  Stays
<1>0. \A u \in Linked : word[u] <= word[u]
  BY DEF IInv, TypeOK, Edition
<1>1. ASSUME NEW u \in Linked, EditWord(u)
      PROVE  Stays
  <2>1. \A x \in Linked : word[x] <= word'[x]
    BY <1>1 DEF EditWord, IInv, TypeOK, Edition
  <2> QED
    BY <1>1, <2>1, SameStays DEF EditWord
<1>2. ASSUME NEW u \in Unit, AddChild(u)
      PROVE  Stays
  <2>1. PICK r \in UnitRow : r = unit[u] /\ r.status = "draft"
    BY <1>2 DEF AddChild, AddTo, IInv, TypeOK
  <2>2. unit' = [unit EXCEPT ![u] = [r EXCEPT !.children = @ + 1]]
    BY <1>2, <2>1 DEF AddChild, AddTo
  <2>3. PICK new : new = [r EXCEPT !.children = @ + 1]
    OBVIOUS
  <2>4. new \in UnitRow /\ new.text = r.text /\ new # None
    <3>1. new \in UnitRow /\ new.text = r.text
      BY <2>3 DEF UnitRow
    <3> QED
      BY <3>1, UnitFields
  <2>5. \A x \in Unit : unit'[x] = IF x = u THEN new ELSE unit[x]
    BY <2>2, <2>3 DEF IInv, TypeOK
  <2> QED
    BY <1>0, <1>2, <2>1, <2>4, <2>5 DEF AddChild, AddTo, Stays, Is
<1> QED
  BY <1>1, <1>2

\* The other steps leave what is committed as it is.
Quiet(t) ==
  \/ \E q \in Request : BeginBundle(t, q) \/ BeginCatalog(t, q)
  \/ Bundle(t) /\ ~Adopt(t)
  \/ Catalog(t)
  \/ Pilot(t) /\ ~InsertPilot(t)
  \/ Publish(t) /\ ~Commit(t)
  \/ Crash(t)

LEMMA QuietCommitted ==
  ASSUME NEW t \in Thread, Quiet(t)
  PROVE  UNCHANGED <<word, unit, version>>
<1> USE DEF Answer, Refuse, Conflict, Step, Begin
<1>1. CASE \E q \in Request : BeginBundle(t, q) \/ BeginCatalog(t, q)
  BY <1>1 DEF BeginBundle, BeginCatalog
<1>2. CASE Bundle(t) /\ ~Adopt(t)
  <2>1. ASSUME NEW u \in Unit, Get(t, u) \/ InsertUnit(t, u) \/ ResolveWord(t, u)
        PROVE  UNCHANGED <<word, unit, version>>
    BY <2>1 DEF Get, InsertUnit, ResolveWord, LockWord
  <2> QED
    BY <1>2, <2>1 DEF Bundle, Compare, PreflightRefuses, Look, InsertVersion, RecoverPreflight,
                      RecoverWinner
<1>3. CASE Catalog(t)
  <2>1. ASSUME NEW u \in Unit, LockLegacyWord(t, u) \/ PublishUnit(t, u)
        PROVE  UNCHANGED <<word, unit, version>>
    BY <2>1 DEF PublishUnit, LockLegacyWord, LockWord
  <2> QED
    BY <1>3, <2>1 DEF Catalog, AnswerRepeat, LegacyDone
<1>4. CASE Pilot(t) /\ ~InsertPilot(t)
  BY <1>4 DEF Pilot, FindPilot, PilotReady, Reread
<1>5. CASE Publish(t) /\ ~Commit(t)
  BY <1>5 DEF Publish, CheckDraft, ReadActive, Retire, Activate
<1>6. CASE Crash(t)
  BY <1>6 DEF Crash
<1> QED
  BY <1>1, <1>2, <1>3, <1>4, <1>5, <1>6 DEF Quiet

LEMMA NextStays ==
  ASSUME IInv, Texts, [Next]_vars
  PROVE  Stays
<1>0. \A u \in Linked : word[u] <= word[u]
  BY DEF IInv, TypeOK, Edition
<1>1. ASSUME NEW t \in Thread, Quiet(t)
      PROVE  Stays
  BY <1>0, <1>1, QuietCommitted, SameStays
<1>2. CASE UNCHANGED vars
  BY <1>0, <1>2, SameStays DEF vars
<1> QED
  BY <1>1, <1>2, AdoptStays, CommitStays, PilotStays, EditStays
     DEF Next, Quiet, Bundle, Pilot, Publish

\* A step of thread t leaves the others where they are.
LEMMA OthersRest ==
  ASSUME IInv, NEW t \in Thread,
         \/ Quiet(t) \/ Adopt(t) \/ Commit(t) \/ InsertPilot(t)
         \/ \E q \in Request, complete \in SUBSET Linked : BeginPilot(t, q, complete)
  PROVE  \A u \in Thread \ {t} : Rests(u)
<1> SUFFICES ASSUME NEW u \in Thread \ {t} PROVE Rests(u)
  OBVIOUS
<1> USE DEF IInv, TypeOK, Domains, Answer, Refuse, Conflict, Step, Begin, Goto, Forget, Release, Rests
<1>1. CASE \E q \in Request : BeginBundle(t, q) \/ BeginCatalog(t, q)
  BY <1>1 DEF BeginBundle, BeginCatalog
<1>2. CASE Compare(t) \/ PreflightRefuses(t) \/ Look(t)
  BY <1>2 DEF Compare, PreflightRefuses, Look
<1>3. ASSUME NEW x \in Unit, Get(t, x) \/ InsertUnit(t, x)
      PROVE  Rests(u)
  BY <1>3 DEF Get, InsertUnit
<1>4. ASSUME NEW x \in Unit, LockWord(t, x)
      PROVE  Rests(u)
  BY <1>4 DEF LockWord
<1>5. CASE InsertVersion(t)
  BY <1>5 DEF InsertVersion
<1>6. CASE RecoverPreflight(t) \/ RecoverWinner(t)
  BY <1>6 DEF RecoverPreflight, RecoverWinner
<1>7. CASE AnswerRepeat(t) \/ LegacyDone(t)
  BY <1>7 DEF AnswerRepeat, LegacyDone
<1>8. ASSUME NEW x \in Unit, PublishUnit(t, x)
      PROVE  Rests(u)
  BY <1>8 DEF PublishUnit
<1>9. CASE FindPilot(t) \/ InsertPilot(t) \/ PilotReady(t) \/ Reread(t)
  BY <1>9 DEF FindPilot, InsertPilot, PilotReady, Reread
<1>10. CASE CheckDraft(t)
  BY <1>10 DEF CheckDraft
<1>11. CASE ReadActive(t)
  BY <1>11 DEF ReadActive
<1>12. CASE Retire(t)
  BY <1>12 DEF Retire
<1>13. CASE Activate(t)
  BY <1>13 DEF Activate
<1>14. CASE Commit(t) \/ Adopt(t) \/ Crash(t)
  BY <1>14 DEF Commit, Adopt, Crash
<1>15. ASSUME NEW q \in Request, NEW complete \in SUBSET Linked, BeginPilot(t, q, complete)
       PROVE  Rests(u)
  BY <1>15 DEF BeginPilot
<1> QED
  BY <1>1, <1>2, <1>3, <1>4, <1>5, <1>6, <1>7, <1>8, <1>9, <1>10, <1>11, <1>12, <1>13, <1>14, <1>15
     DEF Quiet, Bundle, Catalog, Pilot, Publish, ResolveWord, LockLegacyWord

LEMMA RestSettled ==
  ASSUME RInv, IInv', Stays, RepeatsAgree, NEW u \in Thread, Rests(u)
  PROVE  Settled(u)'
<1>1. CASE pc[u] = "refuse"
  <2>1. PICK q \in Request : q = req[u] /\ q = req'[u]
    BY <1>1 DEF RInv, IInv, TypeOK, Rests
  <2> QED
    BY <1>1, <2>1, DoomStays DEF RInv, Settled, Rests
<1>2. CASE pc[u] = "words"
  <2>1. PICK v \in Number : v = Now(u) /\ v = Now(u)'
    BY <1>2, RequestFields DEF RInv, IInv, TypeOK, Rests, Now
  <2>2. RowAt(u, v) # None
    BY <1>2, <2>1 DEF RInv, IInv, ThreadInv, Checked
  <2>3. RowAt(u, v)'.refs = RowAt(u, v).refs
    BY <2>2 DEF RowAt, Rests, Stays
  <2> QED
    BY <1>2, <2>1, <2>3 DEF RInv, Settled, Rests, Refs
<1> QED
  BY <1>1, <1>2 DEF Settled, Rests

LEMMA BeginBundleSettled ==
  ASSUME RInv, NEW t \in Thread, NEW q \in Request, BeginBundle(t, q)
  PROVE  Settled(t)'
<1>1. /\ q.kind = "bundle" /\ \A u \in q.units \intersect Linked : q.base <= word[u]
      /\ pc' = [pc EXCEPT ![t] = IF (\A u \in q.units : ~Differs(q, u)) /\ FreshUnits(q)
                                   THEN "compare" ELSE "refuse"]
      /\ req' = [req EXCEPT ![t] = q] /\ UNCHANGED <<catalog, version>>
  BY DEF BeginBundle, Begin, Goto
<1>2. req'[t] = q /\ pc'[t] \in {"compare", "refuse"}
  BY <1>1 DEF RInv, IInv, TypeOK, Domains
<1>3. CASE pc'[t] = "refuse"
  <2>1. (\E u \in q.units : Differs(q, u)) \/ ~FreshUnits(q)
    BY <1>1, <1>3 DEF RInv, IInv, Domains
  <2>2. (\E u \in q.units : Differs(q, u)) => Changed(q)
    BY DEF Differs, Changed
  <2>3. ASSUME ~FreshUnits(q)
        PROVE  Stale(q)
    <3>1. PICK u \in q.units \intersect Linked : q.base # word[u]
      BY <2>3 DEF FreshUnits, Fresh
    <3>2. q.base \in Nat /\ word[u] \in Nat /\ q.base <= word[u]
      BY <1>1, <3>1, RequestFields DEF RInv, IInv, TypeOK, Edition
    <3> QED
      BY <3>1, <3>2 DEF Stale
  <2>4. Doomed(q)
    BY <2>1, <2>2, <2>3 DEF Doomed
  <2>5. Doomed(q)'
    BY <1>1, <2>4 DEF Doomed, Changed, Stale, Surpassed, Early, Taken, Shown, Content
  <2> QED
    BY <1>2, <1>3, <2>5 DEF Settled
<1> QED
  BY <1>2, <1>3 DEF Settled

\* A version that is not accepted never will be.
LEMMA Unaccepted ==
  ASSUME IInv, NEW q \in Request, NEW missed, ~Accepts(q, missed)
  PROVE  Doomed(q)
<1>0. q.number \in Number /\ q.units \subseteq Unit /\ q.at \in Nat
  BY RequestFields
<1>1. ASSUME NEW a \in Active \ {q.number}, ~Replaces(q, a)
      PROVE  Doomed(q)
  <2>1. a \in Number /\ Shown(version[a]) /\ a \in Nat /\ q.number \in Nat
    BY <1>0, <1>1, PublicationAssumption DEF Active, Is, Shown
  <2>2. version[a].at \in Nat
    BY <2>1, VersionFields DEF IInv, TypeOK, Shown
  <2>3. CASE q.number < a
    BY <2>1, <2>3 DEF Surpassed, Doomed
  <2>4. CASE a < q.number
    <3>1. ~Shown(version[q.number])
      BY <1>0, <1>1, <2>1, <2>4 DEF IInv, Ordered
    <3>2. q.at < version[a].at
      BY <1>0, <1>1, <2>1, <2>2, <2>4 DEF Replaces
    <3> QED
      BY <2>1, <3>1, <3>2 DEF Early, Doomed
  <2> QED
    BY <1>1, <2>1, <2>3, <2>4
<1>2. CASE Is(version[q.number], "active") /\ version[q.number].refs = q.units
           /\ \E u \in q.units : unit[u] # Content(q)
  <2>1. \A u \in q.units : Is(unit[u], "published")
    BY <1>0, <1>2 DEF IInv, RefsPublished, Active
  <2> QED
    BY <1>2, <2>1 DEF Changed, Doomed, Is
<1>3. CASE Taken(q)
  BY <1>3 DEF Doomed
<1> QED
  BY <1>1, <1>2, <1>3 DEF Accepts, Taken, Is

LEMMA OwnSettled ==
  ASSUME RInv, IInv', NEW t \in Thread,
         \/ Quiet(t) \/ Adopt(t) \/ Commit(t) \/ InsertPilot(t)
         \/ \E q \in Request, complete \in SUBSET Linked : BeginPilot(t, q, complete)
  PROVE  Settled(t)'
<1>0. IInv /\ TypeOK /\ Domains /\ Settled(t)
  BY DEF RInv, IInv
<1>a. pc'[t] \notin {"refuse", "words"} => Settled(t)'
  BY DEF Settled
<1>1. ASSUME NEW q \in Request, BeginBundle(t, q)
      PROVE  Settled(t)'
  BY <1>1, BeginBundleSettled
<1>2. ASSUME NEW q \in Request, BeginCatalog(t, q)
      PROVE  Settled(t)'
  BY <1>0, <1>2 DEF Settled, BeginCatalog, Begin, Goto, Domains, TypeOK
<1>3. CASE Compare(t)
  <2>1. PICK q \in Request : q = req[t]
    BY <1>0, <1>3 DEF Compare, TypeOK
  <2>2. UNCHANGED <<catalog, version, req>>
    BY <1>3 DEF Compare, Step
  <2>3. CASE Accepts(q, todo[t])
    BY <1>0, <1>3, <1>a, <2>1, <2>3 DEF Compare, Step, Goto, Domains
  <2>4. CASE ~Accepts(q, todo[t])
    <3>1. pc'[t] = "refuse"
      BY <1>0, <1>3, <2>1, <2>4 DEF Compare, Step, Goto, Domains
    <3>2. Doomed(q)
      BY <1>0, <2>4, Unaccepted
    <3>3. Doomed(q)'
      BY <2>2, <3>2 DEF Doomed, Changed, Stale, Surpassed, Early, Taken, Shown, Content
    <3> QED
      BY <2>1, <2>2, <3>1, <3>3 DEF Settled
  <2> QED
    BY <2>3, <2>4
<1>4. ASSUME NEW outcome, Answer(t, outcome)
      PROVE  Settled(t)'
  BY <1>0, <1>4, <1>a DEF Answer, Goto, Domains
<1>5. CASE Conflict(t)
  BY <1>0, <1>4, <1>5, <1>a DEF Conflict, Refuse, Step, Goto, Domains
<1>6. ASSUME NEW x \in Unit, ResolveWord(t, x)
      PROVE  Settled(t)'
  <2>1. CASE Refuse(t)
    BY <1>4, <2>1 DEF Refuse
  <2>2. CASE ~Refuse(t)
    <3>1. /\ todo' = [todo EXCEPT ![t] = @ \ {x}] /\ pc[t] = "words"
          /\ UNCHANGED <<version, pc, req, rows>>
      BY <1>6, <2>2 DEF ResolveWord, LockWord
    <3>2. todo'[t] \subseteq todo[t] /\ Refs(t)' = Refs(t)
      BY <1>0, <3>1 DEF TypeOK, Refs, RowAt, Now
    <3> QED
      BY <1>0, <3>1, <3>2 DEF Settled
  <2> QED
    BY <2>1, <2>2
<1>7. CASE CheckDraft(t)
  <2>1. CASE Conflict(t) \/ Refuse(t)
    BY <1>4, <1>5, <2>1 DEF Refuse
  <2>2. CASE ~Conflict(t) /\ ~Refuse(t)
    <3>1. /\ pc' = [pc EXCEPT ![t] = IF req[t].kind = "bundle" THEN "words" ELSE "active"]
          /\ todo' = [todo EXCEPT ![t] = IF req[t].kind = "bundle" THEN Refs(t) \intersect Linked
                                                                  ELSE {}]
          /\ UNCHANGED <<version, req, rows>>
      BY <1>7, <2>2 DEF CheckDraft, Step, Goto, Refs, Now
    <3>2. pc'[t] \in {"words", "active"} /\ todo'[t] \subseteq Refs(t) /\ Refs(t)' = Refs(t)
      BY <1>0, <3>1 DEF TypeOK, Domains, Refs, RowAt, Now
    <3> QED
      BY <3>2 DEF Settled
  <2> QED
    BY <2>1, <2>2
<1>8. ASSUME NEW x \in Unit, Get(t, x) \/ InsertUnit(t, x) \/ LockLegacyWord(t, x)
                             \/ PublishUnit(t, x)
      PROVE  Settled(t)'
  BY <1>4, <1>5, <1>8, <1>a
     DEF Get, InsertUnit, LockLegacyWord, LockWord, PublishUnit, Refuse
<1>9. CASE PreflightRefuses(t) \/ Look(t) \/ Adopt(t) \/ InsertVersion(t)
           \/ RecoverPreflight(t) \/ RecoverWinner(t)
  BY <1>0, <1>4, <1>5, <1>9, <1>a
     DEF PreflightRefuses, Look, Adopt, InsertVersion, UnitsDone, RecoverPreflight, RecoverWinner,
         Refuse, Step, Goto, Domains
<1>10. CASE AnswerRepeat(t) \/ LegacyDone(t) \/ FindPilot(t) \/ InsertPilot(t) \/ PilotReady(t)
            \/ Reread(t) \/ Crash(t)
  BY <1>0, <1>4, <1>10, <1>a
     DEF AnswerRepeat, LegacyDone, FindPilot, InsertPilot, PilotReady, Reread, Crash, Refuse, Step,
         Goto, Domains
<1>11. CASE ReadActive(t) \/ Retire(t) \/ Activate(t) \/ Commit(t)
  BY <1>0, <1>4, <1>5, <1>11, <1>a
     DEF ReadActive, Retire, Activate, Commit, Refuse, Step, Goto, Domains
<1>12. ASSUME NEW q \in Request, NEW complete \in SUBSET Linked, BeginPilot(t, q, complete)
       PROVE  Settled(t)'
  BY <1>0, <1>12, <1>a DEF BeginPilot, Goto, Domains
<1> QED
  BY <1>1, <1>2, <1>3, <1>6, <1>7, <1>8, <1>9, <1>10, <1>11, <1>12
     DEF Quiet, Bundle, Catalog, Pilot, Publish

\* Only an insert and a publication write the row of a unit.
LEMMA UnitsWritten ==
  ASSUME RInv, NEW t \in Thread,
         \/ Quiet(t) \/ Adopt(t) \/ Commit(t) \/ InsertPilot(t)
         \/ \E q \in Request, complete \in SUBSET Linked : BeginPilot(t, q, complete),
         NEW x \in Unit, units'[t][x] # None
  PROVE  \/ units'[t][x] = units[t][x]
         \/ unit[x] = None /\ UNCHANGED unit
         \/ Is(unit[x], "draft") /\ units'[t][x].text = None /\ UNCHANGED unit
<1>0. IInv /\ TypeOK
  BY DEF RInv, IInv
<1>1. units'[t] # NoUnits
  BY DEF NoUnits
<1>2. CASE units' = units
  BY <1>2
<1>3. ASSUME NEW u \in Unit, InsertUnit(t, u), units' # units
      PROVE  \/ units'[t][x] = units[t][x]
             \/ unit[x] = None /\ UNCHANGED unit
  <2>1. ~Conflict(t)
    BY <1>0, <1>1, <1>3 DEF Conflict, Refuse, Answer, Release, TypeOK
  <2> QED
    BY <1>0, <1>3, <2>1 DEF InsertUnit, TypeOK
<1>4. ASSUME NEW u \in Unit, PublishUnit(t, u), units' # units
      PROVE  \/ units'[t][x] = units[t][x]
             \/ Is(unit[x], "draft") /\ units'[t][x].text = None /\ UNCHANGED unit
  <2>1. ~Refuse(t)
    BY <1>0, <1>1, <1>4 DEF Refuse, Answer, Release, TypeOK
  <2>2. PICK r \in UnitRow : r = unit[u] /\ r.status = "draft" /\ r.text = None
    BY <1>0, <1>4, <2>1 DEF PublishUnit, TypeOK, RInv, Texts, Is
  <2>3. /\ units' = [units EXCEPT ![t][u] = [r EXCEPT !.status = "published",
                                                     !.shown = r.children]]
        /\ UNCHANGED unit
    BY <1>4, <2>1, <2>2 DEF PublishUnit
  <2>4. [r EXCEPT !.status = "published", !.shown = r.children].text = None
    BY <2>2 DEF UnitRow
  <2>5. x # u => units'[t][x] = units[t][x]
    BY <1>0, <2>3 DEF TypeOK
  <2>6. x = u => units'[t][x] = [r EXCEPT !.status = "published", !.shown = r.children]
    BY <1>0, <2>3 DEF TypeOK
  <2> QED
    BY <2>2, <2>3, <2>4, <2>5, <2>6, UnitFields DEF Is
<1>5. ASSUME units' # units, \A u \in Unit : ~InsertUnit(t, u) /\ ~PublishUnit(t, u)
      PROVE  units'[t] = NoUnits
  <2> USE DEF Answer, Refuse, Conflict, Release, Step, Begin
  <2>1. ASSUME NEW u \in Unit, LockWord(t, u)
        PROVE  units'[t] = NoUnits
    BY <1>0, <1>5, <2>1 DEF LockWord, TypeOK
  <2>2. CASE Catalog(t) \/ Pilot(t)
    BY <1>0, <1>5, <2>1, <2>2
       DEF Catalog, Pilot, AnswerRepeat, LegacyDone, LockLegacyWord, FindPilot, InsertPilot, PilotReady,
           Reread, TypeOK
  <2>3. CASE Bundle(t)
    BY <1>0, <1>5, <2>1, <2>3
       DEF Bundle, Compare, PreflightRefuses, Look, Adopt, Get, ResolveWord, InsertVersion,
           RecoverPreflight, RecoverWinner, TypeOK
  <2>4. CASE Publish(t) \/ Crash(t)
    BY <1>0, <1>5, <2>4
       DEF Publish, CheckDraft, ReadActive, Retire, Activate, Commit, Crash, TypeOK
  <2>5. ASSUME NEW q \in Request, NEW complete \in SUBSET Linked,
               BeginBundle(t, q) \/ BeginCatalog(t, q) \/ BeginPilot(t, q, complete)
        PROVE  FALSE
    BY <1>5, <2>5 DEF BeginBundle, BeginCatalog, BeginPilot
  <2> QED
    BY <2>2, <2>3, <2>4, <2>5 DEF Quiet, Bundle, Pilot, Publish
<1> QED
  BY <1>1, <1>2, <1>3, <1>4, <1>5

LEMMA ThreadTexts ==
  ASSUME RInv, IInv', Stays, NEW t \in Thread,
         \/ Quiet(t) \/ Adopt(t) \/ Commit(t) \/ InsertPilot(t)
         \/ \E q \in Request, complete \in SUBSET Linked : BeginPilot(t, q, complete)
  PROVE  Texts'
<1>0. IInv /\ TypeOK /\ Texts
  BY DEF RInv, IInv
\* A unit that appears.
<1>1. ASSUME NEW x \in Unit, unit[x] = None, unit'[x] # None
      PROVE  /\ Is(unit'[x], "draft") => unit'[x].text = None
             /\ \A u \in Thread : units'[u][x] = None
  <2>1. CASE Commit(t)
    <3>1. unit'[x] = Stored(t, x) /\ units[t][x] # None
      BY <1>0, <1>1, <2>1, StoredUnits
    <3>2. unit'[x] = units[t][x]
      BY <1>0, <1>1, <3>1, StoredUnit
    <3>3. ~Is(unit'[x], "draft")
      BY <1>0, <3>1, <3>2 DEF IInv, UnitsFit, Is
    <3>4. \A u \in Thread \ {t} : units'[u][x] = None
      BY <1>0, <2>1, <3>1, OthersRest DEF IInv, Locks, Rests
    <3>5. units'[t][x] = None
      BY <1>0, <2>1 DEF Commit, Answer, Release, NoUnits, TypeOK
    <3> QED
      BY <3>3, <3>4, <3>5
  <2>2. ASSUME NEW q \in Request, NEW complete \in SUBSET Linked, BeginPilot(t, q, complete)
        PROVE  /\ Is(unit'[x], "draft") => unit'[x].text = None
               /\ \A u \in Thread : units'[u][x] = None
    <3>1. x \in Linked /\ \E status : unit'[x] = Imported(x, status)
      BY <1>1, <2>2 DEF BeginPilot
    <3>2. \A u \in Thread \ {t} : units[u][x] = None
      BY <1>1, <2>2, <3>1 DEF BeginPilot, UnitFree
    <3>3. units[t][x] = None
      BY <1>0, <2>2 DEF BeginPilot, IInv, ThreadInv, NoUnits
    <3> QED
      BY <2>2, <3>1, <3>2, <3>3 DEF BeginPilot, Imported
  <2>3. CASE Quiet(t) \/ Adopt(t) \/ InsertPilot(t)
    BY <1>1, <2>3, QuietCommitted DEF Adopt, Refuse, InsertPilot
  <2> QED
    BY <2>1, <2>2, <2>3
<1>2. ASSUME NEW x \in Unit
      PROVE  Is(unit'[x], "draft") => unit'[x].text = None
  <2>1. CASE unit[x] # None
    <3>1. unit[x].status \in {"draft", "published"}
      BY <1>0, <2>1, UnitFields DEF TypeOK
    <3>2. CASE Is(unit[x], "published")
      BY <2>1, <3>2 DEF Stays, Is
    <3>3. CASE Is(unit[x], "draft")
      BY <1>0, <2>1, <3>3 DEF Stays, Texts
    <3> QED
      BY <2>1, <3>1, <3>2, <3>3 DEF Is
  <2> QED
    BY <1>1, <2>1 DEF Is
<1>3. ASSUME NEW x \in Unit, NEW u \in Thread, units'[u][x] # None, unit'[x] # None
      PROVE  units'[u][x].text = None
  <2>1. unit[x] # None
    BY <1>1, <1>3
  <2>2. CASE units'[u][x] = units[u][x]
    BY <1>0, <1>3, <2>1, <2>2 DEF Texts
  <2>3. CASE u = t
    BY <1>3, <2>1, <2>2, <2>3, UnitsWritten
  <2> QED
    BY <1>0, <2>2, <2>3, OthersRest DEF Rests
<1> QED
  BY <1>2, <1>3 DEF Texts

LEMMA EditTexts ==
  ASSUME RInv, IInv', Stays, UNCHANGED units,
         UNCHANGED unit \/ \E u \in Unit : AddChild(u)
  PROVE  Texts'
<1>0. IInv /\ TypeOK /\ Texts
  BY DEF RInv, IInv
<1>1. \A x \in Unit : unit'[x] # None => unit[x] # None
  BY <1>0 DEF AddChild, AddTo, TypeOK
<1>2. \A x \in Unit : unit[x] # None => unit[x].status \in {"draft", "published"}
  BY <1>0, UnitFields DEF TypeOK
<1> QED
  BY <1>0, <1>1, <1>2 DEF Stays, Texts, Is

LEMMA RepeatInit == Init => RInv
<1> SUFFICES ASSUME Init PROVE RInv
  OBVIOUS
<1>1. IInv
  BY InitInv
<1>2. \A t \in Thread : Settled(t)
  BY DEF Init, Settled
<1>3. \A x \in Unit, t \in Thread : units[t][x] = None
  BY DEF Init, NoUnits
<1>4. \A x \in Unit : Is(unit[x], "draft") => unit[x].text = None
  <2> SUFFICES ASSUME NEW x \in Unit, Is(unit[x], "draft") PROVE unit[x].text = None
    OBVIOUS
  <2>1. \A q \in Request : Content(q).status = "published"
    BY DEF Content
  <2>2. DraftUnit.text = None
    BY DEF DraftUnit
  <2> QED
    BY <2>1, <2>2 DEF Init, NoUnits, Is
<1> QED
  BY <1>1, <1>2, <1>3, <1>4 DEF RInv, Texts

LEMMA RepeatNext == RInv /\ [Next]_vars /\ RepeatsAgree => RInv'
<1> SUFFICES ASSUME RInv, [Next]_vars, RepeatsAgree PROVE RInv'
  OBVIOUS
<1>1. IInv' /\ Stays
  BY NextInv, NextStays DEF RInv
<1>2. ASSUME NEW t \in Thread,
             \/ Quiet(t) \/ Adopt(t) \/ Commit(t) \/ InsertPilot(t)
             \/ \E q \in Request, complete \in SUBSET Linked : BeginPilot(t, q, complete)
      PROVE  RInv'
  <2>1. \A u \in Thread \ {t} : Settled(u)'
    BY <1>1, <1>2, OthersRest, RestSettled DEF RInv
  <2> QED
    BY <1>1, <1>2, <2>1, OwnSettled, ThreadTexts DEF RInv
<1>3. CASE UNCHANGED vars \/ (\E u \in Linked : EditWord(u)) \/ \E u \in Unit : AddChild(u)
  <2>1. \A u \in Thread : Rests(u)
    BY <1>3 DEF vars, EditWord, AddChild, AddTo, Rests
  <2>2. UNCHANGED units /\ (UNCHANGED unit \/ \E u \in Unit : AddChild(u))
    BY <1>3 DEF vars, EditWord, AddChild, AddTo
  <2> QED
    BY <1>1, <2>1, <2>2, EditTexts, RestSettled DEF RInv
<1> QED
  BY <1>2, <1>3 DEF Next, Quiet, Bundle, Pilot, Publish

\* Whatever a bundle is refused for holds at the moment of the refusal, and it is not
\* described by the active version then.
LEMMA RefusalHasAReason ==
  ASSUME RInv, [Next]_vars, NEW t \in Thread, req[t] # None, req[t].kind = "bundle",
         reply'[t] # reply[t], reply'[t].outcome = "refused"
  PROVE  ~Describes(req[t])
<1> SUFFICES ASSUME Describes(req[t]) PROVE FALSE
  OBVIOUS
<1>0. IInv /\ TypeOK /\ Domains /\ ThreadInv(t) /\ pc[t] # "idle" /\ Settled(t)
  BY DEF RInv, IInv, TypeOK
<1>1. PICK q \in Request, v \in Number : q = req[t] /\ v = q.number /\ v = Now(t)
  BY <1>0, RequestFields DEF TypeOK, Now
<1>2. /\ Is(version[v], "active") /\ version[v].refs = q.units /\ version[v].print \in {None, q.print}
      /\ \A u \in q.units : unit[u] = Content(q)
      /\ FreshUnits(q) /\ q.kind = "bundle"
  BY <1>1 DEF Describes
<1>3. v \in Active /\ \A a \in Active : a = v
  <2>1. v \in Active
    BY <1>2 DEF Active
  <2>2. \A a \in Active : Shown(version[a]) /\ a \in Number /\ a \in Nat
    BY PublicationAssumption DEF Active, Is, Shown
  <2> QED
    BY <1>0, <2>1, <2>2 DEF IInv, Ordered
<1>4. ~Doomed(q)
  BY <1>0, <1>1, DescribedIsNotDoomed
<1>5. \A missed : Accepts(q, missed)
  BY <1>0, <1>4, Unaccepted
<1>6. RowAt(t, v) = version[v] /\ ~Is(RowAt(t, v), "draft")
  BY <1>0, <1>1, <1>2 DEF IInv, RowsFit, FitsOwn, Is, RowAt
<1>7. \A outcome : Answer(t, outcome) => outcome = "refused"
  BY <1>0 DEF Answer, Domains
<1>8. ~Conflict(t)
  BY <1>1, <1>2 DEF Conflict, Step
<1>9. ~UNCHANGED reply
  OBVIOUS
<1>10. CASE Compare(t) \/ PreflightRefuses(t) \/ Look(t) \/ Adopt(t) \/ InsertVersion(t)
            \/ RecoverPreflight(t) \/ RecoverWinner(t)
  <2>1. CASE Compare(t) \/ Look(t) \/ InsertVersion(t)
    BY <1>1, <1>5, <1>8, <1>9, <2>1 DEF Compare, Look, InsertVersion, Step
  <2>2. CASE PreflightRefuses(t)
    BY <1>0, <1>1, <1>2, <1>4, <2>2 DEF PreflightRefuses, Settled
  <2>3. CASE Adopt(t)
    BY <1>1, <1>2, <1>7, <2>3 DEF Adopt
  <2>4. CASE RecoverPreflight(t)
    BY <1>1, <1>2, <1>5, <1>9, <2>4 DEF RecoverPreflight, Differs, Step
  <2>5. CASE RecoverWinner(t)
    BY <1>1, <1>2, <1>7, <2>5 DEF RecoverWinner
  <2> QED
    BY <1>10, <2>1, <2>2, <2>3, <2>4, <2>5
<1>11. ASSUME NEW u \in Unit, Get(t, u) \/ InsertUnit(t, u)
       PROVE  FALSE
  BY <1>8, <1>9, <1>11 DEF Get, InsertUnit
<1>12. ASSUME NEW u \in Unit, ResolveWord(t, u)
       PROVE  FALSE
  <2>1. u \in Refs(t) /\ u \in Linked /\ pc[t] = "words"
    BY <1>0, <1>12 DEF ResolveWord, LockWord, Settled
  <2>2. u \in q.units /\ unit[u] = Content(q) /\ word[u] = q.base
    BY <1>1, <1>2, <1>6, <2>1 DEF Refs, FreshUnits, Fresh
  <2>3. unit[u] # None /\ unit[u].status = "published" /\ unit[u].base = q.base
    BY <1>1, <2>2, NewUnits, UnitFields DEF Content
  <2>4. UnitAt(t, u) = unit[u]
    BY <1>0, <1>12, <2>3 DEF IInv, UnitsFit, UnitAt
  <2> QED
    BY <1>9, <1>12, <2>2, <2>3, <2>4 DEF ResolveWord, LockWord
<1>13. CASE Catalog(t)
  BY <1>0, <1>2, <1>1, <1>7, <1>9, <1>13
     DEF Catalog, ThreadInv, AnswerRepeat, LegacyDone, LockLegacyWord, PublishUnit, Step
<1>14. CASE Pilot(t)
  BY <1>0, <1>2, <1>1, <1>14 DEF Pilot, ThreadInv, FindPilot, InsertPilot, PilotReady, Reread
<1>15. CASE CheckDraft(t)
  BY <1>1, <1>6, <1>8, <1>15 DEF CheckDraft, Now
<1>16. CASE ReadActive(t)
  BY <1>1, <1>3, <1>9, <1>16 DEF ReadActive, Step
<1>17. CASE Retire(t) \/ Activate(t) \/ Commit(t) \/ Crash(t)
  BY <1>7, <1>8, <1>9, <1>17 DEF Retire, Activate, Commit, Crash, Step
<1>18. ASSUME NEW u \in Thread, NEW r \in Request, NEW complete \in SUBSET Linked,
              BeginBundle(u, r) \/ BeginCatalog(u, r) \/ BeginPilot(u, r, complete)
       PROVE  FALSE
  <2>1. u # t
    BY <1>0, <1>18 DEF BeginBundle, BeginCatalog, BeginPilot, Begin
  <2> QED
    BY <1>0, <1>18, <2>1 DEF BeginBundle, BeginCatalog, BeginPilot, Begin, Domains
<1>19. ASSUME NEW u \in Thread \ {t}, Bundle(u) \/ Catalog(u) \/ Pilot(u) \/ Publish(u) \/ Crash(u)
       PROVE  FALSE
  <2>1. \A outcome : Answer(u, outcome) => reply'[t] = reply[t]
    BY <1>0, <1>19 DEF Answer, Domains
  <2>2. Refuse(u) \/ Conflict(u) \/ UNCHANGED reply => reply'[t] = reply[t]
    BY <2>1 DEF Refuse, Conflict, Step
  <2>3. CASE Catalog(u) \/ Pilot(u)
    BY <2>1, <2>2, <2>3
       DEF Catalog, Pilot, AnswerRepeat, LegacyDone, LockLegacyWord, LockWord, PublishUnit, FindPilot,
           InsertPilot, PilotReady, Reread, Step
  <2>4. CASE Bundle(u)
    BY <2>1, <2>2, <2>4
       DEF Bundle, Compare, PreflightRefuses, Look, Adopt, Get, InsertUnit, ResolveWord, LockWord,
           InsertVersion, RecoverPreflight, RecoverWinner, Step
  <2>5. CASE Publish(u) \/ Crash(u)
    BY <2>1, <2>2, <2>5 DEF Publish, CheckDraft, ReadActive, Retire, Activate, Commit, Crash, Step
  <2> QED
    BY <1>19, <2>3, <2>4, <2>5
<1>20. CASE UNCHANGED vars \/ (\E u \in Linked : EditWord(u)) \/ \E u \in Unit : AddChild(u)
  BY <1>9, <1>20 DEF vars, EditWord, AddChild, AddTo
<1> QED
  BY <1>10, <1>11, <1>12, <1>13, <1>14, <1>15, <1>16, <1>17, <1>18, <1>19, <1>20
     DEF Next, Bundle, Publish

\* product-state.md: exact concurrent repeats return the same active revision.  However
\* requests overlap, a bundle is not refused while the active version is the one it
\* describes, if the requests that would be taken for one another agree on the date.
THEOREM ExactRepeats == ASSUME RepeatsAgree PROVE Spec => ExactRepeatAccepted
<1> DEFINE Accepted == \A t \in Thread :
             req[t] # None /\ req[t].kind = "bundle" /\ Describes(req[t]) =>
               ~(reply'[t] # reply[t] /\ reply'[t].outcome = "refused")
<1>1. RInv /\ [Next]_vars => Accepted
  BY RefusalHasAReason
<1>2. RInv /\ [Next]_vars => RInv'
  BY RepeatNext
<1> HIDE DEF Accepted
<1>3. Spec => [][Accepted]_vars
  BY <1>1, <1>2, RepeatInit, PTL DEF Spec
<1> QED
  BY <1>3 DEF Accepted, ExactRepeatAccepted
=============================================================================
