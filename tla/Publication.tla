----------------------------- MODULE Publication -----------------------------
(***************************************************************************)
(* Publication of the versions of one curriculum together with the catalog *)
(* units they refer to (backend/app/services/): reviewed bundles           *)
(* (reviewed_pilot_publication_service.py), requests that publish a draft  *)
(* catalog (content_publication_service.py), and the technical pilot of    *)
(* the bootstrap (curriculum_service.py, domain_bootstrap_service.py).     *)
(*                                                                         *)
(* A request is one transaction at READ COMMITTED: a read sees what is     *)
(* committed and what the transaction wrote, and nothing it read stays     *)
(* true unless the row is locked.  Every step between two such points is   *)
(* an action.  What a transaction wrote is in `units` and `rows` until it  *)
(* commits, and a row written there is locked.  Where the code goes        *)
(* through the units or words of a request in some order, the model does   *)
(* in any order.                                                           *)
(***************************************************************************)
EXTENDS Naturals, FiniteSets

CONSTANTS Thread, None,
          Unit,          \* units of the catalog: a lexical unit with its children,
                         \* or a construction
          Linked,        \* the units made from a word of the vocabulary
          Number,        \* version numbers
          Date,          \* the dates of publications
          Request,       \* what is asked for, see IsRequest
          MaxEdition,    \* bound: editions of a word
          MaxRequests    \* bound: requests

Edition == 0..MaxEdition

\* `print` is the fingerprint of a request and `text` the content of its units;
\* `base` is the edition of the words the units were made from.  A bundle brings
\* all the units its version refers to.
IsRequest(q) ==
  /\ q.kind \in {"bundle", "catalog", "pilot"}
  /\ q.number \in Number /\ q.units \subseteq Unit /\ q.at \in Date
  /\ q.base \in Edition /\ q.print # None /\ q.text # None

ASSUME PublicationAssumption ==
  /\ Number \subseteq Nat /\ Date \subseteq Nat /\ Linked \subseteq Unit
  /\ MaxEdition \in Nat /\ MaxRequests \in Nat
  /\ None \notin Nat /\ None \notin Request
  /\ \A q \in Request : IsRequest(q)

VARIABLES
  word,      \* edition of the word of each linked unit
  unit,      \* committed rows of the catalog, None when absent
  version,   \* committed rows of curriculum_versions, None when absent
  pc, req,
  todo,      \* units the request has still to go through
  absent,    \* the unit it did not find and is going to insert
  creates,   \* it found no row of the version
  seen,      \* the number of the active version it has read
  words,     \* words it has locked
  units,     \* rows of units it has written
  rows,      \* rows of versions it has written
  reply,     \* how the last request of each thread ended
  begun

catalog == <<word, unit>>
local == <<todo, absent, creates, seen>>
work == <<words, units, rows>>
vars == <<catalog, version, pc, req, local, work, reply, begun>>

UnitRow == [status : {"draft", "published"}, children : Nat, shown : Nat,
            base : Edition, text : {q.text : q \in Request} \union {None}]
Columns == [status : {"draft", "active", "retired"}, refs : SUBSET Unit,
            at : Date \union {None}, until : Date \union {None},
            print : {q.print : q \in Request} \union {None}]
\* ck_curriculum_versions_lifecycle
VersionRow == {row \in Columns : /\ row.at = None <=> row.status = "draft"
                                 /\ row.until = None <=> row.status # "retired"}

ASSUME RowAssumption == None \notin Unit \union UnitRow \union VersionRow

TypeOK ==
  /\ word \in [Linked -> Edition]
  /\ unit \in [Unit -> UnitRow \union {None}]
  /\ version \in [Number -> VersionRow \union {None}]
  /\ req \in [Thread -> Request \union {None}]
  /\ \A t \in Thread : pc[t] = "idle" <=> req[t] = None
  /\ todo \in [Thread -> SUBSET Unit]
  /\ absent \in [Thread -> Unit \union {None}]
  /\ creates \in [Thread -> BOOLEAN]
  /\ seen \in [Thread -> Number \union {None}]
  /\ words \in [Thread -> SUBSET Linked]
  /\ units \in [Thread -> [Unit -> UnitRow \union {None}]]
  /\ rows \in [Thread -> [Number -> VersionRow \union {None}]]
  /\ begun \in 0..MaxRequests

NoUnits == [u \in Unit |-> None]
NoRows == [v \in Number |-> None]

DraftRow(refs) == [status |-> "draft", refs |-> refs, at |-> None, until |-> None,
                   print |-> None]
\* A version that was active before fingerprints were stored has none.
OldRow(refs, at) == [DraftRow(refs) EXCEPT !.status = "active", !.at = at]
DraftUnit == [status |-> "draft", children |-> 1, shown |-> 0, base |-> 0, text |-> None]

\* The units and versions there are: of a bundle that was published before
\* fingerprints were, drafts of an editor, or nothing.
Content(q) == [status |-> "published", children |-> 1, shown |-> 1, base |-> q.base,
               text |-> q.text]

Init ==
  /\ word = [u \in Linked |-> 0]
  /\ \/ unit = NoUnits /\ version = NoRows
     \/ \E q \in Request, at \in Date :
          /\ q.kind = "bundle"
          /\ unit = [u \in Unit |-> IF u \in q.units THEN Content(q) ELSE None]
          /\ version = [NoRows EXCEPT ![q.number] = OldRow(q.units, at)]
     \/ \E q \in Request :
          /\ q.kind = "catalog"
          /\ unit = [u \in Unit |-> IF u \in q.units THEN DraftUnit ELSE None]
          /\ version = [NoRows EXCEPT ![q.number] = DraftRow(q.units)]
  /\ pc = [t \in Thread |-> "idle"]
  /\ req = [t \in Thread |-> None]
  /\ todo = [t \in Thread |-> {}]
  /\ absent = [t \in Thread |-> None]
  /\ creates = [t \in Thread |-> FALSE]
  /\ seen = [t \in Thread |-> None]
  /\ words = [t \in Thread |-> {}]
  /\ units = [t \in Thread |-> NoUnits]
  /\ rows = [t \in Thread |-> NoRows]
  /\ reply = [t \in Thread |-> None]
  /\ begun = 0

-----------------------------------------------------------------------------
(* What a transaction sees, and what it has to wait for.                   *)

UnitAt(t, u) == IF units[t][u] # None THEN units[t][u] ELSE unit[u]
RowAt(t, v) == IF rows[t][v] # None THEN rows[t][v] ELSE version[v]

UnitFree(t, u) == \A other \in Thread \ {t} : units[other][u] = None
RowFree(t, v) == \A other \in Thread \ {t} : rows[other][v] = None
WordFree(t, u) == \A other \in Thread \ {t} : u \notin words[other]

Is(row, status) == row # None /\ row.status = status
Active == {v \in Number : Is(version[v], "active")}

\* The partial unique index on the active version waits for a transaction that
\* has added or taken away an entry.
IndexFree(t) == \A other \in Thread \ {t}, v \in Number :
                  rows[other][v] # None => Is(rows[other][v], "draft")

Fresh(u, base) == u \in Linked => base = word[u]
FreshUnits(q) == \A u \in q.units : Fresh(u, q.base)

\* _replacement_retired_at
Replaces(q, active) == q.number > active /\ q.at >= version[active].at

-----------------------------------------------------------------------------
(* Steps of every request.                                                 *)

Goto(t, where) == pc' = [pc EXCEPT ![t] = where]

Begin(t, q, where) ==
  /\ pc[t] = "idle" /\ begun < MaxRequests
  /\ begun' = begun + 1
  /\ req' = [req EXCEPT ![t] = q]
  /\ Goto(t, where)
  /\ reply' = [reply EXCEPT ![t] = None]
  /\ UNCHANGED <<catalog, version, work>>

Step(t, where) == Goto(t, where) /\ UNCHANGED <<req, reply, begun>>
Forget(t) == /\ todo' = [todo EXCEPT ![t] = {}]
             /\ absent' = [absent EXCEPT ![t] = None]
             /\ creates' = [creates EXCEPT ![t] = FALSE]
             /\ seen' = [seen EXCEPT ![t] = None]
Release(t) == /\ words' = [words EXCEPT ![t] = {}]
              /\ units' = [units EXCEPT ![t] = NoUnits]
              /\ rows' = [rows EXCEPT ![t] = NoRows]

Answer(t, outcome) ==
  /\ reply' = [reply EXCEPT ![t] = [request |-> req[t], outcome |-> outcome]]
  /\ req' = [req EXCEPT ![t] = None]
  /\ Goto(t, "idle") /\ Forget(t) /\ Release(t)
  /\ UNCHANGED begun

Refuse(t) == Answer(t, "refused") /\ UNCHANGED <<catalog, version>>

\* A rollback, and what the service does after CurriculumActivationConflict or an
\* IntegrityError.
Conflict(t) ==
  \/ /\ req[t].kind \in {"bundle", "pilot"}
     /\ Step(t, IF req[t].kind = "bundle" THEN "recover" ELSE "reread")
     /\ Forget(t) /\ Release(t)
     /\ UNCHANGED <<catalog, version>>
  \/ req[t].kind = "catalog" /\ Refuse(t)

Crash(t) == /\ pc[t] # "idle"
            /\ Answer(t, "failed")
            /\ UNCHANGED <<catalog, version>>

-----------------------------------------------------------------------------
(* A reviewed bundle: preflight.                                           *)

Differs(q, u) == unit[u] \notin {None, Content(q)}
Missing(q) == {u \in q.units : unit[u] = None}

\* The units, against the catalog and the words they were made from, as these are or
\* were.
BeginBundle(t, q) ==
  /\ q.kind = "bundle" /\ \A u \in q.units \intersect Linked : q.base <= word[u]
  /\ LET accepted == (\A u \in q.units : ~Differs(q, u)) /\ FreshUnits(q)
     IN Begin(t, q, IF accepted THEN "compare" ELSE "refuse")
  /\ todo' = [todo EXCEPT ![t] = Missing(q)]
  /\ UNCHANGED <<absent, creates, seen>>

\* The row of this version, when preflight had missed some of the units; without
\* looking for them again.
AcceptsUnchecked(q, missed) ==
  LET row == version[q.number]
  IN /\ \A a \in Active \ {q.number} : Replaces(q, a)
     /\ row # None => /\ row.refs = q.units
                      /\ row.status # "retired"
     /\ Is(row, "active") => row.print \in {None, q.print} /\ missed = {}

\* The same, but the units that were missing are looked for again: the version
\* may have been published, with them, since.
Accepts(q, missed) ==
  LET row == version[q.number]
  IN /\ \A a \in Active \ {q.number} : Replaces(q, a)
     /\ row # None => /\ row.refs = q.units
                      /\ row.status # "retired"
     /\ Is(row, "active") =>
          /\ row.print \in {None, q.print}
          /\ missed # {} => \A u \in q.units : unit[u] = Content(q)

Compare(t) ==
  /\ pc[t] = "compare"
  /\ IF Accepts(req[t], todo[t]) THEN Step(t, "look") ELSE Step(t, "refuse")
  /\ UNCHANGED <<catalog, version, local, work>>

PreflightRefuses(t) == pc[t] = "refuse" /\ Refuse(t)

-----------------------------------------------------------------------------
(* A reviewed bundle: publish.                                             *)

\* The row is read again; a version that is active by now is taken over.
Look(t) ==
  /\ pc[t] = "look"
  /\ Step(t, IF Is(version[req[t].number], "active") THEN "adopt" ELSE "get")
  /\ todo' = [todo EXCEPT ![t] = req[t].units]
  /\ creates' = [creates EXCEPT ![t] = version[req[t].number] = None]
  /\ UNCHANGED <<catalog, version, absent, seen, work>>

\* Mistaken: the fingerprint is not read again under the row's lock.
AdoptAsRead(t) ==
  LET v == req[t].number
  IN /\ pc[t] = "adopt" /\ RowFree(t, v)
     /\ version' = [version EXCEPT ![v].print = req[t].print]
     /\ Answer(t, "accepted")
     /\ UNCHANGED catalog

\* SELECT ... FOR UPDATE of a row without fingerprint, or with the same one.
Adopt(t) ==
  LET v == req[t].number
  IN /\ pc[t] = "adopt" /\ RowFree(t, v)
     /\ IF version[v].print \in {None, req[t].print}
          THEN /\ version' = [version EXCEPT ![v].print = req[t].print]
               /\ Answer(t, "accepted")
               /\ UNCHANGED catalog
          ELSE Refuse(t)

Get(t, u) ==
  /\ pc[t] = "get" /\ absent[t] = None /\ u \in todo[t]
  /\ todo' = [todo EXCEPT ![t] = @ \ {u}]
  /\ absent' = [absent EXCEPT ![t] = IF unit[u] = None THEN u ELSE None]
  /\ UNCHANGED <<catalog, version, pc, req, creates, seen, work, reply, begun>>

\* The insert waits for another one of the same key.
InsertUnit(t, u) ==
  /\ pc[t] = "get" /\ absent[t] = u
  /\ UnitFree(t, u)
  /\ IF unit[u] # None THEN Conflict(t)
     ELSE /\ units' = [units EXCEPT ![t][u] = Content(req[t])]
          /\ absent' = [absent EXCEPT ![t] = None]
          /\ UNCHANGED <<catalog, version, pc, req, todo, creates, seen, words, rows,
                         reply, begun>>

UnitsDone(t) == pc[t] = "get" /\ todo[t] = {} /\ absent[t] = None

InsertVersion(t) ==
  LET v == req[t].number
  IN /\ UnitsDone(t) /\ creates[t] /\ rows[t][v] = None
     /\ RowFree(t, v)
     /\ IF version[v] # None THEN Conflict(t)
        ELSE /\ rows' = [rows EXCEPT ![t][v] = DraftRow(req[t].units)]
             /\ UNCHANGED <<catalog, version, pc, req, local, words, units, reply, begun>>

-----------------------------------------------------------------------------
(* A request to publish a draft catalog.                                   *)

\* _request_fingerprint, and the owners of the targets, of an active version.
Repeats(q) == LET row == version[q.number]
              IN /\ Is(row, "active")
                 /\ row.print = q.print /\ row.refs = q.units
                 /\ FreshUnits(q)

Publishable(q) ==
  /\ Is(version[q.number], "draft")
  /\ q.units \subseteq version[q.number].refs
  /\ \A u \in version[q.number].refs :
       /\ unit[u] # None
       /\ Is(unit[u], IF u \in q.units THEN "draft" ELSE "published")
       /\ u \in Linked => unit[u].base = q.base /\ word[u] = q.base
  /\ \A a \in Active : Replaces(q, a)

BeginCatalog(t, q) ==
  /\ q.kind = "catalog"
  /\ Begin(t, q, IF Repeats(q) THEN "repeat" ELSE IF Publishable(q) THEN "legacy" ELSE "refuse")
  /\ todo' = [todo EXCEPT ![t] = IF Publishable(q) THEN version[q.number].refs \intersect Linked
                                ELSE {}]
  /\ UNCHANGED <<absent, creates, seen>>

AnswerRepeat(t) == /\ pc[t] = "repeat"
                   /\ Answer(t, "accepted")
                   /\ UNCHANGED <<catalog, version>>

\* Mistaken: the word is locked, and not compared with what preflight has read.
LockWordUnread(t, u) ==
  /\ u \in todo[t] \intersect Linked /\ WordFree(t, u)
  /\ words' = [words EXCEPT ![t] = @ \union {u}]
  /\ todo' = [todo EXCEPT ![t] = @ \ {u}]
  /\ UNCHANGED <<catalog, version, pc, req, absent, creates, seen, units, rows, reply, begun>>

\* Locks a word that the version refers to and compares it again.
LockWord(t, u) ==
  /\ u \in todo[t] \intersect Linked /\ WordFree(t, u)
  /\ IF UnitAt(t, u) # None /\ UnitAt(t, u).base = word[u]
       THEN /\ words' = [words EXCEPT ![t] = @ \union {u}]
            /\ todo' = [todo EXCEPT ![t] = @ \ {u}]
            /\ UNCHANGED <<catalog, version, pc, req, absent, creates, seen, units, rows,
                           reply, begun>>
       ELSE Refuse(t)

LockLegacyWord(t, u) == pc[t] = "legacy" /\ LockWord(t, u)

LegacyDone(t) == /\ pc[t] = "legacy" /\ todo[t] = {}
                 /\ Step(t, "units")
                 /\ todo' = [todo EXCEPT ![t] = req[t].units]
                 /\ UNCHANGED <<catalog, version, absent, creates, seen, work>>

\* publish_lexical_unit_if_draft: the lock of the parent, and its children of then.
PublishUnit(t, u) ==
  /\ pc[t] = "units" /\ u \in todo[t] /\ UnitFree(t, u)
  /\ IF unit[u] # None /\ unit[u].status = "draft"
       THEN /\ units' = [units EXCEPT ![t][u] = [unit[u] EXCEPT !.status = "published",
                                                               !.shown = unit[u].children]]
            /\ todo' = [todo EXCEPT ![t] = @ \ {u}]
            /\ UNCHANGED <<catalog, version, pc, req, absent, creates, seen, words, rows,
                           reply, begun>>
       ELSE Refuse(t)

-----------------------------------------------------------------------------
(* The technical pilot, version 1, made of the words there are.            *)

\* bootstrap_catalog: a unit for each word without one; a word whose content is not
\* complete has a draft.
Imported(u, status) == [status |-> status, children |-> 1,
                        shown |-> IF status = "published" THEN 1 ELSE 0,
                        base |-> word[u], text |-> None]

BeginPilot(t, q, complete) ==
  /\ q.kind = "pilot"
  /\ \A u \in Linked : unit[u] = None => UnitFree(t, u)
  /\ pc[t] = "idle" /\ begun < MaxRequests
  /\ begun' = begun + 1
  /\ req' = [req EXCEPT ![t] = q]
  /\ reply' = [reply EXCEPT ![t] = None]
  /\ Goto(t, "pilot")
  /\ unit' = [u \in Unit |->
                IF unit[u] = None /\ u \in Linked
                  THEN Imported(u, IF u \in complete THEN "published" ELSE "draft")
                  ELSE unit[u]]
  /\ UNCHANGED <<word, version, local, work>>

FindPilot(t) ==
  /\ pc[t] = "pilot"
  /\ Step(t, IF version[req[t].number] = None THEN "insert" ELSE "ready")
  /\ UNCHANGED <<catalog, version, local, work>>

\* Inserted and committed as a draft; after an IntegrityError the winner's row.
InsertPilot(t) ==
  LET v == req[t].number
  IN /\ pc[t] = "insert" /\ RowFree(t, v)
     /\ version' = IF version[v] # None THEN version
                   ELSE [version EXCEPT ![v] = DraftRow({u \in Linked : unit[u] # None})]
     /\ Step(t, "ready")
     /\ UNCHANGED <<catalog, local, work>>

Published(t, u) == Is(UnitAt(t, u), "published")

\* _publish_pilot_if_ready: what is not a draft, or not complete, is left as it is.
PilotReady(t) ==
  LET row == version[req[t].number]
  IN /\ pc[t] = "ready"
     /\ IF row.status = "draft" /\ \A u \in row.refs : Published(t, u)
          THEN Step(t, "draft") /\ UNCHANGED <<catalog, version, local, work>>
          ELSE Answer(t, "accepted") /\ UNCHANGED <<catalog, version>>

Reread(t) ==
  /\ pc[t] = "reread"
  /\ IF Is(version[req[t].number], "active")
       THEN Answer(t, "accepted") /\ UNCHANGED <<catalog, version>>
       ELSE Refuse(t)

-----------------------------------------------------------------------------
(* publish_in_transaction, for all of them.                                *)

\* Everything before it is written.
Written(t) == \/ UnitsDone(t) /\ (creates[t] => rows[t][req[t].number] # None)
              \/ pc[t] = "units" /\ todo[t] = {}
              \/ pc[t] = "draft"

\* The draft is read again and its targets are checked.  Only the resolver of a
\* bundle goes back to the words.
CheckDraft(t) ==
  LET row == RowAt(t, req[t].number)
  IN /\ Written(t)
     /\ IF ~Is(row, "draft") THEN Conflict(t)
        ELSE IF \E u \in row.refs : ~Published(t, u) THEN Refuse(t)
        ELSE /\ Step(t, IF req[t].kind = "bundle" THEN "words" ELSE "active")
             /\ todo' = [todo EXCEPT ![t] = IF req[t].kind = "bundle"
                                              THEN row.refs \intersect Linked ELSE {}]
             /\ UNCHANGED <<catalog, version, absent, creates, seen, work>>

\* resolve_catalog_mapping
ResolveWord(t, u) == pc[t] = "words" /\ LockWord(t, u)

ReadActive(t) ==
  /\ pc[t] = "active" \/ (pc[t] = "words" /\ todo[t] = {})
  /\ IF \E a \in Active \ {req[t].number} : ~Replaces(req[t], a) THEN Refuse(t)
     ELSE /\ seen' = [seen EXCEPT ![t] = IF Active = {} THEN None ELSE CHOOSE a \in Active : TRUE]
          /\ Step(t, IF Active \subseteq {req[t].number} THEN "activate" ELSE "retire")
          /\ UNCHANGED <<catalog, version, todo, absent, creates, work>>

\* Mistaken: the update sets the status only.
RetireUndated(t) ==
  LET a == seen[t]
  IN /\ pc[t] = "retire" /\ RowFree(t, a)
     /\ IF ~Is(version[a], "active") THEN Conflict(t)
        ELSE /\ rows' = [rows EXCEPT ![t][a] = [version[a] EXCEPT !.status = "retired"]]
             /\ Step(t, "activate")
             /\ UNCHANGED <<catalog, version, local, words, units>>

\* retire_if_active: the row must still be the active one.
Retire(t) ==
  LET a == seen[t]
  IN /\ pc[t] = "retire" /\ RowFree(t, a)
     /\ IF ~Is(version[a], "active") THEN Conflict(t)
        ELSE /\ rows' = [rows EXCEPT ![t][a] = [version[a] EXCEPT !.status = "retired",
                                                                  !.until = req[t].at]]
             /\ Step(t, "activate")
             /\ UNCHANGED <<catalog, version, local, words, units>>

\* Mistaken: there is no unique index on the active version.
ActivateUnindexed(t) ==
  LET v == req[t].number
  IN /\ pc[t] = "activate" /\ RowFree(t, v)
     /\ IF ~Is(RowAt(t, v), "draft") THEN Conflict(t)
        ELSE /\ rows' = [rows EXCEPT ![t][v] =
                          [RowAt(t, v) EXCEPT !.status = "active", !.at = req[t].at]]
             /\ Step(t, "commit")
             /\ UNCHANGED <<catalog, version, local, words, units>>

\* The conditional update, then the unique index, then the fingerprint.
Activate(t) ==
  LET v == req[t].number
      row == RowAt(t, v)
  IN /\ pc[t] = "activate" /\ RowFree(t, v)
     /\ IF ~Is(row, "draft") THEN Conflict(t)
        ELSE /\ IndexFree(t)
             /\ IF \E a \in Number : Is(RowAt(t, a), "active") THEN Conflict(t)
                ELSE /\ rows' = [rows EXCEPT ![t][v] =
                                  [row EXCEPT !.status = "active", !.at = req[t].at,
                                     !.print = IF req[t].kind = "pilot" THEN @
                                               ELSE req[t].print]]
                     /\ Step(t, "commit")
                     /\ UNCHANGED <<catalog, version, local, words, units>>

\* The children are rows of their own.
Stored(t, u) == IF units[t][u] # None /\ unit[u] # None
                  THEN [units[t][u] EXCEPT !.children = unit[u].children]
                  ELSE UnitAt(t, u)

Commit(t) ==
  /\ pc[t] = "commit"
  /\ unit' = [u \in Unit |-> Stored(t, u)]
  /\ version' = [v \in Number |-> RowAt(t, v)]
  /\ Answer(t, "accepted")
  /\ UNCHANGED word

-----------------------------------------------------------------------------
(* A bundle after a conflict: preflight once more, and then the winner.    *)

RecoverPreflight(t) ==
  LET q == req[t]
  IN /\ pc[t] = "recover"
     /\ IF /\ \A u \in q.units : ~Differs(q, u)
           /\ FreshUnits(q) /\ Accepts(q, Missing(q))
          THEN Step(t, "winner") /\ UNCHANGED <<catalog, version, local, work>>
          ELSE Refuse(t)

RecoverWinner(t) ==
  LET q == req[t]
  IN /\ pc[t] = "winner"
     /\ IF /\ Is(version[q.number], "active") /\ version[q.number].refs = q.units
           /\ \A u \in q.units : unit[u] = Content(q)
          THEN Answer(t, "recovered") /\ UNCHANGED <<catalog, version>>
          ELSE Refuse(t)

-----------------------------------------------------------------------------
(* The others: editors of words and of draft units.                        *)

EditWord(u) == /\ \A t \in Thread : u \notin words[t]
               /\ word[u] < MaxEdition
               /\ word' = [word EXCEPT ![u] = @ + 1]
               /\ UNCHANGED <<unit, version, pc, req, local, work, reply, begun>>

AddTo(u) == /\ unit[u] # None /\ unit[u].status = "draft" /\ unit[u].children < 2
            /\ unit' = [unit EXCEPT ![u].children = @ + 1]
            /\ UNCHANGED <<word, version, pc, req, local, work, reply, begun>>

\* Mistaken: the trigger reads the parent's status without locking it.
AddChildUnlocked(u) == AddTo(u)

\* The trigger of a child's insert locks the parent, which must be a draft.
AddChild(u) == (\A t \in Thread : units[t][u] = None) /\ AddTo(u)

Bundle(t) == \/ Compare(t) \/ PreflightRefuses(t) \/ Look(t) \/ Adopt(t)
             \/ \E u \in Unit : Get(t, u) \/ InsertUnit(t, u) \/ ResolveWord(t, u)
             \/ InsertVersion(t) \/ RecoverPreflight(t) \/ RecoverWinner(t)
Catalog(t) == \/ AnswerRepeat(t) \/ LegacyDone(t)
              \/ \E u \in Unit : LockLegacyWord(t, u) \/ PublishUnit(t, u)
Pilot(t) == FindPilot(t) \/ InsertPilot(t) \/ PilotReady(t) \/ Reread(t)
Publish(t) == CheckDraft(t) \/ ReadActive(t) \/ Retire(t) \/ Activate(t) \/ Commit(t)

Next == \/ \E t \in Thread :
             \/ \E q \in Request : \/ BeginBundle(t, q) \/ BeginCatalog(t, q)
                                   \/ \E complete \in SUBSET Linked : BeginPilot(t, q, complete)
             \/ Bundle(t) \/ Catalog(t) \/ Pilot(t) \/ Publish(t) \/ Crash(t)
        \/ \E u \in Linked : EditWord(u)
        \/ \E u \in Unit : AddChild(u)

Spec == Init /\ [][Next]_vars

-----------------------------------------------------------------------------
(* Properties.                                                             *)

Periods == {[number |-> v, from |-> version[v].at,
             to |-> version[v].until] :
              v \in {v \in Number : version[v] # None /\ version[v].status # "draft"}}

\* However publications overlap, the versions of the curriculum follow each other:
\* one is active, numbers grow, and one ends when the next begins.
Timeline == INSTANCE VersionTimeline WITH Number <- Number, Date <- Date, Open <- None,
                                      periods <- Periods

ImplementsTimeline == Timeline!Spec

\* The request is pinned: once a version has a fingerprint no other request is told
\* that it published or took over this version.  (A recovery reads the
\* fingerprint before the row it answers with, and is left out.)
AcceptedIsPinned ==
  \A t \in Thread :
    LET r == reply[t]
    IN r # None /\ r.outcome = "accepted" /\ r.request.kind # "pilot" =>
         version[r.request.number].print = r.request.print

\* What an active version refers to is published, with all of its children.
ActiveIsWhole ==
  \A v \in Active : \A u \in version[v].refs :
    /\ Is(unit[u], "published")
    /\ unit[u].shown = unit[u].children

Activates(v) == ~Is(version[v], "active") /\ Is(version'[v], "active")

\* A reviewed version is activated with units made from the words as they are.
FreshAtActivation ==
  [][\A t \in Thread, v \in Number :
       Commit(t) /\ Activates(v) /\ req[t].kind # "pilot" =>
         \A u \in version'[v].refs : Fresh(u, unit'[u].base)]_vars

\* product-state.md: exact concurrent repeats return the same active revision.  A
\* bundle is not refused while the version it describes is the active one.
Describes(q) == LET row == version[q.number]
                IN /\ Is(row, "active") /\ row.refs = q.units /\ row.print \in {None, q.print}
                   /\ \A u \in q.units : unit[u] = Content(q)
                   /\ FreshUnits(q)

ExactRepeatAccepted ==
  [][\A t \in Thread : req[t] # None /\ req[t].kind = "bundle" /\ Describes(req[t]) =>
       ~(reply'[t] # reply[t] /\ reply'[t].outcome = "refused")]_vars

\* product-state.md: changed content under an existing catalog ID is rejected.
ChangedContentRejected ==
  \A t \in Thread :
    LET r == reply[t]
    IN r # None /\ r.outcome # "refused" /\ r.outcome # "failed" /\ r.request.kind = "bundle"
         => \A u \in r.request.units : unit[u].text = r.request.text
=============================================================================
