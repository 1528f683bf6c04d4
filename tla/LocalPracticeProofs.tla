------------------------ MODULE LocalPracticeProofs ------------------------
(***************************************************************************)
(* Proofs about LocalPractice, for every number of tabs, runs, examples    *)
(* and activities and every setting of the limits.                         *)
(***************************************************************************)
EXTENDS LocalPractice, FiniteSetTheorems, TLAPS

\* One transaction at a time has the profile's lock.
Exclusive == \A t \in Thread : pc[t] # "idle" => owner = t /\ op[t] \in Request

RowsOf(day) == {a \in Issued : acts[a].day = day}

\* The row is the next one of a run in which nothing waits, and there is room for
\* it in its window.
FitsNext(w) ==
  /\ w.id \in Act \ Issued /\ w.row \in Activity /\ w.key = None
  /\ w.row.status = "pending" /\ w.row.outcome = "none"
  /\ w.row.seq = Cardinality(Of(w.row.run)) + 1
  /\ Of(w.row.run) \intersect Pending = {}
  /\ Cardinality(RowsOf(w.row.day)) < TotalLimit

\* What is written for next, with today's window or that of an earlier day.
FitsRoot(w) ==
  /\ FitsNext(w)
  /\ w.row.parent = None /\ w.row.support = "none"
  /\ \A a \in Of(w.row.run) \union RowsOf(w.row.day) : acts[a].example # w.row.example
  /\ Cardinality(RowsOf(w.row.day) \intersect Roots) < RootLimit
  /\ w.row.new => Cardinality({a \in RowsOf(w.row.day) \intersect Roots : acts[a].new}) < NewLimit

FitsRepair(w) ==
  /\ FitsNext(w)
  /\ LET p == w.row.parent
     IN /\ p \in Roots /\ Children(p) = {}
        /\ acts[p].outcome \in Failed /\ acts[p].kind = "exercise"
        /\ acts[p].run = w.row.run /\ acts[p].example = w.row.example
  /\ w.row.kind = "exercise" /\ w.row.support \in Support /\ ~w.row.new
  /\ Cardinality(RowsOf(w.row.day) \ Roots) < RepairLimit

FitsAnswer(w) ==
  /\ w.id \in Pending /\ w.row \in Activity /\ w.key # None
  /\ w.row = [acts[w.id] EXCEPT !.status = "completed", !.outcome = w.row.outcome]

Fits(w) == FitsRoot(w) \/ FitsRepair(w) \/ FitsAnswer(w)

\* What a transaction will write fits what is stored.
StagedFits == \A t \in Thread : \A w \in {staged[t]} : pc[t] = "staged" => Fits(w)

PendingUnanswered == \A a \in Pending : acts[a].outcome = "none"

RepairKinds == \A c \in Issued \ Roots :
                 /\ acts[c].kind = "exercise" /\ acts[c].support \in Support
                 /\ acts[acts[c].parent].kind = "exercise"

RootSupport == \A a \in Roots : acts[a].support = "none"

IInv == /\ TypeOK /\ Exclusive /\ StagedFits /\ IsFiniteSet(Issued)
        /\ PendingUnanswered /\ RepairKinds /\ RootSupport /\ exposed \subseteq Issued
        /\ WithinLimits /\ OncePerRunAndWindow /\ OneAtATime /\ OneRepair
        /\ RecordedWithinRun

-----------------------------------------------------------------------------
(* A transaction decides to write only what fits.                          *)

USE DEF threads

LEMMA SubsetCard ==
  ASSUME IsFiniteSet(Issued), NEW S \in SUBSET Issued
  PROVE  IsFiniteSet(S) /\ Cardinality(S) \in Nat
BY FS_Subset, FS_CardinalityType

LEMMA NextFits ==
  ASSUME IInv, NEW o \in Request, o.name = "next", NEW w \in NextWrites(o)
  PROVE  w \in Write /\ FitsRoot(w)
<1>1. TypeOK /\ IsFiniteSet(Issued) /\ o.run \in Run /\ o.kind \in {"exercise", "exposure"}
  BY DEF IInv, Request
<1>2. PICK id \in Act \ Issued, e \in Selectable(o.run) :
        w = [id |-> id, row |-> IssueRow(o.run, e, o.kind), key |-> None]
  BY DEF NextWrites
<1>3. MayIssue(o.run)
  BY DEF NextWrites
<1>4. PICK ready \in SUBSET (Example \ Excluded(o.run)) : e \in Eligible(ready)
  BY DEF Selectable
<1>5. e \in Example \ Excluded(o.run) /\ (e \in Unseen => Remains(NewLimit, TodaysNew))
  BY <1>4 DEF Eligible, Unseen
<1>6. Cardinality(Of(o.run)) \in Nat
  BY <1>1, SubsetCard DEF Of
<1>7. /\ Today = RowsOf(today) /\ TodaysRoots = RowsOf(today) \intersect Roots
      /\ TodaysNew = {a \in RowsOf(today) \intersect Roots : acts[a].new}
  BY DEF Today, RowsOf, TodaysRoots, TodaysNew
<1> DEFINE row == IssueRow(o.run, e, o.kind)
<1>8. /\ row.run = o.run /\ row.example = e /\ row.kind = o.kind /\ row.parent = None
      /\ row.support = "none" /\ row.seq = Cardinality(Of(o.run)) + 1 /\ row.day = today
      /\ row.new = (e \in Unseen) /\ row.status = "pending" /\ row.outcome = "none"
  BY DEF IssueRow, NextSeq
<1>9. row \in Activity
  BY <1>1, <1>2, <1>5, <1>6 DEF IssueRow, NextSeq, Activity, TypeOK
<1> HIDE DEF row
<1>10. w.id = id /\ w.row = row /\ w.key = None /\ w \in Write
  BY <1>2, <1>9 DEF Write, row
<1>11. FitsNext(w)
  BY <1>2, <1>3, <1>7, <1>8, <1>9, <1>10 DEF FitsNext, MayIssue, Remains
<1>12. \A a \in Of(o.run) \union RowsOf(today) : acts[a].example # e
  BY <1>5, <1>7 DEF Excluded
<1> QED
  BY <1>3, <1>5, <1>7, <1>8, <1>10, <1>11, <1>12 DEF FitsRoot, MayIssue, Remains

LEMMA SubmitFits ==
  ASSUME IInv, NEW o \in Request, o.name = "submit", NEW w \in SubmitWrites(o)
  PROVE  w \in Write /\ FitsAnswer(w)
<1>1. TypeOK /\ o.key \in Key /\ None \notin Key /\ o.outcome \in Verdict \union {"none"}
      /\ o.act \in Act
  BY NoneAssumption DEF IInv, Request
<1>2. MaySubmit(o) /\ w = [id |-> o.act, key |-> o.key,
           row |-> [acts[o.act] EXCEPT !.status = "completed", !.outcome = o.outcome]]
  BY DEF SubmitWrites
<1>3. o.act \in Pending /\ acts[o.act] \in Activity
  BY <1>1, <1>2 DEF MaySubmit, Pending, Issued, TypeOK
<1> DEFINE row == [acts[o.act] EXCEPT !.status = "completed", !.outcome = o.outcome]
<1>4. row \in Activity /\ row.outcome = o.outcome
  BY <1>1, <1>3 DEF Activity
<1>5. w.id = o.act /\ w.key = o.key /\ w.row = row
  BY <1>2
<1>6. w \in Write
  BY <1>1, <1>2, <1>4 DEF Write
<1> QED
  BY <1>1, <1>3, <1>4, <1>5, <1>6 DEF FitsAnswer

LEMMA RepairFits ==
  ASSUME IInv, NEW o \in Request, o.name = "repair", NEW w \in RepairWrites(o)
  PROVE  w \in Write /\ FitsRepair(w)
<1>1. TypeOK /\ IsFiniteSet(Issued) /\ o.act \in Act /\ o.id \in Act /\ o.support \in Support
  BY DEF IInv, Request
<1>2. MayRepair(o) /\ w = [id |-> o.id, row |-> RepairRow(o), key |-> None]
  BY DEF RepairWrites
<1>3. o.act \in Roots /\ acts[o.act] \in Activity
  BY <1>1, <1>2 DEF MayRepair, Roots, Issued, TypeOK
<1>4. Cardinality(Of(acts[o.act].run)) \in Nat
  BY <1>1, SubsetCard DEF Of
<1> DEFINE row == RepairRow(o)
<1>5. row \in Activity
  <2>1. NextSeq(acts[o.act].run) \in Nat \ {0} /\ today \in 0..MaxDay
    BY <1>1, <1>4 DEF NextSeq, TypeOK
  <2> QED
    BY <1>1, <1>3, <2>1 DEF RepairRow, Activity
<1>6. /\ row.run = acts[o.act].run /\ row.example = acts[o.act].example
      /\ row.kind = acts[o.act].kind /\ row.parent = o.act /\ row.support = o.support
      /\ row.seq = Cardinality(Of(acts[o.act].run)) + 1 /\ row.day = today
      /\ row.new = FALSE /\ row.status = "pending" /\ row.outcome = "none"
  BY <1>3 DEF RepairRow, NextSeq, Activity
<1> HIDE DEF row
<1>7. w.id = o.id /\ w.row = row /\ w.key = None /\ w \in Write
  BY <1>1, <1>2, <1>5 DEF Write, row
<1>8. Today = RowsOf(today) /\ TodaysRepairs = RowsOf(today) \ Roots
  BY DEF Today, RowsOf, TodaysRepairs
<1>9. FitsNext(w)
  BY <1>1, <1>2, <1>5, <1>6, <1>7, <1>8 DEF FitsNext, MayRepair, Remains
<1> QED
  BY <1>1, <1>2, <1>3, <1>6, <1>7, <1>8, <1>9 DEF FitsRepair, MayRepair, Remains

LEMMA DecisionFits ==
  ASSUME IInv, NEW o \in Request, NEW w \in Writes(o)
  PROVE  w \in Write /\ Fits(w)
<1>1. o.name \in {"next", "submit", "repair"}
  BY DEF Request
<1> QED
  BY <1>1, NextFits, SubmitFits, RepairFits DEF Writes, Fits

-----------------------------------------------------------------------------
(* What a committed row does to the sets of rows.                          *)

LEMMA RowAdded ==
  ASSUME TypeOK, NEW id \in Act \ Issued, NEW row \in Activity,
         acts' = [acts EXCEPT ![id] = row], row.status = "pending"
  PROVE  /\ Issued' = Issued \union {id} /\ acts'[id] = row
         /\ \A a \in Issued : acts'[a] = acts[a] /\ a # id
         /\ \A r : Of(r)' = IF row.run = r THEN Of(r) \union {id} ELSE Of(r)
         /\ Pending' = Pending \union {id}
         /\ Roots' = IF row.parent = None THEN Roots \union {id} ELSE Roots
         /\ \A p : {c \in Issued' : acts'[c].parent = p}
                     = IF row.parent = p THEN Children(p) \union {id} ELSE Children(p)
         /\ \A d : RowsOf(d)' = IF row.day = d THEN RowsOf(d) \union {id} ELSE RowsOf(d)
<1>1. /\ acts'[id] = row /\ row # None /\ \A a \in Act \ {id} : acts'[a] = acts[a]
  BY RowAssumption DEF TypeOK
<1>2. Issued' = Issued \union {id} /\ \A a \in Issued : acts'[a] = acts[a] /\ a # id
  BY <1>1 DEF Issued
<1> HIDE DEF Issued
<1>3. \A r : Of(r)' = IF row.run = r THEN Of(r) \union {id} ELSE Of(r)
  BY <1>1, <1>2 DEF Of
<1>4. Pending' = Pending \union {id}
  BY <1>1, <1>2 DEF Pending
<1>5. Roots' = IF row.parent = None THEN Roots \union {id} ELSE Roots
  BY <1>1, <1>2 DEF Roots
<1>6. \A p : {c \in Issued' : acts'[c].parent = p}
               = IF row.parent = p THEN Children(p) \union {id} ELSE Children(p)
  BY <1>1, <1>2 DEF Children
<1>7. \A d : RowsOf(d)' = IF row.day = d THEN RowsOf(d) \union {id} ELSE RowsOf(d)
  BY <1>1, <1>2 DEF RowsOf
<1> QED
  BY <1>1, <1>2, <1>3, <1>4, <1>5, <1>6, <1>7

LEMMA RowAnswered ==
  ASSUME TypeOK, NEW id \in Pending, NEW row \in Activity,
         row = [acts[id] EXCEPT !.status = "completed", !.outcome = row.outcome],
         acts' = [acts EXCEPT ![id] = row]
  PROVE  /\ Issued' = Issued /\ Roots' = Roots /\ Pending' = Pending \ {id}
         /\ \A r : Of(r)' = Of(r)
         /\ \A p : Children(p)' = Children(p)
         /\ \A d : RowsOf(d)' = RowsOf(d)
         /\ \A a \in Issued :
              /\ acts'[a].run = acts[a].run /\ acts'[a].example = acts[a].example
              /\ acts'[a].kind = acts[a].kind /\ acts'[a].parent = acts[a].parent
              /\ acts'[a].support = acts[a].support /\ acts'[a].seq = acts[a].seq
              /\ acts'[a].day = acts[a].day /\ acts'[a].new = acts[a].new
         /\ \A a \in Issued \ {id} : acts'[a] = acts[a]
<1>1. id \in Act /\ id \in Issued /\ acts[id] \in Activity /\ None \notin Activity
  BY RowAssumption DEF TypeOK, Pending, Issued
<1>2. acts'[id] = row /\ \A a \in Act \ {id} : acts'[a] = acts[a]
  BY <1>1 DEF TypeOK
<1>3. Issued' = Issued
  BY <1>1, <1>2 DEF Issued
<1>4. /\ row.run = acts[id].run /\ row.example = acts[id].example
      /\ row.kind = acts[id].kind /\ row.parent = acts[id].parent
      /\ row.support = acts[id].support /\ row.seq = acts[id].seq
      /\ row.day = acts[id].day /\ row.new = acts[id].new /\ row.status = "completed"
  BY <1>1 DEF Activity
<1>5. \A a \in Issued : a \in Act
  BY DEF Issued
<1>6. \A a \in Issued :
              /\ acts'[a].run = acts[a].run /\ acts'[a].example = acts[a].example
              /\ acts'[a].kind = acts[a].kind /\ acts'[a].parent = acts[a].parent
              /\ acts'[a].support = acts[a].support /\ acts'[a].seq = acts[a].seq
              /\ acts'[a].day = acts[a].day /\ acts'[a].new = acts[a].new
  BY <1>2, <1>4, <1>5
<1>7. Roots' = Roots /\ \A r : Of(r)' = Of(r)
  BY <1>3, <1>6 DEF Roots, Of
<1>8. (\A p : Children(p)' = Children(p)) /\ \A d : RowsOf(d)' = RowsOf(d)
  BY <1>3, <1>6 DEF Children, RowsOf
<1>9. Pending' = Pending \ {id}
  BY <1>2, <1>3, <1>4, <1>5 DEF Pending
<1> QED
  BY <1>2, <1>3, <1>5, <1>6, <1>7, <1>8, <1>9

-----------------------------------------------------------------------------
(* The properties of the rows are kept by a new row ...                    *)

LEMMA OneMore ==
  ASSUME IsFiniteSet(Issued), NEW S \in SUBSET Issued, NEW x, x \notin Issued
  PROVE  Cardinality(S) \in Nat /\ Cardinality(S \union {x}) = Cardinality(S) + 1
BY SubsetCard, FS_AddElement

LEMMA LimitsAfterNew ==
  ASSUME IInv, NEW w, FitsRoot(w) \/ FitsRepair(w), acts' = [acts EXCEPT ![w.id] = w.row]
  PROVE  WithinLimits'
<1> DEFINE id == w.id
           row == w.row
           roots(d) == RowsOf(d) \intersect Roots
           new(d) == {a \in roots(d) : acts[a].new}
<1>1. TypeOK /\ IsFiniteSet(Issued)
  BY DEF IInv
<1>2. id \in Act \ Issued /\ row \in Activity /\ row.status = "pending" /\ FitsNext(w)
  BY DEF FitsRoot, FitsRepair, FitsNext
<1>3. /\ \A a \in Issued : acts'[a] = acts[a] /\ a # id
      /\ acts'[id] = row
      /\ Roots' = IF row.parent = None THEN Roots \union {id} ELSE Roots
      /\ \A d : RowsOf(d)' = IF row.day = d THEN RowsOf(d) \union {id} ELSE RowsOf(d)
  BY <1>1, <1>2, RowAdded
<1>4. \A d : RowsOf(d) \subseteq Issued /\ Roots \subseteq Issued
  BY DEF RowsOf, Roots
<1>5. \A d \in 0..MaxDay : /\ Cardinality(RowsOf(d)) <= TotalLimit
                           /\ Cardinality(roots(d)) <= RootLimit
                           /\ Cardinality(RowsOf(d) \ Roots) <= RepairLimit
                           /\ Cardinality(new(d)) <= NewLimit
  BY DEF IInv, WithinLimits, RowsOf
<1>6. SUFFICES ASSUME NEW d \in 0..MaxDay
               PROVE  /\ Cardinality(RowsOf(d)') <= TotalLimit
                      /\ Cardinality(RowsOf(d)' \intersect Roots') <= RootLimit
                      /\ Cardinality(RowsOf(d)' \ Roots') <= RepairLimit
                      /\ Cardinality({a \in RowsOf(d)' \intersect Roots' : acts'[a].new}) <= NewLimit
  BY DEF WithinLimits, RowsOf
<1>7. \A S \in SUBSET Issued : Cardinality(S) \in Nat
                               /\ Cardinality(S \union {id}) = Cardinality(S) + 1
  BY <1>1, <1>2, OneMore
<1> HIDE DEF id, row
<1>8. CASE row.day # d
  <2>1. RowsOf(d)' = RowsOf(d) /\ id \notin RowsOf(d)
    BY <1>2, <1>3, <1>4, <1>8
  <2>2. RowsOf(d)' \intersect Roots' = roots(d) /\ RowsOf(d)' \ Roots' = RowsOf(d) \ Roots
    BY <1>3, <2>1
  <2>3. {a \in RowsOf(d)' \intersect Roots' : acts'[a].new} = new(d)
    BY <1>3, <1>4, <2>2
  <2> QED
    BY <1>5, <2>1, <2>2, <2>3
<1>9. CASE row.day = d
  <2>1. RowsOf(d)' = RowsOf(d) \union {id}
    BY <1>3, <1>9
  <2>2. Cardinality(RowsOf(d)) < TotalLimit
    BY <1>2, <1>9 DEF FitsNext, row
  <2>3. Cardinality(RowsOf(d)') <= TotalLimit
    BY <1>4, <1>7, <2>1, <2>2, LimitAssumption
  <2>4. CASE FitsRoot(w)
    <3>1. /\ row.parent = None /\ Cardinality(roots(d)) < RootLimit
          /\ row.new => Cardinality(new(d)) < NewLimit
      BY <1>9, <2>4 DEF FitsRoot, row
    <3>2. /\ RowsOf(d)' \intersect Roots' = roots(d) \union {id}
          /\ RowsOf(d)' \ Roots' = RowsOf(d) \ Roots
      BY <1>2, <1>3, <1>4, <2>1, <3>1
    <3>3. {a \in RowsOf(d)' \intersect Roots' : acts'[a].new}
            = IF row.new THEN new(d) \union {id} ELSE new(d)
      BY <1>2, <1>3, <1>4, <3>2
    <3>4. roots(d) \in SUBSET Issued /\ new(d) \in SUBSET Issued
      BY <1>4
    <3> HIDE DEF roots, new
    <3>5. Cardinality(roots(d) \union {id}) <= RootLimit
      BY <1>7, <3>1, <3>4, LimitAssumption
    <3>6. Cardinality(IF row.new THEN new(d) \union {id} ELSE new(d)) <= NewLimit
      <4>1. CASE row.new
        BY <1>7, <3>1, <3>4, <4>1, LimitAssumption
      <4>2. CASE ~row.new
        BY <1>5, <4>2
      <4> QED
        BY <4>1, <4>2
    <3> QED
      BY <1>5, <2>3, <3>2, <3>3, <3>5, <3>6
  <2>5. CASE FitsRepair(w)
    <3>1. /\ row.parent \in Roots /\ Cardinality(RowsOf(d) \ Roots) < RepairLimit
      BY <1>9, <2>5 DEF FitsRepair, row
    <3>2. row.parent # None
      BY <1>4, <3>1, NoneAssumption DEF Issued
    <3>3. /\ RowsOf(d)' \intersect Roots' = roots(d)
          /\ RowsOf(d)' \ Roots' = (RowsOf(d) \ Roots) \union {id}
      BY <1>2, <1>3, <1>4, <2>1, <3>2
    <3>4. {a \in RowsOf(d)' \intersect Roots' : acts'[a].new} = new(d)
      BY <1>2, <1>3, <1>4, <3>3
    <3>5. RowsOf(d) \ Roots \in SUBSET Issued
      BY <1>4
    <3>6. Cardinality((RowsOf(d) \ Roots) \union {id}) <= RepairLimit
      BY <1>7, <3>1, <3>5, LimitAssumption
    <3> QED
      BY <1>5, <2>3, <3>3, <3>4, <3>6
  <2> QED
    BY <2>4, <2>5
<1> QED
  BY <1>8, <1>9

LEMMA RunsAfterNew ==
  ASSUME IInv, NEW w, FitsRoot(w) \/ FitsRepair(w), acts' = [acts EXCEPT ![w.id] = w.row]
  PROVE  OneAtATime' /\ IsFiniteSet(Issued)' /\ PendingUnanswered'
<1> DEFINE id == w.id
           row == w.row
<1>1. TypeOK /\ IsFiniteSet(Issued) /\ PendingUnanswered
  BY DEF IInv
<1>2. id \in Act \ Issued /\ row \in Activity /\ row.status = "pending" /\ FitsNext(w)
  BY DEF FitsRoot, FitsRepair, FitsNext
<1>3. /\ Issued' = Issued \union {id} /\ acts'[id] = row
      /\ \A a \in Issued : acts'[a] = acts[a] /\ a # id
      /\ \A r : Of(r)' = IF row.run = r THEN Of(r) \union {id} ELSE Of(r)
      /\ Pending' = Pending \union {id}
  BY <1>1, <1>2, RowAdded
<1>4. \A r : Of(r) \subseteq Issued /\ Pending \subseteq Issued
  BY DEF Of, Pending
<1>5. IsFiniteSet(Issued')
  BY <1>1, <1>3, FS_AddElement
<1>6. PendingUnanswered'
  BY <1>1, <1>2, <1>3, <1>4 DEF PendingUnanswered, FitsNext
<1>7. ASSUME NEW r \in Run
      PROVE  /\ Cardinality(Of(r)' \intersect Pending') <= 1
             /\ {acts'[a].seq : a \in Of(r)'} = 1..Cardinality(Of(r)')
  <2>1. /\ Cardinality(Of(r) \intersect Pending) <= 1
        /\ {acts[a].seq : a \in Of(r)} = 1..Cardinality(Of(r))
    BY DEF IInv, OneAtATime
  <2>2. /\ Cardinality(Of(r)) \in Nat
        /\ Cardinality(Of(r) \union {id}) = Cardinality(Of(r)) + 1
    BY <1>1, <1>2, <1>4, OneMore
  <2>3. CASE row.run # r
    <3>1. Of(r)' = Of(r) /\ Of(r)' \intersect Pending' = Of(r) \intersect Pending
      BY <1>2, <1>3, <1>4, <2>3
    <3>2. {acts'[a].seq : a \in Of(r)'} = {acts[a].seq : a \in Of(r)}
      BY <1>3, <1>4, <3>1
    <3> QED
      BY <2>1, <3>1, <3>2
  <2>4. CASE row.run = r
    <3>1. /\ Of(r)' = Of(r) \union {id} /\ Of(r) \intersect Pending = {}
          /\ row.seq = Cardinality(Of(r)) + 1
      BY <1>2, <1>3, <2>4 DEF FitsNext
    <3> HIDE DEF id, row
    <3>2. Of(r)' \intersect Pending' = {id}
      BY <1>2, <1>3, <1>4, <3>1
    <3>3. Cardinality({id}) = 1
      BY FS_Singleton
    <3>4. {acts'[a].seq : a \in Of(r)'} = {acts[a].seq : a \in Of(r)} \union {row.seq}
      BY <1>2, <1>3, <1>4, <3>1
    <3>5. \A n \in Nat : (1..n) \union {n + 1} = 1..(n + 1)
      OBVIOUS
    <3>6. {acts'[a].seq : a \in Of(r)'} = 1..(Cardinality(Of(r)) + 1)
      BY <2>1, <2>2, <3>1, <3>4, <3>5
    <3>7. Cardinality(Of(r)') = Cardinality(Of(r)) + 1
      BY <2>2, <3>1
    <3>8. Cardinality(Of(r)' \intersect Pending') <= 1
      BY <3>2, <3>3
    <3> QED
      BY <3>6, <3>7, <3>8
  <2> QED
    BY <2>3, <2>4
<1> QED
  BY <1>5, <1>6, <1>7 DEF OneAtATime

LEMMA LinksAfterNew ==
  ASSUME IInv, NEW w, FitsRoot(w) \/ FitsRepair(w), acts' = [acts EXCEPT ![w.id] = w.row]
  PROVE  OncePerRunAndWindow' /\ OneRepair' /\ RepairKinds' /\ RootSupport'
<1> DEFINE id == w.id
           row == w.row
<1>1. /\ TypeOK /\ IsFiniteSet(Issued) /\ OneRepair /\ RepairKinds /\ OncePerRunAndWindow
      /\ OneAtATime /\ RootSupport
  BY DEF IInv
<1>2. id \in Act \ Issued /\ row \in Activity /\ row.status = "pending" /\ FitsNext(w)
  BY DEF FitsRoot, FitsRepair, FitsNext
<1>3. /\ Issued' = Issued \union {id} /\ acts'[id] = row
      /\ \A a \in Issued : acts'[a] = acts[a] /\ a # id
      /\ Roots' = IF row.parent = None THEN Roots \union {id} ELSE Roots
  BY <1>1, <1>2, RowAdded
<1>9. ASSUME NEW p
      PROVE  {c \in Issued' : acts'[c].parent = p}
                = IF row.parent = p THEN Children(p) \union {id} ELSE Children(p)
  BY <1>2, <1>3 DEF Children
<1>4. Roots \subseteq Issued /\ Issued \subseteq Act /\ None \notin Act
  BY NoneAssumption DEF Roots, Issued
<1> DEFINE linked(c) ==
             \E p : /\ p = acts'[c].parent /\ p \in Roots' /\ acts'[p].outcome \in Failed
                    /\ acts'[p].run = acts'[c].run /\ acts'[p].example = acts'[c].example
                    /\ acts'[p].seq < acts'[c].seq
                    /\ {k \in Issued' : acts'[k].parent = p} = {c}
                    /\ acts'[c].kind = "exercise" /\ acts'[c].support \in Support
                    /\ acts'[p].kind = "exercise"
<1>5. ASSUME NEW c \in Issued \ Roots PROVE linked(c)
  <2>1. PICK p : p = acts[c].parent
    OBVIOUS
  <2>2. /\ p \in Roots /\ acts[p].outcome \in Failed
        /\ acts[p].run = acts[c].run /\ acts[p].example = acts[c].example
        /\ acts[p].seq < acts[c].seq
        /\ Children(p) = {c}
        /\ acts[c].kind = "exercise" /\ acts[c].support \in Support
        /\ acts[p].kind = "exercise"
    BY <1>1, <2>1 DEF OneRepair, RepairKinds
  <2>3. row.parent # p
    BY <1>4, <2>2 DEF FitsRoot, FitsRepair
  <2>4. acts'[c] = acts[c] /\ acts'[p] = acts[p] /\ p \in Roots'
    BY <1>3, <1>4, <2>2
  <2> QED
    BY <1>3, <1>9, <2>1, <2>2, <2>3, <2>4
<1>8. ASSUME \A c \in Issued' \ Roots' : linked(c) PROVE OneRepair' /\ RepairKinds'
  BY <1>8 DEF OneRepair, RepairKinds, Children
<1> HIDE DEF linked
<1>6. CASE FitsRoot(w)
  <2>1. row.parent = None /\ Roots' = Roots \union {id}
    BY <1>3, <1>6 DEF FitsRoot
  <2>2. Issued' \ Roots' = Issued \ Roots
    BY <1>2, <1>3, <1>4, <2>1
  <2>3. OneRepair' /\ RepairKinds'
    BY <1>5, <1>8, <2>2
  <2>4. ASSUME NEW a \in Roots, acts[a].example = row.example
        PROVE  acts[a].run # row.run /\ acts[a].day # row.day
    BY <1>4, <1>6, <2>4 DEF FitsRoot, Of, RowsOf
  <2>5. OncePerRunAndWindow'
    <3> SUFFICES ASSUME NEW a \in Roots', NEW b \in Roots',
                        acts'[a].example = acts'[b].example,
                        acts'[a].run = acts'[b].run \/ acts'[a].day = acts'[b].day
                 PROVE  a = b
      BY DEF OncePerRunAndWindow
    <3> HIDE DEF id, row
    <3>1. CASE a = id \/ b = id
      BY <1>3, <1>4, <2>1, <2>4, <3>1
    <3>2. CASE a # id /\ b # id
      <4>1. a \in Roots /\ b \in Roots /\ acts'[a] = acts[a] /\ acts'[b] = acts[b]
        BY <1>3, <1>4, <2>1, <3>2
      <4> QED
        BY <1>1, <4>1 DEF OncePerRunAndWindow
    <3> QED
      BY <3>1, <3>2
  <2>6. RootSupport'
    BY <1>1, <1>3, <1>4, <1>6, <2>1 DEF RootSupport, FitsRoot
  <2> QED
    BY <2>3, <2>5, <2>6
<1>7. CASE FitsRepair(w)
  <2> DEFINE p == row.parent
  <2>1. /\ p \in Roots /\ Children(p) = {}
        /\ acts[p].outcome \in Failed /\ acts[p].kind = "exercise"
        /\ acts[p].run = row.run /\ acts[p].example = row.example
        /\ row.kind = "exercise" /\ row.support \in Support
        /\ row.seq = Cardinality(Of(row.run)) + 1
    BY <1>2, <1>7 DEF FitsRepair, FitsNext
  <2>2. p # None /\ Roots' = Roots
    BY <1>3, <1>4, <2>1
  <2>3. acts[p].seq \in 1..Cardinality(Of(row.run))
    <3>1. p \in Of(row.run) /\ row.run \in Run
      BY <1>2, <1>4, <2>1 DEF Of, Activity
    <3> QED
      BY <1>1, <3>1 DEF OneAtATime
  <2>4. Cardinality(Of(row.run)) \in Nat
    BY <1>1, SubsetCard DEF Of
  <2>5. {k \in Issued' : acts'[k].parent = p} = {id}
    BY <1>9, <2>1
  <2>6. acts'[p] = acts[p]
    BY <1>3, <1>4, <2>1
  <2>7. Issued' \ Roots' = (Issued \ Roots) \union {id}
    BY <1>2, <1>3, <1>4, <2>2
  <2> HIDE DEF id, row
  <2>8. OneRepair' /\ RepairKinds'
    <3>1. linked(id)
      BY <1>3, <2>1, <2>2, <2>3, <2>4, <2>5, <2>6 DEF linked
    <3> QED
      BY <1>5, <1>8, <2>7, <3>1
  <2>9. OncePerRunAndWindow'
    BY <1>1, <1>3, <1>4, <2>2 DEF OncePerRunAndWindow
  <2>10. RootSupport'
    BY <1>1, <1>3, <1>4, <2>2 DEF RootSupport
  <2> QED
    BY <2>8, <2>9, <2>10
<1> QED
  BY <1>6, <1>7

-----------------------------------------------------------------------------
(* ... and by a first answer.                                              *)

RowProperties == /\ IsFiniteSet(Issued)
                 /\ PendingUnanswered /\ RepairKinds /\ RootSupport
                 /\ WithinLimits /\ OncePerRunAndWindow /\ OneAtATime /\ OneRepair

LEMMA RowsAfterNew ==
  ASSUME IInv, NEW w, FitsRoot(w) \/ FitsRepair(w), acts' = [acts EXCEPT ![w.id] = w.row]
  PROVE  RowProperties'
BY LimitsAfterNew, RunsAfterNew, LinksAfterNew DEF RowProperties

LEMMA RowsAfterAnswer ==
  ASSUME IInv, NEW w, FitsAnswer(w), acts' = [acts EXCEPT ![w.id] = w.row]
  PROVE  RowProperties'
<1> DEFINE id == w.id
<1>1. TypeOK /\ RowProperties
  BY DEF IInv, RowProperties
<1>2. /\ Issued' = Issued /\ Roots' = Roots /\ Pending' = Pending \ {id} /\ id \in Pending
      /\ \A r : Of(r)' = Of(r)
      /\ \A d : RowsOf(d)' = RowsOf(d)
      /\ \A a \in Issued :
              /\ acts'[a].run = acts[a].run /\ acts'[a].example = acts[a].example
              /\ acts'[a].kind = acts[a].kind /\ acts'[a].parent = acts[a].parent
              /\ acts'[a].support = acts[a].support /\ acts'[a].seq = acts[a].seq
              /\ acts'[a].day = acts[a].day /\ acts'[a].new = acts[a].new
      /\ \A a \in Issued \ {id} : acts'[a] = acts[a]
  BY <1>1, RowAnswered DEF FitsAnswer
<1>3. Roots \subseteq Issued /\ Pending \subseteq Issued /\ \A r : Of(r) \subseteq Issued
  BY DEF Roots, Pending, Of
<1> HIDE DEF id
<1>4. IsFiniteSet(Issued)' /\ PendingUnanswered' /\ RootSupport'
  BY <1>1, <1>2, <1>3 DEF RowProperties, PendingUnanswered, RootSupport
<1>5. WithinLimits'
  <2> SUFFICES ASSUME NEW d \in 0..MaxDay
               PROVE  /\ Cardinality(RowsOf(d)') <= TotalLimit
                      /\ Cardinality(RowsOf(d)' \intersect Roots') <= RootLimit
                      /\ Cardinality(RowsOf(d)' \ Roots') <= RepairLimit
                      /\ Cardinality({a \in RowsOf(d)' \intersect Roots' : acts'[a].new}) <= NewLimit
    BY DEF WithinLimits, RowsOf
  <2>1. /\ Cardinality(RowsOf(d)) <= TotalLimit
        /\ Cardinality(RowsOf(d) \intersect Roots) <= RootLimit
        /\ Cardinality(RowsOf(d) \ Roots) <= RepairLimit
        /\ Cardinality({a \in RowsOf(d) \intersect Roots : acts[a].new}) <= NewLimit
    BY <1>1 DEF RowProperties, WithinLimits, RowsOf
  <2>2. {a \in RowsOf(d)' \intersect Roots' : acts'[a].new}
          = {a \in RowsOf(d) \intersect Roots : acts[a].new}
    BY <1>2, <1>3
  <2> QED
    BY <1>2, <2>1, <2>2
<1>6. OncePerRunAndWindow'
  <2>1. OncePerRunAndWindow
    BY <1>1 DEF RowProperties
  <2> QED
    BY <1>2, <1>3, <2>1 DEF OncePerRunAndWindow
<1>7. OneAtATime'
  <2> SUFFICES ASSUME NEW r \in Run
               PROVE  /\ Cardinality(Of(r)' \intersect Pending') <= 1
                      /\ {acts'[a].seq : a \in Of(r)'} = 1..Cardinality(Of(r)')
    BY DEF OneAtATime
  <2>1. /\ Cardinality(Of(r) \intersect Pending) <= 1
        /\ {acts[a].seq : a \in Of(r)} = 1..Cardinality(Of(r))
    BY <1>1 DEF RowProperties, OneAtATime
  <2>2. {acts'[a].seq : a \in Of(r)'} = {acts[a].seq : a \in Of(r)}
    BY <1>2, <1>3
  <2>3. Of(r)' \intersect Pending' \subseteq Of(r) \intersect Pending
    BY <1>2
  <2>4. IsFiniteSet(Of(r) \intersect Pending)
    BY <1>1, <1>3, SubsetCard DEF RowProperties
  <2>5. /\ Cardinality(Of(r)' \intersect Pending') <= Cardinality(Of(r) \intersect Pending)
        /\ Cardinality(Of(r)' \intersect Pending') \in Nat
        /\ Cardinality(Of(r) \intersect Pending) \in Nat
    BY <2>3, <2>4, FS_Subset, FS_CardinalityType
  <2> QED
    BY <1>2, <2>1, <2>2, <2>5
<1>8. OneRepair' /\ RepairKinds'
  <2> SUFFICES ASSUME NEW c \in Issued \ Roots
               PROVE  \E p : /\ p = acts'[c].parent /\ p \in Roots /\ acts'[p].outcome \in Failed
                             /\ acts'[p].run = acts'[c].run
                             /\ acts'[p].example = acts'[c].example
                             /\ acts'[p].seq < acts'[c].seq
                             /\ {k \in Issued : acts'[k].parent = p} = {c}
                             /\ acts'[c].kind = "exercise" /\ acts'[c].support \in Support
                             /\ acts'[p].kind = "exercise"
    BY <1>2 DEF OneRepair, RepairKinds, Children
  <2>1. PICK p : p = acts[c].parent
    OBVIOUS
  <2>2. /\ p \in Roots /\ acts[p].outcome \in Failed
        /\ acts[p].run = acts[c].run /\ acts[p].example = acts[c].example
        /\ acts[p].seq < acts[c].seq
        /\ Children(p) = {c}
        /\ acts[c].kind = "exercise" /\ acts[c].support \in Support
        /\ acts[p].kind = "exercise"
    BY <1>1, <2>1 DEF RowProperties, OneRepair, RepairKinds
  <2>3. p # id
    BY <1>1, <1>2, <2>2 DEF RowProperties, PendingUnanswered, Failed
  <2>4. acts'[p] = acts[p] /\ c \in Issued /\ p \in Issued
    BY <1>2, <1>3, <2>2, <2>3
  <2>5. {k \in Issued : acts'[k].parent = p} = {c}
    BY <1>2, <2>2 DEF Children
  <2>6. acts'[c].parent = p /\ acts'[c].run = acts[c].run /\ acts'[c].example = acts[c].example
        /\ acts'[c].seq = acts[c].seq /\ acts'[c].kind = acts[c].kind
        /\ acts'[c].support = acts[c].support
    BY <1>2, <2>1, <2>4
  <2> QED
    BY <2>2, <2>4, <2>5, <2>6
<1> QED
  BY <1>4, <1>5, <1>6, <1>7, <1>8 DEF RowProperties

-----------------------------------------------------------------------------
(* Disclosure.                                                             *)

\* What a shown activity reveals of a pending one of its own run is on the record.
LEMMA ShownIsRecorded ==
  ASSUME IInv, NEW a \in Pending, NEW b \in Issued,
         acts[b].example = acts[a].example, acts[b].run = acts[a].run,
         Shows(acts[b]) \/ CanDisclose(b)
  PROVE  acts[a].kind = "exposure" \/ acts[a].support \in Showing
<1>1. /\ TypeOK /\ OneRepair /\ RepairKinds /\ RootSupport /\ OncePerRunAndWindow
      /\ PendingUnanswered /\ a \in Issued /\ acts[a].status = "pending"
      /\ Roots \subseteq Issued
  BY DEF IInv, Pending, Roots
<1>2. CASE a = b
  BY <1>1, <1>2 DEF Shows, CanDisclose
<1>3. CASE a \in Roots /\ b \in Roots
  BY <1>1, <1>2, <1>3 DEF OncePerRunAndWindow
<1>4. CASE a \in Roots /\ b \notin Roots
  <2>1. /\ acts[b].parent \in Roots /\ acts[acts[b].parent].outcome \in Failed
        /\ acts[acts[b].parent].run = acts[a].run
        /\ acts[acts[b].parent].example = acts[a].example
    BY <1>1, <1>4 DEF OneRepair
  <2>2. acts[b].parent = a
    BY <1>1, <1>4, <2>1 DEF OncePerRunAndWindow
  <2> QED
    BY <1>1, <2>1, <2>2 DEF PendingUnanswered, Failed
<1>5. CASE a \notin Roots /\ b \in Roots
  <2>1. /\ acts[a].parent \in Roots
        /\ acts[acts[a].parent].run = acts[b].run
        /\ acts[acts[a].parent].example = acts[b].example
        /\ acts[acts[a].parent].outcome \in Failed
        /\ acts[acts[a].parent].kind = "exercise" /\ acts[a].support \in Support
    BY <1>1, <1>5 DEF OneRepair, RepairKinds
  <2>2. acts[a].parent = b
    BY <1>1, <1>5, <2>1 DEF OncePerRunAndWindow
  <2>3. ~Shows(acts[b])
    BY <1>1, <1>5, <2>1, <2>2 DEF Shows, RootSupport, Showing
  <2>4. a \in Children(b) \intersect Pending /\ acts[b].parent = None
    BY <1>1, <1>5, <2>2 DEF Children, Roots
  <2>5. acts[a].support # "cue"
    BY <2>1, <2>2, <2>3, <2>4 DEF CanDisclose
  <2> QED
    BY <2>1, <2>5 DEF Support, Showing
<1>6. CASE a \notin Roots /\ b \notin Roots
  <2>1. /\ acts[a].parent \in Roots /\ Children(acts[a].parent) = {a}
        /\ acts[acts[a].parent].run = acts[a].run
        /\ acts[acts[a].parent].example = acts[a].example
    BY <1>1, <1>6 DEF OneRepair
  <2>2. /\ acts[b].parent \in Roots /\ Children(acts[b].parent) = {b}
        /\ acts[acts[b].parent].run = acts[b].run
        /\ acts[acts[b].parent].example = acts[b].example
    BY <1>1, <1>6 DEF OneRepair
  <2>3. acts[a].parent = acts[b].parent
    BY <1>1, <2>1, <2>2 DEF OncePerRunAndWindow
  <2>4. a = b
    BY <2>1, <2>2, <2>3
  <2> QED
    BY <1>2, <2>4
<1> QED
  BY <1>1, <1>3, <1>4, <1>5, <1>6

Recorded(a) == \/ acts[a].kind = "exposure" \/ acts[a].support \in Showing
               \/ \E b \in Issued : /\ acts[b].example = acts[a].example
                                   /\ acts[b].run # acts[a].run

\* Showing what is stored reveals nothing that is not.
LEMMA DisplayKeeps ==
  ASSUME IInv, UNCHANGED acts, NEW B \in SUBSET Issued,
         \A b \in B : Shows(acts[b]) \/ CanDisclose(b),
         exposed' \subseteq exposed \union UNION {Displayed(acts[b].example, acts) : b \in B}
  PROVE  RecordedWithinRun' /\ exposed' \subseteq Issued'
<1>1. \A a \in exposed \intersect Pending : Recorded(a)
  BY DEF IInv, RecordedWithinRun, Recorded
<1>2. ASSUME NEW b \in B, NEW a \in Displayed(acts[b].example, acts)
      PROVE  a \in Issued /\ Recorded(a)
  <2>1. a \in Pending /\ a \in Issued /\ acts[b].example = acts[a].example
    BY <1>2 DEF Displayed, Pending, Issued
  <2>2. CASE acts[b].run = acts[a].run
    BY <2>1, <2>2, ShownIsRecorded DEF Recorded
  <2>3. CASE acts[b].run # acts[a].run
    BY <2>1, <2>3 DEF Recorded
  <2> QED
    BY <2>1, <2>2, <2>3
<1>3. Issued' = Issued /\ Pending' = Pending
  BY DEF Issued, Pending
<1>4. \A a \in exposed' \intersect Pending : Recorded(a)
  BY <1>1, <1>2
<1>5. exposed' \subseteq Issued'
  BY <1>2, <1>3 DEF IInv
<1>6. RecordedWithinRun'
  BY <1>3, <1>4 DEF RecordedWithinRun, Recorded
<1> QED
  BY <1>5, <1>6

LEMMA CommitKeeps ==
  ASSUME IInv, NEW w, Fits(w), acts' = [acts EXCEPT ![w.id] = w.row],
         exposed' = IF w.key = None /\ Shows(w.row)
                      THEN exposed \union Displayed(w.row.example, acts') ELSE exposed
  PROVE  RecordedWithinRun' /\ exposed' \subseteq Issued'
<1> DEFINE id == w.id
           row == w.row
<1>1. /\ TypeOK /\ exposed \subseteq Issued
      /\ \A a \in exposed \intersect Pending : Recorded(a)
  BY DEF IInv, RecordedWithinRun, Recorded
<1>2. CASE FitsAnswer(w)
  <2>1. exposed' = exposed
    BY <1>2 DEF FitsAnswer
  <2>2. /\ Issued' = Issued /\ Pending' = Pending \ {id}
        /\ \A a \in Issued :
              /\ acts'[a].run = acts[a].run /\ acts'[a].example = acts[a].example
              /\ acts'[a].kind = acts[a].kind /\ acts'[a].support = acts[a].support
    BY <1>1, <1>2, RowAnswered DEF FitsAnswer
  <2>3. Pending \subseteq Issued
    BY DEF Pending
  <2>4. ASSUME NEW a \in exposed \intersect Pending' PROVE Recorded(a)'
    <3>1. a \in Issued /\ Recorded(a)
      BY <1>1, <2>2, <2>3, <2>4
    <3> QED
      BY <2>2, <3>1 DEF Recorded
  <2> QED
    BY <1>1, <2>1, <2>2, <2>4 DEF RecordedWithinRun, Recorded
<1>3. CASE FitsRoot(w) \/ FitsRepair(w)
  <2>1. id \in Act \ Issued /\ row \in Activity /\ row.status = "pending" /\ FitsNext(w)
    BY <1>3 DEF FitsRoot, FitsRepair, FitsNext
  <2>2. /\ Issued' = Issued \union {id} /\ acts'[id] = row
        /\ \A a \in Issued : acts'[a] = acts[a] /\ a # id
        /\ Pending' = Pending \union {id}
    BY <1>1, <2>1, RowAdded
  <2>3. Pending \subseteq Issued
    BY DEF Pending
  <2>4. ASSUME NEW a \in exposed \intersect Pending' PROVE Recorded(a)'
    <3>1. a \in Issued /\ Recorded(a)
      BY <1>1, <2>2, <2>3, <2>4
    <3> QED
      BY <2>2, <3>1 DEF Recorded
  <2>5. ASSUME Shows(row), NEW a \in Displayed(row.example, acts')
        PROVE  a \in Issued' /\ Recorded(a)'
    <3>1. a \in Issued' /\ a \in Pending' /\ acts'[a].example = row.example
      BY <2>5 DEF Displayed, Issued, Pending
    <3>2. CASE a = id
      BY <2>2, <2>5, <3>1, <3>2 DEF Recorded, Shows
    <3>3. CASE a # id
      <4>1. a \in Pending /\ a \in Issued
        BY <2>2, <2>3, <3>1, <3>3
      <4>2. acts[a].run # row.run
        BY <2>1, <4>1 DEF FitsNext, Of
      <4> QED
        BY <2>2, <3>1, <4>1, <4>2 DEF Recorded
    <3> QED
      BY <3>2, <3>3
  <2> HIDE DEF id, row
  <2>6. exposed' \subseteq Issued'
    BY <1>1, <2>2, <2>5 DEF row
  <2>7. \A a \in exposed' \intersect Pending' : Recorded(a)'
    BY <2>4, <2>5 DEF row
  <2> QED
    BY <2>6, <2>7 DEF RecordedWithinRun, Recorded
<1> QED
  BY <1>2, <1>3 DEF Fits

-----------------------------------------------------------------------------
(* Every step keeps the invariant.                                         *)

LEMMA FitsStays ==
  ASSUME UNCHANGED acts, NEW w, Fits(w)
  PROVE  Fits(w)'
<1>1. /\ Issued' = Issued /\ Pending' = Pending /\ Roots' = Roots
      /\ \A r : Of(r)' = Of(r)
      /\ \A d : RowsOf(d)' = RowsOf(d)
      /\ \A p : Children(p)' = Children(p)
  BY DEF Issued, Pending, Roots, Of, RowsOf, Children
<1>2. FitsRoot(w) => FitsRoot(w)'
  BY <1>1 DEF FitsRoot, FitsNext
<1>3. FitsRepair(w) => FitsRepair(w)'
  BY <1>1 DEF FitsRepair, FitsNext
<1>4. FitsAnswer(w) => FitsAnswer(w)'
  BY <1>1 DEF FitsAnswer
<1> QED
  BY <1>2, <1>3, <1>4 DEF Fits

LEMMA InitInv == Init => IInv
<1> SUFFICES ASSUME Init PROVE IInv
  OBVIOUS
<1>1. TypeOK
  BY LimitAssumption DEF Init, TypeOK
<1>2. Issued = {} /\ Pending = {} /\ Roots = {} /\ \A r : Of(r) = {}
  BY DEF Init, Issued, Pending, Roots, Of
<1>3. Exclusive /\ StagedFits
  BY DEF Init, Exclusive, StagedFits
<1>4. IsFiniteSet({}) /\ Cardinality({}) = 0
  BY FS_EmptySet
<1>5. /\ PendingUnanswered /\ RepairKinds /\ RootSupport /\ exposed \subseteq Issued
      /\ OncePerRunAndWindow /\ OneRepair /\ RecordedWithinRun
  BY <1>2 DEF Init, PendingUnanswered, RepairKinds, RootSupport, OncePerRunAndWindow, OneRepair,
     RecordedWithinRun
<1>6. WithinLimits
  <2>1. \A d : /\ {a \in Issued : acts[a].day = d} = {}
              /\ {a \in Issued : acts[a].day = d} \intersect Roots = {}
              /\ {a \in Issued : acts[a].day = d} \ Roots = {}
              /\ {b \in {a \in Issued : acts[a].day = d} \intersect Roots : acts[b].new} = {}
    BY <1>2
  <2>2. 0 <= TotalLimit /\ 0 <= RootLimit /\ 0 <= RepairLimit /\ 0 <= NewLimit
    BY LimitAssumption
  <2> QED
    BY <1>4, <2>1, <2>2 DEF WithinLimits
<1>7. OneAtATime
  <2> SUFFICES ASSUME NEW r \in Run
               PROVE  Of(r) \intersect Pending = {} /\ {acts[a].seq : a \in Of(r)} = 1..0
    BY <1>2, <1>4 DEF OneAtATime
  <2> QED
    BY <1>2
<1> QED
  BY <1>1, <1>2, <1>3, <1>4, <1>5, <1>6, <1>7 DEF IInv

\* A step that writes no row: what it displays is on the record.
LEMMA QuietStep ==
  ASSUME IInv, UNCHANGED acts, TypeOK', Exclusive', StagedFits',
         NEW B \in SUBSET Issued, \A b \in B : Shows(acts[b]) \/ CanDisclose(b),
         exposed' \subseteq exposed \union UNION {Displayed(acts[b].example, acts) : b \in B}
  PROVE  IInv'
<1>1. RecordedWithinRun' /\ exposed' \subseteq Issued'
  BY DisplayKeeps
<1>2. RowProperties
  BY DEF IInv, RowProperties
<1>3. RowProperties'
  <2>1. Issued' = Issued /\ Pending' = Pending /\ Roots' = Roots
    BY DEF Issued, Pending, Roots
  <2>2. (\A r : Of(r)' = Of(r)) /\ \A p : Children(p)' = Children(p)
    BY DEF Issued, Of, Children
  <2>3. PendingUnanswered' /\ RepairKinds' /\ RootSupport' /\ OncePerRunAndWindow'
    BY <1>2, <2>1 DEF RowProperties, PendingUnanswered, RepairKinds, RootSupport,
       OncePerRunAndWindow
  <2>4. OneRepair'
    BY <1>2, <2>1 DEF RowProperties, OneRepair, Children
  <2>5. OneAtATime'
    BY <1>2, <2>1, <2>2 DEF RowProperties, OneAtATime
  <2>6. WithinLimits'
    BY <1>2, <2>1 DEF RowProperties, WithinLimits
  <2> QED
    BY <1>2, <2>1, <2>3, <2>4, <2>5, <2>6 DEF RowProperties
<1> QED
  BY <1>1, <1>3 DEF IInv, RowProperties

LEMMA CommitStep ==
  ASSUME IInv, NEW t \in Thread, Commit(t)
  PROVE  IInv'
<1>1. PICK w : w = staged[t]
  OBVIOUS
<1>2. /\ pc[t] = "staged" /\ Fits(w) /\ TypeOK /\ owner = t /\ w \in Write \union {None}
  BY <1>1 DEF IInv, StagedFits, Exclusive, TypeOK, Commit
<1>3. /\ acts' = [acts EXCEPT ![w.id] = w.row]
      /\ events' = IF w.key = None THEN events ELSE [events EXCEPT ![w.key] = w.id]
      /\ exposed' = IF w.key = None /\ Shows(w.row)
                      THEN exposed \union Displayed(w.row.example, acts') ELSE exposed
      /\ Finish(t) /\ UNCHANGED <<runs, retired, today>>
  BY <1>1 DEF Commit
<1>4. RecordedWithinRun' /\ exposed' \subseteq Issued'
  BY <1>2, <1>3, CommitKeeps
<1>5. RowProperties'
  BY <1>2, <1>3, RowsAfterNew, RowsAfterAnswer DEF Fits
<1>6. TypeOK'
  <2>1. w.id \in Act /\ w.row \in Activity
    BY <1>2 DEF Fits, FitsRoot, FitsRepair, FitsNext, FitsAnswer, Pending, Issued
  <2>2. acts' \in [Act -> Activity \union {None}]
    BY <1>2, <1>3, <2>1 DEF TypeOK
  <2>3. events' \in [Key -> Act \union {None}]
    BY <1>2, <1>3, <2>1 DEF TypeOK
  <2>4. exposed' \subseteq Act
    BY <1>4 DEF Issued
  <2> QED
    BY <1>2, <1>3, <2>2, <2>3, <2>4 DEF TypeOK, Finish
<1>7. \A u \in Thread : pc'[u] = "idle"
  BY <1>2, <1>3 DEF IInv, Exclusive, Finish, TypeOK
<1>8. Exclusive' /\ StagedFits'
  BY <1>7 DEF Exclusive, StagedFits
<1> QED
  BY <1>4, <1>5, <1>6, <1>8 DEF IInv, RowProperties

LEMMA NextInv == IInv /\ [Next]_vars => IInv'
<1> SUFFICES ASSUME IInv, [Next]_vars PROVE IInv'
  OBVIOUS
<1>1. TypeOK /\ Exclusive /\ StagedFits
  BY DEF IInv
<1>2. ASSUME UNCHANGED acts, NEW t \in Thread, NEW w, w = staged'[t], staged'[t] = staged[t],
             pc[t] = "staged"
      PROVE  Fits(w)'
  BY <1>1, <1>2, FitsStays DEF StagedFits
<1>3. ASSUME UNCHANGED <<acts, threads>> PROVE Exclusive' /\ StagedFits'
  BY <1>1, <1>2, <1>3 DEF Exclusive, StagedFits
<1>4. ASSUME UNCHANGED <<acts, exposed>>, TypeOK', Exclusive', StagedFits' PROVE IInv'
  <2>1. PICK B : B = {}
    OBVIOUS
  <2>2. /\ B \in SUBSET Issued /\ \A b \in B : Shows(acts[b]) \/ CanDisclose(b)
        /\ exposed' \subseteq exposed \union UNION {Displayed(acts[b].example, acts) : b \in B}
    BY <1>4, <2>1
  <2> QED
    BY <1>4, <2>2, QuietStep
<1>5. ASSUME NEW r \in Run, CreateRun(r) PROVE IInv'
  <2>1. TypeOK'
    BY <1>1, <1>5 DEF CreateRun, TypeOK
  <2> QED
    BY <1>3, <1>4, <1>5, <2>1 DEF CreateRun
<1>6. ASSUME NEW r \in Run, Resume(r) PROVE IInv'
  <2>1. PICK B : B = {b \in Of(r) : Shows(acts[b])}
    OBVIOUS
  <2>2. /\ B \in SUBSET Issued /\ \A b \in B : Shows(acts[b])
        /\ exposed' = exposed \union UNION {Displayed(acts[b].example, acts) : b \in B}
    BY <1>6, <2>1 DEF Resume, Of
  <2>3. TypeOK'
    BY <1>1, <1>6, <2>2 DEF Resume, TypeOK, Displayed
  <2>4. UNCHANGED <<acts, threads>>
    BY <1>6 DEF Resume
  <2> QED
    BY <1>3, <2>2, <2>3, <2>4, QuietStep
<1>7. ASSUME NEW t \in Thread, NEW o \in Request, LockProfile(t, o) PROVE IInv'
  <2>1. TypeOK'
    BY <1>1, <1>7 DEF LockProfile, TypeOK
  <2>2. Exclusive' /\ StagedFits'
    <3>1. \A u \in Thread \ {t} : pc'[u] = "idle"
      BY <1>1, <1>7, NoneAssumption DEF LockProfile, Exclusive, TypeOK
    <3>2. pc'[t] = "locked" /\ op'[t] = o /\ owner' = t
      BY <1>1, <1>7 DEF LockProfile, TypeOK
    <3> QED
      BY <3>1, <3>2 DEF Exclusive, StagedFits
  <2> QED
    BY <1>4, <1>7, <2>1, <2>2 DEF LockProfile
<1>8. ASSUME NEW t \in Thread, Decide(t) PROVE IInv'
  <2>1. PICK o : o = op[t]
    OBVIOUS
  <2>2. pc[t] = "locked" /\ owner = t /\ o \in Request
    BY <1>1, <1>8, <2>1 DEF Decide, Exclusive
  <2>3. PICK w \in Writes(o) : staged' = [staged EXCEPT ![t] = w]
    BY <1>8, <2>1 DEF Decide
  <2>4. w \in Write /\ Fits(w)
    BY <2>2, <2>3, DecisionFits
  <2>5. TypeOK'
    BY <1>1, <1>8, <2>3, <2>4 DEF Decide, TypeOK
  <2>6. Fits(w)'
    BY <1>8, <2>4, FitsStays DEF Decide
  <2>7. staged'[t] = w /\ \A u \in Thread \ {t} : pc'[u] = "idle"
    BY <1>1, <1>8, <2>2, <2>3 DEF Decide, Exclusive, TypeOK
  <2>8. Exclusive' /\ StagedFits'
    BY <1>1, <1>8, <2>2, <2>6, <2>7 DEF Decide, Exclusive, StagedFits, TypeOK
  <2> QED
    BY <1>4, <1>8, <2>5, <2>8 DEF Decide
<1>9. ASSUME NEW t \in Thread, Commit(t) PROVE IInv'
  BY <1>9, CommitStep
<1>10. ASSUME NEW t \in Thread, GiveUp(t) PROVE IInv'
  <2>1. TypeOK'
    BY <1>1, <1>10 DEF GiveUp, Finish, TypeOK
  <2>2. \A u \in Thread : pc'[u] = "idle"
    BY <1>1, <1>10 DEF GiveUp, Finish, Exclusive, TypeOK
  <2> QED
    BY <1>4, <1>10, <2>1, <2>2 DEF GiveUp, Exclusive, StagedFits
<1>11. ASSUME NEW a \in Act, Feedback(a) PROVE IInv'
  <2>1. a \in Issued /\ CanDisclose(a)
    BY <1>11 DEF Feedback, CanDisclose
  <2>2. PICK B : B = {a}
    OBVIOUS
  <2>3. /\ B \in SUBSET Issued /\ \A b \in B : Shows(acts[b]) \/ CanDisclose(b)
        /\ exposed' \subseteq exposed \union UNION {Displayed(acts[b].example, acts) : b \in B}
    BY <1>11, <2>1, <2>2 DEF Feedback
  <2>4. TypeOK'
    BY <1>1, <1>11 DEF Feedback, TypeOK, Displayed
  <2>5. UNCHANGED <<acts, threads>>
    BY <1>11 DEF Feedback
  <2> QED
    BY <1>3, <2>3, <2>4, <2>5, QuietStep
<1>12. ASSUME NextDay PROVE IInv'
  <2>1. TypeOK'
    BY <1>1, <1>12, LimitAssumption DEF NextDay, TypeOK
  <2> QED
    BY <1>3, <1>4, <1>12, <2>1 DEF NextDay
<1>13. ASSUME RetirePolicy PROVE IInv'
  <2>1. TypeOK'
    BY <1>1, <1>13 DEF RetirePolicy, TypeOK
  <2> QED
    BY <1>3, <1>4, <1>13, <2>1 DEF RetirePolicy
<1>14. ASSUME UNCHANGED vars PROVE IInv'
  <2>1. TypeOK'
    BY <1>1, <1>14 DEF vars, TypeOK
  <2> QED
    BY <1>3, <1>4, <1>14, <2>1 DEF vars
<1> QED
  BY <1>5, <1>6, <1>7, <1>8, <1>9, <1>10, <1>11, <1>12, <1>13, <1>14 DEF Next

-----------------------------------------------------------------------------
(* The theorems.                                                           *)

\* The inductive invariant: one transaction at a time, which writes only what
\* fits the stored rows, and what the rows and the displays then satisfy.
THEOREM Invariance == Spec => []IInv
<1>1. Init => IInv
  BY InitInv
<1>2. IInv /\ [Next]_vars => IInv'
  BY NextInv
<1> QED
  BY <1>1, <1>2, PTL DEF Spec

\* Every run, activity, event and transaction is what its table allows.
THEOREM TypeCorrect == Spec => []TypeOK
<1>1. IInv => TypeOK
  BY DEF IInv
<1> QED
  BY <1>1, Invariance, PTL

\* The four ceilings of a window hold however many tabs issue at the same time.
THEOREM Limits == Spec => []WithinLimits
<1>1. IInv => WithinLimits
  BY DEF IInv
<1> QED
  BY <1>1, Invariance, PTL

\* next_activity issues no example twice in a run or a window.
THEOREM NoExampleTwice == Spec => []OncePerRunAndWindow
<1>1. IInv => OncePerRunAndWindow
  BY DEF IInv
<1> QED
  BY <1>1, Invariance, PTL

\* A run waits for one answer at most and numbers its activities without a gap.
THEOREM Sequence == Spec => []OneAtATime
<1>1. IInv => OneAtATime
  BY DEF IInv
<1> QED
  BY <1>1, Invariance, PTL

\* repair makes at most one child, of a failed root, after it in its run.
THEOREM RepairLink == Spec => []OneRepair
<1>1. IInv => OneRepair
  BY DEF IInv
<1> QED
  BY <1>1, Invariance, PTL

\* Neither feedback nor an answer shown with an activity or on resume is kept
\* off the record of an exercise of its run that still waits.
THEOREM Disclosure == Spec => []RecordedWithinRun
<1>1. IInv => RecordedWithinRun
  BY DEF IInv
<1> QED
  BY <1>1, Invariance, PTL
=============================================================================
