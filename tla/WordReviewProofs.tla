-------------------------- MODULE WordReviewProofs --------------------------
(***************************************************************************)
(* Proofs about WordReview, for every number of requests, every length of  *)
(* the day and the delay, and every maximum of the intervals.              *)
(***************************************************************************)
EXTENDS WordReview, TLAPS

Column == {"status", "weak", "due", "interval", "streak", "last"}

\* What a request that is not a rating is going to write, whatever it loaded: no
\* recall of its own, and no due instant that anyone has rated.
WritesPlainly(q) ==
  /\ q.op \in Learning \union Batch => q.at \in Nat /\ q.at <= now /\ now < q.at + Day
  /\ "due" \in DOMAIN q.write =>
       \/ q.write.due = NoTime
       \/ q.op \in Learning \union Batch /\ q.write.due = q.at + Day
  /\ "streak" \in DOMAIN q.write => q.write.streak = 0
  /\ "status" \in DOMAIN q.write => q.write.status \in {"seen", "reviewing"}
  /\ "weak" \in DOMAIN q.write => q.write.weak \in BOOLEAN
  /\ "interval" \in DOMAIN q.write => q.write.interval \in Nat
  /\ "last" \in DOMAIN q.write => q.write.last \in Nat
  /\ IF q.insert
       THEN /\ q.op \in Learning /\ q.write \in ProgressRow
            /\ q.write.due = q.at + Day /\ q.write.interval = 0
       ELSE row # None

\* What a rating that holds the row is going to write is computed from the row as
\* it is, which was due.
WritesRating(t) ==
  /\ lock = t /\ row # None
  /\ req[t].at \in Nat /\ req[t].at <= now
  /\ req[t].due = row.due
  /\ row.due # NoTime => row.due <= req[t].at
  /\ \A key \in keys : key[1] # NoTime => key[1] <= req[t].at
  /\ req[t].write = Update(row, Rated(row, req[t].op.rating, req[t].at))

Control == /\ now \in Nat
           /\ DOMAIN pc = Thread /\ DOMAIN req = Thread
           /\ row \in ProgressRow \union {None}
           /\ recalls \in Nat
           /\ \A key \in keys : key[1] \in Due /\ (key[1] # NoTime => key[1] <= now)
           /\ \A t \in Thread : pc[t] = "selected" =>
                req[t].op \in Learning \union Batch /\ (req[t].op \in Batch => row # None)
           /\ \A t \in Thread : pc[t] = "open" => req[t].op \in Operation

WritesWell(t) == pc[t] = "open" => IF req[t].op \in Grading THEN WritesRating(t)
                                   ELSE \A q \in {req[t]} : WritesPlainly(q)
Writes == \A t \in Thread : WritesWell(t)

IInv == Control /\ Writes /\ RatedOnce /\ LearnedEarned

-----------------------------------------------------------------------------
(* What the operations compute, and what an update makes of the row.       *)

LEMMA Columns ==
  ASSUME NEW r \in ProgressRow
  PROVE  /\ DOMAIN r = Column
         /\ r.status \in {"seen", "reviewing", "learned"} /\ r.weak \in BOOLEAN
         /\ r.due \in Due /\ r.interval \in Nat /\ r.streak \in Nat /\ r.last \in Nat
BY DEF ProgressRow, Column

\* An update names the columns that differ from what was loaded.
LEMMA UpdateNames ==
  ASSUME NEW r \in ProgressRow, NEW computed, NEW w, w = Update(r, computed)
  PROVE  \A c \in Column : /\ c \in DOMAIN w <=> computed[c] # r[c]
                           /\ c \in DOMAIN w => w[c] = computed[c]
<1>1. w = [c \in {c \in Column : computed[c] # r[c]} |-> computed[c]]
  BY Columns, RowAssumption DEF Update
<1> QED
  BY <1>1

\* What is computed from the row as it is replaces the row.
LEMMA UpdateOfRow ==
  ASSUME NEW r \in ProgressRow, NEW computed \in ProgressRow
  PROVE  Updated(r, Update(r, computed)) = computed
<1>5. PICK write : write = Update(r, computed)
  OBVIOUS
<1>1. /\ DOMAIN r = Column
      /\ \A c \in Column : (IF c \in DOMAIN write THEN write[c] ELSE r[c]) = computed[c]
  BY <1>5, UpdateNames, Columns
<1>2. [c \in DOMAIN r |-> IF c \in DOMAIN write THEN write[c] ELSE r[c]]
        = [c \in Column |-> computed[c]]
  BY <1>1
<1>3. Updated(r, Update(r, computed)) = [c \in Column |-> computed[c]]
  BY <1>2, <1>5 DEF Updated
<1>4. computed = [c \in Column |-> computed[c]]
  BY DEF ProgressRow, Column
<1> QED
  BY <1>3, <1>4

\* A rating's row is due later than the rating, and recalls as it says.
LEMMA RatedRow ==
  ASSUME NEW r \in ProgressRow, NEW rating \in Rating, NEW at \in Nat
  PROVE  /\ Rated(r, rating, at) \in ProgressRow
         /\ Rated(r, rating, at).due \in Nat /\ Rated(r, rating, at).due > at
         /\ Rated(r, rating, at).streak = (IF Recalled(rating) THEN r.streak + 1 ELSE 0)
         /\ Rated(r, rating, at).status = "learned" => Rated(r, rating, at).streak >= 3
<1> DEFINE days == RatedInterval(r.interval, rating)
           streak == StreakAfter(r.streak, rating)
<1>1. r.interval \in Nat /\ r.streak \in Nat /\ r.weak \in BOOLEAN
  BY Columns
<1>2. days \in Nat /\ (rating # "again" => days >= 1)
  BY <1>1, WordAssumption DEF RatedInterval, Grown, Lesser, Rating
<1>3. streak \in Nat /\ streak = IF Recalled(rating) THEN r.streak + 1 ELSE 0
  BY <1>1 DEF StreakAfter
<1>4. ASSUME NEW n \in Nat PROVE n * Day \in Nat /\ (n >= 1 => n * Day >= 1)
  BY WordAssumption
<1> HIDE DEF days, streak
<1>5. PICK due : due = IF rating = "again" THEN at + Delay ELSE at + days * Day
  OBVIOUS
<1>6. due \in Nat /\ due > at
  BY <1>2, <1>4, <1>5, WordAssumption
<1>7. PICK weak \in BOOLEAN : weak = (rating = "again" \/ (rating = "hard" /\ r.weak))
  OBVIOUS
<1>8. PICK status : status = IF streak >= 3 THEN "learned" ELSE "reviewing"
  OBVIOUS
<1>9. Rated(r, rating, at) = [status |-> status, weak |-> weak, due |-> due,
                              interval |-> days, streak |-> streak, last |-> at]
  BY <1>5, <1>7, <1>8 DEF Rated, days, streak
<1> QED
  BY <1>2, <1>3, <1>6, <1>8, <1>9 DEF ProgressRow, Due

LEMMA LoadedPlainly ==
  ASSUME Control, NEW o \in Learning \union Batch \union Answering,
         o \in Learning \/ row # None, NEW q, q = Loaded(o)
  PROVE  WritesPlainly(q)
<1>1. /\ now \in Nat /\ Day \in Nat \ {0} /\ q.op = o /\ (q.insert <=> row = None)
      /\ q.write = Update(row, Computed(row, o, now))
      /\ o \in Learning \union Batch => q.at = now
  BY WordAssumption DEF Loaded, Control, Learning, Batch, Answering
<1>2. CASE row = None
  <2>1. o \in Learning /\ o.name = "learn"
    BY <1>2 DEF Learning
  <2>2. q.write = [Unscheduled EXCEPT !.due = now + Day, !.last = now]
    BY <1>1, <1>2, <2>1 DEF Update, Computed, Learned
  <2>3. q.write = [status |-> "seen", weak |-> FALSE, due |-> now + Day, interval |-> 0,
                   streak |-> 0, last |-> now]
    BY <2>2 DEF Unscheduled
  <2>4. q.write \in ProgressRow
    BY <1>1, <2>3 DEF ProgressRow, Due
  <2>5. /\ q.write.status = "seen" /\ q.write.weak = FALSE /\ q.write.due = now + Day
        /\ q.write.interval = 0 /\ q.write.streak = 0 /\ q.write.last = now
    BY <2>3
  <2>6. q.write.weak \in BOOLEAN
    BY <2>5
  <2>7. q.insert /\ q.write \in ProgressRow
    BY <1>1, <1>2, <2>4
  <2>8. q.at \in Nat /\ q.at <= now /\ now < q.at + Day /\ q.op \in Learning
        /\ q.write.due = q.at + Day /\ now \in Nat
    BY <1>1, <2>1, <2>5
  <2> HIDE DEF ProgressRow
  <2> QED
    BY <2>5, <2>6, <2>7, <2>8 DEF WritesPlainly
<1>3. CASE row # None
  <2> DEFINE c == Computed(row, o, now)
  <2>1. row \in ProgressRow /\ ~q.insert
    BY <1>1, <1>3 DEF Control
  <2> HIDE DEF c
  <2>2. \A x \in Column : x \in DOMAIN q.write => q.write[x] = c[x] /\ c[x] # row[x]
    BY <1>1, <2>1, UpdateNames DEF c
  <2> USE DEF Column
  <2>3. CASE o \in Learning
    <3>1. c = [row EXCEPT !.status = "seen", !.due = now + Day, !.last = now]
      BY <1>3, <2>3 DEF c, Computed, Learned, Learning
    <3>2. /\ c.status = "seen" /\ c.due = now + Day /\ c.last = now
          /\ c.weak = row.weak /\ c.interval = row.interval /\ c.streak = row.streak
      BY <2>1, <3>1, Columns
    <3> QED
      BY <1>1, <1>3, <2>1, <2>2, <2>3, <3>2 DEF WritesPlainly
  <2>4. CASE o \in Batch
    <3>1. c = [row EXCEPT !.status = IF @ = "learned" THEN @ ELSE "reviewing",
                          !.due = now + Day, !.streak = 0, !.last = now]
      BY <1>3, <2>4 DEF c, Computed, Batched, Batch
    <3>2. /\ c.status = "reviewing" \/ c.status = row.status
          /\ c.due = now + Day /\ c.last = now
          /\ c.weak = row.weak /\ c.interval = row.interval /\ c.streak = 0
      BY <2>1, <3>1, Columns
    <3> QED
      BY <1>1, <1>3, <2>1, <2>2, <2>4, <3>2 DEF WritesPlainly
  <2>5. CASE o \in Answering
    <3>1. c = Answered(row, o) /\ o.outcome \in {"wrong", "right", "right in a weekly quiz"}
      BY <1>3, <2>5 DEF c, Computed, Answering
    <3>2. /\ c.status = row.status /\ c.last = row.last /\ c.weak \in BOOLEAN
          /\ c.due = row.due \/ c.due = NoTime
          /\ c.interval = row.interval /\ c.streak = row.streak
      BY <2>1, <3>1, Columns DEF Answered
    <3>3. o \notin Learning \union Batch
      BY <2>5 DEF Answering, Learning, Batch
    <3> QED
      BY <1>1, <1>3, <2>1, <2>2, <2>5, <3>2, <3>3 DEF WritesPlainly
  <2> QED
    BY <2>3, <2>4, <2>5
<1> QED
  BY <1>2, <1>3

-----------------------------------------------------------------------------
(* Every step keeps the invariant.                                         *)

\* A step that leaves the row as it is.
LEMMA StepOfOthers ==
  ASSUME IInv, UNCHANGED <<now, row, keys, recalls>>, Control', Writes'
  PROVE  IInv'
<1>1. LearnedEarned'
  BY DEF IInv, LearnedEarned
<1>2. RatedOnce'
  <2>1. ASSUME NEW key \in keys, key[1] # NoTime PROVE row.due # key[1]
    BY <2>1 DEF IInv, RatedOnce
  <2>2. ASSUME NEW t \in Thread, Grades(t)' PROVE req'[t].due = row.due
    BY <2>2 DEF Grades, Writes, WritesWell, WritesRating
  <2> QED
    BY <2>1, <2>2 DEF RatedOnce
<1> QED
  BY <1>1, <1>2 DEF IInv

\* A write that is not a rating's keeps what the row and the ratings satisfy.
LEMMA PlainCommit ==
  ASSUME IInv, NEW q, WritesPlainly(q), q.op \in Learning \union Batch \union Answering,
         IF q.insert THEN row = None /\ row' = q.write ELSE row' = Updated(row, q.write)
  PROVE  /\ row' \in ProgressRow
         /\ \A key \in keys : key[1] # NoTime => row'.due # key[1]
         /\ row'.status = "learned" => recalls >= 3
         /\ row'.streak <= recalls
<1>1. /\ now \in Nat /\ Day \in Nat \ {0} /\ recalls \in Nat
      /\ \A key \in keys : key[1] # NoTime => key[1] \in Nat /\ key[1] <= now
      /\ row \in ProgressRow => /\ row.status = "learned" => recalls >= 3
                                /\ row.streak <= recalls
                                /\ \A key \in keys : key[1] # NoTime => row.due # key[1]
      /\ row \in ProgressRow \union {None} /\ None \notin ProgressRow
  BY WordAssumption, RowAssumption DEF IInv, Control, LearnedEarned, RatedOnce, Due
<1>2. "due" \in DOMAIN q.write =>
        \/ q.write.due = NoTime
        \/ q.write.due \in Nat /\ now < q.write.due
  BY <1>1 DEF WritesPlainly
<1>3. CASE q.insert
  <2>1. q.write \in ProgressRow /\ row' = q.write
    BY <1>3 DEF WritesPlainly
  <2>2. /\ row'.streak = 0 /\ row'.status # "learned"
        /\ row'.due = NoTime \/ (row'.due \in Nat /\ now < row'.due)
    BY <1>2, <2>1, Columns DEF WritesPlainly, Column
  <2> QED
    BY <1>1, <2>1, <2>2
<1>4. CASE ~q.insert
  <2>1. row \in ProgressRow /\ row' = Updated(row, q.write)
    BY <1>1, <1>4 DEF WritesPlainly
  <2>2. row' = [c \in Column |-> IF c \in DOMAIN q.write THEN q.write[c] ELSE row[c]]
    BY <2>1, Columns DEF Updated
  <2>3. /\ row'.status \in {"seen", "reviewing"} \/ row'.status = row.status
        /\ row'.due \in Due /\ row'.interval \in Nat /\ row'.last \in Nat
        /\ row'.streak = 0 \/ row'.streak = row.streak
        /\ row'.due = row.due \/ row'.due = NoTime \/ (row'.due \in Nat /\ now < row'.due)
    BY <1>2, <2>1, <2>2, Columns DEF Column, WritesPlainly, Due
  <2>4. row'.weak \in BOOLEAN
    BY <2>1, <2>2, Columns DEF Column, WritesPlainly
  <2>5. row'.status \in {"seen", "reviewing", "learned"} /\ row'.streak \in Nat
    BY <2>1, <2>3, Columns
  <2>6. row' \in ProgressRow
    <3>1. row' = [status |-> row'.status, weak |-> row'.weak, due |-> row'.due,
                  interval |-> row'.interval, streak |-> row'.streak, last |-> row'.last]
      BY <2>2 DEF Column
    <3> QED
      BY <2>3, <2>4, <2>5, <3>1 DEF ProgressRow
  <2> QED
    BY <1>1, <2>1, <2>3, <2>6
<1> QED
  BY <1>3, <1>4

\* Nor does a write that another request is preparing change in its effect.
LEMMA OthersWrite ==
  ASSUME IInv, NEW u \in Thread, req'[u] = req[u], pc'[u] = pc[u],
         UNCHANGED <<now, row, keys>>, lock = u => lock' = u
  PROVE  WritesWell(u)'
<1>1. WritesWell(u)
  BY DEF IInv, Writes
<1>2. WritesRating(u) => WritesRating(u)'
  BY DEF WritesRating
<1>3. \A q \in {req[u]} : WritesPlainly(q) => WritesPlainly(q)'
  BY DEF WritesPlainly
<1> QED
  BY <1>1, <1>2, <1>3 DEF WritesWell

LEMMA InitInv == Init => IInv
<1> SUFFICES ASSUME Init PROVE IInv
  OBVIOUS
<1>1. /\ row \in ProgressRow \union {None} /\ None \notin ProgressRow
      /\ row # None => row.status # "learned" /\ row.streak \in Nat
  <2>1. row \in {None, Unscheduled, InReview(2), InReview(4)}
    BY DEF Init
  <2>2. Unscheduled \in ProgressRow /\ Unscheduled.status # "learned"
    BY DEF Unscheduled, ProgressRow, Due
  <2>3. \A n \in Nat : InReview(n) \in ProgressRow /\ InReview(n).status # "learned"
    BY WordAssumption DEF InReview, ProgressRow, Due
  <2> QED
    BY <2>1, <2>2, <2>3, RowAssumption, Columns
<1>2. recalls \in Nat /\ (row # None => row.streak <= recalls)
  BY <1>1 DEF Init
<1>3. now \in Nat /\ keys = {} /\ \A t \in Thread : pc[t] = "idle"
  BY WordAssumption DEF Init
<1>4. DOMAIN pc = Thread /\ DOMAIN req = Thread
  BY DEF Init
<1>5. Control
  BY <1>1, <1>2, <1>3, <1>4 DEF Control
<1>6. Writes
  BY <1>3 DEF Writes, WritesWell
<1>7. RatedOnce
  BY <1>3 DEF RatedOnce
<1>8. LearnedEarned
  BY <1>1, <1>2 DEF LearnedEarned
<1> QED
  BY <1>5, <1>6, <1>7, <1>8 DEF IInv

\* A request begins, or reads the row: what it is going to write is well.
LEMMA BeginStep ==
  ASSUME IInv, NEW t \in Thread, NEW where \in {"selected", "open"}, NEW q,
         Begin(t, where, q), q.op \in Operation,
         where = "selected" => q.op \in Learning \union Batch /\ (q.op \in Batch => row # None),
         WritesWell(t)', lock' = lock \/ (lock = None /\ lock' = t)
  PROVE  IInv'
<1>1. /\ pc' = [pc EXCEPT ![t] = where] /\ req' = [req EXCEPT ![t] = q]
      /\ UNCHANGED <<now, row, keys, memory, recalls>>
      /\ DOMAIN pc = Thread /\ DOMAIN req = Thread
  BY DEF Begin, evidence, IInv, Control
<1>2. pc'[t] = where /\ req'[t] = q
      /\ \A u \in Thread \ {t} : pc'[u] = pc[u] /\ req'[u] = req[u]
  BY <1>1
<1>3. Control'
  BY <1>1, <1>2 DEF IInv, Control
<1>4. ASSUME NEW u \in Thread PROVE WritesWell(u)'
  <2>1. CASE u = t
    BY <2>1
  <2>2. CASE u # t
    BY <1>1, <1>2, <2>2, OthersWrite, WordAssumption
  <2> QED
    BY <2>1, <2>2
<1> QED
  BY <1>1, <1>3, <1>4, StepOfOthers DEF Writes

\* Loading computes a plain write, of which the lock and the streak know nothing.
LEMMA LoadStep ==
  ASSUME IInv, NEW t \in Thread, NEW o \in Learning \union Batch \union Answering,
         o \in Learning \/ row # None, Begin(t, "open", Loaded(o)), UNCHANGED lock
  PROVE  IInv'
<1>1. PICK q : q = Loaded(o)
  OBVIOUS
<1>2. WritesPlainly(q) /\ q.op = o
  BY <1>1, LoadedPlainly DEF IInv, Loaded
<1>3. o \notin Grading /\ o \in Operation
  BY DEF Learning, Batch, Answering, Grading, Operation
<1>4. req'[t] = q /\ UNCHANGED <<now, row>>
  BY <1>1 DEF Begin, IInv, Control
<1>5. WritesPlainly(q)'
  BY <1>2, <1>4 DEF WritesPlainly
<1>6. WritesWell(t)'
  BY <1>2, <1>3, <1>4, <1>5 DEF WritesWell
<1> QED
  BY <1>1, <1>2, <1>3, <1>6, BeginStep

LEMMA GradeStep ==
  ASSUME IInv, NEW t \in Thread, NEW rating \in Rating, LockForGrade(t, rating)
  PROVE  IInv'
<1>1. PICK o : o = [name |-> "grade", rating |-> rating]
  OBVIOUS
<1>2. PICK q : q = Loaded(o)
  OBVIOUS
<1>3. o \in Grading /\ o \in Operation /\ o \notin Answering /\ o.rating = rating
      /\ o.name = "grade"
  BY <1>1 DEF Grading, Operation, Answering
<1>4. q.op = o /\ q.at = now /\ q.due = row.due
      /\ q.write = Update(row, Rated(row, rating, now))
  BY <1>2, <1>3 DEF Loaded, Computed
<1>5. /\ lock = None /\ lock' = t /\ row # None /\ IsDue(row)
      /\ Begin(t, "open", q) /\ req'[t] = q /\ UNCHANGED <<now, row, keys>>
  BY <1>1, <1>2 DEF LockForGrade, Begin, evidence, IInv, Control
<1>6. WritesRating(t)'
  BY <1>3, <1>4, <1>5 DEF WritesRating, IInv, Control, IsDue
<1>7. WritesWell(t)'
  BY <1>3, <1>4, <1>5, <1>6 DEF WritesWell
<1> QED
  BY <1>3, <1>4, <1>5, <1>7, BeginStep

LEMMA CommitStep ==
  ASSUME IInv, NEW t \in Thread, Commit(t)
  PROVE  IInv' /\ row' \in ProgressRow
<1>1. PICK q : q = req[t]
  OBVIOUS
<1>2. /\ pc[t] = "open" /\ lock \in {t, None} /\ UNCHANGED now
      /\ CommitLearned(t) \/ CommitOther(t) \/ CommitGrade(t)
      /\ pc' = [pc EXCEPT ![t] = "idle"] /\ req' = [req EXCEPT ![t] = None]
      /\ Control /\ Writes
  BY DEF Commit, End, IInv
<1>3. /\ pc'[t] = "idle" /\ \A u \in Thread \ {t} : pc'[u] = pc[u] /\ req'[u] = req[u]
      /\ DOMAIN pc' = Thread /\ DOMAIN req' = Thread
  BY <1>2 DEF Control
<1>4. \A u \in Thread \ {t} : pc[u] = "open" => req[u].op \notin Grading
  BY <1>2, WordAssumption DEF Writes, WritesWell, WritesRating
<1>5. ASSUME row' \in ProgressRow PROVE Writes'
  <2>1. row' # None
    BY <1>5, RowAssumption
  <2> SUFFICES ASSUME NEW u \in Thread \ {t}, pc[u] = "open" PROVE WritesWell(u)'
    BY <1>3 DEF Writes, WritesWell
  <2>2. PICK p : p = req[u]
    OBVIOUS
  <2>3. p.op \notin Grading /\ WritesPlainly(p)
    BY <1>2, <1>4, <2>2 DEF Writes, WritesWell
  <2>4. WritesPlainly(p)'
    BY <1>2, <2>1, <2>3 DEF WritesPlainly
  <2> QED
    BY <1>3, <2>2, <2>3, <2>4 DEF WritesWell
<1>6. \A u \in Thread : ~Grades(u)'
  BY <1>3, <1>4 DEF Grades
<1>7. ASSUME row' \in ProgressRow, recalls' \in Nat,
             \A key \in keys' : key[1] \in Due /\ (key[1] # NoTime => key[1] <= now)
      PROVE  Control'
  BY <1>2, <1>3, <1>7, RowAssumption DEF Control
<1>8. CASE CommitLearned(t) \/ CommitOther(t)
  <2>1. /\ q.op \in Learning \union Batch \union Answering
        /\ IF q.insert THEN row = None /\ row' = q.write ELSE row' = Updated(row, q.write)
        /\ UNCHANGED <<keys, recalls>>
    <3>1. CASE CommitLearned(t)
      BY <1>1, <3>1 DEF CommitLearned
    <3>2. CASE CommitOther(t)
      <4>1. q.op \in Batch \union Answering /\ row' = Updated(row, q.write)
            /\ UNCHANGED <<keys, recalls>>
        BY <1>1, <3>2 DEF CommitOther
      <4>2. q.op \notin Learning /\ q.op \notin Grading
        BY <4>1 DEF Batch, Answering, Learning, Grading
      <4>3. ~q.insert
        BY <1>1, <1>2, <4>2 DEF Writes, WritesWell, WritesPlainly
      <4> QED
        BY <4>1, <4>3
    <3> QED
      BY <1>8, <3>1, <3>2
  <2>2. q.op \notin Grading
    BY <2>1 DEF Learning, Batch, Answering, Grading
  <2>3. WritesPlainly(q)
    BY <1>1, <1>2, <2>2 DEF Writes, WritesWell
  <2>4. /\ row' \in ProgressRow
        /\ \A key \in keys : key[1] # NoTime => row'.due # key[1]
        /\ row'.status = "learned" => recalls >= 3
        /\ row'.streak <= recalls
    BY <2>1, <2>3, PlainCommit
  <2>5. Control' /\ Writes'
    BY <1>2, <1>5, <1>7, <2>1, <2>4 DEF Control
  <2>6. RatedOnce' /\ LearnedEarned'
    BY <1>6, <2>1, <2>4 DEF RatedOnce, LearnedEarned
  <2> QED
    BY <2>4, <2>5, <2>6 DEF IInv
<1>9. CASE CommitGrade(t)
  <2>1. /\ q.op \in Grading
        /\ row' = Updated(row, q.write)
        /\ keys' = keys \union {ReviewKey(q)}
        /\ recalls' = IF Recalled(q.op.rating) THEN recalls + 1 ELSE 0
    BY <1>1, <1>9 DEF CommitGrade
  <2>2. /\ row \in ProgressRow /\ q.at \in Nat /\ q.at <= now /\ q.due = row.due
        /\ row.due # NoTime => row.due <= q.at
        /\ \A key \in keys : key[1] # NoTime => key[1] <= q.at
        /\ q.write = Update(row, Rated(row, q.op.rating, q.at))
    BY <1>1, <1>2, <2>1 DEF Writes, WritesWell, WritesRating, Control
  <2>3. PICK r : r = Rated(row, q.op.rating, q.at)
    OBVIOUS
  <2>4. q.op.rating \in Rating
    BY <2>1 DEF Grading
  <2>5. /\ r \in ProgressRow /\ r.due \in Nat /\ r.due > q.at
        /\ r.streak = (IF Recalled(q.op.rating) THEN row.streak + 1 ELSE 0)
        /\ r.status = "learned" => r.streak >= 3
    BY <2>2, <2>3, <2>4, RatedRow
  <2>6. row' = r
    BY <2>1, <2>2, <2>3, <2>5, UpdateOfRow
  <2>7. row.due \in Due /\ row.streak \in Nat /\ recalls \in Nat /\ row.streak <= recalls
    BY <1>2, <2>2, RowAssumption, Columns DEF Control, IInv, LearnedEarned
  <2>8. ReviewKey(q)[1] = row.due
    BY <2>2 DEF ReviewKey
  <2>9. \A key \in keys' : /\ key[1] \in Due
                           /\ key[1] # NoTime => key[1] \in Nat /\ key[1] <= q.at
    BY <1>2, <2>1, <2>2, <2>7, <2>8 DEF Control, Due
  <2>10. recalls' \in Nat /\ r.streak <= recalls' /\ (r.status = "learned" => recalls' >= 3)
    <3>1. CASE Recalled(q.op.rating)
      BY <2>1, <2>5, <2>7, <3>1
    <3>2. CASE ~Recalled(q.op.rating)
      BY <2>1, <2>5, <2>7, <3>2
    <3> QED
      BY <3>1, <3>2
  <2>11. now \in Nat
    BY <1>2 DEF Control
  <2>12. Control' /\ Writes'
    BY <1>5, <1>7, <2>2, <2>5, <2>6, <2>9, <2>10, <2>11
  <2>13. RatedOnce'
    BY <1>6, <2>2, <2>5, <2>6, <2>9 DEF RatedOnce
  <2>14. LearnedEarned'
    BY <2>6, <2>10 DEF LearnedEarned
  <2> QED
    BY <2>5, <2>6, <2>12, <2>13, <2>14 DEF IInv
<1> QED
  BY <1>2, <1>8, <1>9

LEMMA GiveUpStep ==
  ASSUME IInv, NEW t \in Thread, GiveUp(t)
  PROVE  IInv'
<1>1. /\ pc' = [pc EXCEPT ![t] = "idle"] /\ req' = [req EXCEPT ![t] = None]
      /\ lock' = IF lock = t THEN None ELSE lock
      /\ UNCHANGED <<now, row, keys, memory, recalls>>
      /\ DOMAIN pc = Thread /\ DOMAIN req = Thread
  BY DEF GiveUp, End, evidence, IInv, Control
<1>2. pc'[t] = "idle" /\ \A u \in Thread \ {t} : pc'[u] = pc[u] /\ req'[u] = req[u]
  BY <1>1
<1>3. Control'
  BY <1>1, <1>2 DEF IInv, Control
<1>4. Writes'
  <2>1. WritesWell(t)'
    BY <1>2 DEF WritesWell
  <2>2. \A u \in Thread \ {t} : WritesWell(u)'
    BY <1>1, <1>2, OthersWrite
  <2> QED
    BY <2>1, <2>2 DEF Writes
<1> QED
  BY <1>1, <1>3, <1>4, StepOfOthers

LEMMA TickStep ==
  ASSUME IInv, Tick
  PROVE  IInv'
<1>1. /\ now' = now + 1 /\ now \in Nat /\ Day \in Nat
      /\ UNCHANGED <<row, keys, recalls, lock, pc, req>>
      /\ \A t \in Thread : pc[t] = "open" /\ req[t].at # NoTime => now' < req[t].at + Day
      /\ Control /\ Writes
  BY WordAssumption DEF Tick, requests, evidence, IInv, Control
<1>2. Control'
  <2>1. \A key \in keys : key[1] # NoTime => key[1] <= now'
    BY <1>1 DEF Control, Due
  <2> QED
    BY <1>1, <2>1 DEF Control
<1>3. Writes'
  <2> SUFFICES ASSUME NEW t \in Thread, pc[t] = "open" PROVE WritesWell(t)'
    BY <1>1 DEF Writes, WritesWell
  <2>1. PICK q : q = req[t]
    OBVIOUS
  <2>2. CASE q.op \in Grading
    <3>1. WritesRating(t)
      BY <1>1, <2>1, <2>2 DEF Writes, WritesWell
    <3>2. WritesRating(t)'
      BY <1>1, <3>1 DEF WritesRating
    <3> QED
      BY <1>1, <2>1, <2>2, <3>2 DEF WritesWell
  <2>3. CASE q.op \notin Grading
    <3>1. WritesPlainly(q)
      BY <1>1, <2>1, <2>3 DEF Writes, WritesWell
    <3>2. WritesPlainly(q)'
      BY <1>1, <2>1, <3>1, WordAssumption DEF WritesPlainly
    <3> QED
      BY <1>1, <2>1, <2>3, <3>2 DEF WritesWell
  <2> QED
    BY <2>2, <2>3
<1>4. RatedOnce' /\ LearnedEarned'
  BY <1>1 DEF IInv, RatedOnce, LearnedEarned, Grades
<1> QED
  BY <1>2, <1>3, <1>4 DEF IInv

LEMMA NextInv == IInv /\ [Next]_vars => IInv'
<1> SUFFICES ASSUME IInv, [Next]_vars PROVE IInv'
  OBVIOUS
<1>1. ASSUME NEW t \in Thread, NEW o \in Learning \union Batch, Select(t, o) PROVE IInv'
  <2>1. PICK q : q = [op |-> o]
    OBVIOUS
  <2>2. /\ Begin(t, "selected", q) /\ q.op = o /\ o \in Operation /\ UNCHANGED lock
        /\ o \in Batch => row # None
    BY <1>1, <2>1 DEF Select, Operation, Learning, Batch
  <2>3. pc'[t] = "selected"
    BY <2>2 DEF Begin, IInv, Control
  <2>4. WritesWell(t)'
    BY <2>3 DEF WritesWell
  <2> QED
    BY <2>2, <2>4, BeginStep
<1>2. ASSUME NEW t \in Thread, NEW o \in Answering, LoadForAnswer(t, o) PROVE IInv'
  BY <1>2, LoadStep DEF LoadForAnswer
<1>3. ASSUME NEW t \in Thread, NEW rating \in Rating, LockForGrade(t, rating) PROVE IInv'
  BY <1>3, GradeStep
<1>4. ASSUME NEW t \in Thread, Load(t) PROVE IInv'
  <2>1. PICK o : o = req[t].op
    OBVIOUS
  <2>2. /\ o \in Learning \union Batch /\ (o \in Batch => row # None)
        /\ Begin(t, "open", Loaded(o)) /\ UNCHANGED lock
    BY <1>4, <2>1 DEF Load, IInv, Control
  <2> QED
    BY <2>2, LoadStep
<1>5. ASSUME NEW t \in Thread, Commit(t) PROVE IInv'
  BY <1>5, CommitStep
<1>6. ASSUME NEW t \in Thread, GiveUp(t) PROVE IInv'
  BY <1>6, GiveUpStep
<1>7. ASSUME Tick PROVE IInv'
  BY <1>7, TickStep
<1>8. ASSUME UNCHANGED vars PROVE IInv'
  <2>1. UNCHANGED <<now, row, keys, recalls, lock, pc, req>>
    BY <1>8 DEF vars, requests, evidence
  <2>2. Control'
    BY <2>1 DEF IInv, Control
  <2>3. Writes'
    BY <2>1, OthersWrite DEF Writes
  <2> QED
    BY <2>1, <2>2, <2>3, StepOfOthers
<1> QED
  BY <1>1, <1>2, <1>3, <1>4, <1>5, <1>6, <1>7, <1>8 DEF Next

-----------------------------------------------------------------------------
(* Types.                                                                  *)

ThreadOK(t) == /\ pc[t] = "idle" => req[t] = None
               /\ pc[t] = "selected" => req[t] \in Selected
               /\ pc[t] = "open" => \A q \in {req[t]} : IsRequest(q)

\* TypeOK, one part for the threads and one for the rest.
ThreadsOK == /\ pc \in [Thread -> {"idle", "selected", "open"}]
             /\ \A t \in Thread : ThreadOK(t)
RestOK == /\ now \in 0..MaxTime
          /\ row \in ProgressRow \union {None}
          /\ lock \in Thread \union {None}
          /\ keys \subseteq Due \X Rating
          /\ recalls \in 0..MaxRecalls
          /\ memory \in Memory \union {None}
          /\ row = None => memory # None

LEMMA TypeParts == ThreadsOK /\ RestOK => TypeOK
BY DEF TypeOK, ThreadsOK, ThreadOK, RestOK

LEMMA InitTypes == Init => ThreadsOK /\ RestOK
<1> SUFFICES ASSUME Init PROVE ThreadsOK /\ RestOK
  OBVIOUS
<1>1. row \in ProgressRow \union {None}
  BY InitInv DEF IInv, Control
<1>2. ThreadsOK
  BY DEF Init, ThreadsOK, ThreadOK
<1>3. memory \in Memory
  <2>1. CASE row = None
    BY <2>1 DEF Init, Due, Memory
  <2>2. CASE row # None
    <3>1. memory = Bootstrapped(row) /\ row.due \in Due /\ row.interval \in Nat
      BY <1>1, <2>2, Columns DEF Init
    <3> QED
      BY <3>1, WordAssumption DEF Bootstrapped, Due, Memory
  <2> QED
    BY <2>1, <2>2
<1>4. recalls \in 0..MaxRecalls
  <2>1. row \in {None, Unscheduled, InReview(2), InReview(4)}
        /\ recalls = IF row = None THEN 0 ELSE row.streak
    BY DEF Init
  <2>2. row # None => row.streak \in {0, 1}
    BY <2>1 DEF Unscheduled, InReview
  <2> QED
    BY <2>1, <2>2, WordAssumption
<1>5. row = None => memory # None
  BY <1>3, RowAssumption
<1> QED
  BY <1>1, <1>2, <1>3, <1>4, <1>5, WordAssumption DEF Init, RestOK

LEMMA Remembered ==
  ASSUME NEW m \in Memory, NEW at \in Nat, NEW outcome \in Rating \union {"exposure"}
  PROVE  Remember(m, outcome, at) \in Memory
<1>0. m.due \in Due /\ m.interval \in Nat
  BY DEF Memory
<1>1. PICK next : next = NextInterval(m.interval, outcome)
  OBVIOUS
<1>2. next \in Nat
  BY <1>0, <1>1, DurationAssumption DEF NextInterval, Lesser, Rating
<1>3. \A n \in Nat : n * Day \in Nat
  BY WordAssumption
<1>4. DueAfter(outcome, at, next) \in Nat
  BY <1>2, <1>3, WordAssumption DEF DueAfter
<1>5. \/ Remember(m, outcome, at) = m
      \/ Remember(m, outcome, at) = [interval |-> next, due |-> DueAfter(outcome, at, next)]
  BY <1>1 DEF Remember
<1> QED
  BY <1>2, <1>4, <1>5 DEF Due, Memory

LEMMA LoadedIsRequest ==
  ASSUME Control, NEW o \in Operation, o \in Learning \/ row # None, NEW q, q = Loaded(o)
  PROVE  IsRequest(q)
<1>1. /\ now \in Nat /\ q.op = o /\ q.insert = (row = None)
      /\ q.at = (IF o \in Answering THEN NoTime ELSE now)
      /\ q.due = (IF o \in Grading THEN row.due ELSE NoTime)
      /\ q.write = Update(row, Computed(row, o, now))
  BY DEF Loaded, Control
<1>2. o \in Grading => o \notin Learning
  BY DEF Grading, Learning
<1>3. q.at \in Due /\ q.due \in Due
  BY <1>1, <1>2, Columns DEF Due, Control
<1>4. q.insert \in BOOLEAN
  BY <1>1
<1>5. DOMAIN q.write \subseteq Column
  <2>1. CASE row = None
    <3>1. o.name = "learn" /\ q.write = [Unscheduled EXCEPT !.due = now + Day, !.last = now]
      BY <1>1, <2>1 DEF Update, Computed, Learned, Learning
    <3> QED
      BY <3>1 DEF Unscheduled, Column
  <2>2. CASE row # None
    BY <1>1, <2>2, Columns DEF Update, Control
  <2> QED
    BY <2>1, <2>2
<1>6. Column = DOMAIN Unscheduled
  BY DEF Column, Unscheduled
<1> QED
  BY <1>1, <1>3, <1>4, <1>5, <1>6 DEF IsRequest

LEMMA ThreadBegins ==
  ASSUME ThreadsOK, DOMAIN req = Thread, NEW t \in Thread,
         NEW where \in {"idle", "selected", "open"}, NEW q,
         pc' = [pc EXCEPT ![t] = where], req' = [req EXCEPT ![t] = q],
         where = "idle" => q = None, where = "selected" => q \in Selected,
         where = "open" => IsRequest(q)
  PROVE  ThreadsOK'
<1>1. pc' \in [Thread -> {"idle", "selected", "open"}]
  BY DEF ThreadsOK
<1>2. pc'[t] = where /\ req'[t] = q
      /\ \A u \in Thread \ {t} : pc'[u] = pc[u] /\ req'[u] = req[u]
  BY DEF ThreadsOK
<1>3. IsRequest(q) => IsRequest(q)'
  BY DEF IsRequest
<1>4. ThreadOK(t)'
  BY <1>2, <1>3 DEF ThreadOK
<1>5. ASSUME NEW u \in Thread \ {t} PROVE ThreadOK(u)'
  <2>1. \A p : IsRequest(p) => IsRequest(p)'
    BY DEF IsRequest
  <2> QED
    BY <1>2, <2>1 DEF ThreadsOK, ThreadOK
<1> QED
  BY <1>1, <1>4, <1>5 DEF ThreadsOK

LEMMA TypeStep == IInv /\ IInv' /\ ThreadsOK /\ RestOK /\ [Next]_vars => ThreadsOK' /\ RestOK'
<1> SUFFICES ASSUME IInv, IInv', ThreadsOK, RestOK, [Next]_vars PROVE ThreadsOK' /\ RestOK'
  OBVIOUS
<1>1. /\ ThreadsOK /\ RestOK /\ Control /\ DOMAIN req = Thread
      /\ row' \in ProgressRow \union {None}
  BY DEF IInv, Control
<1>2. ASSUME NEW t \in Thread, NEW where \in {"selected", "open"}, NEW q, Begin(t, where, q),
             where = "selected" => q \in Selected, where = "open" => IsRequest(q),
             lock' = lock \/ lock' = t
      PROVE  ThreadsOK' /\ RestOK'
  <2>1. ThreadsOK'
    BY <1>1, <1>2, ThreadBegins DEF Begin
  <2>2. RestOK'
    BY <1>1, <1>2 DEF Begin, evidence, RestOK
  <2> QED
    BY <2>1, <2>2
<1>3. ASSUME NEW t \in Thread, NEW o \in Operation, o \in Learning \/ row # None,
             Begin(t, "open", Loaded(o)), lock' = lock \/ lock' = t
      PROVE  ThreadsOK' /\ RestOK'
  <2>1. PICK q : q = Loaded(o)
    OBVIOUS
  <2>2. IsRequest(q)
    BY <1>1, <1>3, <2>1, LoadedIsRequest
  <2> QED
    BY <1>2, <1>3, <2>1, <2>2
<1>4. ASSUME NEW t \in Thread, End(t) PROVE ThreadsOK' /\ lock' \in Thread \union {None}
  BY <1>1, <1>4, ThreadBegins DEF End, RestOK
<1>5. ASSUME NEW t \in Thread, NEW o \in Learning \union Batch, Select(t, o)
      PROVE  ThreadsOK' /\ RestOK'
  <2>1. PICK q : q = [op |-> o]
    OBVIOUS
  <2>2. q \in Selected /\ Begin(t, "selected", q) /\ UNCHANGED lock
    BY <1>5, <2>1 DEF Select, Selected
  <2> QED
    BY <1>2, <2>2
<1>6. ASSUME NEW t \in Thread, Load(t) PROVE ThreadsOK' /\ RestOK'
  <2>1. PICK o : o = req[t].op
    OBVIOUS
  <2>2. o \in Operation /\ (o \in Learning \/ row # None)
        /\ Begin(t, "open", Loaded(o)) /\ UNCHANGED lock
    BY <1>1, <1>6, <2>1 DEF Load, Control, Operation
  <2> QED
    BY <1>3, <2>2
<1>7. ASSUME NEW t \in Thread, NEW o \in Answering, LoadForAnswer(t, o)
      PROVE  ThreadsOK' /\ RestOK'
  BY <1>3, <1>7 DEF LoadForAnswer, Operation
<1>8. ASSUME NEW t \in Thread, NEW rating \in Rating, LockForGrade(t, rating)
      PROVE  ThreadsOK' /\ RestOK'
  <2>1. PICK o : o = [name |-> "grade", rating |-> rating]
    OBVIOUS
  <2>2. o \in Operation /\ row # None /\ Begin(t, "open", Loaded(o)) /\ lock' = t
    BY <1>8, <2>1 DEF LockForGrade, Operation, Grading
  <2> QED
    BY <1>3, <2>2
<1>9. ASSUME NEW t \in Thread, Commit(t) PROVE ThreadsOK' /\ RestOK'
  <2>1. PICK q : q = req[t]
    OBVIOUS
  <2>2. End(t) /\ UNCHANGED now /\ pc[t] = "open" /\ IsRequest(q)
        /\ (CommitLearned(t) \/ CommitOther(t) \/ CommitGrade(t))
    BY <1>1, <1>9, <2>1 DEF Commit, ThreadsOK, ThreadOK
  <2>3. /\ keys' \subseteq Due \X Rating /\ recalls' \in 0..MaxRecalls
        /\ memory' \in Memory \union {None}
    <3>1. CASE CommitLearned(t)
      <4>1. q.op \in Learning /\ UNCHANGED <<keys, recalls>>
            /\ (memory' = None
                \/ (row = None /\ memory' = Remember(memory, "exposure", q.at)))
        BY <2>1, <3>1 DEF CommitLearned, RecordNewWord
      <4>2. q.at \in Nat
        <5>1. q.op \notin Grading
          BY <4>1 DEF Learning, Grading
        <5> QED
          BY <2>1, <2>2, <4>1, <5>1 DEF IInv, Writes, WritesWell, WritesPlainly
      <4>3. memory' \in Memory \union {None}
        BY <1>1, <4>1, <4>2, Remembered DEF RestOK
      <4> QED
        BY <1>1, <4>1, <4>3 DEF RestOK
    <3>2. CASE CommitOther(t)
      BY <1>1, <3>2 DEF CommitOther, RestOK
    <3>3. CASE CommitGrade(t)
      <4>1. /\ q.op \in Grading /\ keys' = keys \union {ReviewKey(q)}
            /\ Recalled(q.op.rating) => recalls < MaxRecalls
            /\ recalls' = IF Recalled(q.op.rating) THEN recalls + 1 ELSE 0
            /\ \/ memory' = memory
               \/ memory # None /\ memory' = Remember(memory, q.op.rating, q.at)
        BY <2>1, <3>3 DEF CommitGrade
      <4>2. q.op.rating \in Rating /\ q.at \in Nat
        BY <2>1, <2>2, <4>1 DEF Grading, IInv, Writes, WritesWell, WritesRating
      <4>3. keys' \subseteq Due \X Rating
        BY <1>1, <2>2, <4>1, <4>2 DEF ReviewKey, RestOK, IsRequest
      <4>4. recalls' \in 0..MaxRecalls
        BY <1>1, <4>1, WordAssumption DEF RestOK
      <4>5. memory' \in Memory \union {None}
        BY <1>1, <4>1, <4>2, Remembered DEF RestOK
      <4> QED
        BY <4>3, <4>4, <4>5
    <3> QED
      BY <2>2, <3>1, <3>2, <3>3
  <2>4. row' # None
    BY <1>9, CommitStep, RowAssumption
  <2> QED
    BY <1>1, <1>4, <2>2, <2>3, <2>4 DEF RestOK
<1>10. ASSUME NEW t \in Thread, GiveUp(t) PROVE ThreadsOK' /\ RestOK'
  BY <1>1, <1>4, <1>10 DEF GiveUp, evidence, RestOK
<1>11. ASSUME Tick PROVE ThreadsOK' /\ RestOK'
  <2>1. ThreadsOK'
    BY <1>1, <1>11 DEF Tick, requests, ThreadsOK, ThreadOK, IsRequest
  <2>2. RestOK'
    BY <1>1, <1>11, WordAssumption DEF Tick, requests, evidence, RestOK
  <2> QED
    BY <2>1, <2>2
<1>12. ASSUME UNCHANGED vars PROVE ThreadsOK' /\ RestOK'
  <2>1. ThreadsOK'
    BY <1>1, <1>12 DEF vars, requests, ThreadsOK, ThreadOK, IsRequest
  <2>2. RestOK'
    BY <1>1, <1>12 DEF vars, requests, evidence, RestOK
  <2> QED
    BY <2>1, <2>2
<1> QED
  BY <1>5, <1>6, <1>7, <1>8, <1>9, <1>10, <1>11, <1>12 DEF Next

-----------------------------------------------------------------------------
(* The shadow schedule.                                                    *)

\* The two intervals differ at most after an exposure, which no rating minds; and a
\* row that has no due instant has not been rated yet.
Shadow == memory # None =>
  /\ row = None => memory.due = NoTime
  /\ row # None =>
       /\ row.due # NoTime => memory.due = row.due
       /\ row.due = NoTime => \A key \in keys : key[1] # NoTime
       /\ memory.interval = row.interval \/ (row.interval = 0 /\ memory.interval = 1)

LEMMA SameSchedule ==
  ASSUME NEW r \in ProgressRow, NEW m \in Memory, NEW rating \in Rating, NEW at \in Nat,
         m.interval = r.interval \/ (r.interval = 0 /\ m.interval = 1)
  PROVE  /\ Remember(m, rating, at).due = Rated(r, rating, at).due
         /\ Remember(m, rating, at).interval = Rated(r, rating, at).interval
<1>1. r.interval \in Nat /\ m.interval \in Nat
  BY Columns DEF Memory
<1>2. NextInterval(m.interval, rating) = RatedInterval(r.interval, rating)
  BY <1>1, CapAssumption DEF NextInterval, RatedInterval, Grown, Rating
<1>3. Reschedules(m, rating)
  BY DEF Reschedules, Rating
<1> QED
  BY <1>2, <1>3 DEF Remember, Rated, DueAfter

LEMMA InitShadow == Init => Shadow
<1> SUFFICES ASSUME Init PROVE Shadow
  OBVIOUS
<1>1. row \in {None, Unscheduled, InReview(2), InReview(4)} /\ keys = {}
  BY DEF Init
<1>2. CASE row = None
  BY <1>2 DEF Init, Shadow
<1>3. CASE row # None
  <2>1. memory.due = IF row.due = NoTime THEN Day ELSE row.due
    BY <1>3 DEF Init, Bootstrapped
  <2>2. memory.interval = row.interval
    BY <1>3 DEF Init, Bootstrapped
  <2> QED
    BY <1>1, <1>3, <2>1, <2>2 DEF Shadow
<1> QED
  BY <1>2, <1>3

LEMMA ShadowStep ==
  ASSUME IInv, ThreadsOK, RestOK, Shadow, [Next]_vars
  PROVE  Shadow'
<1>1. CASE UNCHANGED <<row, memory, keys>>
  BY <1>1 DEF Shadow
<1>2. ASSUME NEW t \in Thread, Commit(t) PROVE Shadow'
  <2>1. PICK q : q = req[t]
    OBVIOUS
  <2>2. /\ pc[t] = "open"
        /\ CommitLearned(t) \/ CommitOther(t) \/ CommitGrade(t)
        /\ memory \in Memory \union {None} /\ row \in ProgressRow \union {None}
        /\ Writes /\ Control /\ RatedOnce
    BY <1>2 DEF Commit, RestOK, IInv
  <2>3. CASE memory' = None
    BY <2>3 DEF Shadow
  <2>4. CASE CommitLearned(t) /\ memory' # None
    <3>1. /\ q.op \in Learning /\ q.insert /\ row = None /\ row' = q.write
          /\ memory' = Remember(memory, "exposure", q.at)
      BY <2>1, <2>4 DEF CommitLearned, RecordNewWord
    <3>2. q.op \notin Grading
      BY <3>1 DEF Learning, Grading
    <3>3. WritesPlainly(q)
      BY <2>1, <2>2, <3>2 DEF Writes, WritesWell
    <3>4. q.write \in ProgressRow /\ q.at \in Nat
      BY <3>1, <3>3 DEF WritesPlainly
    <3>5. row'.due = q.at + Day /\ row'.interval = 0 /\ row'.due \in Nat
      BY <3>1, <3>3, <3>4, WordAssumption DEF WritesPlainly
    <3>6. memory \in Memory /\ memory.due = NoTime
      BY <2>2, <2>4, <3>1 DEF Shadow, RestOK
    <3>7. memory'.due = q.at + Day /\ memory'.interval = 1
      <4>1. NextInterval(memory.interval, "exposure") = 1
        BY DEF NextInterval
      <4>2. Reschedules(memory, "exposure")
        BY <3>6 DEF Reschedules
      <4> QED
        BY <3>1, <3>4, <4>1, <4>2, WordAssumption DEF Remember, DueAfter
    <3> QED
      BY <3>1, <3>4, <3>5, <3>7, RowAssumption, WordAssumption DEF Shadow
  <2>5. CASE CommitOther(t)
    BY <2>3, <2>5 DEF CommitOther
  <2>6. CASE CommitGrade(t) /\ memory' # None
    <3>1. PICK key : key = ReviewKey(q)
      OBVIOUS
    <3>2. /\ q.op \in Grading /\ memory # None
          /\ row' = Updated(row, q.write) /\ keys' = keys \union {key}
          /\ memory' = IF key \in keys THEN memory ELSE Remember(memory, q.op.rating, q.at)
      BY <2>1, <2>6, <3>1 DEF CommitGrade
    <3>3. /\ row \in ProgressRow /\ q.at \in Nat /\ q.due = row.due /\ q.op.rating \in Rating
          /\ q.write = Update(row, Rated(row, q.op.rating, q.at))
      BY <2>1, <2>2, <3>2 DEF Writes, WritesWell, WritesRating, Grading
    <3>4. PICK r : r = Rated(row, q.op.rating, q.at)
      OBVIOUS
    <3>5. /\ r \in ProgressRow /\ r.due \in Nat /\ row' = r
      BY <3>2, <3>3, <3>4, RatedRow, UpdateOfRow
    <3>6. key[1] = row.due
      BY <3>1, <3>3 DEF ReviewKey
    <3>7. key \notin keys
      BY <2>2, <3>2, <3>3, <3>6, RowAssumption DEF Shadow, RatedOnce
    <3>8. memory'.due = r.due /\ memory'.interval = r.interval
      BY <2>2, <3>2, <3>3, <3>4, <3>7, SameSchedule, RowAssumption DEF Shadow
    <3> QED
      BY <3>5, <3>8, WordAssumption, RowAssumption DEF Shadow
  <2> QED
    BY <2>2, <2>3, <2>4, <2>5, <2>6
<1> QED
  BY <1>1, <1>2 DEF Next, vars, evidence, requests, Select, Load, LoadForAnswer, LockForGrade, Begin,
     GiveUp, Tick

-----------------------------------------------------------------------------
(* The theorems.                                                           *)

\* The inductive invariant: a rating that is under way has the row as it is, and
\* every other request writes no recall and no due instant of the past.
THEOREM Invariance == Spec => []IInv
<1>1. Init => IInv
  BY InitInv
<1>2. IInv /\ [Next]_vars => IInv'
  BY NextInv
<1> QED
  BY <1>1, <1>2, PTL DEF Spec

\* Rows, requests, keys and memory are what their tables allow, within the bounds.
THEOREM TypeCorrect == Spec => []TypeOK
<1>1. Init => IInv /\ ThreadsOK /\ RestOK
  BY InitInv, InitTypes
<1>2. IInv /\ ThreadsOK /\ RestOK /\ [Next]_vars => IInv' /\ ThreadsOK' /\ RestOK'
  BY NextInv, TypeStep
<1> QED
  BY <1>1, <1>2, TypeParts, PTL DEF Spec

\* No due instant that grade_review has rated returns to the row or is rated again.
THEOREM NoSecondRating == Spec => []RatedOnce
<1>1. IInv => RatedOnce
  BY DEF IInv
<1> QED
  BY <1>1, Invariance, PTL

\* As long as every write was recorded, the shadow memory has the row's schedule:
\* by NoSecondRating no rating is mistaken for the retry of another.
THEOREM SchedulesAgree == Spec => []ShadowAgrees
<1>1. Init => IInv /\ ThreadsOK /\ RestOK /\ Shadow
  BY InitInv, InitTypes, InitShadow
<1>2. IInv /\ ThreadsOK /\ RestOK /\ Shadow /\ [Next]_vars
        => IInv' /\ ThreadsOK' /\ RestOK' /\ Shadow'
  BY NextInv, TypeStep, ShadowStep
<1>3. Shadow => ShadowAgrees
  BY DEF Shadow, ShadowAgrees
<1> QED
  BY <1>1, <1>2, <1>3, PTL DEF Spec

\* A word is learned only after three recalls in a row, whatever writes overlap.
THEOREM LearnedByRecalls == Spec => []LearnedEarned
<1>1. IInv => LearnedEarned
  BY DEF IInv
<1> QED
  BY <1>1, Invariance, PTL
=============================================================================
