-------------------------- MODULE LearnerPathProofs --------------------------
(***************************************************************************)
(* Proofs about LearnerPath, for every calendar, curriculum, set of limits *)
(* and length of the path.  In order: what first_day_instant finds and how *)
(* long a window is, what the selection decides, what counting answers     *)
(* says about a state, the inductive invariant and its steps, the limits,  *)
(* and the theorems.                                                       *)
(***************************************************************************)
EXTENDS LearnerPath, FiniteSetTheorems, WellFoundedInduction, TLAPS

-----------------------------------------------------------------------------
(* The calendar.                                                           *)

\* The numbers are well founded,
LEMMA LessRelation ==
  \E R : IsWellFoundedOn(R, Nat) /\ \A x, y \in Nat : <<x, y>> \in R <=> x < y
<1>1. \A x, y \in Nat : <<x, y>> \in OpToRel(<, Nat) <=> x < y
  BY DEF OpToRel
<1> QED
  BY <1>1, NatLessThanWellFounded

\* so that a set of them has a least one.
LEMMA LeastNumber ==
  ASSUME NEW T \in SUBSET Nat, T # {}
  PROVE  \E x \in T : \A y \in T : x <= y
<1>1. PICK R : IsWellFoundedOn(R, Nat) /\ \A x, y \in Nat : <<x, y>> \in R <=> x < y
  BY LessRelation
<1>2. IsWellFoundedOn(R, Nat) /\ T \subseteq Nat
  BY <1>1
<1>3. PICK x \in T : \A y \in T : <<y, x>> \notin R
  BY <1>2, WFMin
<1>4. ASSUME NEW y \in T
      PROVE  x <= y
  <2>1. x \in Nat /\ y \in Nat
    OBVIOUS
  <2>2. <<y, x>> \in R <=> y < x
    BY <1>1, <2>1
  <2> QED
    BY <1>3, <2>1, <2>2
<1> QED
  BY <1>4

-----------------------------------------------------------------------------
(* Dates.                                                                  *)

\* How \div rounds.
LEMMA Division ==
  ASSUME NEW x \in Int, NEW d \in Int, NEW b \in Nat \ {0}
  PROVE  x \div b \in Int /\ (x \div b >= d <=> x >= d * b)
<1>1. /\ x \div b \in Int /\ x % b \in 0..(b - 1)
  OBVIOUS
<1>2. x = b * (x \div b) + (x % b)
  BY <1>1
<1>3. ASSUME x \div b >= d PROVE x >= d * b
  BY <1>1, <1>2, <1>3
<1>4. ASSUME x \div b < d PROVE x < d * b
  BY <1>1, <1>2, <1>4
<1> QED
  BY <1>1, <1>3, <1>4

LEMMA ZoneTyped ==
  ASSUME NEW z \in Zone
  PROVE  z.before \in Int /\ z.at \in Int /\ z.after \in Int
BY CalendarAssumption

\* A date is reached with its first midnight, or when the clock is past it.
LEMMA DateReached ==
  ASSUME NEW z \in Zone, NEW t \in Int, NEW d \in Int
  PROVE  /\ Date(t, z) \in Int /\ Local(t, z) \in Int /\ d * Day \in Int
         /\ Date(t, z) >= d <=> Local(t, z) >= d * Day
<1>1. Local(t, z) \in Int
  BY ZoneTyped DEF Local
<1>2. Day \in Nat \ {0} /\ d * Day \in Int
  BY CalendarAssumption
<1> QED
  BY <1>1, <1>2, Division DEF Date

\* Dates do not go back.
LEMMA DatesAscend ==
  ASSUME NEW z \in Zone, NEW t \in Int, NEW u \in Int, t <= u
  PROVE  Date(t, z) <= Date(u, z)
<1>1. z.before \in Int /\ z.at \in Int /\ z.after \in Int /\ Day \in Nat \ {0}
  BY ZoneTyped, CalendarAssumption
<1>2. \A x, y \in Int : x <= y => x \div Day <= y \div Day
  <2>1. SUFFICES ASSUME NEW x \in Int, NEW y \in Int, x <= y
                 PROVE  x \div Day <= y \div Day
    OBVIOUS
  <2>2. x \div Day \in Int /\ y \div Day \in Int
    BY <1>1
  <2>3. x >= (x \div Day) * Day
    BY <1>1, <2>2, Division
  <2>4. y >= (x \div Day) * Day
    BY <1>1, <2>1, <2>2, <2>3
  <2>5. y \div Day >= x \div Day
    BY <1>1, <2>2, <2>4, Division
  <2> QED
    BY <2>2, <2>5
<1>3. CASE u < z.at \/ t >= z.at
  <2>1. Local(t, z) <= Local(u, z) /\ Local(t, z) \in Int /\ Local(u, z) \in Int
    BY <1>1, <1>3 DEF Local
  <2> QED
    BY <1>2, <2>1 DEF Date
<1>4. CASE t < z.at /\ u >= z.at
  <2> DEFINE x == z.at - 1 + z.before
             y == z.at + z.after
  <2>1. Local(t, z) <= x /\ y <= Local(u, z) /\ x \in Int /\ y \in Int
        /\ Local(t, z) \in Int /\ Local(u, z) \in Int
    BY <1>1, <1>4 DEF Local
  <2>2. x \div Day <= y \div Day
    BY DatesDoNotReturn
  <2> HIDE DEF x, y
  <2>3. Local(t, z) \div Day <= x \div Day /\ y \div Day <= Local(u, z) \div Day
    BY <1>2, <2>1
  <2>4. /\ Local(t, z) \div Day \in Int /\ x \div Day \in Int
        /\ y \div Day \in Int /\ Local(u, z) \div Day \in Int
    BY <1>1, <2>1
  <2> QED
    BY <2>2, <2>3, <2>4 DEF Date
<1> QED
  BY <1>1, <1>3, <1>4

\* The earlier and the later of two instants.
LEMMA EarliestOf ==
  ASSUME NEW x \in Int, NEW y \in Int
  PROVE  /\ Earliest({x, y}) = IF x <= y THEN x ELSE y
         /\ Latest({x, y}) = IF x >= y THEN x ELSE y
<1>1. \E v \in {x, y} : \A w \in {x, y} : v <= w
  OBVIOUS
<1>2. \E v \in {x, y} : \A w \in {x, y} : v >= w
  OBVIOUS
<1> QED
  BY <1>1, <1>2 DEF Earliest, Latest

LEMMA EarliestIs ==
  ASSUME NEW S \in SUBSET Int, NEW x \in S, \A y \in S : x <= y
  PROVE  Earliest(S) = x
<1>1. \E v \in S : \A y \in S : v <= y
  OBVIOUS
<1>2. Earliest(S) \in S /\ \A y \in S : Earliest(S) <= y
  BY <1>1 DEF Earliest
<1>3. Earliest(S) <= x /\ x <= Earliest(S) /\ x \in Int /\ Earliest(S) \in Int
  BY <1>2
<1> QED
  BY <1>3

\* The readings of a midnight: the instant before the transition that shows it, the
\* instant after it that does, and nothing else when there is one.
LEMMA MidnightsAre ==
  ASSUME NEW z \in Zone, NEW d \in Int
  PROVE  LET wall == d * Day
             first == wall - z.before
             second == wall - z.after
         IN /\ Midnights(d, z) \subseteq {first, second}
            /\ first < z.at => first \in Midnights(d, z)
            /\ second >= z.at => second \in Midnights(d, z)
            /\ first >= z.at /\ second < z.at => Midnights(d, z) = {first, second}
<1> DEFINE wall == d * Day
           first == wall - z.before
           second == wall - z.after
           one == IF z.before >= z.after THEN z.before ELSE z.after
           two == IF z.before <= z.after THEN z.before ELSE z.after
<1>1. wall \in Int /\ z.before \in Int /\ z.at \in Int /\ z.after \in Int
  BY ZoneTyped, CalendarAssumption
<1>2. Latest({z.before, z.after}) = one /\ Earliest({z.before, z.after}) = two
  BY <1>1, EarliestOf
<1>3. /\ FromLocal(wall, z, 0) = IF wall < z.at + one THEN first ELSE second
      /\ FromLocal(wall, z, 1) = IF wall < z.at + two THEN first ELSE second
  BY <1>2 DEF FromLocal
<1>4. Midnights(d, z) = {FromLocal(wall, z, 0), FromLocal(wall, z, 1)}
  BY DEF Midnights
<1> HIDE DEF wall
<1>5. first < z.at => FromLocal(wall, z, 0) = first
  BY <1>1, <1>3
<1>6. second >= z.at => FromLocal(wall, z, 1) = second
  BY <1>1, <1>3
<1>7. first >= z.at /\ second < z.at =>
        FromLocal(wall, z, 0) = first /\ FromLocal(wall, z, 1) = second
  BY <1>1, <1>3
<1>8. FromLocal(wall, z, 0) \in {first, second} /\ FromLocal(wall, z, 1) \in {first, second}
  BY <1>3
<1> QED
  BY <1>4, <1>5, <1>6, <1>7, <1>8 DEF wall

\* m is the first instant of the date or of a later one.
Opens(m, d, z) == m \in Int /\ \A t \in Int : Date(t, z) >= d <=> t >= m

\* A date opens once.
LEMMA OpensOnce ==
  ASSUME NEW z, NEW d, NEW m, NEW n, Opens(m, d, z), Opens(n, d, z)
  PROVE  m = n
<1>1. m \in Int /\ n \in Int /\ m >= n /\ n >= m
  BY DEF Opens
<1> QED
  BY <1>1

\* Halving: what is left ends where the date begins.
LEMMA Halves ==
  ASSUME NEW l \in Int, NEW h \in Int, h - l > 1
  PROVE  LET m == l + (h - l) \div 2
         IN m \in Int /\ l < m /\ m < h
<1>1. (h - l) \div 2 \in Int /\ (h - l) \div 2 >= 1 /\ (h - l) \div 2 < h - l
  OBVIOUS
<1> DEFINE k == (h - l) \div 2
<1> HIDE DEF k
<1>2. k \in Int /\ k >= 1 /\ k < h - l
  BY <1>1 DEF k
<1>3. l + k \in Int /\ l < l + k /\ l + k < h
  BY <1>2
<1> QED
  BY <1>3 DEF k

Middle(l, h) == l + (h - l) \div 2
Searches(F, d, z) ==
  F = [interval \in Int \X Int |->
         LET low == interval[1]
             high == interval[2]
             middle == low + (high - low) \div 2
         IN CASE high - low <= 1 -> high
              [] high - low > 1 /\ Date(middle, z) >= d -> F[<<low, middle>>]
              [] OTHER -> F[<<middle, high>>]]

\* The recursion of Bisected defines a function,
LEMMA SomeSearch ==
  ASSUME NEW z \in Zone, NEW d \in Int, NEW m, Opens(m, d, z)
  PROVE  \E F : Searches(F, d, z)
<1> DEFINE End(l, h) == IF h - l <= 1 THEN h
                        ELSE IF m <= l THEN l + 1 ELSE IF m >= h THEN h ELSE m
           F == [interval \in Int \X Int |-> End(interval[1], interval[2])]
<1>1. m \in Int
  BY DEF Opens
<1>2. ASSUME NEW l \in Int, NEW h \in Int, h - l > 1, NEW k \in Int, l < k, k < h
      PROVE  End(l, h) = IF k >= m THEN End(l, k) ELSE End(k, h)
  BY <1>1, <1>2
<1>3. ASSUME NEW l \in Int, NEW h \in Int
      PROVE  F[<<l, h>>] = IF h - l <= 1 THEN h
                       ELSE IF Date(Middle(l, h), z) >= d THEN F[<<l, Middle(l, h)>>]
                                                          ELSE F[<<Middle(l, h), h>>]
  <2>1. CASE h - l <= 1
    BY <2>1
  <2>2. CASE h - l > 1
    <3>1. Middle(l, h) \in Int /\ l < Middle(l, h) /\ Middle(l, h) < h
      BY <2>2, Halves DEF Middle
    <3>2. Date(Middle(l, h), z) >= d <=> Middle(l, h) >= m
      BY <3>1 DEF Opens
    <3>3. End(l, h) = IF Middle(l, h) >= m THEN End(l, Middle(l, h)) ELSE End(Middle(l, h), h)
      <4> HIDE DEF End
      <4> QED
        BY <1>2, <2>2, <3>1
    <3> HIDE DEF End
    <3>4. /\ F[<<l, h>>] = End(l, h) /\ F[<<l, Middle(l, h)>>] = End(l, Middle(l, h))
          /\ F[<<Middle(l, h), h>>] = End(Middle(l, h), h)
      BY <3>1
    <3> HIDE DEF F
    <3> QED
      BY <2>2, <3>2, <3>3, <3>4
  <2> QED
    BY <2>1, <2>2
<1>4. Searches(F, d, z)
  <2> HIDE DEF End
  <2> QED
    BY <1>3 DEF Searches, Middle
<1> QED
  BY <1>4

\* which halves its interval
LEMMA SearchStep ==
  ASSUME NEW z, NEW d, NEW F, Searches(F, d, z), NEW l \in Int, NEW h \in Int
  PROVE  F[<<l, h>>] = IF h - l <= 1 THEN h
                       ELSE IF Date(Middle(l, h), z) >= d THEN F[<<l, Middle(l, h)>>]
                                                          ELSE F[<<Middle(l, h), h>>]
<1> DEFINE G(interval) ==
             LET low == interval[1]
                 high == interval[2]
                 middle == low + (high - low) \div 2
             IN CASE high - low <= 1 -> high
                  [] high - low > 1 /\ Date(middle, z) >= d -> F[<<low, middle>>]
                  [] OTHER -> F[<<middle, high>>]
<1>1. F = [interval \in Int \X Int |-> G(interval)]
  BY DEF Searches
<1>2. <<l, h>> \in Int \X Int
  OBVIOUS
<1>3. F[<<l, h>>] = G(<<l, h>>)
  <2> HIDE DEF G
  <2> QED
    BY <1>1, <1>2
<1>4. G(<<l, h>>) = CASE h - l <= 1 -> h
                      [] h - l > 1 /\ Date(Middle(l, h), z) >= d -> F[<<l, Middle(l, h)>>]
                      [] OTHER -> F[<<Middle(l, h), h>>]
  BY DEF Middle
<1> HIDE DEF G
<1>5. CASE h - l <= 1
  BY <1>3, <1>4, <1>5
<1>6. CASE h - l > 1
  BY <1>3, <1>4, <1>6
<1> QED
  BY <1>5, <1>6

\* until it has found the opening: an interval that misses is never the shortest.
LEMMA SearchEnds ==
  ASSUME NEW z \in Zone, NEW d \in Int, NEW m, Opens(m, d, z), NEW F, Searches(F, d, z),
         NEW from \in Int, NEW to \in Int, from < m, m <= to
  PROVE  F[<<from, to>>] = m
<1> DEFINE Wrong(n) == \E l, h \in Int : h - l = n /\ l < m /\ m <= h /\ F[<<l, h>>] # m
           Bad == {n \in Nat : Wrong(n)}
<1>0. m \in Int
  BY DEF Opens
<1>1. Bad = {}
  <2> SUFFICES ASSUME Bad # {} PROVE FALSE
    OBVIOUS
  <2>1. PICK n \in Bad : \A k \in Bad : n <= k
    <3>1. Bad \in SUBSET Nat
      OBVIOUS
    <3> HIDE DEF Bad
    <3> QED
      BY <3>1, LeastNumber
  <2>2. PICK l \in Int, h \in Int : h - l = n /\ l < m /\ m <= h /\ F[<<l, h>>] # m
    BY <2>1
  <2>3. F[<<l, h>>] = IF h - l <= 1 THEN h
                  ELSE IF Date(Middle(l, h), z) >= d THEN F[<<l, Middle(l, h)>>]
                                                     ELSE F[<<Middle(l, h), h>>]
    BY SearchStep
  <2>4. CASE h - l <= 1
    BY <1>0, <2>2, <2>3, <2>4
  <2>5. CASE h - l > 1
    <3> DEFINE k == Middle(l, h)
    <3>1. k \in Int /\ l < k /\ k < h
      BY <2>5, Halves DEF Middle
    <3>2. Date(k, z) >= d <=> k >= m
      BY <3>1 DEF Opens
    <3>3. ASSUME NEW i \in Int, NEW j \in Int, j - i \in Nat, j - i < n, i < m, m <= j
          PROVE  F[<<i, j>>] = m
      <4>1. j - i \notin Bad
        <5>1. ~(n <= j - i) /\ n \in Nat
          BY <3>3
        <5> HIDE DEF Bad
        <5> QED
          BY <2>1, <5>1
      <4> QED
        BY <3>3, <4>1
    <3> HIDE DEF Bad, k
    <3>4. CASE k >= m
      <4>1. k - l \in Nat /\ k - l < n
        BY <2>2, <3>1
      <4>2. F[<<l, k>>] = m
        BY <2>2, <3>1, <3>3, <3>4, <4>1
      <4> QED
        BY <2>2, <2>3, <2>5, <3>2, <3>4, <4>2 DEF k
    <3>5. CASE ~(k >= m)
      <4>1. h - k \in Nat /\ h - k < n /\ k < m
        BY <1>0, <2>2, <3>1, <3>5
      <4>2. F[<<k, h>>] = m
        BY <2>2, <3>1, <3>3, <4>1
      <4> QED
        BY <2>2, <2>3, <2>5, <3>2, <3>5, <4>2 DEF k
    <3> QED
      BY <3>4, <3>5
  <2> QED
    BY <2>2, <2>4, <2>5
<1>2. to - from \in Nat
  BY <1>0
<1> QED
  BY <1>1, <1>2

\* Bisected finds the opening between its bounds.
LEMMA BisectedOpens ==
  ASSUME NEW z \in Zone, NEW d \in Int, NEW m, Opens(m, d, z),
         NEW from \in Int, NEW to \in Int, from < m, m <= to
  PROVE  Bisected(d, z, from, to) = m
<1> DEFINE F == CHOOSE G : Searches(G, d, z)
<1>1. Searches(F, d, z)
  BY SomeSearch
<1>2. Bisected(d, z, from, to) = F[<<from, to>>]
  BY DEF Bisected, Searches, Middle
<1> HIDE DEF F
<1> QED
  BY <1>1, <1>2, SearchEnds

\* first_day_instant is where the date begins: at its first midnight, or at the
\* transition that skips it.
THEOREM FirstDayInstantOpens ==
  ASSUME NEW z \in Zone, NEW d \in Int
  PROVE  Opens(FirstDayInstant(d, z), d, z)
<1> DEFINE wall == d * Day
           first == wall - z.before
           second == wall - z.after
<1>1. wall \in Int /\ z.before \in Int /\ z.at \in Int /\ z.after \in Int
  BY ZoneTyped, CalendarAssumption
<1> HIDE DEF wall
<1>2. ASSUME NEW t \in Int
      PROVE  /\ Date(t, z) >= d <=> Local(t, z) >= wall
             /\ Local(t, z) = IF t < z.at THEN t + z.before ELSE t + z.after
  BY <1>1, DateReached DEF wall, Local
<1>3. /\ Midnights(d, z) \subseteq {first, second}
      /\ first < z.at => first \in Midnights(d, z)
      /\ second >= z.at => second \in Midnights(d, z)
      /\ first >= z.at /\ second < z.at => Midnights(d, z) = {first, second}
  BY MidnightsAre DEF wall
<1>4. first \in Int /\ second \in Int
  BY <1>1
<1>5. Exact(d, z) = {t \in Midnights(d, z) : Local(t, z) = wall}
  BY DEF Exact, wall
<1>6. CASE first < z.at
  <2>1. first \in Exact(d, z)
    BY <1>1, <1>2, <1>3, <1>4, <1>5, <1>6
  <2>2. \A t \in Exact(d, z) : t \in Int /\ first <= t
    <3> SUFFICES ASSUME NEW t \in Exact(d, z) PROVE t \in Int /\ first <= t
      OBVIOUS
    <3>1. t \in {first, second} /\ Local(t, z) = wall
      BY <1>3, <1>5
    <3> QED
      BY <1>1, <1>2, <1>4, <1>6, <3>1
  <2>3. FirstDayInstant(d, z) = first
    <3>1. Exact(d, z) \subseteq Int /\ Exact(d, z) # {}
      BY <2>1, <2>2
    <3>2. Earliest(Exact(d, z)) = first
      BY <2>1, <2>2, <3>1, EarliestIs
    <3> QED
      BY <3>1, <3>2 DEF FirstDayInstant
  <2>4. ASSUME NEW t \in Int PROVE Date(t, z) >= d <=> t >= first
    <3>1. CASE t < z.at
      BY <1>1, <1>2, <3>1
    <3>2. CASE t >= z.at
      <4>1. Date(first, z) >= d
        BY <1>1, <1>2, <1>4, <1>6
      <4>2. Date(first, z) <= Date(t, z)
        BY <1>4, <1>6, <3>2, <1>1, DatesAscend
      <4>3. Date(first, z) \in Int /\ Date(t, z) \in Int
        BY <1>4, DateReached
      <4> QED
        BY <1>1, <1>4, <1>6, <3>2, <4>1, <4>2, <4>3
    <3> QED
      BY <1>1, <3>1, <3>2
  <2> QED
    BY <1>4, <2>3, <2>4 DEF Opens
<1>7. CASE first >= z.at /\ second >= z.at
  <2>1. Exact(d, z) = {second}
    <3>1. second \in Exact(d, z)
      BY <1>1, <1>2, <1>3, <1>4, <1>5, <1>7
    <3>2. \A t \in Exact(d, z) : t = second
      <4> SUFFICES ASSUME NEW t \in Exact(d, z) PROVE t = second
        OBVIOUS
      <4>1. t \in {first, second} /\ Local(t, z) = wall
        BY <1>3, <1>5
      <4> QED
        BY <1>1, <1>2, <1>4, <1>7, <4>1
    <3> QED
      BY <3>1, <3>2
  <2>2. FirstDayInstant(d, z) = second
    BY <1>4, <2>1, EarliestIs DEF FirstDayInstant
  <2>3. ASSUME NEW t \in Int PROVE Date(t, z) >= d <=> t >= second
    BY <1>1, <1>2, <1>7
  <2> QED
    BY <1>4, <2>2, <2>3 DEF Opens
<1>8. CASE first >= z.at /\ second < z.at
  <2>1. ASSUME NEW t \in Int PROVE Date(t, z) >= d <=> t >= z.at
    BY <1>1, <1>2, <1>8
  <2>2. Opens(z.at, d, z)
    BY <1>1, <2>1 DEF Opens
  <2>3. Exact(d, z) = {}
    <3> SUFFICES ASSUME NEW t \in Exact(d, z) PROVE FALSE
      OBVIOUS
    <3>1. t \in {first, second} /\ Local(t, z) = wall
      BY <1>3, <1>5
    <3> QED
      BY <1>1, <1>2, <1>4, <1>8, <3>1
  <2>4. Midnights(d, z) = {first, second} /\ second < first
    BY <1>1, <1>3, <1>8
  <2>5. Earliest(Midnights(d, z)) = second /\ Latest(Midnights(d, z)) = first
    <3> HIDE DEF first, second
    <3>1. /\ Earliest({first, second}) = IF first <= second THEN first ELSE second
          /\ Latest({first, second}) = IF first >= second THEN first ELSE second
      BY <1>4, EarliestOf
    <3> QED
      BY <1>4, <2>4, <3>1
  <2>6. ~(Date(second, z) >= d) /\ ~(Date(first, z) < d)
    BY <1>4, <1>8, <2>1, <1>1, DateReached
  <2>7. Transition(d, z) = Bisected(d, z, second, first)
    BY <2>5, <2>6 DEF Transition
  <2>8. Bisected(d, z, second, first) = z.at
    BY <1>4, <1>8, <2>2, BisectedOpens
  <2> QED
    BY <2>2, <2>3, <2>7, <2>8 DEF FirstDayInstant
<1> QED
  BY <1>1, <1>4, <1>6, <1>7, <1>8

-----------------------------------------------------------------------------
(* Windows.                                                                *)

\* The date that an instant is in has begun, and the next one has not.
LEMMA DayHolds ==
  ASSUME NEW z \in Zone, NEW t \in Int
  PROVE  /\ FirstDayInstant(Date(t, z), z) \in Int
         /\ FirstDayInstant(Date(t, z) + 1, z) \in Int
         /\ FirstDayInstant(Date(t, z), z) <= t
         /\ t < FirstDayInstant(Date(t, z) + 1, z)
<1>1. Date(t, z) \in Int
  BY DateReached
<1>2. /\ Opens(FirstDayInstant(Date(t, z), z), Date(t, z), z)
      /\ Opens(FirstDayInstant(Date(t, z) + 1, z), Date(t, z) + 1, z)
  BY <1>1, FirstDayInstantOpens
<1> DEFINE a == FirstDayInstant(Date(t, z), z)
           b == FirstDayInstant(Date(t, z) + 1, z)
           e == Date(t, z)
<1> HIDE DEF a, b, e
<1>3. a \in Int /\ b \in Int /\ (e >= e <=> t >= a) /\ (e >= e + 1 <=> t >= b)
  BY <1>2 DEF Opens, a, b, e
<1>4. a \in Int /\ b \in Int /\ a <= t /\ t < b
  BY <1>1, <1>3 DEF e
<1> QED
  BY <1>4 DEF a, b, e

\* An instant at which a date begins begins the date it is in.
Midnight(m, z) == m \in Int /\ FirstDayInstant(Date(m, z), z) = m

\* The first instant of a date is a midnight, and the date is the one it opens.
LEMMA FirstIsMidnight ==
  ASSUME NEW z \in Zone, NEW d \in Int
  PROVE  Midnight(FirstDayInstant(d, z), z)
<1> DEFINE m == FirstDayInstant(d, z)
           e == Date(m, z)
           n == FirstDayInstant(e, z)
<1>1. m \in Int /\ \A t \in Int : Date(t, z) >= d <=> t >= m
  BY FirstDayInstantOpens DEF Opens
<1> HIDE DEF m
<1>2. e \in Int
  BY <1>1, DateReached
<1>3. n \in Int /\ n <= m /\ \A t \in Int : Date(t, z) >= e <=> t >= n
  BY <1>1, <1>2, DayHolds, FirstDayInstantOpens DEF Opens
<1> HIDE DEF n
<1>4. e >= d /\ Date(n, z) >= e /\ Date(n, z) \in Int
  BY <1>1, <1>2, <1>3, DateReached
<1>5. Date(n, z) >= d
  BY <1>2, <1>4
<1>6. n >= m
  BY <1>1, <1>3, <1>5
<1> QED
  BY <1>1, <1>3, <1>6 DEF Midnight, m, n

\* The date after the one an instant is in begins where the next one that comes does.
LEMMA NextMidnight ==
  ASSUME NEW z \in Zone, NEW t \in Int, Date(t, z) # Date(t + 1, z)
  PROVE  FirstDayInstant(Date(t + 1, z), z) = FirstDayInstant(Date(t, z) + 1, z)
<1> DEFINE a == Date(t, z)
           b == Date(t + 1, z)
<1>1. a \in Int /\ b \in Int /\ a <= b /\ a # b
  BY DateReached, DatesAscend
<1>2. Opens(t + 1, a + 1, z)
  <2>1. ASSUME NEW u \in Int PROVE Date(u, z) >= a + 1 <=> u >= t + 1
    <3>1. CASE u <= t
      <4>1. Date(u, z) \in Int /\ Date(u, z) <= a
        BY <3>1, DateReached, DatesAscend
      <4> HIDE DEF a
      <4> QED
        BY <1>1, <3>1, <4>1
    <3>2. CASE u >= t + 1
      <4>1. Date(u, z) \in Int /\ b <= Date(u, z)
        BY <3>2, DateReached, DatesAscend
      <4> HIDE DEF a, b
      <4> QED
        BY <1>1, <3>2, <4>1
    <3> QED
      BY <3>1, <3>2
  <2> QED
    BY <2>1 DEF Opens
<1>3. FirstDayInstant(a + 1, z) = t + 1
  <2>1. Opens(FirstDayInstant(a + 1, z), a + 1, z)
    BY <1>1, FirstDayInstantOpens
  <2> QED
    BY <1>2, <2>1, OpensOnce
<1>4. FirstDayInstant(b, z) = t + 1
  <2>1. /\ FirstDayInstant(b, z) \in Int /\ FirstDayInstant(b, z) <= t + 1
        /\ \A u \in Int : Date(u, z) >= b <=> u >= FirstDayInstant(b, z)
    BY <1>1, DayHolds, FirstDayInstantOpens DEF Opens
  <2>2. ~(a >= b)
    BY <1>1
  <2>3. ~(t >= FirstDayInstant(b, z))
    BY <2>1, <2>2
  <2> HIDE DEF b
  <2> QED
    BY <2>1, <2>3
<1> QED
  BY <1>3, <1>4

\* Later dates open later.
LEMMA FirstDaysAscend ==
  ASSUME NEW z \in Zone, NEW d \in Int, NEW e \in Int, d <= e
  PROVE  FirstDayInstant(d, z) <= FirstDayInstant(e, z)
<1> DEFINE m == FirstDayInstant(d, z)
           n == FirstDayInstant(e, z)
<1>1. /\ m \in Int /\ \A t \in Int : Date(t, z) >= d <=> t >= m
      /\ n \in Int /\ \A t \in Int : Date(t, z) >= e <=> t >= n
  BY FirstDayInstantOpens DEF Opens
<1> HIDE DEF m, n
<1>2. Date(n, z) \in Int /\ Date(n, z) >= e
  BY <1>1, DateReached
<1>3. Date(n, z) >= d
  BY <1>2
<1>4. n >= m /\ m \in Int /\ n \in Int
  BY <1>1, <1>3
<1> QED
  BY <1>4 DEF m, n

\* The search for the first midnight from `end` on.
Rounds(F, end, z) ==
  F = [day \in Int |-> IF FirstDayInstant(day, z) >= end THEN FirstDayInstant(day, z)
                                                        ELSE F[day + 1]]

\* The recursion of BoundaryAfter defines a function.
LEMMA SomeRounds ==
  ASSUME NEW z \in Zone, NEW end \in Int
  PROVE  \E F : Rounds(F, end, z)
<1> DEFINE first(day) == FirstDayInstant(day, z)
           e == Date(end, z)
           K == IF first(e) >= end THEN first(e) ELSE first(e + 1)
           F == [day \in Int |-> IF first(day) >= end THEN first(day) ELSE K]
<1>1. e \in Int
  BY DateReached
<1>2. \A day \in Int : first(day) \in Int /\ (e >= day <=> end >= first(day))
  BY FirstDayInstantOpens DEF Opens
<1>3. ASSUME NEW day \in Int, first(day) < end, first(day + 1) >= end
      PROVE  first(day + 1) = K
  <2>1. e >= day /\ first(day) \in Int /\ first(day + 1) \in Int /\ first(e) \in Int
    BY <1>1, <1>2, <1>3
  <2>2. CASE e >= day + 1
    <3>1. end >= first(day + 1) /\ first(e) <= end
      BY <1>1, <1>2, <2>2
    <3>2. first(day + 1) <= first(e)
      BY <1>1, <2>2, FirstDaysAscend
    <3> HIDE DEF first, e
    <3>3. first(e) = first(day + 1) /\ first(e) >= end
      BY <1>3, <2>1, <3>1, <3>2
    <3> QED
      BY <3>3
  <2>3. CASE ~(e >= day + 1)
    <3> HIDE DEF first, e
    <3>1. e = day
      BY <1>1, <2>1, <2>3
    <3>2. ~(first(e) >= end)
      BY <1>3, <2>1, <3>1
    <3> QED
      BY <3>1, <3>2
  <2> QED
    BY <2>2, <2>3
<1>4. ASSUME NEW day \in Int
      PROVE  F[day] = IF first(day) >= end THEN first(day) ELSE F[day + 1]
  <2>1. first(day) \in Int /\ first(day + 1) \in Int
    BY <1>2
  <2> HIDE DEF first, K
  <2>2. F[day] = IF first(day) >= end THEN first(day) ELSE K
    OBVIOUS
  <2>3. F[day + 1] = IF first(day + 1) >= end THEN first(day + 1) ELSE K
    OBVIOUS
  <2> HIDE DEF F
  <2> QED
    BY <1>3, <2>1, <2>2, <2>3
<1>5. F = [day \in Int |-> IF first(day) >= end THEN first(day) ELSE F[day + 1]]
  <2> HIDE DEF first, K
  <2> QED
    BY <1>4
<1>6. Rounds(F, end, z)
  BY <1>5 DEF Rounds
<1> QED
  BY <1>6

\* A change of zone waits for a midnight there that does not cut the window short.
LEMMA BoundaryIs ==
  ASSUME NEW z \in Zone, NEW end \in Int
  PROVE  Midnight(BoundaryAfter(end, z), z) /\ BoundaryAfter(end, z) >= end
<1> DEFINE F == CHOOSE G : Rounds(G, end, z)
           e == Date(end, z)
           a == FirstDayInstant(e, z)
           b == FirstDayInstant(e + 1, z)
<1>1. Rounds(F, end, z)
  BY SomeRounds
<1>2. BoundaryAfter(end, z) = F[e]
  BY DEF BoundaryAfter, Rounds
<1> HIDE DEF F
<1>3. e \in Int /\ a \in Int /\ b \in Int /\ end < b
  BY DateReached, DayHolds
<1>4. Midnight(a, z) /\ Midnight(b, z)
  BY <1>3, FirstIsMidnight
<1>5. /\ F[e] = IF a >= end THEN a ELSE F[e + 1]
      /\ F[e + 1] = IF b >= end THEN b ELSE F[e + 1 + 1]
  <2> HIDE DEF e
  <2> QED
    BY <1>1, <1>3 DEF Rounds
<1> HIDE DEF a, b, e
<1> QED
  BY <1>2, <1>3, <1>4, <1>5

\* No date is shorter than a day without what the clock is set forward by.
LEMMA DayIsLong ==
  ASSUME NEW z \in Zone, NEW d \in Int, NEW s \in Int,
         s <= Day, s <= Day - (z.after - z.before)
  PROVE  FirstDayInstant(d + 1, z) - FirstDayInstant(d, z) >= s
<1> DEFINE a == FirstDayInstant(d, z)
           b == FirstDayInstant(d + 1, z)
<1>1. /\ a \in Int /\ (Date(a - 1, z) >= d <=> a - 1 >= a)
      /\ b \in Int /\ (Date(b, z) >= d + 1 <=> b >= b)
  BY FirstDayInstantOpens DEF Opens
<1>2. a <= b
  BY FirstDaysAscend
<1> HIDE DEF a, b
<1>3. ~(Date(a - 1, z) >= d) /\ Date(b, z) >= d + 1
  BY <1>1
<1>4. /\ Local(a - 1, z) \in Int /\ Local(b, z) \in Int /\ d * Day \in Int
      /\ ~(Local(a - 1, z) >= d * Day) /\ Local(b, z) >= (d + 1) * Day
  BY <1>1, <1>3, DateReached
<1>5. (d + 1) * Day = d * Day + Day /\ Day \in Int
  BY CalendarAssumption
<1>6. Local(b, z) - Local(a - 1, z) > Day
  BY <1>4, <1>5
<1>7. z.before \in Int /\ z.at \in Int /\ z.after \in Int
  BY ZoneTyped
<1>8. b - a >= s
  BY <1>1, <1>2, <1>4, <1>5, <1>6, <1>7 DEF Local
<1> QED
  BY <1>8 DEF a, b

-----------------------------------------------------------------------------
(* The selection.                                                          *)

\* Of finite sets, one is smallest.
LEMMA SmallestSet ==
  ASSUME NEW F, F # {}, \A S \in F : IsFiniteSet(S)
  PROVE  \E S \in F : \A T \in F : Cardinality(S) <= Cardinality(T)
<1> DEFINE N == {n \in Nat : \E S \in F : n = Cardinality(S)}
<1>1. \A S \in F : Cardinality(S) \in N
  BY FS_CardinalityType
<1>2. N \in SUBSET Nat /\ N # {}
  BY <1>1
<1> HIDE DEF N
<1>3. PICK x \in N : \A y \in N : x <= y
  BY <1>2, LeastNumber
<1>4. PICK S \in F : x = Cardinality(S)
  BY DEF N
<1> QED
  BY <1>1, <1>3, <1>4

\* A set without some of its elements is smaller.
LEMMA Smaller ==
  ASSUME NEW S, IsFiniteSet(S), NEW P, P \subseteq S, P # {}
  PROVE  /\ IsFiniteSet(S \ P) /\ Cardinality(S) \in Nat /\ Cardinality(S \ P) \in Nat
         /\ Cardinality(S \ P) < Cardinality(S)
<1>1. S \ P \subseteq S /\ S \ P # S
  OBVIOUS
<1>2. /\ IsFiniteSet(S \ P) /\ Cardinality(S \ P) <= Cardinality(S)
      /\ Cardinality(S \ P) # Cardinality(S)
  BY <1>1, FS_Subset
<1>3. Cardinality(S) \in Nat /\ Cardinality(S \ P) \in Nat
  BY <1>2, FS_CardinalityType
<1> QED
  BY <1>2, <1>3

-----------------------------------------------------------------------------
(* What the selection answers.                                             *)

Picked(S, st, at, seen, first, none) == Selector!Pick(S, st, at, seen, first, none)
Intents == {"review", "strengthen", "acquire", "assess"}

\* An intent is for targets that are there; none is left when no target is due, weak
\* or assessable and what is new may not be acquired.
LEMMA PickCases ==
  ASSUME NEW S, NEW st, NEW at, NEW seen, NEW first, NEW none, NEW pick,
         pick = Picked(S, st, at, seen, first, none)
  PROVE  /\ pick.targets \subseteq S
         /\ pick.intent \in Intents \union {"none"}
         /\ pick.intent # "none" => pick.targets # {}
         /\ pick.intent = "acquire" => ~none
         /\ pick.intent = "none" =>
              \A t \in S : /\ ~Selector!HasEvidence(st[t])
                           /\ ~(t \in seen /\ st[t] # NoState)
                           /\ t \in Selector!Acquirable(S, st, at, seen) => none
         /\ pick.intent = "review" => \A t \in pick.targets : Selector!Scheduled(st[t])
         /\ pick.intent \in {"strengthen", "assess"} => \A t \in pick.targets : st[t] # NoState
<1> USE DEF Picked, Selector!Pick, Selector!Preferred
<1> DEFINE new == Selector!Acquirable(S, st, at, seen)
           due == Selector!Due(S, st, at)
           weak == Selector!Weak(S, st)
           known == Selector!Assessable(S, st, seen)
<1>1. new \subseteq S /\ due \subseteq S /\ weak \subseteq S /\ known \subseteq S
  BY DEF Selector!Acquirable, Selector!Due, Selector!Weak, Selector!Assessable
<1>2. \/ pick = [intent |-> "acquire", targets |-> new] /\ new # {} /\ ~none
      \/ pick = [intent |-> "review", targets |-> due] /\ due # {}
      \/ pick = [intent |-> "strengthen", targets |-> weak] /\ weak # {}
      \/ pick = [intent |-> "assess", targets |-> known] /\ known # {}
      \/ pick = [intent |-> "none", targets |-> new] /\ known = {} /\ (new # {} => none)
  <2> HIDE DEF new, due, weak, known
  <2>1. CASE first /\ new # {} /\ ~none
    BY <2>1 DEF new
  <2>2. CASE ~(first /\ new # {} /\ ~none)
    <3>1. pick = Selector!IntentTargets(S, st, at, seen, none)
      BY <2>2 DEF new
    <3> QED
      BY <3>1 DEF Selector!IntentTargets, new, due, weak, known
  <2> QED
    BY <2>1, <2>2
<1>3. /\ \A t \in due : Selector!Scheduled(st[t])
      /\ \A t \in weak \union known : st[t] # NoState
  BY DEF Selector!Due, Selector!IsDue, Selector!Weak, Selector!IsWeak, Selector!Assessable,
     Selector!HasEvidence
<1>4. /\ pick.intent = "review" => \A t \in pick.targets : Selector!Scheduled(st[t])
      /\ pick.intent \in {"strengthen", "assess"} => \A t \in pick.targets : st[t] # NoState
  <2> HIDE DEF new, due, weak, known
  <2> QED
    BY <1>2, <1>3
<1> QED
  BY <1>1, <1>2, <1>4 DEF Intents, Selector!Assessable

Valid(pick) == {t \in pick.targets : Selector!IsValid(t)}

\* What the selection answers on S, if F is what it answers on smaller sets.
Answer(F, frontier, S, st, at, seen, first, none) ==
  LET preferred == Selector!Preferred(S, st, at, seen, first, none)
      pick == Picked(S, st, at, seen, first, none)
  IN CASE S = {} -> Selector!NoActivity("no_valid_candidate")
       [] S # {} /\ pick.intent = "none" ->
            Selector!NoActivity(
              IF pick.targets # {} /\ none THEN "daily_acquire_budget_reached"
              ELSE IF S # frontier THEN "no_valid_candidate" ELSE "empty_frontier")
       [] S # {} /\ pick.intent # "none" /\ Valid(pick) # {} ->
            [code |-> "none", intent |-> pick.intent,
             targets |-> Selector!Best(Valid(pick), pick.intent, st)]
       [] OTHER -> F[S \ pick.targets][first /\ ~preferred]

Selects(F, frontier, st, at, seen, none) ==
  F = [S \in SUBSET Target |->
         [first \in BOOLEAN |-> Answer(F, frontier, S, st, at, seen, first, none)]]

\* Only a smaller set is asked about.
LEMMA AnswerLocal ==
  ASSUME NEW F, NEW G, NEW frontier, NEW S, NEW st, NEW at, NEW seen,
         NEW first \in BOOLEAN, NEW none \in BOOLEAN,
         \A P \in SUBSET S : P # {} => F[S \ P] = G[S \ P]
  PROVE  Answer(F, frontier, S, st, at, seen, first, none)
           = Answer(G, frontier, S, st, at, seen, first, none)
<1> DEFINE pick == Picked(S, st, at, seen, first, none)
<1> HIDE DEF pick
<1>1. pick.targets \subseteq S /\ (pick.intent # "none" => pick.targets # {})
  <2>1. pick = Picked(S, st, at, seen, first, none)
    BY DEF pick
  <2> QED
    BY <2>1, PickCases
<1>2. CASE S # {} /\ pick.intent # "none" /\ Valid(pick) = {}
  <2>1. F[S \ pick.targets] = G[S \ pick.targets]
    BY <1>1, <1>2
  <2> QED
    BY <1>2, <2>1 DEF Answer, pick
<1>3. CASE ~(S # {} /\ pick.intent # "none" /\ Valid(pick) = {})
  BY <1>3 DEF Answer, pick
<1> QED
  BY <1>2, <1>3

\* The recursion of Select, on ever fewer targets, defines a function,
LEMMA SomeSelection ==
  ASSUME NEW frontier, NEW st, NEW at, NEW seen, NEW none \in BOOLEAN
  PROVE  \E F : Selects(F, frontier, st, at, seen, none)
<1> DEFINE Upto(n) == {S \in SUBSET Target : Cardinality(S) <= n}
           A(F, S, first) == Answer(F, frontier, S, st, at, seen, first, none)
           Made(F, n) == F = [S \in Upto(n) |-> [first \in BOOLEAN |-> A(F, S, first)]]
           Has(n) == \E F : Made(F, n)
           Bad == {n \in Nat : ~Has(n)}
<1>1. \A S \in SUBSET Target : IsFiniteSet(S) /\ Cardinality(S) \in Nat
  BY TargetAssumption, FS_Subset, FS_CardinalityType
<1>2. \A S \in SUBSET Target : \A P \in SUBSET S : P # {} =>
        Cardinality(S \ P) \in Nat /\ Cardinality(S \ P) < Cardinality(S)
  BY <1>1, Smaller
<1>3. Has(0)
  <2>1. \A S \in Upto(0) : S = {}
    BY <1>1, FS_EmptySet
  <2>2. \A F, first : A(F, {}, first) = Selector!NoActivity("no_valid_candidate")
    BY DEF Answer
  <2> HIDE DEF A
  <2> DEFINE F == [S \in Upto(0) |->
                     [first \in BOOLEAN |-> Selector!NoActivity("no_valid_candidate")]]
  <2>3. F = [S \in Upto(0) |-> [first \in BOOLEAN |-> A(F, S, first)]]
    <3> HIDE DEF Upto
    <3>1. \A S \in Upto(0) : F[S] = [first \in BOOLEAN |-> A(F, S, first)]
      BY <2>1, <2>2
    <3> QED
      BY <3>1
  <2>4. Made(F, 0)
    BY <2>3
  <2> QED
    BY <2>4
<1>4. ASSUME NEW n \in Nat, Has(n)
      PROVE  Has(n + 1)
  <2>1. PICK F : Made(F, n)
    BY <1>4
  <2> HIDE DEF A
  <2> DEFINE G == [S \in Upto(n + 1) |->
                     IF S \in Upto(n) THEN F[S] ELSE [first \in BOOLEAN |-> A(F, S, first)]]
  <2>2. Upto(n) \subseteq Upto(n + 1)
    BY <1>1
  <2>3. \A S \in Upto(n) : G[S] = F[S]
    BY <2>2
  <2>4. \A S \in Upto(n + 1) : \A P \in SUBSET S : P # {} => S \ P \in Upto(n)
    BY <1>1, <1>2
  <2>5. \A S \in Upto(n) : F[S] = [first \in BOOLEAN |-> A(F, S, first)]
    BY <2>1
  <2>6. \A S \in Upto(n + 1) : G[S] = [first \in BOOLEAN |-> A(F, S, first)]
    BY <2>5
  <2> HIDE DEF G
  <2>7. \A S \in Upto(n + 1) : \A first \in BOOLEAN : A(G, S, first) = A(F, S, first)
    <3> SUFFICES ASSUME NEW S \in Upto(n + 1), NEW first \in BOOLEAN
                 PROVE  A(G, S, first) = A(F, S, first)
      OBVIOUS
    <3>1. \A P \in SUBSET S : P # {} => G[S \ P] = F[S \ P]
      <4> HIDE DEF Upto
      <4> QED
        BY <2>3, <2>4
    <3> QED
      BY <3>1, AnswerLocal DEF A
  <2>8. G = [S \in Upto(n + 1) |-> [first \in BOOLEAN |-> A(G, S, first)]]
    <3>1. \A S \in Upto(n + 1) : G[S] = [first \in BOOLEAN |-> A(G, S, first)]
      <4> HIDE DEF Upto
      <4> QED
        BY <2>6, <2>7
    <3>2. G = [S \in Upto(n + 1) |-> G[S]]
      BY DEF G
    <3> HIDE DEF Upto
    <3> QED
      BY <3>1, <3>2
  <2>9. Made(G, n + 1)
    BY <2>8
  <2> QED
    BY <2>9
<1>5. Bad = {}
  <2> SUFFICES ASSUME Bad # {} PROVE FALSE
    OBVIOUS
  <2>1. PICK n \in Bad : \A m \in Bad : n <= m
    <3>1. Bad \in SUBSET Nat
      OBVIOUS
    <3> HIDE DEF Bad
    <3> QED
      BY <3>1, LeastNumber
  <2>2. n \in Nat /\ n # 0 /\ n - 1 \in Nat /\ ~(n <= n - 1) /\ (n - 1) + 1 = n
    <3>1. n \in Nat /\ n # 0
      <4> HIDE DEF Has
      <4> QED
        BY <1>3
    <3> QED
      BY <3>1
  <2> HIDE DEF Has
  <2>3. Has(n - 1)
    BY <2>1, <2>2
  <2> QED
    BY <1>4, <2>1, <2>2, <2>3
<1>6. Has(Cardinality(Target))
  <2> HIDE DEF Has
  <2> QED
    BY <1>1, <1>5
<1>7. Upto(Cardinality(Target)) = SUBSET Target
  <2>1. \A S \in SUBSET Target : Cardinality(S) <= Cardinality(Target)
    BY TargetAssumption, FS_Subset
  <2> QED
    BY <2>1
<1>8. PICK F : Made(F, Cardinality(Target))
  BY <1>6
<1>9. Selects(F, frontier, st, at, seen, none)
  <2> HIDE DEF Upto
  <2> QED
    BY <1>7, <1>8 DEF Selects
<1> QED
  BY <1>9

\* which Select starts at the frontier.
LEMMA SelectIs ==
  ASSUME NEW frontier, NEW st, NEW at, NEW seen, NEW prefer, NEW none \in BOOLEAN
  PROVE  \E F : /\ Selects(F, frontier, st, at, seen, none)
                /\ Selector!Select(frontier, st, at, seen, prefer, none) =
                     IF frontier = {} THEN Selector!NoActivity("empty_frontier")
                     ELSE F[frontier][prefer]
<1> DEFINE F == CHOOSE G : Selects(G, frontier, st, at, seen, none)
<1>1. Selects(F, frontier, st, at, seen, none)
  BY SomeSelection
<1>2. Selector!Select(frontier, st, at, seen, prefer, none) =
        IF frontier = {} THEN Selector!NoActivity("empty_frontier") ELSE F[frontier][prefer]
  BY DEF Selector!Select, Selects, Answer, Picked, Valid
<1> HIDE DEF F
<1> QED
  BY <1>1, <1>2

-----------------------------------------------------------------------------
(* The ranking.                                                            *)

\* A finite set that is not empty has an element before which there is none.
LEMMA FirstOf ==
  ASSUME NEW V, V # {}, IsFiniteSet(V), NEW R,
         \A t \in V : <<t, t>> \notin R,
         \A s, t, u \in V : <<s, t>> \in R /\ <<t, u>> \in R => <<s, u>> \in R
  PROVE  \E t \in V : \A u \in V : <<u, t>> \notin R
<1> DEFINE First(T) == \E t \in T : \A u \in T : <<u, t>> \notin R
           Bad == {T \in SUBSET V : T # {} /\ ~First(T)}
<1>1. \A T \in SUBSET V : IsFiniteSet(T)
  BY FS_Subset
<1>2. Bad = {}
  <2> SUFFICES ASSUME Bad # {} PROVE FALSE
    OBVIOUS
  <2>1. PICK T \in Bad : \A U \in Bad : Cardinality(T) <= Cardinality(U)
    <3>1. \A T \in Bad : IsFiniteSet(T)
      BY <1>1
    <3> HIDE DEF Bad
    <3> QED
      BY <3>1, SmallestSet
  <2>2. PICK x \in T : TRUE
    OBVIOUS
  <2>3. T \subseteq V /\ ~First(T) /\ <<x, x>> \notin R
    BY <2>2
  <2>4. T \ {x} # {}
    BY <2>2, <2>3
  <2>5. ~(Cardinality(T) <= Cardinality(T \ {x}))
    <3>1. IsFiniteSet(T) /\ {x} \subseteq T /\ {x} # {}
      BY <1>1, <2>2, <2>3
    <3>2. /\ Cardinality(T) \in Nat /\ Cardinality(T \ {x}) \in Nat
          /\ Cardinality(T \ {x}) < Cardinality(T)
      <4> HIDE DEF Bad
      <4> QED
        BY <3>1, Smaller
    <3> QED
      BY <3>2
  <2>6. First(T \ {x})
    <3>1. T \ {x} \notin Bad
      <4> HIDE DEF Bad
      <4> QED
        BY <2>1, <2>5
    <3> QED
      BY <2>3, <2>4, <3>1
  <2>7. PICK y \in T \ {x} : \A u \in T \ {x} : <<u, y>> \notin R
    BY <2>6
  <2>8. CASE <<x, y>> \in R
    <3>1. \A u \in T : <<u, x>> \notin R
      BY <2>2, <2>3, <2>7, <2>8
    <3> QED
      BY <2>2, <2>3, <3>1
  <2>9. CASE <<x, y>> \notin R
    BY <2>3, <2>7, <2>9
  <2> QED
    BY <2>8, <2>9
<1> QED
  BY <1>2

\* Keys of two numbers, or of three, are compared from the left.
LEMMA Ranks ==
  /\ \A a, b, c, d \in Int :
       Selector!Precedes(<<a, b>>, <<c, d>>) <=> a < c \/ (a = c /\ b < d)
  /\ \A a, b, c, d, e, f \in Int :
       Selector!Precedes(<<a, b, c>>, <<d, e, f>>)
         <=> a < d \/ (a = d /\ b < e) \/ (a = d /\ b = e /\ c < f)
<1>1. ASSUME NEW a \in Int, NEW b \in Int, NEW c \in Int, NEW d \in Int
      PROVE  Selector!Precedes(<<a, b>>, <<c, d>>) <=> a < c \/ (a = c /\ b < d)
  <2>1. DOMAIN <<a, b>> = {1, 2} /\ 1..(1 - 1) = {} /\ 1..(2 - 1) = {1}
    OBVIOUS
  <2> QED
    BY <2>1 DEF Selector!Precedes
<1>2. ASSUME NEW a \in Int, NEW b \in Int, NEW c \in Int,
             NEW d \in Int, NEW e \in Int, NEW f \in Int
      PROVE  Selector!Precedes(<<a, b, c>>, <<d, e, f>>)
               <=> a < d \/ (a = d /\ b < e) \/ (a = d /\ b = e /\ c < f)
  <2>1. /\ DOMAIN <<a, b, c>> = {1, 2, 3}
        /\ 1..(1 - 1) = {} /\ 1..(2 - 1) = {1} /\ 1..(3 - 1) = {1, 2}
    OBVIOUS
  <2> QED
    BY <2>1 DEF Selector!Precedes
<1> QED
  BY <1>1, <1>2

\* What a state needs to be ranked for an intent.
Ranked(intent, t, st) ==
  /\ intent = "review" => st[t].due \in Int
  /\ intent = "strengthen" => st[t].success \in Int /\ st[t].failure \in Int
  /\ intent = "assess" => st[t].success \in Int /\ st[t].failure \in Int /\ st[t].at \in Int

LEMMA KeyTyped ==
  ASSUME NEW t \in Target, NEW st, NEW intent \in Intents, Ranked(intent, t, st)
  PROVE  Selector!RankKey(intent, t, st)
           \in (IF intent = "assess" THEN Int \X Int \X Int ELSE Int \X Int)
<1>1. Priority[t] \in Int /\ -Priority[t] \in Int
  BY LevelAssumption
<1>2. Selector!SoftReady(t, st) \in Nat
  <2>1. IsFiniteSet({p \in Selector!Before(Soft, t) : Selector!UnreadyReason(st[p]) = "ready"})
    BY TargetAssumption, FS_Subset DEF Selector!Before
  <2>2. \A S : Selector!Cardinality(S) = Cardinality(S)
    BY DEF Selector!Cardinality, Cardinality
  <2> DEFINE S == {p \in Selector!Before(Soft, t) : Selector!UnreadyReason(st[p]) = "ready"}
  <2>3. Selector!SoftReady(t, st) = Cardinality(S)
    BY <2>2 DEF Selector!SoftReady
  <2>4. Cardinality(S) \in Nat
    BY <2>1, FS_CardinalityType
  <2> QED
    BY <2>3, <2>4
<1>3. -Selector!SoftReady(t, st) \in Int
  BY <1>2
<1> QED
  BY <1>1, <1>3 DEF Selector!RankKey, Ranked, Intents

\* Among targets that can be ranked one is best.
LEMMA BestIsThere ==
  ASSUME NEW V \in SUBSET Target, V # {}, NEW st, NEW intent \in Intents,
         \A t \in V : Ranked(intent, t, st)
  PROVE  Selector!Best(V, intent, st) # {}
<1> DEFINE K(t) == Selector!RankKey(intent, t, st)
           R == {p \in V \X V : Selector!Precedes(K(p[1]), K(p[2]))}
<1>1. \A t \in V : K(t) \in (IF intent = "assess" THEN Int \X Int \X Int ELSE Int \X Int)
  BY KeyTyped
<1> HIDE DEF K
<1>2. /\ \A t \in V : ~Selector!Precedes(K(t), K(t))
      /\ \A s, t, u \in V : Selector!Precedes(K(s), K(t)) /\ Selector!Precedes(K(t), K(u))
                              => Selector!Precedes(K(s), K(u))
  <2>1. CASE intent = "assess"
    <3>1. \A t \in V : /\ K(t) = <<K(t)[1], K(t)[2], K(t)[3]>>
                       /\ K(t)[1] \in Int /\ K(t)[2] \in Int /\ K(t)[3] \in Int
      BY <1>1, <2>1
    <3>2. \A s, t \in V : Selector!Precedes(K(s), K(t))
            <=> \/ K(s)[1] < K(t)[1]
                \/ K(s)[1] = K(t)[1] /\ K(s)[2] < K(t)[2]
                \/ K(s)[1] = K(t)[1] /\ K(s)[2] = K(t)[2] /\ K(s)[3] < K(t)[3]
      BY <3>1, Ranks
    <3> QED
      BY <3>1, <3>2
  <2>2. CASE intent # "assess"
    <3>1. \A t \in V : /\ K(t) = <<K(t)[1], K(t)[2]>>
                       /\ K(t)[1] \in Int /\ K(t)[2] \in Int
      BY <1>1, <2>2
    <3>2. \A s, t \in V : Selector!Precedes(K(s), K(t))
            <=> K(s)[1] < K(t)[1] \/ (K(s)[1] = K(t)[1] /\ K(s)[2] < K(t)[2])
      BY <3>1, Ranks
    <3> QED
      BY <3>1, <3>2
  <2> QED
    BY <2>1, <2>2
<1>3. \A s, t \in V : <<s, t>> \in R <=> Selector!Precedes(K(s), K(t))
  OBVIOUS
<1>4. IsFiniteSet(V)
  BY TargetAssumption, FS_Subset
<1> HIDE DEF R
<1>5. /\ \A t \in V : <<t, t>> \notin R
      /\ \A s, t, u \in V : <<s, t>> \in R /\ <<t, u>> \in R => <<s, u>> \in R
  BY <1>2, <1>3
<1>6. \E t \in V : \A u \in V : <<u, t>> \notin R
  BY <1>4, <1>5, FirstOf
<1> QED
  BY <1>3, <1>6 DEF Selector!Best, K

-----------------------------------------------------------------------------
(* Why the selection answers so.                                           *)

\* Exactly the targets that have been issued have a state, unless they wait.
Known(S, st, seen) == \A t \in S : t \in seen <=> st[t] # NoState

\* What a state is ranked by.
Stated(S, st) ==
  \A t \in S : st[t] # NoState =>
    /\ st[t].success \in Int /\ st[t].failure \in Int /\ st[t].at \in Int
    /\ st[t].due # NoTime => st[t].due \in Int

\* An answer has targets, of those asked about, and new ones only if they may be; a
\* refusal has a reason for each target.
Justified(decision, S, seen, none) ==
  /\ decision.code = "none" =>
       /\ decision.targets \subseteq S /\ decision.targets # {}
       /\ decision.intent \in Intents
       /\ decision.intent = "acquire" => ~none
  /\ decision.code # "none" => \A t \in S : t \in Invalid \/ (t \notin seen /\ none)

\* select_next offers one of the best of the frontier's targets, and offers none only when
\* each target there has no valid candidate or is new while no new one may be issued.
THEOREM SelectionJustified ==
  ASSUME NEW frontier \in SUBSET Target, NEW st, NEW at, NEW seen, NEW prefer \in BOOLEAN,
         NEW none \in BOOLEAN, Known(frontier, st, seen), Stated(frontier, st)
  PROVE  Justified(Selector!Select(frontier, st, at, seen, prefer, none), frontier, seen, none)
<1>1. PICK F : /\ Selects(F, frontier, st, at, seen, none)
               /\ Selector!Select(frontier, st, at, seen, prefer, none) =
                    IF frontier = {} THEN Selector!NoActivity("empty_frontier")
                    ELSE F[frontier][prefer]
  BY SelectIs
<1> DEFINE Right(S) == \A first \in BOOLEAN : Justified(F[S][first], S, seen, none)
           Bad == {S \in SUBSET frontier : ~Right(S)}
<1>2. \A S \in SUBSET frontier : IsFiniteSet(S)
  BY TargetAssumption, FS_Subset
<1>3. Bad = {}
  <2> SUFFICES ASSUME Bad # {} PROVE FALSE
    OBVIOUS
  <2>1. PICK S \in Bad : \A P \in Bad : Cardinality(S) <= Cardinality(P)
    <3>1. \A P \in Bad : IsFiniteSet(P)
      BY <1>2
    <3> HIDE DEF Bad
    <3> QED
      BY <3>1, SmallestSet
  <2>2. PICK first \in BOOLEAN : ~Justified(F[S][first], S, seen, none)
    BY <2>1
  <2> DEFINE pick == Picked(S, st, at, seen, first, none)
             next == first /\ ~Selector!Preferred(S, st, at, seen, first, none)
  <2>3. F[S][first] = Answer(F, frontier, S, st, at, seen, first, none)
    <3>1. S \in SUBSET Target /\ first \in BOOLEAN
      BY <2>2
    <3>2. F[S] = [one \in BOOLEAN |-> Answer(F, frontier, S, st, at, seen, one, none)]
      BY <1>1, <3>1 DEF Selects
    <3> QED
      BY <3>1, <3>2
  <2>4. /\ pick.targets \subseteq S
        /\ pick.intent \in Intents \union {"none"}
        /\ pick.intent # "none" => pick.targets # {}
        /\ pick.intent = "acquire" => ~none
        /\ pick.intent = "none" =>
             \A t \in S : /\ ~Selector!HasEvidence(st[t])
                          /\ ~(t \in seen /\ st[t] # NoState)
                          /\ t \in Selector!Acquirable(S, st, at, seen) => none
        /\ pick.intent = "review" => \A t \in pick.targets : Selector!Scheduled(st[t])
        /\ pick.intent \in {"strengthen", "assess"} => \A t \in pick.targets : st[t] # NoState
    <3> HIDE DEF pick
    <3>1. pick = Picked(S, st, at, seen, first, none)
      BY DEF pick
    <3>2. first \in BOOLEAN
      BY <2>2
    <3> QED
      BY <3>1, <3>2, PickCases
  <2>5. CASE S = {}
    BY <2>2, <2>3, <2>5 DEF Answer, Justified, Selector!NoActivity
  <2>6. CASE S # {} /\ pick.intent = "none"
    <3>1. \A t \in S : t \notin seen /\ none
      <4> SUFFICES ASSUME NEW t \in S PROVE t \notin seen /\ none
        OBVIOUS
      <4>1. st[t] = NoState /\ t \notin seen
        BY <2>4, <2>6 DEF Known
      <4>2. t \in Selector!Acquirable(S, st, at, seen)
        BY <4>1 DEF Selector!Acquirable, Selector!IsAcquirable, Selector!HasEvidence,
           Selector!Scheduled
      <4> QED
        BY <2>4, <2>6, <4>1, <4>2
    <3>2. PICK code : code # "none" /\ F[S][first] = Selector!NoActivity(code)
      <4> HIDE DEF pick
      <4>1. Answer(F, frontier, S, st, at, seen, first, none) = Selector!NoActivity(
              IF pick.targets # {} /\ none THEN "daily_acquire_budget_reached"
              ELSE IF S # frontier THEN "no_valid_candidate" ELSE "empty_frontier")
        BY <2>6 DEF Answer, pick
      <4> QED
        BY <2>3, <4>1
    <3> QED
      BY <2>2, <3>1, <3>2 DEF Justified, Selector!NoActivity
  <2>7. CASE S # {} /\ pick.intent # "none" /\ Valid(pick) # {}
    <3> HIDE DEF pick
    <3>1. F[S][first] = [code |-> "none", intent |-> pick.intent,
                         targets |-> Selector!Best(Valid(pick), pick.intent, st)]
      BY <2>3, <2>7 DEF Answer, pick
    <3>2. Selector!Best(Valid(pick), pick.intent, st) \subseteq S
      BY <2>4 DEF Selector!Best, Valid
    <3>3. Selector!Best(Valid(pick), pick.intent, st) # {}
      <4>1. Valid(pick) \subseteq pick.targets /\ Valid(pick) \in SUBSET Target /\ S \subseteq frontier
        BY <2>4 DEF Valid
      <4>2. \A t \in Valid(pick) : Ranked(pick.intent, t, st)
        <5> SUFFICES ASSUME NEW t \in Valid(pick) PROVE Ranked(pick.intent, t, st)
          OBVIOUS
        <5>1. t \in pick.targets /\ t \in frontier
          BY <2>4, <4>1
        <5>2. pick.intent = "review" => st[t] # NoState /\ st[t].due # NoTime
          BY <2>4, <5>1 DEF Selector!Scheduled
        <5>3. pick.intent \in {"strengthen", "assess"} => st[t] # NoState
          BY <2>4, <5>1
        <5> QED
          BY <5>1, <5>2, <5>3 DEF Stated, Ranked
      <4> QED
        BY <2>4, <2>7, <4>1, <4>2, BestIsThere
    <3> QED
      BY <2>2, <2>4, <2>7, <3>1, <3>2, <3>3 DEF Justified
  <2>8. CASE S # {} /\ pick.intent # "none" /\ Valid(pick) = {}
    <3> DEFINE P == S \ pick.targets
    <3>1. F[S][first] = F[P][next] /\ next \in BOOLEAN
      BY <2>3, <2>8 DEF Answer
    <3>2. P \notin Bad /\ P \in SUBSET frontier
      <4> HIDE DEF pick
      <4>1. Cardinality(P) < Cardinality(S) /\ Cardinality(P) \in Nat /\ Cardinality(S) \in Nat
        BY <1>2, <2>1, <2>4, <2>8, Smaller
      <4>2. ~(Cardinality(S) <= Cardinality(P))
        BY <4>1
      <4> QED
        BY <2>1, <4>2
    <3>3. Justified(F[P][next], P, seen, none)
      <4> HIDE DEF P, next
      <4> QED
        BY <3>1, <3>2
    <3>4. \A t \in pick.targets : t \in Invalid
      BY <2>8 DEF Valid, Selector!IsValid
    <3> HIDE DEF pick, next
    <3> QED
      BY <2>2, <3>1, <3>3, <3>4 DEF Justified
  <2> QED
    BY <2>5, <2>6, <2>7, <2>8
<1>4. CASE frontier = {}
  BY <1>1, <1>4 DEF Justified, Selector!NoActivity
<1>5. CASE frontier # {}
  BY <1>1, <1>3, <1>5
<1> QED
  BY <1>4, <1>5

-----------------------------------------------------------------------------
(* Counting answers.                                                       *)

Those(s, p, outcome, n) == {k \in 1..n : s[k].target = p /\ s[k].outcome = outcome}
Count(s, p, outcome, n) == Cardinality(Those(s, p, outcome, n))

MasteredIn(s, p, n) ==
  \E k \in 0..n : /\ Count(s, p, "correct", k) >= 1
                  /\ 2 * Count(s, p, "correct", k) >= 1 + 3 * Count(s, p, "incorrect", k)

Result == [target : Target, outcome : Verdict \union {"exposure"}]

\* A count is a number,
LEMMA CountTyped ==
  ASSUME NEW s, NEW p, NEW outcome, NEW n \in Nat
  PROVE  /\ IsFiniteSet(Those(s, p, outcome, n))
         /\ Count(s, p, outcome, n) \in Nat
<1>1. IsFiniteSet(1..n)
  BY FS_Interval
<1>2. IsFiniteSet(Those(s, p, outcome, n))
  BY <1>1, FS_Subset DEF Those
<1> QED
  BY <1>2, FS_CardinalityType DEF Count

\* which more answers never make smaller,
LEMMA CountGrows ==
  ASSUME NEW s, NEW p, NEW outcome, NEW n \in Nat, NEW m \in 0..n
  PROVE  Count(s, p, outcome, m) <= Count(s, p, outcome, n)
<1>1. Those(s, p, outcome, m) \subseteq Those(s, p, outcome, n)
  BY DEF Those
<1>2. IsFiniteSet(Those(s, p, outcome, n))
  BY CountTyped
<1> QED
  BY <1>1, <1>2, FS_Subset DEF Count

\* and which an answer changes by one, or not at all.
LEMMA CountAppend ==
  ASSUME NEW s \in Seq(Result), NEW r \in Result, NEW p, NEW outcome
  PROVE  /\ \A k \in 0..Len(s) : Count(Append(s, r), p, outcome, k) = Count(s, p, outcome, k)
         /\ Count(Append(s, r), p, outcome, Len(s) + 1) =
              Count(s, p, outcome, Len(s))
              + (IF r.target = p /\ r.outcome = outcome THEN 1 ELSE 0)
<1> DEFINE n == Len(s)
           A(q, i) == Those(q, p, outcome, i)
<1>1. n \in Nat /\ \A k \in 1..n : Append(s, r)[k] = s[k]
  OBVIOUS
<1>2. Append(s, r)[n + 1] = r
  OBVIOUS
<1>3. \A k \in 0..n : A(Append(s, r), k) = A(s, k)
  BY <1>1 DEF Those
<1>4. A(Append(s, r), n + 1) =
        IF r.target = p /\ r.outcome = outcome THEN A(s, n) \union {n + 1} ELSE A(s, n)
  BY <1>1, <1>2 DEF Those
<1>5. IsFiniteSet(A(s, n)) /\ n + 1 \notin A(s, n) /\ Cardinality(A(s, n)) \in Nat
  <2>1. n + 1 \notin A(s, n)
    BY <1>1 DEF Those
  <2> HIDE DEF n
  <2>2. IsFiniteSet(A(s, n))
    BY <1>1, CountTyped
  <2> QED
    BY <2>1, <2>2, FS_CardinalityType
<1>6. Cardinality(A(s, n) \union {n + 1}) = Cardinality(A(s, n)) + 1
  <2> HIDE DEF A, n
  <2> QED
    BY <1>5, FS_AddElement
<1>7. Cardinality(A(Append(s, r), n + 1)) =
        Cardinality(A(s, n)) + (IF r.target = p /\ r.outcome = outcome THEN 1 ELSE 0)
  <2> HIDE DEF A, n
  <2> QED
    BY <1>4, <1>5, <1>6
<1> QED
  BY <1>3, <1>7 DEF Count

\* What was mastered stays so, and only a right answer to p can master it.
LEMMA MasteredAppend ==
  ASSUME NEW s \in Seq(Result), NEW r \in Result, NEW p
  PROVE  /\ \A n \in 0..Len(s) : MasteredIn(Append(s, r), p, n) <=> MasteredIn(s, p, n)
         /\ MasteredIn(Append(s, r), p, Len(s) + 1) <=>
              \/ MasteredIn(s, p, Len(s))
              \/ /\ r.target = p /\ r.outcome = "correct"
                 /\ 2 * (Count(s, p, "correct", Len(s)) + 1)
                      >= 1 + 3 * Count(s, p, "incorrect", Len(s))
<1> DEFINE n == Len(s)
           q == Append(s, r)
           right(k) == Count(s, p, "correct", k)
           wrong(k) == Count(s, p, "incorrect", k)
           rightq(k) == Count(q, p, "correct", k)
           wrongq(k) == Count(q, p, "incorrect", k)
           hit(o) == IF r.target = p /\ r.outcome = o THEN 1 ELSE 0
<1>1. /\ n \in Nat
      /\ \A k \in 0..n : rightq(k) = right(k) /\ wrongq(k) = wrong(k)
      /\ rightq(n + 1) = right(n) + hit("correct")
      /\ wrongq(n + 1) = wrong(n) + hit("incorrect")
  BY CountAppend
<1>2. right(n) \in Nat /\ wrong(n) \in Nat
  <2> HIDE DEF n
  <2> QED
    BY <1>1, CountTyped
<1>3. MasteredIn(q, p, n + 1) <=>
        \/ MasteredIn(q, p, n)
        \/ rightq(n + 1) >= 1 /\ 2 * rightq(n + 1) >= 1 + 3 * wrongq(n + 1)
  <2>1. 0..(n + 1) = (0..n) \union {n + 1}
    BY <1>1
  <2> QED
    BY <2>1 DEF MasteredIn
<1>4. \A m \in 0..n : MasteredIn(q, p, m) <=> MasteredIn(s, p, m)
  <2> SUFFICES ASSUME NEW m \in 0..n
               PROVE  MasteredIn(q, p, m) <=> MasteredIn(s, p, m)
    OBVIOUS
  <2>1. \A k \in 0..m : rightq(k) = right(k) /\ wrongq(k) = wrong(k)
    BY <1>1
  <2> QED
    BY <2>1 DEF MasteredIn
<1>5. right(n) >= 1 /\ 2 * right(n) >= 1 + 3 * wrong(n) => MasteredIn(s, p, n)
  BY <1>1 DEF MasteredIn
<1>6. MasteredIn(q, p, n) <=> MasteredIn(s, p, n)
  BY <1>1, <1>4
<1> HIDE DEF n, q, right, wrong, rightq, wrongq
<1>7. CASE r.target = p /\ r.outcome = "correct"
  <2>1. rightq(n + 1) = right(n) + 1 /\ wrongq(n + 1) = wrong(n)
    BY <1>1, <1>2, <1>7
  <2>2. MasteredIn(q, p, n + 1) <=>
          \/ MasteredIn(s, p, n)
          \/ 2 * (right(n) + 1) >= 1 + 3 * wrong(n)
    BY <1>2, <1>3, <1>6, <2>1
  <2> QED
    BY <1>4, <1>7, <2>2 DEF n, q, right, wrong
<1>8. CASE ~(r.target = p /\ r.outcome = "correct")
  <2>1. rightq(n + 1) = right(n) /\ wrongq(n + 1) >= wrong(n) /\ wrongq(n + 1) \in Nat
    BY <1>1, <1>2, <1>8
  <2>2. MasteredIn(q, p, n + 1) <=> MasteredIn(s, p, n)
    BY <1>2, <1>3, <1>5, <1>6, <2>1
  <2> QED
    BY <1>4, <1>8, <2>2 DEF n, q, right, wrong
<1> QED
  BY <1>7, <1>8

\* What was mastered before n answers was so before more.
LEMMA MasteredGrows ==
  ASSUME NEW s, NEW p, NEW n \in Nat, NEW m \in 0..n, MasteredIn(s, p, m)
  PROVE  MasteredIn(s, p, n)
BY DEF MasteredIn

-----------------------------------------------------------------------------
(* The peak.                                                               *)

Earned(peak) == 5 * peak[1] >= 3 * peak[2]
Peak == {peak \in Nat \X Nat : peak[2] > 0}

\* A ratio no smaller than one of three fifths is one of three fifths.
LEMMA Crosses ==
  ASSUME NEW a \in Nat, NEW b \in Nat, NEW c \in Nat, NEW d \in Nat, b > 0, d > 0,
         a * d >= c * b, 5 * c >= 3 * d
  PROVE  5 * a >= 3 * b
<1>1. SUFFICES ASSUME 5 * a < 3 * b PROVE FALSE
  OBVIOUS
<1>2. 5 * a + 1 <= 3 * b
  BY <1>1
<1>3. (5 * a + 1) * d <= (3 * b) * d
  BY <1>2
<1>4. (5 * c) * b >= (3 * d) * b
  OBVIOUS
<1>5. /\ (5 * a + 1) * d = 5 * (a * d) + d /\ (3 * b) * d = 3 * (b * d)
      /\ (5 * c) * b = 5 * (c * b) /\ (3 * d) * b = 3 * (b * d)
  OBVIOUS
<1> DEFINE ad == a * d
           cb == c * b
           bd == b * d
<1>6. ad \in Nat /\ cb \in Nat /\ bd \in Nat
  OBVIOUS
<1>7. ad >= cb /\ 5 * ad + d <= 3 * bd /\ 5 * cb >= 3 * bd
  BY <1>3, <1>4, <1>5
<1> HIDE DEF ad, cb, bd
<1> QED
  BY <1>6, <1>7

\* The higher of two peaks has earned what either has.
LEMMA HigherEarned ==
  ASSUME NEW p \in Peak, NEW q \in Peak
  PROVE  /\ Memory!Higher(p, q) \in Peak
         /\ Earned(Memory!Higher(p, q)) <=> Earned(p) \/ Earned(q)
<1> DEFINE a == p[1]
           b == p[2]
           c == q[1]
           d == q[2]
<1>1. a \in Nat /\ b \in Nat /\ c \in Nat /\ d \in Nat /\ b > 0 /\ d > 0
  BY DEF Peak
<1>2. CASE a * d >= c * b
  <2>1. Memory!Higher(p, q) = p
    BY <1>2 DEF Memory!Higher
  <2>2. Earned(q) => Earned(p)
    <3> HIDE DEF a, b, c, d
    <3>1. 5 * c >= 3 * d => 5 * a >= 3 * b
      BY <1>1, <1>2, Crosses
    <3> QED
      BY <3>1 DEF Earned, a, b, c, d
  <2> QED
    BY <2>1, <2>2
<1>3. CASE ~(a * d >= c * b)
  <2>1. Memory!Higher(p, q) = q
    BY <1>3 DEF Memory!Higher
  <2>2. Earned(p) => Earned(q)
    <3> HIDE DEF a, b, c, d
    <3>1. c * b >= a * d
      <4>1. a * d \in Nat /\ c * b \in Nat
        BY <1>1
      <4> QED
        BY <1>3, <4>1
    <3>2. 5 * a >= 3 * b => 5 * c >= 3 * d
      BY <1>1, <3>1, Crosses
    <3> QED
      BY <3>2 DEF Earned, a, b, c, d
  <2> QED
    BY <2>1, <2>2
<1> QED
  BY <1>2, <1>3

-----------------------------------------------------------------------------
(* The profile's window.                                                   *)

\* A finite set of integers has a greatest one.
LEMMA HasLatest ==
  ASSUME NEW S \in SUBSET Int, S # {}, IsFiniteSet(S)
  PROVE  Latest(S) \in S /\ \A x \in S : Latest(S) >= x
<1> DEFINE Top(T) == \E x \in T : \A y \in T : x >= y
           Bad == {T \in SUBSET S : T # {} /\ ~Top(T)}
<1>1. \A T \in SUBSET S : IsFiniteSet(T)
  BY FS_Subset
<1>2. Bad = {}
  <2> SUFFICES ASSUME Bad # {} PROVE FALSE
    OBVIOUS
  <2>1. PICK T \in Bad : \A U \in Bad : Cardinality(T) <= Cardinality(U)
    <3>1. \A T \in Bad : IsFiniteSet(T)
      BY <1>1
    <3> HIDE DEF Bad
    <3> QED
      BY <3>1, SmallestSet
  <2>2. PICK x \in T : TRUE
    OBVIOUS
  <2>3. x \in Int /\ T \subseteq Int /\ T \subseteq S /\ ~Top(T)
    BY <2>2
  <2>4. CASE T \ {x} = {}
    <3>1. Top(T)
      BY <2>2, <2>3, <2>4
    <3> QED
      BY <2>3, <3>1
  <2>5. CASE T \ {x} # {}
    <3>1. Cardinality(T \ {x}) < Cardinality(T)
          /\ Cardinality(T) \in Nat /\ Cardinality(T \ {x}) \in Nat
      <4>1. IsFiniteSet(T) /\ {x} \subseteq T /\ {x} # {}
        BY <1>1, <2>2
      <4> HIDE DEF Bad
      <4> QED
        BY <4>1, Smaller
    <3>2. ~(Cardinality(T) <= Cardinality(T \ {x}))
      BY <3>1
    <3>3. Top(T \ {x})
      <4>1. T \ {x} \notin Bad
        <5> HIDE DEF Bad
        <5> QED
          BY <2>1, <3>2
      <4> QED
        BY <2>5, <4>1
    <3>4. PICK y \in T \ {x} : \A w \in T \ {x} : y >= w
      BY <3>3
    <3>5. y \in T /\ y \in Int
      BY <2>3, <3>4
    <3>6. CASE x >= y
      <4>1. \A w \in T : x >= w
        BY <2>3, <3>4, <3>5, <3>6
      <4> QED
        BY <2>2, <2>3, <4>1
    <3>7. CASE y >= x
      <4>1. \A w \in T : y >= w
        BY <2>3, <3>4, <3>5, <3>7
      <4> QED
        BY <2>3, <3>5, <4>1
    <3> QED
      BY <2>3, <3>5, <3>6, <3>7
  <2> QED
    BY <2>4, <2>5
<1>3. \E x \in S : \A y \in S : x >= y
  BY <1>2
<1> QED
  BY <1>3 DEF Latest

\* A function of a finite set has a finite range.
LEMMA FiniteRange ==
  ASSUME NEW f, IsFiniteSet(DOMAIN f)
  PROVE  IsFiniteSet({f[x] : x \in DOMAIN f})
<1> DEFINE T == {f[x] : x \in DOMAIN f}
           g == [x \in DOMAIN f |-> f[x]]
<1>1. g \in Surjection(DOMAIN f, T)
  BY DEF Surjection
<1> QED
  BY <1>1, FS_Surjection

\* The clock takes no more from a day than the difference of a zone.
LEMMA ShortestDayBounds ==
  /\ ShortestDay \in Int /\ ShortestDay <= Day
  /\ \A z \in Zone : ShortestDay <= Day - (z.after - z.before)
<1> DEFINE S == {0} \union {z.after - z.before : z \in Zone}
<1>1. S \in SUBSET Int /\ S # {}
  BY ZoneTyped
<1>2. IsFiniteSet(S)
  <2>1. IsFiniteSet({z.after - z.before : z \in Zone})
    <3> DEFINE f == [z \in Zone |-> z.after - z.before]
    <3>1. {z.after - z.before : z \in Zone} = {f[z] : z \in Zone}
      OBVIOUS
    <3>2. IsFiniteSet({f[z] : z \in Zone})
      <4>1. DOMAIN f = Zone
        OBVIOUS
      <4> HIDE DEF f
      <4> QED
        BY <4>1, ZoneAssumption, FiniteRange
    <3> QED
      BY <3>1, <3>2
  <2>2. IsFiniteSet({0})
    BY FS_Singleton
  <2> QED
    BY <2>1, <2>2, FS_Union
<1>3. Latest(S) \in S /\ \A x \in S : Latest(S) >= x
  <2> HIDE DEF S
  <2> QED
    BY <1>1, <1>2, HasLatest
<1>4. /\ Latest(S) \in Int /\ Latest(S) >= 0
      /\ \A z \in Zone : z.after - z.before \in Int /\ Latest(S) >= z.after - z.before
  BY <1>1, <1>3
<1>5. ShortestDay = Day - Latest(S) /\ Day \in Int
  BY CalendarAssumption DEF ShortestDay
<1> HIDE DEF S
<1> QED
  BY <1>4, <1>5

Profile == [zone : Zone, previous : Zone, windowStart : Int \union {NoTime},
            changeAt : Int \union {NoTime}, level : Nat]

\* A change of zone takes effect at a midnight of the new zone, and the window until
\* then began before now and is no shorter than a day.
Calendar(p, t) ==
  /\ p.changeAt # NoTime => Midnight(p.changeAt, p.zone)
  /\ Pending(p, t) => /\ p.windowStart \in Int /\ p.windowStart <= t
                      /\ p.changeAt - p.windowStart >= ShortestDay

Spans(w, t) == /\ w.start \in Int /\ w.end \in Int /\ w.zone \in Zone
               /\ w.start <= t /\ t < w.end /\ w.end - w.start >= ShortestDay

\* The window holds the clock and is no shorter than a day.
LEMMA WindowSpans ==
  ASSUME NEW p \in Profile, NEW t \in Int, Calendar(p, t)
  PROVE  Spans(AllocationWindow(p, t), t)
<1>1. CASE Pending(p, t)
  <2>1. AllocationWindow(p, t) =
          [start |-> p.windowStart, end |-> p.changeAt, zone |-> p.previous]
    BY <1>1 DEF AllocationWindow
  <2>2. /\ p.windowStart \in Int /\ p.windowStart <= t
        /\ p.changeAt - p.windowStart >= ShortestDay
        /\ p.changeAt # NoTime /\ t < p.changeAt
    BY <1>1 DEF Calendar, Pending
  <2>3. p.changeAt \in Int /\ p.previous \in Zone
    BY <2>2 DEF Profile
  <2> QED
    BY <2>1, <2>2, <2>3 DEF Spans
<1>2. CASE ~Pending(p, t)
  <2>1. p.zone \in Zone
    BY DEF Profile
  <2>2. AllocationWindow(p, t) =
          [start |-> FirstDayInstant(Date(t, p.zone), p.zone),
           end |-> FirstDayInstant(Date(t, p.zone) + 1, p.zone), zone |-> p.zone]
    BY <1>2 DEF AllocationWindow, DayWindow
  <2>3. Date(t, p.zone) \in Int
    BY <2>1, DateReached
  <2>4. FirstDayInstant(Date(t, p.zone) + 1, p.zone)
          - FirstDayInstant(Date(t, p.zone), p.zone) >= ShortestDay
    BY <2>1, <2>3, ShortestDayBounds, DayIsLong
  <2> QED
    BY <2>1, <2>2, <2>4, DayHolds DEF Spans
<1> QED
  BY <1>1, <1>2

Follows(next, window, t) ==
  \/ next.start = window.start /\ next.end >= window.end
  \/ next.start = window.end /\ t >= window.end

\* With time, a window is kept until its end, and then the next one begins.
LEMMA TickFollows ==
  ASSUME NEW p \in Profile, NEW t \in Int, Calendar(p, t)
  PROVE  /\ Calendar(p, t + 1)
         /\ Follows(AllocationWindow(p, t + 1), AllocationWindow(p, t), t + 1)
<1>1. p.changeAt \in Int \union {NoTime} /\ p.zone \in Zone /\ NoTime \notin Int
  BY CalendarAssumption DEF Profile
<1>2. Pending(p, t + 1) => Pending(p, t)
  BY <1>1 DEF Pending
<1>3. Calendar(p, t + 1)
  BY <1>1, <1>2 DEF Calendar
<1>4. CASE Pending(p, t + 1)
  <2>1. AllocationWindow(p, t + 1) = AllocationWindow(p, t)
    BY <1>2, <1>4 DEF AllocationWindow
  <2>2. AllocationWindow(p, t).end \in Int
    BY WindowSpans DEF Spans
  <2> QED
    BY <1>3, <2>1, <2>2 DEF Follows
<1>5. CASE Pending(p, t) /\ ~Pending(p, t + 1)
  <2>1. p.changeAt = t + 1 /\ Midnight(p.changeAt, p.zone)
    BY <1>1, <1>5 DEF Pending, Calendar
  <2>2. AllocationWindow(p, t + 1).start = t + 1 /\ AllocationWindow(p, t).end = t + 1
    BY <1>5, <2>1 DEF AllocationWindow, DayWindow, Midnight
  <2> QED
    BY <1>3, <2>2 DEF Follows
<1>6. CASE ~Pending(p, t)
  <2> DEFINE z == p.zone
             a == Date(t, z)
             b == Date(t + 1, z)
  <2>1. /\ AllocationWindow(p, t) = DayWindow(t, z)
        /\ AllocationWindow(p, t + 1) = DayWindow(t + 1, z)
    BY <1>2, <1>6 DEF AllocationWindow
  <2>2. /\ FirstDayInstant(a + 1, z) \in Int /\ FirstDayInstant(b, z) \in Int
        /\ FirstDayInstant(b, z) <= t + 1
    BY <1>1, DayHolds
  <2>3. CASE a = b
    BY <1>3, <2>1, <2>2, <2>3 DEF Follows, DayWindow
  <2>4. CASE a # b
    <3>1. FirstDayInstant(b, z) = FirstDayInstant(a + 1, z)
      BY <1>1, <2>4, NextMidnight
    <3> QED
      BY <1>3, <2>1, <2>2, <3>1 DEF Follows, DayWindow
  <2> QED
    BY <2>3, <2>4
<1> QED
  BY <1>4, <1>5, <1>6

\* With a request for a zone, the window is kept and may end later.
LEMMA ZoneFollows ==
  ASSUME NEW p \in Profile, NEW t \in Int, Calendar(p, t), NEW z \in Zone, z # p.zone
  PROVE  /\ RequestTimezone(p, z, t) \in Profile
         /\ Calendar(RequestTimezone(p, z, t), t)
         /\ Follows(AllocationWindow(RequestTimezone(p, z, t), t), AllocationWindow(p, t), t)
<1> DEFINE w == AllocationWindow(p, t)
           end == BoundaryAfter(w.end, z)
           q == RequestTimezone(p, z, t)
<1>1. Spans(w, t)
  BY WindowSpans
<1> HIDE DEF w
<1>2. Midnight(end, z) /\ end >= w.end /\ end \in Int
  BY <1>1, BoundaryIs DEF Spans, Midnight
<1>3. q = [p EXCEPT !.zone = z, !.previous = w.zone, !.windowStart = w.start, !.changeAt = end]
  BY DEF RequestTimezone, w
<1> HIDE DEF end, q
<1>4. /\ q \in Profile /\ q.zone = z /\ q.previous = w.zone
      /\ q.windowStart = w.start /\ q.changeAt = end
  BY <1>1, <1>2, <1>3 DEF Profile, Spans
<1>5. Pending(q, t)
  BY <1>1, <1>2, <1>4, CalendarAssumption DEF Pending, Spans
<1>6. Calendar(q, t)
  BY <1>1, <1>2, <1>4, ShortestDayBounds DEF Calendar, Spans
<1>7. AllocationWindow(q, t) = [start |-> w.start, end |-> end, zone |-> w.zone]
  BY <1>4, <1>5 DEF AllocationWindow
<1>8. Follows(AllocationWindow(q, t), w, t)
  BY <1>2, <1>7 DEF Follows
<1> QED
  BY <1>4, <1>6, <1>8 DEF q, w

-----------------------------------------------------------------------------
(* The invariant.                                                          *)

Activity == [target : Target, kind : {"exercise", "exposure"}, intent : Intents,
             parent : Nat, run : Nat, at : Nat,
             outcome : Verdict \union {"none", "exposure"}, answered : Nat]

TypeOK == /\ now \in Nat
          /\ profile \in Profile
          /\ acts \in Seq(Activity) /\ answers \in Seq(Result)
          /\ states \in [Target -> Memory!TargetState \union {NoState}]
          /\ \A i \in DOMAIN acts : acts[i].at <= now /\ acts[i].answered <= Len(answers)

\* A state is made by the first answer.
StatesSeen ==
  \A t \in Target :
    states[t] # NoState <=> \E i \in DOMAIN acts : acts[i].target = t /\ ~Waits(i)

\* A state counts the answers, and its peak remembers what was earned.
CountsAnswers(p) ==
  LET right(n) == Count(answers, p, "correct", n)
      wrong(n) == Count(answers, p, "incorrect", n)
      end == Len(answers)
  IN IF states[p] = NoState
       THEN \A k \in 1..end : answers[k].target # p
       ELSE /\ states[p].count > 0 /\ states[p].at \in Nat
            /\ states[p].success = right(end) /\ states[p].failure = wrong(end)
            /\ states[p].peak \in Peak
            /\ Earned(states[p].peak) <=> MasteredIn(answers, p, end)

PInv == /\ TypeOK /\ StatesSeen /\ Calendar(profile, now)
        /\ \A p \in Target : CountsAnswers(p)
        /\ UnlockedByAnswers

\* The answers, counted by the properties and here.
LEMMA GivenIs ==
  /\ \A p, outcome, n : Given(p, outcome, n) = Count(answers, p, outcome, n)
  /\ \A p, n : Mastered(p, n) <=> MasteredIn(answers, p, n)
BY DEF Given, Mastered, MasteredIn, Count, Those

\* A prerequisite is ready by a right answer and its peak.
LEMMA ReadyIs ==
  ASSUME NEW s, s # NoState, s.count \in Nat, s.count > 0, s.success \in Nat,
         s.peak[1] \in Nat, s.peak[2] \in Nat
  PROVE  Selector!UnreadyReason(s) = "ready" <=> s.success >= 1 /\ Earned(s.peak)
<1>1. CASE s.success < 1
  <2>1. Selector!UnreadyReason(s) = "no_deterministic_success"
    BY <1>1 DEF Selector!UnreadyReason
  <2> QED
    BY <1>1, <2>1
<1>2. CASE s.success >= 1 /\ 5 * s.peak[1] < 3 * s.peak[2]
  <2>1. Selector!UnreadyReason(s) = "below_peak"
    BY <1>2 DEF Selector!UnreadyReason
  <2> QED
    BY <1>2, <2>1 DEF Earned
<1>3. CASE s.success >= 1 /\ ~(5 * s.peak[1] < 3 * s.peak[2])
  <2>1. Selector!UnreadyReason(s) = "ready"
    BY <1>3 DEF Selector!UnreadyReason
  <2> QED
    BY <1>3, <2>1 DEF Earned
<1> QED
  BY <1>1, <1>2, <1>3

\* What unlocks a dependent is what the answers have earned.
LEMMA ReadyIsMastered ==
  ASSUME TypeOK, NEW p \in Target, CountsAnswers(p)
  PROVE  Selector!UnreadyReason(states[p]) = "ready" <=> MasteredIn(answers, p, Len(answers))
<1> DEFINE end == Len(answers)
           right == Count(answers, p, "correct", end)
<1>1. end \in Nat
  BY DEF TypeOK
<1>2. CASE states[p] = NoState
  <2>1. \A k \in 0..end : Count(answers, p, "correct", k) = 0
    <3> SUFFICES ASSUME NEW k \in 0..end PROVE Count(answers, p, "correct", k) = 0
      OBVIOUS
    <3>1. Those(answers, p, "correct", k) = {}
      BY <1>1, <1>2 DEF Those, CountsAnswers
    <3> QED
      BY <3>1, FS_EmptySet DEF Count
  <2>2. ~MasteredIn(answers, p, end)
    BY <2>1 DEF MasteredIn
  <2> QED
    BY <1>2, <2>2 DEF Selector!UnreadyReason
<1>3. CASE states[p] # NoState
  <2>1. /\ states[p].count > 0 /\ states[p].success = right
        /\ Earned(states[p].peak) <=> MasteredIn(answers, p, end)
    BY <1>3 DEF CountsAnswers
  <2>2. states[p] \in Memory!TargetState
    BY <1>3 DEF TypeOK
  <2>3. states[p].count \in Nat /\ states[p].success \in Nat
        /\ states[p].peak[1] \in Nat /\ states[p].peak[2] \in Nat
    BY <2>2 DEF Memory!TargetState
  <2>4. MasteredIn(answers, p, end) => right >= 1
    <3> SUFFICES ASSUME MasteredIn(answers, p, end) PROVE right >= 1
      OBVIOUS
    <3>1. PICK k \in 0..end : Count(answers, p, "correct", k) >= 1
      BY DEF MasteredIn
    <3>2. /\ Count(answers, p, "correct", k) \in Nat /\ right \in Nat
          /\ Count(answers, p, "correct", k) <= right
      <4> HIDE DEF end
      <4>1. k \in Nat
        BY <1>1, <3>1
      <4> QED
        BY <1>1, <3>1, <4>1, CountTyped, CountGrows
    <3> QED
      BY <3>1, <3>2
  <2>5. Selector!UnreadyReason(states[p]) = "ready"
          <=> states[p].success >= 1 /\ Earned(states[p].peak)
    BY <1>3, <2>1, <2>3, ReadyIs
  <2> QED
    BY <2>1, <2>4, <2>5
<1> QED
  BY <1>2, <1>3

DecisionFrontier(r) ==
  Selector!Frontier(Target \ Excluded(r, Issued), states, profile.level)
NoMoreNew == ~Remains(NewLimit, New(Issued), Issued)

\* The selection, as NextActivity asks for it.
LEMMA DecisionJustified ==
  ASSUME PInv, NEW r
  PROVE  /\ Justified(Decision(r, Issued), DecisionFrontier(r), TargetsOf(DOMAIN acts), NoMoreNew)
         /\ DecisionFrontier(r) \subseteq Target \ Excluded(r, Issued)
<1> DEFINE F == DecisionFrontier(r)
           seen == TargetsOf(DOMAIN acts)
<1>1. F \subseteq Target \ Excluded(r, Issued) /\ F \in SUBSET Target
  BY DEF DecisionFrontier, Selector!Frontier
<1>2. Known(F, states, seen)
  <2> SUFFICES ASSUME NEW t \in F PROVE t \in seen <=> states[t] # NoState
    BY DEF Known
  <2>1. t \in Target /\ \A i \in DOMAIN acts : Waits(i) => acts[i].target # t
    BY <1>1 DEF Excluded, TargetsOf
  <2>2. states[t] # NoState <=> \E i \in DOMAIN acts : acts[i].target = t /\ ~Waits(i)
    BY <2>1 DEF PInv, StatesSeen
  <2> QED
    BY <2>1, <2>2 DEF TargetsOf
<1>3. Stated(F, states)
  <2> SUFFICES ASSUME NEW t \in F, states[t] # NoState
               PROVE  /\ states[t].success \in Int /\ states[t].failure \in Int
                      /\ states[t].at \in Int
                      /\ states[t].due # NoTime => states[t].due \in Int
    BY DEF Stated
  <2>1. t \in Target
    BY <1>1
  <2>2. states[t] \in Memory!TargetState
    BY <2>1 DEF PInv, TypeOK
  <2>3. states[t].at \in Nat
    BY <2>1 DEF PInv, CountsAnswers
  <2> QED
    BY <2>2, <2>3 DEF Memory!TargetState
<1> DEFINE prefer == New(Issued) = {}
           none == NoMoreNew
<1>4. Decision(r, Issued) = Selector!Select(F, states, now, seen, prefer, none)
  BY DEF Decision, DecisionFrontier, NoMoreNew
<1>5. prefer \in BOOLEAN /\ none \in BOOLEAN
  BY DEF NoMoreNew
<1> HIDE DEF F, seen, prefer, none
<1>6. Justified(Selector!Select(F, states, now, seen, prefer, none), F, seen, none)
  BY <1>1, <1>2, <1>3, <1>5, SelectionJustified
<1>7. Justified(Decision(r, Issued), F, seen, none)
  BY <1>4, <1>6
<1> QED
  BY <1>1, <1>7 DEF F, seen, none

\* A decision is for a target that the answers have unlocked.
LEMMA DecisionUnlocked ==
  ASSUME PInv, NEW r, Decision(r, Issued).code = "none", NEW t \in Decision(r, Issued).targets
  PROVE  /\ t \in Target /\ Decision(r, Issued).intent \in Intents
         /\ Decision(r, Issued).intent = "acquire" => Remains(NewLimit, New(Issued), Issued)
         /\ Unlocked(t, Len(answers))
<1>1. /\ t \in DecisionFrontier(r) /\ Decision(r, Issued).intent \in Intents
      /\ Decision(r, Issued).intent = "acquire" => Remains(NewLimit, New(Issued), Issued)
      /\ t \in Target
  BY DecisionJustified DEF Justified, NoMoreNew
<1>2. ASSUME NEW p \in Target, <<p, t>> \in Hard PROVE Mastered(p, Len(answers))
  <2>1. Selector!UnreadyReason(states[p]) = "ready"
    BY <1>1, <1>2 DEF DecisionFrontier, Selector!Frontier, Selector!HardReady, Selector!Before
  <2> QED
    BY <2>1, ReadyIsMastered, GivenIs DEF PInv
<1> QED
  BY <1>1, <1>2 DEF Unlocked

\* Who is refused is told why, target by target.
LEMMA RefusalHasReason ==
  ASSUME PInv
  PROVE  SentAwayForAReason
<1> SUFFICES ASSUME NEW r \in Asking, Decision(r, Issued).targets = {},
                    NEW t \in Target \ Excluded(r, Issued),
                    ~(Level[t] > profile.level), Unlocked(t, Len(answers))
             PROVE  \/ t \notin TargetsOf(DOMAIN acts) /\ ~Remains(NewLimit, New(Issued), Issued)
                    \/ t \in Invalid
  BY DEF SentAwayForAReason
<1>1. \A p \in Selector!Before(Hard, t) : Selector!UnreadyReason(states[p]) = "ready"
  BY ReadyIsMastered, GivenIs DEF PInv, Unlocked, Selector!Before
<1>2. Level[t] <= profile.level
  BY LevelAssumption DEF PInv, TypeOK, Profile
<1>3. t \in DecisionFrontier(r)
  BY <1>1, <1>2 DEF DecisionFrontier, Selector!Frontier, Selector!HardReady
<1> QED
  BY <1>3, DecisionJustified DEF Justified, NoMoreNew

-----------------------------------------------------------------------------
(* An answer and the state.                                                *)

LEMMA DurationTyped ==
  Delay \in Nat /\ DeterministicCap \in Nat /\ EasyCap \in Nat /\ Day \in Nat
BY DurationAssumption, CalendarAssumption

\* The next interval is a number of days.
LEMMA IntervalTyped ==
  ASSUME NEW interval \in Nat, NEW outcome \in Verdict \union {"exposure"},
         outcome # "unresolved"
  PROVE  Memory!NextInterval(interval, outcome) \in Nat
<1>1. interval * 2 \in Nat /\ DeterministicCap \in Nat
  BY DurationTyped
<1>2. CASE outcome = "correct"
  <2>1. Memory!Lesser(interval * 2, DeterministicCap) \in Nat
    BY <1>1 DEF Memory!Lesser
  <2>2. Memory!NextInterval(interval, outcome) =
          IF interval = 0 THEN 1 ELSE Memory!Lesser(interval * 2, DeterministicCap)
    BY <1>2 DEF Memory!NextInterval
  <2> QED
    BY <2>1, <2>2
<1>3. CASE outcome = "exposure"
  <2>1. Memory!NextInterval(interval, outcome) = 1
    BY <1>3 DEF Memory!NextInterval
  <2> QED
    BY <2>1
<1>4. CASE outcome = "incorrect"
  <2>1. Memory!NextInterval(interval, outcome) = 0
    BY <1>4 DEF Memory!NextInterval
  <2> QED
    BY <2>1
<1> QED
  BY <1>2, <1>3, <1>4 DEF Verdict

LEMMA HigherTyped ==
  ASSUME NEW p \in Nat \X Nat, NEW q \in Nat \X Nat
  PROVE  Memory!Higher(p, q) \in Nat \X Nat
BY DEF Memory!Higher

\* What an answer adds to a state.
LEMMA ProjectEffect ==
  ASSUME NEW s \in Memory!TargetState, NEW at \in Nat, NEW id \in Nat,
         NEW outcome \in Verdict \union {"exposure"}
  PROVE  LET e == [at |-> at, id |-> id, outcome |-> outcome]
             q == Memory!Project(s, e)
         IN /\ q \in Memory!TargetState /\ q.count = s.count + 1
            /\ q.success = s.success + (IF outcome = "correct" THEN 1 ELSE 0)
            /\ q.failure = s.failure + (IF outcome = "incorrect" THEN 1 ELSE 0)
            /\ q.peak = (IF outcome = "correct" THEN Memory!PeakAfter(s) ELSE s.peak)
            /\ q.at = at
<1> DEFINE e == [at |-> at, id |-> id, outcome |-> outcome]
           next == Memory!NextInterval(s.interval, outcome)
           moved == Memory!Reschedules(s, outcome)
           due == IF moved THEN Memory!DueAfter(outcome, at, next) ELSE s.due
           interval == IF moved THEN next ELSE s.interval
           peak == IF outcome = "correct" THEN Memory!PeakAfter(s) ELSE s.peak
           q == Memory!Project(s, e)
<1>1. /\ s.count \in Nat /\ s.deterministic \in Nat /\ s.success \in Nat /\ s.failure \in Nat
      /\ s.peak \in Nat \X Nat /\ s.due \in Nat \union {NoTime} /\ s.interval \in Nat
      /\ s.lapses \in Nat
  BY DEF Memory!TargetState
<1>2. moved => next \in Nat
  BY <1>1, IntervalTyped DEF Memory!Reschedules
<1>3. interval \in Nat
  <2> HIDE DEF next, moved
  <2> QED
    BY <1>1, <1>2
<1>4. due \in Nat \union {NoTime}
  <2> HIDE DEF next, moved
  <2>1. CASE moved
    <3>1. next \in Nat /\ next * Day \in Nat
      BY <1>2, <2>1, DurationTyped
    <3>2. Memory!DueAfter(outcome, at, next) \in Nat
      BY <3>1, DurationTyped DEF Memory!DueAfter
    <3> QED
      BY <2>1, <3>2
  <2>2. CASE ~moved
    BY <1>1, <2>2
  <2> QED
    BY <2>1, <2>2
<1>5. peak \in Nat \X Nat
  <2>1. <<2 + s.success, 3 + s.success + s.failure>> \in Nat \X Nat
    BY <1>1
  <2>2. Memory!PeakAfter(s) \in Nat \X Nat
    BY <1>1, <2>1, HigherTyped DEF Memory!PeakAfter
  <2> QED
    BY <1>1, <2>2
<1> HIDE DEF due, interval, peak
<1>6. q = [count |-> s.count + 1,
           deterministic |-> s.deterministic
                             + (IF outcome \in Memory!Deterministic THEN 1 ELSE 0),
           at |-> at, id |-> id,
           success |-> s.success + (IF outcome = "correct" THEN 1 ELSE 0),
           failure |-> s.failure + (IF outcome = "incorrect" THEN 1 ELSE 0),
           peak |-> peak, due |-> due, interval |-> interval,
           lapses |-> s.lapses + (IF outcome \in {"incorrect", "again"} THEN 1 ELSE 0)]
  BY DEF Memory!Project, due, interval, peak
<1>7. q \in Memory!TargetState
  BY <1>1, <1>3, <1>4, <1>5, <1>6 DEF Memory!TargetState
<1> QED
  BY <1>6, <1>7 DEF peak

\* The state that an answer is projected onto, made if there is none.
StateOf(p) == IF states[p] = NoState THEN Fresh ELSE states[p]

\* The state an answer finds has counted the answers so far.
LEMMA StateCounts ==
  ASSUME TypeOK, NEW p \in Target, CountsAnswers(p)
  PROVE  /\ StateOf(p) \in Memory!TargetState
         /\ StateOf(p).success = Count(answers, p, "correct", Len(answers))
         /\ StateOf(p).failure = Count(answers, p, "incorrect", Len(answers))
         /\ StateOf(p).peak \in Peak
         /\ Earned(StateOf(p).peak) <=> MasteredIn(answers, p, Len(answers))
<1>1. CASE states[p] # NoState
  BY <1>1 DEF CountsAnswers, StateOf, TypeOK
<1>2. CASE states[p] = NoState
  <2>1. Len(answers) \in Nat
    BY DEF TypeOK
  <2>2. \A k \in 0..Len(answers), outcome \in Verdict : Count(answers, p, outcome, k) = 0
    <3> SUFFICES ASSUME NEW k \in 0..Len(answers), NEW outcome \in Verdict
                 PROVE  Count(answers, p, outcome, k) = 0
      OBVIOUS
    <3>1. Those(answers, p, outcome, k) = {}
      BY <1>2, <2>1 DEF Those, CountsAnswers
    <3> QED
      BY <3>1, FS_EmptySet DEF Count
  <2>3. ~MasteredIn(answers, p, Len(answers))
    BY <2>2 DEF MasteredIn, Verdict
  <2>4. /\ Count(answers, p, "correct", Len(answers)) = 0
        /\ Count(answers, p, "incorrect", Len(answers)) = 0
    BY <2>1, <2>2 DEF Verdict
  <2>5. StateOf(p) = [count |-> 0, deterministic |-> 0, at |-> NoTime, id |-> 0,
                      success |-> 0, failure |-> 0, peak |-> <<0, 1>>,
                      due |-> NoTime, interval |-> 0, lapses |-> 0]
    BY <1>2 DEF StateOf, Fresh, Memory!FromBaseline, Memory!NeutralBaseline
  <2> QED
    BY <2>3, <2>4, <2>5 DEF Memory!TargetState, Peak, Earned
<1> QED
  BY <1>1, <1>2

\* What an answer of target t does to the states.
Answers(t, outcome) ==
  /\ answers' = Append(answers, [target |-> t, outcome |-> outcome])
  /\ states' = [states EXCEPT ![t] = Memory!Project(StateOf(t), Event(t, outcome))]

\* The state an answer leaves has counted it too.
LEMMA AnswersCounted ==
  ASSUME TypeOK, \A p \in Target : CountsAnswers(p), NEW t \in Target,
         NEW outcome \in Verdict \union {"exposure"}, Answers(t, outcome)
  PROVE  /\ answers' \in Seq(Result) /\ Len(answers') = Len(answers) + 1
         /\ states' \in [Target -> Memory!TargetState \union {NoState}]
         /\ states'[t] # NoState /\ \A p \in Target \ {t} : states'[p] = states[p]
         /\ \A p \in Target : CountsAnswers(p)'
<1> DEFINE r == [target |-> t, outcome |-> outcome]
           s == StateOf(t)
           q == Memory!Project(s, Event(t, outcome))
           end == Len(answers)
<1>1. /\ r \in Result /\ answers \in Seq(Result) /\ end \in Nat
      /\ answers' = Append(answers, r) /\ Len(answers') = end + 1
      /\ answers' \in Seq(Result)
  BY DEF TypeOK, Result, Answers
<1>2. /\ s \in Memory!TargetState /\ s.peak \in Peak
      /\ s.success = Count(answers, t, "correct", end)
      /\ s.failure = Count(answers, t, "incorrect", end)
      /\ Earned(s.peak) <=> MasteredIn(answers, t, end)
  BY StateCounts
<1>3. s.count \in Nat /\ s.success \in Nat /\ s.failure \in Nat
  BY <1>2 DEF Memory!TargetState
<1> HIDE DEF s
<1>4. /\ q \in Memory!TargetState /\ q.count = s.count + 1
      /\ q.success = s.success + (IF outcome = "correct" THEN 1 ELSE 0)
      /\ q.failure = s.failure + (IF outcome = "incorrect" THEN 1 ELSE 0)
      /\ q.peak = (IF outcome = "correct" THEN Memory!PeakAfter(s) ELSE s.peak)
      /\ q.at = now
  <2>1. now \in Nat /\ end + 1 \in Nat
    BY <1>1 DEF TypeOK
  <2> QED
    BY <1>2, <2>1, ProjectEffect DEF Event
<1> HIDE DEF q
<1>5. /\ states' = [states EXCEPT ![t] = q] /\ states'[t] = q /\ q # NoState
      /\ states' \in [Target -> Memory!TargetState \union {NoState}]
      /\ \A p \in Target \ {t} : states'[p] = states[p]
  BY <1>4, StateAssumption DEF Answers, TypeOK, q, s
<1>6. ASSUME NEW p \in Target \ {t} PROVE CountsAnswers(p)'
  <2>1. /\ Count(answers', p, "correct", end + 1) = Count(answers, p, "correct", end)
        /\ Count(answers', p, "incorrect", end + 1) = Count(answers, p, "incorrect", end)
    BY <1>1, CountAppend, CountTyped
  <2>2. MasteredIn(answers', p, end + 1) <=> MasteredIn(answers, p, end)
    BY <1>1, MasteredAppend
  <2>3. states'[p] = states[p] /\ CountsAnswers(p)
    BY <1>5
  <2>4. CASE states[p] = NoState
    <3>1. \A k \in 1..(end + 1) : answers'[k].target # p
      <4> SUFFICES ASSUME NEW k \in 1..(end + 1) PROVE answers'[k].target # p
        OBVIOUS
      <4>1. CASE k = end + 1
        BY <1>1, <4>1
      <4>2. CASE k \in 1..end
        BY <1>1, <2>3, <2>4, <4>2 DEF CountsAnswers
      <4> QED
        BY <1>1, <4>1, <4>2
    <3> QED
      BY <1>1, <2>3, <2>4, <3>1 DEF CountsAnswers
  <2>5. CASE states[p] # NoState
    BY <1>1, <2>1, <2>2, <2>3, <2>5 DEF CountsAnswers
  <2> QED
    BY <2>4, <2>5
<1>7. CountsAnswers(t)'
  <2>1. /\ Count(answers', t, "correct", end + 1) = q.success
        /\ Count(answers', t, "incorrect", end + 1) = q.failure
    BY <1>1, <1>2, <1>4, CountAppend
  <2>2. MasteredIn(answers', t, end + 1) <=>
          \/ MasteredIn(answers, t, end)
          \/ outcome = "correct" /\ 2 * (s.success + 1) >= 1 + 3 * s.failure
    BY <1>1, <1>2, MasteredAppend
  <2>3. q.peak \in Peak /\ (Earned(q.peak) <=> MasteredIn(answers', t, end + 1))
    <3>1. CASE outcome # "correct"
      BY <1>2, <1>4, <2>2, <3>1
    <3>2. CASE outcome = "correct"
      <4> DEFINE new == <<2 + s.success, 3 + s.success + s.failure>>
      <4>1. new \in Peak
        BY <1>3 DEF Peak
      <4>2. Earned(new) <=> 2 * (s.success + 1) >= 1 + 3 * s.failure
        BY <1>3 DEF Earned
      <4>3. q.peak = Memory!Higher(s.peak, new)
        BY <1>4, <3>2 DEF Memory!PeakAfter
      <4> HIDE DEF new
      <4> QED
        BY <1>2, <2>2, <3>2, <4>1, <4>2, <4>3, HigherEarned
    <3> QED
      BY <3>1, <3>2
  <2>4. q.count > 0 /\ q.at \in Nat
    BY <1>3, <1>4 DEF TypeOK
  <2> QED
    BY <1>1, <1>5, <2>1, <2>3, <2>4 DEF CountsAnswers
<1> QED
  BY <1>1, <1>5, <1>6, <1>7

-----------------------------------------------------------------------------
(* The steps.                                                              *)

\* The fields of an issued activity.
LEMMA ActTyped ==
  ASSUME TypeOK, NEW i \in DOMAIN acts
  PROVE  /\ acts[i] \in Activity /\ i \in Nat /\ i # 0 /\ i \in 1..Len(acts)
         /\ acts[i].target \in Target /\ acts[i].run \in Nat /\ acts[i].at \in Nat
         /\ acts[i].at <= now /\ acts[i].answered \in 0..Len(answers)
<1>1. acts \in Seq(Activity) /\ i \in 1..Len(acts) /\ Len(acts) \in Nat /\ Len(answers) \in Nat
  BY DEF TypeOK
<1>2. acts[i] \in Activity
  BY <1>1
<1>3. /\ acts[i].target \in Target /\ acts[i].run \in Nat /\ acts[i].at \in Nat
      /\ acts[i].answered \in Nat
  BY <1>2 DEF Activity
<1> QED
  BY <1>1, <1>2, <1>3 DEF TypeOK

\* A new learner has answered nothing.
LEMMA InitHolds == Init => PInv
<1> SUFFICES ASSUME Init PROVE PInv
  OBVIOUS
<1> USE ZoneAssumption, CalendarAssumption DEF Init
<1>1. TypeOK
  <2>1. profile \in Profile
    BY DEF Profile
  <2>2. states \in [Target -> Memory!TargetState \union {NoState}]
    OBVIOUS
  <2> QED
    BY <2>1, <2>2 DEF TypeOK
<1>2. StatesSeen
  BY DEF StatesSeen
<1>3. Calendar(profile, now)
  BY DEF Calendar, Pending
<1>4. \A p \in Target : CountsAnswers(p)
  BY DEF CountsAnswers
<1>5. UnlockedByAnswers
  BY DEF UnlockedByAnswers
<1> QED
  BY <1>1, <1>2, <1>3, <1>4, <1>5 DEF PInv

\* Where nothing is answered or issued, only the clock and the profile matter.
LEMMA QuietStep ==
  ASSUME PInv, UNCHANGED <<acts, answers, states>>,
         now' \in Nat, now' >= now, profile' \in Profile, Calendar(profile', now')
  PROVE  PInv'
<1>1. TypeOK'
  <2>1. \A i \in DOMAIN acts : acts[i].at \in Nat
    BY ActTyped DEF PInv
  <2>2. now \in Nat
    BY DEF PInv, TypeOK
  <2> QED
    BY <2>1, <2>2 DEF PInv, TypeOK
<1>2. StatesSeen'
  BY DEF PInv, StatesSeen, Waits
<1>3. Calendar(profile, now)'
  OBVIOUS
<1>4. \A p \in Target : CountsAnswers(p)'
  BY DEF PInv, CountsAnswers
<1>5. UnlockedByAnswers'
  BY DEF PInv, UnlockedByAnswers, Unlocked, Mastered, Given
<1> QED
  BY <1>1, <1>2, <1>3, <1>4, <1>5 DEF PInv

\* Issuing an activity for a target that is unlocked.
LEMMA IssueStep ==
  ASSUME PInv, NEW a \in Activity, a.outcome = "none", a.at = now,
         a.answered = Len(answers), Unlocked(a.target, Len(answers)),
         acts' = Append(acts, a), UNCHANGED <<now, profile, answers, states>>
  PROVE  PInv'
<1>1. /\ acts \in Seq(Activity) /\ acts' \in Seq(Activity)
      /\ DOMAIN acts = 1..Len(acts) /\ DOMAIN acts' = 1..(Len(acts) + 1)
      /\ \A i \in DOMAIN acts : acts'[i] = acts[i]
      /\ acts'[Len(acts) + 1] = a /\ Len(acts) \in Nat
  BY DEF PInv, TypeOK
<1>2. DOMAIN acts' = DOMAIN acts \union {Len(acts) + 1}
  BY <1>1
<1>3. TypeOK'
  <2>1. now \in Nat /\ Len(answers) \in Nat
    BY DEF PInv, TypeOK
  <2> QED
    BY <1>1, <1>2, <2>1 DEF PInv, TypeOK
<1>4. StatesSeen'
  <2> SUFFICES ASSUME NEW t \in Target
               PROVE  states[t] # NoState
                        <=> \E i \in DOMAIN acts' : acts'[i].target = t /\ ~(acts'[i].outcome = "none")
    BY DEF StatesSeen, Waits
  <2> QED
    BY <1>1, <1>2 DEF PInv, StatesSeen, Waits
<1>5. Calendar(profile, now)'
  BY DEF PInv
<1>6. \A p \in Target : CountsAnswers(p)'
  BY DEF PInv, CountsAnswers
<1>7. UnlockedByAnswers'
  <2>1. \A t, n : Unlocked(t, n) => Unlocked(t, n)'
    BY DEF Unlocked, Mastered, Given
  <2> QED
    BY <1>1, <1>2, <2>1 DEF PInv, UnlockedByAnswers
<1> QED
  BY <1>3, <1>4, <1>5, <1>6, <1>7 DEF PInv

\* Runs are numbered.
LEMMA AskingTyped ==
  ASSUME TypeOK
  PROVE  Asking \subseteq Nat
<1>1. Runs \subseteq Nat
  BY ActTyped DEF Runs
<1>2. IsFiniteSet(Runs)
  <2> DEFINE f == [i \in DOMAIN acts |-> acts[i].run]
  <2>1. Runs = {f[i] : i \in DOMAIN acts}
    BY DEF Runs
  <2>2. DOMAIN f = DOMAIN acts
    OBVIOUS
  <2>3. IsFiniteSet(DOMAIN acts)
    <3>1. DOMAIN acts = 1..Len(acts) /\ Len(acts) \in Nat
      BY DEF TypeOK
    <3> QED
      BY <3>1, FS_Interval
  <2> HIDE DEF f
  <2> QED
    BY <2>1, <2>2, <2>3, FiniteRange
<1>3. Cardinality(Runs) \in Nat
  BY <1>2, FS_CardinalityType
<1>4. Cardinality(Runs) + 1 \in Nat
  BY <1>3
<1> HIDE DEF Runs
<1> QED
  BY <1>1, <1>4 DEF Asking

\* An activity is issued for an unlocked target, within the limits of its kind.
LEMMA NextActivityStep ==
  ASSUME PInv, NEW r \in Asking, NextActivity(r)
  PROVE  /\ PInv'
         /\ UNCHANGED <<now, profile>>
         /\ \E a \in Activity :
              /\ acts' = Append(acts, a) /\ a.at = now /\ a.parent = 0
              /\ Remains(RootLimit, Roots(Issued), Issued)
              /\ a.intent = "acquire" => Remains(NewLimit, New(Issued), Issued)
<1> DEFINE d == Decision(r, Issued)
<1>1. /\ Remains(RootLimit, Roots(Issued), Issued)
      /\ d.code = "none" /\ Issue(r, d)
  BY DEF NextActivity
<1>2. PICK t \in d.targets, kind \in {"exercise", "exposure"} :
             acts' = Append(acts, Root(r, t, kind, d.intent))
  BY <1>1 DEF Issue
<1>3. UNCHANGED <<now, profile, answers, states>>
  BY <1>1 DEF Issue
<1>4. /\ t \in Target /\ d.intent \in Intents
      /\ d.intent = "acquire" => Remains(NewLimit, New(Issued), Issued)
      /\ Unlocked(t, Len(answers))
  BY <1>1, <1>2, DecisionUnlocked
<1> HIDE DEF d
<1> DEFINE a == Root(r, t, kind, d.intent)
<1>5. /\ a \in Activity /\ a.outcome = "none" /\ a.at = now /\ a.target = t
      /\ a.answered = Len(answers) /\ a.parent = 0 /\ a.intent = d.intent
  <2>1. r \in Nat
    BY AskingTyped DEF PInv
  <2>2. now \in Nat /\ Len(answers) \in Nat
    BY DEF PInv, TypeOK
  <2> QED
    BY <1>4, <2>1, <2>2 DEF Activity, Root
<1>6. acts' = Append(acts, a)
  BY <1>2
<1> HIDE DEF a
<1>7. PInv'
  BY <1>3, <1>4, <1>5, <1>6, IssueStep
<1> QED
  BY <1>1, <1>3, <1>4, <1>5, <1>6, <1>7

\* A repair repeats a target that was unlocked when its root was issued.
LEMMA RepairStep ==
  ASSUME PInv, NEW i \in DOMAIN acts, Repair(i)
  PROVE  /\ PInv'
         /\ UNCHANGED <<now, profile>>
         /\ \E a \in Activity :
              /\ acts' = Append(acts, a) /\ a.at = now /\ a.parent # 0
              /\ Remains(RepairLimit, Issued \ Roots(Issued), Issued)
<1> DEFINE a == [acts[i] EXCEPT !.parent = i, !.at = now, !.outcome = "none",
                                !.answered = Len(answers)]
<1>1. /\ acts' = Append(acts, a) /\ UNCHANGED <<now, profile, answers, states>>
      /\ Remains(RepairLimit, Issued \ Roots(Issued), Issued)
  BY DEF Repair
<1>2. /\ acts[i] \in Activity /\ i \in Nat /\ i # 0 /\ now \in Nat /\ Len(answers) \in Nat
      /\ acts[i].answered \in 0..Len(answers)
  BY ActTyped DEF PInv, TypeOK
<1>3. /\ a \in Activity /\ a.outcome = "none" /\ a.at = now /\ a.parent = i
      /\ a.answered = Len(answers) /\ a.target = acts[i].target
  BY <1>2 DEF Activity
<1>4. Unlocked(acts[i].target, Len(answers))
  <2>1. Unlocked(acts[i].target, acts[i].answered)
    BY DEF PInv, UnlockedByAnswers
  <2> SUFFICES ASSUME NEW p \in Target, <<p, acts[i].target>> \in Hard
               PROVE  Mastered(p, Len(answers))
    BY DEF Unlocked
  <2>2. MasteredIn(answers, p, acts[i].answered)
    BY <2>1, GivenIs DEF Unlocked
  <2>3. MasteredIn(answers, p, Len(answers))
    BY <1>2, <2>2, MasteredGrows
  <2> QED
    BY <2>3, GivenIs
<1> HIDE DEF a
<1>5. PInv'
  BY <1>1, <1>3, <1>4, IssueStep
<1> QED
  BY <1>1, <1>2, <1>3, <1>5

\* An answer settles one activity and moves the state of its target.
LEMMA SubmitStep ==
  ASSUME PInv, NEW i \in DOMAIN acts, NEW outcome \in Verdict \union {"exposure"},
         Submit(i, outcome)
  PROVE  /\ PInv'
         /\ UNCHANGED <<now, profile>>
         /\ acts' = [acts EXCEPT ![i].outcome = outcome]
<1> DEFINE t == acts[i].target
<1>1. /\ acts' = [acts EXCEPT ![i].outcome = outcome]
      /\ UNCHANGED <<now, profile>> /\ Waits(i)
  BY DEF Submit
<1>2. Answers(t, outcome)
  BY DEF Submit, Answers, StateOf
<1>3. /\ acts \in Seq(Activity) /\ acts[i] \in Activity /\ t \in Target
      /\ now \in Nat /\ Len(answers) \in Nat
  BY ActTyped DEF PInv, TypeOK
<1>4. /\ DOMAIN acts' = DOMAIN acts /\ acts' \in Seq(Activity)
      /\ acts'[i] = [acts[i] EXCEPT !.outcome = outcome]
      /\ \A j \in DOMAIN acts \ {i} : acts'[j] = acts[j]
  <2>1. [acts[i] EXCEPT !.outcome = outcome] \in Activity
    BY <1>3 DEF Activity
  <2> QED
    BY <1>1, <1>3, <2>1
<1>5. /\ acts'[i].target = t /\ acts'[i].outcome = outcome /\ acts'[i].at = acts[i].at
      /\ acts'[i].answered = acts[i].answered
  BY <1>3, <1>4 DEF Activity
<1> HIDE DEF t
<1>6. TypeOK /\ \A p \in Target : CountsAnswers(p)
  BY DEF PInv
<1>7. /\ answers' \in Seq(Result) /\ Len(answers') = Len(answers) + 1
      /\ states' \in [Target -> Memory!TargetState \union {NoState}]
      /\ states'[t] # NoState /\ \A p \in Target \ {t} : states'[p] = states[p]
      /\ \A p \in Target : CountsAnswers(p)'
  BY <1>2, <1>3, <1>6, AnswersCounted
<1>8. TypeOK'
  <2>1. \A j \in DOMAIN acts : /\ acts'[j].at = acts[j].at
                               /\ acts'[j].answered = acts[j].answered
                               /\ acts[j].at <= now /\ acts[j].answered <= Len(answers)
                               /\ acts[j].answered \in 0..Len(answers)
    <3>1. \A j \in DOMAIN acts : acts'[j].at = acts[j].at /\ acts'[j].answered = acts[j].answered
      BY <1>4, <1>5
    <3>2. \A j \in DOMAIN acts : acts[j].at <= now /\ acts[j].answered \in 0..Len(answers)
      BY <1>6, ActTyped
    <3> QED
      BY <1>3, <3>1, <3>2
  <2>2. \A j \in DOMAIN acts : acts'[j].at <= now /\ acts'[j].answered <= Len(answers) + 1
    BY <1>3, <2>1
  <2> QED
    BY <1>1, <1>3, <1>4, <1>7, <2>2 DEF PInv, TypeOK
<1>9. StatesSeen'
  <2> SUFFICES ASSUME NEW p \in Target
               PROVE  states'[p] # NoState
                        <=> \E j \in DOMAIN acts : acts'[j].target = p /\ ~(acts'[j].outcome = "none")
    BY <1>4 DEF StatesSeen, Waits
  <2>1. CASE p = t
    BY <1>5, <1>7, <2>1 DEF Verdict
  <2>2. CASE p # t
    <3>1. states'[p] = states[p]
      BY <1>7, <2>2
    <3>2. acts'[i].target # p /\ acts[i].target # p
      BY <1>5, <2>2 DEF t
    <3>3. \A j \in DOMAIN acts :
             acts'[j].target = p /\ ~(acts'[j].outcome = "none")
               <=> acts[j].target = p /\ ~(acts[j].outcome = "none")
      BY <1>4, <3>2
    <3>4. states[p] # NoState
            <=> \E j \in DOMAIN acts : acts[j].target = p /\ ~(acts[j].outcome = "none")
      BY DEF PInv, StatesSeen, Waits
    <3> QED
      BY <3>1, <3>3, <3>4
  <2> QED
    BY <2>1, <2>2
<1>10. Calendar(profile, now)'
  BY <1>1 DEF PInv
<1>11. UnlockedByAnswers'
  <2> DEFINE result == [target |-> t, outcome |-> outcome]
  <2>1. result \in Result /\ answers' = Append(answers, result) /\ answers \in Seq(Result)
    BY <1>2, <1>3 DEF Answers, Result, PInv, TypeOK
  <2> HIDE DEF result
  <2>2. ASSUME NEW j \in DOMAIN acts, NEW p \in Target, <<p, acts'[j].target>> \in Hard
        PROVE  MasteredIn(answers', p, acts'[j].answered)
    <3>1. acts'[j].target = acts[j].target /\ acts'[j].answered = acts[j].answered
      BY <1>4, <1>5 DEF t
    <3>2. acts[j].answered \in 0..Len(answers)
      BY <1>6, ActTyped
    <3>3. MasteredIn(answers, p, acts[j].answered)
      BY <2>2, <3>1, GivenIs DEF PInv, UnlockedByAnswers, Unlocked
    <3> QED
      BY <2>1, <3>1, <3>2, <3>3, MasteredAppend
  <2>3. \A p, n : Mastered(p, n)' <=> MasteredIn(answers', p, n)
    BY DEF Mastered, Given, MasteredIn, Count, Those
  <2> QED
    BY <1>4, <2>2, <2>3 DEF UnlockedByAnswers, Unlocked
<1> QED
  BY <1>1, <1>7, <1>8, <1>9, <1>10, <1>11 DEF PInv

-----------------------------------------------------------------------------
(* The windows.                                                            *)

\* What a step does to the clock and the window.
LEMMA StepFollows ==
  ASSUME PInv, [Next]_vars
  PROVE  /\ PInv' /\ Spans(Window', now') /\ Follows(Window', Window, now')
         /\ now' >= now
<1>1. /\ now \in Nat /\ now \in Int /\ profile \in Profile /\ Calendar(profile, now)
  BY DEF PInv, TypeOK
<1>2. Window = AllocationWindow(profile, now) /\ Window' = AllocationWindow(profile', now')
  BY DEF Window
<1>3. Spans(Window, now)
  BY <1>1, <1>2, WindowSpans
<1>4. CASE Tick
  <2>1. now' = now + 1 /\ UNCHANGED <<profile, acts, answers, states>>
    BY <1>4 DEF Tick
  <2>2. /\ Calendar(profile, now + 1)
        /\ Follows(AllocationWindow(profile, now + 1), AllocationWindow(profile, now), now + 1)
    BY <1>1, TickFollows
  <2>3. now' \in Nat /\ now' >= now
    BY <1>1, <2>1
  <2>4. PInv'
    BY <1>1, <2>1, <2>2, <2>3, QuietStep
  <2>5. Spans(Window', now')
    <3>1. Spans(AllocationWindow(profile, now + 1), now + 1)
      BY <1>1, <2>2, WindowSpans
    <3> QED
      BY <1>2, <2>1, <3>1
  <2> QED
    BY <1>2, <2>1, <2>2, <2>3, <2>4, <2>5
<1>5. ASSUME NEW z \in Zone, ChooseZone(z)
      PROVE  /\ PInv' /\ Spans(Window', now') /\ Follows(Window', Window, now')
             /\ now' >= now
  <2>1. /\ z # profile.zone /\ profile' = RequestTimezone(profile, z, now)
        /\ UNCHANGED <<now, acts, answers, states>>
    BY <1>5 DEF ChooseZone
  <2>2. /\ profile' \in Profile /\ Calendar(profile', now)
        /\ Follows(AllocationWindow(profile', now), AllocationWindow(profile, now), now)
    BY <1>1, <2>1, ZoneFollows
  <2>3. PInv'
    BY <1>1, <2>1, <2>2, QuietStep
  <2>4. Spans(AllocationWindow(profile', now), now)
    <3>1. ASSUME NEW p \in Profile, Calendar(p, now) PROVE Spans(AllocationWindow(p, now), now)
      BY <1>1, <3>1, WindowSpans
    <3> QED
      BY <2>2, <3>1
  <2> QED
    BY <1>1, <1>2, <2>1, <2>2, <2>3, <2>4
<1>6. ASSUME NEW n \in 1..MaxLevel, ChooseLevel(n)
      PROVE  /\ PInv' /\ Spans(Window', now') /\ Follows(Window', Window, now')
             /\ now' >= now
  <2>1. /\ profile' = [profile EXCEPT !.level = n]
        /\ UNCHANGED <<now, acts, answers, states>>
    BY <1>6 DEF ChooseLevel
  <2>2. /\ profile' \in Profile /\ profile'.zone = profile.zone
        /\ profile'.previous = profile.previous /\ profile'.changeAt = profile.changeAt
        /\ profile'.windowStart = profile.windowStart
    BY <1>1, <2>1, LimitAssumption DEF Profile
  <2>3. Pending(profile', now) <=> Pending(profile, now)
    BY <2>2 DEF Pending
  <2>4. Calendar(profile', now)
    BY <1>1, <2>2, <2>3 DEF Calendar
  <2>5. AllocationWindow(profile', now) = AllocationWindow(profile, now)
    BY <2>2, <2>3 DEF AllocationWindow
  <2>6. PInv'
    BY <1>1, <2>1, <2>2, <2>4, QuietStep
  <2>7. Window' = Window /\ now' = now
    BY <1>2, <2>1, <2>5
  <2> QED
    BY <1>1, <1>3, <2>6, <2>7 DEF Follows, Spans
<1>7. ASSUME UNCHANGED <<now, profile>>
      PROVE  Spans(Window', now') /\ Follows(Window', Window, now') /\ now' >= now
  <2>1. Window' = Window /\ now' = now
    BY <1>2, <1>7
  <2> QED
    BY <1>1, <1>3, <2>1 DEF Follows, Spans
<1>8. ASSUME NEW r \in Asking, NextActivity(r)
      PROVE  PInv' /\ UNCHANGED <<now, profile>>
  BY <1>8, NextActivityStep
<1>9. ASSUME NEW i \in DOMAIN acts, Repair(i)
      PROVE  PInv' /\ UNCHANGED <<now, profile>>
  BY <1>9, RepairStep
<1>10. ASSUME NEW i \in DOMAIN acts, NEW outcome \in Verdict \union {"exposure"},
              Submit(i, outcome)
       PROVE  PInv' /\ UNCHANGED <<now, profile>>
  BY <1>10, SubmitStep
<1>11. CASE UNCHANGED vars
  <2>1. now' = now /\ profile' = profile /\ UNCHANGED <<acts, answers, states>>
    BY <1>11 DEF vars
  <2>2. PInv'
    BY <1>1, <2>1, QuietStep
  <2> QED
    BY <1>7, <2>1, <2>2
<1> QED
  BY <1>4, <1>5, <1>6, <1>7, <1>8, <1>9, <1>10, <1>11 DEF Next

\* The same, as WindowsFollow says it.
LEMMA StepInWindow ==
  ASSUME PInv, [Next]_vars
  PROVE  LET window == Window
             next == Window'
         IN /\ InWindow(now', next)
            /\ \/ next.start = window.start /\ next.end >= window.end
               \/ next.start = window.end /\ now' >= window.end
BY StepFollows DEF Spans, Follows, InWindow

-----------------------------------------------------------------------------
(* The limits.                                                             *)

Kinds == {"any", "root", "new"}
IsOf(k, a) == /\ k \in {"root", "new"} => a.parent = 0
              /\ k = "new" => a.intent = "acquire"
LimitOf(k) == IF k = "any" THEN TotalLimit ELSE IF k = "root" THEN RootLimit ELSE NewLimit

\* The activities of kind k issued from one instant until another.
Between(k, from, to) ==
  {i \in DOMAIN acts : IsOf(k, acts[i]) /\ from <= acts[i].at /\ acts[i].at < to}

\* No more than the limit in this window and in the shortest day before it, and no more
\* than twice the limit in a shortest day from any instant.
Within(k) ==
  /\ Cardinality(Between(k, Window.start, Window.end)) <= LimitOf(k)
  /\ Cardinality(Between(k, Window.start - ShortestDay, Window.start)) <= LimitOf(k)
  /\ \A s \in Int : Cardinality(Between(k, s, s + ShortestDay)) <= 2 * LimitOf(k)

LInv == PInv /\ \A k \in Kinds : Within(k)

\* The limits are numbers.
LEMMA LimitTyped == \A k : LimitOf(k) \in Nat
BY LimitAssumption DEF LimitOf

\* The activities are finitely many.
LEMMA BetweenFinite ==
  ASSUME TypeOK, NEW k, NEW from, NEW to
  PROVE  IsFiniteSet(Between(k, from, to)) /\ Cardinality(Between(k, from, to)) \in Nat
<1>1. DOMAIN acts = 1..Len(acts) /\ Len(acts) \in Nat
  BY DEF TypeOK
<1>2. IsFiniteSet(DOMAIN acts)
  BY <1>1, FS_Interval
<1>3. IsFiniteSet(Between(k, from, to))
  BY <1>2, FS_Subset DEF Between
<1> QED
  BY <1>3, FS_CardinalityType

\* What the workload report counts.
LEMMA IssuedIs ==
  ASSUME PInv
  PROVE  /\ Issued = Between("any", Window.start, Window.end)
         /\ Roots(Issued) = Between("root", Window.start, Window.end)
         /\ New(Issued) = Between("new", Window.start, Window.end)
<1>1. Issued = Between("any", Window.start, Window.end)
  BY DEF Issued, InWindow, Between, IsOf
<1>2. Roots(Issued) = Between("root", Window.start, Window.end)
  BY <1>1 DEF Roots, IsRoot, Between, IsOf
<1>3. New(Issued) = Between("new", Window.start, Window.end)
  BY <1>2 DEF New, Between, IsOf
<1> QED
  BY <1>1, <1>2, <1>3

\* Only an issue adds to the activities; the clock and the window move without one.
LEMMA LimitsKept ==
  ASSUME LInv, PInv', Follows(Window', Window, now'), Spans(Window', now'),
         DOMAIN acts' = DOMAIN acts,
         \A i \in DOMAIN acts : /\ acts'[i].at = acts[i].at /\ acts'[i].parent = acts[i].parent
                                /\ acts'[i].intent = acts[i].intent,
         NEW k \in Kinds
  PROVE  Within(k)'
<1> DEFINE w == Window
           v == Window'
<1>1. \A from, to : Between(k, from, to)' = Between(k, from, to)
  BY DEF Between, IsOf
<1>2. /\ w.start \in Int /\ w.end \in Int /\ v.start \in Int /\ v.end \in Int
      /\ now < w.end /\ w.end - w.start >= ShortestDay /\ ShortestDay \in Int
      /\ now \in Int
  <2>1. Spans(Window, now)
    BY WindowSpans DEF LInv, PInv, TypeOK, Window
  <2>2. now \in Int
    BY DEF LInv, PInv, TypeOK
  <2> QED
    BY <2>1, <2>2, ShortestDayBounds DEF Spans
<1>3. \A i \in DOMAIN acts : acts[i].at \in Int /\ acts[i].at < w.end
  <2>1. \A i \in DOMAIN acts : acts[i].at \in Nat /\ acts[i].at <= now
    BY ActTyped DEF LInv, PInv
  <2> QED
    BY <1>2, <2>1
<1>4. /\ Cardinality(Between(k, w.start, w.end)) <= LimitOf(k)
      /\ Cardinality(Between(k, w.start - ShortestDay, w.start)) <= LimitOf(k)
      /\ \A s \in Int : Cardinality(Between(k, s, s + ShortestDay)) <= 2 * LimitOf(k)
  BY DEF LInv, Within
<1>5. /\ Cardinality(Between(k, v.start, v.end)) <= LimitOf(k)
      /\ Cardinality(Between(k, v.start - ShortestDay, v.start)) <= LimitOf(k)
  <2>1. CASE v.start = w.start /\ v.end >= w.end
    <3>1. Between(k, v.start, v.end) = Between(k, w.start, w.end)
      <4> HIDE DEF w, v
      <4> QED
        BY <1>2, <1>3, <2>1 DEF Between
    <3> HIDE DEF w, v
    <3> QED
      BY <1>4, <2>1, <3>1
  <2>2. CASE v.start = w.end
    <3> HIDE DEF w, v
    <3>1. Between(k, v.start, v.end) = {}
      BY <1>2, <1>3, <2>2 DEF Between
    <3>2. Cardinality(Between(k, v.start, v.end)) <= LimitOf(k)
      BY <3>1, FS_EmptySet, LimitTyped
    <3>3. Between(k, v.start - ShortestDay, v.start) \subseteq Between(k, w.start, w.end)
      BY <1>2, <1>3, <2>2 DEF Between
    <3>4. TypeOK
      BY DEF LInv, PInv
    <3>5. /\ Cardinality(Between(k, v.start - ShortestDay, v.start))
               <= Cardinality(Between(k, w.start, w.end))
          /\ Cardinality(Between(k, v.start - ShortestDay, v.start)) \in Nat
          /\ Cardinality(Between(k, w.start, w.end)) \in Nat
      BY <3>3, <3>4, BetweenFinite, FS_Subset
    <3> QED
      BY <1>4, <3>2, <3>5, LimitTyped
  <2> QED
    BY <2>1, <2>2 DEF Follows
<1>6. ShortestDay' = ShortestDay /\ LimitOf(k)' = LimitOf(k)
  BY DEF ShortestDay, Latest, LimitOf
<1> QED
  BY <1>1, <1>4, <1>5, <1>6 DEF Within

\* An activity is issued now, when its kind has not reached its limit.
LEMMA LimitsHeld ==
  ASSUME LInv, PInv', NEW a \in Activity, acts' = Append(acts, a), a.at = now,
         UNCHANGED <<now, profile>>, NEW k \in Kinds,
         IsOf(k, a) => Cardinality(Between(k, Window.start, Window.end)) < LimitOf(k)
  PROVE  Within(k)'
<1> DEFINE w == Window
           n == Len(acts) + 1
           D == ShortestDay
<1>1. /\ DOMAIN acts' = DOMAIN acts \union {n} /\ n \notin DOMAIN acts
      /\ acts'[n] = a /\ \A i \in DOMAIN acts : acts'[i] = acts[i]
  <2>1. acts \in Seq(Activity) /\ Len(acts) \in Nat /\ DOMAIN acts = 1..Len(acts)
    BY DEF LInv, PInv, TypeOK
  <2> QED
    BY <2>1
<1>2. Window' = w /\ w' = w /\ D' = D /\ LimitOf(k)' = LimitOf(k)
  BY DEF Window, ShortestDay, Latest, LimitOf
<1>3. /\ w.start \in Int /\ w.end \in Int /\ w.start <= now /\ now < w.end
      /\ now \in Int /\ D \in Int
  <2>1. Spans(Window, now)
    BY WindowSpans DEF LInv, PInv, TypeOK, Window
  <2>2. now \in Int
    BY DEF LInv, PInv, TypeOK
  <2> QED
    BY <2>1, <2>2, ShortestDayBounds DEF Spans
<1>4. \A i \in DOMAIN acts : acts[i].at \in Int /\ acts[i].at <= now
  <2>1. \A i \in DOMAIN acts : acts[i].at \in Nat /\ acts[i].at <= now
    BY ActTyped DEF LInv, PInv
  <2> QED
    BY <2>1
<1>5. /\ Cardinality(Between(k, w.start, w.end)) <= LimitOf(k)
      /\ Cardinality(Between(k, w.start - D, w.start)) <= LimitOf(k)
      /\ \A s \in Int : Cardinality(Between(k, s, s + D)) <= 2 * LimitOf(k)
  BY DEF LInv, Within
<1>6. \A from, to : IsFiniteSet(Between(k, from, to)) /\ Cardinality(Between(k, from, to)) \in Nat
  BY BetweenFinite DEF LInv, PInv
<1>7. LimitOf(k) \in Nat
  BY LimitTyped
<1> HIDE DEF w, D, n
<1>8. \A from \in Int, to \in Int :
        Between(k, from, to)' = IF IsOf(k, a) /\ from <= now /\ now < to
                                  THEN Between(k, from, to) \union {n}
                                  ELSE Between(k, from, to)
  BY <1>1 DEF Between, IsOf
<1>9. \A from, to : n \notin Between(k, from, to)
  BY <1>1 DEF Between
<1>10. \A from, to :
         Cardinality(Between(k, from, to) \union {n}) = Cardinality(Between(k, from, to)) + 1
  BY <1>6, <1>9, FS_AddElement
<1>11. Cardinality(Between(k, w.start, w.end)') <= LimitOf(k)
  <2>1. CASE IsOf(k, a)
    <3>1. Cardinality(Between(k, w.start, w.end)) < LimitOf(k)
      BY <2>1 DEF w
    <3>2. Cardinality(Between(k, w.start, w.end)') = Cardinality(Between(k, w.start, w.end)) + 1
      BY <1>2, <1>3, <1>8, <1>10, <2>1
    <3>3. Cardinality(Between(k, w.start, w.end)) \in Nat
      BY <1>6
    <3> QED
      BY <1>7, <3>1, <3>2, <3>3
  <2>2. CASE ~IsOf(k, a)
    BY <1>2, <1>3, <1>5, <1>8, <2>2
  <2> QED
    BY <2>1, <2>2
<1>12. Cardinality(Between(k, w.start - D, w.start)') <= LimitOf(k)
  <2>1. w.start - D \in Int /\ ~(now < w.start)
    BY <1>3
  <2> QED
    BY <1>2, <1>3, <1>5, <1>8, <2>1
<1>13. ASSUME NEW s \in Int
       PROVE  Cardinality(Between(k, s, s + D)') <= 2 * LimitOf(k)
  <2>1. s + D \in Int
    BY <1>3
  <2>2. CASE IsOf(k, a) /\ s <= now /\ now < s + D
    <3> DEFINE early == Between(k, w.start - D, w.start)
               late == Between(k, w.start, w.end)
    <3>1. Between(k, s, s + D) \subseteq early \union late
      <4> SUFFICES ASSUME NEW i \in Between(k, s, s + D) PROVE i \in early \union late
        OBVIOUS
      <4>1. /\ i \in DOMAIN acts /\ IsOf(k, acts[i]) /\ s <= acts[i].at
            /\ acts[i].at \in Int /\ acts[i].at <= now
        BY <1>4 DEF Between
      <4>2. w.start - D <= acts[i].at /\ acts[i].at < w.end
        BY <1>3, <2>2, <4>1
      <4>3. CASE acts[i].at < w.start
        BY <4>1, <4>2, <4>3 DEF Between
      <4>4. CASE w.start <= acts[i].at
        BY <4>1, <4>2, <4>4 DEF Between
      <4> QED
        BY <1>3, <4>1, <4>3, <4>4
    <3>2. IsFiniteSet(early) /\ IsFiniteSet(late)
          /\ Cardinality(early) \in Nat /\ Cardinality(late) \in Nat
      BY <1>6
    <3>3. Cardinality(early) <= LimitOf(k) /\ Cardinality(late) < LimitOf(k)
      BY <1>5, <2>2 DEF w
    <3> HIDE DEF early, late
    <3>4. /\ IsFiniteSet(early \union late)
          /\ Cardinality(early \union late) <= Cardinality(early) + Cardinality(late)
          /\ Cardinality(early \union late) \in Nat
      <4>1. IsFiniteSet(early \intersect late) /\ IsFiniteSet(early \union late)
        BY <3>2, FS_Subset, FS_Union
      <4>2. Cardinality(early \union late) =
              Cardinality(early) + Cardinality(late) - Cardinality(early \intersect late)
        BY <3>2, FS_Union
      <4>3. Cardinality(early \intersect late) \in Nat /\ Cardinality(early \union late) \in Nat
        BY <4>1, FS_CardinalityType
      <4> QED
        BY <3>2, <4>1, <4>2, <4>3
    <3>5. Cardinality(Between(k, s, s + D)) <= Cardinality(early \union late)
      BY <3>1, <3>4, FS_Subset
    <3>6. Cardinality(Between(k, s, s + D)') = Cardinality(Between(k, s, s + D)) + 1
      BY <1>8, <1>10, <2>1, <2>2
    <3>7. Cardinality(Between(k, s, s + D)) \in Nat
      BY <1>6
    <3> QED
      BY <1>7, <3>2, <3>3, <3>4, <3>5, <3>6, <3>7
  <2>3. CASE ~(IsOf(k, a) /\ s <= now /\ now < s + D)
    <3>1. Between(k, s, s + D)' = Between(k, s, s + D)
      BY <1>8, <2>1, <2>3
    <3> QED
      BY <1>5, <3>1
  <2> QED
    BY <2>2, <2>3
<1> QED
  BY <1>2, <1>11, <1>12, <1>13 DEF Within, w, D

\* With nothing issued they hold.
LEMMA LimitsInit == Init => LInv
<1> SUFFICES ASSUME Init PROVE LInv
  OBVIOUS
<1>1. PInv
  BY InitHolds
<1>2. ASSUME NEW k \in Kinds PROVE Within(k)
  <2>1. \A from, to : Between(k, from, to) = {}
    BY DEF Init, Between
  <2>2. LimitOf(k) \in Nat /\ Cardinality({}) = 0
    BY LimitTyped, FS_EmptySet
  <2>3. \A from, to : /\ Cardinality(Between(k, from, to)) <= LimitOf(k)
                      /\ Cardinality(Between(k, from, to)) <= 2 * LimitOf(k)
    BY <2>1, <2>2
  <2> QED
    BY <2>3 DEF Within
<1> QED
  BY <1>1, <1>2 DEF LInv

\* Each step keeps the limits.
LEMMA LimitsStep == LInv /\ [Next]_vars => LInv'
<1> SUFFICES ASSUME LInv, [Next]_vars PROVE LInv'
  OBVIOUS
<1>1. /\ PInv /\ PInv' /\ Spans(Window', now') /\ Follows(Window', Window, now')
  BY StepFollows DEF LInv
<1>2. CASE UNCHANGED acts
  BY <1>1, <1>2, LimitsKept DEF LInv
<1>3. ASSUME NEW r \in Asking, NextActivity(r) PROVE LInv'
  <2>1. /\ UNCHANGED <<now, profile>>
        /\ \E a \in Activity :
             /\ acts' = Append(acts, a) /\ a.at = now /\ a.parent = 0
             /\ Remains(RootLimit, Roots(Issued), Issued)
             /\ a.intent = "acquire" => Remains(NewLimit, New(Issued), Issued)
    BY <1>1, <1>3, NextActivityStep
  <2>2. PICK a \in Activity :
             /\ acts' = Append(acts, a) /\ a.at = now /\ a.parent = 0
             /\ Remains(RootLimit, Roots(Issued), Issued)
             /\ a.intent = "acquire" => Remains(NewLimit, New(Issued), Issued)
    BY <2>1
  <2>3. ASSUME NEW k \in Kinds
        PROVE  IsOf(k, a) => Cardinality(Between(k, Window.start, Window.end)) < LimitOf(k)
    BY <1>1, <2>2, IssuedIs DEF Kinds, IsOf, LimitOf, Remains
  <2> QED
    BY <1>1, <2>1, <2>2, <2>3, LimitsHeld DEF LInv
<1>4. ASSUME NEW i \in DOMAIN acts, Repair(i) PROVE LInv'
  <2>1. /\ UNCHANGED <<now, profile>>
        /\ \E a \in Activity :
             /\ acts' = Append(acts, a) /\ a.at = now /\ a.parent # 0
             /\ Remains(RepairLimit, Issued \ Roots(Issued), Issued)
    BY <1>1, <1>4, RepairStep
  <2>2. PICK a \in Activity :
             /\ acts' = Append(acts, a) /\ a.at = now /\ a.parent # 0
             /\ Remains(RepairLimit, Issued \ Roots(Issued), Issued)
    BY <2>1
  <2>3. ASSUME NEW k \in Kinds
        PROVE  IsOf(k, a) => Cardinality(Between(k, Window.start, Window.end)) < LimitOf(k)
    BY <1>1, <2>2, IssuedIs DEF Kinds, IsOf, LimitOf, Remains
  <2> QED
    BY <1>1, <2>1, <2>2, <2>3, LimitsHeld DEF LInv
<1>5. ASSUME NEW i \in DOMAIN acts, NEW outcome \in Verdict \union {"exposure"},
             Submit(i, outcome)
      PROVE  LInv'
  <2>1. acts' = [acts EXCEPT ![i].outcome = outcome]
    BY <1>1, <1>5, SubmitStep
  <2>2. acts \in Seq(Activity) /\ acts[i] \in Activity
    BY <1>1, ActTyped DEF PInv, TypeOK
  <2>3. /\ DOMAIN acts' = DOMAIN acts /\ acts'[i] = [acts[i] EXCEPT !.outcome = outcome]
        /\ \A j \in DOMAIN acts \ {i} : acts'[j] = acts[j]
    BY <2>1, <2>2
  <2>4. /\ acts'[i].at = acts[i].at /\ acts'[i].parent = acts[i].parent
        /\ acts'[i].intent = acts[i].intent
    BY <2>2, <2>3 DEF Activity
  <2>5. \A j \in DOMAIN acts : /\ acts'[j].at = acts[j].at /\ acts'[j].parent = acts[j].parent
                               /\ acts'[j].intent = acts[j].intent
    BY <2>3, <2>4
  <2> QED
    BY <1>1, <2>3, <2>5, LimitsKept DEF LInv
<1>6. \/ UNCHANGED acts
      \/ \E r \in Asking : NextActivity(r)
      \/ \E i \in DOMAIN acts : Repair(i)
      \/ \E i \in DOMAIN acts, outcome \in Verdict \union {"exposure"} : Submit(i, outcome)
  BY DEF Next, Tick, ChooseZone, ChooseLevel, vars
<1> QED
  BY <1>2, <1>3, <1>4, <1>5, <1>6

\* A window's limits are the promise about any shortest day.
LEMMA LimitsMean == LInv => NoEarlyReset
<1> SUFFICES ASSUME LInv, NEW i \in DOMAIN acts
             PROVE
    LET near == {j \in DOMAIN acts : /\ acts[i].at <= acts[j].at
                                     /\ acts[j].at < acts[i].at + ShortestDay}
        roots == {j \in near : IsRoot(j)}
    IN /\ Cardinality(near) <= 2 * TotalLimit
       /\ Cardinality(roots) <= 2 * RootLimit
       /\ Cardinality({j \in roots : acts[j].intent = "acquire"}) <= 2 * NewLimit
  BY DEF NoEarlyReset
<1> DEFINE s == acts[i].at
           near == {j \in DOMAIN acts : s <= acts[j].at /\ acts[j].at < s + ShortestDay}
           roots == {j \in near : IsRoot(j)}
<1>1. near = Between("any", s, s + ShortestDay)
  BY DEF Between, IsOf
<1>2. roots = Between("root", s, s + ShortestDay)
  BY DEF Between, IsOf, IsRoot
<1>3. {j \in roots : acts[j].intent = "acquire"} = Between("new", s, s + ShortestDay)
  BY DEF Between, IsOf, IsRoot
<1>4. s \in Int
  BY ActTyped DEF LInv, PInv
<1>5. /\ Cardinality(Between("any", s, s + ShortestDay)) <= 2 * LimitOf("any")
      /\ Cardinality(Between("root", s, s + ShortestDay)) <= 2 * LimitOf("root")
      /\ Cardinality(Between("new", s, s + ShortestDay)) <= 2 * LimitOf("new")
  BY <1>4 DEF LInv, Within, Kinds
<1> QED
  BY <1>1, <1>2, <1>3, <1>5 DEF LimitOf

-----------------------------------------------------------------------------
(* The theorems.                                                           *)

\* All of the above from one invariant.
LEMMA Invariant == Spec => []LInv
<1>1. Init => LInv
  BY LimitsInit
<1>2. LInv /\ [Next]_vars => LInv'
  BY LimitsStep
<1> QED
  BY <1>1, <1>2, PTL DEF Spec

\* Every variable keeps its type, and no activity is from the future: not issued after
\* now, nor after more answers than there are.
THEOREM TypeCorrect == Spec => []TypeOK
<1>1. LInv => TypeOK
  BY DEF LInv, PInv
<1> QED
  BY <1>1, Invariant, PTL

\* Allocation windows follow one another without a gap or an overlap, through time zone
\* changes and daylight saving: request_timezone keeps the start and never an earlier
\* end, and a pending change ends at a midnight of the new zone, where the window of that
\* zone's date begins.
THEOREM WindowsInOrder == Spec => WindowsFollow
<1>1. LInv /\ [Next]_vars =>
        [LET window == Window
             next == Window'
         IN /\ InWindow(now', next)
            /\ \/ next.start = window.start /\ next.end >= window.end
               \/ next.start = window.end /\ now' >= window.end]_vars
  BY StepInWindow DEF LInv
<1> QED
  BY <1>1, Invariant, PTL DEF Spec, WindowsFollow

\* No sequence of time zone changes brings the limits of local_workload.py back early:
\* in a period shorter than any day, at most two windows' worth is issued.
THEOREM LimitsHold == Spec => []NoEarlyReset
<1>1. LInv => NoEarlyReset
  BY LimitsMean
<1> QED
  BY <1>1, Invariant, PTL

\* The frontier issues a target only after the answers, in their order, had earned each
\* of its hard prerequisites: the peak of a state remembers that they did.
THEOREM UnlockedFirst == Spec => []UnlockedByAnswers
<1>1. LInv => UnlockedByAnswers
  BY DEF LInv, PInv
<1> QED
  BY <1>1, Invariant, PTL

\* select_next gives up only when each target has its reason: the intents that have no
\* valid candidate make room for the next, down to the last.
THEOREM ReasonGiven == Spec => []SentAwayForAReason
<1>1. LInv => SentAwayForAReason
  BY RefusalHasReason DEF LInv
<1> QED
  BY <1>1, Invariant, PTL
==============================================================================
