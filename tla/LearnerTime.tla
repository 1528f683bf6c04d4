----------------------------- MODULE LearnerTime -----------------------------
(***************************************************************************)
(* A learner's calendar (backend/app/learner_time.py): the first instant   *)
(* of a local date, the window in which issued activities are counted, and *)
(* the time zone change that waits for the end of that window.             *)
(*                                                                         *)
(* An instant counts ticks of UTC and a date counts days.  A zone is its   *)
(* one transition: the offset before it, when it is, and the offset after. *)
(* A profile holds the requested zone and, while a change is pending, the  *)
(* zone it replaces and the bounds of the window in force.                 *)
(***************************************************************************)
EXTENDS Integers

CONSTANTS Day,     \* ticks in a day
          Zone,    \* the zones a learner may choose
          NoTime   \* SQL NULL in a timestamp column

ASSUME CalendarAssumption ==
  /\ Day \in Nat \ {0} /\ NoTime \notin Int
  /\ Zone \subseteq [before : Int, at : Int, after : Int]

\* A clock set back into a date that had ended would give two windows to one
\* date; the time zone database has no such change after 2011.
ASSUME DatesDoNotReturn ==
  \A z \in Zone : (z.at - 1 + z.before) \div Day <= (z.at + z.after) \div Day

Earliest(S) == CHOOSE x \in S : \A y \in S : x <= y
Latest(S) == CHOOSE x \in S : \A y \in S : x >= y

Local(t, z) == t + (IF t < z.at THEN z.before ELSE z.after)
Date(t, z) == Local(t, z) \div Day

\* A wall time that a change repeats, or skips, has two readings: `fold` says on
\* which side of the transition it is read.
FromLocal(wall, z, fold) ==
  LET border == z.at + (IF fold = 0 THEN Latest({z.before, z.after})
                                    ELSE Earliest({z.before, z.after}))
  IN wall - (IF wall < border THEN z.before ELSE z.after)

-----------------------------------------------------------------------------
(* first_day_instant.                                                      *)

Midnights(day, z) == {FromLocal(day * Day, z, fold) : fold \in {0, 1}}
Exact(day, z) == {t \in Midnights(day, z) : Local(t, z) = day * Day}

\* Halve the interval until it ends one tick after the last instant before `day`.
Bisected(day, z, from, to) ==
  LET Search[interval \in Int \X Int] ==
        LET low == interval[1]
            high == interval[2]
            middle == low + (high - low) \div 2
        IN CASE high - low <= 1 -> high
             [] high - low > 1 /\ Date(middle, z) >= day -> Search[<<low, middle>>]
             [] OTHER -> Search[<<middle, high>>]
  IN Search[<<from, to>>]

\* Midnight is skipped: the date begins at the transition.
Transition(day, z) ==
  LET low == Earliest(Midnights(day, z))
      high == Latest(Midnights(day, z))
  IN Bisected(day, z, IF Date(low, z) >= day THEN low - 2 * Day ELSE low,
                      IF Date(high, z) < day THEN high + 2 * Day ELSE high)

\* Mistaken: a skipped midnight is read as the instant it normalises to.
FirstDayInstantNormalised(day, z) ==
  IF Exact(day, z) # {} THEN Earliest(Exact(day, z)) ELSE Latest(Midnights(day, z))

FirstDayInstant(day, z) ==
  IF Exact(day, z) # {} THEN Earliest(Exact(day, z)) ELSE Transition(day, z)

-----------------------------------------------------------------------------
(* Windows, half open.                                                     *)

DayWindow(now, z) == [start |-> FirstDayInstant(Date(now, z), z),
                      end |-> FirstDayInstant(Date(now, z) + 1, z), zone |-> z]

Pending(profile, now) == profile.changeAt # NoTime /\ now < profile.changeAt

AllocationWindow(profile, now) ==
  IF Pending(profile, now)
    THEN [start |-> profile.windowStart, end |-> profile.changeAt, zone |-> profile.previous]
    ELSE DayWindow(now, profile.zone)

InWindow(t, window) == window.start <= t /\ t < window.end

\* The first midnight of zone z that does not cut the current window short.
BoundaryAfter(end, z) ==
  LET From[day \in Int] == IF FirstDayInstant(day, z) >= end THEN FirstDayInstant(day, z)
                                                            ELSE From[day + 1]
  IN From[Date(end, z)]

\* Mistaken: the window in force begins again with the request.
RequestTimezoneAnew(profile, z, now) ==
  IF z = profile.zone THEN profile
  ELSE LET current == AllocationWindow(profile, now)
       IN [profile EXCEPT !.zone = z, !.previous = current.zone, !.windowStart = now,
             !.changeAt = BoundaryAfter(current.end, z)]

\* request_timezone
RequestTimezone(profile, z, now) ==
  IF z = profile.zone THEN profile
  ELSE LET current == AllocationWindow(profile, now)
       IN [profile EXCEPT !.zone = z, !.previous = current.zone,
             !.windowStart = current.start,
             !.changeAt = BoundaryAfter(current.end, z)]
=============================================================================
