---------------------------- MODULE MemoryPolicy ----------------------------
(***************************************************************************)
(* What one learning event does to a learner's state on one target         *)
(* (backend/app/domain/memory_policy.py and the pure part of               *)
(* services/learner_projection_service.py): competence weights and peak,   *)
(* the evidence cursor, and the memory schedule; and the replay of a set   *)
(* of events in canonical order.                                           *)
(*                                                                         *)
(* Time is counted in ticks.  A fraction is a pair <<numerator,            *)
(* denominator>>.  Uncertainty is a function of the two weights and the    *)
(* policy versions are constants: both are left out.                       *)
(***************************************************************************)
EXTENDS Integers

CONSTANTS Day,         \* ticks in a day
          Delay,       \* ticks in the ten minutes after a rating `again`
          DeterministicCap, EasyCap,  \* *_INTERVAL_CAP_DAYS
          NoTime       \* SQL NULL in a timestamp column

ASSUME DurationAssumption == /\ Delay \in Nat /\ Day \in Nat /\ Delay < Day
                             /\ DeterministicCap \in Nat /\ EasyCap \in Nat

Verdict == {"correct", "incorrect", "unresolved"}  \* deterministic evaluations
Rating == {"again", "hard", "good", "easy"}        \* self reports
Deterministic == {"correct", "incorrect"}

Lesser(a, b) == IF a <= b THEN a ELSE b

\* A baseline is what the state was created with: nothing, or the schedule of
\* the legacy progress row.
NeutralBaseline == [kind |-> "neutral", due |-> NoTime, interval |-> 0]
LegacyBaseline(due, interval) ==
  [kind |-> "legacy_bootstrap", due |-> due, interval |-> interval]

\* learner_target_states, without its versions.
TargetState ==
  [count : Nat, deterministic : Nat, at : Nat \union {NoTime}, id : Nat,
   success : Nat, failure : Nat, peak : Nat \X Nat,
   due : Nat \union {NoTime}, interval : Nat, lapses : Nat]

Cursor(state) == <<state.at, state.id>>

\* _reset_to_baseline
FromBaseline(base) ==
  [count |-> 0, deterministic |-> 0, at |-> NoTime, id |-> 0,
   success |-> 0, failure |-> 0, peak |-> <<0, 1>>,
   due |-> base.due, interval |-> base.interval, lapses |-> 0]

-----------------------------------------------------------------------------
(* Memory: each outcome's next interval, its due instant and its lapse.    *)

NextInterval(interval, outcome) ==
  CASE outcome = "correct" ->
         IF interval = 0 THEN 1 ELSE Lesser(interval * 2, DeterministicCap)
    [] outcome = "good" ->
         IF interval < 2 THEN 2 ELSE Lesser(interval * 2, DeterministicCap)
    [] outcome = "easy" ->
         IF interval < 4 THEN 4 ELSE Lesser(interval * 3, EasyCap)
    [] outcome \in {"hard", "exposure"} -> 1
    [] outcome \in {"incorrect", "again"} -> 0

\* An unresolved answer, or an exposure of what is scheduled, changes nothing.
Reschedules(state, outcome) ==
  outcome # "unresolved" /\ (outcome = "exposure" => state.due = NoTime)

DueAfter(outcome, at, interval) ==
  IF outcome = "again" THEN at + Delay ELSE at + interval * Day

-----------------------------------------------------------------------------
(* Competence: only resolved deterministic answers weigh.                  *)

Higher(p, q) == IF p[1] * q[2] >= q[1] * p[2] THEN p ELSE q

PeakAfter(state) ==
  Higher(state.peak, <<2 + state.success, 3 + state.success + state.failure>>)

\* project_event
Project(state, event) ==
  LET next == NextInterval(state.interval, event.outcome)
      moved == Reschedules(state, event.outcome)
  IN [count |-> state.count + 1,
      deterministic |-> state.deterministic
                        + (IF event.outcome \in Deterministic THEN 1 ELSE 0),
      at |-> event.at, id |-> event.id,
      success |-> state.success + (IF event.outcome = "correct" THEN 1 ELSE 0),
      failure |-> state.failure + (IF event.outcome = "incorrect" THEN 1 ELSE 0),
      peak |-> IF event.outcome = "correct" THEN PeakAfter(state) ELSE state.peak,
      due |-> IF moved THEN DueAfter(event.outcome, event.at, next) ELSE state.due,
      interval |-> IF moved THEN next ELSE state.interval,
      lapses |-> state.lapses + (IF event.outcome \in {"incorrect", "again"} THEN 1 ELSE 0)]

\* _event_key: the canonical order is by time, then by event id.
Earlier(e, f) == e.at < f.at \/ (e.at = f.at /\ e.id < f.id)

LastOf(events) == CHOOSE e \in events : \A f \in events : f = e \/ Earlier(f, e)

\* replay_events: what is last in that order is projected last.
Replay(base, events) ==
  LET After[some \in SUBSET events] ==
        IF some = {} THEN FromBaseline(base)
        ELSE Project(After[some \ {LastOf(some)}], LastOf(some))
  IN After[events]
=============================================================================
