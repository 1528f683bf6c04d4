------------------------------ MODULE Selection ------------------------------
(***************************************************************************)
(* Which activity a learner gets next: the curriculum frontier             *)
(* (backend/app/domain/curriculum_policy.py), what a learning intent is    *)
(* good for and how its targets rank (services/next_activity_service.py),  *)
(* and which candidates can be issued (domain/selection_policy.py).        *)
(*                                                                         *)
(* A target has one candidate, as in the reviewed pack.  Among equals the  *)
(* code takes the less repeated, then the smaller key: either is left open.*)
(***************************************************************************)
EXTENDS MemoryPolicy, FiniteSets

CONSTANTS Target,        \* targets of the active curriculum
          Level,         \* the CEFR level of each, as a number
          Priority,      \* and its priority
          Hard, Soft,    \* prerequisites, as pairs <<prerequisite, dependent>>
          Invalid,       \* targets whose candidate no deterministic scorer fits
          NoState        \* a target that has no state row

Before(kind, t) == {p \in Target : <<p, t>> \in kind}

-----------------------------------------------------------------------------
(* The frontier.                                                           *)

\* _unready_reason
UnreadyReason(state) ==
  CASE state = NoState -> "missing_state"
    [] state # NoState /\ state.count = 0 -> "no_native_evidence"
    [] state # NoState /\ state.count > 0 /\ state.success < 1 -> "no_deterministic_success"
    [] state # NoState /\ state.success >= 1 /\ 5 * state.peak[1] < 3 * state.peak[2] -> "below_peak"
    [] OTHER -> "ready"

\* Mistaken: any evidence on the prerequisite unlocks its dependents.
HardReadyExposed(t, states) == \A p \in Before(Hard, t) : states[p] # NoState

HardReady(t, states) == \A p \in Before(Hard, t) : UnreadyReason(states[p]) = "ready"

SoftReady(t, states) ==
  Cardinality({p \in Before(Soft, t) : UnreadyReason(states[p]) = "ready"})

\* The offered targets that can be practised now.
Frontier(offered, states, level) ==
  {t \in offered : HardReady(t, states) /\ Level[t] <= level}

-----------------------------------------------------------------------------
(* The learning intents.                                                   *)

HasEvidence(state) == state # NoState /\ state.deterministic > 0
Scheduled(state) == state # NoState /\ state.due # NoTime
IsDue(state, now) == Scheduled(state) /\ state.due <= now
IsWeak(state) == state # NoState /\ state.failure > state.success
IsAcquirable(state, now) ==
  ~HasEvidence(state) /\ (Scheduled(state) => state.due <= now)

Due(S, states, now) == {t \in S : IsDue(states[t], now)}
Weak(S, states) == {t \in S : IsWeak(states[t])}
Acquirable(S, states, now, seen) == {t \in S \ seen : IsAcquirable(states[t], now)}

\* Mistaken: what was only seen, or left unresolved, is never practised again.
AssessableEvidence(S, states, seen) == {t \in S : HasEvidence(states[t])}

Assessable(S, states, seen) ==
  {t \in S : (t \in seen /\ states[t] # NoState) \/ HasEvidence(states[t])}

\* _intent_targets
IntentTargets(S, states, now, seen, exhausted) ==
  LET new == Acquirable(S, states, now, seen)
  IN CASE Due(S, states, now) # {} -> [intent |-> "review", targets |-> Due(S, states, now)]
       [] Due(S, states, now) = {} /\ Weak(S, states) # {} ->
            [intent |-> "strengthen", targets |-> Weak(S, states)]
       [] Due(S, states, now) = {} /\ Weak(S, states) = {} /\ new # {} /\ ~exhausted ->
            [intent |-> "acquire", targets |-> new]
       [] OTHER ->
            IF Assessable(S, states, seen) # {}
              THEN [intent |-> "assess", targets |-> Assessable(S, states, seen)]
              ELSE [intent |-> "none", targets |-> new]

-----------------------------------------------------------------------------
(* The ranking: _rank_key, smaller is better.                              *)

RankKey(intent, t, states) ==
  LET s == states[t] IN
    CASE intent = "review" -> <<s.due, -Priority[t]>>
      [] intent = "strengthen" -> <<s.success - s.failure, -Priority[t]>>
      [] intent = "acquire" -> <<-Priority[t], -SoftReady(t, states)>>
      [] intent = "assess" -> <<s.success + s.failure, s.at, -Priority[t]>>

Precedes(a, b) == \E i \in DOMAIN a : /\ a[i] < b[i]
                                      /\ \A j \in 1..(i - 1) : a[j] = b[j]

Best(S, intent, states) ==
  {t \in S : \A u \in S : ~Precedes(RankKey(intent, u, states), RankKey(intent, t, states))}

-----------------------------------------------------------------------------
(* select_next.                                                            *)

NoActivity(code) == [code |-> code, intent |-> "none", targets |-> {}]

\* ActivityValidityPolicy.is_valid, of the frontier's targets.
IsValid(t) == t \notin Invalid

\* What is tried on S: a first opportunity when that is preferred, else an intent.
Preferred(S, states, now, seen, first, exhausted) ==
  first /\ Acquirable(S, states, now, seen) # {} /\ ~exhausted

Pick(S, states, now, seen, first, exhausted) ==
  IF Preferred(S, states, now, seen, first, exhausted)
    THEN [intent |-> "acquire", targets |-> Acquirable(S, states, now, seen)]
    ELSE IntentTargets(S, states, now, seen, exhausted)

\* An intent none of whose targets has a valid candidate makes room for the next;
\* `prefer` puts a first opportunity before the backlog once.
Select(frontier, states, now, seen, prefer, exhausted) ==
  LET From[S \in SUBSET Target] == [first \in BOOLEAN |->
        LET preferred == Preferred(S, states, now, seen, first, exhausted)
            pick == Pick(S, states, now, seen, first, exhausted)
            valid == {t \in pick.targets : IsValid(t)}
        IN CASE S = {} -> NoActivity("no_valid_candidate")
             [] S # {} /\ pick.intent = "none" ->
                  NoActivity(IF pick.targets # {} /\ exhausted THEN "daily_acquire_budget_reached"
                             ELSE IF S # frontier THEN "no_valid_candidate"
                             ELSE "empty_frontier")
             [] S # {} /\ pick.intent # "none" /\ valid # {} ->
                  [code |-> "none", intent |-> pick.intent,
                   targets |-> Best(valid, pick.intent, states)]
             [] OTHER -> From[S \ pick.targets][first /\ ~preferred]]
  IN IF frontier = {} THEN NoActivity("empty_frontier") ELSE From[frontier][prefer]
=============================================================================
