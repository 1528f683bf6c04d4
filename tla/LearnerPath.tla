----------------------------- MODULE LearnerPath -----------------------------
(***************************************************************************)
(* One learner's way through local written practice, over days: the next   *)
(* activity chosen from what was answered before, when it was, and what is *)
(* left of the window's limits, while the learner's clock, time zone and   *)
(* level move (services/local_practice_service.py with local_workload.py,  *)
(* learner_time.py, next_activity_service.py, curriculum_policy.py,        *)
(* memory_policy.py and profile_service.py).                               *)
(*                                                                         *)
(* LocalPractice has the interleavings of several requests, which the lock *)
(* on the profile row puts in sequence; here a request is one step, and    *)
(* which target is issued, left open there, is decided.  Keys, support,    *)
(* what is displayed and a retired policy are in LocalPractice; the pack   *)
(* stays the active version, whose replacement is in Publication.          *)
(***************************************************************************)
EXTENDS LearnerTime, Sequences, FiniteSets

CONSTANTS Target, Level, Priority, Hard, Soft, Invalid, NoState,  \* the curriculum
          Delay, DeterministicCap, EasyCap,                       \* MemoryPolicy
          TotalLimit, RootLimit, NewLimit, RepairLimit,           \* LocalWorkloadPolicy
          Home,                            \* the zone of a new profile
          MaxNow, MaxOperations, MaxLevel  \* bounds

ASSUME TargetAssumption == IsFiniteSet(Target)
ASSUME LevelAssumption == \A t \in Target : Level[t] \in Nat /\ Priority[t] \in Int
ASSUME ZoneAssumption == IsFiniteSet(Zone) /\ Home \in Zone
ASSUME LimitAssumption == {TotalLimit, RootLimit, NewLimit, RepairLimit, MaxLevel} \subseteq Nat
ASSUME DurationAssumption == {Delay, DeterministicCap, EasyCap} \subseteq Nat

VARIABLES
  now,      \* the database clock
  profile,  \* user_profiles: requested zone, pending change, level
  acts,     \* activity_instances of the learner, in the order of issue
  answers,  \* learning_events, in the order of commit
  states,   \* learner_target_states
  left      \* bound: operations still to come

vars == <<now, profile, acts, answers, states, left>>

Selector == INSTANCE Selection
Memory == INSTANCE MemoryPolicy

ASSUME StateAssumption == NoState \notin Memory!TargetState

Verdict == {"correct", "incorrect", "unresolved"}
Failed == {"incorrect", "unresolved"}

Init == /\ now = 0
        /\ profile = [zone |-> Home, previous |-> Home, windowStart |-> NoTime,
                      changeAt |-> NoTime, level |-> 1]
        /\ acts = <<>> /\ answers = <<>>
        /\ states = [t \in Target |-> NoState]
        /\ left = MaxOperations

-----------------------------------------------------------------------------
(* Runs are numbered by their first activity; one more may be asked for.   *)

Runs == {acts[i].run : i \in DOMAIN acts}
Asking == Runs \union {Cardinality(Runs) + 1}

-----------------------------------------------------------------------------
(* The workload of the current window.                                     *)

Waits(i) == acts[i].outcome = "none"
IsRoot(i) == acts[i].parent = 0
Of(r) == {i \in DOMAIN acts : acts[i].run = r}
Answered(r) == \A i \in Of(r) : ~Waits(i)
Window == AllocationWindow(profile, now)
Issued == LET window == Window IN {i \in DOMAIN acts : InWindow(acts[i].at, window)}
Roots(rows) == {i \in rows : IsRoot(i)}
New(rows) == {i \in Roots(rows) : acts[i].intent = "acquire"}

\* report()["remaining"], as whether anything remains.
Remains(limit, rows, issued) ==
  Cardinality(rows) < limit /\ Cardinality(issued) < TotalLimit

TargetsOf(rows) == {acts[i].target : i \in rows}

\* One reviewed example a target: used in this run, issued in this window, or pending.
Excluded(r, issued) == TargetsOf(Of(r) \union issued \union {i \in DOMAIN acts : Waits(i)})

Decision(r, issued) ==
  Selector!Select(
    Selector!Frontier(Target \ Excluded(r, issued), states, profile.level), states, now,
    TargetsOf(DOMAIN acts), New(issued) = {}, ~Remains(NewLimit, New(issued), issued))

-----------------------------------------------------------------------------
(* The requests.                                                           *)

Spend == left > 0 /\ left' = left - 1

Tick == /\ now < MaxNow
        /\ now' = now + 1
        /\ UNCHANGED <<profile, acts, answers, states, left>>

\* update_profile, of the two fields that practice reads.
ChooseZone(z) == /\ Spend
                 /\ z # profile.zone
                 /\ profile' = RequestTimezone(profile, z, now)
                 /\ UNCHANGED <<now, acts, answers, states>>

ChooseLevel(n) == /\ Spend
                  /\ n # profile.level
                  /\ profile' = [profile EXCEPT !.level = n]
                  /\ UNCHANGED <<now, acts, answers, states>>

Root(r, t, kind, intent) ==
  [target |-> t, kind |-> kind, intent |-> intent, parent |-> 0, run |-> r, at |-> now,
   outcome |-> "none", answered |-> Len(answers)]

Issue(r, decision) ==
  /\ Spend
  /\ \E t \in decision.targets, kind \in {"exercise", "exposure"} :
       acts' = Append(acts, Root(r, t, kind, decision.intent))
  /\ UNCHANGED <<now, profile, answers, states>>

\* A pending activity of the run is returned as it is, and a refusal changes nothing.
NextActivity(r) ==
  LET issued == Issued
  IN /\ Answered(r)
     /\ Remains(RootLimit, Roots(issued), issued)
     /\ Decision(r, issued).code = "none"
     /\ Issue(r, Decision(r, issued))

Fresh == Memory!FromBaseline(Memory!NeutralBaseline)
Event(t, outcome) == [at |-> now, id |-> Len(answers) + 1, outcome |-> outcome]

\* submit, with the projection in its transaction.
Submit(i, outcome) ==
  /\ Spend
  /\ Waits(i) /\ (outcome = "exposure") = (acts[i].kind = "exposure")
  /\ LET t == acts[i].target IN
       /\ acts' = [acts EXCEPT ![i].outcome = outcome]
       /\ answers' = Append(answers, [target |-> t, outcome |-> outcome])
       /\ states' = [states EXCEPT ![t] =
            Memory!Project(IF @ = NoState THEN Fresh ELSE @, Event(t, outcome))]
  /\ UNCHANGED <<now, profile>>

Repair(i) ==
  /\ Spend
  /\ IsRoot(i) /\ acts[i].kind = "exercise" /\ acts[i].outcome \in Failed
  /\ \A c \in Of(acts[i].run) : ~Waits(c) /\ acts[c].parent # i
  /\ Remains(RepairLimit, Issued \ Roots(Issued), Issued)
  /\ acts' = Append(acts, [acts[i] EXCEPT !.parent = i, !.at = now, !.outcome = "none",
                                          !.answered = Len(answers)])
  /\ UNCHANGED <<now, profile, answers, states>>

Next == \/ Tick
        \/ \E z \in Zone : ChooseZone(z)
        \/ \E n \in 1..MaxLevel : ChooseLevel(n)
        \/ \E r \in Asking : NextActivity(r)
        \/ \E i \in DOMAIN acts : Repair(i)
        \/ \E i \in DOMAIN acts, outcome \in Verdict \union {"exposure"} : Submit(i, outcome)

Spec == Init /\ [][Next]_vars

-----------------------------------------------------------------------------
(* Properties.                                                             *)

\* learner_time.py and docs/product-state.md: allocation windows follow one another
\* without a gap or an overlap.  The clock is always inside the window; a request
\* for another zone, repeated or replaced, never shortens it, and it ends only
\* when its end has come, at daylight-saving changes too.
WindowsFollow ==
  [][LET window == Window
         next == Window'
     IN /\ InWindow(now', next)
        /\ \/ next.start = window.start /\ next.end >= window.end
           \/ next.start = window.end /\ now' >= window.end]_vars

ShortestDay == Day - Latest({0} \union {z.after - z.before : z \in Zone})

\* What the windows are for: zone changes never bring the limits back early.  A
\* period shorter than any day sees at most two windows' worth of activities.
NoEarlyReset ==
  \A i \in DOMAIN acts :
    LET near == {j \in DOMAIN acts : /\ acts[i].at <= acts[j].at
                                     /\ acts[j].at < acts[i].at + ShortestDay}
        roots == {j \in near : IsRoot(j)}
    IN /\ Cardinality(near) <= 2 * TotalLimit
       /\ Cardinality(roots) <= 2 * RootLimit
       /\ Cardinality({j \in roots : acts[j].intent = "acquire"}) <= 2 * NewLimit

Given(p, outcome, n) ==
  Cardinality({k \in 1..n : answers[k].target = p /\ answers[k].outcome = outcome})

\* Three of five smoothed answers were right at some moment before the n-th.
Mastered(p, n) ==
  \E k \in 0..n : /\ Given(p, "correct", k) >= 1
                  /\ 2 * Given(p, "correct", k) >= 1 + 3 * Given(p, "incorrect", k)

Unlocked(t, n) == \A p \in Target : <<p, t>> \in Hard => Mastered(p, n)

\* A target is issued only after the learner's own answers, in this order, had
\* earned each hard prerequisite; later mistakes do not lock it again.
UnlockedByAnswers ==
  \A i \in DOMAIN acts : Unlocked(acts[i].target, acts[i].answered)

\* A learner is sent away only when the window's limit is reached or each target
\* has its reason: too high, not unlocked by the answers given, used already, new
\* while the limit of new ones is reached, or unusable.
SentAwayForAReason ==
  \A r \in Asking :
    Answered(r) /\ Decision(r, Issued).targets = {} =>
      \A t \in Target \ Excluded(r, Issued) :
        \/ Level[t] > profile.level
        \/ ~Unlocked(t, Len(answers))
        \/ t \notin TargetsOf(DOMAIN acts) /\ ~Remains(NewLimit, New(Issued), Issued)
        \/ t \in Invalid
=============================================================================
