---------------------------- MODULE MCLearnerPath ----------------------------
(* An instance of LearnerPath for TLC.  Target 2 is one level up and needs   *)
(* target 1; target 3 builds on 1; target 5 is first in rank and has no valid *)
(* candidate.  One zone skips midnight, from an hour before it to an hour     *)
(* after, one repeats it, and one is UTC.                                     *)
EXTENDS LearnerPath

Utc == [before |-> 0, at |-> 0, after |-> 0]
SkipsMidnight == [before |-> 0, at |-> 9, after |-> 2]
RepeatsMidnight == [before |-> 1, at |-> 5, after |-> 0]
Zones == {Utc, SkipsMidnight, RepeatsMidnight}

Targets == 1..5
Levels == <<1, 2, 1, 1, 1>>
Priorities == <<4, 3, 2, 1, 5>>
Needs == {<<1, 2>>}
Helps == {<<1, 3>>}
=============================================================================
