--------------------------- MODULE VersionTimeline ---------------------------
(***************************************************************************)
(* What the publication services promise about the versions of one         *)
(* curriculum (backend/app/services/curriculum_service.py): each version   *)
(* is published at most once, the numbers grow, the dates do not go back,  *)
(* and a publication is the end of the version before it, so that from the *)
(* first one on there is one active version at any time.                   *)
(***************************************************************************)
EXTENDS Naturals

CONSTANTS Number,   \* version numbers, natural numbers like dates
          Date,
          Open      \* the end of a version that is active, which is no date

VARIABLE periods    \* set of [number, from, to], one for each version published

Period == [number : Number, from : Date, to : Date \union {Open}]

Init == \/ periods = {}
        \/ \E p \in Period : p.to = Open /\ periods = {p}

Closed(at) == {IF p.to = Open THEN [p EXCEPT !.to = at] ELSE p : p \in periods}

Publish(number, at) ==
  /\ \A p \in periods : p.number < number /\ p.from <= at
  /\ periods' = Closed(at) \union {[number |-> number, from |-> at, to |-> Open]}

Next == \E number \in Number : \E at \in Date : Publish(number, at)

Spec == Init /\ [][Next]_periods
=============================================================================
