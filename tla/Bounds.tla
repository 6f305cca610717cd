-------------------------------- MODULE Bounds --------------------------------
(***************************************************************************)
(* What the surroundings of the components may still do: the bounds that   *)
(* keep the behaviours of the cluster, the failures of calls and the       *)
(* deaths of processes finite.                                             *)
(***************************************************************************)
EXTENDS Naturals

CONSTANTS MaxEvents,  \* bound: changes the cluster makes around the components
          MaxMishaps  \* bound: calls that fail and deaths of a process, together

VARIABLES events,     \* what is left of MaxEvents
          mishaps     \* what is left of MaxMishaps

boundVars == <<events, mishaps>>

BoundsInit == events = MaxEvents /\ mishaps = MaxMishaps

Spend  == events > 0 /\ events' = events - 1 /\ UNCHANGED mishaps
Mishap == mishaps > 0 /\ mishaps' = mishaps - 1 /\ UNCHANGED events
=============================================================================
