------------------------------ MODULE RunLock ------------------------------
(***************************************************************************)
(* What the run control of src/control.py promises its users, without the  *)
(* files it is made of: at most one run at a time, a run begins at most    *)
(* once, a stop reaches only the run it finds under way, is not forgotten  *)
(* while that run is still working, and a run ends as "cancelled" only if  *)
(* it was asked to stop.  RunControl implements this module.               *)
(***************************************************************************)
CONSTANTS Run,   \* the attempts to run (a round, a single scan, a script)
          None   \* "no run"

VARIABLES holder, \* the run under way, or None
          stage,  \* how far each run has come
          asked   \* the runs under way that have been asked to stop

vars == <<holder, stage, asked>>

Outcome == {"done", "cancelled", "error"}
Stage == {"new", "working", "over"} \cup Outcome

TypeOK ==
  /\ holder \in Run \cup {None}
  /\ stage \in [Run -> Stage]
  /\ asked \in SUBSET Run

Init ==
  /\ holder = None
  /\ stage = [r \in Run |-> "new"]
  /\ asked = {}

\* Only a free lock lets a run begin, and no earlier stop applies to it.
Begin(r) ==
  /\ holder = None
  /\ stage[r] = "new"
  /\ holder' = r
  /\ stage' = [stage EXCEPT ![r] = "working"]
  /\ asked' = {}

\* A stop is for the run that is under way.
Ask(r) ==
  /\ holder = r
  /\ asked' = {r}
  /\ UNCHANGED <<holder, stage>>

\* The work is over and its outcome is known; "cancelled" needs a stop.
Close(r, o) ==
  /\ holder = r
  /\ stage[r] = "working"
  /\ o = "cancelled" => r \in asked
  /\ stage' = [stage EXCEPT ![r] = o]
  /\ UNCHANGED <<holder, asked>>

\* A stop is forgotten only once the work is over.
Forget(r) ==
  /\ holder = r
  /\ stage[r] \in Outcome
  /\ asked' = {}
  /\ UNCHANGED <<holder, stage>>

\* The lock becomes free: the run released it, or its process died.
Free(r) ==
  /\ holder = r
  /\ holder' = None
  /\ stage' = [stage EXCEPT ![r] = "over"]
  /\ asked' = {}

Next ==
  \E r \in Run :
    \/ Begin(r)
    \/ Ask(r)
    \/ \E o \in Outcome : Close(r, o)
    \/ Forget(r)
    \/ Free(r)

Spec == Init /\ [][Next]_vars
=============================================================================
