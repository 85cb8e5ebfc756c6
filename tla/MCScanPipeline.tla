--------------------------- MODULE MCScanPipeline ---------------------------
(***************************************************************************)
(* ScanPipeline for TLC: the platform begins with two registrations, one   *)
(* of them not yet numbered, or with three, enough for a shrink to less    *)
(* than half.                                                              *)
(***************************************************************************)
EXTENDS ScanPipeline

CONSTANTS r1, r2, r3, reviewing, granted

Rec(w, n) == [who |-> w, numbered |-> n, st |-> reviewing]
Lists == {<<Rec(r1, FALSE), Rec(r3, TRUE)>>,
          <<Rec(r1, FALSE), Rec(r2, TRUE), Rec(r3, TRUE)>>}
=============================================================================
