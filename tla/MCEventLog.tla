------------------------------ MODULE MCEventLog ------------------------------
(* Two scans of the daemon and an abandoned one of the console.  One viewer  *)
(* sees the account of two of them, the other is an administrator.  Pages    *)
(* are read while the watcher has not yet looked at the log: the two share   *)
(* nothing but the logs.  All scans take their time first, in every order    *)
(* for a page and in one order for the watcher, which does not look at it.   *)
(* A page has a limit of one or none; the line of one scan is written at     *)
(* once, and that of another, when torn, is torn inside a character.         *)
EXTENDS EventLog
CONSTANTS s1, s2, s3, d, w, v, u, a, b
MCHome == s1 :> d @@ s2 :> d @@ s3 :> w
MCOwner == s1 :> a @@ s2 :> b @@ s3 :> a
MCAllowed == v :> {a} @@ u :> {a, b}

Asleep == seen = [cursor |-> 0, size |-> 0, pc |-> "sleep"]
Timed == \A s \in Scans : pc[s] # "out"
InTurn == <<stamp[s1], stamp[s2], stamp[s3]>> = <<1, 2, 3>>
PageOfInterest == page = NoPage \/ (page.for = {a} /\ <<page.cutoff, page.limit>> \in {<<1, 1>>, <<1, 3>>, <<2, 3>>, <<3, 3>>})
MCNext == \/ \E s \in Scans : TakeTime(s)
          \/ Timed /\ LogStep /\ pc'[s2] # "torn"
          \/ InTurn /\ page = NoPage /\ (Send(u) \/ (queue[u] = <<>> /\ (Tick \/ Send(v))))
          \/ Timed /\ Asleep /\ PageStep /\ PageOfInterest'
MCSpec == /\ Init /\ [][MCNext]_vars /\ WF_vars(Tick) /\ \A x \in Viewers : WF_vars(Send(x))
          /\ \A s \in Scans : WF_vars(WriteRest(s) \/ WriteFails(s))
=============================================================================
