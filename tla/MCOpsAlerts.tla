----------------------------- MODULE MCOpsAlerts -----------------------------
(* The checks read their sources independently, so in an instance only one  *)
(* kind of source leaves its quiet value at a time: the accounts' scans,    *)
(* their records, or the system.  Two of the accounts share a directory.    *)
(* The daemon's refreshes run with the run and the pause flag: to them an   *)
(* alert is a key that comes and goes.  One kind of mishap strikes a        *)
(* behaviour.                                                               *)
EXTENDS OpsAlerts
CONSTANTS a1, a2, a3
MCShared == {{a1, a2}}

AccountsQuiet == status = [a \in Accounts |-> "ok"] /\ lastOk = [a \in Accounts |-> "fresh"]
RecordsQuiet == record = [a \in Accounts |-> "none"]
DiskQuiet == ~lowNow /\ stats = {}
SystemQuiet == DiskQuiet /\ run = "none" /\ ~paused
DaemonQuiet == \A j \in Jobs : job[j].pc = "absent"
OneMoves == \/ AccountsQuiet /\ RecordsQuiet
            \/ AccountsQuiet /\ SystemQuiet
            \/ RecordsQuiet /\ SystemQuiet
DaemonScene == /\ AccountsQuiet /\ RecordsQuiet /\ DiskQuiet /\ unreadable = {}
               /\ run # "running" /\ Cardinality(mishaps) <= 1

MCInit == Init /\ (IF DaemonQuiet THEN OneMoves ELSE DaemonScene)
MCNext == \/ DaemonQuiet /\ Facts /\ OneMoves'
          \/ /\ ~DaemonQuiet
             /\ RunMoves \/ TogglePause \/ Crash \/ LoseBook \/ \E j \in Jobs : JobStep(j)
             /\ run' # "running" /\ Cardinality(mishaps') <= 1
MCSpec == MCInit /\ [][MCNext]_vars /\ \A j \in Jobs : WF_vars(JobStep(j))
=============================================================================
