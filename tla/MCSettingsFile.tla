-------------------------- MODULE MCSettingsFile --------------------------
(* What the file may hold by hand: a usable schedule, none, one without a  *)
(* valid expression, and a text that does not parse.  The daemon reads the *)
(* file and nobody's cache, so an instance has the daemon or the cached    *)
(* readers, with the saves in both; the file starts usable.                *)
EXTENDS SettingsFile

MCHandContents == {Broken} \cup {[ok |-> TRUE, schedule |-> s, login |-> FALSE] : s \in {"unset", "invalid", "evening"}}

MCInit == /\ Init
          /\ Current.content.schedule = "evening"
          /\ \A t \in Threads : reader[t].pc = "absent" <=> watch.pc = "down"

MCSpec == MCInit /\ [][Next]_vars /\ WF_vars(WatchStep)
=============================================================================
