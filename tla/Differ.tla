------------------------------- MODULE Differ -------------------------------
(***************************************************************************)
(* Lists of registrations, as sets: how two of them are compared           *)
(* (src/differ.py), how the pages of a fetch become one (src/scraper.py)   *)
(* and how a partial fetch is laid over the previous snapshot              *)
(* (src/main.py).                                                          *)
(*                                                                         *)
(* A record says which registration it really describes (who); the code    *)
(* sees only the row id and the number the platform may have assigned.     *)
(* A registration in HasId keeps one row id for ever; its number, once it  *)
(* has one, is its own.  Both are written as the registration itself.      *)
(***************************************************************************)
CONSTANTS Reg,    \* registrations
          HasId,  \* those the platform gives a row id
          Status, \* values of dataRegAuditStatus
          None

ASSUME RegAssumption == HasId \subseteq Reg /\ None \notin Reg

\* Every record carries a row id or a number.
Record == {r \in [who : Reg, numbered : BOOLEAN, st : Status] :
             r.who \in HasId \/ r.numbered}

No(r) == IF r.numbered THEN r.who ELSE None
Id(r) == IF r.who \in HasId THEN r.who ELSE None
Who(R) == {r.who : r \in R}

-----------------------------------------------------------------------------
\* Mutant: a record is recognised by its number only.
CounterpartsByNo(c, P) == {p \in P : No(c) # None /\ No(p) = No(c)}

\* The records of P that the differ takes for the record c: those of its
\* number, and only if there is none, those of its row id.
Counterparts(c, P) ==
  LET byNo == {p \in P : No(c) # None /\ No(p) = No(c)}
      byId == {p \in P : Id(c) # None /\ Id(p) = Id(c)}
  IN  IF byNo # {} THEN byNo ELSE byId

DiffResult ==
  [added : SUBSET Record, changed : SUBSET Record, removed : SUBSET Record]
NoDiff == [added |-> {}, changed |-> {}, removed |-> {}]

\* Current records C against previous ones P; a first run has no diff.
Diff(C, P) ==
  IF P = {} THEN NoDiff
  ELSE [added   |-> {c \in C : Counterparts(c, P) = {}},
        changed |-> {c \in C : \E p \in Counterparts(c, P) : p.st # c.st},
        removed |-> {p \in P : \A c \in C : p \notin Counterparts(c, P)}]

HasChanges(d) == d # NoDiff

\* Mutant: a record seen before is dropped only if nothing in it has changed.
UnseenByValue(rows, F) == rows \ F

\* The records of a page that a fetch has not seen, by row id, else number.
Key(r) == IF Id(r) # None THEN Id(r) ELSE No(r)
Unseen(rows, F) == {r \in rows : \A f \in F : Key(f) # Key(r)}

\* Mutant: a partial fetch replaces the previous snapshot.
MergeForgets(P, F) == F

\* A partial fetch F over the previous snapshot P.
Merge(P, F) ==
  {p \in P : No(p) # None /\ \A f \in F : No(f) # No(p)} \cup F

=============================================================================
