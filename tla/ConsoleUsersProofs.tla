-------------------------- MODULE ConsoleUsersProofs --------------------------
(* For any number of users, groups, passwords, requests and changes: who gets *)
(* in does so as the user they are now, and what a request was checked for    *)
(* holds when it is used, unless its user was changed in between.             *)
EXTENDS ConsoleUsers, TLAPS

-----------------------------------------------------------------------------
(* Types.                                                                    *)

\* A request by what it is at
LEMMA CallTyped ==
  ASSUME NEW c \in Calls \cup {Idle}
  PROVE  /\ c.op \in Ops \cup {None}
         /\ c.op = None => c = Idle
         /\ c.op \in {"issue", "sign"} =>
               c \in Call({"issue", "sign"}, {None}, User, [pass : Password, role : Role] \cup {None}, {{}})
         /\ c.op = "own" => c \in Call({"own"}, {None}, User, [pass : Password], SUBSET User)
         /\ c.op = "edit" =>
               c \in Call({"edit"}, User \cup {Env}, User, [roles : SUBSET Role, groups : SUBSET Group], {{}})
         /\ c.op = "other" => c \in Call({"other"}, User \cup {Env}, User, {None}, {{}})
         /\ c.op \in {"create", "made"} =>
               c \in Call({"create", "made"}, {None}, User, [groups : SUBSET Group], {{}})
         /\ c.op = "undo" => c \in Call({"undo"}, {None}, {None}, [group : Group], {{}})
         /\ c.op = "remove" =>
               c \in Call({"remove"}, {None}, {None}, [group : Group, blind : BOOLEAN], SUBSET User)
<1>1. Idle.op = None /\ None \notin Ops
  BY NoneAssumption DEF Idle
<1>2. CASE c = Idle
  BY <1>1, <1>2 DEF Ops
<1>3. CASE c \in Calls
  BY <1>1, <1>3 DEF Calls, Call, Ops
<1> QED BY <1>2, <1>3

\* A change of user u leaves the other requests what they are
LEMMA NoticingTyped ==
  ASSUME NEW c \in Calls \cup {Idle}, NEW u \in User
  PROVE  /\ Noticing(c, u) \in Calls \cup {Idle}
         /\ Noticing(c, u).op = c.op /\ (c.op # None => Noticing(c, u).to = c.to /\ Noticing(c, u).by = c.by)
<1>1. CASE c.op = "remove"
  <2>1. Noticing(c, u) = [c EXCEPT !.touched = @ \cup {u}]
    BY <1>1 DEF Noticing
  <2>2. c \in Call({"remove"}, {None}, {None}, [group : Group, blind : BOOLEAN], SUBSET User)
    BY <1>1, CallTyped
  <2> QED BY <2>1, <2>2 DEF Call, Calls
<1>2. CASE c.op = "own"
  <2>1. Noticing(c, u) = c \/ Noticing(c, u) = [c EXCEPT !.touched = @ \cup {u}]
    BY <1>2 DEF Noticing
  <2>2. c \in Call({"own"}, {None}, User, [pass : Password], SUBSET User)
    BY <1>2, CallTyped
  <2> QED BY <2>1, <2>2 DEF Call, Calls
<1>3. CASE c.op \in {"issue", "sign"}
  <2>1. Noticing(c, u) = c \/ Noticing(c, u) = [c EXCEPT !.args = None]
    BY <1>3 DEF Noticing
  <2>2. c \in Call({"issue", "sign"}, {None}, User, [pass : Password, role : Role] \cup {None}, {{}})
    BY <1>3, CallTyped
  <2> QED BY <2>1, <2>2 DEF Call, Calls
<1>4. CASE c.op \notin {"remove", "own", "issue", "sign"}
  BY <1>4 DEF Noticing
<1> QED BY <1>1, <1>2, <1>3, <1>4

\* A change of user u by request t
LEMMA TouchingTyped ==
  ASSUME TypeOK, NEW t \in Request, NEW c \in Calls \cup {Idle}, NEW u \in User
  PROVE  /\ Touching(t, c, u) \in [Request -> Calls \cup {Idle}]
         /\ Touching(t, c, u)[t] = c
         /\ \A s \in Request \ {t} : Touching(t, c, u)[s] = Noticing(call[s], u)
BY NoticingTyped DEF Touching, TypeOK

\* A request that starts: who asked, and what for
LEMMA StartedTyped ==
  ASSUME NEW by \in User \cup {Env}, NEW u \in User
  PROVE  /\ \A r \in Records : As(r) \in [pass : Password, role : Role]
         /\ \A op \in {"issue", "sign"}, args \in [pass : Password, role : Role] :
               Started(op, None, u, args) \in Calls
         /\ \A p \in Password : Started("own", None, u, [pass |-> p]) \in Calls
         /\ \A roles \in SUBSET Role, gs \in SUBSET Group :
               Started("edit", by, u, [roles |-> roles, groups |-> gs]) \in Calls
         /\ Started("other", by, u, None) \in Calls
         /\ \A gs \in SUBSET Group : Started("create", None, u, [groups |-> gs]) \in Calls
         /\ \A gr \in Group : Started("undo", None, None, [group |-> gr]) \in Calls
BY DEF As, Records, Started, Calls, Call

\* What may become of a user's record
LEMMA ChangesTyped ==
  ASSUME NEW r \in Records, NEW k \in Key
  PROVE  /\ \A p \in Password, m \in BOOLEAN : Reset(r, p, m, k) \in Records
         /\ Disabled(r, k) \in Records /\ Enabled(r) \in Records /\ Revoked(r, k) \in Records
         /\ \A role \in Role, gs \in SUBSET Group : Edited(r, role, gs, k) \in Records
BY DEF Reset, Disabled, Enabled, Revoked, Edited, Records

LEMMA TypeStart == Init => TypeOK
<1> SUFFICES ASSUME Init PROVE TypeOK
  OBVIOUS
<1>1. 0 \in Key
  BY ChangesAssumption DEF Key
<1>2. file \in [User -> Records \cup {None}]
  <2>1. PICK p \in Password : file \in [User -> {None} \cup
          {[role |-> r, groups |-> IF r = "admin" THEN {} ELSE Group, pass |-> p,
            disabled |-> FALSE, key |-> 0, must |-> r = "member"] : r \in Role}]
    BY DEF Init
  <2>2. \A r \in Role : [role |-> r, groups |-> IF r = "admin" THEN {} ELSE Group, pass |-> p,
            disabled |-> FALSE, key |-> 0, must |-> r = "member"] \in Records
    BY <1>1 DEF Records
  <2> QED BY <2>1, <2>2
<1> QED BY <1>1, <1>2 DEF Init, TypeOK

\* What a write draws and leaves
LEMMA WriteTyped ==
  ASSUME TypeOK, NEW u \in User, NEW new \in Records \cup {None}, Write(u, new)
  PROVE  /\ file' \in [User -> Records \cup {None}] /\ file'[u] = new
         /\ changes' \in Key
BY ChangesAssumption DEF TypeOK, Write, Drawn, Key

\* An administrator's change keeps a record with its key, or draws the next
KeepsOrDraws(r, new) ==
  \/ new = None
  \/ new.key = Drawn
  \/ r # None /\ new.key = r.key /\ As(new) = As(r)

LEMMA ChangeWrites ==
  ASSUME TypeOK, NEW t \in Request, Change(t)
  PROVE  \E new \in Records \cup {None} :
            /\ call[t].to \in User /\ file[call[t].to] \in Records
            /\ Write(call[t].to, new)
            /\ KeepsOrDraws(file[call[t].to], new)
            /\ call[t].op = "edit" => new # None /\ new.role \in call[t].args.roles
                                      /\ new.disabled = file[call[t].to].disabled
<1> DEFINE c == call[t]
           r == file[c.to]
<1>1. c \in Calls \cup {Idle} /\ c.op \in {"edit", "other"}
  BY DEF Change, TypeOK
<1>2. c.to \in User
  BY <1>1, CallTyped DEF Call
<1>3. r \in Records /\ Drawn \in Key
  <2>1. \E new : Write(c.to, new)
    BY DEF Change
  <2> QED BY <1>2, <2>1, ChangesAssumption DEF Write, Drawn, Key, TypeOK
<1>4. CASE c.op = "edit"
  <2>1. c.args.roles \subseteq Role /\ c.args.groups \subseteq Group
    BY <1>1, <1>4, CallTyped DEF Call
  <2>2. PICK role \in c.args.roles, gs \in SUBSET c.args.groups : Write(c.to, Edited(r, role, gs, Drawn))
    BY <1>4 DEF Change
  <2> DEFINE new == Edited(r, role, gs, Drawn)
  <2>3. new \in Records
    BY <1>3, <2>1, <2>2, ChangesTyped
  <2>4. new.role = role /\ new.disabled = r.disabled /\ KeepsOrDraws(r, new)
    BY <1>3, NoneAssumption DEF Edited, KeepsOrDraws, As, Records
  <2>5. new # None
    BY <2>3, NoneAssumption
  <2> QED BY <1>2, <1>3, <2>2, <2>3, <2>4, <2>5
<1>5. CASE c.op = "other"
  <2>1. CASE \E p \in Password, m \in BOOLEAN : Write(c.to, Reset(r, p, m, Drawn))
    <3>1. PICK p \in Password, m \in BOOLEAN : Write(c.to, Reset(r, p, m, Drawn))
      BY <2>1
    <3>2. Reset(r, p, m, Drawn) \in Records /\ KeepsOrDraws(r, Reset(r, p, m, Drawn))
      BY <1>3, ChangesTyped DEF KeepsOrDraws, Reset, Records
    <3> QED BY <1>2, <1>3, <1>5, <3>1, <3>2
  <2>2. CASE Write(c.to, Disabled(r, Drawn))
    <3>1. Disabled(r, Drawn) \in Records /\ KeepsOrDraws(r, Disabled(r, Drawn))
      BY <1>3, ChangesTyped DEF KeepsOrDraws, Disabled, Records
    <3> QED BY <1>2, <1>3, <1>5, <2>2, <3>1
  <2>3. CASE Write(c.to, Enabled(r))
    <3>1. Enabled(r) \in Records /\ KeepsOrDraws(r, Enabled(r))
      BY <1>3, ChangesTyped, NoneAssumption DEF KeepsOrDraws, Enabled, As, Records
    <3> QED BY <1>2, <1>3, <1>5, <2>3, <3>1
  <2>4. CASE Write(c.to, Revoked(r, Drawn))
    <3>1. Revoked(r, Drawn) \in Records /\ KeepsOrDraws(r, Revoked(r, Drawn))
      BY <1>3, ChangesTyped DEF KeepsOrDraws, Revoked, Records
    <3> QED BY <1>2, <1>3, <1>5, <2>4, <3>1
  <2>5. CASE Write(c.to, None)
    BY <1>2, <1>3, <1>5, <2>5 DEF KeepsOrDraws
  <2> QED BY <1>5, <2>1, <2>2, <2>3, <2>4, <2>5 DEF Change
<1> QED BY <1>1, <1>4, <1>5

LEMMA TypeStep == TypeOK /\ [Next]_vars => TypeOK'
<1> SUFFICES ASSUME TypeOK, [Next]_vars PROVE TypeOK'
  OBVIOUS
<1> USE DEF TypeOK
<1>0. \A t \in Request : call[t] \in Calls \cup {Idle} /\ Idle \in Calls \cup {Idle}
  OBVIOUS
<1>1. ASSUME NEW t \in Request, NEW u \in User, Authenticate(t, u) PROVE TypeOK'
  <2>1. Rec(u) \in Records
    BY <1>1 DEF Authenticate, Rec
  <2>2. Started("issue", None, u, As(Rec(u))) \in Calls
    BY <2>1, StartedTyped
  <2> QED BY <1>1, <2>2 DEF Authenticate
<1>2. ASSUME NEW t \in Request, NEW u \in User, AskOwn(t, u) PROVE TypeOK'
  <2>1. Rec(u) \in Records
    BY <1>2 DEF AskOwn, CookieAccepted, Rec
  <2>2. Started("own", None, u, [pass |-> Rec(u).pass]) \in Calls
    BY <2>1, StartedTyped DEF Records
  <2> QED BY <1>2, <2>2 DEF AskOwn
<1>3. ASSUME NEW t \in Request, NEW kind \in {"cookie", "token"}, call[t].op \in {"issue", "sign"}
      PROVE  Signed(kind, t) \in Credentials /\ call[t].to \in User
  <2>1. call[t] \in Call({"issue", "sign"}, {None}, User, [pass : Password, role : Role] \cup {None}, {{}})
    BY <1>0, <1>3, CallTyped
  <2>2. /\ call[t].to \in User
        /\ call[t].args \in [pass : Password, role : Role] \cup {None}
    BY <2>1 DEF Call
  <2>3. Rec(call[t].to) \in Records \cup {None}
    BY <2>2 DEF Rec
  <2>4. 0 \in Key
    BY ChangesAssumption DEF Key
  <2> QED BY <2>2, <2>3, <2>4 DEF Signed, Credentials, Records
<1>4. ASSUME NEW t \in Request, IssueCookie(t) PROVE TypeOK'
  BY <1>3, <1>4 DEF IssueCookie
<1>5. ASSUME NEW t \in Request, IssueToken(t) PROVE TypeOK'
  BY <1>3, <1>5 DEF IssueToken
<1>6. ASSUME NEW t \in Request, SetOwn(t) PROVE TypeOK'
  <2> DEFINE u == call[t].to
  <2>1. u \in User
    BY <1>0, <1>6, CallTyped DEF SetOwn, Call
  <2>2. PICK p \in Password \ {call[t].args.pass} : Write(u, Reset(file[u], p, FALSE, Drawn))
    BY <1>6 DEF SetOwn
  <2>3. file[u] \in Records /\ Drawn \in Key
    BY <2>1, <2>2, ChangesAssumption DEF Write, Drawn, Key
  <2>4. Reset(file[u], p, FALSE, Drawn) \in Records
    BY <2>3, ChangesTyped
  <2>5. file' \in [User -> Records \cup {None}] /\ changes' \in Key /\ file'[u] \in Records
    BY <2>1, <2>2, <2>4, WriteTyped
  <2>6. Started("sign", None, u, As(file'[u])) \in Calls
    BY <2>1, <2>5, StartedTyped
  <2>7. call' \in [Request -> Calls \cup {Idle}]
    BY <1>6, <2>1, <2>6, TouchingTyped DEF SetOwn
  <2> QED BY <2>2, <2>5, <2>7 DEF Write
<1>7. ASSUME NEW t \in Request, NEW by \in User \cup {Env}, NEW u \in User, AskEdit(t, by, u) PROVE TypeOK'
  <2> DEFINE roles == IF by = u THEN {Rec(u).role} ELSE Role
             gs == groups \cup Rec(u).groups
  <2>1. Rec(u) \in Records
    BY <1>7 DEF AskEdit, Rec
  <2>2. roles \in SUBSET Role /\ gs \in SUBSET Group
    BY <2>1 DEF Records
  <2>3. Started("edit", by, u, [roles |-> roles, groups |-> gs]) \in Calls
    BY <2>2, StartedTyped
  <2> QED BY <1>7, <2>3 DEF AskEdit, Asks
<1>8. ASSUME NEW t \in Request, NEW by \in User \cup {Env}, NEW u \in User, AskOther(t, by, u) PROVE TypeOK'
  <2>1. Started("other", by, u, None) \in Calls
    BY StartedTyped
  <2> QED BY <1>8, <2>1 DEF AskOther, Asks
<1>9. ASSUME NEW t \in Request, NEW u \in User, AskCreate(t, u) PROVE TypeOK'
  <2>1. Started("create", None, u, [groups |-> groups]) \in Calls
    BY StartedTyped
  <2> QED BY <1>9, <2>1 DEF AskCreate, Asks
<1>10. ASSUME NEW t \in Request, NEW gr \in Group, AskDeleteGroup(t, gr) PROVE TypeOK'
  <2>1. Started("undo", None, None, [group |-> gr]) \in Calls
    BY DEF Started, Calls, Call
  <2> QED BY <1>10, <2>1 DEF AskDeleteGroup, Asks
<1>11. ASSUME NEW t \in Request, Change(t) PROVE TypeOK'
  <2>1. PICK new : call[t].to \in User /\ new \in Records \cup {None} /\ Write(call[t].to, new)
    BY <1>11, ChangeWrites
  <2>2. call' \in [Request -> Calls \cup {Idle}]
    BY <1>11, <2>1, TouchingTyped DEF Change
  <2> QED BY <2>1, <2>2, WriteTyped DEF Write
<1>12. ASSUME NEW t \in Request, Refuse(t) PROVE TypeOK'
  BY <1>12 DEF Refuse
<1>13. ASSUME NEW t \in Request, MakeOwnGroup(t) PROVE TypeOK'
  <2>1. call[t] \in Call({"create", "made"}, {None}, User, [groups : SUBSET Group], {{}})
    BY <1>0, <1>13, CallTyped DEF MakeOwnGroup
  <2> DEFINE own == OwnGroup[call[t].to]
  <2>2. own \in Group
    BY <2>1, OwnGroupAssumption DEF Call
  <2>3. call' = [call EXCEPT ![t] = [call[t] EXCEPT !.op = "made", !.args = [call[t].args EXCEPT !.groups = call[t].args.groups \cup {own}]]]
    BY <1>13 DEF MakeOwnGroup
  <2>4. [call[t] EXCEPT !.op = "made", !.args = [call[t].args EXCEPT !.groups = call[t].args.groups \cup {own}]] \in Calls
    BY <2>1, <2>2 DEF Call, Calls
  <2>5. changes' \in Key /\ groups' \subseteq Group
    BY <1>13, <2>2, ChangesAssumption DEF MakeOwnGroup, Key
  <2> QED BY <1>13, <2>3, <2>4, <2>5 DEF MakeOwnGroup
<1>14. ASSUME NEW t \in Request, CreateUser(t) PROVE TypeOK'
  <2>1. call[t] \in Call({"create", "made"}, {None}, User, [groups : SUBSET Group], {{}})
    BY <1>0, <1>14, CallTyped DEF CreateUser
  <2>2. call[t].to \in User /\ call[t].args.groups \subseteq Group
    BY <2>1 DEF Call
  <2>3. changes' \in Key
    BY <1>14, ChangesAssumption DEF CreateUser, Key
  <2>4. \A n \in NewUsers(call[t], changes') : n \in Records
    BY <2>2, <2>3 DEF NewUsers, Records
  <2>5. file' \in [User -> Records \cup {None}]
    BY <1>14, <2>2, <2>4 DEF CreateUser
  <2>6. call' \in [Request -> Calls \cup {Idle}]
    BY <1>14, <2>2, TouchingTyped DEF CreateUser
  <2> QED BY <1>14, <2>3, <2>5, <2>6 DEF CreateUser
<1>15. ASSUME NEW t \in Request, CreateFails(t) PROVE TypeOK'
  <2>1. call[t].to \in User
    BY <1>0, <1>15, CallTyped DEF CreateFails, Call
  <2>2. Started("undo", None, None, [group |-> OwnGroup[call[t].to]]) \in Calls
    BY <2>1, OwnGroupAssumption, StartedTyped
  <2> QED BY <1>15, <2>2 DEF CreateFails
<1>16. ASSUME NEW t \in Request, CountMembers(t) PROVE TypeOK'
  <2>1. call[t] \in Call({"undo"}, {None}, {None}, [group : Group], {{}})
    BY <1>0, <1>16, CallTyped DEF CountMembers
  <2>2. call' = [call EXCEPT ![t] = [call[t] EXCEPT !.op = "remove",
                                        !.args = [group |-> call[t].args.group, blind |-> broken]]]
    BY <1>16 DEF CountMembers
  <2>3. [call[t] EXCEPT !.op = "remove", !.args = [group |-> call[t].args.group, blind |-> broken]] \in Calls
    BY <2>1 DEF Call, Calls
  <2> QED BY <1>16, <2>2, <2>3 DEF CountMembers
<1>17. ASSUME NEW t \in Request, RemoveGroup(t) PROVE TypeOK'
  BY <1>17, ChangesAssumption DEF RemoveGroup, Key
<1>18. CASE HandEdit
  BY <1>18 DEF HandEdit
<1>19. CASE UNCHANGED vars
  BY <1>19 DEF vars
<1> QED BY <1>1, <1>2, <1>4, <1>5, <1>6, <1>7, <1>8, <1>9, <1>10, <1>11, <1>12, <1>13, <1>14, <1>15, <1>16,
      <1>17, <1>18, <1>19 DEF Next, Handle, Administer

-----------------------------------------------------------------------------
(* What a step may do to the file, to the jars and to the requests.          *)

\* Request t changes user u and the others notice
Writes(t, u) ==
  /\ u \in User /\ changes < MaxChanges /\ changes' = Drawn
  /\ \A v \in User \ {u} : file'[v] = file[v]
  /\ KeepsOrDraws(file[u], file'[u])
  /\ jar' = jar
  /\ \/ call'[t] = Idle
     \/ file'[u] # None /\ call'[t] = Started("sign", None, u, As(file'[u]))
  /\ \A s \in Request \ {t} : call'[s] = Noticing(call[s], u)

\* Request t goes on, and the users stay as they are
Proceeds(t) ==
  /\ file' = file /\ changes' >= changes
  /\ \A s \in Request \ {t} : call'[s] = call[s]

\* The three changes of the file
LEMMA WriteShape ==
  ASSUME TypeOK, NEW t \in Request, Change(t) \/ SetOwn(t) \/ CreateUser(t)
  PROVE  \E u \in User : Writes(t, u)
<1> USE DEF TypeOK
<1>1. ASSUME Change(t) PROVE Writes(t, call[t].to) /\ call[t].to \in User
  <2>1. PICK new \in Records \cup {None} :
           /\ call[t].to \in User /\ file[call[t].to] \in Records
           /\ Write(call[t].to, new)
           /\ KeepsOrDraws(file[call[t].to], new)
    BY <1>1, ChangeWrites
  <2>2. /\ file'[call[t].to] = new
        /\ \A v \in User \ {call[t].to} : file'[v] = file[v]
        /\ changes < MaxChanges /\ changes' = Drawn /\ jar' = jar
    BY <2>1 DEF Write
  <2>3. /\ call'[t] = Idle
        /\ \A s \in Request \ {t} : call'[s] = Noticing(call[s], call[t].to)
    <3>1. call' = Touching(t, Idle, call[t].to)
      BY <1>1 DEF Change
    <3> QED BY <3>1 DEF Touching
  <2> QED BY <2>1, <2>2, <2>3 DEF Writes
<1>2. ASSUME SetOwn(t) PROVE Writes(t, call[t].to) /\ call[t].to \in User
  <2> DEFINE u == call[t].to
  <2>1. u \in User
    BY <1>2, CallTyped DEF SetOwn, Call
  <2>2. PICK p \in Password \ {call[t].args.pass} : Write(u, Reset(file[u], p, FALSE, Drawn))
    BY <1>2 DEF SetOwn
  <2>3. file[u] \in Records /\ Drawn \in Key
    BY <2>1, <2>2, ChangesAssumption DEF Write, Drawn, Key
  <2>4. Reset(file[u], p, FALSE, Drawn) \in Records
    BY <2>3, ChangesTyped
  <2>5. /\ file'[u] = Reset(file[u], p, FALSE, Drawn) /\ file'[u] # None
        /\ \A v \in User \ {u} : file'[v] = file[v]
        /\ changes < MaxChanges /\ changes' = Drawn /\ jar' = jar
    BY <2>1, <2>2, <2>4, NoneAssumption DEF Write
  <2>6. KeepsOrDraws(file[u], file'[u])
    BY <2>3, <2>5 DEF KeepsOrDraws, Reset, Records
  <2>7. Started("sign", None, u, As(file'[u])) \in Calls
    BY <2>1, <2>4, <2>5, StartedTyped
  <2>8. /\ call'[t] = Started("sign", None, u, As(file'[u]))
        /\ \A s \in Request \ {t} : call'[s] = Noticing(call[s], u)
    BY <1>2, <2>1, <2>7, TouchingTyped DEF SetOwn
  <2> QED BY <2>1, <2>5, <2>6, <2>8 DEF Writes
<1>3. ASSUME CreateUser(t) PROVE Writes(t, call[t].to) /\ call[t].to \in User
  <2> DEFINE u == call[t].to
  <2>1. u \in User
    BY <1>3, CallTyped DEF CreateUser, Call
  <2>2. PICK new \in NewUsers(call[t], changes') : file' = [file EXCEPT ![u] = new]
    BY <1>3 DEF CreateUser
  <2>3. /\ file'[u] = new /\ new.key = Drawn
        /\ \A v \in User \ {u} : file'[v] = file[v]
        /\ changes < MaxChanges /\ changes' = Drawn /\ jar' = jar
    BY <1>3, <2>1, <2>2 DEF CreateUser, NewUsers, Drawn
  <2>4. /\ call'[t] = Idle
        /\ \A s \in Request \ {t} : call'[s] = Noticing(call[s], u)
    <3>1. call' = Touching(t, Idle, u)
      BY <1>3 DEF CreateUser
    <3> QED BY <3>1 DEF Touching
  <2> QED BY <2>1, <2>3, <2>4 DEF Writes, KeepsOrDraws
<1> QED BY <1>1, <1>2, <1>3

LEMMA HandleShape ==
  ASSUME TypeOK, NEW t \in Request, Handle(t)
  PROVE  Proceeds(t) \/ \E u \in User : Writes(t, u)
<1> USE DEF TypeOK
<1>0. changes \in Int /\ changes + 1 >= changes
  BY DEF Key
<1>1. ASSUME NEW u \in User, Authenticate(t, u) \/ AskOwn(t, u) PROVE Proceeds(t)
  BY <1>0, <1>1 DEF Authenticate, AskOwn, Proceeds
<1>2. ASSUME NEW by \in User \cup {Env}, NEW u \in User, AskEdit(t, by, u) \/ AskOther(t, by, u)
      PROVE  Proceeds(t)
  BY <1>0, <1>2 DEF AskEdit, AskOther, Asks, Proceeds
<1>3. ASSUME NEW u \in User, AskCreate(t, u) PROVE Proceeds(t)
  BY <1>0, <1>3 DEF AskCreate, Asks, Proceeds
<1>4. ASSUME NEW gr \in Group, AskDeleteGroup(t, gr) PROVE Proceeds(t)
  BY <1>0, <1>4 DEF AskDeleteGroup, Asks, Proceeds
<1>5. ASSUME IssueCookie(t) \/ IssueToken(t) \/ Refuse(t) \/ CreateFails(t) \/ CountMembers(t)
      PROVE  Proceeds(t)
  BY <1>0, <1>5 DEF IssueCookie, IssueToken, Refuse, CreateFails, CountMembers, Proceeds
<1>6. ASSUME MakeOwnGroup(t) \/ RemoveGroup(t) PROVE Proceeds(t)
  BY <1>0, <1>6 DEF MakeOwnGroup, RemoveGroup, Proceeds
<1> QED BY <1>1, <1>2, <1>3, <1>4, <1>5, <1>6, WriteShape DEF Handle, Administer

LEMMA StepShape ==
  ASSUME TypeOK, [Next]_vars
  PROVE  \/ \E t \in Request, u \in User : Writes(t, u)
         \/ \E t \in Request : Proceeds(t)
         \/ UNCHANGED <<file, changes, jar, call>>
BY HandleShape DEF Next, HandEdit, vars

-----------------------------------------------------------------------------
(* Each part of the invariant is kept.                                       *)

\* A credential is either kept, or signed with what its user is at that moment
LEMMA JarStep ==
  ASSUME IInv, [Next]_vars, NEW u \in User
  PROVE  \/ jar'[u] = jar[u]
         \/ /\ UNCHANGED <<file, changes>> /\ jar'[u].key <= changes
            /\ file[u] # None => jar'[u].as \in {None, As(file[u])}
<1> USE DEF IInv
<1>1. ASSUME NEW t \in Request, NEW kind \in {"cookie", "token"}, call[t].op \in {"issue", "sign"}
      PROVE  LET v == call[t].to IN
             /\ Signed(kind, t).key <= changes
             /\ file[v] # None => Signed(kind, t).as \in {None, As(file[v])}
  <2>1. call[t].to \in User
    BY <1>1, CallTyped DEF TypeOK, Call
  <2>2. 0 <= changes
    BY DEF TypeOK, Key
  <2>3. Signed(kind, t).as = call[t].args
    BY DEF Signed
  <2>4. Signed(kind, t).key = 0 \/ (file[call[t].to] # None /\ Signed(kind, t).key = file[call[t].to].key)
    BY DEF Signed, Rec
  <2> QED BY <1>1, <2>1, <2>2, <2>3, <2>4 DEF CallsAreCurrent, Current, KeysAreDrawn
<1>2. ASSUME NEW t \in Request, IssueCookie(t) PROVE jar'[u] = jar[u] \/ (call[t].to = u /\ jar'[u] = Signed("cookie", t))
  BY <1>2 DEF IssueCookie, TypeOK
<1>3. ASSUME NEW t \in Request, IssueToken(t) PROVE jar'[u] = jar[u] \/ (call[t].to = u /\ jar'[u] = Signed("token", t))
  BY <1>3 DEF IssueToken, TypeOK
<1>4. ASSUME NEW t \in Request, IssueCookie(t) \/ IssueToken(t)
      PROVE  call[t].op \in {"issue", "sign"} /\ UNCHANGED <<file, changes>>
  BY <1>4 DEF IssueCookie, IssueToken
<1>5. jar' = jar \/ \E t \in Request : IssueCookie(t) \/ IssueToken(t)
  BY DEF Next, Handle, Administer, Authenticate, AskOwn, AskEdit, AskOther, AskCreate, AskDeleteGroup, Asks, SetOwn, Change,
     Write, Refuse, MakeOwnGroup, CreateUser, CreateFails, CountMembers, RemoveGroup, HandEdit, vars
<1> QED BY <1>1, <1>2, <1>3, <1>4, <1>5

LEMMA KeysAreDrawnStep == IInv /\ [Next]_vars => KeysAreDrawn'
<1> SUFFICES ASSUME IInv, [Next]_vars, NEW u \in User
             PROVE  /\ file'[u] # None => file'[u].key <= changes'
                    /\ jar'[u] # None => jar'[u].key <= changes'
  BY DEF KeysAreDrawn
<1> USE DEF IInv
<1>1. changes \in Int /\ changes' \in Int /\ changes' >= changes
  BY TypeStep, StepShape, ChangesAssumption DEF TypeOK, Key, Writes, Proceeds, Drawn
<1>2. /\ file[u] # None => file[u].key <= changes /\ file[u].key \in Int
      /\ jar[u] # None => jar[u].key <= changes /\ jar[u].key \in Int
  BY DEF KeysAreDrawn, TypeOK, Records, Credentials, Key
<1>3. jar'[u] # None => jar'[u].key \in Int
  BY TypeStep DEF TypeOK, Credentials, Key
<1>4. jar'[u] # None => jar'[u].key <= changes'
  BY <1>1, <1>2, <1>3, JarStep
<1>5. file'[u] # None => file'[u].key <= changes'
  <2>1. CASE file'[u] = file[u]
    BY <1>1, <1>2, <2>1
  <2>2. ASSUME NEW t \in Request, Writes(t, u) PROVE file'[u] # None => file'[u].key <= changes'
    BY <1>1, <1>2, <2>2 DEF Writes, KeepsOrDraws
  <2> QED BY <2>1, <2>2, StepShape DEF Writes, Proceeds
<1> QED BY <1>4, <1>5

LEMMA KeyTellsTheRestStep == IInv /\ [Next]_vars => KeyTellsTheRest'
<1> SUFFICES ASSUME IInv, [Next]_vars, NEW u \in User, jar'[u] # None, ~Ended(u)'
             PROVE  jar'[u].as \in {None, As(file'[u])}
  BY DEF KeyTellsTheRest
<1> USE DEF IInv
<1>1. file'[u] # None /\ jar'[u].key = file'[u].key
  BY DEF Ended
<1>2. CASE jar'[u] # jar[u]
  BY <1>1, <1>2, JarStep
<1>3. CASE jar'[u] = jar[u] /\ file'[u] = file[u]
  BY <1>1, <1>3 DEF KeyTellsTheRest, Ended
<1>4. ASSUME NEW t \in Request, Writes(t, u) PROVE jar'[u].as \in {None, As(file'[u])}
  <2>1. jar'[u] = jar[u]
    BY <1>4 DEF Writes
  <2>2. file'[u].key # Drawn
    <3>1. jar[u].key <= changes /\ jar[u].key \in Int /\ changes \in Int
      BY <2>1 DEF KeysAreDrawn, TypeOK, Credentials, Key
    <3> QED BY <1>1, <2>1, <3>1 DEF Drawn
  <2>3. file[u] # None /\ file'[u].key = file[u].key /\ As(file'[u]) = As(file[u])
    BY <1>1, <1>4, <2>2 DEF Writes, KeepsOrDraws
  <2> QED BY <1>1, <2>1, <2>3 DEF KeyTellsTheRest, Ended
<1> QED BY <1>2, <1>3, <1>4, StepShape DEF Writes, Proceeds

\* The other requests notice a change, or it is not about them
LEMMA OthersStayCurrent ==
  ASSUME IInv, NEW t \in Request, NEW u \in User, Writes(t, u), NEW s \in Request \ {t}
  PROVE  Current(call[s])'
<1> USE DEF IInv
<1> DEFINE c == call[s]
<1>1. call'[s] = Noticing(c, u) /\ c \in Calls \cup {Idle} /\ Current(c)
  BY DEF Writes, TypeOK, CallsAreCurrent
<1>2. \A v \in User \ {u} : file'[v] = file[v]
  BY DEF Writes
<1>3. CASE c.op \in {"issue", "sign"}
  <2>1. c \in Call({"issue", "sign"}, {None}, User, [pass : Password, role : Role] \cup {None}, {{}})
    BY <1>1, <1>3, CallTyped
  <2>2. CASE c.to = u
    <3>1. call'[s].op \in {"issue", "sign"} /\ call'[s].args = None
      BY <1>1, <1>3, <2>1, <2>2 DEF Noticing, Call
    <3> QED BY <3>1 DEF Current
  <2>3. CASE c.to # u
    <3>1. call'[s] = c /\ c.to \in User
      BY <1>1, <1>3, <2>1, <2>3 DEF Noticing, Call
    <3> QED BY <1>1, <1>2, <1>3, <2>3, <3>1 DEF Current
  <2> QED BY <2>2, <2>3
<1>4. CASE c.op = "own"
  <2>1. c \in Call({"own"}, {None}, User, [pass : Password], SUBSET User)
    BY <1>1, <1>4, CallTyped
  <2>2. CASE c.to = u
    <3>1. call'[s].op = "own" /\ call'[s].touched # {}
      BY <1>1, <1>4, <2>1, <2>2 DEF Noticing, Call
    <3> QED BY <3>1 DEF Current
  <2>3. CASE c.to # u
    <3>1. call'[s] = c /\ c.to \in User
      BY <1>1, <1>4, <2>1, <2>3 DEF Noticing, Call
    <3> QED BY <1>1, <1>2, <1>4, <2>3, <3>1 DEF Current
  <2> QED BY <2>2, <2>3
<1>5. CASE c.op = "remove"
  <2>1. c \in Call({"remove"}, {None}, {None}, [group : Group, blind : BOOLEAN], SUBSET User)
    BY <1>1, <1>5, CallTyped
  <2>2. call'[s].op = "remove" /\ call'[s].args = c.args /\ call'[s].touched = c.touched \cup {u}
    BY <1>1, <1>5, <2>1 DEF Noticing, Call
  <2> QED BY <1>1, <1>2, <1>5, <2>2 DEF Current
<1>6. CASE c.op \notin {"issue", "sign", "own", "remove"}
  <2>1. call'[s] = c
    BY <1>1, <1>6 DEF Noticing
  <2> QED BY <1>1, <1>6, <2>1 DEF Current
<1> QED BY <1>3, <1>4, <1>5, <1>6

\* A request that is refused, or over, is about nothing
LEMMA IdleIsNothing == Idle.op \notin {"issue", "sign", "own", "edit", "other", "remove"}
BY NoneAssumption DEF Idle, Ops

LEMMA CallsAreCurrentStep == IInv /\ [Next]_vars => CallsAreCurrent'
<1> SUFFICES ASSUME IInv, [Next]_vars, NEW s \in Request PROVE Current(call[s])'
  BY DEF CallsAreCurrent
<1> USE DEF IInv
<1>0. call[s] \in Calls \cup {Idle} /\ Current(call[s])
  BY DEF TypeOK, CallsAreCurrent
<1>1. ASSUME NEW t \in Request, NEW u \in User, Writes(t, u) PROVE Current(call[s])'
  <2>1. CASE s # t
    BY <1>1, <2>1, OthersStayCurrent
  <2>2. CASE s = t /\ call'[t] = Idle
    BY <2>2, IdleIsNothing DEF Current
  <2>3. CASE s = t /\ file'[u] # None /\ call'[t] = Started("sign", None, u, As(file'[u]))
    BY <2>3 DEF Started, Current
  <2> QED BY <1>1, <2>1, <2>2, <2>3 DEF Writes
<1>2. CASE file' = file /\ call'[s] = call[s]
  BY <1>0, <1>2 DEF Current
<1>3. ASSUME call'[s].op \notin {"issue", "sign", "own", "edit", "other", "remove"} PROVE Current(call[s])'
  BY <1>3 DEF Current
<1>4. ASSUME NEW u \in User, Authenticate(s, u) PROVE Current(call[s])'
  <2>1. call'[s] = Started("issue", None, u, As(file[u])) /\ file[u] # None /\ file' = file
    BY <1>4 DEF Authenticate, Rec, TypeOK
  <2> QED BY <2>1 DEF Started, Current
<1>5. ASSUME NEW u \in User, AskOwn(s, u) PROVE Current(call[s])'
  <2>1. call'[s] = Started("own", None, u, [pass |-> file[u].pass]) /\ file[u] # None /\ file' = file
    BY <1>5 DEF AskOwn, CookieAccepted, Rec, TypeOK
  <2> QED BY <2>1 DEF Started, Current
<1>6. ASSUME NEW by \in User \cup {Env}, NEW u \in User, AskEdit(s, by, u) PROVE Current(call[s])'
  <2>1. call'[s] = Started("edit", by, u, [roles |-> IF by = u THEN {Rec(u).role} ELSE Role,
                                            groups |-> groups \cup Rec(u).groups])
    BY <1>6 DEF AskEdit, Asks, TypeOK
  <2>2. by = u => Rec(u).role = "admin"
    BY <1>6, NamesAssumption DEF AskEdit, Asks, IsAdmin
  <2> QED BY <2>1, <2>2 DEF Started, Current
<1>7. ASSUME NEW by \in User \cup {Env}, NEW u \in User, AskOther(s, by, u) PROVE Current(call[s])'
  <2>1. call'[s] = Started("other", by, u, None) /\ by # u
    BY <1>7 DEF AskOther, Asks, TypeOK
  <2> QED BY <2>1 DEF Started, Current
<1>8. ASSUME NEW u \in User, AskCreate(s, u) PROVE Current(call[s])'
  <2>1. call'[s] = Started("create", None, u, [groups |-> groups])
    BY <1>8 DEF AskCreate, Asks, TypeOK
  <2> QED BY <1>3, <2>1 DEF Started
<1>9. ASSUME NEW gr \in Group, AskDeleteGroup(s, gr) PROVE Current(call[s])'
  <2>1. call'[s] = Started("undo", None, None, [group |-> gr])
    BY <1>9 DEF AskDeleteGroup, Asks, TypeOK
  <2> QED BY <1>3, <2>1 DEF Started
<1>10. CASE CountMembers(s)
  <2>1. call[s] \in Call({"undo"}, {None}, {None}, [group : Group], {{}})
    BY <1>0, <1>10, CallTyped DEF CountMembers
  <2>2. call'[s] = [call[s] EXCEPT !.op = "remove", !.args = [group |-> call[s].args.group, blind |-> broken]]
    BY <1>10 DEF CountMembers, TypeOK
  <2>3. /\ call'[s].op = "remove" /\ file' = file
        /\ call'[s].args = [group |-> call[s].args.group, blind |-> broken]
    BY <1>10, <2>1, <2>2 DEF CountMembers, Call
  <2>4. ~broken => \A u \in User : ~ (file[u] # None /\ call[s].args.group \in file[u].groups)
    BY <1>10 DEF CountMembers, Members, Rec
  <2> QED BY <2>3, <2>4 DEF Current
<1>11. CASE IssueCookie(s) \/ IssueToken(s) \/ Refuse(s) \/ RemoveGroup(s)
  <2>1. call'[s] = Idle
    BY <1>11 DEF IssueCookie, IssueToken, Refuse, RemoveGroup, TypeOK
  <2> QED BY <1>3, <2>1, IdleIsNothing
<1>12. CASE CreateFails(s)
  <2>1. call'[s] = Started("undo", None, None, [group |-> OwnGroup[call[s].to]])
    BY <1>12 DEF CreateFails, TypeOK
  <2> QED BY <1>3, <2>1 DEF Started
<1>13. CASE MakeOwnGroup(s)
  <2>1. call[s] \in Call({"create", "made"}, {None}, User, [groups : SUBSET Group], {{}})
    BY <1>0, <1>13, CallTyped DEF MakeOwnGroup
  <2>2. call'[s].op = "made"
    BY <1>13, <2>1 DEF MakeOwnGroup, TypeOK, Call
  <2> QED BY <1>3, <2>2
<1>14. ASSUME NEW t \in Request \ {s}, Handle(t) PROVE Current(call[s])'
  <2>1. CASE Proceeds(t)
    BY <1>2, <1>14, <2>1 DEF Proceeds
  <2>2. CASE \E u \in User : Writes(t, u)
    BY <1>1, <1>14, <2>2
  <2> QED BY <1>14, <2>1, <2>2, HandleShape
<1>15. CASE Change(s) \/ SetOwn(s) \/ CreateUser(s)
  BY <1>1, <1>15, WriteShape
<1>16. CASE HandEdit \/ UNCHANGED vars
  BY <1>2, <1>16 DEF HandEdit, vars
<1>17. CASE Handle(s)
  BY <1>4, <1>5, <1>6, <1>7, <1>8, <1>9, <1>10, <1>11, <1>12, <1>13, <1>15, <1>17 DEF Handle, Administer
<1> QED BY <1>14, <1>16, <1>17 DEF Next

LEMMA Start == Init => IInv
<1> SUFFICES ASSUME Init PROVE IInv
  OBVIOUS
<1>1. TypeOK
  BY TypeStart
<1>2. KeysAreDrawn
  <2>1. \A u \in User : file[u] # None => file[u].key = 0
    BY DEF Init
  <2> QED BY <2>1 DEF Init, KeysAreDrawn
<1>3. KeyTellsTheRest
  BY DEF Init, KeyTellsTheRest
<1>4. CallsAreCurrent
  BY IdleIsNothing DEF Init, CallsAreCurrent, Current
<1> QED BY <1>1, <1>2, <1>3, <1>4 DEF IInv

LEMMA Step == IInv /\ [Next]_vars => IInv'
BY TypeStep, KeysAreDrawnStep, KeyTellsTheRestStep, CallsAreCurrentStep DEF IInv

-----------------------------------------------------------------------------
(* The theorems.                                                             *)

\* The inductive invariant: no key lies in the future, a credential with its
\* user's key is about the user as they are, and what a request was checked
\* for still holds unless its user was changed meanwhile.
THEOREM ConsoleInvariant == Spec => []IInv
BY Start, Step, PTL DEF Spec

\* Whoever gets in with a cookie or a token does so with the password and in
\* the role they have now.
THEOREM AcceptedSessionsAreCurrent == Spec => []SessionsAreCurrent
<1>1. IInv => SessionsAreCurrent
  BY DEF IInv, KeyTellsTheRest, SessionsAreCurrent, CookieAccepted, TokenAccepted, Rec, Ended
<1> QED BY <1>1, ConsoleInvariant, PTL

\* A session that was ended is never accepted again.
THEOREM EndedSessionsStayEnded == Spec => EndedStaysEnded
<1>1. ASSUME IInv, [Next]_vars
      PROVE  [\A u \in User : jar[u] # None /\ jar'[u] = jar[u] /\ Ended(u) => Ended(u)']_vars
  <2> SUFFICES ASSUME NEW u \in User, jar[u] # None, jar'[u] = jar[u], Ended(u) PROVE Ended(u)'
    OBVIOUS
  <2>1. CASE file'[u] = file[u]
    BY <2>1 DEF Ended
  <2>2. ASSUME NEW t \in Request, Writes(t, u) PROVE Ended(u)'
    <3>1. jar[u].key <= changes /\ jar[u].key \in Int /\ changes \in Int
      BY <1>1 DEF IInv, KeysAreDrawn, TypeOK, Credentials, Key
    <3> QED BY <2>2, <3>1 DEF Writes, KeepsOrDraws, Drawn, Ended
  <2> QED BY <1>1, <2>1, <2>2, StepShape DEF IInv, Writes, Proceeds
<1> QED BY <1>1, ConsoleInvariant, PTL DEF Spec, EndedStaysEnded

\* Only who is no administrator of the file any more takes its last one away.
THEOREM TheLastAdminStays == Spec => LastAdminStays
<1>1. ASSUME IInv, [Next]_vars
      PROVE  [Admins # {} /\ Admins' = {} =>
                \E t \in Request : /\ call[t].op \in {"edit", "other"} /\ call'[t] = Idle
                                   /\ call[t].by \notin Admins]_vars
  <2> SUFFICES ASSUME Admins # {}, Admins' = {}
               PROVE  \E t \in Request : /\ call[t].op \in {"edit", "other"} /\ call'[t] = Idle
                                         /\ call[t].by \notin Admins
    OBVIOUS
  <2> USE <1>1 DEF IInv
  <2>1. PICK u \in Admins : TRUE
    OBVIOUS
  <2>2. u \in User /\ file[u] # None /\ file[u].role = "admin" /\ ~ file[u].disabled
    BY DEF Admins
  <2>3. \A v \in Admins : file'[v] # file[v]
    BY DEF Admins
  <2>4. PICK t \in Request : Change(t) \/ SetOwn(t) \/ CreateUser(t)
    <3>1. file' # file
      BY <2>3
    <3> QED BY <1>1, <3>1 DEF Next, Handle, Administer, Authenticate, AskOwn, AskEdit, AskOther, AskCreate,
          AskDeleteGroup, Asks, IssueCookie, IssueToken, Refuse, MakeOwnGroup, CreateFails, CountMembers,
          RemoveGroup, HandEdit, vars
  <2>5. CASE Change(t)
    <3>1. PICK new \in Records \cup {None} :
             /\ call[t].to \in User /\ Write(call[t].to, new)
             /\ call[t].op = "edit" => new # None /\ new.role \in call[t].args.roles
                                       /\ new.disabled = file[call[t].to].disabled
      BY <2>5, ChangeWrites
    <3>2. /\ file'[call[t].to] = new
          /\ \A v \in User \ {call[t].to} : file'[v] = file[v]
      BY <3>1 DEF Write, TypeOK
    <3>3. Admins = {call[t].to}
      BY <2>1, <2>3, <3>2 DEF Admins
    <3>4. call[t].op \in {"edit", "other"} /\ call'[t] = Idle
      BY <2>5 DEF Change, Touching
    <3>5. call[t].by # call[t].to
      <4>1. CASE call[t].op = "other"
        BY <4>1 DEF CallsAreCurrent, Current
      <4>2. CASE call[t].op = "edit" /\ call[t].by = call[t].to
        <5>1. call[t].args.roles = {"admin"}
          BY <4>2 DEF CallsAreCurrent, Current
        <5>2. new # None /\ new.role = "admin" /\ ~ new.disabled
          BY <3>1, <3>3, <4>2, <5>1 DEF Admins
        <5>3. call[t].to \in Admins'
          BY <3>1, <3>2, <5>2 DEF Admins
        <5> QED BY <5>3
      <4> QED BY <3>4, <4>1, <4>2
    <3> QED BY <3>3, <3>4, <3>5
  <2>6. CASE SetOwn(t)
    <3> DEFINE v == call[t].to
    <3>1. call[t] \in Calls \cup {Idle} /\ v \in User
      BY <2>6, CallTyped DEF TypeOK, SetOwn, Call
    <3>2. PICK p \in Password \ {call[t].args.pass} : Write(v, Reset(file[v], p, FALSE, Drawn))
      BY <2>6 DEF SetOwn
    <3>3. file[v] \in Records /\ file[v] # None
      BY <3>1, <3>2 DEF Write, TypeOK
    <3>4. /\ file'[v] = Reset(file[v], p, FALSE, Drawn)
          /\ \A w \in User \ {v} : file'[w] = file[w]
      BY <3>1, <3>2 DEF Write, TypeOK
    <3>5. Reset(file[v], p, FALSE, Drawn).role = file[v].role
          /\ Reset(file[v], p, FALSE, Drawn).disabled = file[v].disabled
      BY <3>3 DEF Reset, Records
    <3>6. Reset(file[v], p, FALSE, Drawn) # None
      <4>1. Drawn \in Key
        BY <3>2, ChangesAssumption DEF Write, Drawn, Key, TypeOK
      <4> QED BY <3>3, <4>1, ChangesTyped, NoneAssumption
    <3>7. v = u
      BY <2>1, <2>2, <2>3, <3>4
    <3>8. u \in Admins'
      BY <2>2, <3>4, <3>5, <3>6, <3>7 DEF Admins
    <3> QED BY <3>8
  <2>7. CASE CreateUser(t)
    <3>1. file[call[t].to] = None
      BY <2>7 DEF CreateUser
    <3>2. file'[u] = file[u]
      BY <2>2, <2>7, <3>1 DEF CreateUser, TypeOK
    <3> QED BY <2>3, <3>2
  <2> QED BY <2>4, <2>5, <2>6, <2>7
<1> QED BY <1>1, ConsoleInvariant, PTL DEF Spec, LastAdminStays

\* Whoever set a new password for themselves knew the one it replaces.
THEOREM NewPasswordNeedsTheOld == Spec => OwnChangeKnewTheOld
<1>1. ASSUME IInv, [Next]_vars
      PROVE  [\A t \in Request : call[t].op = "own" /\ call'[t].op = "sign" =>
                call[t].touched # {} \/ file[call[t].to].pass = call[t].args.pass]_vars
  BY <1>1 DEF IInv, CallsAreCurrent, Current
<1> QED BY <1>1, ConsoleInvariant, PTL DEF Spec, OwnChangeKnewTheOld

\* A group that is deleted holds nobody but who joined after the count.
THEOREM DeletedGroupsAreEmpty == Spec => DeletedGroupWasEmpty
<1>1. ASSUME IInv, [Next]_vars
      PROVE  [\A g \in groups \ groups' : \E t \in Request :
                 /\ call[t].op = "remove" /\ call[t].args.group = g
                 /\ call[t].args.blind \/ \A u \in User :
                       file[u] # None /\ g \in file[u].groups => u \in call[t].touched]_vars
  <2> SUFFICES ASSUME NEW g \in groups \ groups'
               PROVE  \E t \in Request :
                         /\ call[t].op = "remove" /\ call[t].args.group = g
                         /\ call[t].args.blind \/ \A u \in User :
                               file[u] # None /\ g \in file[u].groups => u \in call[t].touched
    OBVIOUS
  <2>1. PICK t \in Request : RemoveGroup(t)
    BY <1>1 DEF Next, Handle, Administer, Authenticate, AskOwn, AskEdit, AskOther, AskCreate, AskDeleteGroup, Asks,
       IssueCookie, IssueToken, SetOwn, Change, Write, Refuse, MakeOwnGroup, CreateUser, CreateFails,
       CountMembers, HandEdit, vars
  <2>2. call[t].op = "remove" /\ call[t].args.group = g
    BY <2>1 DEF RemoveGroup
  <2>3. Current(call[t])
    BY <1>1 DEF IInv, CallsAreCurrent
  <2> QED BY <2>2, <2>3 DEF Current
<1> QED BY <1>1, ConsoleInvariant, PTL DEF Spec, DeletedGroupWasEmpty
=============================================================================
