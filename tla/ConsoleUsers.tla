---------------------------- MODULE ConsoleUsers -----------------------------
(* The console's users: config/users.yaml and the groups of settings.yaml    *)
(* (src/web/services/users.py, groups.py), the credentials signed with a     *)
(* user's session key (src/web/auth.py), and the requests that change them   *)
(* (src/web/routes/users.py, login.py, api.py).  Each request runs in a      *)
(* thread of its own; only the read-modify-write of a file is under a lock,  *)
(* so whatever was checked before may have changed by then.  What a request  *)
(* was not checked for is chosen when it is used.  Left out: names, the      *)
(* operation log, refused attempts and their counters (login_guard), and the *)
(* expiry of credentials, which only takes them away; operator and viewer    *)
(* are one role, as they differ only in what they may do to an account.      *)
EXTENDS Integers, FiniteSets

CONSTANTS
    User,         \* names a console user may have
    Env,          \* the admin of .env, who is in no file
    Group,        \* keys of groups
    OwnGroup,     \* personal_key: the key of a user's own group; names may share one
    Password,
    Request,      \* requests in flight
    MaxChanges,   \* bound on the changes of the two files
    None

Key  == 0 .. MaxChanges      \* 0 is the empty key: imported users, and nobody
Role == {"admin", "member"}
Records == [role : Role, groups : SUBSET Group, pass : Password,
            disabled : BOOLEAN, key : Key, must : BOOLEAN]
Ops == {"issue", "sign", "own", "edit", "other", "create", "made", "undo", "remove"}

ASSUME NamesAssumption == Env \notin User /\ None \notin User \cup {Env}
ASSUME NoneAssumption == None \notin Ops /\ None \notin Records
ASSUME OwnGroupAssumption == OwnGroup \in [User -> Group]
ASSUME ChangesAssumption == MaxChanges \in Nat

VARIABLES
    file,     \* users.yaml: name -> record, or None
    broken,   \* it cannot be parsed: someone is editing it by hand
    groups,   \* settings.yaml -> groups
    changes,  \* changes so far: a session key is the number of its change, and never repeats
    jar,      \* the cookie or token a user's browser or phone has, or None
    call      \* the requests

vars == <<file, broken, groups, changes, jar, call>>

\* What a credential is signed with, and the password and role it was asked for
\* with; None if its user was changed while it was made
Credentials == [kind : {"cookie", "token"}, key : Key, as : [pass : Password, role : Role] \cup {None}]
As(r) == [pass |-> r.pass, role |-> r.role]

Idle == [op |-> None]
\* by: who asked, and touched: users changed since, where a property asks for
\* it; a login forgets what it was asked for instead
Started(op, by, to, args) == [op |-> op, by |-> by, to |-> to, args |-> args, touched |-> {}]
Noticing(c, u) ==
    IF c.op = "remove" \/ (c.op = "own" /\ c.to = u) THEN [c EXCEPT !.touched = @ \cup {u}]
    ELSE IF c.op \in {"issue", "sign"} /\ c.to = u THEN [c EXCEPT !.args = None]
    ELSE c
\* Request t goes on as c after changing user u
Touching(t, c, u) == [s \in Request |-> IF s = t THEN c ELSE Noticing(call[s], u)]

\* Users made before, and an import of WEB_USERS at start-up
Init ==
    /\ \E p \in Password : file \in [User -> {None} \cup
          {[role |-> r, groups |-> IF r = "admin" THEN {} ELSE Group, pass |-> p,
            disabled |-> FALSE, key |-> 0, must |-> r = "member"] : r \in Role}]
    /\ broken = FALSE
    /\ groups = Group
    /\ changes = 0
    /\ jar = [u \in User |-> None]
    /\ call = [t \in Request |-> Idle]

-----------------------------------------------------------------------------
(* Reading.                                                                  *)

\* users.get: a file that cannot be read has no users
Rec(u) == IF broken THEN None ELSE file[u]

\* user_from_cookie
CookieAccepted(u) ==
    /\ jar[u] # None /\ jar[u].kind = "cookie"
    /\ Rec(u) # None /\ ~ Rec(u).disabled /\ jar[u].key = Rec(u).key

\* user_from_api_token: as the cookie, but not with an initial password
TokenAccepted(u) ==
    /\ jar[u] # None /\ jar[u].kind = "token"
    /\ Rec(u) # None /\ ~ Rec(u).disabled /\ ~ Rec(u).must /\ jar[u].key = Rec(u).key

\* The middleware's prefixes and require_admin
IsAdmin(by) == IF by = Env THEN TRUE ELSE CookieAccepted(by) /\ Rec(by).role = "admin"

\* Someone breaks the file by hand, and repairs it
HandEdit ==
    /\ broken' = ~ broken
    /\ UNCHANGED <<file, groups, changes, jar, call>>

-----------------------------------------------------------------------------
(* Logging in: POST /login for a cookie, POST /api/login for a token.        *)

\* auth.authenticate, in a thread; wrong attempts change nothing here
Authenticate(t, u) ==
    /\ call[t] = Idle
    /\ Rec(u) # None /\ ~ Rec(u).disabled
    /\ call' = [call EXCEPT ![t] = Started("issue", None, u, As(Rec(u)))]
    /\ UNCHANGED <<file, broken, groups, changes, jar>>

\* _session_key reads the file again: whoever is gone signs with the empty key
Signed(kind, t) == LET u == call[t].to IN
    [kind |-> kind, key |-> IF Rec(u) = None THEN 0 ELSE Rec(u).key,
     as |-> call[t].args]

\* After a login, and after a new password of one's own
IssueCookie(t) ==
    /\ call[t].op \in {"issue", "sign"}
    /\ jar' = [jar EXCEPT ![call[t].to] = Signed("cookie", t)]
    /\ call' = [call EXCEPT ![t] = Idle]
    /\ UNCHANGED <<file, broken, groups, changes>>

\* Nobody gets a token with an initial password, nor without being in the file
IssueToken(t) ==
    /\ call[t].op = "issue"
    /\ LET r == Rec(call[t].to) IN
       jar' = IF r # None /\ ~ r.must THEN [jar EXCEPT ![call[t].to] = Signed("token", t)] ELSE jar
    /\ call' = [call EXCEPT ![t] = Idle]
    /\ UNCHANGED <<file, broken, groups, changes>>

-----------------------------------------------------------------------------
(* An administrator changes a user.  First the checks ...                    *)

Asks(t, by, op, to, args) ==
    /\ call[t] = Idle /\ IsAdmin(by)
    /\ call' = [call EXCEPT ![t] = Started(op, IF op \in {"edit", "other"} THEN by ELSE None, to, args)]
    /\ UNCHANGED <<file, broken, groups, changes, jar>>

\* _check_groups; nobody changes their own role
AskEdit(t, by, to) ==
    /\ Rec(to) # None
    /\ Asks(t, by, "edit", to,
            [roles |-> IF by = to THEN {Rec(to).role} ELSE Role, groups |-> groups \cup Rec(to).groups])

\* (a bug the checks must find: administrators may do it to themselves)
AskOtherOnSelf(t, by, to) ==
    /\ Rec(to) # None
    /\ Asks(t, by, "other", to, None)

\* reset_password and _simple_change
AskOther(t, by, to) ==
    /\ Rec(to) # None /\ by # to
    /\ Asks(t, by, "other", to, None)

\* ... then the change, on the file as it is by now.

Edited(r, role, gs, k) == [r EXCEPT !.role = role, !.groups = gs, !.key = IF role # r.role THEN k ELSE r.key]
\* (a bug the checks must find: sessions outlive a new password)
ResetKeepsKey(r, p, m, k) == [r EXCEPT !.pass = p, !.must = m]
Reset(r, p, m, k) == [r EXCEPT !.pass = p, !.must = m, !.key = k]
Disabled(r, k) == [r EXCEPT !.disabled = TRUE, !.key = k]
Enabled(r) == [r EXCEPT !.disabled = FALSE]
Revoked(r, k) == [r EXCEPT !.key = k]

\* A strict read-modify-write under _LOCK; each writer draws the next key
Drawn == changes + 1
Write(u, new) ==
    /\ ~ broken /\ file[u] # None
    /\ changes < MaxChanges /\ changes' = Drawn
    /\ file' = [file EXCEPT ![u] = new]
    /\ UNCHANGED <<broken, groups, jar>>

Change(t) ==
    LET c == call[t]
        r == file[c.to]
    IN  /\ \/ /\ c.op = "edit"
              /\ \E role \in c.args.roles, gs \in SUBSET c.args.groups :
                    (role # "admin" => gs # {}) /\ Write(c.to, Edited(r, role, gs, Drawn))
           \/ /\ c.op = "other"
              /\ \/ \E p \in Password, m \in BOOLEAN : Write(c.to, Reset(r, p, m, Drawn))
                 \/ Write(c.to, Disabled(r, Drawn)) \/ Write(c.to, Enabled(r))
                 \/ Write(c.to, Revoked(r, Drawn)) \/ Write(c.to, None)
        /\ call' = Touching(t, Idle, c.to)

\* The form is refused, the file cannot be read, or the user is gone by now
Refuse(t) ==
    /\ call[t].op \in {"edit", "other", "create", "own", "undo", "remove"}
    /\ call' = [call EXCEPT ![t] = Idle]
    /\ UNCHANGED <<file, broken, groups, changes, jar>>

-----------------------------------------------------------------------------
(* A new user, with a group of their own if asked for.                       *)

AskCreate(t, u) == \E by \in User \cup {Env} : Asks(t, by, "create", u, [groups |-> groups])

\* group_svc.create, before the user
MakeOwnGroup(t) ==
    /\ call[t].op = "create"
    /\ LET own == OwnGroup[call[t].to] IN
       /\ own \notin groups
       /\ changes < MaxChanges /\ changes' = changes + 1
       /\ groups' = groups \cup {own}
       /\ call' = [call EXCEPT ![t].op = "made", ![t].args.groups = @ \cup {own}]
    /\ UNCHANGED <<file, broken, jar>>

\* Only members get a group of their own, and none is without a group
NewUsers(c, k) ==
    {r \in [role : Role, groups : SUBSET c.args.groups, pass : Password,
            disabled : {FALSE}, key : {k}, must : {TRUE}] :
        /\ r.role = "admin" => c.op = "create"
        /\ r.role = "member" => r.groups # {}
        /\ c.op = "made" => OwnGroup[c.to] \in r.groups}

\* (a bug the checks must find: a new user gets the empty key of an imported one)
CreateUserWithoutKey(t) ==
    /\ call[t].op \in {"create", "made"} /\ ~ broken
    /\ file[call[t].to] = None
    /\ \E new \in NewUsers(call[t], 0) : file' = [file EXCEPT ![call[t].to] = new]
    /\ changes < MaxChanges /\ changes' = changes + 1
    /\ call' = Touching(t, Idle, call[t].to)
    /\ UNCHANGED <<broken, groups, jar>>

CreateUser(t) ==
    /\ call[t].op \in {"create", "made"} /\ ~ broken
    /\ file[call[t].to] = None
    /\ changes < MaxChanges /\ changes' = changes + 1
    /\ \E new \in NewUsers(call[t], changes') : file' = [file EXCEPT ![call[t].to] = new]
    /\ call' = Touching(t, Idle, call[t].to)
    /\ UNCHANGED <<broken, groups, jar>>

\* Refused after the group was made: the group goes again
CreateFails(t) ==
    /\ call[t].op = "made"
    /\ broken \/ file[call[t].to] # None \/ ~ (call[t].args.groups \subseteq groups)
    /\ call' = [call EXCEPT ![t] = Started("undo", None, None, [group |-> OwnGroup[call[t].to]])]
    /\ UNCHANGED <<file, broken, groups, changes, jar>>

-----------------------------------------------------------------------------
(* Groups: a group that holds someone is not deleted.                        *)

AskDeleteGroup(t, g) ==
    /\ g \in groups
    /\ \E by \in User \cup {Env} : Asks(t, by, "undo", None, [group |-> g])

Members(g) == {u \in User : Rec(u) # None /\ g \in Rec(u).groups}

\* (a bug the checks must find: nobody counts the members)
CountNobody(t) ==
    /\ call[t].op = "undo"
    /\ call' = [call EXCEPT ![t].op = "remove", ![t].args = [group |-> @.group, blind |-> broken]]
    /\ UNCHANGED <<file, broken, groups, changes, jar>>

\* usage, read without the lock; companies in the group refuse it, too
CountMembers(t) ==
    /\ call[t].op = "undo"
    /\ Members(call[t].args.group) = {}
    /\ call' = [call EXCEPT ![t].op = "remove", ![t].args = [group |-> @.group, blind |-> broken]]
    /\ UNCHANGED <<file, broken, groups, changes, jar>>

RemoveGroup(t) ==
    /\ call[t].op = "remove" /\ call[t].args.group \in groups
    /\ changes < MaxChanges /\ changes' = changes + 1
    /\ groups' = groups \ {call[t].args.group}
    /\ call' = [call EXCEPT ![t] = Idle]
    /\ UNCHANGED <<file, broken, jar>>

-----------------------------------------------------------------------------
(* One's own password: POST /me/password.                                    *)

\* (a bug the checks must find: any current password will do)
AskOwnUnverified(t, u) ==
    /\ call[t] = Idle /\ CookieAccepted(u)
    /\ \E p \in Password : call' = [call EXCEPT ![t] = Started("own", None, u, [pass |-> p])]
    /\ UNCHANGED <<file, broken, groups, changes, jar>>

\* The current password is verified, in a thread
AskOwn(t, u) ==
    /\ call[t] = Idle /\ CookieAccepted(u)
    /\ call' = [call EXCEPT ![t] = Started("own", None, u, [pass |-> Rec(u).pass])]
    /\ UNCHANGED <<file, broken, groups, changes, jar>>

\* The new key ends this session too: it is signed back in
SetOwn(t) ==
    /\ call[t].op = "own"
    /\ LET u == call[t].to IN
       /\ \E p \in Password \ {call[t].args.pass} : Write(u, Reset(file[u], p, FALSE, Drawn))
       /\ call' = Touching(t, Started("sign", None, u, As(file'[u])), u)

-----------------------------------------------------------------------------

Administer(t) ==
    \/ \E by \in User \cup {Env}, to \in User :
          AskEdit(t, by, to) \/ AskOther(t, by, to)
    \/ Change(t) \/ Refuse(t) \/ MakeOwnGroup(t) \/ CreateUser(t) \/ CreateFails(t)
    \/ \E u \in User : AskCreate(t, u)
    \/ \E g \in Group : AskDeleteGroup(t, g)
    \/ CountMembers(t) \/ RemoveGroup(t)

Handle(t) ==
    \/ \E u \in User : Authenticate(t, u) \/ AskOwn(t, u)
    \/ IssueCookie(t) \/ IssueToken(t) \/ SetOwn(t)
    \/ Administer(t)

Next == (\E t \in Request : Handle(t)) \/ HandEdit

Spec == Init /\ [][Next]_vars

-----------------------------------------------------------------------------
(* Properties                                                                *)

\* A request, by what it is at
Call(ops, by, to, args, touched) == [op : ops, by : by, to : to, args : args, touched : touched]
Calls ==
    Call({"issue", "sign"}, {None}, User, [pass : Password, role : Role] \cup {None}, {{}})
    \cup Call({"own"}, {None}, User, [pass : Password], SUBSET User)
    \cup Call({"edit"}, User \cup {Env}, User, [roles : SUBSET Role, groups : SUBSET Group], {{}})
    \cup Call({"other"}, User \cup {Env}, User, {None}, {{}})
    \cup Call({"create", "made"}, {None}, User, [groups : SUBSET Group], {{}})
    \cup Call({"undo"}, {None}, {None}, [group : Group], {{}})
    \cup Call({"remove"}, {None}, {None}, [group : Group, blind : BOOLEAN], SUBSET User)

TypeOK ==
    /\ file \in [User -> Records \cup {None}]
    /\ broken \in BOOLEAN
    /\ groups \subseteq Group
    /\ changes \in Key
    /\ jar \in [User -> Credentials \cup {None}]
    /\ call \in [Request -> Calls \cup {Idle}]

\* Whoever gets in with a cookie or a token holds one that was asked for with
\* the password and in the role the user has now (auth.py:19-22, users.py:282-286),
\* but for the one that was being made at the very moment of the change.
SessionsAreCurrent ==
    \A u \in User : CookieAccepted(u) \/ TokenAccepted(u) =>
        jar[u].as \in {None, As(file[u])}

\* A session that was ended stays so: no later change, not even a new user of
\* the same name, makes its signature good again.
Ended(u) == file[u] = None \/ jar[u].key # file[u].key
EndedStaysEnded ==
    [][\A u \in User : jar[u] # None /\ jar'[u] = jar[u] /\ Ended(u) => Ended(u)']_vars

\* Administrators cannot take the last administrator away (routes/users.py:8-11);
\* only the .env admin can, or one who was taken away while the change ran.
Admins == {u \in User : file[u] # None /\ file[u].role = "admin" /\ ~ file[u].disabled}
LastAdminStays ==
    [][Admins # {} /\ Admins' = {} =>
         \E t \in Request : /\ call[t].op \in {"edit", "other"} /\ call'[t] = Idle
                            /\ call[t].by \notin Admins]_vars

\* Whoever sets a new password for themselves knew the one it replaces
\* (routes/users.py:410-412), unless it was reset while the change ran.
OwnChangeKnewTheOld ==
    [][\A t \in Request : call[t].op = "own" /\ call'[t].op = "sign" =>
          call[t].touched # {} \/ file[call[t].to].pass = call[t].args.pass]_vars

\* A deleted group was empty (groups.py:89-92): whoever is in it joined after
\* the members were counted, or could not be read then.
DeletedGroupWasEmpty ==
    [][\A g \in groups \ groups' : \E t \in Request :
          /\ call[t].op = "remove" /\ call[t].args.group = g
          /\ call[t].args.blind \/ \A u \in User :
                file[u] # None /\ g \in file[u].groups => u \in call[t].touched]_vars

-----------------------------------------------------------------------------
(* The inductive invariant.                                                  *)

\* No key lies in the future
KeysAreDrawn ==
    \A u \in User : /\ file[u] # None => file[u].key <= changes
                    /\ jar[u] # None => jar[u].key <= changes

\* A credential with the user's key is about the user as they are
KeyTellsTheRest ==
    \A u \in User : jar[u] # None /\ ~ Ended(u) => jar[u].as \in {None, As(file[u])}

\* What a request was checked for still holds, unless it was touched
Current(c) ==
    /\ c.op \in {"issue", "sign"} /\ c.args # None =>
          file[c.to] # None /\ c.args = As(file[c.to])
    /\ c.op = "own" /\ c.touched = {} =>
          file[c.to] # None /\ c.args.pass = file[c.to].pass
    /\ c.op = "edit" /\ c.by = c.to => c.args.roles = {"admin"}
    /\ c.op = "other" => c.by # c.to
    /\ c.op = "remove" /\ ~ c.args.blind =>
          \A u \in User : file[u] # None /\ c.args.group \in file[u].groups => u \in c.touched

CallsAreCurrent == \A t \in Request : Current(call[t])

IInv == TypeOK /\ KeysAreDrawn /\ KeyTellsTheRest /\ CallsAreCurrent
=============================================================================
