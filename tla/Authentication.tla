--------------------------- MODULE Authentication ---------------------------
(***************************************************************************)
(* The authentication service: the accounts, which the user database keeps *)
(* on disk, and the tokens that logins issue.  All handlers run on one     *)
(* thread and wait for the database without giving it up, so that each of  *)
(* them is one step.  A write that fails may have its effect in memory;    *)
(* what was not flushed may be lost in a crash, in the order of the        *)
(* writes.  A restart draws a new secret and makes the account of the      *)
(* administrator if there is none.                                         *)
(***************************************************************************)
EXTENDS Naturals, Sequences, FiniteSets

CONSTANTS
  Ids, Admin,       \* user ids, and the id "admin"
  Attributes,       \* domains of data owners
  Passwords, Default, \* passwords, and the one the administrator starts with
  LifeTime,         \* 24 hours
  MaxTime, MaxWrites, MaxRestarts, MaxTokens,  \* bounds
  Faulty            \* whether writes may fail

ASSUME AccountsAssumption == Admin \in Ids /\ LifeTime \in Nat

VARIABLES
  users,    \* the user database in memory: id -> [role, password] or NoUser
  disk,     \* its states since the last flush, oldest first
  secret,   \* jwt_secret, the number of the start that drew it
  tokens,   \* the tokens that were issued
  now,
  writes,   \* number of writes, for the bound
  grants,   \* ghost: the roles that were given, with who gave them
  held,     \* ghost: <<id, role>> -> the last time at which the account had it
  acked     \* ghost: id -> the record that was acknowledged last, NoUser if unknown

authVars == <<users, disk, secret, tokens, now, writes, grants, held, acked>>

\* UserRole; the attribute of a role without one is "".
Role(r, a) == [role |-> r, attribute |-> a]
PlatformAdmin == Role("PlatformAdmin", "")
FunctionOwner == Role("FunctionOwner", "")
DataOwnerManager(a) == Role("DataOwnerManager", a)
DataOwner(a) == Role("DataOwner", a)
Invalid == Role("Invalid", "")
Roles == {PlatformAdmin, FunctionOwner} \cup {DataOwnerManager(a) : a \in Attributes}
            \cup {DataOwner(a) : a \in Attributes}

\* The text of a role, as the list of its parts, and its parser.
to_string(r) == IF r.role \in {"DataOwner", "DataOwnerManager"}
                THEN <<r.role, "-", r.attribute>> ELSE <<r.role>>
from_str(t) ==
    CASE t = <<"PlatformAdmin">> -> PlatformAdmin
      [] t = <<"FunctionOwner">> -> FunctionOwner
      [] Len(t) = 3 -> Role(t[1], t[3])
      [] OTHER -> Invalid

NoUser == [role |-> Invalid, password |-> ""]
Exists(u) == users[u] # NoUser
UserInfo(password, role) == [role |-> role, password |-> password]

Token(u) == [sub |-> u, role |-> to_string(users[u].role),
             exp |-> now + LifeTime, secret |-> secret]

\* Expiry is not looked at.
validate_token_Forever(u, t) == t.secret = secret /\ t.sub = u

\* UserInfo::validate_token: secret, subject and expiry.
validate_token(u, t) == t.secret = secret /\ t.sub = u /\ now =< t.exp

\* validate_credential_in_request, and user_authenticate of the internal
\* endpoint: the account exists and the token is one of its valid ones.
Authenticated(u, t) == Exists(u) /\ validate_token(u, t)
RoleOf(t) == from_str(t.role)

-----------------------------------------------------------------------------
\* The account database db is in force at this time.
Stamp(db, time) == [x \in Ids \X Roles |->
                      IF db[x[1]] # NoUser /\ db[x[1]].role = x[2] THEN time ELSE held[x]]

\* A write of the database thread: Create, Update or Delete.  flushed says
\* whether the new state is on disk.
Write(u, info, flushed) ==
    /\ writes < MaxWrites
    /\ writes' = writes + 1
    /\ users' = [users EXCEPT ![u] = info]
    /\ disk' = IF flushed THEN <<users'>> ELSE Append(disk, users')
    /\ held' = Stamp(users', now)

\* Create and Update answer without a flush.
Save_Unflushed(u, info) ==
    \/ Write(u, info, FALSE) /\ acked' = [acked EXCEPT ![u] = info]
    \/ Faulty /\ Write(u, info, FALSE) /\ acked' = [acked EXCEPT ![u] = NoUser]

\* DbRequest::Create and DbRequest::Update: a put and a flush; if either fails
\* the caller gets an error.
Save(u, info) ==
    \/ Write(u, info, TRUE) /\ acked' = [acked EXCEPT ![u] = info]
    \/ Faulty /\ Write(u, info, FALSE) /\ acked' = [acked EXCEPT ![u] = NoUser]

Grant(by, u, role) == grants' = grants \cup {[by |-> by, id |-> u, role |-> role]}

\* authorize_user_register and authorize_user_update.
authorize_user_register(role, request) ==
    CASE role.role = "PlatformAdmin" -> TRUE
      [] role.role = "DataOwnerManager" -> request = DataOwner(role.attribute)
      [] role.role = "FunctionOwner" -> request.role = "DataOwnerManager"
      [] OTHER -> FALSE

authorize_user_update(role, request) ==
    CASE role.role = "PlatformAdmin" -> TRUE
      [] role.role = "DataOwnerManager" -> request = DataOwner(role.attribute)
      [] OTHER -> FALSE

\* authorize_reset_user_password and authorize_delete_user: the role that the
\* account has now.
authorize_change(role, target) ==
    CASE role.role = "PlatformAdmin" -> TRUE
      [] role.role = "DataOwnerManager" -> users[target].role = DataOwner(role.attribute)
      [] OTHER -> FALSE

user_register(u, t, target, password, role) ==
    /\ Authenticated(u, t) /\ ~ Exists(target)
    /\ authorize_user_register(RoleOf(t), role)
    /\ Save(target, UserInfo(password, role))
    /\ Grant(RoleOf(t), target, role)
    /\ UNCHANGED <<secret, tokens, now>>

\* A manager is held to the domain but not to the role of data owner.
user_update_AnyRole(u, t, target, password, role) ==
    /\ Authenticated(u, t) /\ Exists(target)
    /\ RoleOf(t).role \in {"PlatformAdmin", "DataOwnerManager"}
    /\ Save(target, UserInfo(password, role))
    /\ Grant(RoleOf(t), target, role)
    /\ UNCHANGED <<secret, tokens, now>>

user_update(u, t, target, password, role) ==
    /\ Authenticated(u, t) /\ Exists(target)
    /\ authorize_user_update(RoleOf(t), role)
    /\ Save(target, UserInfo(password, role))
    /\ Grant(RoleOf(t), target, role)
    /\ UNCHANGED <<secret, tokens, now>>

user_login(u, password) ==
    /\ Exists(u) /\ users[u].password = password
    /\ Cardinality(tokens) < MaxTokens
    /\ tokens' = tokens \cup {Token(u)}
    /\ UNCHANGED <<users, disk, secret, now, writes, grants, held, acked>>

\* The account is stored anew with the role of the token.
user_change_password(u, t, password) ==
    /\ Authenticated(u, t)
    /\ Save(u, UserInfo(password, RoleOf(t)))
    /\ UNCHANGED <<secret, tokens, now, grants>>

\* The new password is drawn at random.
reset_user_password(u, t, target, password) ==
    /\ Authenticated(u, t) /\ Exists(target) /\ authorize_change(RoleOf(t), target)
    /\ Save(target, UserInfo(password, users[target].role))
    /\ UNCHANGED <<secret, tokens, now, grants>>

\* DbRequest::Delete: there is no flush.
delete_user(u, t, target) ==
    /\ Authenticated(u, t) /\ Exists(target) /\ authorize_change(RoleOf(t), target)
    /\ Write(target, NoUser, FALSE)
    /\ acked' = [acked EXCEPT ![target] = NoUser]
    /\ UNCHANGED <<secret, tokens, now, grants>>

Tick ==
    /\ now < MaxTime
    /\ now' = now + 1
    /\ held' = Stamp(users, now + 1)
    /\ UNCHANGED <<users, disk, secret, tokens, writes, grants, acked>>

\* A crash, and start_service: the database is what is found on disk, and
\* create_platform_admin_user adds the administrator if that is not there.
Restart ==
    /\ secret < MaxRestarts
    /\ secret' = secret + 1
    /\ \E i \in 1 .. Len(disk) :
          /\ users' = IF disk[i][Admin] # NoUser THEN disk[i]
                      ELSE [disk[i] EXCEPT ![Admin] = UserInfo(Default, PlatformAdmin)]
          /\ disk' = IF disk[i][Admin] # NoUser THEN <<disk[i]>> ELSE <<users'>>
    /\ held' = Stamp(users', now)
    /\ grants' = grants \cup {[by |-> PlatformAdmin, id |-> Admin, role |-> PlatformAdmin]}
    /\ UNCHANGED <<tokens, now, writes, acked>>

Init ==
    /\ users = [u \in Ids |-> IF u = Admin THEN UserInfo(Default, PlatformAdmin) ELSE NoUser]
    /\ disk = <<users>>
    /\ secret = 0 /\ tokens = {} /\ now = 0 /\ writes = 0
    /\ grants = {[by |-> PlatformAdmin, id |-> Admin, role |-> PlatformAdmin]}
    /\ held = [x \in Ids \X Roles |-> 0]
    /\ acked = [u \in Ids |-> NoUser]

Next ==
    \/ Tick
    \/ Restart
    \/ \E u \in Ids, p \in Passwords : user_login(u, p)
    \/ \E u \in Ids, t \in tokens :
          \/ \E p \in Passwords : user_change_password(u, t, p)
          \/ \E target \in Ids :
                \/ delete_user(u, t, target)
                \/ \E p \in Passwords :
                      \/ reset_user_password(u, t, target, p)
                      \/ \E role \in Roles :
                            \/ user_register(u, t, target, p, role)
                            \/ user_update(u, t, target, p, role)

Spec == Init /\ [][Next]_authVars

-----------------------------------------------------------------------------
\* Who may give which role: administrators any, managers data owners of their
\* own domain, function owners managers.
MayGive(by, role) ==
    \/ by = PlatformAdmin
    \/ by.role = "DataOwnerManager" /\ role = DataOwner(by.attribute)
    \/ by = FunctionOwner /\ role.role = "DataOwnerManager"

\* Every account has a role that it was given by someone who may give it,
\* through stale tokens, changed passwords, lost deletions and restarts.
RolesWereGiven ==
    \A u \in Ids : Exists(u) =>
        \E g \in grants : g.id = u /\ g.role = users[u].role /\ MayGive(g.by, g.role)

\* A token gives no role that its account did not have within the life time
\* of a token.
AcceptedRoleIsRecent ==
    \A u \in Ids, t \in tokens :
        Authenticated(u, t) => now =< held[<<u, RoleOf(t)>>] + LifeTime

\* An account is as it was last acknowledged, after a crash as well.
AckedSurvives == \A u \in Ids : acked[u] # NoUser => users[u] = acked[u]
=============================================================================
