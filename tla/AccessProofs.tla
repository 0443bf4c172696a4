---------------------------- MODULE AccessProofs ----------------------------
(***************************************************************************)
(* Proofs about accounts, tokens and the calls that the frontend lets      *)
(* through, for any number of users, passwords, domains, tokens, writes,   *)
(* failures, restarts and calls.                                           *)
(***************************************************************************)
EXTENDS Frontend, TLAPS

(* The database of accounts.  Only the record of an account that does not  *)
(* exist has the role Invalid.                                             *)
Accounts == {NoUser} \cup [role : Roles, password : Passwords \cup {Default}]
Databases == [Ids -> Accounts]

Given(gs, u, r) == \E g \in gs : g.id = u /\ g.role = r /\ MayGive(g.by, g.role)

AccountTypes ==
  /\ users \in Databases /\ disk \in Seq(Databases) /\ acked \in Databases
  /\ now \in Nat /\ held \in [Ids \X Roles -> Nat]
  /\ \A u \in Ids, r \in Roles : held[<<u, r>>] =< now

(* A token names a role that its account was given, and expires a life     *)
(* time after the account had it last, or before.                          *)
TokensSound ==
  \A t \in tokens :
    /\ t.sub \in Ids /\ RoleOf(t) \in Roles /\ t.exp \in Nat
    /\ \E r \in Roles : t.role = to_string(r)
    /\ Given(grants, t.sub, RoleOf(t))
    /\ t.exp =< held[<<t.sub, RoleOf(t)>>] + LifeTime

(* So do the accounts in force, and those that a restart may find.         *)
AccountsSound ==
  /\ \A u \in Ids : Exists(u) =>
       Given(grants, u, users[u].role) /\ held[<<u, users[u].role>>] = now
  /\ \A i \in DOMAIN disk, u \in Ids : disk[i][u] # NoUser => Given(grants, u, disk[i][u].role)

(* What was acknowledged is in every state that a restart may find.        *)
AckedSound ==
  \A u \in Ids : acked[u] # NoUser =>
    users[u] = acked[u] /\ \A i \in DOMAIN disk : disk[i][u] = acked[u]

AccountsInv == AccountTypes /\ TokensSound /\ AccountsSound /\ AckedSound

-----------------------------------------------------------------------------
(* The text of a role is parsed into that role. *)
LEMMA RoleRoundTrip ==
  ASSUME NEW r \in Roles
  PROVE  from_str(to_string(r)) = r /\ to_string(r)[1] = r.role
<1>1. CASE r = PlatformAdmin
  <2>1. to_string(r) = <<"PlatformAdmin">> /\ r.role = "PlatformAdmin"
    BY Zenon, <1>1 DEF PlatformAdmin, Role, to_string
  <2>2. from_str(<<"PlatformAdmin">>) = PlatformAdmin
    BY DEF from_str
  <2>3. <<"PlatformAdmin">>[1] = "PlatformAdmin"
    BY Zenon
  <2> QED BY ONLY Zenon, <1>1, <2>1, <2>2, <2>3
<1>2. CASE r = FunctionOwner
  <2>1. to_string(r) = <<"FunctionOwner">> /\ r.role = "FunctionOwner"
    BY Zenon, <1>2 DEF FunctionOwner, Role, to_string
  <2>2. <<"FunctionOwner">> # <<"PlatformAdmin">> /\ <<"FunctionOwner">>[1] = "FunctionOwner"
    BY Zenon
  <2>3. from_str(<<"FunctionOwner">>) = FunctionOwner
    BY <2>2 DEF from_str
  <2> QED BY ONLY Zenon, <1>2, <2>1, <2>2, <2>3
<1>3. ASSUME NEW a, NEW n \in {"DataOwner", "DataOwnerManager"}, r = Role(n, a)
      PROVE  from_str(to_string(r)) = r /\ to_string(r)[1] = r.role
  <2>1. to_string(r) = <<n, "-", a>> /\ r.role = n
    BY Zenon, <1>3 DEF Role, to_string
  <2>2. /\ <<n, "-", a>> # <<"PlatformAdmin">> /\ <<n, "-", a>> # <<"FunctionOwner">>
        /\ Len(<<n, "-", a>>) = 3 /\ <<n, "-", a>>[1] = n /\ <<n, "-", a>>[3] = a
    BY Zenon
  <2> QED BY ONLY Zenon, <1>3, <2>1, <2>2 DEF from_str
<1> QED BY Zenon, <1>1, <1>2, <1>3 DEF Roles, DataOwner, DataOwnerManager

LEMMA RealRoles ==
  /\ Invalid \notin Roles
  /\ \A r \in Roles :
       /\ r.role = "PlatformAdmin" => r = PlatformAdmin
       /\ r.role = "FunctionOwner" => r = FunctionOwner
<1>1. /\ Invalid.role = "Invalid" /\ PlatformAdmin.role = "PlatformAdmin"
      /\ FunctionOwner.role = "FunctionOwner"
      /\ \A a : /\ DataOwner(a).role = "DataOwner"
               /\ DataOwnerManager(a).role = "DataOwnerManager"
  BY Zenon DEF Invalid, PlatformAdmin, FunctionOwner, DataOwner, DataOwnerManager, Role
<1>2. \A r \in Roles : \/ r \in {PlatformAdmin, FunctionOwner}
                        \/ \E a : r \in {DataOwner(a), DataOwnerManager(a)}
  BY Zenon DEF Roles
<1> QED BY ONLY Zenon, <1>1, <1>2

LEMMA AccountRecord ==
  ASSUME NEW p \in Passwords \cup {Default}, NEW r \in Roles
  PROVE  /\ UserInfo(p, r) \in Accounts /\ UserInfo(p, r) # NoUser
         /\ UserInfo(p, r).role = r
BY Zenon, RealRoles DEF UserInfo, Accounts, NoUser

LEMMA AccountRole ==
  ASSUME NEW a \in Accounts, a # NoUser
  PROVE  a.role \in Roles /\ a.password \in Passwords \cup {Default}
BY Zenon DEF Accounts

(* The roles that a caller with role r may give, by the checks of          *)
(* user_register and user_update.                                          *)
LEMMA AuthorizedMayGive ==
  ASSUME NEW r \in Roles, NEW request \in Roles,
         authorize_user_register(r, request) \/ authorize_user_update(r, request)
  PROVE  MayGive(r, request)
BY Zenon, RealRoles DEF authorize_user_register, authorize_user_update, MayGive

(* The ghost of the roles that accounts had. *)
LEMMA StampValue ==
  ASSUME AccountTypes, NEW db \in Databases, NEW time \in Nat, now =< time,
         held' = Stamp(db, time)
  PROVE  /\ held' \in [Ids \X Roles -> Nat]
         /\ \A u \in Ids, r \in Roles :
              held[<<u, r>>] =< held'[<<u, r>>] /\ held'[<<u, r>>] =< time
         /\ \A u \in Ids : db[u] # NoUser => held'[<<u, db[u].role>>] = time
<1>1. \A u \in Ids, r \in Roles :
        held'[<<u, r>>] = IF db[u] # NoUser /\ db[u].role = r THEN time ELSE held[<<u, r>>]
  BY Zenon DEF Stamp
<1>2. held' \in [Ids \X Roles -> Nat]
  BY Zenon DEF Stamp, AccountTypes
<1>3. \A u \in Ids, r \in Roles : held[<<u, r>>] \in Nat /\ held[<<u, r>>] =< now
  BY Zenon DEF AccountTypes
<1>4. \A u \in Ids : db[u] # NoUser => db[u].role \in Roles
  BY Zenon, AccountRole DEF Databases
<1>5. now \in Nat
  BY Zenon DEF AccountTypes
<1> QED BY <1>1, <1>2, <1>3, <1>4, <1>5

LEMMA TokensKept ==
  ASSUME AccountTypes, TokensSound, tokens' = tokens, grants \subseteq grants',
         held' \in [Ids \X Roles -> Nat],
         \A u \in Ids, r \in Roles : held[<<u, r>>] =< held'[<<u, r>>]
  PROVE  TokensSound'
<1> SUFFICES ASSUME NEW t \in tokens
             PROVE  /\ t.sub \in Ids /\ RoleOf(t) \in Roles /\ t.exp \in Nat
                    /\ \E r \in Roles : t.role = to_string(r)
                    /\ Given(grants', t.sub, RoleOf(t))
                    /\ t.exp =< held'[<<t.sub, RoleOf(t)>>] + LifeTime
  BY Zenon DEF TokensSound
<1>1. /\ t.sub \in Ids /\ RoleOf(t) \in Roles /\ t.exp \in Nat
      /\ \E r \in Roles : t.role = to_string(r)
      /\ Given(grants, t.sub, RoleOf(t)) /\ t.exp =< held[<<t.sub, RoleOf(t)>>] + LifeTime
  BY Zenon DEF TokensSound
<1>2. Given(grants', t.sub, RoleOf(t))
  BY Zenon, <1>1 DEF Given
<1>3. held[<<t.sub, RoleOf(t)>>] \in Nat /\ held'[<<t.sub, RoleOf(t)>>] \in Nat
  BY Zenon, <1>1 DEF AccountTypes
<1> QED BY <1>1, <1>2, <1>3, AccountsAssumption

-----------------------------------------------------------------------------
(* A write of the database keeps the accounts sound: what it stores was    *)
(* given, and it is acknowledged only when it is on disk.                  *)
LEMMA WriteSound ==
  ASSUME AccountsInv, NEW u \in Ids, NEW info \in Accounts, NEW flushed \in BOOLEAN,
         Write(u, info, flushed), grants \subseteq grants', UNCHANGED <<tokens, now>>,
         info # NoUser => Given(grants', u, info.role),
         acked' = [acked EXCEPT ![u] = IF flushed THEN info ELSE NoUser]
  PROVE  AccountsInv'
<1> USE DEF AccountsInv
<1>1. /\ users \in Databases /\ disk \in Seq(Databases) /\ acked \in Databases
      /\ now \in Nat
  BY Zenon DEF AccountTypes
<1>2. NoUser \in Accounts
  BY Zenon DEF Accounts
<1>3. /\ users' = [users EXCEPT ![u] = info] /\ users' \in Databases
      /\ disk' = IF flushed THEN <<users'>> ELSE Append(disk, users')
      /\ held' = Stamp(users', now)
  BY Zenon, <1>1 DEF Write, Databases
<1>4. disk' \in Seq(Databases)
  BY <1>1, <1>3
<1>5. \A i \in DOMAIN disk' :
        disk'[i] = users' \/ (~ flushed /\ i \in DOMAIN disk /\ disk'[i] = disk[i])
  <2>1. CASE flushed
    <3>1. disk' = <<users'>>
      BY Zenon, <1>3, <2>1
    <3> QED BY <3>1
  <2>2. CASE ~ flushed
    BY <1>1, <1>3, <2>2
  <2> QED BY Zenon, <2>1, <2>2
<1>6. /\ held' \in [Ids \X Roles -> Nat]
      /\ \A v \in Ids, r \in Roles :
           held[<<v, r>>] =< held'[<<v, r>>] /\ held'[<<v, r>>] =< now
      /\ \A v \in Ids : users'[v] # NoUser => held'[<<v, users'[v].role>>] = now
  <2>1. PICK db \in Databases : db = users'
    BY Zenon, <1>3
  <2>2. held' = Stamp(db, now)
    BY Zenon, <1>3, <2>1
  <2>3. /\ held' \in [Ids \X Roles -> Nat]
        /\ \A v \in Ids, r \in Roles :
             held[<<v, r>>] =< held'[<<v, r>>] /\ held'[<<v, r>>] =< now
        /\ \A v \in Ids : db[v] # NoUser => held'[<<v, db[v].role>>] = now
    <3>1. AccountTypes /\ now =< now
      BY <1>1
    <3> QED BY ONLY Zenon, <1>1, <2>2, <3>1, db \in Databases, StampValue
  <2> QED BY Zenon, <2>1, <2>3
<1>7. AccountTypes'
  BY Zenon, <1>1, <1>2, <1>3, <1>4, <1>6 DEF AccountTypes, Databases
<1>8. TokensSound'
  BY Zenon, <1>6, TokensKept
<1>9. \A v \in Ids : \A r : Given(grants, v, r) => Given(grants', v, r)
  BY Zenon DEF Given
<1>10. \A v \in Ids : users'[v] # NoUser => Given(grants', v, users'[v].role)
  BY Zenon, <1>1, <1>3, <1>9 DEF AccountsSound, Exists, Databases
<1>11. AccountsSound'
  <2>1. \A i \in DOMAIN disk', v \in Ids :
          disk'[i][v] # NoUser => Given(grants', v, disk'[i][v].role)
    BY Zenon, <1>5, <1>9, <1>10 DEF AccountsSound
  <2> QED BY Zenon, <1>6, <1>10, <2>1 DEF AccountsSound, Exists
<1>12. AckedSound'
  <2> SUFFICES ASSUME NEW v \in Ids, acked'[v] # NoUser
               PROVE  /\ users'[v] = acked'[v]
                      /\ \A i \in DOMAIN disk' : disk'[i][v] = acked'[v]
    BY Zenon DEF AckedSound
  <2>1. CASE v = u
    BY ZenonT(60), <1>1, <1>3, <1>5, <2>1 DEF Databases
  <2>2. CASE v # u
    BY <1>1, <1>3, <1>5, <2>2 DEF AckedSound, Databases
  <2> QED BY Zenon, <2>1, <2>2
<1> QED BY Zenon, <1>7, <1>8, <1>11, <1>12

LEMMA SaveSound ==
  ASSUME AccountsInv, NEW u \in Ids, NEW info \in Accounts, Save(u, info),
         grants \subseteq grants', UNCHANGED <<tokens, now>>,
         Given(grants', u, info.role)
  PROVE  AccountsInv'
<1>1. ASSUME Write(u, info, TRUE), acked' = [acked EXCEPT ![u] = info]
      PROVE  AccountsInv'
  BY Zenon, <1>1, WriteSound
<1>2. ASSUME Write(u, info, FALSE), acked' = [acked EXCEPT ![u] = NoUser]
      PROVE  AccountsInv'
  BY Zenon, <1>2, WriteSound
<1> QED BY Zenon, <1>1, <1>2 DEF Save

(* What is known of an accepted token. *)
LEMMA AcceptedToken ==
  ASSUME AccountsInv, NEW u \in Ids, NEW t \in tokens, Authenticated(u, t)
  PROVE  RoleOf(t) \in Roles /\ Given(grants, u, RoleOf(t))
BY Zenon DEF AccountsInv, TokensSound, Authenticated, validate_token

LEMMA GrantSound ==
  ASSUME NEW by \in Roles, NEW u \in Ids, NEW role \in Roles, MayGive(by, role),
         Grant(by, u, role)
  PROVE  grants \subseteq grants' /\ Given(grants', u, role)
<1>1. [by |-> by, id |-> u, role |-> role] \in grants'
  BY Zenon DEF Grant
<1> QED BY Zenon, <1>1 DEF Grant, Given

LEMMA RestartSound ==
  ASSUME AccountsInv, Restart
  PROVE  AccountsInv'
<1> USE DEF AccountsInv
<1>1. /\ disk \in Seq(Databases) /\ acked \in Databases /\ now \in Nat /\ now' = now
      /\ tokens' = tokens /\ acked' = acked
  BY Zenon DEF AccountTypes, Restart
<1> DEFINE admin == UserInfo(Default, PlatformAdmin)
<1>2. PICK i \in 1 .. Len(disk) :
        /\ users' = IF disk[i][Admin] # NoUser THEN disk[i]
                    ELSE [disk[i] EXCEPT ![Admin] = admin]
        /\ disk' = IF disk[i][Admin] # NoUser THEN <<disk[i]>> ELSE <<users'>>
  BY Zenon DEF Restart
<1>3. i \in DOMAIN disk /\ disk[i] \in Databases
  BY <1>1
<1>4. admin \in Accounts /\ admin # NoUser /\ admin.role = PlatformAdmin
  BY Zenon, AccountRecord DEF Roles
<1> HIDE DEF admin
<1>5. users' \in Databases /\ disk' = <<users'>> /\ Admin \in Ids
  BY Zenon, <1>2, <1>3, <1>4, AccountsAssumption DEF Databases
<1>6. /\ held' \in [Ids \X Roles -> Nat]
      /\ \A v \in Ids, r \in Roles :
           held[<<v, r>>] =< held'[<<v, r>>] /\ held'[<<v, r>>] =< now
      /\ \A v \in Ids : users'[v] # NoUser => held'[<<v, users'[v].role>>] = now
  <2>1. PICK db \in Databases : db = users'
    BY Zenon, <1>5
  <2>2. held' = Stamp(db, now)
    BY Zenon, <2>1 DEF Restart
  <2>3. /\ held' \in [Ids \X Roles -> Nat]
        /\ \A v \in Ids, r \in Roles :
             held[<<v, r>>] =< held'[<<v, r>>] /\ held'[<<v, r>>] =< now
        /\ \A v \in Ids : db[v] # NoUser => held'[<<v, db[v].role>>] = now
    <3>1. AccountTypes /\ now =< now
      BY <1>1
    <3> QED BY ONLY Zenon, <1>1, <2>2, <3>1, db \in Databases, StampValue
  <2> QED BY Zenon, <2>1, <2>3
<1>7. /\ grants \subseteq grants'
      /\ [by |-> PlatformAdmin, id |-> Admin, role |-> PlatformAdmin] \in grants'
  BY Zenon DEF Restart
<1>8. Given(grants', Admin, PlatformAdmin)
  BY Zenon, <1>7 DEF Given, MayGive
<1>9. \A v \in Ids : \A r : Given(grants, v, r) => Given(grants', v, r)
  BY Zenon, <1>7 DEF Given
<1>10. \A v \in Ids : users'[v] = disk[i][v] \/ (v = Admin /\ users'[v] = admin)
  BY Zenon, <1>2, <1>3 DEF Databases
<1>11. \A v \in Ids : users'[v] # NoUser => Given(grants', v, users'[v].role)
  BY Zenon, <1>3, <1>4, <1>8, <1>9, <1>10 DEF AccountsSound
<1>12. disk' \in Seq(Databases) /\ \A j \in DOMAIN disk' : disk'[j] = users'
  BY <1>5
<1>13. AccountTypes'
  BY Zenon, <1>1, <1>5, <1>6, <1>12 DEF AccountTypes
<1>14. TokensSound'
  BY Zenon, <1>1, <1>6, <1>7, TokensKept
<1>15. AccountsSound'
  BY Zenon, <1>1, <1>6, <1>11, <1>12 DEF AccountsSound, Exists
<1>16. AckedSound'
  <2> SUFFICES ASSUME NEW v \in Ids, acked[v] # NoUser PROVE users'[v] = acked[v]
    BY Zenon, <1>1, <1>12 DEF AckedSound
  <2>1. disk[i][v] = acked[v]
    BY Zenon, <1>3 DEF AckedSound
  <2> QED BY Zenon, <1>2, <1>3, <2>1 DEF Databases
<1> QED BY Zenon, <1>13, <1>14, <1>15, <1>16

LEMMA TickSound ==
  ASSUME AccountsInv, Tick
  PROVE  AccountsInv'
<1> USE DEF AccountsInv
<1>1. /\ users \in Databases /\ now \in Nat /\ now' = now + 1
      /\ UNCHANGED <<users, disk, tokens, grants, acked>> /\ held' = Stamp(users, now + 1)
  BY Zenon DEF AccountTypes, Tick
<1>2. /\ held' \in [Ids \X Roles -> Nat]
      /\ \A v \in Ids, r \in Roles :
           held[<<v, r>>] =< held'[<<v, r>>] /\ held'[<<v, r>>] =< now + 1
      /\ \A v \in Ids : users[v] # NoUser => held'[<<v, users[v].role>>] = now + 1
  <2>1. now + 1 \in Nat /\ now =< now + 1
    BY <1>1
  <2> QED BY Zenon, <1>1, <2>1, StampValue
<1>3. AccountTypes'
  BY <1>1, <1>2 DEF AccountTypes
<1>4. TokensSound'
  BY Zenon, <1>1, <1>2, TokensKept
<1>5. AccountsSound'
  BY <1>1, <1>2 DEF AccountsSound, Exists, Given
<1>6. AckedSound'
  BY Zenon, <1>1 DEF AckedSound
<1> QED BY Zenon, <1>3, <1>4, <1>5, <1>6

LEMMA LoginSound ==
  ASSUME AccountsInv, NEW u \in Ids, NEW p, user_login(u, p)
  PROVE  AccountsInv'
<1> USE DEF AccountsInv
<1>1. /\ UNCHANGED <<users, disk, now, grants, held, acked>>
      /\ tokens' = tokens \cup {Token(u)} /\ Exists(u)
  BY Zenon DEF user_login
<1>2. users[u].role \in Roles /\ now \in Nat /\ held \in [Ids \X Roles -> Nat]
  BY Zenon, <1>1, AccountRole DEF AccountTypes, Databases, Exists
<1> DEFINE t == Token(u)
           r == users[u].role
<1>3. t.sub = u /\ t.role = to_string(r) /\ t.exp = now + LifeTime
  BY Zenon DEF Token
<1>4. RoleOf(t) = r
  BY Zenon, <1>2, <1>3, RoleRoundTrip DEF RoleOf
<1>5. Given(grants, u, r) /\ held[<<u, r>>] = now
  BY Zenon, <1>1 DEF AccountsSound
<1> HIDE DEF t, r
<1>6. /\ t.sub \in Ids /\ RoleOf(t) \in Roles /\ t.exp \in Nat
      /\ \E x \in Roles : t.role = to_string(x)
      /\ Given(grants, t.sub, RoleOf(t)) /\ t.exp =< held[<<t.sub, RoleOf(t)>>] + LifeTime
  BY <1>2, <1>3, <1>4, <1>5, AccountsAssumption DEF r
<1>7. TokensSound'
  BY Zenon, <1>1, <1>6 DEF TokensSound, Given, t
<1> QED BY <1>1, <1>7 DEF AccountTypes, AccountsSound, AckedSound, Exists, Given

LEMMA InitSound ==
  ASSUME Init
  PROVE  AccountsInv
<1>1. /\ users = [u \in Ids |-> IF u = Admin THEN UserInfo(Default, PlatformAdmin)
                                ELSE NoUser]
      /\ disk = <<users>> /\ tokens = {} /\ now = 0
      /\ grants = {[by |-> PlatformAdmin, id |-> Admin, role |-> PlatformAdmin]}
      /\ held = [x \in Ids \X Roles |-> 0] /\ acked = [u \in Ids |-> NoUser]
  BY Zenon DEF Init
<1>2. PlatformAdmin \in Roles
  BY Zenon DEF Roles
<1>3. /\ UserInfo(Default, PlatformAdmin) \in Accounts
      /\ UserInfo(Default, PlatformAdmin).role = PlatformAdmin /\ NoUser \in Accounts
  BY Zenon, <1>2, AccountRecord DEF Accounts
<1>4. users \in Databases /\ acked \in Databases
  BY Zenon, <1>1, <1>3 DEF Databases
<1>5. disk \in Seq(Databases) /\ \A i \in DOMAIN disk : disk[i] = users
  BY <1>1, <1>4
<1>6. AccountTypes
  BY <1>1, <1>4, <1>5 DEF AccountTypes
<1>7. Given(grants, Admin, PlatformAdmin)
  BY Zenon, <1>1 DEF Given, MayGive
<1>8. \A u \in Ids : users[u] # NoUser => u = Admin /\ users[u].role = PlatformAdmin
  BY Zenon, <1>1, <1>3
<1>9. \A u \in Ids : held[<<u, PlatformAdmin>>] = 0
  BY Zenon, <1>1, <1>2
<1> QED BY Zenon, <1>1, <1>5, <1>6, <1>7, <1>8, <1>9
        DEF AccountsInv, TokensSound, AccountsSound, AckedSound, Exists

LEMMA NextSound ==
  ASSUME AccountsInv, [Next]_authVars
  PROVE  AccountsInv'
<1>1. ASSUME NEW u \in Ids, NEW t \in tokens, NEW p \in Passwords,
             user_change_password(u, t, p)
      PROVE  AccountsInv'
  <2>1. /\ Save(u, UserInfo(p, RoleOf(t))) /\ Authenticated(u, t)
        /\ UNCHANGED <<tokens, now, grants>>
    BY Zenon, <1>1 DEF user_change_password
  <2>2. RoleOf(t) \in Roles /\ Given(grants, u, RoleOf(t))
    BY Zenon, <2>1, AcceptedToken
  <2> QED BY Zenon, <2>1, <2>2, AccountRecord, SaveSound
<1>2. ASSUME NEW u \in Ids, NEW t \in tokens, NEW target \in Ids,
             delete_user(u, t, target)
      PROVE  AccountsInv'
  <2>1. /\ Write(target, NoUser, FALSE) /\ acked' = [acked EXCEPT ![target] = NoUser]
        /\ UNCHANGED <<tokens, now, grants>> /\ NoUser \in Accounts
    BY Zenon, <1>2 DEF delete_user, Accounts
  <2> QED BY Zenon, <2>1, WriteSound
<1>3. ASSUME NEW u \in Ids, NEW t \in tokens, NEW target \in Ids, NEW p \in Passwords,
             reset_user_password(u, t, target, p)
      PROVE  AccountsInv'
  <2>1. /\ Save(target, UserInfo(p, users[target].role)) /\ Exists(target)
        /\ UNCHANGED <<tokens, now, grants>>
    BY Zenon, <1>3 DEF reset_user_password
  <2>2. users[target].role \in Roles /\ Given(grants, target, users[target].role)
    BY Zenon, <2>1, AccountRole DEF AccountsInv, AccountTypes, Databases, AccountsSound, Exists
  <2> QED BY Zenon, <2>1, <2>2, AccountRecord, SaveSound
<1>4. ASSUME NEW u \in Ids, NEW t \in tokens, NEW target \in Ids, NEW p \in Passwords,
             NEW role \in Roles,
             user_register(u, t, target, p, role) \/ user_update(u, t, target, p, role)
      PROVE  AccountsInv'
  <2>1. /\ Save(target, UserInfo(p, role)) /\ Grant(RoleOf(t), target, role)
        /\ Authenticated(u, t) /\ UNCHANGED <<tokens, now>>
        /\ \/ authorize_user_register(RoleOf(t), role)
           \/ authorize_user_update(RoleOf(t), role)
    BY Zenon, <1>4 DEF user_register, user_update
  <2>2. RoleOf(t) \in Roles
    BY Zenon, <2>1, AcceptedToken
  <2>3. grants \subseteq grants' /\ Given(grants', target, role)
    BY Zenon, <2>1, <2>2, AuthorizedMayGive, GrantSound
  <2> QED BY Zenon, <2>1, <2>3, AccountRecord, SaveSound
<1>5. CASE UNCHANGED authVars
  BY Zenon, <1>5 DEF authVars, AccountsInv, AccountTypes, TokensSound, AccountsSound,
              AckedSound, Exists
<1> QED BY Zenon, <1>1, <1>2, <1>3, <1>4, <1>5, TickSound, RestartSound, LoginSound DEF Next

(* Every account has a role that it was given by someone who may give it,  *)
(* through stale tokens, changed passwords, lost deletions and restarts.   *)
THEOREM RolesAreGiven == Spec => []RolesWereGiven
<1>1. AccountsInv => RolesWereGiven
  BY Zenon DEF AccountsInv, AccountsSound, Given, RolesWereGiven
<1> QED BY <1>1, InitSound, NextSound, PTL DEF Spec

(* A token that is accepted names a role that its account had within the   *)
(* life time of a token, whatever happened to the account since.           *)
THEOREM AcceptedRolesAreRecent == Spec => []AcceptedRoleIsRecent
<1>1. AccountsInv => AcceptedRoleIsRecent
  <2> SUFFICES ASSUME AccountsInv, NEW u \in Ids, NEW t \in tokens, Authenticated(u, t)
               PROVE  now =< held[<<u, RoleOf(t)>>] + LifeTime
    BY Zenon DEF AcceptedRoleIsRecent
  <2>1. /\ t.sub = u /\ now =< t.exp /\ t.exp \in Nat /\ now \in Nat
        /\ RoleOf(t) \in Roles /\ t.exp =< held[<<u, RoleOf(t)>>] + LifeTime
        /\ held \in [Ids \X Roles -> Nat]
    BY Zenon DEF Authenticated, validate_token, AccountsInv, TokensSound, AccountTypes
  <2>2. held[<<u, RoleOf(t)>>] \in Nat
    BY Zenon, <2>1
  <2> QED BY <2>1, <2>2, AccountsAssumption
<1> QED BY <1>1, InitSound, NextSound, PTL DEF Spec

(* An account is as it was last acknowledged, after any number of crashes  *)
(* and of writes that failed.                                              *)
THEOREM AcknowledgedSurvives == Spec => []AckedSurvives
<1>1. AccountsInv => AckedSurvives
  BY Zenon DEF AccountsInv, AckedSound, AckedSurvives
<1> QED BY <1>1, InitSound, NextSound, PTL DEF Spec

-----------------------------------------------------------------------------
(* The frontend.  Between the checks and the call of management a handler  *)
(* relies on what the checks have found, while accounts change.            *)
HandlerRecords ==
  [pc : {"authenticate", "privilege", "lock", "forward", "log", "refused", "done"},
   id : Ids, token : tokens, api : Apis,
   claims : {<<>>} \cup {t.role : t \in tokens}, result : BOOLEAN]

Vouched(h) == \E r \in Roles : h.claims = to_string(r) /\ Given(grants, h.id, r)

(* A handler whose call may go on to management. *)
Checked(h) ==
  /\ h.pc \in {"privilege", "lock", "forward"} => Vouched(h)
  /\ h.pc \in {"lock", "forward"} => Permitted(from_str(h.claims), h.api)

HandlersSound ==
  /\ handler \in [Calls -> {Idle} \cup HandlerRecords]
  /\ \A c \in Calls : handler[c] # Idle => Checked(handler[c])

ExecutedSound ==
  \A e \in executed :
    /\ e.call \in Calls /\ handler[e.call] # Idle
    /\ Permitted(e.role, e.api) /\ Given(grants, handler[e.call].id, e.role)

(* The audit log. *)
LogEntries == [call : Calls, result : BOOLEAN]

WasExecuted(c) == \E e \in executed : e.call = c

LogSound ==
  /\ buffer \in Seq(LogEntries) /\ saved \in Seq(LogEntries)
  /\ agent \in [pc : {"awake", "drain", "lock", "send"}, logs : Seq(LogEntries)]
  /\ agent.pc \in {"awake", "drain"} => agent.logs = <<>>
  /\ \A c \in Calls : handler[c] # Idle /\ handler[c].result => WasExecuted(c)

EntriesSound(es) ==
  /\ \A i, j \in DOMAIN es : es[i].call = es[j].call => i = j
  /\ \A i \in DOMAIN es :
       /\ handler[es[i].call] # Idle /\ handler[es[i].call].pc = "done"
       /\ es[i].result => WasExecuted(es[i].call)

FrontInv == HandlersSound /\ ExecutedSound /\ LogSound /\ EntriesSound(Entries)

(* The policies permit no more than what the roles are for. *)
LEMMA EnforcePermits ==
  ASSUME NEW r \in Roles, NEW api, enforce(to_string(r)[1], api)
  PROVE  Permitted(r, api)
<1>1. to_string(r)[1] = r.role
  BY Zenon, RoleRoundTrip
<1>2. CASE r.role = "PlatformAdmin"
  BY Zenon, <1>2, RealRoles DEF Permitted
<1>3. ASSUME NEW p \in Policies, <<r.role, p[1]>> \in Groups, p[2] = api
      PROVE  Permitted(r, api)
  <2>1. \/ p[1] = "rule_function_owner" /\ p[2] \in FunctionOwnerApis
        \/ p[1] = "rule_data_owner" /\ p[2] \in DataOwnerApis
    BY DEF Policies
  <2>2. \/ r.role = "FunctionOwner" /\ p[1] = "rule_function_owner"
        \/ r.role \in {"DataOwnerManager", "DataOwner"} /\ p[1] = "rule_data_owner"
    BY Zenon, <1>3 DEF Groups
  <2> QED BY Zenon, <1>3, <2>1, <2>2, RealRoles DEF Permitted
<1> QED BY Zenon, <1>1, <1>2, <1>3 DEF enforce

(* Tokens and grants are never taken back. *)
LEMMA GrowOnly ==
  ASSUME [Next]_authVars
  PROVE  tokens \subseteq tokens' /\ grants \subseteq grants'
<1>1. CASE Tick \/ Restart
  BY Zenon, <1>1 DEF Tick, Restart
<1>2. ASSUME NEW u, NEW p, user_login(u, p)
      PROVE  tokens \subseteq tokens' /\ grants \subseteq grants'
  BY Zenon, <1>2 DEF user_login
<1>3. ASSUME NEW u, NEW t, NEW target, NEW p, NEW role,
             \/ user_change_password(u, t, p) \/ delete_user(u, t, target)
             \/ reset_user_password(u, t, target, p)
             \/ user_register(u, t, target, p, role)
             \/ user_update(u, t, target, p, role)
      PROVE  tokens \subseteq tokens' /\ grants \subseteq grants'
  <2>1. UNCHANGED tokens /\ (UNCHANGED grants \/ Grant(RoleOf(t), target, role))
    BY Zenon, <1>3 DEF user_change_password, delete_user, reset_user_password, user_register,
                user_update
  <2> QED BY Zenon, <2>1 DEF Grant
<1> QED BY Zenon, <1>1, <1>2, <1>3 DEF Next, authVars

LEMMA AccountsMove ==
  ASSUME FrontInv, tokens \subseteq tokens', grants \subseteq grants',
         UNCHANGED frontVars
  PROVE  FrontInv'
<1>1. UNCHANGED <<handler, buffer, agent, executed, saved>>
  BY Zenon DEF frontVars
<1>2. HandlerRecords \subseteq HandlerRecords'
  BY Zenon DEF HandlerRecords
<1>3. \A u, r : Given(grants, u, r) => Given(grants', u, r)
  BY Zenon DEF Given
<1>4. HandlersSound'
  BY Zenon, <1>1, <1>2, <1>3 DEF FrontInv, HandlersSound, Checked, Vouched
<1>5. ExecutedSound'
  BY Zenon, <1>1, <1>3 DEF FrontInv, ExecutedSound
<1>6. LogSound'
  BY Zenon, <1>1 DEF FrontInv, LogSound, WasExecuted
<1>7. Entries' = Entries
  BY Zenon, <1>1 DEF Entries
<1>8. EntriesSound(Entries)'
  BY Zenon, <1>1, <1>7 DEF FrontInv, EntriesSound, WasExecuted
<1> QED BY Zenon, <1>4, <1>5, <1>6, <1>8 DEF FrontInv

(* A step of the handler of call c, which goes on with the record h. *)
LEMMA HandlerMove ==
  ASSUME HandlersSound, ExecutedSound, NEW c \in Calls, NEW h \in HandlerRecords,
         Set(c, h), UNCHANGED <<tokens, grants>>, Checked(h),
         handler[c] = Idle \/ h.id = handler[c].id,
         \/ executed' = executed
         \/ /\ executed' = executed \cup
                 {[call |-> c, api |-> h.api, role |-> from_str(h.claims)]}
            /\ Permitted(from_str(h.claims), h.api)
            /\ Given(grants, h.id, from_str(h.claims))
  PROVE  HandlersSound' /\ ExecutedSound'
<1>1. /\ handler \in [Calls -> {Idle} \cup HandlerRecords]
      /\ handler' = [handler EXCEPT ![c] = h]
  BY Zenon DEF HandlersSound, Set
<1>2. h # Idle
  BY SMTT(60) DEF HandlerRecords, Idle
<1>3. HandlerRecords' = HandlerRecords
  BY Zenon DEF HandlerRecords
<1>4. handler'[c] = h /\ \A x \in Calls : x # c => handler'[x] = handler[x]
  BY Zenon, <1>1
<1>5. \A x \in Calls : handler'[x] # Idle => Checked(handler'[x])
  BY Zenon, <1>4 DEF HandlersSound
<1>6. HandlersSound'
  BY Zenon, <1>1, <1>3, <1>5 DEF HandlersSound, Checked, Vouched
<1>7. ASSUME NEW e \in executed
      PROVE  /\ e.call \in Calls /\ handler'[e.call] # Idle
             /\ Permitted(e.role, e.api) /\ Given(grants, handler'[e.call].id, e.role)
  BY Zenon, <1>2, <1>4 DEF ExecutedSound
<1>8. ExecutedSound'
  <2>1. CASE executed' = executed
    BY Zenon, <1>7, <2>1 DEF ExecutedSound
  <2> DEFINE new == [call |-> c, api |-> h.api, role |-> from_str(h.claims)]
  <2>2. CASE /\ executed' = executed \cup {new}
             /\ Permitted(from_str(h.claims), h.api)
             /\ Given(grants, h.id, from_str(h.claims))
    <3>1. new.call = c /\ new.api = h.api /\ new.role = from_str(h.claims)
      BY Zenon
    <3> HIDE DEF new
    <3> QED BY Zenon, <1>2, <1>4, <1>7, <2>2, <3>1 DEF ExecutedSound
  <2> QED BY Zenon, <2>1, <2>2
<1> QED BY Zenon, <1>6, <1>8

LEMMA EntriesType ==
  ASSUME LogSound
  PROVE  /\ Entries \in Seq(LogEntries)
         /\ \A i \in DOMAIN Entries : Entries[i] \in LogEntries /\ Entries[i].call \in Calls
<1>1. agent.logs \in Seq(LogEntries)
  BY Zenon DEF LogSound
<1>2. Entries \in Seq(LogEntries)
  BY <1>1 DEF Entries, LogSound
<1>3. \A i \in DOMAIN Entries : Entries[i] \in LogEntries
  BY <1>2
<1>4. \A x \in LogEntries : x.call \in Calls
  BY Zenon DEF LogEntries
<1> QED BY Zenon, <1>2, <1>3, <1>4

LEMMA LogMove ==
  ASSUME LogSound, EntriesSound(Entries), NEW c \in Calls, NEW h \in HandlerRecords,
         handler \in [Calls -> {Idle} \cup HandlerRecords],
         Set(c, h), executed \subseteq executed',
         handler[c] = Idle \/ handler[c].pc # "done",
         h.result => WasExecuted(c)', UNCHANGED <<buffer, agent, saved>>
  PROVE  LogSound' /\ EntriesSound(Entries)'
<1>1. handler'[c] = h /\ \A x \in Calls : x # c => handler'[x] = handler[x]
  BY Zenon DEF Set
<1>2. \A x : WasExecuted(x) => WasExecuted(x)'
  BY Zenon DEF WasExecuted
<1>3. LogSound'
  BY Zenon, <1>1, <1>2 DEF LogSound
<1>4. Entries' = Entries
  BY Zenon DEF Entries
<1>5. \A i \in DOMAIN Entries : Entries[i].call \in Calls
  BY Zenon, EntriesType
<1>6. \A i \in DOMAIN Entries : Entries[i].call # c
  BY Zenon DEF EntriesSound
<1> QED BY Zenon, <1>1, <1>2, <1>3, <1>4, <1>5, <1>6 DEF EntriesSound

(* The handlers. *)
LEMMA HandleSound ==
  ASSUME AccountsInv, FrontInv, NEW c \in Calls, UNCHANGED authVars,
         \/ Authenticate(c) \/ CheckPrivilege(c) \/ LockClient(c) \/ Forward(c)
         \/ Gone(c) \/ \E u \in Ids, t \in tokens, api \in Apis : Receive(c, u, t, api)
  PROVE  FrontInv'
<1> USE DEF FrontInv, Goto
<1>0. UNCHANGED <<tokens, grants>> /\ UNCHANGED <<buffer, agent, saved>>
  BY Zenon DEF authVars, Authenticate, CheckPrivilege, LockClient, Forward, Gone, Receive
<1>1. handler \in [Calls -> {Idle} \cup HandlerRecords]
  BY Zenon DEF HandlersSound
<1>2. ASSUME NEW h \in HandlerRecords, Set(c, h), Checked(h),
             handler[c] = Idle \/ h.id = handler[c].id,
             handler[c] = Idle \/ handler[c].pc # "done",
             h.result => WasExecuted(c)',
             \/ executed' = executed
             \/ /\ executed' = executed \cup
                     {[call |-> c, api |-> h.api, role |-> from_str(h.claims)]}
                /\ Permitted(from_str(h.claims), h.api)
                /\ Given(grants, h.id, from_str(h.claims))
      PROVE  FrontInv'
  <2>1. HandlersSound' /\ ExecutedSound'
    BY Zenon, <1>0, <1>2, HandlerMove
  <2>2. executed \subseteq executed'
    BY Zenon, <1>2
  <2>3. LogSound' /\ EntriesSound(Entries)'
    BY Zenon, <1>0, <1>1, <1>2, <2>2, LogMove
  <2> QED BY Zenon, <2>1, <2>3
<1>3. PICK h : h = handler[c]
  BY Zenon
<1>4. ASSUME h # Idle
      PROVE  /\ h \in HandlerRecords /\ Checked(h) /\ h.result \in BOOLEAN
             /\ h.result => WasExecuted(c)
  BY Zenon, <1>1, <1>3, <1>4 DEF HandlersSound, LogSound, HandlerRecords
<1>5. Idle.pc = "idle"
  BY Zenon DEF Idle
<1>6. WasExecuted(c) /\ executed \subseteq executed' => WasExecuted(c)'
  BY Zenon DEF WasExecuted
<1>7. ASSUME NEW p \in {"lock", "forward", "log", "refused", "done"}, h # Idle,
             h.pc # "done", Set(c, [h EXCEPT !.pc = p]), executed' = executed,
             p = "lock" => Permitted(from_str(h.claims), h.api) /\ Vouched(h),
             p = "forward" => h.pc = "lock"
      PROVE  FrontInv'
  <2> DEFINE g == [h EXCEPT !.pc = p]
  <2>1. /\ g \in HandlerRecords /\ g.pc = p /\ g.id = h.id /\ g.claims = h.claims
        /\ g.api = h.api /\ g.result = h.result
    BY Zenon, <1>4, <1>7 DEF HandlerRecords
  <2> HIDE DEF g
  <2>2. Checked(g)
    BY Zenon, <1>4, <1>7, <2>1 DEF Checked, Vouched
  <2>3. Set(c, g)
    BY Zenon, <1>7 DEF g
  <2>4. g.result => WasExecuted(c)'
    BY Zenon, <1>4, <1>6, <1>7, <2>1
  <2> QED BY Zenon, <1>2, <1>3, <1>7, <2>1, <2>2, <2>3, <2>4
<1>8. ASSUME NEW u \in Ids, NEW t \in tokens, NEW api \in Apis, Receive(c, u, t, api)
      PROVE  FrontInv'
  <2> DEFINE g == [pc |-> "authenticate", id |-> u, token |-> t, api |-> api,
                   claims |-> <<>>, result |-> FALSE]
  <2>1. g \in HandlerRecords /\ Checked(g) /\ ~ g.result
    BY Zenon DEF HandlerRecords, Checked
  <2>2. Set(c, g) /\ handler[c] = Idle /\ executed' = executed
    BY Zenon, <1>8 DEF Receive
  <2> HIDE DEF g
  <2> QED BY Zenon, <1>2, <2>1, <2>2
<1>9. CASE Authenticate(c)
  <2>1. h.pc = "authenticate" /\ executed' = executed /\ h # Idle
    BY Zenon, <1>3, <1>5, <1>9 DEF Authenticate
  <2>2. CASE Authenticated(h.id, h.token)
    <3> DEFINE g == [h EXCEPT !.pc = "privilege", !.claims = h.token.role]
    <3>1. h.token \in tokens /\ h.id \in Ids
      BY Zenon, <1>4, <2>1 DEF HandlerRecords
    <3>2. /\ g \in HandlerRecords /\ g.pc = "privilege" /\ g.id = h.id
          /\ g.claims = h.token.role /\ g.result = h.result
      BY Zenon, <1>4, <2>1, <3>1 DEF HandlerRecords
    <3>3. \E r \in Roles : h.token.role = to_string(r) /\ Given(grants, h.id, r)
      <4>1. PICK r \in Roles : h.token.role = to_string(r)
        BY Zenon, <3>1 DEF AccountsInv, TokensSound
      <4>2. RoleOf(h.token) = r
        BY Zenon, <4>1, RoleRoundTrip DEF RoleOf
      <4>3. Given(grants, h.id, RoleOf(h.token))
        BY Zenon, <2>2, <3>1, AcceptedToken
      <4> QED BY Zenon, <4>1, <4>2, <4>3
    <3>4. Set(c, g)
      BY Zenon, <1>3, <1>9, <2>2 DEF Authenticate
    <3> HIDE DEF g
    <3>5. Checked(g)
      BY Zenon, <3>2, <3>3 DEF Checked, Vouched
    <3>6. g.result => WasExecuted(c)'
      BY Zenon, <1>4, <1>6, <2>1, <3>2
    <3> QED BY Zenon, <1>2, <1>3, <2>1, <3>2, <3>4, <3>5, <3>6
  <2>3. CASE ~ Authenticated(h.id, h.token)
    <3>1. Set(c, [h EXCEPT !.pc = "refused"])
      BY Zenon, <1>3, <1>9, <2>3 DEF Authenticate
    <3> QED BY Zenon, <1>7, <2>1, <3>1
  <2> QED BY Zenon, <2>2, <2>3
<1>10. CASE CheckPrivilege(c)
  <2>1. h.pc = "privilege" /\ executed' = executed /\ h # Idle
    BY Zenon, <1>3, <1>5, <1>10 DEF CheckPrivilege
  <2>2. CASE /\ enforce(to_string(from_str(h.claims))[1], h.api)
             /\ Set(c, [h EXCEPT !.pc = "lock"])
    <3>1. Vouched(h)
      BY Zenon, <1>4, <2>1 DEF Checked
    <3>2. from_str(h.claims) \in Roles
      BY Zenon, <3>1, RoleRoundTrip DEF Vouched
    <3>3. Permitted(from_str(h.claims), h.api)
      BY Zenon, <2>2, <3>2, EnforcePermits
    <3> QED BY Zenon, <1>7, <2>1, <2>2, <3>1, <3>3
  <2>3. CASE Set(c, [h EXCEPT !.pc = "refused"])
    BY Zenon, <1>7, <2>1, <2>3
  <2> QED BY Zenon, <1>3, <1>10, <2>2, <2>3 DEF CheckPrivilege
<1>11. CASE LockClient(c)
  <2>1. h.pc = "lock" /\ executed' = executed /\ h # Idle /\ Set(c, [h EXCEPT !.pc = "forward"])
    BY Zenon, <1>3, <1>5, <1>11 DEF LockClient
  <2> QED BY Zenon, <1>7, <2>1
<1>12. CASE h.pc = "forward" /\ h # Idle
  <2> DEFINE new == [call |-> c, api |-> h.api, role |-> from_str(h.claims)]
  <2>1. Permitted(from_str(h.claims), h.api) /\ Given(grants, h.id, from_str(h.claims))
    <3>1. PICK r \in Roles : h.claims = to_string(r) /\ Given(grants, h.id, r)
      BY Zenon, <1>4, <1>12 DEF Checked, Vouched
    <3>2. from_str(h.claims) = r
      BY Zenon, <3>1, RoleRoundTrip
    <3> QED BY Zenon, <1>4, <1>12, <3>1, <3>2 DEF Checked
  <2>2. executed' = executed \cup {new} => WasExecuted(c)'
    <3>1. new.call = c
      BY Zenon
    <3> HIDE DEF new
    <3> QED BY Zenon, <3>1 DEF WasExecuted
  <2>3. ASSUME NEW p \in {"log", "done"}, Set(c, [h EXCEPT !.pc = p]),
               executed' \in {executed, executed \cup {new}}
        PROVE  FrontInv'
    <3> DEFINE g == [h EXCEPT !.pc = p]
    <3>1. /\ g \in HandlerRecords /\ g.pc = p /\ g.id = h.id /\ g.claims = h.claims
          /\ g.api = h.api /\ g.result = h.result
      BY Zenon, <1>4, <1>12 DEF HandlerRecords
    <3>2. Set(c, g)
      BY Zenon, <2>3
    <3> HIDE DEF g
    <3>3. Checked(g)
      BY Zenon, <3>1 DEF Checked
    <3>4. g.result => WasExecuted(c)'
      BY Zenon, <1>4, <1>6, <1>12, <2>3, <3>1
    <3> QED BY Zenon, <1>2, <1>3, <1>12, <2>1, <2>3, <3>1, <3>2, <3>3, <3>4
  <2>4. ASSUME Set(c, [h EXCEPT !.pc = "log", !.result = TRUE]),
               executed' = executed \cup {new}
        PROVE  FrontInv'
    <3> DEFINE g == [h EXCEPT !.pc = "log", !.result = TRUE]
    <3>1. /\ g \in HandlerRecords /\ g.pc = "log" /\ g.id = h.id /\ g.claims = h.claims
          /\ g.api = h.api
      BY Zenon, <1>4, <1>12 DEF HandlerRecords
    <3>2. Set(c, g)
      BY Zenon, <2>4
    <3> HIDE DEF g
    <3>3. Checked(g)
      BY Zenon, <3>1 DEF Checked
    <3> QED BY Zenon, <1>2, <1>3, <1>12, <2>1, <2>2, <2>4, <3>1, <3>2, <3>3
  <2>5. CASE Forward(c)
    BY Zenon, <1>3, <2>3, <2>4, <2>5 DEF Forward
  <2>6. CASE Gone(c)
    BY Zenon, <1>3, <1>12, <2>3, <2>6 DEF Gone
  <2> QED BY Zenon, <1>3, <1>8, <1>9, <1>10, <1>11, <2>5, <2>6
<1>13. CASE Forward(c)
  BY Zenon, <1>3, <1>5, <1>12, <1>13 DEF Forward
<1>14. CASE Gone(c) /\ h.pc # "forward"
  <2>1. h.pc \notin {"idle", "done"} /\ h # Idle /\ Set(c, [h EXCEPT !.pc = "done"])
    BY Zenon, <1>3, <1>5, <1>14 DEF Gone
  <2>2. executed' = executed
    BY Zenon, <1>3, <1>14 DEF Gone
  <2> QED BY Zenon, <1>7, <2>1, <2>2
<1>15. CASE Gone(c) /\ h.pc = "forward"
  BY Zenon, <1>5, <1>12, <1>15
<1> QED BY Zenon, <1>8, <1>9, <1>10, <1>11, <1>13, <1>14, <1>15

(* push_log and the agent: the entries stay in their order, and only a failed
   save loses some of them. *)
LEMMA EntriesShrink ==
  ASSUME NEW a \in Seq(LogEntries), NEW b \in Seq(LogEntries), NEW d \in Seq(LogEntries),
         EntriesSound(a \o b \o d)
  PROVE  EntriesSound(a \o d)
<1> DEFINE es == a \o b \o d
           fs == a \o d
           f(i) == IF i =< Len(a) THEN i ELSE i + Len(b)
<1>1. \A i \in DOMAIN fs : f(i) \in DOMAIN es /\ fs[i] = es[f(i)]
  OBVIOUS
<1>2. \A i, j \in DOMAIN fs : f(i) = f(j) => i = j
  OBVIOUS
<1> HIDE DEF es, fs, f
<1>3. EntriesSound(es)
  BY Zenon DEF es
<1>4. EntriesSound(fs)
  BY SMTT(60), <1>1, <1>2, <1>3 DEF EntriesSound
<1> QED BY Zenon, <1>4 DEF fs

LEMMA AgentSound ==
  ASSUME FrontInv, AgentStep
  PROVE  FrontInv'
<1> USE DEF FrontInv
<1>0. UNCHANGED <<tokens, grants, handler, executed>>
  BY Zenon DEF AgentStep, LockBuffer, Drain, AgentLock, Send, authVars
<1>1. HandlersSound' /\ ExecutedSound'
  BY Zenon, <1>0 DEF HandlersSound, ExecutedSound, Checked, Vouched, HandlerRecords
<1>2. /\ buffer \in Seq(LogEntries) /\ saved \in Seq(LogEntries)
      /\ agent.logs \in Seq(LogEntries)
  BY Zenon DEF LogSound
<1>3. ASSUME Entries' = Entries \/ Entries' = saved \o buffer
      PROVE  EntriesSound(Entries)'
  <2>1. EntriesSound(saved \o buffer)
    BY Zenon, <1>2, EntriesShrink DEF Entries
  <2>2. PICK es : es = Entries' /\ EntriesSound(es)
    BY Zenon, <1>3, <2>1
  <2>3. UNCHANGED <<handler, executed>>
    BY Zenon, <1>0
  <2> QED BY ZenonT(60), <2>2, <2>3 DEF EntriesSound, WasExecuted
<1>4. ASSUME /\ buffer' \in Seq(LogEntries) /\ saved' \in Seq(LogEntries)
             /\ agent' \in [pc : {"awake", "drain", "lock", "send"}, logs : Seq(LogEntries)]
             /\ agent'.pc \in {"awake", "drain"} => agent'.logs = <<>>
      PROVE  LogSound'
  BY Zenon, <1>0, <1>4 DEF LogSound, WasExecuted
<1>5. CASE LockBuffer \/ AgentLock
  <2>1. UNCHANGED <<saved, buffer>> /\ agent'.logs = agent.logs
    BY Zenon, <1>5 DEF LockBuffer, AgentLock, LogSound
  <2>2. Entries' = Entries
    BY Zenon, <2>1 DEF Entries
  <2>3. LogSound'
    BY Zenon, <1>4, <1>5 DEF LockBuffer, AgentLock, LogSound
  <2> QED BY Zenon, <1>1, <1>3, <2>2, <2>3
<1>6. CASE Drain
  <2>1. saved' = saved /\ agent'.logs = buffer /\ buffer' = <<>> /\ agent.logs = <<>>
    BY Zenon, <1>6 DEF Drain, LogSound
  <2>2. Entries' = Entries
    BY <1>2, <2>1 DEF Entries
  <2>3. LogSound'
    BY <1>2, <1>4, <1>6 DEF Drain
  <2> QED BY Zenon, <1>1, <1>3, <2>2, <2>3
<1>7. CASE Send
  <2>1. agent'.logs = <<>> /\ buffer' = buffer /\ saved' \in {saved, saved \o agent.logs}
    BY Zenon, <1>7 DEF Send
  <2>2. PICK s \in Seq(LogEntries) : s = saved' /\ s \o buffer \in {Entries, saved \o buffer}
    <3>0. saved \o agent.logs \in Seq(LogEntries)
      BY <1>2
    <3>1. saved' \in Seq(LogEntries)
      BY <1>2, <2>1, <3>0, Zenon
    <3>2. saved' = saved \/ saved' = saved \o agent.logs
      BY Zenon, <2>1
    <3>3. saved' \o buffer \in {Entries, saved \o buffer}
      BY <3>2, Zenon DEF Entries
    <3> QED BY Zenon, <3>1, <3>3
  <2>3. Entries' = s \o buffer
    <3>1. s \o <<>> = s
      OBVIOUS
    <3> QED BY Zenon, <2>1, <2>2, <3>1 DEF Entries
  <2>4. LogSound'
    BY <1>2, <1>4, <1>7, <2>2 DEF Send
  <2> QED BY Zenon, <1>1, <1>3, <2>2, <2>3, <2>4
<1> QED BY Zenon, <1>5, <1>6, <1>7 DEF AgentStep

LEMMA PushSound ==
  ASSUME FrontInv, NEW c \in Calls, PushLog(c)
  PROVE  FrontInv'
<1> USE DEF FrontInv
<1>0. /\ UNCHANGED <<tokens, grants, executed, agent, saved>>
      /\ buffer' = Append(buffer, [call |-> c, result |-> handler[c].result])
      /\ handler[c].pc \in {"log", "refused"}
  BY Zenon DEF PushLog, authVars
<1>1. handler \in [Calls -> {Idle} \cup HandlerRecords]
  BY Zenon DEF HandlersSound
<1>2. PICK h : h = handler[c]
  BY Zenon
<1>3. /\ h # Idle /\ h \in HandlerRecords /\ h.result \in BOOLEAN
      /\ h.result => WasExecuted(c)
  BY SMTT(60), <1>0, <1>1, <1>2 DEF Idle, HandlerRecords, LogSound
<1> DEFINE g == [h EXCEPT !.pc = "done"]
<1>4. g \in HandlerRecords /\ g.pc = "done" /\ g.id = h.id /\ g.result = h.result /\ g # Idle
  BY Zenon, <1>3 DEF HandlerRecords, Idle
<1>5. Set(c, g)
  BY Zenon, <1>2 DEF PushLog, Goto
<1> HIDE DEF g
<1>6. Checked(g)
  BY Zenon, <1>4 DEF Checked
<1>7. HandlersSound' /\ ExecutedSound'
  BY Zenon, <1>0, <1>2, <1>4, <1>5, <1>6, HandlerMove
<1>8. handler'[c] = g /\ \A x \in Calls : x # c => handler'[x] = handler[x]
  BY Zenon, <1>1, <1>5 DEF Set
<1>9. \A x : WasExecuted(x)' <=> WasExecuted(x)
  BY Zenon, <1>0 DEF WasExecuted
<1> DEFINE e == [call |-> c, result |-> h.result]
<1>10. e \in LogEntries /\ e.call = c /\ e.result = h.result
  BY Zenon, <1>3 DEF LogEntries
<1>11. buffer' = Append(buffer, e)
  BY Zenon, <1>0, <1>2
<1> HIDE DEF e
<1>12. buffer \in Seq(LogEntries) /\ buffer' \in Seq(LogEntries)
  BY <1>10, <1>11 DEF LogSound
<1>13. LogSound'
  <2>1. \A x \in Calls : handler'[x] # Idle /\ handler'[x].result => WasExecuted(x)'
    BY Zenon, <1>2, <1>3, <1>4, <1>8, <1>9 DEF LogSound
  <2> QED BY Zenon, <1>0, <1>12, <2>1 DEF LogSound
<1>14. Entries' = Append(Entries, e)
  BY SMTT(90), <1>0, <1>11, <1>12 DEF Entries, LogSound
<1>15. /\ Entries \in Seq(LogEntries)
       /\ \A i \in DOMAIN Entries : Entries[i].call \in Calls
  BY Zenon, EntriesType
<1>16. PICK es \in Seq(LogEntries) : es = Entries
  BY Zenon, <1>15
<1>17. PICK fs : fs = Entries'
  BY Zenon
<1>18. /\ DOMAIN fs = 1 .. Len(es) + 1 /\ DOMAIN es = 1 .. Len(es) /\ Len(es) \in Nat
       /\ fs[Len(es) + 1] = e /\ \A i \in 1 .. Len(es) : fs[i] = es[i]
  BY <1>10, <1>14, <1>16, <1>17
<1>19. \A i \in 1 .. Len(es) :
          /\ es[i].call \in Calls /\ es[i].call # c
          /\ handler[es[i].call] # Idle /\ handler[es[i].call].pc = "done"
          /\ es[i].result => WasExecuted(es[i].call)
  BY Zenon, <1>0, <1>15, <1>16, <1>18 DEF EntriesSound
<1>20. \A i, j \in 1 .. Len(es) : es[i].call = es[j].call => i = j
  BY Zenon, <1>16, <1>18 DEF EntriesSound
<1>21. \A i, j \in DOMAIN fs : fs[i].call = fs[j].call => i = j
  BY <1>10, <1>18, <1>19, <1>20
<1>22. \A i \in 1 .. Len(es) :
          /\ handler'[fs[i].call] # Idle /\ handler'[fs[i].call].pc = "done"
          /\ fs[i].result => WasExecuted(fs[i].call)'
  BY Zenon, <1>8, <1>9, <1>18, <1>19
<1>23. /\ handler'[e.call] # Idle /\ handler'[e.call].pc = "done"
       /\ e.result => WasExecuted(e.call)'
  BY Zenon, <1>3, <1>4, <1>8, <1>9, <1>10
<1>24. \A i \in DOMAIN fs :
          /\ handler'[fs[i].call] # Idle /\ handler'[fs[i].call].pc = "done"
          /\ fs[i].result => WasExecuted(fs[i].call)'
  BY <1>18, <1>22, <1>23
<1>25. EntriesSound(Entries)'
  BY Zenon, <1>17, <1>21, <1>24 DEF EntriesSound
<1> QED BY Zenon, <1>7, <1>13, <1>25

LEMMA FrontInitSound == FrontInit => AccountsInv /\ FrontInv
<1> SUFFICES ASSUME FrontInit PROVE AccountsInv /\ FrontInv
  BY Zenon
<1>1. AccountsInv
  BY Zenon, InitSound DEF FrontInit
<1>2. HandlersSound /\ ExecutedSound
  BY Zenon DEF FrontInit, HandlersSound, ExecutedSound
<1>3. /\ buffer = <<>> /\ saved = <<>> /\ agent = [pc |-> "awake", logs |-> <<>>]
      /\ \A c \in Calls : handler[c] = Idle
  BY Zenon DEF FrontInit
<1>4. LogSound
  BY SMTT(60), <1>3 DEF LogSound
<1>5. Entries = <<>>
  BY <1>3 DEF Entries
<1>6. EntriesSound(Entries)
  BY <1>5 DEF EntriesSound
<1> QED BY Zenon, <1>1, <1>2, <1>4, <1>6 DEF FrontInv

LEMMA FrontNextSound == AccountsInv /\ FrontInv /\ [FrontNext]_vars => AccountsInv' /\ FrontInv'
<1> SUFFICES ASSUME AccountsInv, FrontInv, [FrontNext]_vars PROVE AccountsInv' /\ FrontInv'
  BY Zenon
<1>1. CASE UNCHANGED authVars
  <2>1. AccountsInv'
    BY Zenon, <1>1, NextSound
  <2>2. tokens \subseteq tokens' /\ grants \subseteq grants'
    BY Zenon, <1>1 DEF authVars
  <2>3. CASE UNCHANGED frontVars
    BY Zenon, <2>1, <2>2, <2>3, AccountsMove
  <2>4. CASE AgentStep
    BY Zenon, <2>1, <2>4, AgentSound
  <2>5. ASSUME NEW c \in Calls, PushLog(c)
        PROVE  FrontInv'
    BY Zenon, <2>5, PushSound
  <2>6. ASSUME NEW c \in Calls,
               \/ Authenticate(c) \/ CheckPrivilege(c) \/ LockClient(c) \/ Forward(c)
               \/ Gone(c) \/ \E u \in Ids, t \in tokens, api \in Apis : Receive(c, u, t, api)
        PROVE  FrontInv'
    BY Zenon, <1>1, <2>6, HandleSound
  <2> QED BY Zenon, <2>1, <2>3, <2>4, <2>5, <2>6 DEF FrontNext, Handle, vars
<1>2. CASE Next /\ UNCHANGED frontVars
  <2>1. AccountsInv'
    BY Zenon, <1>2, NextSound
  <2>2. tokens \subseteq tokens' /\ grants \subseteq grants'
    BY Zenon, <1>2, GrowOnly
  <2> QED BY Zenon, <1>2, <2>1, <2>2, AccountsMove
<1>3. UNCHANGED authVars \/ (Next /\ UNCHANGED frontVars)
  BY Zenon DEF FrontNext, AgentStep, Handle, LockBuffer, Drain, AgentLock, Send, Authenticate,
         CheckPrivilege, LockClient, Forward, PushLog, Gone, Receive, vars
<1> QED BY Zenon, <1>1, <1>2, <1>3

(* Whatever the handlers, the callers that go away, the restarts of the
   authentication service and the changes of roles do meanwhile, a call that the
   frontend passes on to management (authenticate, then check_api_privilege, then
   the call) carries a role that permits it and that its caller was given. *)
THEOREM ForwardedIsPermitted == FrontSpec => []ExecutedWasPermitted
<1>1. AccountsInv /\ FrontInv => ExecutedWasPermitted
  BY Zenon DEF FrontInv, ExecutedSound, ExecutedWasPermitted, Given
<1> QED BY <1>1, FrontInitSound, FrontNextSound, PTL DEF FrontSpec

(* However push_log, the agent's drain of the buffer and its failing saves
   interleave, no call has two entries in the audit log, and an entry that says
   success is about a call that management executed. *)
THEOREM AuditIsTrue == FrontSpec => []OneTrueEntry
<1>1. ASSUME AccountsInv, FrontInv
      PROVE  OneTrueEntry
  <2>1. PICK es \in Seq(LogEntries) : es = Entries
    BY Zenon, <1>1, EntriesType DEF FrontInv
  <2>2. EntriesSound(es) /\ DOMAIN es = 1 .. Len(es)
    BY <1>1, <2>1 DEF FrontInv
  <2>3. \A i, j \in 1 .. Len(es) : es[i].call = es[j].call => i = j
    BY Zenon, <2>2 DEF EntriesSound
  <2>4. \A i \in 1 .. Len(es) : es[i].result => \E e \in executed : e.call = es[i].call
    BY Zenon, <2>2 DEF EntriesSound, WasExecuted
  <2> QED BY Zenon, <2>1, <2>3, <2>4 DEF OneTrueEntry
<1> QED BY <1>1, FrontInitSound, FrontNextSound, PTL DEF FrontSpec
=============================================================================
