--------------------------- MODULE Service_proofs ---------------------------
(***************************************************************************)
(* What the API's own services promise, proved for any set of users,       *)
(* findings, handlers, links and assets, and any number of tenants,        *)
(* tickets, commits and days: accounts, remediation projects, the client   *)
(* portal, tickets, the self-update and the asset inventory.  They share   *)
(* no state, so each section stands by itself.                             *)
(***************************************************************************)
EXTENDS Accounts, Projects, Portal, Tickets, SelfUpdate, Inventory, TLAPS

-----------------------------------------------------------------------------
(***************************************************************************)
(* Accounts.                                                               *)
(***************************************************************************)
Completing(w, u) == call[w].pc = "membership" /\ call[w].user = u

(***************************************************************************)
(* Calls in flight are about tenants and users that exist.                 *)
(***************************************************************************)
CallsInOrder ==
    \A w \in Workers :
        /\ call[w].pc \in {"user", "membership"} => call[w].tenant \in 1..tenants
        /\ call[w].pc \in {"membership", "replace"} => password[call[w].user] # "none"
        /\ call[w].pc # "idle" /\ call[w].kind = "start" => call[w].user = Admin

(***************************************************************************)
(* Only the call that wrote a user's row gives that user a membership, and *)
(* no other call ever writes such a row again: usernames are UNIQUE.       *)
(***************************************************************************)
OneCreator ==
    \A w \in Workers : \A u \in Usernames :
        Completing(w, u) => /\ UserAuth(u) = {}
                            /\ \A v \in Workers : Completing(v, u) => v = w

OneMembership == \A m, n \in memberships : m[1] = n[1] => m = n

MembersExist == \A m \in memberships : password[m[1]] # "none"

SignedAreMembers == sessions \subseteq memberships

\* A user without a membership is being given one, or never will be.
NobodyIsForgotten ==
    \A u \in Usernames :
        password[u] # "none" => \/ UserAuth(u) # {}
                                \/ u \in torn
                                \/ \E w \in Workers : Completing(w, u)

SeededMeansAdmin == seeded => password[Admin] # "none"

AccountsIInv ==
    /\ AccountsTypeOK
    /\ CallsInOrder
    /\ OneCreator
    /\ OneMembership
    /\ MembersExist
    /\ SignedAreMembers
    /\ NobodyIsForgotten
    /\ SeededMeansAdmin

-----------------------------------------------------------------------------
\* The shape of an idle call.
LEMMA NoCallIsACall == NoCall \in Call /\ NoCall.pc = "idle" /\ NoCall.kind = "register"
  <1>1. (CHOOSE p \in Passwords : TRUE) \in Passwords
    BY AccountsAssumption
  <1>2. "viewer" \in Roles /\ 0 \in 0..MaxTenants
    BY AccountsAssumption DEF Roles, Rank
  <1> QED
    BY <1>1, <1>2, AccountsAssumption DEF NoCall, Call

\* Owners exist.
LEMMA OwnerIsARole == "owner" \in Roles
  BY DEF Roles, Rank

\* The invariant of the accounts holds at first.
LEMMA AccountsInitIInv == AccountsInit => AccountsIInv
  <1> SUFFICES ASSUME AccountsInit PROVE AccountsIInv
    OBVIOUS
  <1> USE DEF AccountsInit
  <1>1. AccountsTypeOK
    <2>1. 0 \in 0..MaxTenants /\ 0 \in 0..MaxDeaths
      BY AccountsAssumption
    <2>2. /\ tenants \in 0..MaxTenants /\ deaths \in 0..MaxDeaths
          /\ memberships = {} /\ apiKeys = {} /\ sessions = {} /\ torn = {}
          /\ seeded \in BOOLEAN
      BY <2>1
    <2>3. password \in [Usernames -> Passwords \union {"none"}] /\ call \in [Workers -> Call]
      BY NoCallIsACall
    <2> QED
      BY <2>2, <2>3 DEF AccountsTypeOK
  <1>2. CallsInOrder /\ OneCreator
    BY NoCallIsACall DEF CallsInOrder, OneCreator, Completing
  <1>3. OneMembership /\ MembersExist /\ SignedAreMembers /\ NobodyIsForgotten /\ SeededMeansAdmin
    BY DEF OneMembership, MembersExist, SignedAreMembers, NobodyIsForgotten, SeededMeansAdmin
  <1> QED
    BY <1>1, <1>2, <1>3 DEF AccountsIInv

(***************************************************************************)
(* A worker that moves on without touching users or memberships.           *)
(***************************************************************************)
LEMMA CallMovesOn ==
    ASSUME AccountsIInv, NEW w \in Workers, NEW c \in Call,
           call' = [call EXCEPT ![w] = c],
           c.pc \in {"idle", "user", "replace"}, call[w].pc # "membership",
           c.pc = "user" => c.tenant \in 1..tenants',
           c.pc = "replace" => password[c.user] # "none",
           c.pc # "idle" /\ c.kind = "start" => c.user = Admin,
           tenants' \in {tenants, tenants + 1}, tenants' <= MaxTenants,
           UNCHANGED <<password, memberships, apiKeys, sessions, torn>>,
           deaths' \in 0..MaxDeaths,
           seeded' \in BOOLEAN, seeded' => password[Admin] # "none"
    PROVE  AccountsIInv'
  <1> USE DEF AccountsIInv
  <1>1. /\ tenants' \in 0..MaxTenants
        /\ 1..tenants \subseteq 1..tenants'
    BY AccountsAssumption DEF AccountsTypeOK
  <1>2. AccountsTypeOK'
    BY <1>1 DEF AccountsTypeOK
  <1>3. \A v \in Workers : call'[v] = IF v = w THEN c ELSE call[v]
    BY DEF AccountsTypeOK
  <1>4. \A v \in Workers, u \in Usernames : Completing(v, u)' <=> Completing(v, u)
    BY <1>3 DEF Completing
  <1>5. CallsInOrder'
    BY <1>1, <1>3 DEF CallsInOrder
  <1>6. OneCreator' /\ NobodyIsForgotten'
    BY <1>4 DEF OneCreator, NobodyIsForgotten, UserAuth
  <1>7. OneMembership' /\ MembersExist' /\ SignedAreMembers' /\ SeededMeansAdmin'
    BY DEF OneMembership, MembersExist, SignedAreMembers, SeededMeansAdmin
  <1> QED
    BY <1>2, <1>5, <1>6, <1>7

\* A tenant is created: calls move on, nobody becomes a member.
LEMMA CreateTenantKeeps ==
    ASSUME AccountsIInv, NEW w \in Workers, NEW u \in Usernames, NEW p \in Passwords,
           NEW kind \in {"register", "start"}, kind = "start" => u = Admin,
           Free(w), CreateTenant(w, u, p, kind),
           UNCHANGED <<password, memberships, apiKeys, deaths, sessions, torn, seeded>>
    PROVE  AccountsIInv'
  <1> DEFINE c == [pc |-> "user", kind |-> kind, user |-> u, tenant |-> tenants + 1,
                   role |-> "owner", new |-> p]
  <1>1. /\ call' = [call EXCEPT ![w] = c] /\ tenants' = tenants + 1 /\ tenants' <= MaxTenants
        /\ tenants \in Nat
    BY AccountsAssumption DEF CreateTenant, AccountsIInv, AccountsTypeOK
  <1>2. tenants + 1 \in 1..tenants' /\ tenants + 1 \in 0..MaxTenants
    BY <1>1, AccountsAssumption
  <1>3. c \in Call
    BY <1>2, OwnerIsARole DEF Call
  <1>4. /\ c.pc = "user" /\ c.kind = kind /\ c.user = u /\ c.tenant = tenants + 1
        /\ call[w].pc = "idle"
    BY DEF Free
  <1> HIDE DEF c
  <1>5. deaths' \in 0..MaxDeaths /\ seeded' \in BOOLEAN /\ (seeded' => password[Admin] # "none")
    BY DEF AccountsIInv, AccountsTypeOK, SeededMeansAdmin
  <1> QED
    BY <1>1, <1>2, <1>3, <1>4, <1>5, CallMovesOn

\* A registration begins.
LEMMA RegisterKeeps ==
    ASSUME AccountsIInv, NEW w \in Workers, NEW u \in Usernames, NEW p \in Passwords, Register(w, u, p)
    PROVE  AccountsIInv'
  BY CreateTenantKeeps DEF Register

\* A start looks for the admin.
LEMMA EnsureDefaultAdminKeeps ==
    ASSUME AccountsIInv, NEW w \in Workers, NEW p \in Passwords, EnsureDefaultAdmin(w, p)
    PROVE  AccountsIInv'
  <1>1. CASE UserAuth(Admin) # {}
    <2>1. password[Admin] # "none"
      BY <1>1 DEF AccountsIInv, MembersExist, UserAuth
    <2>2. UNCHANGED <<tenants, password, memberships, apiKeys, call, deaths, sessions, torn>>
          /\ seeded' = TRUE
      BY <1>1 DEF EnsureDefaultAdmin
    <2> QED
      BY <2>1, <2>2 DEF AccountsIInv, AccountsTypeOK, CallsInOrder, OneCreator, OneMembership,
         MembersExist, SignedAreMembers, NobodyIsForgotten, SeededMeansAdmin, Completing, UserAuth
  <1>2. CASE UserAuth(Admin) = {}
    BY <1>2, CreateTenantKeeps, AccountsAssumption DEF EnsureDefaultAdmin
  <1> QED
    BY <1>1, <1>2

\* An administrator adds a member.
LEMMA CreateMemberKeeps ==
    ASSUME AccountsIInv, NEW w \in Workers, NEW u \in Usernames, NEW p \in Passwords,
           NEW tenant \in 1..tenants, NEW role \in Granted, NEW by \in Roles,
           CreateMember(w, u, p, tenant, role, by)
    PROVE  AccountsIInv'
  <1> DEFINE c == [pc |-> "user", kind |-> "member", user |-> u, tenant |-> tenant,
                   role |-> role, new |-> p]
  <1>1. call' = [call EXCEPT ![w] = c] /\ call[w].pc = "idle"
        /\ UNCHANGED <<tenants, password, memberships, apiKeys, deaths, sessions, torn, seeded>>
    BY DEF CreateMember, Free
  <1>2. tenant \in 0..MaxTenants /\ role \in Roles /\ tenants \in 0..MaxTenants
    BY AccountsAssumption DEF AccountsIInv, AccountsTypeOK
  <1>3. c \in Call /\ c.pc = "user" /\ c.kind = "member" /\ c.tenant = tenant
    BY <1>2 DEF Call
  <1> HIDE DEF c
  <1>4. deaths' \in 0..MaxDeaths /\ seeded' \in BOOLEAN /\ (seeded' => password[Admin] # "none")
    BY <1>1 DEF AccountsIInv, AccountsTypeOK, SeededMeansAdmin
  <1>5. tenants' \in {tenants, tenants + 1} /\ tenants' <= MaxTenants /\ c.tenant \in 1..tenants'
    BY <1>1, <1>2, <1>3, AccountsAssumption
  <1> QED
    BY <1>1, <1>3, <1>4, <1>5, CallMovesOn

\* A user asks for a new password.
LEMMA ChangePasswordKeeps ==
    ASSUME AccountsIInv, NEW w \in Workers, NEW u \in Usernames, NEW current \in Passwords,
           NEW new \in Passwords, ChangePassword(w, u, current, new)
    PROVE  AccountsIInv'
  <1> DEFINE c == [NoCall EXCEPT !.pc = "replace", !.user = u, !.new = new]
  <1>1. call' = [call EXCEPT ![w] = c] /\ call[w].pc = "idle" /\ password[u] # "none"
        /\ UNCHANGED <<tenants, password, memberships, apiKeys, deaths, sessions, torn, seeded>>
    BY AccountsAssumption DEF ChangePassword, Free
  <1>2. c \in Call /\ c.pc = "replace" /\ c.kind = "register" /\ c.user = u
    BY NoCallIsACall DEF Call
  <1> HIDE DEF c
  <1>3. deaths' \in 0..MaxDeaths /\ seeded' \in BOOLEAN /\ (seeded' => password[Admin] # "none")
    BY <1>1 DEF AccountsIInv, AccountsTypeOK, SeededMeansAdmin
  <1>4. tenants' \in {tenants, tenants + 1} /\ tenants' <= MaxTenants
    BY <1>1, AccountsAssumption DEF AccountsIInv, AccountsTypeOK
  <1> QED
    BY <1>1, <1>2, <1>3, <1>4, CallMovesOn

(***************************************************************************)
(* The user's row is written, once.                                        *)
(***************************************************************************)
LEMMA CreateUserKeeps ==
    ASSUME AccountsIInv, NEW w \in Workers, CreateUser(w)
    PROVE  AccountsIInv'
  <1> USE DEF AccountsIInv
  <1> DEFINE u == call[w].user
  <1>1. /\ u \in Usernames /\ call[w].new \in Passwords /\ call[w] \in Call
        /\ call[w].pc = "user" /\ call[w].tenant \in 1..tenants
        /\ call[w].kind = "start" => u = Admin
        /\ UNCHANGED <<tenants, memberships, apiKeys, deaths, sessions, torn>>
    BY DEF CreateUser, AccountsTypeOK, Call, CallsInOrder
  <1>2. CASE password[u] = "none"
    <2>1. /\ password' = [password EXCEPT ![u] = call[w].new]
          /\ call' = [call EXCEPT ![w].pc = "membership"]
          /\ UNCHANGED seeded
      BY <1>2 DEF CreateUser
    <2>2. UserAuth(u) = {} /\ \A v \in Workers : ~Completing(v, u)
      BY <1>2 DEF UserAuth, MembersExist, CallsInOrder, Completing
    <2>3. \A v \in Workers : /\ call'[v].pc = IF v = w THEN "membership" ELSE call[v].pc
                             /\ call'[v].user = call[v].user
                             /\ call'[v].tenant = call[v].tenant
                             /\ call'[v].kind = call[v].kind
      BY <2>1 DEF AccountsTypeOK, Call
    <2>4. AccountsTypeOK'
      BY <1>1, <2>1 DEF AccountsTypeOK, Call
    <2>5. \A x \in Usernames : /\ password[x] # "none" => password'[x] # "none"
                               /\ password'[x] # "none" => password[x] # "none" \/ x = u
      BY <1>1, <2>1, AccountsAssumption DEF AccountsTypeOK
    <2>6. password'[u] # "none"
      BY <1>1, <2>1, AccountsAssumption DEF AccountsTypeOK
    <2>7. CallsInOrder'
      BY <1>1, <2>3, <2>5, <2>6 DEF CallsInOrder, AccountsTypeOK, Call
    <2>8. \A v \in Workers, x \in Usernames :
              Completing(v, x)' <=> (Completing(v, x) \/ (v = w /\ x = u))
      BY <1>1, <2>3 DEF Completing
    <2>9. OneCreator'
      BY <1>1, <2>2, <2>8 DEF OneCreator, UserAuth
    <2>10. OneMembership' /\ SignedAreMembers'
      BY <1>1 DEF OneMembership, SignedAreMembers
    <2>11. MembersExist'
      BY <1>1, <2>5 DEF MembersExist, AccountsTypeOK
    <2>12. NobodyIsForgotten'
      BY <1>1, <2>5, <2>8 DEF NobodyIsForgotten, UserAuth
    <2>13. SeededMeansAdmin'
      BY <2>1, <2>5, AccountsAssumption DEF SeededMeansAdmin
    <2> QED
      BY <2>4, <2>7, <2>9, <2>10, <2>11, <2>12, <2>13
  <1>3. CASE password[u] # "none"
    <2>1. /\ call' = [call EXCEPT ![w] = NoCall] /\ UNCHANGED password
          /\ seeded' = (seeded \/ call[w].kind = "start")
      BY <1>3 DEF CreateUser, Return
    <2>2. seeded' \in BOOLEAN /\ (seeded' => password[Admin] # "none")
      BY <1>1, <1>3, <2>1 DEF AccountsTypeOK, SeededMeansAdmin
    <2>3. deaths' \in 0..MaxDeaths /\ tenants' \in {tenants, tenants + 1} /\ tenants' <= MaxTenants
      BY <1>1, AccountsAssumption DEF AccountsTypeOK
    <2> QED
      BY <1>1, <2>1, <2>2, <2>3, NoCallIsACall, CallMovesOn
  <1> QED
    BY <1>2, <1>3

(***************************************************************************)
(* The membership follows, and a session for whoever registered.           *)
(***************************************************************************)
LEMMA AddMembershipKeeps ==
    ASSUME AccountsIInv, NEW w \in Workers, AddMembership(w)
    PROVE  AccountsIInv'
  <1> USE DEF AccountsIInv
  <1> DEFINE u == call[w].user
             grant == <<u, call[w].tenant, call[w].role>>
  <1>1. /\ u \in Usernames /\ call[w].tenant \in 1..tenants /\ call[w].role \in Roles
        /\ Completing(w, u) /\ password[u] # "none"
        /\ call[w].kind = "start" => u = Admin
    BY DEF AddMembership, AccountsTypeOK, Call, CallsInOrder, Completing
  <1>2. UserAuth(u) = {} /\ \A v \in Workers : Completing(v, u) => v = w
    BY <1>1 DEF OneCreator
  <1>3. \A m \in memberships : m[1] # u
    BY <1>2 DEF UserAuth
  <1>4. /\ memberships' = memberships \union {grant}
        /\ sessions' \in {sessions, sessions \union {grant}}
        /\ seeded' = (seeded \/ call[w].kind = "start")
        /\ call' = [call EXCEPT ![w] = NoCall]
        /\ UNCHANGED <<tenants, password, apiKeys, deaths, torn>>
    BY <1>3 DEF AddMembership, Return
  <1>5. grant \in Usernames \X (1..tenants) \X Roles /\ grant[1] = u
    BY <1>1
  <1> HIDE DEF grant
  <1>6. AccountsTypeOK'
    BY <1>4, <1>5, NoCallIsACall DEF AccountsTypeOK
  <1>7. \A v \in Workers : call'[v] = IF v = w THEN NoCall ELSE call[v]
    BY <1>4 DEF AccountsTypeOK
  <1>8. CallsInOrder'
    BY <1>4, <1>7, NoCallIsACall DEF CallsInOrder
  <1>9. \A v \in Workers, x \in Usernames : Completing(v, x)' <=> Completing(v, x) /\ v # w
    BY <1>7, NoCallIsACall DEF Completing
  <1>10. \A x \in Usernames : UserAuth(x)' = IF x = u THEN {grant} ELSE UserAuth(x)
    BY <1>3, <1>4, <1>5 DEF UserAuth
  <1>11. OneCreator'
    BY <1>2, <1>9, <1>10 DEF OneCreator
  <1>12. OneMembership' /\ SignedAreMembers'
    BY <1>3, <1>4, <1>5 DEF OneMembership, SignedAreMembers
  <1>13. MembersExist'
    BY <1>1, <1>4, <1>5 DEF MembersExist
  <1>14. NobodyIsForgotten'
    <2> SUFFICES ASSUME NEW x \in Usernames, password[x] # "none"
                 PROVE  UserAuth(x)' # {} \/ x \in torn \/ \E v \in Workers : Completing(v, x)'
      BY <1>4 DEF NobodyIsForgotten
    <2>1. CASE x = u
      BY <1>10, <2>1
    <2>2. CASE x # u
      <3>1. \A v \in Workers : Completing(v, x) => v # w
        BY <2>2 DEF Completing
      <3> QED
        BY <1>9, <1>10, <2>2, <3>1 DEF NobodyIsForgotten
    <2> QED
      BY <2>1, <2>2
  <1>15. SeededMeansAdmin'
    BY <1>1, <1>4 DEF SeededMeansAdmin
  <1> QED
    BY <1>6, <1>8, <1>11, <1>12, <1>13, <1>14, <1>15

(***************************************************************************)
(* Steps on what is there.                                                 *)
(***************************************************************************)
LEMMA CreateApiKeyKeeps ==
    ASSUME AccountsIInv, NEW tenant \in 1..tenants, NEW role \in Granted, NEW by \in Roles,
           CreateApiKey(tenant, role, by)
    PROVE  AccountsIInv'
  <1>1. AccountsTypeOK'
    BY AccountsAssumption DEF CreateApiKey, AccountsIInv, AccountsTypeOK
  <1> QED
    BY <1>1 DEF CreateApiKey, AccountsIInv, CallsInOrder, OneCreator, OneMembership, MembersExist,
       SignedAreMembers, NobodyIsForgotten, SeededMeansAdmin, Completing, UserAuth

\* A login signs a session of a membership that exists.
LEMMA LoginKeeps ==
    ASSUME AccountsIInv, NEW u \in Usernames, NEW p \in Passwords, Login(u, p)
    PROVE  AccountsIInv'
  <1>1. PICK m \in memberships : sessions' = sessions \union {m}
    BY DEF Login, UserAuth
  <1>2. AccountsTypeOK' /\ SignedAreMembers'
    BY <1>1 DEF Login, AccountsIInv, AccountsTypeOK, SignedAreMembers
  <1> QED
    BY <1>2 DEF Login, AccountsIInv, CallsInOrder, OneCreator, OneMembership, MembersExist,
       NobodyIsForgotten, SeededMeansAdmin, Completing, UserAuth

\* A new password is accepted or refused.
LEMMA NewPasswordKeeps ==
    ASSUME AccountsIInv, NEW u \in Usernames, NEW p \in Passwords, password[u] # "none",
           password' = [password EXCEPT ![u] = p],
           UNCHANGED <<tenants, memberships, apiKeys, call, deaths, sessions, torn, seeded>>
    PROVE  AccountsIInv'
  <1> USE DEF AccountsIInv
  <1>1. \A x \in Usernames : password'[x] # "none" <=> password[x] # "none"
    BY AccountsAssumption DEF AccountsTypeOK
  <1>2. AccountsTypeOK'
    BY DEF AccountsTypeOK
  <1>3. CallsInOrder' /\ MembersExist' /\ SeededMeansAdmin' /\ NobodyIsForgotten'
    BY <1>1, AccountsAssumption DEF CallsInOrder, MembersExist, SeededMeansAdmin,
       NobodyIsForgotten, AccountsTypeOK, Call, Completing, UserAuth
  <1> QED
    BY <1>2, <1>3 DEF OneCreator, OneMembership, SignedAreMembers, Completing, UserAuth

\* The row is replaced by one of the same user.
LEMMA ReplacePasswordKeeps ==
    ASSUME AccountsIInv, NEW w \in Workers, ReplacePassword(w)
    PROVE  AccountsIInv'
  <1> USE DEF AccountsIInv
  <1> DEFINE u == call[w].user
  <1>1. /\ u \in Usernames /\ call[w].new \in Passwords /\ password[u] # "none"
        /\ call[w].pc = "replace"
    BY DEF ReplacePassword, AccountsTypeOK, Call, CallsInOrder
  <1>2. /\ password' = [password EXCEPT ![u] = call[w].new]
        /\ call' = [call EXCEPT ![w] = NoCall]
        /\ UNCHANGED <<tenants, memberships, apiKeys, deaths, sessions, torn, seeded>>
    BY DEF ReplacePassword, Return
  <1>3. \A x \in Usernames : password'[x] # "none" <=> password[x] # "none"
    BY <1>1, <1>2, AccountsAssumption DEF AccountsTypeOK
  <1>4. \A v \in Workers : call'[v] = IF v = w THEN NoCall ELSE call[v]
    BY <1>2 DEF AccountsTypeOK
  <1>5. \A v \in Workers, x \in Usernames : Completing(v, x)' <=> Completing(v, x)
    BY <1>1, <1>4, NoCallIsACall DEF Completing
  <1>6. AccountsTypeOK'
    BY <1>1, <1>2, NoCallIsACall DEF AccountsTypeOK
  <1>7. CallsInOrder'
    BY <1>2, <1>3, <1>4, NoCallIsACall DEF CallsInOrder, AccountsTypeOK, Call
  <1>8. MembersExist' /\ SeededMeansAdmin'
    BY <1>2, <1>3, AccountsAssumption DEF MembersExist, SeededMeansAdmin, AccountsTypeOK
  <1>9. OneCreator' /\ NobodyIsForgotten'
    BY <1>2, <1>3, <1>5 DEF OneCreator, NobodyIsForgotten, UserAuth
  <1> QED
    BY <1>2, <1>6, <1>7, <1>8, <1>9 DEF OneMembership, SignedAreMembers

\* A call that dies on its way to the membership leaves its user behind.
LEMMA CallDiesKeeps ==
    ASSUME AccountsIInv, NEW w \in Workers, CallDies(w)
    PROVE  AccountsIInv'
  <1> USE DEF AccountsIInv
  <1>1. /\ call' = [call EXCEPT ![w] = NoCall]
        /\ torn' = IF call[w].pc = "membership" THEN torn \union {call[w].user} ELSE torn
        /\ UNCHANGED <<tenants, password, memberships, apiKeys, sessions, seeded>>
    BY DEF CallDies, Return
  <1>2. AccountsTypeOK'
    <2>1. deaths' \in 0..MaxDeaths
      BY AccountsAssumption DEF CallDies, AccountsTypeOK
    <2> QED
      BY <1>1, <2>1, NoCallIsACall DEF AccountsTypeOK, Call
  <1>3. \A v \in Workers : call'[v] = IF v = w THEN NoCall ELSE call[v]
    BY <1>1 DEF AccountsTypeOK
  <1>4. \A v \in Workers, x \in Usernames : Completing(v, x)' <=> Completing(v, x) /\ v # w
    BY <1>3, NoCallIsACall DEF Completing
  <1>5. CallsInOrder'
    BY <1>1, <1>3, NoCallIsACall DEF CallsInOrder
  <1>6. OneCreator'
    BY <1>1, <1>4 DEF OneCreator, UserAuth
  <1>7. NobodyIsForgotten'
    <2>1. \A x \in Usernames : Completing(w, x) => x \in torn'
      BY <1>1 DEF Completing
    <2>2. torn \subseteq torn'
      BY <1>1
    <2> QED
      BY <1>1, <1>4, <2>1, <2>2 DEF NobodyIsForgotten, UserAuth
  <1> QED
    BY <1>1, <1>2, <1>5, <1>6, <1>7 DEF OneMembership, MembersExist, SignedAreMembers,
       SeededMeansAdmin

-----------------------------------------------------------------------------
\* Every step of the account store keeps its invariant.
LEMMA AccountsNextIInv == AccountsIInv /\ [AccountsNext]_accountVars => AccountsIInv'
  <1> SUFFICES ASSUME AccountsIInv, [AccountsNext]_accountVars PROVE AccountsIInv'
    OBVIOUS
  <1>1. ASSUME NEW w \in Workers, NEW p \in Passwords, EnsureDefaultAdmin(w, p) PROVE AccountsIInv'
    BY <1>1, EnsureDefaultAdminKeeps
  <1>2. ASSUME NEW w \in Workers, NEW u \in Usernames, NEW p \in Passwords, Register(w, u, p)
        PROVE  AccountsIInv'
    BY <1>2, RegisterKeeps
  <1>3. ASSUME NEW w \in Workers, NEW u \in Usernames, NEW p \in Passwords,
               NEW tenant \in 1..tenants, NEW role \in Granted, NEW by \in Roles,
               CreateMember(w, u, p, tenant, role, by)
        PROVE  AccountsIInv'
    BY <1>3, CreateMemberKeeps
  <1>4. ASSUME NEW w \in Workers, NEW u \in Usernames, NEW p \in Passwords,
               NEW new \in Passwords, ChangePassword(w, u, p, new)
        PROVE  AccountsIInv'
    BY <1>4, ChangePasswordKeeps
  <1>5. ASSUME NEW w \in Workers, CreateUser(w) PROVE AccountsIInv'
    BY <1>5, CreateUserKeeps
  <1>6. ASSUME NEW w \in Workers, AddMembership(w) PROVE AccountsIInv'
    BY <1>6, AddMembershipKeeps
  <1>7. ASSUME NEW w \in Workers, ReplacePassword(w) PROVE AccountsIInv'
    BY <1>7, ReplacePasswordKeeps
  <1>8. ASSUME NEW w \in Workers, CallDies(w) PROVE AccountsIInv'
    BY <1>8, CallDiesKeeps
  <1>9. ASSUME NEW tenant \in 1..tenants, NEW role \in Granted, NEW by \in Roles,
               CreateApiKey(tenant, role, by)
        PROVE  AccountsIInv'
    BY <1>9, CreateApiKeyKeeps
  <1>10. ASSUME NEW u \in Usernames, NEW p \in Passwords, Login(u, p) PROVE AccountsIInv'
    BY <1>10, LoginKeeps
  <1>11. ASSUME NEW u \in Usernames, NEW p \in Passwords, ResetPassword(u, p) PROVE AccountsIInv'
    BY <1>11, NewPasswordKeeps DEF ResetPassword
  <1>12. CASE UNCHANGED accountVars
    BY <1>12 DEF accountVars, AccountsIInv, AccountsTypeOK, CallsInOrder, OneCreator, OneMembership,
       MembersExist, SignedAreMembers, NobodyIsForgotten, SeededMeansAdmin, Completing, UserAuth
  <1> QED
    BY <1>1, <1>2, <1>3, <1>4, <1>5, <1>6, <1>7, <1>8, <1>9, <1>10, <1>11, <1>12
       DEF AccountsNext

\* One membership per user is one identity per user.
LEMMA MembersHaveOneIdentity == AccountsIInv => OneIdentityPerUser
  BY DEF AccountsIInv, OneIdentityPerUser, OneMembership, SignedAreMembers

\* An admin who has a row and is not forgotten can log in.
LEMMA SeededAdminLogsIn == AccountsIInv => AdminAfterStart
  <1> SUFFICES ASSUME AccountsIInv, seeded, \A w \in Workers : Free(w), Admin \notin torn
               PROVE  UserAuth(Admin) # {}
    BY DEF AdminAfterStart
  <1>1. password[Admin] # "none"
    BY DEF AccountsIInv, SeededMeansAdmin
  <1>2. \A w \in Workers : ~Completing(w, Admin)
    BY DEF Free, Completing
  <1> QED
    BY <1>1, <1>2, AccountsAssumption DEF AccountsIInv, NobodyIsForgotten

-----------------------------------------------------------------------------
\* The inductive invariant holds in every reachable state.
THEOREM AccountsInvariance == AccountsSpec => []AccountsIInv
  BY AccountsInitIInv, AccountsNextIInv, PTL DEF AccountsSpec

\* Types: memberships, keys and sessions are of tenants that exist.
THEOREM AccountsTypeCorrect == AccountsSpec => []AccountsTypeOK
  BY AccountsInvariance, PTL DEF AccountsIInv

\* A user is the same to every session ever signed: no interleaving of
\* registrations, new members and starts gives a user a second membership.
THEOREM UsersAreOne == AccountsSpec => []OneIdentityPerUser
  BY AccountsInvariance, MembersHaveOneIdentity, PTL

\* Once a start has seen to the admin, the admin can log in at rest, unless the
\* call that created that account died before its last commit.
THEOREM AdminCanLogIn == AccountsSpec => []AdminAfterStart
  BY AccountsInvariance, SeededAdminLogsIn, PTL

-----------------------------------------------------------------------------
(***************************************************************************)
(* Remediation projects.                                                   *)
(***************************************************************************)
InProgress(d) == request[d].pc # "idle"

\* Nothing happens before the project is created, and it is created once.
CreatedFirst ==
    changes = 0 => ~project.there /\ ~settled /\ \A d \in Handlers : ~InProgress(d)

\* Only a project that is there is copied.
CopiesAreThere == \A d \in Handlers : InProgress(d) => request[d].copy.there

(***************************************************************************)
(* While updates have not overlapped there is one at most, and its copy is *)
(* the project, unless the project has been deleted since.                 *)
(***************************************************************************)
UpdatesApart ==
    apart => /\ project = wanted
             /\ \A d, e \in Updating : d = e
             /\ \A d \in Updating : project.there => request[d].copy = project

(***************************************************************************)
(* A handler that has been alone since its request began holds a copy of   *)
(* the project, and nothing has made its progress out of date.             *)
(***************************************************************************)
AloneIsAlone ==
    \A d, e \in Handlers : InProgress(d) /\ request[d].alone /\ InProgress(e) => d = e

AloneIsCurrent ==
    \A d \in Handlers :
        InProgress(d) /\ request[d].alone /\ project.there => request[d].copy = project

CloseIsEarned ==
    \A d \in Updating :
        request[d].auto => /\ request[d].patch = Close
                           /\ request[d].alone => Complete(request[d].copy.items)

ProjectsIInv ==
    /\ ProjectsTypeOK
    /\ CreatedFirst
    /\ CopiesAreThere
    /\ UpdatesApart
    /\ AloneIsAlone
    /\ AloneIsCurrent
    /\ CloseIsEarned
    /\ OpenOnRecordKeepsItOpen

-----------------------------------------------------------------------------
\* The shape of the project that is not there.
LEMMA NoProjectIsAProject == NoProject \in Project /\ ~NoProject.there
  BY DEF NoProject, Project

\* Closing is a change like any other.
LEMMA CloseIsAPatch == Close \in Patch
  BY DEF Close, Patch

\* The shape of an idle request.
LEMMA NoRequestIsARequest == NoRequest \in Request /\ NoRequest.pc = "idle"
  BY NoProjectIsAProject, CloseIsAPatch DEF NoRequest, Request

\* Applying a change gives a project.
LEMMA AppliedIsAProject ==
    ASSUME NEW p \in Project, NEW patch \in Patch
    PROVE  /\ Apply(p, patch) \in Project
           /\ Apply(p, patch).there = p.there
           /\ Apply(p, Close).status = "closed"
           /\ Apply(p, Close).items = p.items
  BY DEF Apply, Project, Patch, Close

\* A request that is joined by another is no longer alone.
LEMMA CrowdedRequests ==
    ASSUME ProjectsTypeOK
    PROVE  /\ Crowded(request) \in [Handlers -> Request]
           /\ \A d \in Handlers : /\ ~Crowded(request)[d].alone
                                  /\ Crowded(request)[d].pc = request[d].pc
                                  /\ Crowded(request)[d].copy = request[d].copy
                                  /\ Crowded(request)[d].patch = request[d].patch
                                  /\ Crowded(request)[d].auto = request[d].auto
  BY DEF Crowded, ProjectsTypeOK, Request

\* The invariant of the projects holds at first.
LEMMA ProjectsInitIInv == ProjectsInit => ProjectsIInv
  <1> SUFFICES ASSUME ProjectsInit PROVE ProjectsIInv
    OBVIOUS
  <1>1. ProjectsTypeOK
    <2>1. 0 \in 0..MaxChanges
      BY ProjectsAssumption
    <2>2. project \in Project /\ wanted \in Project /\ request \in [Handlers -> Request]
      BY NoProjectIsAProject, NoRequestIsARequest DEF ProjectsInit
    <2> QED
      BY <2>1, <2>2 DEF ProjectsInit, ProjectsTypeOK
  <1>2. \A d \in Handlers : ~InProgress(d) /\ d \notin Updating
    BY NoRequestIsARequest DEF ProjectsInit, InProgress, Updating
  <1> QED
    BY <1>1, <1>2, NoProjectIsAProject DEF ProjectsInit, ProjectsIInv, CreatedFirst, CopiesAreThere,
       UpdatesApart, AloneIsAlone, AloneIsCurrent, CloseIsEarned, OpenOnRecordKeepsItOpen, Updating

-----------------------------------------------------------------------------
(***************************************************************************)
(* Requests                                                                *)
(***************************************************************************)
LEMMA CreateKeeps ==
    ASSUME ProjectsIInv, NEW c \in Handlers, NEW items \in SUBSET Items, CreateProject(c, items)
    PROVE  ProjectsIInv'
  <1> USE DEF ProjectsIInv
  <1> DEFINE new == [there |-> TRUE, status |-> "open", items |-> items]
             r == [NoRequest EXCEPT !.pc = "show", !.copy = new]
  <1>1. /\ project' = new /\ wanted' = new /\ changes' = 1 /\ new \in Project
        /\ request' = [request EXCEPT ![c] = r]
        /\ UNCHANGED <<finding, apart, settled>>
        /\ ~settled /\ \A d \in Handlers : ~InProgress(d)
    BY DEF CreateProject, CreatedFirst, Project
  <1>2. r \in Request /\ r.pc = "show" /\ r.copy = new /\ new.there
    BY <1>1, NoRequestIsARequest DEF Request
  <1> HIDE DEF new, r
  <1>3. ProjectsTypeOK'
    BY <1>1, <1>2, ProjectsAssumption DEF ProjectsTypeOK
  <1>4. \A d \in Handlers : request'[d] = IF d = c THEN r ELSE request[d]
    BY <1>1 DEF ProjectsTypeOK
  <1>5. Updating' = {} /\ \A d \in Handlers : InProgress(d)' <=> d = c
    BY <1>1, <1>2, <1>4 DEF Updating, InProgress
  <1>6. CreatedFirst' /\ UpdatesApart' /\ CloseIsEarned' /\ OpenOnRecordKeepsItOpen'
    BY <1>1, <1>5 DEF CreatedFirst, UpdatesApart, CloseIsEarned, OpenOnRecordKeepsItOpen
  <1>7. CopiesAreThere' /\ AloneIsAlone' /\ AloneIsCurrent'
    BY <1>1, <1>2, <1>4, <1>5 DEF CopiesAreThere, AloneIsAlone, AloneIsCurrent
  <1> QED
    BY <1>3, <1>6, <1>7

\* A PATCH takes its copy.
LEMMA PatchKeeps ==
    ASSUME ProjectsIInv, NEW c \in Handlers, NEW patch \in Patches, PatchProject(c, patch)
    PROVE  ProjectsIInv'
  <1> USE DEF ProjectsIInv
  <1> DEFINE r == [pc |-> "write", patch |-> patch, copy |-> project, auto |-> FALSE,
                   alone |-> \A d \in Handlers : request[d].pc = "idle"]
  <1>1. /\ request' = [Crowded(request) EXCEPT ![c] = r]
        /\ apart' = (apart /\ Updating = {}) /\ apart' \in BOOLEAN
        /\ changes' = changes + 1 /\ changes' \in 0..MaxChanges /\ changes' # 0
        /\ UNCHANGED <<finding, project, wanted, settled>>
        /\ request[c].pc = "idle" /\ project.there
    BY ProjectsAssumption DEF PatchProject, ProjectsTypeOK
  <1>2. /\ r \in Request /\ r.pc = "write" /\ r.copy = project /\ ~r.auto
        /\ r.alone => \A d \in Handlers : ~InProgress(d)
    BY ProjectsAssumption DEF ProjectsTypeOK, Request, InProgress
  <1> HIDE DEF r
  <1>3. /\ request' \in [Handlers -> Request]
        /\ request'[c] = r
        /\ \A d \in Handlers \ {c} : /\ ~request'[d].alone
                                     /\ request'[d].pc = request[d].pc
                                     /\ request'[d].copy = request[d].copy
                                     /\ request'[d].patch = request[d].patch
                                     /\ request'[d].auto = request[d].auto
    BY <1>1, <1>2, CrowdedRequests
  <1>4. ProjectsTypeOK'
    BY <1>1, <1>3 DEF ProjectsTypeOK
  <1>5. CreatedFirst'
    BY <1>1 DEF CreatedFirst
  <1>6. Updating' = Updating \union {c} /\ c \notin Updating
    BY <1>1, <1>2, <1>3 DEF Updating
  <1>7. UpdatesApart'
    BY <1>1, <1>2, <1>3, <1>6 DEF UpdatesApart
  <1>8. CopiesAreThere' /\ AloneIsAlone' /\ AloneIsCurrent'
    BY <1>1, <1>2, <1>3 DEF CopiesAreThere, AloneIsAlone, AloneIsCurrent, InProgress
  <1>9. CloseIsEarned'
    BY <1>2, <1>3, <1>6 DEF CloseIsEarned, Updating
  <1>10. OpenOnRecordKeepsItOpen'
    BY <1>1 DEF OpenOnRecordKeepsItOpen
  <1> QED
    BY <1>4, <1>5, <1>7, <1>8, <1>9, <1>10

\* A GET takes its copy and decides whether to close the project.
LEMMA GetKeeps ==
    ASSUME ProjectsIInv, NEW c \in Handlers, GetProject(c)
    PROVE  ProjectsIInv'
  <1> USE DEF ProjectsIInv
  <1> DEFINE r == [NoRequest EXCEPT !.pc = "show", !.copy = project,
                                    !.alone = \A d \in Handlers : request[d].pc = "idle"]
  <1>1. /\ request' = [Crowded(request) EXCEPT ![c] = r]
        /\ UNCHANGED <<finding, project, changes, wanted, apart, settled>>
        /\ request[c].pc = "idle" /\ project.there
    BY DEF GetProject
  <1>2. /\ r \in Request /\ r.pc = "show" /\ r.copy = project
        /\ r.alone => \A d \in Handlers : ~InProgress(d)
    BY NoRequestIsARequest DEF ProjectsTypeOK, Request, InProgress
  <1> HIDE DEF r
  <1>3. /\ request' \in [Handlers -> Request]
        /\ request'[c] = r
        /\ \A d \in Handlers \ {c} : /\ ~request'[d].alone
                                     /\ request'[d].pc = request[d].pc
                                     /\ request'[d].copy = request[d].copy
                                     /\ request'[d].patch = request[d].patch
                                     /\ request'[d].auto = request[d].auto
    BY <1>1, <1>2, CrowdedRequests
  <1>4. ProjectsTypeOK'
    BY <1>1, <1>3 DEF ProjectsTypeOK
  <1>5. CreatedFirst'
    BY <1>1 DEF CreatedFirst
  <1>6. Updating' = Updating /\ c \notin Updating
    BY <1>1, <1>2, <1>3 DEF Updating
  <1>7. UpdatesApart'
    BY <1>1, <1>3, <1>6 DEF UpdatesApart, Updating
  <1>8. CopiesAreThere' /\ AloneIsAlone' /\ AloneIsCurrent'
    BY <1>1, <1>2, <1>3 DEF CopiesAreThere, AloneIsAlone, AloneIsCurrent, InProgress
  <1>9. CloseIsEarned'
    BY <1>3, <1>6 DEF CloseIsEarned, Updating
  <1>10. OpenOnRecordKeepsItOpen'
    BY <1>1 DEF OpenOnRecordKeepsItOpen
  <1> QED
    BY <1>4, <1>5, <1>7, <1>8, <1>9, <1>10

(***************************************************************************)
(* The progress is shown, and the project closed by an update of its own.  *)
(***************************************************************************)
LEMMA ShowKeeps ==
    ASSUME ProjectsIInv, NEW c \in Handlers, ShowProject(c)
    PROVE  ProjectsIInv'
  <1> USE DEF ProjectsIInv
  <1>1. /\ UNCHANGED <<finding, project, changes, wanted, settled>>
        /\ request[c].pc = "show" /\ request[c] \in Request /\ c \notin Updating
        /\ changes # 0
    BY DEF ShowProject, ProjectsTypeOK, Updating, CreatedFirst, InProgress
  <1>2. CreatedFirst' /\ OpenOnRecordKeepsItOpen'
    BY <1>1 DEF CreatedFirst, OpenOnRecordKeepsItOpen
  <1>3. CASE /\ Complete(request[c].copy.items) /\ project.there
             /\ BeginUpdate(c, Close, TRUE)
    <2> DEFINE r == [request[c] EXCEPT !.pc = "write", !.patch = Close, !.copy = project,
                                       !.auto = TRUE]
    <2>1. request' = [request EXCEPT ![c] = r] /\ apart' = (apart /\ Updating = {})
      BY <1>1, <1>3 DEF BeginUpdate, ProjectsTypeOK
    <2>2. /\ r \in Request /\ r.pc = "write" /\ r.patch = Close /\ r.copy = project
          /\ r.alone = request[c].alone
      BY <1>1, CloseIsAPatch DEF ProjectsTypeOK, Request
    <2> HIDE DEF r
    <2>3. ProjectsTypeOK'
      BY <1>1, <2>1, <2>2 DEF ProjectsTypeOK
    <2>4. \A d \in Handlers : request'[d] = IF d = c THEN r ELSE request[d]
      BY <2>1 DEF ProjectsTypeOK
    <2>5. Updating' = Updating \union {c}
      BY <2>2, <2>4 DEF Updating
    <2>6. UpdatesApart'
      BY <1>1, <2>1, <2>2, <2>4, <2>5 DEF UpdatesApart, Updating
    <2>7. CopiesAreThere' /\ AloneIsAlone' /\ AloneIsCurrent'
      BY <1>1, <1>3, <2>2, <2>4 DEF CopiesAreThere, AloneIsAlone, AloneIsCurrent, InProgress
    <2>8. request[c].alone => request[c].copy = project
      BY <1>1, <1>3 DEF AloneIsCurrent, InProgress
    <2>9. CloseIsEarned'
      BY <1>1, <1>3, <2>2, <2>4, <2>5, <2>8 DEF CloseIsEarned, Updating, Complete
    <2> QED
      BY <1>2, <2>3, <2>6, <2>7, <2>9
  <1>4. CASE request' = [request EXCEPT ![c] = NoRequest] /\ UNCHANGED apart
    <2>1. ProjectsTypeOK'
      BY <1>1, <1>4, NoRequestIsARequest DEF ProjectsTypeOK
    <2>2. \A d \in Handlers : request'[d] = IF d = c THEN NoRequest ELSE request[d]
      BY <1>4 DEF ProjectsTypeOK
    <2>3. Updating' = Updating
      BY <1>1, <2>2, NoRequestIsARequest DEF Updating
    <2>4. UpdatesApart'
      BY <1>1, <1>4, <2>2, <2>3 DEF UpdatesApart
    <2>5. CopiesAreThere' /\ AloneIsAlone' /\ AloneIsCurrent'
      BY <1>1, <2>2, NoRequestIsARequest DEF CopiesAreThere, AloneIsAlone, AloneIsCurrent,
         InProgress
    <2>6. CloseIsEarned'
      <3>1. \A d \in Updating' : d \in Updating /\ request'[d] = request[d]
        BY <1>1, <2>2, <2>3 DEF Updating
      <3>2. \A items : Complete(items)' <=> Complete(items)
        BY <1>1 DEF Complete
      <3> QED
        BY <3>1, <3>2 DEF CloseIsEarned
    <2> QED
      BY <1>2, <2>1, <2>4, <2>5, <2>6
  <1> QED
    BY <1>3, <1>4 DEF ShowProject

(***************************************************************************)
(* A copy is written back.                                                 *)
(***************************************************************************)
LEMMA WriteBackKeeps ==
    ASSUME ProjectsIInv, NEW c \in Handlers, WriteBack(c)
    PROVE  ProjectsIInv'
  <1> USE DEF ProjectsIInv
  <1> DEFINE q == request[c]
             new == Apply(q.copy, q.patch)
             r == IF q.auto THEN NoRequest ELSE [q EXCEPT !.pc = "show", !.copy = new]
  <1>1. /\ q \in Request /\ q.pc = "write" /\ c \in Updating /\ changes # 0
        /\ project' = IF project.there THEN new ELSE project
        /\ wanted' = IF wanted.there THEN Apply(wanted, q.patch) ELSE wanted
        /\ request' = [request EXCEPT ![c] = r]
        /\ settled' = IF q.auto THEN project.there /\ q.alone ELSE FALSE
        /\ UNCHANGED <<finding, changes, apart>>
    BY DEF WriteBack, ProjectsTypeOK, Updating, CreatedFirst, InProgress
  <1>2. new \in Project /\ q.copy \in Project /\ q.patch \in Patch
    BY <1>1, AppliedIsAProject DEF Request
  <1>3. r \in Request /\ r.pc # "write" /\ (r.pc # "idle" => r.copy = new /\ r.alone = q.alone)
    BY <1>1, <1>2, NoRequestIsARequest DEF Request
  <1>4. settled' \in BOOLEAN
    BY <1>1 DEF ProjectsTypeOK, Project, Request
  <1>5. project' \in Project /\ wanted' \in Project
    BY <1>1, <1>2, AppliedIsAProject DEF ProjectsTypeOK
  <1>6. settled' => new.status = "closed" /\ new.items = q.copy.items
                    /\ Complete(q.copy.items) /\ project.there
    <2> SUFFICES ASSUME settled' PROVE new.status = "closed" /\ new.items = q.copy.items
                                       /\ Complete(q.copy.items) /\ project.there
      OBVIOUS
    <2>1. q.auto /\ q.alone /\ project.there
      BY <1>1
    <2>2. q.patch = Close /\ Complete(q.copy.items)
      BY <1>1, <2>1 DEF CloseIsEarned
    <2> QED
      BY <1>2, <2>1, <2>2, AppliedIsAProject
  <1>7. apart /\ project.there => new = Apply(wanted, q.patch) /\ wanted.there
    BY <1>1 DEF UpdatesApart
  <1>8. \A d \in Handlers : request'[d] = IF d = c THEN r ELSE request[d]
    BY <1>1 DEF ProjectsTypeOK
  <1>9. new.there /\ project'.there = project.there /\ (project'.there => project' = new)
    <2>1. new.there
      BY <1>1, <1>2, AppliedIsAProject DEF CopiesAreThere, InProgress
    <2> QED
      BY <1>1, <2>1 DEF ProjectsTypeOK, Project
  <1> HIDE DEF new, r
  <1>10. ProjectsTypeOK'
    BY <1>1, <1>3, <1>4, <1>5 DEF ProjectsTypeOK
  <1>11. Updating' = Updating \ {c}
    BY <1>3, <1>8 DEF Updating
  <1>12. CreatedFirst'
    BY <1>1 DEF CreatedFirst
  <1>13. UpdatesApart'
    BY <1>1, <1>7, <1>11 DEF UpdatesApart
  <1>14. CopiesAreThere' /\ AloneIsAlone' /\ AloneIsCurrent'
    BY <1>1, <1>3, <1>8, <1>9 DEF CopiesAreThere, AloneIsAlone, AloneIsCurrent, InProgress
  <1>15. CloseIsEarned'
    BY <1>1, <1>8, <1>11 DEF CloseIsEarned, Complete
  <1>16. OpenOnRecordKeepsItOpen'
    BY <1>1, <1>6 DEF OpenOnRecordKeepsItOpen, Complete
  <1> QED
    BY <1>10, <1>12, <1>13, <1>14, <1>15, <1>16

(***************************************************************************)
(* Deletions, and findings that come and go.                               *)
(***************************************************************************)
LEMMA DeleteKeeps ==
    ASSUME ProjectsIInv, DeleteProject
    PROVE  ProjectsIInv'
  <1> USE DEF ProjectsIInv
  <1>1. /\ project' = NoProject /\ wanted' = NoProject /\ settled' = FALSE
        /\ changes' = changes + 1 /\ changes' \in 0..MaxChanges /\ changes' # 0
        /\ UNCHANGED <<finding, request, apart>>
    BY ProjectsAssumption DEF DeleteProject, ProjectsTypeOK
  <1>2. ProjectsTypeOK'
    BY <1>1, NoProjectIsAProject DEF ProjectsTypeOK
  <1>3. CreatedFirst' /\ UpdatesApart' /\ AloneIsCurrent' /\ OpenOnRecordKeepsItOpen'
    BY <1>1, NoProjectIsAProject DEF CreatedFirst, UpdatesApart, Updating, AloneIsCurrent,
       OpenOnRecordKeepsItOpen
  <1>4. CopiesAreThere' /\ AloneIsAlone' /\ CloseIsEarned'
    BY <1>1 DEF CopiesAreThere, AloneIsAlone, InProgress, CloseIsEarned, Updating, Complete
  <1> QED
    BY <1>2, <1>3, <1>4

\* A finding opens, is resolved or disappears.
LEMMA FindingMovesKeeps ==
    ASSUME ProjectsIInv, NEW i \in Items, NEW to \in {"open", "done", "missing"}, FindingMoves(i, to)
    PROVE  ProjectsIInv'
  <1> USE DEF ProjectsIInv
  <1>1. /\ finding' = [finding EXCEPT ![i] = to]
        /\ request' = Crowded(request) /\ settled' = FALSE
        /\ UNCHANGED <<project, changes, wanted, apart>>
    BY DEF FindingMoves
  <1>2. /\ request' \in [Handlers -> Request]
        /\ \A d \in Handlers : /\ ~request'[d].alone
                               /\ request'[d].pc = request[d].pc
                               /\ request'[d].copy = request[d].copy
                               /\ request'[d].patch = request[d].patch
                               /\ request'[d].auto = request[d].auto
    BY <1>1, CrowdedRequests
  <1>3. ProjectsTypeOK'
    BY <1>1, <1>2 DEF ProjectsTypeOK
  <1>4. Updating' = Updating
    BY <1>2 DEF Updating
  <1>5. CreatedFirst' /\ CopiesAreThere' /\ UpdatesApart'
    BY <1>1, <1>2, <1>4 DEF CreatedFirst, CopiesAreThere, InProgress, UpdatesApart, Updating
  <1>6. AloneIsAlone' /\ AloneIsCurrent' /\ CloseIsEarned'
    BY <1>2, <1>4 DEF AloneIsAlone, AloneIsCurrent, CloseIsEarned, Updating
  <1>7. OpenOnRecordKeepsItOpen'
    BY <1>1 DEF OpenOnRecordKeepsItOpen
  <1> QED
    BY <1>3, <1>5, <1>6, <1>7

\* Every step of the projects keeps their invariant.
LEMMA ProjectsNextIInv == ProjectsIInv /\ [ProjectsNext]_projectVars => ProjectsIInv'
  <1> SUFFICES ASSUME ProjectsIInv, [ProjectsNext]_projectVars PROVE ProjectsIInv'
    OBVIOUS
  <1>1. ASSUME NEW c \in Handlers, NEW items \in SUBSET Items, CreateProject(c, items)
        PROVE  ProjectsIInv'
    BY <1>1, CreateKeeps
  <1>2. ASSUME NEW c \in Handlers, NEW patch \in Patches, PatchProject(c, patch) PROVE ProjectsIInv'
    BY <1>2, PatchKeeps
  <1>3. ASSUME NEW c \in Handlers, GetProject(c) PROVE ProjectsIInv'
    BY <1>3, GetKeeps
  <1>4. ASSUME NEW c \in Handlers, ShowProject(c) PROVE ProjectsIInv'
    BY <1>4, ShowKeeps
  <1>5. ASSUME NEW c \in Handlers, WriteBack(c) PROVE ProjectsIInv'
    BY <1>5, WriteBackKeeps
  <1>6. CASE DeleteProject
    BY <1>6, DeleteKeeps
  <1>7. ASSUME NEW i \in Items, NEW to \in {"open", "done", "missing"}, FindingMoves(i, to)
        PROVE  ProjectsIInv'
    BY <1>7, FindingMovesKeeps
  <1>8. CASE UNCHANGED projectVars
    BY <1>8 DEF projectVars, ProjectsIInv, ProjectsTypeOK, CreatedFirst, CopiesAreThere, UpdatesApart,
       AloneIsAlone, AloneIsCurrent, CloseIsEarned, OpenOnRecordKeepsItOpen, InProgress, Updating,
       Complete
  <1> QED
    BY <1>1, <1>2, <1>3, <1>4, <1>5, <1>6, <1>7, <1>8 DEF ProjectsNext

-----------------------------------------------------------------------------
\* The inductive invariant holds in every reachable state.
THEOREM ProjectsInvariance == ProjectsSpec => []ProjectsIInv
  BY ProjectsInitIInv, ProjectsNextIInv, PTL DEF ProjectsSpec

\* Types of the project, the findings and the requests in progress.
THEOREM ProjectsTypeCorrect == ProjectsSpec => []ProjectsTypeOK
  BY ProjectsInvariance, PTL DEF ProjectsIInv

\* The project is what the requests made of it, as long as no two updates, the
\* automatic ones included, overlapped.
THEOREM EditsStand == ProjectsSpec => []ProjectIsAsEdited
  <1>1. ProjectsIInv => ProjectIsAsEdited
    BY DEF ProjectsIInv, UpdatesApart, ProjectIsAsEdited
  <1> QED
    BY ProjectsInvariance, <1>1, PTL

\* A project that closed by itself while its handler was alone has a resolved
\* finding, and no open one among those that can be found, until something
\* changes.  What cannot be found may still be a weakness.
THEOREM ClosedOverNoneOnRecord == ProjectsSpec => []OpenOnRecordKeepsItOpen
  BY ProjectsInvariance, PTL DEF ProjectsIInv

-----------------------------------------------------------------------------
(***************************************************************************)
(* The client portal.                                                      *)
(***************************************************************************)
Share == [made : {TRUE}, client : Customers, revoked : BOOLEAN, created : Nat, days : Nat,
          expires : Nat \union {NoEnd}]

Arrived == [at : {"resolved", "served", "refused"}, share : Share \union {NoLink}, since : Nat]

\* The shape of shares, and of what handlers hold of them.
LinksAreShares ==
    /\ link \in [Links -> Share \union {NoLink}]
    /\ visit \in [Visitors -> {[at |-> "idle"]} \union Arrived]

\* A share ends when its days are over, and one of no days never.
EndsInTime(share) ==
    share.expires = IF share.days > 0 THEN share.created + share.days ELSE NoEnd

(***************************************************************************)
(* Every share a handler holds keeps its term, and a handler is past       *)
(* resolve() only with a share that was open when it resolved it.          *)
(***************************************************************************)
SharesEndInTime ==
    /\ \A t \in Links : link[t].made => EndsInTime(link[t])
    /\ \A v \in Visitors : visit[v].at = "resolved" =>
          visit[v].share.made /\ ~Closed(visit[v].share, visit[v].since)

PortalIInv == PortalTypeOK /\ LinksAreShares /\ SharesEndInTime /\ LinkOpensWhileShared

\* A token that was never made has no share.
LEMMA NoLinkIsNotMade ==
    /\ NoLink.made = FALSE
    /\ \A s \in Share \union {NoLink} : s.made => s \in Share
<1>1. NoLink.made = FALSE
  BY DEF NoLink
<1> QED
  BY <1>1, Zenon

\* A visitor past the front door has resolved a token.
LEMMA IdleIsNoVisit ==
    \A v \in {[at |-> "idle"]} \union Arrived : v.at # "idle" => v \in Arrived
OBVIOUS

(***************************************************************************)
(* is_valid() says whether a share is open today.                          *)
(***************************************************************************)
LEMMA ValidIsOpen ==
    ASSUME NEW share \in Share, EndsInTime(share), day \in Nat
    PROVE  IsValid(share) <=> ~Closed(share, day)
BY DEF EndsInTime, IsValid, Closed, Share, NoEnd

\* The invariant of the portal holds at first.
LEMMA PortalInitIInv == PortalInit => PortalIInv
<1> SUFFICES ASSUME PortalInit PROVE PortalIInv
  OBVIOUS
<1>1. PortalTypeOK /\ LinksAreShares
  BY NoLinkIsNotMade, PortalAssumption DEF PortalInit, PortalTypeOK, LinksAreShares
<1>2. SharesEndInTime /\ LinkOpensWhileShared
  BY NoLinkIsNotMade DEF PortalInit, SharesEndInTime, LinkOpensWhileShared
<1> QED
  BY <1>1, <1>2 DEF PortalIInv

\* Days pass and the plan changes; no share and no visit does.
LEMMA ClockKeeps ==
    ASSUME PortalIInv, ChangeEdition \/ DayPasses \/ UNCHANGED portalVars
    PROVE  PortalIInv'
<1> USE DEF ChangeEdition, DayPasses, portalVars, PortalIInv
<1>1. PortalTypeOK' /\ LinksAreShares'
  BY PortalAssumption DEF PortalTypeOK, LinksAreShares
<1>2. SharesEndInTime' /\ LinkOpensWhileShared'
  BY DEF SharesEndInTime, LinkOpensWhileShared, EndsInTime, Closed
<1> QED
  BY <1>1, <1>2

\* An engagement is deleted: only then is a visitor refused for it.
LEMMA DeleteClientKeeps ==
    ASSUME PortalIInv, NEW e \in Customers, DeleteClient(e)
    PROVE  PortalIInv'
<1> USE DEF DeleteClient, PortalIInv
<1>1. PortalTypeOK' /\ LinksAreShares'
  BY DEF PortalTypeOK, LinksAreShares
<1>2. SharesEndInTime' /\ LinkOpensWhileShared'
  BY DEF SharesEndInTime, LinkOpensWhileShared, EndsInTime, Closed
<1> QED
  BY <1>1, <1>2

\* A new share ends when its days are over.
LEMMA CreateShareKeeps ==
    ASSUME PortalIInv, NEW t \in Links, NEW e \in Customers, NEW days \in Lifetimes,
           CreateShare(t, e, days)
    PROVE  PortalIInv'
<1> DEFINE new == [made |-> TRUE, client |-> e, revoked |-> FALSE, created |-> day, days |-> days,
                   expires |-> IF days > 0 THEN day + days ELSE NoEnd]
<1>1. days \in Nat /\ day \in Nat
  BY PortalAssumption DEF PortalIInv, PortalTypeOK
<1>2. new \in Share /\ EndsInTime(new)
  BY <1>1 DEF Share, EndsInTime
<1>3. link' = [link EXCEPT ![t] = new] /\ UNCHANGED <<edition, day, alive, visit>>
  BY DEF CreateShare
<1> HIDE DEF new
<1>4. PortalTypeOK' /\ LinksAreShares'
  BY <1>2, <1>3 DEF PortalIInv, PortalTypeOK, LinksAreShares, Share
<1>5. SharesEndInTime' /\ LinkOpensWhileShared'
  BY <1>2, <1>3 DEF PortalIInv, LinksAreShares, SharesEndInTime, LinkOpensWhileShared, EndsInTime,
                    Closed
<1> QED
  BY <1>4, <1>5 DEF PortalIInv

\* Revoking changes the share, not the copy a visitor has resolved.
LEMMA RevokeShareKeeps ==
    ASSUME PortalIInv, NEW t \in Links, RevokeShare(t)
    PROVE  PortalIInv'
<1> DEFINE new == [link[t] EXCEPT !.revoked = TRUE]
<1>1. link[t] \in Share /\ EndsInTime(link[t])
  BY NoLinkIsNotMade DEF RevokeShare, PortalIInv, LinksAreShares, SharesEndInTime
<1>2. new \in Share /\ EndsInTime(new)
  BY <1>1 DEF Share, EndsInTime
<1>3. link' = [link EXCEPT ![t] = new] /\ UNCHANGED <<edition, day, alive, visit>>
  BY DEF RevokeShare
<1> HIDE DEF new
<1>4. PortalTypeOK' /\ LinksAreShares'
  BY <1>2, <1>3 DEF PortalIInv, PortalTypeOK, LinksAreShares, Share
<1>5. SharesEndInTime' /\ LinkOpensWhileShared'
  BY <1>2, <1>3 DEF PortalIInv, LinksAreShares, SharesEndInTime, LinkOpensWhileShared, EndsInTime,
                    Closed
<1> QED
  BY <1>4, <1>5 DEF PortalIInv

\* A token is resolved: by ValidIsOpen the visitor is let in if the share is
\* open.
LEMMA ResolveKeeps ==
    ASSUME PortalIInv, NEW v \in Visitors, NEW t \in Links, Resolve(v, t)
    PROVE  PortalIInv'
<1> DEFINE open == link[t].made /\ IsValid(link[t])
           new == [at |-> IF open THEN "resolved" ELSE "refused", share |-> link[t], since |-> day]
<1>1. link[t] \in Share \union {NoLink} /\ day \in Nat
  BY DEF PortalIInv, LinksAreShares, PortalTypeOK
<1>2. link[t].made => (IsValid(link[t]) <=> ~Closed(link[t], day))
  BY <1>1, NoLinkIsNotMade, ValidIsOpen DEF PortalIInv, SharesEndInTime
<1>3. visit' = [visit EXCEPT ![v] = new] /\ UNCHANGED <<edition, day, alive, link>>
  BY DEF Resolve
<1>4. /\ new \in Arrived /\ new.share = link[t] /\ new.since = day
      /\ new.at = IF open THEN "resolved" ELSE "refused"
  BY <1>1 DEF Arrived
<1> HIDE DEF new
<1>5. PortalTypeOK' /\ LinksAreShares'
  BY <1>3, <1>4 DEF PortalIInv, PortalTypeOK, LinksAreShares
<1>6. SharesEndInTime' /\ LinkOpensWhileShared'
  <2>1. \A w \in Visitors : w # v => visit'[w] = visit[w]
    BY <1>3 DEF PortalIInv, LinksAreShares
  <2>2. visit'[v] = new
    BY <1>3 DEF PortalIInv, LinksAreShares
  <2>3. new.at = "resolved" => new.share.made /\ ~Closed(new.share, new.since)
    BY <1>2, <1>4
  <2>4. new.at = "refused" /\ new.share.made => Closed(new.share, new.since)
    BY <1>2, <1>4
  <2>5. new.at # "served"
    BY <1>4
  <2>6. SharesEndInTime'
    BY <1>3, <2>1, <2>2, <2>3 DEF PortalIInv, SharesEndInTime, EndsInTime, Closed
  <2>7. LinkOpensWhileShared'
    BY <1>3, <2>1, <2>2, <2>4, <2>5 DEF PortalIInv, LinkOpensWhileShared, Closed
  <2> QED
    BY <2>6, <2>7
<1> QED
  BY <1>5, <1>6 DEF PortalIInv

\* The engagement is looked up for the share resolved.
LEMMA PortalEngagementKeeps ==
    ASSUME PortalIInv, NEW v \in Visitors, PortalEngagement(v)
    PROVE  PortalIInv'
<1>1. visit[v] \in Arrived /\ visit[v].at = "resolved"
  BY IdleIsNoVisit DEF PortalEngagement, PortalIInv, LinksAreShares
<1>2. /\ visit'[v] \in Arrived /\ visit'[v].share = visit[v].share
      /\ visit'[v].since = visit[v].since
      /\ visit'[v].at = IF visit[v].share.client \in alive THEN "served" ELSE "refused"
  BY <1>1 DEF PortalEngagement, PortalIInv, LinksAreShares, Arrived
<1>3. \A w \in Visitors : w # v => visit'[w] = visit[w]
  BY DEF PortalEngagement, PortalIInv, LinksAreShares
<1>4. UNCHANGED <<edition, day, alive, link>>
  BY DEF PortalEngagement
<1>5. visit' \in [Visitors -> {[at |-> "idle"]} \union Arrived]
  BY <1>2, <1>3 DEF PortalEngagement, PortalIInv, LinksAreShares
<1>6. PortalTypeOK' /\ LinksAreShares'
  BY <1>2, <1>3, <1>4, <1>5 DEF PortalIInv, PortalTypeOK, LinksAreShares
<1>7. SharesEndInTime' /\ LinkOpensWhileShared'
  BY <1>1, <1>2, <1>3, <1>4
     DEF PortalIInv, SharesEndInTime, LinkOpensWhileShared, EndsInTime, Closed
<1> QED
  BY <1>6, <1>7 DEF PortalIInv

\* Every step of the portal keeps its invariant.
LEMMA PortalNextIInv == PortalIInv /\ [PortalNext]_portalVars => PortalIInv'
BY ClockKeeps, DeleteClientKeeps, CreateShareKeeps, RevokeShareKeeps, ResolveKeeps,
   PortalEngagementKeeps
   DEF PortalNext

\* The portal's inductive invariant holds in every reachable state.
THEOREM PortalInvariance == PortalSpec => []PortalIInv
BY PortalInitIInv, PortalNextIInv, PTL DEF PortalSpec

\* Shares and visits keep their types.
THEOREM PortalTypeCorrect == PortalSpec => [](PortalTypeOK /\ LinksAreShares)
BY PortalInvariance, PTL DEF PortalIInv

\* A visitor is served through a share that was open when they came, and
\* refused only by one that was not or whose engagement is gone, for any
\* lifetimes, and whatever happens between the two reads of the handler.
THEOREM LinksOpenInTime == PortalSpec => []LinkOpensWhileShared
BY PortalInvariance, PTL DEF PortalIInv

-----------------------------------------------------------------------------
(***************************************************************************)
(* Tickets.                                                                *)
(***************************************************************************)
Row == [alive : BOOLEAN, found : SUBSET Issues, ticket : [Issues -> 0..MaxTickets]]

Pushed == [at : {"posting", "answered"}, issue : Issues, copy : Row, key : 0..MaxTickets]

Scanning == [busy : {TRUE}, kind : {"run", "retest"}, before : Row, copy : Row]

Retesting == scan.busy /\ scan.kind = "retest"

\* The shape of the copies that handlers and scans work on.
CopiesAreRows ==
    /\ push \in [Pushers -> {NoPush} \union Pushed]
    /\ scan \in {NoScan} \union Scanning

(***************************************************************************)
(* As long as nobody has written the row while another had a copy of it,   *)
(* the copies of handlers and of plain runs have the tickets of the row.   *)
(***************************************************************************)
CopiesAreCurrent ==
    ~raced =>
        /\ \A h \in Pushers : push[h].at # "idle" => push[h].copy.ticket = row.ticket
        /\ scan.busy /\ scan.kind = "run" => scan.copy.ticket = row.ticket

\* What the tickets of a row ought to be.
AllKept(ticket) == \A f \in Issues : ticket[f] = IF f \in dropped THEN 0 ELSE confirmed[f]

(***************************************************************************)
(* A retest keeps the tickets it began with beside its slate, and the row  *)
(* is either the one it began with or has the tickets of the slate: none.  *)
(***************************************************************************)
SlateIsClean ==
    ~raced /\ row.alive /\ Retesting =>
        /\ scan.copy.ticket = NoTickets
        /\ AllKept(scan.before.ticket)
        /\ row = scan.before \/ row.ticket = NoTickets

TicketsIInv ==
    TicketsTypeOK /\ CopiesAreRows /\ CopiesAreCurrent /\ SlateIsClean /\ TicketsAreKept

\* Being idle is having no push in hand.
LEMMA IdleIsNoPush ==
    /\ NoPush.at = "idle"
    /\ \A p \in {NoPush} \union Pushed : p.at # "idle" => p \in Pushed
    /\ \A p \in Pushed : p.at # "idle"
BY DEF NoPush, Pushed

\* A scan under way has a copy of the row.
LEMMA IdleIsNoScan ==
    /\ NoScan.busy = FALSE
    /\ \A s \in {NoScan} \union Scanning : s.busy => s \in Scanning
<1>1. NoScan.busy = FALSE
  BY DEF NoScan
<1> QED
  BY <1>1, Zenon

\* What a scan consists of.
LEMMA ScanParts ==
    ASSUME NEW s \in Scanning
    PROVE  s.busy /\ s.kind \in {"run", "retest"} /\ s.before \in Row /\ s.copy \in Row
BY DEF Scanning

\* No ticket for any finding.
LEMMA NoTicketsIsNone ==
    NoTickets \in [Issues -> 0..MaxTickets] /\ \A f \in Issues : NoTickets[f] = 0
BY TicketsAssumption DEF NoTickets

\* Unless a retest is at work the tickets of the row are what they ought to be.
LEMMA KeptAtRest ==
    TicketsAreKept <=> (~raced /\ row.alive /\ ~Retesting => AllKept(row.ticket))
BY DEF TicketsAreKept, AllKept, Retesting

\* Recording a ticket changes one entry of the row.
LEMMA TicketedIsARow ==
    ASSUME NEW copy \in Row, NEW f \in Issues, NEW key \in 0..MaxTickets
    PROVE  /\ Ticketed(copy, f, key) \in Row
           /\ Ticketed(copy, f, key).ticket = [copy.ticket EXCEPT ![f] = key]
BY DEF Row, Ticketed

\* The invariant of the tickets holds at first.
LEMMA TicketsInitIInv == TicketsInit => TicketsIInv
<1> SUFFICES ASSUME TicketsInit PROVE TicketsIInv
  OBVIOUS
<1>1. 0 \in 0..MaxTickets
  BY TicketsAssumption
<1>2. TicketsTypeOK /\ CopiesAreRows
  BY <1>1, IdleIsNoPush DEF TicketsInit, TicketsTypeOK, CopiesAreRows, NoTickets, Settings
<1>3. CopiesAreCurrent /\ SlateIsClean /\ TicketsAreKept
  BY IdleIsNoPush, IdleIsNoScan, NoTicketsIsNone
     DEF TicketsInit, CopiesAreCurrent, SlateIsClean, Retesting, TicketsAreKept
<1> QED
  BY <1>2, <1>3 DEF TicketsIInv

(***************************************************************************)
(* Steps that read the row, or none.                                       *)
(***************************************************************************)
LEMMA ScanStartsKeeps ==
    ASSUME TicketsIInv, NEW kind \in {"run", "retest"}, ScanStarts(kind)
    PROVE  TicketsIInv'
<1> DEFINE copy == IF kind = "retest" THEN CleanSlate ELSE row
           s == [busy |-> TRUE, kind |-> kind, before |-> row, copy |-> copy]
<1>1. row \in Row /\ CleanSlate \in Row /\ CleanSlate.ticket = NoTickets
  BY NoTicketsIsNone DEF TicketsIInv, TicketsTypeOK, Row, CleanSlate
<1>2. s \in Scanning /\ s.kind = kind /\ s.before = row /\ s.copy = copy /\ s.busy
  BY <1>1 DEF Scanning
<1>3. scan' = s /\ row.alive /\ ~scan.busy
      /\ UNCHANGED <<row, settings, push, filed, confirmed, dropped, raced>>
  BY DEF ScanStarts
<1>4. copy.ticket = IF kind = "retest" THEN NoTickets ELSE row.ticket
  BY <1>1
<1> HIDE DEF s, copy
<1>5. TicketsTypeOK' /\ CopiesAreRows'
  BY <1>2, <1>3 DEF TicketsIInv, TicketsTypeOK, CopiesAreRows
<1>6. CopiesAreCurrent'
  BY <1>2, <1>3, <1>4 DEF TicketsIInv, CopiesAreCurrent
<1>7. ~raced => AllKept(row.ticket)
  BY <1>3, KeptAtRest DEF TicketsIInv, Retesting
<1>8. SlateIsClean' /\ TicketsAreKept'
  BY <1>2, <1>3, <1>4, <1>7 DEF SlateIsClean, TicketsAreKept, AllKept, Retesting
<1> QED
  BY <1>5, <1>6, <1>8 DEF TicketsIInv

\* The engagement is deleted.
LEMMA DeleteRowKeeps == TicketsIInv /\ DeleteRow => TicketsIInv'
<1> SUFFICES ASSUME TicketsIInv, DeleteRow PROVE TicketsIInv'
  OBVIOUS
<1>1. row' \in Row /\ row'.alive = FALSE /\ row'.ticket = row.ticket
  BY DEF DeleteRow, TicketsIInv, TicketsTypeOK, Row
<1>2. TicketsTypeOK' /\ CopiesAreRows'
  BY <1>1 DEF DeleteRow, TicketsIInv, TicketsTypeOK, CopiesAreRows, Row
<1>3. CopiesAreCurrent' /\ SlateIsClean' /\ TicketsAreKept'
  BY <1>1 DEF DeleteRow, TicketsIInv, CopiesAreCurrent, SlateIsClean, TicketsAreKept
<1> QED
  BY <1>2, <1>3 DEF TicketsIInv

\* The settings change.
LEMMA SetTicketConfigKeeps == TicketsIInv /\ SetTicketConfig => TicketsIInv'
<1> SUFFICES ASSUME TicketsIInv, SetTicketConfig PROVE TicketsIInv'
  OBVIOUS
<1>1. TicketsTypeOK' /\ CopiesAreRows'
  BY DEF SetTicketConfig, TicketsIInv, TicketsTypeOK, CopiesAreRows
<1>2. CopiesAreCurrent' /\ SlateIsClean' /\ TicketsAreKept'
  BY DEF SetTicketConfig, TicketsIInv, CopiesAreCurrent, SlateIsClean, Retesting, AllKept,
     TicketsAreKept
<1> QED
  BY <1>1, <1>2 DEF TicketsIInv

\* A handler takes its copy of the row.
LEMMA PushFindingTicketKeeps ==
    ASSUME TicketsIInv, NEW h \in Pushers, NEW f \in Issues, PushFindingTicket(h, f)
    PROVE  TicketsIInv'
<1> DEFINE p == [at |-> "posting", issue |-> f, copy |-> row, key |-> 0]
<1>1. p \in Pushed /\ p.at = "posting" /\ p.copy = row
  BY TicketsAssumption DEF TicketsIInv, TicketsTypeOK, Pushed, Row
<1>2. push' = [push EXCEPT ![h] = p]
  BY DEF PushFindingTicket
<1> HIDE DEF p
<1>3. CopiesAreRows'
  BY <1>1, <1>2 DEF PushFindingTicket, TicketsIInv, CopiesAreRows
<1>4. CopiesAreCurrent' /\ SlateIsClean' /\ TicketsAreKept'
  BY <1>1, <1>2 DEF PushFindingTicket, TicketsIInv, CopiesAreRows, CopiesAreCurrent,
     SlateIsClean, Retesting, AllKept, TicketsAreKept
<1>5. TicketsTypeOK'
  BY <1>1, <1>2 DEF PushFindingTicket, TicketsIInv, TicketsTypeOK
<1> QED
  BY <1>3, <1>4, <1>5 DEF TicketsIInv

\* The tracker answers with a key.
LEMMA TrackerFilesKeeps ==
    ASSUME TicketsIInv, NEW h \in Pushers, TrackerFiles(h)
    PROVE  TicketsIInv'
<1>1. filed' \in 0..MaxTickets /\ filed' = filed + 1
  BY TicketsAssumption DEF TrackerFiles, TicketsIInv, TicketsTypeOK
<1>2. push[h] \in Pushed
  BY IdleIsNoPush DEF TrackerFiles, TicketsIInv, CopiesAreRows
<1>3. push'[h] \in Pushed /\ push'[h].copy = push[h].copy /\ push'[h].at = "answered"
  BY <1>1, <1>2 DEF TrackerFiles, TicketsIInv, CopiesAreRows, Pushed
<1>4. \A g \in Pushers : g # h => push'[g] = push[g]
  BY DEF TrackerFiles, TicketsIInv, CopiesAreRows
<1>5. TicketsTypeOK' /\ CopiesAreRows'
  BY <1>1, <1>3, <1>4 DEF TrackerFiles, TicketsIInv, TicketsTypeOK, CopiesAreRows
<1>6. push[h].at # "idle" /\ UNCHANGED <<row, scan, confirmed, dropped, raced>>
  BY DEF TrackerFiles
<1>7. CopiesAreCurrent'
  BY <1>3, <1>4, <1>6 DEF TicketsIInv, CopiesAreCurrent
<1>8. SlateIsClean' /\ TicketsAreKept'
  BY <1>6 DEF TicketsIInv, SlateIsClean, Retesting, AllKept, TicketsAreKept
<1> QED
  BY <1>5, <1>7, <1>8 DEF TicketsIInv

\* The tracker refuses, or its answer is lost.
LEMMA TrackerFailsKeeps ==
    ASSUME TicketsIInv, NEW h \in Pushers, TrackerFails(h)
    PROVE  TicketsIInv'
<1>1. TicketsTypeOK' /\ CopiesAreRows'
  BY IdleIsNoPush DEF TrackerFails, TicketsIInv, TicketsTypeOK, CopiesAreRows
<1>2. CopiesAreCurrent'
  BY IdleIsNoPush DEF TrackerFails, TicketsIInv, CopiesAreRows, CopiesAreCurrent
<1>3. SlateIsClean' /\ TicketsAreKept'
  BY DEF TrackerFails, TicketsIInv, SlateIsClean, Retesting, AllKept, TicketsAreKept
<1> QED
  BY <1>1, <1>2, <1>3 DEF TicketsIInv

(***************************************************************************)
(* Steps that write it.                                                    *)
(***************************************************************************)
LEMMA WriteRowWrites ==
    ASSUME NEW copy \in Row, NEW others \in BOOLEAN, TicketsTypeOK, WriteRow(copy, others)
    PROVE  /\ row' \in Row /\ raced' \in BOOLEAN
           /\ row' = IF row.alive THEN copy ELSE row
           /\ row'.alive => row.alive
           /\ ~raced' => ~raced /\ ~others
<1>1. row \in Row /\ raced \in BOOLEAN
  BY DEF TicketsTypeOK, Row
<1>2. row' = (IF row.alive THEN copy ELSE row) /\ raced' = (raced \/ others)
  BY DEF WriteRow
<1>3. row' \in Row /\ (row'.alive => row.alive)
  BY <1>1, <1>2
<1> QED
  BY <1>1, <1>2, <1>3

\* A finding is detected: a partial save, or none.
LEMMA DetectsKeeps ==
    ASSUME TicketsIInv, NEW f \in Issues, Detects(f)
    PROVE  TicketsIInv'
<1> DEFINE new == [scan.copy EXCEPT !.found = @ \union {f}]
           s == [scan EXCEPT !.copy = new]
<1>1. scan \in Scanning
  BY IdleIsNoScan DEF Detects, TicketsIInv, CopiesAreRows
<1>2. scan.busy /\ scan.kind \in {"run", "retest"} /\ scan.copy \in Row
  BY <1>1, ScanParts
<1>3. new \in Row /\ new.ticket = scan.copy.ticket
  BY <1>2 DEF Row
<1>4. scan' = s
  BY <1>1 DEF Detects, Scanning
<1>5. s \in Scanning /\ s.copy = new /\ s.kind = scan.kind /\ s.before = scan.before /\ s.busy
  BY <1>1, <1>3 DEF Scanning
<1> HIDE DEF new, s
<1>6. scan'.copy = new
  BY <1>4, <1>5
<1>7. WriteRow(new, Pushing(Pushers)) \/ UNCHANGED <<row, raced>>
  BY <1>6 DEF Detects
<1>8. UNCHANGED <<settings, push, filed, confirmed, dropped>>
  BY DEF Detects
<1>9. Pushing(Pushers) \in BOOLEAN
  BY DEF Pushing
<1>10. /\ row' \in Row /\ raced' \in BOOLEAN /\ (row'.alive => row.alive) /\ (~raced' => ~raced)
       /\ \/ UNCHANGED row
          \/ /\ row' = IF row.alive THEN new ELSE row
             /\ ~raced' => ~Pushing(Pushers)
  <2>1. CASE WriteRow(new, Pushing(Pushers))
    BY <1>3, <1>9, <2>1, WriteRowWrites DEF TicketsIInv
  <2>2. CASE UNCHANGED <<row, raced>>
    BY <2>2 DEF TicketsIInv, TicketsTypeOK, Row
  <2> QED
    BY <1>7, <2>1, <2>2
<1>11. TicketsTypeOK'
  BY <1>8, <1>10 DEF TicketsIInv, TicketsTypeOK, Row
<1>12. CopiesAreRows'
  BY <1>4, <1>5, <1>8 DEF TicketsIInv, CopiesAreRows
<1>13. CopiesAreCurrent'
  BY <1>2, <1>3, <1>4, <1>5, <1>8, <1>10 DEF TicketsIInv, CopiesAreCurrent, Pushing
<1>14. SlateIsClean'
  BY <1>2, <1>3, <1>4, <1>5, <1>8, <1>10 DEF TicketsIInv, SlateIsClean, Retesting, AllKept
<1>15. TicketsAreKept'
  <2>1. ~Retesting => (~raced => row'.ticket = row.ticket)
    BY <1>2, <1>3, <1>10 DEF TicketsIInv, CopiesAreCurrent, Retesting
  <2>2. Retesting' <=> Retesting
    BY <1>2, <1>4, <1>5 DEF Retesting
  <2> QED
    BY <1>8, <1>10, <2>1, <2>2 DEF TicketsIInv, TicketsAreKept, Retesting
<1> QED
  BY <1>11, <1>12, <1>13, <1>14, <1>15 DEF TicketsIInv

\* The merge of a retest is a row: fresh records without tickets, old ones with theirs.
LEMMA MergedIsARow ==
    ASSUME NEW current \in Row, NEW previous \in Row
    PROVE  /\ Merged(current, previous) \in Row
           /\ \A f \in Issues : Merged(current, previous).ticket[f] =
                  IF f \in current.found THEN current.ticket[f] ELSE previous.ticket[f]
BY DEF Merged, Row

\* A scan ends, in whatever way, with a write: afterwards nobody else has a copy.
LEMMA ScanEndsKeeps ==
    ASSUME TicketsIInv, scan.busy, NEW new \in Row, WriteRow(new, Pushing(Pushers)),
           scan' = NoScan, UNCHANGED <<settings, push, filed, confirmed>>,
           dropped' \subseteq Issues,
           ~raced /\ row.alive =>
               \A f \in Issues : new.ticket[f] = IF f \in dropped' THEN 0 ELSE confirmed'[f]
    PROVE  TicketsIInv'
<1>1. Pushing(Pushers) \in BOOLEAN
  BY DEF Pushing
<1>2. /\ row' \in Row /\ raced' \in BOOLEAN /\ (row'.alive => row.alive)
      /\ row' = IF row.alive THEN new ELSE row
      /\ ~raced' => ~raced /\ ~Pushing(Pushers)
  BY <1>1, WriteRowWrites DEF TicketsIInv
<1>3. ~scan'.busy
  BY IdleIsNoScan
<1>4. TicketsTypeOK'
  BY <1>2 DEF TicketsIInv, TicketsTypeOK, Row
<1>5. CopiesAreRows'
  BY DEF TicketsIInv, CopiesAreRows
<1>6. CopiesAreCurrent' /\ SlateIsClean'
  BY <1>2, <1>3 DEF CopiesAreCurrent, SlateIsClean, Retesting, Pushing
<1>7. TicketsAreKept'
  BY <1>2 DEF TicketsAreKept
<1> QED
  BY <1>4, <1>5, <1>6, <1>7 DEF TicketsIInv

\* The engine returns.
LEMMA EndScanKeeps == TicketsIInv /\ EndScan => TicketsIInv'
<1> SUFFICES ASSUME TicketsIInv, EndScan PROVE TicketsIInv'
  OBVIOUS
<1>1. scan \in Scanning /\ scan.busy
  BY IdleIsNoScan DEF EndScan, TicketsIInv, CopiesAreRows
<1>2. scan.kind \in {"run", "retest"} /\ scan.before \in Row /\ scan.copy \in Row
  BY <1>1, ScanParts
<1>3. scan' = NoScan /\ UNCHANGED <<settings, push, filed, confirmed>>
  BY DEF EndScan
<1>4. CASE scan.kind = "retest"
  <2> DEFINE new == Merged(scan.copy, scan.before)
  <2>1. WriteRow(new, Pushing(Pushers)) /\ dropped' = dropped \union scan.copy.found
    BY <1>4 DEF EndScan
  <2>2. /\ new \in Row
        /\ \A f \in Issues : new.ticket[f] = IF f \in scan.copy.found THEN scan.copy.ticket[f]
                                             ELSE scan.before.ticket[f]
    BY <1>2, MergedIsARow
  <2>3. scan.copy.found \subseteq Issues
    BY <1>2 DEF Row
  <2>4. ~raced /\ row.alive => \A f \in Issues : new.ticket[f] = IF f \in dropped' THEN 0
                                                                ELSE confirmed'[f]
    BY <1>1, <1>3, <1>4, <2>1, <2>2, NoTicketsIsNone
       DEF TicketsIInv, SlateIsClean, Retesting, AllKept
  <2>5. dropped' \subseteq Issues
    BY <2>1, <2>3 DEF TicketsIInv, TicketsTypeOK
  <2> HIDE DEF new
  <2> QED
    BY <1>1, <1>3, <2>1, <2>2, <2>4, <2>5, ScanEndsKeeps
<1>5. CASE scan.kind # "retest"
  <2>1. WriteRow(scan.copy, Pushing(Pushers)) /\ dropped' = dropped
    BY <1>5 DEF EndScan
  <2>2. ~raced /\ row.alive => \A f \in Issues : scan.copy.ticket[f] = IF f \in dropped' THEN 0
                                                                      ELSE confirmed'[f]
    BY <1>1, <1>2, <1>3, <1>5, <2>1
       DEF TicketsIInv, CopiesAreCurrent, TicketsAreKept
  <2> QED
    BY <1>1, <1>2, <1>3, <2>1, <2>2, ScanEndsKeeps DEF TicketsIInv, TicketsTypeOK
<1> QED
  BY <1>4, <1>5

\* The engine raises: the slate of a retest is stored as it is.
LEMMA ScanFailsKeeps == TicketsIInv /\ ScanFails => TicketsIInv'
<1> SUFFICES ASSUME TicketsIInv, ScanFails PROVE TicketsIInv'
  OBVIOUS
<1>1. scan \in Scanning /\ scan.busy
  BY IdleIsNoScan DEF ScanFails, TicketsIInv, CopiesAreRows
<1>2. scan.kind \in {"run", "retest"} /\ scan.copy \in Row
  BY <1>1, ScanParts
<1>3. /\ scan' = NoScan /\ UNCHANGED <<settings, push, filed, confirmed>>
      /\ WriteRow(scan.copy, Pushing(Pushers))
      /\ dropped' = IF scan.kind = "retest" THEN Issues ELSE dropped
  BY DEF ScanFails
<1>4. dropped' \subseteq Issues
  BY <1>3 DEF TicketsIInv, TicketsTypeOK
<1>5. ~raced /\ row.alive =>
          \A f \in Issues : scan.copy.ticket[f] = IF f \in dropped' THEN 0 ELSE confirmed'[f]
  <2>1. CASE scan.kind = "retest"
    BY <1>1, <1>3, <2>1, NoTicketsIsNone DEF TicketsIInv, SlateIsClean, Retesting
  <2>2. CASE scan.kind # "retest"
    BY <1>1, <1>2, <1>3, <2>2 DEF TicketsIInv, CopiesAreCurrent, TicketsAreKept
  <2> QED
    BY <2>1, <2>2
<1> QED
  BY <1>1, <1>2, <1>3, <1>4, <1>5, ScanEndsKeeps

\* The process dies: what the row says of a retest under way stays as it is.
LEMMA ProcessDiesKeeps == TicketsIInv /\ ProcessDies => TicketsIInv'
<1> SUFFICES ASSUME TicketsIInv, ProcessDies PROVE TicketsIInv'
  OBVIOUS
<1>1. /\ scan' = NoScan /\ push' = [h \in Pushers |-> NoPush]
      /\ UNCHANGED <<row, settings, filed, confirmed, raced>>
      /\ dropped' = IF Retesting /\ row # scan.before THEN Issues ELSE dropped
  BY DEF ProcessDies, Retesting
<1>2. TicketsTypeOK' /\ CopiesAreRows'
  BY <1>1, IdleIsNoPush DEF TicketsIInv, TicketsTypeOK, CopiesAreRows
<1>3. CopiesAreCurrent' /\ SlateIsClean'
  BY <1>1, IdleIsNoPush, IdleIsNoScan DEF CopiesAreCurrent, SlateIsClean, Retesting
<1>4. TicketsAreKept'
  BY <1>1, NoTicketsIsNone DEF TicketsIInv, TicketsAreKept, SlateIsClean, Retesting, AllKept
<1> QED
  BY <1>2, <1>3, <1>4 DEF TicketsIInv

\* The handler writes its copy back, with the key: where nobody else has a
\* copy, that is the row with one more ticket.
LEMMA RecordTicketKeeps ==
    ASSUME TicketsIInv, NEW h \in Pushers, RecordTicket(h)
    PROVE  TicketsIInv'
<1> DEFINE f == push[h].issue
           key == push[h].key
           new == Ticketed(push[h].copy, f, key)
<1>1. push[h] \in Pushed /\ push[h].at # "idle"
  BY IdleIsNoPush DEF RecordTicket, TicketsIInv, CopiesAreRows
<1>2. f \in Issues /\ key \in 0..MaxTickets /\ push[h].copy \in Row
  BY <1>1 DEF Pushed
<1>3. new \in Row /\ new.ticket = [push[h].copy.ticket EXCEPT ![f] = key]
  BY <1>2, TicketedIsARow
<1>4. /\ row' = IF row.alive THEN new ELSE row
      /\ raced' = (raced \/ (Pushing(Pushers \ {h}) \/ scan.busy))
  BY DEF RecordTicket, WriteRow
<1>5. confirmed' = [confirmed EXCEPT ![f] = key] /\ push' = [push EXCEPT ![h] = NoPush]
  BY DEF RecordTicket
<1> HIDE DEF f, key, new
<1>6. ~raced' => ~raced /\ ~scan.busy /\ \A g \in Pushers : g # h => push[g].at = "idle"
  BY <1>4 DEF Pushing
<1>7. row \in Row /\ row' \in Row /\ raced' \in BOOLEAN
  BY <1>3, <1>4 DEF TicketsIInv, TicketsTypeOK, Row
<1>8. TicketsTypeOK' /\ CopiesAreRows'
  <2>1. UNCHANGED <<settings, scan, filed>>
    BY DEF RecordTicket
  <2>2. CopiesAreRows'
    BY <1>5, <2>1 DEF TicketsIInv, CopiesAreRows
  <2>3. \A g \in Pushers : push'[g].at \in {"idle", "posting", "answered"}
    BY <1>5, IdleIsNoPush DEF TicketsIInv, TicketsTypeOK, CopiesAreRows
  <2>4. confirmed' \in [Issues -> 0..MaxTickets]
    BY <1>2, <1>5 DEF TicketsIInv, TicketsTypeOK
  <2>5. dropped' \subseteq Issues
    BY DEF RecordTicket, TicketsIInv, TicketsTypeOK
  <2> QED
    BY <1>7, <2>1, <2>2, <2>3, <2>4, <2>5 DEF TicketsIInv, TicketsTypeOK, Row
<1>9. CopiesAreCurrent' /\ SlateIsClean'
  BY <1>5, <1>6, IdleIsNoPush
     DEF RecordTicket, TicketsIInv, CopiesAreRows, CopiesAreCurrent, SlateIsClean, Retesting
<1>10. TicketsAreKept'
  <2>1. dropped' = dropped \ {f} /\ scan' = scan
    BY DEF RecordTicket, f
  <2>2. ~raced' /\ row'.alive => ~Retesting /\ row.alive /\ row' = new
                                  /\ push[h].copy.ticket = row.ticket
    BY <1>1, <1>4, <1>6 DEF TicketsIInv, CopiesAreCurrent, Retesting
  <2>3. ~raced' /\ row'.alive => AllKept(row.ticket)
    BY <1>6, <2>2, KeptAtRest DEF TicketsIInv
  <2>4. confirmed \in [Issues -> 0..MaxTickets] /\ row.ticket \in [Issues -> 0..MaxTickets]
    BY DEF TicketsIInv, TicketsTypeOK
  <2>5. ~raced' /\ row'.alive => row'.ticket = [row.ticket EXCEPT ![f] = key]
    BY <1>3, <2>2
  <2>6. ~raced' /\ row'.alive =>
            \A i \in Issues : row'.ticket[i] = IF i \in dropped' THEN 0 ELSE confirmed'[i]
    BY <1>2, <1>5, <2>1, <2>3, <2>4, <2>5 DEF AllKept
  <2> QED
    BY <2>6 DEF TicketsAreKept
<1> QED
  BY <1>8, <1>9, <1>10 DEF TicketsIInv

\* Every step of the tickets keeps their invariant.
LEMMA TicketsNextIInv == TicketsIInv /\ [TicketsNext]_ticketVars => TicketsIInv'
<1> SUFFICES ASSUME TicketsIInv, [TicketsNext]_ticketVars PROVE TicketsIInv'
  OBVIOUS
<1>1. CASE EndScan \/ ScanFails \/ ProcessDies \/ DeleteRow \/ SetTicketConfig
  BY <1>1, EndScanKeeps, ScanFailsKeeps, ProcessDiesKeeps, DeleteRowKeeps, SetTicketConfigKeeps
<1>2. ASSUME NEW h \in Pushers, TrackerFiles(h) \/ TrackerFails(h) \/ RecordTicket(h)
      PROVE  TicketsIInv'
  BY <1>2, TrackerFilesKeeps, TrackerFailsKeeps, RecordTicketKeeps
<1>3. ASSUME NEW h \in Pushers, NEW f \in Issues, PushFindingTicket(h, f)
      PROVE  TicketsIInv'
  BY <1>3, PushFindingTicketKeeps
<1>4. ASSUME NEW kind \in {"run", "retest"}, ScanStarts(kind) PROVE TicketsIInv'
  BY <1>4, ScanStartsKeeps
<1>5. ASSUME NEW f \in Issues, Detects(f) PROVE TicketsIInv'
  BY <1>5, DetectsKeeps
<1>6. CASE UNCHANGED ticketVars
  BY <1>6 DEF ticketVars, TicketsIInv, TicketsTypeOK, CopiesAreRows, CopiesAreCurrent,
     SlateIsClean, Retesting, AllKept, TicketsAreKept
<1> QED
  BY <1>1, <1>2, <1>3, <1>4, <1>5, <1>6 DEF TicketsNext

\* The tickets' inductive invariant holds in every reachable state.
THEOREM TicketsInvariance == TicketsSpec => []TicketsIInv
BY TicketsInitIInv, TicketsNextIInv, PTL DEF TicketsSpec

\* The row, and every copy of it, keeps its type.
THEOREM TicketsTypeCorrect == TicketsSpec => [](TicketsTypeOK /\ CopiesAreRows)
BY TicketsInvariance, PTL DEF TicketsIInv

\* Every confirmed ticket is on record with its finding, also after retests that do
\* not find it again, unless two writers of the row have overlapped; the tickets
\* that are lost are exactly those of findings whose record a retest replaced or
\* threw away.  For any number of handlers, findings and scans.
THEOREM TicketsStay == TicketsSpec => []TicketsAreKept
BY TicketsInvariance, PTL DEF TicketsIInv

-----------------------------------------------------------------------------
(***************************************************************************)
(* The self-update.                                                        *)
(***************************************************************************)
Holding == {"fetch", "pull", "install"}

\* The try-lock is held by exactly the handler that is past it.
LockIsHeld ==
    /\ lock <=> \E h \in Admins : update[h].at \in Holding
    /\ \A g, h \in Admins : {update[g].at, update[h].at} \subseteq Holding => g = h

Installing == \E h \in Admins : update[h].at = "install"

(***************************************************************************)
(* Unless a restart is due, what runs is what a waiting handler compared   *)
(* with, however long ago it looked; while a pulled commit is being        *)
(* installed a handler may have seen that one instead.                     *)
(***************************************************************************)
Compared(h) ==
    /\ update[h].at = "install" => update[h].after = disk /\ update[h].before = running
    /\ update[h].at \in {"fetch", "pull"} => update[h].before = running
    /\ update[h].at = "lock" =>
          \/ update[h].before = running
          \/ Installing /\ update[h].before = disk

RunningIsKnown ==
    ~restart /\ ~orphan =>
        /\ ~Installing => running = disk
        /\ \A h \in Admins : Compared(h)

UpdateIInv == UpdateTypeOK /\ LockIsHeld /\ RunningIsKnown

\* The shape of an idle handler.
LEMMA NoUpdateIsIdle ==
    /\ NoUpdate \in [at : {"idle", "lock", "fetch", "pull", "install"},
                     before : 0..MaxCommits, after : 0..MaxCommits]
    /\ NoUpdate.at = "idle"
BY SelfUpdateAssumption DEF NoUpdate

\* The invariant of the self-update holds at first.
LEMMA UpdateInitIInv == UpdateInit => UpdateIInv
<1> SUFFICES ASSUME UpdateInit PROVE UpdateIInv
  OBVIOUS
<1>1. UpdateTypeOK
  <2>1. 0 \in 0..MaxCommits
    BY SelfUpdateAssumption
  <2> QED
    BY <2>1, NoUpdateIsIdle DEF UpdateInit, UpdateTypeOK
<1>2. LockIsHeld /\ RunningIsKnown
  BY NoUpdateIsIdle DEF UpdateInit, LockIsHeld, Holding, RunningIsKnown, Compared
<1> QED
  BY <1>1, <1>2 DEF UpdateIInv

\* A step of one handler leaves the others where they were.
LEMMA ApplyUpdateKeeps ==
    ASSUME UpdateIInv, NEW h \in Admins, ApplyUpdate(h)
    PROVE  UpdateIInv'
<1> USE DEF ApplyUpdate, UpdateIInv
<1>1. UpdateTypeOK'
  BY SelfUpdateAssumption DEF UpdateTypeOK
<1>2. LockIsHeld'
  BY DEF LockIsHeld, Holding, UpdateTypeOK
<1>3. RunningIsKnown'
  BY DEF RunningIsKnown, Compared, Installing, UpdateTypeOK
<1> QED
  BY <1>1, <1>2, <1>3

\* The lock is tried.
LEMMA TakeLockKeeps ==
    ASSUME UpdateIInv, NEW h \in Admins, TakeLock(h)
    PROVE  UpdateIInv'
<1> USE NoUpdateIsIdle DEF TakeLock, UpdateIInv
<1>1. UpdateTypeOK'
  BY DEF UpdateTypeOK
<1>2. LockIsHeld'
  BY DEF LockIsHeld, Holding, UpdateTypeOK
<1>3. RunningIsKnown'
  BY DEF RunningIsKnown, Compared, Installing, UpdateTypeOK, LockIsHeld, Holding
<1> QED
  BY <1>1, <1>2, <1>3

\* The remote is fetched, or the handler gives up and lets the lock go.
LEMMA FetchKeeps ==
    ASSUME UpdateIInv, NEW h \in Admins, Fetch(h)
    PROVE  UpdateIInv'
<1> USE NoUpdateIsIdle DEF Fetch, UpdateIInv
<1>1. UpdateTypeOK'
  <2>1. CASE GiveUp(h)
    BY <2>1 DEF GiveUp, UpdateTypeOK
  <2>2. CASE ~GiveUp(h)
    BY <2>2 DEF UpdateTypeOK
  <2> QED
    BY <2>1, <2>2
<1> USE DEF GiveUp
<1>2. LockIsHeld'
  BY DEF LockIsHeld, Holding, UpdateTypeOK
<1>3. RunningIsKnown'
  BY DEF RunningIsKnown, Compared, Installing, UpdateTypeOK, LockIsHeld, Holding
<1> QED
  BY <1>1, <1>2, <1>3

\* What is on disk becomes the newest commit.
LEMMA PullKeeps ==
    ASSUME UpdateIInv, NEW h \in Admins, Pull(h)
    PROVE  UpdateIInv'
<1> USE NoUpdateIsIdle DEF UpdateIInv
<1>1. update[h].at = "pull" /\ UNCHANGED <<deployment, remote, running, restart>>
  BY DEF Pull
<1>2. CASE GiveUp(h) /\ orphan' \in {orphan, TRUE}
  <2>1. UpdateTypeOK'
    BY <1>1, <1>2 DEF GiveUp, UpdateTypeOK
  <2>2. LockIsHeld'
    BY <1>1, <1>2 DEF GiveUp, LockIsHeld, Holding, UpdateTypeOK
  <2>3. RunningIsKnown'
    BY <1>1, <1>2 DEF GiveUp, RunningIsKnown, Compared, Installing, UpdateTypeOK, LockIsHeld,
       Holding
  <2> QED
    BY <2>1, <2>2, <2>3
<1>3. CASE /\ disk' = remote
           /\ update' = [update EXCEPT ![h].at = "install", ![h].after = remote]
           /\ UNCHANGED <<lock, orphan>>
  <2>1. UpdateTypeOK'
    BY <1>1, <1>3 DEF UpdateTypeOK
  <2>2. LockIsHeld'
    BY <1>1, <1>3 DEF LockIsHeld, Holding, UpdateTypeOK
  <2>3. RunningIsKnown'
    BY <1>1, <1>3 DEF RunningIsKnown, Compared, Installing, UpdateTypeOK, LockIsHeld, Holding
  <2> QED
    BY <2>1, <2>2, <2>3
<1> QED
  BY <1>2, <1>3 DEF Pull

\* The update ends: a restart is due if the commit has changed.
LEMMA InstallKeeps ==
    ASSUME UpdateIInv, NEW h \in Admins, Install(h)
    PROVE  UpdateIInv'
<1> USE NoUpdateIsIdle DEF Install, UpdateIInv
<1>1. UpdateTypeOK'
  BY DEF UpdateTypeOK, Changed
<1>2. LockIsHeld'
  BY DEF LockIsHeld, Holding, UpdateTypeOK
<1>3. RunningIsKnown'
  BY DEF RunningIsKnown, Compared, Installing, UpdateTypeOK, LockIsHeld, Holding, Changed
<1> QED
  BY <1>1, <1>2, <1>3

\* A new process runs what is on disk.
LEMMA BegunKeeps ==
    ASSUME UpdateIInv, Begun, UNCHANGED disk
    PROVE  UpdateIInv'
<1> USE NoUpdateIsIdle DEF Begun, UpdateIInv
<1>1. UpdateTypeOK'
  BY DEF UpdateTypeOK
<1>2. LockIsHeld'
  BY DEF LockIsHeld, Holding
<1>3. RunningIsKnown'
  BY DEF RunningIsKnown, Compared
<1> QED
  BY <1>1, <1>2, <1>3

\* Every step of the self-update keeps its invariant.
LEMMA UpdateNextIInv == UpdateIInv /\ [UpdateNext]_updateVars => UpdateIInv'
<1> SUFFICES ASSUME UpdateIInv, [UpdateNext]_updateVars PROVE UpdateIInv'
  OBVIOUS
<1>1. CASE Publish \/ OrphanPulls \/ UNCHANGED updateVars
  BY <1>1, SelfUpdateAssumption
     DEF Publish, OrphanPulls, updateVars, UpdateIInv, UpdateTypeOK, LockIsHeld, RunningIsKnown,
         Compared, Installing
<1>2. CASE RestartLater \/ Die
  BY <1>2, BegunKeeps DEF RestartLater, Die
<1>3. ASSUME NEW h \in Admins,
             ApplyUpdate(h) \/ TakeLock(h) \/ Fetch(h) \/ Pull(h) \/ Install(h)
      PROVE  UpdateIInv'
  BY <1>3, ApplyUpdateKeeps, TakeLockKeeps, FetchKeeps, PullKeeps, InstallKeeps
<1> QED
  BY <1>1, <1>2, <1>3 DEF UpdateNext

\* The self-update's inductive invariant holds in every reachable state.
THEOREM UpdateInvariance == UpdateSpec => []UpdateIInv
BY UpdateInitIInv, UpdateNextIInv, PTL DEF UpdateSpec

\* Commits, handlers and flags keep their types.
THEOREM UpdateTypeCorrect == UpdateSpec => []UpdateTypeOK
BY UpdateInvariance, PTL DEF UpdateIInv

\* However many administrators update at once and however many commits appear:
\* between updates the process runs what is checked out or is about to restart
\* into it, unless a pull was cut short by a restart or by its timeout.
THEOREM UpdatesAreLoaded == UpdateSpec => []RunningIsCheckedOut
<1>1. UpdateIInv => RunningIsCheckedOut
  BY DEF UpdateIInv, LockIsHeld, Holding, RunningIsKnown, Installing, RunningIsCheckedOut
<1> QED
  BY UpdateInvariance, <1>1, PTL

-----------------------------------------------------------------------------
(***************************************************************************)
(* Inventory                                                               *)
(***************************************************************************)
LEMMA NormalizeNamesAnIdent ==
    ASSUME NEW raw \in Raw, NEW device \in BOOLEAN
    PROVE  Normalize(raw, device) \in Ident
  BY DEF Normalize, Ident, Raw

LEMMA MergedIsAnAsset ==
    ASSUME NEW a \in Asset, NEW u \in Upsert
    PROVE  /\ Merge(a, u) \in Asset
           /\ Merge(a, u).there = a.there
           /\ \A f \in Fields : a.text[f] # "none" => Merge(a, u).text[f] = a.text[f]
  BY DEF Merge, Asset, Upsert, Texts

LEMMA FreshIsAnAsset ==
    ASSUME NEW u \in Upsert, NEW derived \in Values \union {"none"}
    PROVE  Fresh(u, derived) \in Asset
  BY DEF Fresh, Asset, Upsert, Texts

\* An upsert keeps what was written about any asset.
LEMMA UpsertKeeps ==
    ASSUME InventoryTypeOK, CuratedSurvives, NEW u \in Upsert, DoUpsert(u), UNCHANGED curated
    PROVE  asset' \in [Ident -> Asset] /\ CuratedSurvives'
  <1>1. Normalize(u.raw, u.device) \in Ident
    BY NormalizeNamesAnIdent, InventoryAssumption DEF Upsert
  <1> DEFINE c == Normalize(u.raw, u.device)
  <1>2. PICK derived \in Values \union {"none"} :
            asset' = [asset EXCEPT ![c] = IF @.there THEN Merge(@, u) ELSE Fresh(u, derived)]
    BY DEF DoUpsert
  <1>3. c \in Ident
    BY <1>1
  <1> HIDE DEF c
  <1>4. asset[c] \in Asset /\ Merge(asset[c], u) \in Asset /\ Fresh(u, derived) \in Asset
    BY <1>3, MergedIsAnAsset, FreshIsAnAsset DEF InventoryTypeOK
  <1>5. asset' \in [Ident -> Asset]
    BY <1>2, <1>3, <1>4 DEF InventoryTypeOK
  <1>6. \A d \in Ident, f \in Fields :
            curated[d][f] # "none" => asset'[d].there /\ asset'[d].text[f] = curated[d][f]
    <2> SUFFICES ASSUME NEW d \in Ident, NEW f \in Fields, curated[d][f] # "none"
                 PROVE  asset'[d].there /\ asset'[d].text[f] = curated[d][f]
      OBVIOUS
    <2>1. asset[d].there /\ asset[d].text[f] = curated[d][f]
      BY DEF CuratedSurvives
    <2>2. CASE d # c
      BY <1>2, <1>3, <2>1, <2>2 DEF InventoryTypeOK
    <2>3. CASE d = c
      <3>1. asset'[d] = Merge(asset[d], u)
        BY <1>2, <1>3, <2>1, <2>3 DEF InventoryTypeOK
      <3> QED
        BY <1>4, <2>1, <2>3, <3>1, MergedIsAnAsset
    <2> QED
      BY <2>2, <2>3
  <1> QED
    BY <1>5, <1>6 DEF CuratedSurvives

InventoryIInv == InventoryTypeOK /\ CuratedSurvives

LEMMA InventoryInitIInv == InventoryInit => InventoryIInv
  <1> SUFFICES ASSUME InventoryInit PROVE InventoryIInv
    OBVIOUS
  <1>1. NoText \in Texts
    BY DEF NoText, Texts
  <1>2. NoAsset \in Asset
    BY <1>1 DEF NoAsset, Asset, Sources
  <1>3. 0 \in 0..MaxEdits /\ 0 \in 0..MaxSurveys
    BY InventoryAssumption
  <1>4. InventoryTypeOK
    BY <1>1, <1>2, <1>3 DEF InventoryInit, InventoryTypeOK
  <1> QED
    BY <1>4 DEF InventoryInit, InventoryIInv, CuratedSurvives, NoText

LEMMA EditCounts ==
    ASSUME InventoryTypeOK, Edit
    PROVE  edits' \in 0..MaxEdits
  BY InventoryAssumption DEF Edit, InventoryTypeOK

\* What scans and discoveries have still to register are calls of upsert().
LEMMA FiledAreUpserts ==
    ASSUME NEW targets \in SUBSET Target, NEW e \in Engagements,
           NEW label \in Values \union {"none"}
    PROVE  Filed(targets, e, label) \subseteq Upsert
  <1>1. [NoText EXCEPT !["label"] = label] \in Texts
    BY DEF NoText, Texts
  <1> SUFFICES ASSUME NEW t \in targets
               PROVE  [raw |-> t.raw, device |-> t.device, source |-> "engagement", tags |-> {},
                       text |-> [NoText EXCEPT !["label"] = label],
                       engagement_ids |-> {e}] \in Upsert
    BY DEF Filed
  <1> QED
    BY <1>1 DEF Upsert, Target, Sources

LEMMA PeopleKeep ==
    ASSUME InventoryIInv,
           \/ \E raw \in Raws, v \in Values, tags \in {{}, {"mine"}} :
                CreateAsset([raw |-> raw, device |-> FALSE, source |-> "manual", tags |-> tags,
                             text |-> [f \in Fields |-> v], engagement_ids |-> {}])
           \/ \E c \in Ident :
                \/ \E f \in Fields, value \in Values \union {"none"}, tags \in {{}, {"mine"}} :
                     UpdateAsset(c, f, value, tags)
                \/ DeleteAsset(c)
    PROVE  InventoryIInv'
  <1> USE DEF InventoryIInv
  <1>1. ASSUME NEW raw \in Raws, NEW v \in Values, NEW tags \in {{}, {"mine"}},
               CreateAsset([raw |-> raw, device |-> FALSE, source |-> "manual", tags |-> tags,
                            text |-> [f \in Fields |-> v], engagement_ids |-> {}])
        PROVE  InventoryIInv'
    <2> DEFINE u == [raw |-> raw, device |-> FALSE, source |-> "manual", tags |-> tags,
                     text |-> [f \in Fields |-> v], engagement_ids |-> {}]
    <2>1. u \in Upsert
      BY DEF Upsert, Texts, Sources
    <2>2. DoUpsert(u) /\ Edit /\ UNCHANGED <<reported, filing, surveys, curated>>
      BY <1>1 DEF CreateAsset
    <2> HIDE DEF u
    <2>3. asset' \in [Ident -> Asset] /\ CuratedSurvives'
      BY <2>1, <2>2, UpsertKeeps
    <2> QED
      BY <2>2, <2>3, EditCounts DEF InventoryTypeOK
  <1>2. ASSUME NEW c \in Ident, NEW f \in Fields, NEW value \in Values \union {"none"},
               NEW tags \in {{}, {"mine"}}, UpdateAsset(c, f, value, tags)
        PROVE  InventoryIInv'
    <2> DEFINE new == [asset[c] EXCEPT !.text[f] = value, !.tags = tags]
    <2>1. /\ asset' = [asset EXCEPT ![c] = new] /\ asset[c] \in Asset /\ asset[c].there
          /\ curated' = [curated EXCEPT ![c][f] = value]
          /\ UNCHANGED <<reported, filing, surveys>> /\ Edit
      BY <1>2 DEF UpdateAsset, InventoryTypeOK
    <2>2. /\ new \in Asset /\ new.there
          /\ \A g \in Fields : new.text[g] = IF g = f THEN value ELSE asset[c].text[g]
      BY <2>1 DEF Asset, Texts
    <2> HIDE DEF new
    <2>3. curated' \in [Ident -> Texts]
      BY <2>1 DEF InventoryTypeOK, Texts
    <2>4. \A d \in Ident, g \in Fields :
              curated'[d][g] = IF d = c /\ g = f THEN value ELSE curated[d][g]
      BY <2>1 DEF InventoryTypeOK, Texts
    <2>5. InventoryTypeOK'
      BY <2>1, <2>2, <2>3, EditCounts DEF InventoryTypeOK
    <2>6. CuratedSurvives'
      BY <2>1, <2>2, <2>4 DEF CuratedSurvives, InventoryTypeOK
    <2> QED
      BY <2>5, <2>6
  <1>3. ASSUME NEW c \in Ident, DeleteAsset(c) PROVE InventoryIInv'
    <2>1. NoText \in Texts /\ \A f \in Fields : NoText[f] = "none"
      BY DEF NoText, Texts
    <2>2. NoAsset \in Asset
      BY <2>1 DEF NoAsset, Asset, Sources
    <2>3. /\ asset' = [asset EXCEPT ![c] = NoAsset] /\ curated' = [curated EXCEPT ![c] = NoText]
          /\ UNCHANGED <<reported, filing, surveys>> /\ Edit
      BY <1>3 DEF DeleteAsset
    <2>4. InventoryTypeOK'
      BY <2>1, <2>2, <2>3, EditCounts DEF InventoryTypeOK
    <2>5. CuratedSurvives'
      BY <2>1, <2>3 DEF CuratedSurvives, InventoryTypeOK
    <2> QED
      BY <2>4, <2>5
  <1> QED
    BY <1>1, <1>2, <1>3

LEMMA SurveysKeep ==
    ASSUME InventoryIInv,
           \/ \E u \in filing : FileNext(u)
           \/ \E e \in Engagements, scope \in Scopes, label \in Values \union {"none"} :
                \E found \in SUBSET scope : ScanEnds(e, scope, found, label)
           \/ \E hosts \in SUBSET Hosts : Discover(hosts)
    PROVE  InventoryIInv'
  <1> USE DEF InventoryIInv
  <1>1. ASSUME NEW u \in filing, FileNext(u) PROVE InventoryIInv'
    <2>1. u \in Upsert /\ UNCHANGED <<reported, edits, surveys, curated>>
          /\ filing' \subseteq filing
      BY <1>1 DEF FileNext, InventoryTypeOK
    <2>2. asset' \in [Ident -> Asset] /\ CuratedSurvives'
      <3>1. CASE DoUpsert(u)
        BY <2>1, <3>1, UpsertKeeps
      <3>2. CASE UNCHANGED asset
        BY <2>1, <3>2 DEF InventoryTypeOK, CuratedSurvives
      <3> QED
        BY <1>1, <3>1, <3>2 DEF FileNext
    <2> QED
      BY <2>1, <2>2 DEF InventoryTypeOK
  <1>2. surveys < MaxSurveys => surveys + 1 \in 0..MaxSurveys
    BY InventoryAssumption DEF InventoryTypeOK
  <1>3. ASSUME NEW e \in Engagements, NEW scope \in Scopes,
               NEW label \in Values \union {"none"}, NEW found \in SUBSET scope,
               ScanEnds(e, scope, found, label)
        PROVE  InventoryIInv'
    <2>1. scope \in SUBSET Target /\ found \in SUBSET Target
      BY InventoryAssumption
    <2>2. Filed(scope, e, label) \subseteq Upsert /\ Filed(found \ scope, e, "none") \subseteq Upsert
      BY <2>1, FiledAreUpserts
    <2>3. filing' \subseteq Upsert /\ reported' \in [Engagements -> SUBSET Target]
      BY <1>3, <2>1, <2>2 DEF ScanEnds, InventoryTypeOK
    <2> QED
      BY <1>2, <1>3, <2>3 DEF ScanEnds, InventoryTypeOK, CuratedSurvives
  <1>4. ASSUME NEW hosts \in SUBSET Hosts, Discover(hosts) PROVE InventoryIInv'
    <2>1. NoText \in Texts
      BY DEF NoText, Texts
    <2>2. \A h \in hosts : [raw |-> h, device |-> FALSE, source |-> "easm", text |-> NoText,
                            tags |-> {"external"}, engagement_ids |-> {}] \in Upsert
      BY <2>1, InventoryAssumption DEF Upsert, Sources
    <2>3. filing' \subseteq Upsert
      BY <1>4, <2>2 DEF Discover, InventoryTypeOK
    <2> QED
      BY <1>2, <1>4, <2>3 DEF Discover, InventoryTypeOK, CuratedSurvives
  <1> QED
    BY <1>1, <1>3, <1>4

LEMMA InventoryNextIInv == InventoryIInv /\ [InventoryNext]_inventoryVars => InventoryIInv'
  <1> SUFFICES ASSUME InventoryIInv, [InventoryNext]_inventoryVars PROVE InventoryIInv'
    OBVIOUS
  <1>1. CASE InventoryNext
    BY <1>1, PeopleKeep, SurveysKeep DEF InventoryNext
  <1>2. CASE UNCHANGED inventoryVars
    BY <1>2 DEF inventoryVars, InventoryIInv, InventoryTypeOK, CuratedSurvives
  <1> QED
    BY <1>1, <1>2

\* What a person wrote about an asset survives every merge of scans, discoveries
\* and new assets into it, under any spellings.
THEOREM CuratedStays == InventorySpec => []CuratedSurvives
  BY InventoryInitIInv, InventoryNextIInv, PTL DEF InventorySpec, InventoryIInv

\* Types of the inventory: every identifier, in whatever spelling it comes, is
\* filed under a canonical one.
THEOREM InventoryTypeCorrect == InventorySpec => []InventoryTypeOK
  BY InventoryInitIInv, InventoryNextIInv, PTL DEF InventorySpec, InventoryIInv

=============================================================================
