------------------------------ MODULE Accounts ------------------------------
(***************************************************************************)
(* Accounts: tenants, users, memberships and API keys as AuthService and   *)
(* SqliteAuthStore keep them (pentestiq/auth/service.py,                   *)
(* pentestiq/storage/auth_store.py), with the first-run admin that every   *)
(* start of the program sees to.                                           *)
(*                                                                         *)
(* An account takes two or three commits: the tenant, the user, the        *)
(* membership that ties them.  Several workers serve requests and start up *)
(* on the same database, and a worker may die between two commits.  Users  *)
(* are never deleted or renamed, so a user id is its username here.        *)
(***************************************************************************)
EXTENDS Naturals, FiniteSets

CONSTANTS
    Usernames,
    Admin,          \* CORVEX_ADMIN_USER
    Passwords,
    Workers,        \* threads of any process on the database
    Granted,        \* roles the callers of create_member and create_api_key ask for
    MaxTenants,     \* bound: tenants created
    MaxDeaths       \* bound: calls that die between two commits

Rank == [viewer |-> 0, member |-> 1, admin |-> 2, owner |-> 3]
Roles == DOMAIN Rank
Satisfies(role, minimum) == Rank[role] >= Rank[minimum]

ASSUME AccountsAssumption ==
    /\ Admin \in Usernames
    /\ Passwords # {} /\ "none" \notin Passwords
    /\ Granted \subseteq Roles
    /\ {MaxTenants, MaxDeaths} \subseteq Nat

VARIABLES
    tenants,      \* tenants created so far; tenant n is the n-th
    password,     \* the users table: username to password, "none" for no row
    memberships,  \* rows <<user, tenant, role>>
    apiKeys,      \* <<tenant, role>> of the keys handed out
    call,         \* what each worker is in the middle of
    deaths,
    sessions,     \* history: <<user, tenant, role>> of the tokens signed so far
    torn,         \* history: users whose creation died before the membership
    seeded        \* history: some start has run ensure_default_admin to its end

accountVars == <<tenants, password, memberships, apiKeys, call, deaths, sessions, torn, seeded>>

Call == [pc: {"idle", "user", "membership", "replace"},
         kind: {"register", "start", "member"}, user: Usernames,
         tenant: 0..MaxTenants, role: Roles, new: Passwords]

NoCall == [pc |-> "idle", kind |-> "register", user |-> Admin, tenant |-> 0,
           role |-> "viewer", new |-> CHOOSE p \in Passwords : TRUE]

AccountsTypeOK ==
    /\ tenants \in 0..MaxTenants
    /\ password \in [Usernames -> Passwords \union {"none"}]
    /\ memberships \subseteq Usernames \X (1..tenants) \X Roles
    /\ apiKeys \subseteq (1..tenants) \X Roles
    /\ call \in [Workers -> Call]
    /\ deaths \in 0..MaxDeaths
    /\ sessions \subseteq Usernames \X (1..tenants) \X Roles
    /\ torn \subseteq Usernames
    /\ seeded \in BOOLEAN

AccountsInit ==
    /\ tenants = 0
    /\ password = [u \in Usernames |-> "none"]
    /\ memberships = {}
    /\ apiKeys = {}
    /\ call = [w \in Workers |-> NoCall]
    /\ deaths = 0
    /\ sessions = {}
    /\ torn = {}
    /\ seeded = FALSE

Free(w) == call[w].pc = "idle"
Return(w) == call' = [call EXCEPT ![w] = NoCall]

\* get_user_auth: users JOIN memberships, LIMIT 1.
UserAuth(u) == {m \in memberships : m[1] = u}

\* Who may act as an admin of a tenant: by session or by API key.
Acting(tenant, role) ==
    <<tenant, role>> \in apiKeys \union {<<s[2], s[3]>> : s \in sessions}

-----------------------------------------------------------------------------
(***************************************************************************)
(* register, ensure_default_admin and create_member share the last steps.  *)
(***************************************************************************)

\* register: the tenant is committed before anybody looks at the username.
CreateTenant(w, u, p, kind) ==
    /\ tenants < MaxTenants
    /\ tenants' = tenants + 1
    /\ call' = [call EXCEPT ![w] = [pc |-> "user", kind |-> kind, user |-> u,
                                    tenant |-> tenants + 1, role |-> "owner", new |-> p]]

Register(w, u, p) ==
    /\ Free(w)
    /\ CreateTenant(w, u, p, "register")
    /\ UNCHANGED <<password, memberships, apiKeys, deaths, sessions, torn, seeded>>

\* Seeded fault: a tenant in the store passes for a store that is set up.
EnsureOnEmptyStoreOnly(w, p) ==
    /\ Free(w)
    /\ IF tenants > 0 THEN seeded' = TRUE /\ UNCHANGED <<tenants, call>>
                      ELSE CreateTenant(w, Admin, p, "start") /\ UNCHANGED seeded
    /\ UNCHANGED <<password, memberships, apiKeys, deaths, sessions, torn>>

\* ensure_default_admin, at every start: done if the admin can log in.
EnsureDefaultAdmin(w, p) ==
    /\ Free(w)
    /\ IF UserAuth(Admin) # {} THEN seeded' = TRUE /\ UNCHANGED <<tenants, call>>
                               ELSE CreateTenant(w, Admin, p, "start") /\ UNCHANGED seeded
    /\ UNCHANGED <<password, memberships, apiKeys, deaths, sessions, torn>>

\* create_member by an admin or owner, for a role not above their own.
CreateMember(w, u, p, tenant, role, by) ==
    /\ Free(w)
    /\ Acting(tenant, by) /\ Satisfies(by, "admin") /\ Satisfies(by, role)
    /\ call' = [call EXCEPT ![w] = [pc |-> "user", kind |-> "member", user |-> u,
                                    tenant |-> tenant, role |-> role, new |-> p]]
    /\ UNCHANGED <<tenants, password, memberships, apiKeys, deaths, sessions, torn, seeded>>

\* Seeded fault: INSERT OR REPLACE, as for memberships.
ReplaceUser(w) ==
    /\ call[w].pc = "user"
    /\ password' = [password EXCEPT ![call[w].user] = call[w].new]
    /\ call' = [call EXCEPT ![w].pc = "membership"]
    /\ UNCHANGED <<tenants, memberships, apiKeys, deaths, sessions, torn, seeded>>

\* create_user: usernames are UNIQUE.  DuplicateUser ends the call: 409, or,
\* at a start, an admin that is taken to be there.
CreateUser(w) ==
    /\ call[w].pc = "user"
    /\ IF password[call[w].user] = "none"
       THEN /\ password' = [password EXCEPT ![call[w].user] = call[w].new]
            /\ call' = [call EXCEPT ![w].pc = "membership"]
            /\ UNCHANGED seeded
       ELSE /\ Return(w)
            /\ seeded' = (seeded \/ call[w].kind = "start")
            /\ UNCHANGED password
    /\ UNCHANGED <<tenants, memberships, apiKeys, deaths, sessions, torn>>

\* add_membership; register answers with a session.
AddMembership(w) ==
    LET c == call[w]
        row == <<c.user, c.tenant, c.role>>
    IN  /\ c.pc = "membership"
        /\ memberships' = {m \in memberships : ~(m[1] = c.user /\ m[2] = c.tenant)} \union {row}
        /\ sessions' = IF c.kind = "register" THEN sessions \union {row} ELSE sessions
        /\ seeded' = (seeded \/ c.kind = "start")
        /\ Return(w)
        /\ UNCHANGED <<tenants, password, apiKeys, deaths, torn>>

\* create_api_key by an admin or owner of the tenant.
CreateApiKey(tenant, role, by) ==
    /\ Acting(tenant, by) /\ Satisfies(by, "admin") /\ Satisfies(by, role)
    /\ apiKeys' = apiKeys \union {<<tenant, role>>}
    /\ UNCHANGED <<tenants, password, memberships, call, deaths, sessions, torn, seeded>>

Login(u, p) ==
    /\ password[u] = p
    /\ \E m \in UserAuth(u) : sessions' = sessions \union {m}
    /\ UNCHANGED <<tenants, password, memberships, apiKeys, call, deaths, torn, seeded>>

\* change_password verifies the current one against a copy of the row ...
ChangePassword(w, u, current, new) ==
    /\ Free(w)
    /\ password[u] = current
    /\ \E s \in sessions : s[1] = u
    /\ call' = [call EXCEPT ![w] = [NoCall EXCEPT !.pc = "replace", !.user = u, !.new = new]]
    /\ UNCHANGED <<tenants, password, memberships, apiKeys, deaths, sessions, torn, seeded>>

\* ... and replaces whatever is there by then.
ReplacePassword(w) ==
    /\ call[w].pc = "replace"
    /\ password' = [password EXCEPT ![call[w].user] = call[w].new]
    /\ Return(w)
    /\ UNCHANGED <<tenants, memberships, apiKeys, deaths, sessions, torn, seeded>>

\* reset_password from the command line.
ResetPassword(u, new) ==
    /\ password[u] # "none"
    /\ password' = [password EXCEPT ![u] = new]
    /\ UNCHANGED <<tenants, memberships, apiKeys, call, deaths, sessions, torn, seeded>>

\* The process dies, or a statement fails: what was committed stays.
CallDies(w) ==
    /\ ~Free(w)
    /\ deaths < MaxDeaths
    /\ deaths' = deaths + 1
    /\ torn' = IF call[w].pc = "membership" THEN torn \union {call[w].user} ELSE torn
    /\ Return(w)
    /\ UNCHANGED <<tenants, password, memberships, apiKeys, sessions, seeded>>

AccountsNext ==
    \/ \E w \in Workers :
         \/ \E p \in Passwords : EnsureDefaultAdmin(w, p)
         \/ \E u \in Usernames, p \in Passwords :
              \/ Register(w, u, p)
              \/ \E tenant \in 1..tenants, role \in Granted, by \in Roles :
                   CreateMember(w, u, p, tenant, role, by)
              \/ \E new \in Passwords : ChangePassword(w, u, p, new)
         \/ CreateUser(w)
         \/ AddMembership(w)
         \/ ReplacePassword(w)
         \/ CallDies(w)
    \/ \E tenant \in 1..tenants, role \in Granted, by \in Roles : CreateApiKey(tenant, role, by)
    \/ \E u \in Usernames, p \in Passwords : Login(u, p) \/ ResetPassword(u, p)

AccountsSpec == AccountsInit /\ [][AccountsNext]_accountVars

-----------------------------------------------------------------------------
(***************************************************************************)
(* Properties                                                              *)
(***************************************************************************)

\* Whoever logs in is the same to every session: login takes any one membership
\* (LIMIT 1) and signs its tenant and role into the token, so a user must never
\* get a second one, however registrations, new members, failures and deaths of
\* calls fall together.
OneIdentityPerUser ==
    \A m, s \in memberships \union sessions : m[1] = s[1] => m = s

\* After a start has seen to the admin, the admin can log in once no call is in
\* flight, unless the creation of that very account died before its last commit.
\* Duplicate registrations and other starts at the same time do no harm.
AdminAfterStart ==
    seeded /\ (\A w \in Workers : Free(w)) /\ Admin \notin torn => UserAuth(Admin) # {}

=============================================================================
