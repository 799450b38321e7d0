--------------------------------- MODULE Auth ---------------------------------
(***************************************************************************)
(* backend/auth.py and the /auth routes of backend/api.py.  A login gives  *)
(* an access token, which carries a role and lives AccessLife, and a       *)
(* refresh token, which carries none and lives RefreshLife.  Tokens are    *)
(* never revoked (auth.py:9-13): a route trusts the role in the token, and *)
(* a refresh reads the role from the users table.                          *)
(*                                                                         *)
(* Roles change while tokens and requests are out.  No function of the     *)
(* program changes the role of an account or removes one; ChangeRole is    *)
(* the administrator who does it in the database ("an admin demotes this   *)
(* user", api.py:410).                                                     *)
(*                                                                         *)
(* Time is a counter.  Handling bounds how long a request is in work; it   *)
(* is an assumption on the server.  MaxTime only ends the runs of TLC.     *)
(***************************************************************************)
EXTENDS Integers

CONSTANTS Users, Clients,
          UserOf,       \* UserOf[c]: whose credentials client c has
          AccessLife,   \* JWT_ACCESS_TOKEN_EXPIRE_MINUTES
          RefreshLife,  \* JWT_REFRESH_TOKEN_EXPIRE_DAYS
          Handling, MaxTime,
          Faults        \* the faults that may happen

ASSUME AuthAssumption == /\ UserOf \in [Clients -> Users]
                         /\ AccessLife \in Nat \ {0}
                         /\ RefreshLife \in Nat \ {0}
                         /\ Handling \in Nat
                         /\ MaxTime \in Nat
                         /\ Faults \subseteq {"dbError", "crash"}

Roles == {"analyst", "admin"}
Never == -1

VARIABLES now,
          role,        \* role[u]: the users table, "none" without a row
          lostAt,      \* lostAt[u][r]: when u last ceased to have role r
          stage,       \* stage[c]: where the request of c stands
          since,       \* when that request came in
          seen,        \* the role that request has read or acts with
          accessRole,  \* the access token of c: its role ("none": no token)
          accessExp,   \* and its expiry
          refreshExp,  \* expiry of the refresh token of c
          loginAt,     \* when c got that refresh token
          audit        \* the events of audit_logs

requests == <<stage, since, seen>>
tokens == <<accessRole, accessExp, refreshExp, loginAt>>
accounts == <<role, lostAt>>
vars == <<now, accounts, requests, tokens, audit>>

Init == /\ now = 0
        /\ role \in [Users -> Roles \cup {"none"}]
        /\ lostAt = [u \in Users |-> [r \in Roles |-> Never]]
        /\ stage = [c \in Clients |-> "idle"]
        /\ since = [c \in Clients |-> 0]
        /\ seen = [c \in Clients |-> "none"]
        /\ accessRole = [c \in Clients |-> "none"]
        /\ accessExp = [c \in Clients |-> Never]
        /\ refreshExp = [c \in Clients |-> Never]
        /\ loginAt = [c \in Clients |-> Never]
        /\ audit = {}

-------------------------------------------------------------------------------
(* Tokens *)

\* Mutant: a token is valid for ever (verification of exp switched off).
Valid_Forever(exp) == exp # Never

\* decode_token(): any failure is a 401 and the request ends.
Valid(exp) == now < exp

\* What get_user() shows of c's account; any error looks like no account.
RoleRead(c) == {role[UserOf[c]]} \cup (IF "dbError" \in Faults THEN {"none"} ELSE {})

\* save_audit_log() swallows its errors.
Audited(event) == {audit \cup {event}} \cup (IF "dbError" \in Faults THEN {audit} ELSE {})

Begin(c, st, r) == /\ stage[c] = "idle"
                   /\ stage' = [stage EXCEPT ![c] = st]
                   /\ since' = [since EXCEPT ![c] = now]
                   /\ seen' = [seen EXCEPT ![c] = r]

Answer(c) == /\ stage' = [stage EXCEPT ![c] = "idle"]
             /\ seen' = [seen EXCEPT ![c] = "none"]
             /\ UNCHANGED since

\* create_access_token()
IssueAccess(c) == /\ accessRole' = [accessRole EXCEPT ![c] = seen[c]]
                  /\ accessExp' = [accessExp EXCEPT ![c] = now + AccessLife]

\* create_refresh_token()
IssueRefresh(c) == /\ refreshExp' = [refreshExp EXCEPT ![c] = now + RefreshLife]
                   /\ loginAt' = [loginAt EXCEPT ![c] = now]

-------------------------------------------------------------------------------
(* auth_login() *)

\* authenticate_user() accepts the password and has the role.
LoginRead(c) == /\ role[UserOf[c]] # "none"
                /\ Begin(c, "login", role[UserOf[c]])
                /\ UNCHANGED <<now, accounts, tokens, audit>>

\* No account, a wrong password, or an error of the database: all a 401.
LoginFailed(c) == /\ stage[c] = "idle"
                  /\ audit' \in Audited("login_failed")
                  /\ UNCHANGED <<now, accounts, requests, tokens>>

LoginIssue(c) == /\ stage[c] = "login"
                 /\ IssueAccess(c)
                 /\ IssueRefresh(c)
                 /\ audit' \in Audited("login_success")
                 /\ Answer(c)
                 /\ UNCHANGED <<now, accounts>>

-------------------------------------------------------------------------------
(* auth_refresh() *)

RefreshStart(c) == /\ Valid(refreshExp[c])
                   /\ Begin(c, "refreshing", "none")
                   /\ UNCHANGED <<now, accounts, tokens, audit>>

\* Mutant: the role of the token that is replaced, not of the account.
RefreshRole_Carried(c) == {accessRole[c]}

RefreshRole(c) == RoleRead(c)

\* Mutant: no "if not user".
RefreshRead_Unchecked(c) ==
    /\ stage[c] = "refreshing"
    /\ stage' = [stage EXCEPT ![c] = "refresh"]
    /\ \E r \in RefreshRole(c) : seen' = [seen EXCEPT ![c] = r]
    /\ UNCHANGED <<since, now, accounts, tokens, audit>>

\* The account is read; without one the answer is 401.
RefreshRead(c) ==
    /\ stage[c] = "refreshing"
    /\ \E r \in RefreshRole(c) :
         IF r = "none"
         THEN Answer(c)
         ELSE /\ stage' = [stage EXCEPT ![c] = "refresh"]
              /\ seen' = [seen EXCEPT ![c] = r]
              /\ UNCHANGED since
    /\ UNCHANGED <<now, accounts, tokens, audit>>

\* Mutant: the refresh token is renewed as well.
RefreshIssue_Renewing(c) ==
    /\ stage[c] = "refresh"
    /\ IssueAccess(c)
    /\ refreshExp' = [refreshExp EXCEPT ![c] = now + RefreshLife]
    /\ Answer(c)
    /\ UNCHANGED <<now, accounts, loginAt, audit>>

\* Only a new access token: the refresh token stays as it is.
RefreshIssue(c) == /\ stage[c] = "refresh"
                   /\ IssueAccess(c)
                   /\ Answer(c)
                   /\ UNCHANGED <<now, accounts, refreshExp, loginAt, audit>>

-------------------------------------------------------------------------------
(* A route behind get_current_user() or require_role(). *)

\* What a route asks for: require_role("admin"), require_role("admin", "analyst").
Guards == {{"admin"}, Roles}

CallStart(c) == /\ Valid(accessExp[c])
                /\ \E allowed \in Guards : accessRole[c] \in allowed
                /\ Begin(c, "call", accessRole[c])
                /\ UNCHANGED <<now, accounts, tokens, audit>>

CallEnd(c) == /\ stage[c] = "call"
              /\ Answer(c)
              /\ UNCHANGED <<now, accounts, tokens, audit>>

-------------------------------------------------------------------------------
(* The administrator, the server, the clock. *)

\* The row of u is inserted, changed or deleted.
ChangeRole(u) ==
    /\ \E r \in (Roles \cup {"none"}) \ {role[u]} : role' = [role EXCEPT ![u] = r]
    /\ lostAt' = IF role[u] = "none"
                 THEN lostAt
                 ELSE [lostAt EXCEPT ![u] = [@ EXCEPT ![role[u]] = now]]
    /\ UNCHANGED <<now, requests, tokens, audit>>

\* The API dies: its requests go unanswered, tokens live on (no token store).
Crash == /\ "crash" \in Faults
         /\ stage' = [c \in Clients |-> "idle"]
         /\ seen' = [c \in Clients |-> "none"]
         /\ UNCHANGED <<now, since, accounts, tokens, audit>>

\* No request is in work longer than Handling.
Tick == /\ now < MaxTime
        /\ \A c \in Clients : stage[c] # "idle" => now < since[c] + Handling
        /\ now' = now + 1
        /\ UNCHANGED <<accounts, requests, tokens, audit>>

ClientStep(c) == \/ LoginRead(c) \/ LoginFailed(c) \/ LoginIssue(c)
                 \/ RefreshStart(c) \/ RefreshRead(c) \/ RefreshIssue(c)
                 \/ CallStart(c) \/ CallEnd(c)

Next == \/ \E c \in Clients : ClientStep(c)
        \/ \E u \in Users : ChangeRole(u)
        \/ Crash
        \/ Tick

Spec == Init /\ [][Next]_vars

-------------------------------------------------------------------------------
(* Properties *)

Times == {Never} \cup Nat

\* Types of the tokens, the accounts and the requests in work.  A token that is
\* out carries a role: get_current_user() never meets "Invalid token payload".
TypeOK ==
    /\ now \in Nat
    /\ role \in [Users -> Roles \cup {"none"}]
    /\ lostAt \in [Users -> [Roles -> Times]]
    /\ stage \in [Clients -> {"idle", "login", "refreshing", "refresh", "call"}]
    /\ since \in [Clients -> Nat]
    /\ seen \in [Clients -> Roles \cup {"none"}]
    /\ accessRole \in [Clients -> Roles \cup {"none"}]
    /\ accessExp \in [Clients -> Times]
    /\ \A c \in Clients : accessExp[c] # Never => accessRole[c] # "none"
    /\ refreshExp \in [Clients -> Times]
    /\ loginAt \in [Clients -> Times]
    /\ audit \subseteq {"login_success", "login_failed"}

\* Role r of client c's account was lost before time t (and is not back).
LostBefore(c, r, t) == /\ role[UserOf[c]] # r
                       /\ lostAt[UserOf[c]][r] < t

\* How long a role outlives its loss: a route acts with a role that its user has,
\* or lost less than the life of an access token ago, plus the time the request
\* that issued the token and this one are in work.  Refreshing never extends it.
StaleRoleBounded ==
    \A c \in Clients : stage[c] = "call" =>
        ~LostBefore(c, seen[c], now - AccessLife - 2 * Handling + 1)

\* A login ends: without a new password no route acts for a client later than one
\* refresh token and one access token after the login, however often it refreshes
\* (there is no other limit on a session, auth.py:9-13).
SessionBounded ==
    \A c \in Clients : stage[c] = "call" =>
        now < loginAt[c] + RefreshLife + AccessLife + 2 * Handling

\* "If an admin demotes this user between login and refresh, the new access token
\* reflects that immediately" (api.py:409): a token never carries a role that was
\* lost before the request for the token came in.
IssuedFresh ==
    \A c \in Clients : accessRole'[c] # accessRole[c] \/ accessExp'[c] # accessExp[c]
                         => ~LostBefore(c, accessRole'[c], since[c])
TokensCarryFreshRoles == [][IssuedFresh]_vars
===============================================================================
