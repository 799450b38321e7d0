------------------------------ MODULE AuthProofs ------------------------------
(***************************************************************************)
(* Proofs about Auth for any users and clients, any lives of the tokens    *)
(* and any bound on the handling of a request.                             *)
(***************************************************************************)
EXTENDS Auth, TLAPS

-------------------------------------------------------------------------------
(* The inductive invariant. *)

\* c's user has role r, or had it at time t or later.
Had(c, r, t) == role[UserOf[c]] = r \/ lostAt[UserOf[c]][r] >= t

\* A request in work is not older than Handling.
RequestAge(c) == stage[c] # "idle" => /\ since[c] <= now
                                      /\ now <= since[c] + Handling

\* What the request of c carries: a role read since it came in, or the role of an
\* access token that was valid when it came in.
RequestRole(c) ==
    /\ stage[c] \in {"login", "refresh", "call"} => seen[c] \in Roles
    /\ stage[c] \in {"login", "refresh"} => Had(c, seen[c], since[c])
    /\ stage[c] = "call" => Had(c, seen[c], since[c] + 1 - AccessLife - Handling)

\* A token was issued at most now, with a role held at most Handling before.
TokenRole(c) ==
    accessExp[c] # Never => /\ accessRole[c] \in Roles
                            /\ accessExp[c] <= now + AccessLife
                            /\ Had(c, accessRole[c], accessExp[c] - AccessLife - Handling)

\* Tokens and requests belong to a login that is not too long ago.
SessionAge(c) ==
    /\ refreshExp[c] # Never => /\ loginAt[c] \in Nat
                                /\ refreshExp[c] = loginAt[c] + RefreshLife
    /\ accessExp[c] # Never =>
         /\ refreshExp[c] # Never
         /\ accessExp[c] < loginAt[c] + RefreshLife + AccessLife + Handling
    /\ stage[c] \in {"refreshing", "refresh"} => since[c] < refreshExp[c]
    /\ stage[c] = "call" => /\ refreshExp[c] # Never
                            /\ since[c] < loginAt[c] + RefreshLife + AccessLife + Handling

ClientInv(c) == RequestAge(c) /\ RequestRole(c) /\ TokenRole(c) /\ SessionAge(c)

Typed == /\ now \in Nat
         /\ role \in [Users -> Roles \cup {"none"}]
         /\ lostAt \in [Users -> [Roles -> Times]]
         /\ stage \in [Clients -> {"idle", "login", "refreshing", "refresh", "call"}]
         /\ since \in [Clients -> Nat]
         /\ seen \in [Clients -> Roles \cup {"none"}]
         /\ accessRole \in [Clients -> Roles \cup {"none"}]
         /\ accessExp \in [Clients -> Times]
         /\ refreshExp \in [Clients -> Times]
         /\ loginAt \in [Clients -> Times]
         /\ audit \subseteq {"login_success", "login_failed"}

IInv == Typed /\ \A c \in Clients : ClientInv(c)

-------------------------------------------------------------------------------
(* Types *)

\* Every step keeps the variables in their types.
LEMMA TypedNext == ASSUME Typed, [Next]_vars PROVE Typed'
<1> USE AuthAssumption DEF Typed, Times, Never, Roles
<1>1. ASSUME NEW c \in Clients, LoginRead(c) PROVE Typed'
  BY <1>1 DEF LoginRead, Begin, accounts, tokens
<1>2. ASSUME NEW c \in Clients, LoginFailed(c) PROVE Typed'
  BY <1>2 DEF LoginFailed, Audited, accounts, tokens, requests
<1>3. ASSUME NEW c \in Clients, LoginIssue(c) PROVE Typed'
  BY <1>3 DEF LoginIssue, IssueAccess, IssueRefresh, Audited, Answer, accounts
<1>4. ASSUME NEW c \in Clients, RefreshStart(c) PROVE Typed'
  BY <1>4 DEF RefreshStart, Begin, accounts, tokens
<1>5. ASSUME NEW c \in Clients, RefreshRead(c) PROVE Typed'
  <2>1. UserOf[c] \in Users /\ role[UserOf[c]] \in Roles \cup {"none"}
    OBVIOUS
  <2>2. RefreshRole(c) \subseteq Roles \cup {"none"}
    BY <2>1 DEF RefreshRole, RoleRead
  <2> QED BY <1>5, <2>2, ZenonT(60) DEF RefreshRead, Answer, accounts, tokens
<1>6. ASSUME NEW c \in Clients, RefreshIssue(c) PROVE Typed'
  BY <1>6 DEF RefreshIssue, IssueAccess, Answer, accounts
<1>7. ASSUME NEW c \in Clients, CallStart(c) PROVE Typed'
  BY <1>7 DEF CallStart, Begin, accounts, tokens
<1>8. ASSUME NEW c \in Clients, CallEnd(c) PROVE Typed'
  BY <1>8 DEF CallEnd, Answer, accounts, tokens
<1>9. ASSUME NEW u \in Users, ChangeRole(u) PROVE Typed'
  BY <1>9 DEF ChangeRole, requests, tokens
<1>10. CASE Crash
  BY <1>10 DEF Crash, accounts, tokens
<1>11. CASE Tick
  BY <1>11 DEF Tick, accounts, requests, tokens
<1>12. CASE UNCHANGED vars
  BY <1>12 DEF vars, accounts, requests, tokens
<1> QED
  BY <1>1, <1>2, <1>3, <1>4, <1>5, <1>6, <1>7, <1>8, <1>9, <1>10, <1>11, <1>12
  DEF Next, ClientStep

-------------------------------------------------------------------------------
(* One lemma for each kind of step, about the client c it may concern. *)

\* A step that changes neither the clock, the accounts nor anything of client c
\* keeps what is known of c.
LEMMA ClientFrame ==
    ASSUME NEW c \in Clients, ClientInv(c), UNCHANGED <<now, role, lostAt>>,
           stage'[c] = stage[c], since'[c] = since[c], seen'[c] = seen[c],
           accessRole'[c] = accessRole[c], accessExp'[c] = accessExp[c],
           refreshExp'[c] = refreshExp[c], loginAt'[c] = loginAt[c]
    PROVE ClientInv(c)'
BY DEF ClientInv, RequestAge, RequestRole, TokenRole, SessionAge, Had

\* A step that only lets client c's request end (answered, or lost in a crash).
LEMMA ClientRests ==
    ASSUME NEW c \in Clients, ClientInv(c), UNCHANGED <<now, role, lostAt>>,
           stage'[c] = "idle",
           accessRole'[c] = accessRole[c], accessExp'[c] = accessExp[c],
           refreshExp'[c] = refreshExp[c], loginAt'[c] = loginAt[c]
    PROVE ClientInv(c)'
BY DEF ClientInv, RequestAge, RequestRole, TokenRole, SessionAge, Had

\* The step of one client does not touch another.
LEMMA OtherClient ==
    ASSUME Typed, NEW c \in Clients, NEW d \in Clients, c # d,
           ClientInv(c), ClientStep(d)
    PROVE ClientInv(c)'
<1>1. UNCHANGED <<now, role, lostAt>>
  BY DEF ClientStep, LoginRead, LoginFailed, LoginIssue, RefreshStart, RefreshRead,
         RefreshIssue, CallStart, CallEnd, accounts
<1>2. /\ stage'[c] = stage[c] /\ since'[c] = since[c] /\ seen'[c] = seen[c]
      /\ accessRole'[c] = accessRole[c] /\ accessExp'[c] = accessExp[c]
      /\ refreshExp'[c] = refreshExp[c] /\ loginAt'[c] = loginAt[c]
  BY DEF Typed, ClientStep, LoginRead, LoginFailed, LoginIssue, RefreshStart,
         RefreshRead, RefreshIssue, CallStart, CallEnd, Begin, Answer, IssueAccess,
         IssueRefresh, requests, tokens
<1> QED BY <1>1, <1>2, ClientFrame

\* A login reads the role it will issue.
LEMMA LoginReadKeeps ==
    ASSUME Typed, NEW c \in Clients, ClientInv(c), LoginRead(c)
    PROVE ClientInv(c)'
<1> USE AuthAssumption DEF Typed, Times, Never
<1>1. /\ UNCHANGED <<now, role, lostAt, accessRole, accessExp, refreshExp, loginAt>>
      /\ stage'[c] = "login" /\ since'[c] = now /\ seen'[c] = role[UserOf[c]]
      /\ role[UserOf[c]] \in Roles
  BY DEF LoginRead, Begin, accounts, tokens
<1> QED BY <1>1 DEF ClientInv, RequestAge, RequestRole, TokenRole, SessionAge, Had

\* The tokens of a login.
LEMMA LoginIssueKeeps ==
    ASSUME Typed, NEW c \in Clients, ClientInv(c), LoginIssue(c)
    PROVE ClientInv(c)'
<1> USE AuthAssumption DEF Typed, Times, Never
<1>1. /\ UNCHANGED <<now, role, lostAt>>
      /\ stage[c] = "login" /\ stage'[c] = "idle"
      /\ accessRole'[c] = seen[c] /\ accessExp'[c] = now + AccessLife
      /\ refreshExp'[c] = now + RefreshLife /\ loginAt'[c] = now
  BY DEF LoginIssue, IssueAccess, IssueRefresh, Answer, accounts
<1>2. /\ since[c] \in Nat /\ now <= since[c] + Handling
      /\ seen[c] \in Roles /\ Had(c, seen[c], since[c])
  BY <1>1 DEF ClientInv, RequestAge, RequestRole
<1>3. UserOf[c] \in Users /\ lostAt[UserOf[c]][seen[c]] \in Int
  BY <1>2
<1>4. Had(c, seen[c], now + AccessLife - AccessLife - Handling)
  BY <1>2, <1>3 DEF Had
<1> QED
  BY <1>1, <1>2, <1>4 DEF ClientInv, RequestAge, RequestRole, TokenRole, SessionAge, Had

\* A refresh starts with a valid refresh token.
LEMMA RefreshStartKeeps ==
    ASSUME Typed, NEW c \in Clients, ClientInv(c), RefreshStart(c)
    PROVE ClientInv(c)'
<1> USE AuthAssumption DEF Typed, Times, Never
<1>1. /\ UNCHANGED <<now, role, lostAt, accessRole, accessExp, refreshExp, loginAt>>
      /\ stage'[c] = "refreshing" /\ since'[c] = now /\ now < refreshExp[c]
  BY DEF RefreshStart, Begin, Valid, accounts, tokens
<1> QED BY <1>1 DEF ClientInv, RequestAge, RequestRole, TokenRole, SessionAge, Had

\* A refresh reads the current role.
LEMMA RefreshReadKeeps ==
    ASSUME Typed, NEW c \in Clients, ClientInv(c), RefreshRead(c)
    PROVE ClientInv(c)'
<1> USE AuthAssumption DEF Typed, Times, Never
<1>1. UNCHANGED <<now, role, lostAt, accessRole, accessExp, refreshExp, loginAt, since>>
  BY DEF RefreshRead, Answer, accounts, tokens
<1>2. \/ stage'[c] = "idle"
      \/ /\ stage[c] = "refreshing" /\ stage'[c] = "refresh"
         /\ seen'[c] = role[UserOf[c]] /\ seen'[c] \in Roles
  BY DEF RefreshRead, RefreshRole, RoleRead, Answer
<1>3. CASE stage'[c] = "idle"
  BY <1>1, <1>3, ClientRests
<1>4. CASE stage'[c] # "idle"
  BY <1>1, <1>2, <1>4
  DEF ClientInv, RequestAge, RequestRole, TokenRole, SessionAge, Had
<1> QED BY <1>3, <1>4

\* The token of a refresh.
LEMMA RefreshIssueKeeps ==
    ASSUME Typed, NEW c \in Clients, ClientInv(c), RefreshIssue(c)
    PROVE ClientInv(c)'
<1> USE AuthAssumption DEF Typed, Times, Never
<1>1. /\ UNCHANGED <<now, role, lostAt, refreshExp, loginAt>>
      /\ stage[c] = "refresh" /\ stage'[c] = "idle"
      /\ accessRole'[c] = seen[c] /\ accessExp'[c] = now + AccessLife
  BY DEF RefreshIssue, IssueAccess, Answer, accounts
<1>2. /\ since[c] \in Nat /\ now <= since[c] + Handling /\ since[c] < refreshExp[c]
      /\ seen[c] \in Roles /\ Had(c, seen[c], since[c])
  BY <1>1 DEF ClientInv, RequestAge, RequestRole, SessionAge
<1>3. UserOf[c] \in Users /\ lostAt[UserOf[c]][seen[c]] \in Int
  BY <1>2
<1>4. Had(c, seen[c], now + AccessLife - AccessLife - Handling)
  BY <1>2, <1>3 DEF Had
<1>5. refreshExp[c] # Never /\ loginAt[c] \in Nat /\ refreshExp[c] = loginAt[c] + RefreshLife
  BY <1>2 DEF ClientInv, SessionAge
<1>6. now + AccessLife < loginAt[c] + RefreshLife + AccessLife + Handling
  BY <1>2, <1>5
<1> QED
  BY <1>1, <1>2, <1>4, <1>5, <1>6
  DEF ClientInv, RequestAge, RequestRole, TokenRole, SessionAge, Had

\* A route starts with a valid access token.
LEMMA CallStartKeeps ==
    ASSUME Typed, NEW c \in Clients, ClientInv(c), CallStart(c)
    PROVE ClientInv(c)'
<1> USE AuthAssumption DEF Typed, Times, Never
<1>1. /\ UNCHANGED <<now, role, lostAt, accessRole, accessExp, refreshExp, loginAt>>
      /\ stage'[c] = "call" /\ since'[c] = now /\ seen'[c] = accessRole[c]
      /\ now < accessExp[c]
  BY DEF CallStart, Begin, Valid, accounts, tokens
<1>2. /\ accessRole[c] \in Roles
      /\ Had(c, accessRole[c], accessExp[c] - AccessLife - Handling)
      /\ refreshExp[c] # Never /\ loginAt[c] \in Nat
      /\ accessExp[c] < loginAt[c] + RefreshLife + AccessLife + Handling
  BY <1>1 DEF ClientInv, TokenRole, SessionAge
<1>3. UserOf[c] \in Users /\ lostAt[UserOf[c]][accessRole[c]] \in Int
  BY <1>2
<1>4. Had(c, accessRole[c], now + 1 - AccessLife - Handling)
  BY <1>1, <1>2, <1>3 DEF Had
<1>5. now < loginAt[c] + RefreshLife + AccessLife + Handling
  BY <1>1, <1>2
<1> QED
  BY <1>1, <1>2, <1>4, <1>5
  DEF ClientInv, RequestAge, RequestRole, TokenRole, SessionAge, Had

\* A role that is taken away was held until now.
LEMMA ChangeRoleKeeps ==
    ASSUME Typed, NEW c \in Clients, ClientInv(c), NEW u \in Users, ChangeRole(u)
    PROVE ClientInv(c)'
<1> USE AuthAssumption DEF Typed, Times, Never
<1>1. UNCHANGED <<now, stage, since, seen, accessRole, accessExp, refreshExp, loginAt>>
  BY DEF ChangeRole, requests, tokens
<1>2. ASSUME NEW r \in Roles, NEW t \in Int, t <= now, Had(c, r, t)
      PROVE Had(c, r, t)'
  <2>1. UserOf[c] \in Users /\ UserOf[c]' = UserOf[c]
    OBVIOUS
  <2>2. CASE u # UserOf[c]
    BY <1>2, <2>1, <2>2 DEF ChangeRole, Had
  <2>3. CASE u = UserOf[c] /\ role[u] = r
    <3>1. role[u] # "none"
      BY <2>3 DEF Roles
    <3>2. lostAt'[u][r] = now
      BY <2>3, <3>1 DEF ChangeRole
    <3> QED BY <1>2, <2>3, <3>2 DEF Had
  <2>4. CASE u = UserOf[c] /\ role[u] # r
    <3>1. lostAt[u][r] >= t
      BY <1>2, <2>4 DEF Had
    <3>2. lostAt'[u][r] = lostAt[u][r]
      BY <2>4 DEF ChangeRole
    <3> QED BY <2>4, <3>1, <3>2 DEF Had
  <2> QED BY <2>2, <2>3, <2>4
<1>3. RequestAge(c)' /\ SessionAge(c)'
  BY <1>1 DEF ClientInv, RequestAge, SessionAge
<1>4. RequestRole(c)'
  <2>1. stage[c] # "idle" => since[c] <= now /\ since[c] + 1 - AccessLife - Handling <= now
    BY DEF ClientInv, RequestAge
  <2>2. stage[c] \in {"login", "refresh"} => Had(c, seen[c], since[c])'
    BY <1>1, <1>2, <2>1 DEF ClientInv, RequestRole, Had
  <2>3. stage[c] = "call" => Had(c, seen[c], since[c] + 1 - AccessLife - Handling)'
    BY <1>1, <1>2, <2>1 DEF ClientInv, RequestRole, Had
  <2> QED BY <1>1, <2>2, <2>3 DEF ClientInv, RequestRole
<1>5. TokenRole(c)'
  <2>1. accessExp[c] # Never =>
          Had(c, accessRole[c], accessExp[c] - AccessLife - Handling)'
    BY <1>1, <1>2 DEF ClientInv, TokenRole, Had
  <2> QED BY <1>1, <2>1 DEF ClientInv, TokenRole
<1> QED BY <1>3, <1>4, <1>5 DEF ClientInv

\* Time passes only while every request in work is young enough.
LEMMA TickKeeps ==
    ASSUME Typed, NEW c \in Clients, ClientInv(c), Tick
    PROVE ClientInv(c)'
<1>1. /\ now' = now + 1
      /\ stage[c] # "idle" => now < since[c] + Handling
      /\ UNCHANGED <<role, lostAt, stage, since, seen, accessRole, accessExp,
                     refreshExp, loginAt>>
  BY DEF Tick, accounts, requests, tokens
<1> QED
  BY <1>1, AuthAssumption
  DEF Typed, Times, Never, ClientInv, RequestAge, RequestRole, TokenRole, SessionAge, Had

-------------------------------------------------------------------------------
(* The invariant *)

\* Initially no token is out and no request in work.
LEMMA InitIInv == Init => IInv
BY AuthAssumption DEF Init, IInv, Typed, Times, Never, ClientInv, RequestAge,
                      RequestRole, TokenRole, SessionAge

\* Every step keeps the invariant.
LEMMA NextIInv == IInv /\ [Next]_vars => IInv'
<1> SUFFICES ASSUME IInv, [Next]_vars PROVE IInv'
  OBVIOUS
<1>1. Typed /\ Typed'
  BY TypedNext DEF IInv
<1>2. ASSUME NEW c \in Clients PROVE ClientInv(c)'
  <2> USE <1>1
  <2>0. ClientInv(c)
    BY DEF IInv
  <2>1. ASSUME NEW d \in Clients, ClientStep(d), d # c PROVE ClientInv(c)'
    BY <2>0, <2>1, OtherClient
  <2>2. CASE LoginRead(c)
    BY <2>0, <2>2, LoginReadKeeps
  <2>3. CASE LoginFailed(c)
    BY <2>0, <2>3, ClientFrame DEF LoginFailed, requests, tokens, accounts
  <2>4. CASE LoginIssue(c)
    BY <2>0, <2>4, LoginIssueKeeps
  <2>5. CASE RefreshStart(c)
    BY <2>0, <2>5, RefreshStartKeeps
  <2>6. CASE RefreshRead(c)
    BY <2>0, <2>6, RefreshReadKeeps
  <2>7. CASE RefreshIssue(c)
    BY <2>0, <2>7, RefreshIssueKeeps
  <2>8. CASE CallStart(c)
    BY <2>0, <2>8, CallStartKeeps
  <2>9. CASE CallEnd(c)
    <3>1. stage'[c] = "idle"
      BY <2>9 DEF CallEnd, Answer, Typed
    <3> QED BY <2>0, <2>9, <3>1, ClientRests DEF CallEnd, tokens, accounts
  <2>10. ASSUME NEW u \in Users, ChangeRole(u) PROVE ClientInv(c)'
    BY <2>0, <2>10, ChangeRoleKeeps
  <2>11. CASE Crash
    <3>1. stage'[c] = "idle"
      BY <2>11 DEF Crash
    <3> QED BY <2>0, <2>11, <3>1, ClientRests DEF Crash, tokens, accounts
  <2>12. CASE Tick
    BY <2>0, <2>12, TickKeeps
  <2>13. CASE UNCHANGED vars
    BY <2>0, <2>13, ClientFrame DEF vars, requests, tokens, accounts
  <2> QED
    BY <2>1, <2>2, <2>3, <2>4, <2>5, <2>6, <2>7, <2>8, <2>9, <2>10, <2>11, <2>12, <2>13
    DEF Next, ClientStep
<1> QED BY <1>1, <1>2 DEF IInv

\* The invariant always holds.
LEMMA Invariant == Spec => []IInv
BY InitIInv, NextIInv, PTL DEF Spec

-------------------------------------------------------------------------------
(* The theorems *)

\* Types, and a token that is out carries a role (get_current_user).
THEOREM TypeCorrect == Spec => []TypeOK
<1>1. IInv => TypeOK
  BY DEF IInv, Typed, TypeOK, ClientInv, TokenRole, Roles
<1> QED BY <1>1, Invariant, PTL

\* A role outlives its loss by the life of one access token and the handling of two
\* requests at most, however often the client refreshes (auth.py:9-13, api.py:409).
THEOREM StaleRolesAreBounded == Spec => []StaleRoleBounded
<1>1. IInv => StaleRoleBounded
  <2> SUFFICES ASSUME IInv, NEW c \in Clients, stage[c] = "call"
               PROVE ~LostBefore(c, seen[c], now - AccessLife - 2 * Handling + 1)
    BY DEF StaleRoleBounded
  <2>1. /\ Typed
        /\ seen[c] \in Roles /\ now <= since[c] + Handling
        /\ Had(c, seen[c], since[c] + 1 - AccessLife - Handling)
    BY DEF IInv, ClientInv, RequestAge, RequestRole
  <2>2. UserOf[c] \in Users /\ lostAt[UserOf[c]][seen[c]] \in Int
    BY <2>1, AuthAssumption DEF Typed, Times, Never
  <2> QED BY <2>1, <2>2, AuthAssumption DEF LostBefore, Had, Typed
<1> QED BY <1>1, Invariant, PTL

\* A session ends one refresh token and one access token after its login.
THEOREM SessionsAreBounded == Spec => []SessionBounded
<1>1. IInv => SessionBounded
  <2> SUFFICES ASSUME IInv, NEW c \in Clients, stage[c] = "call"
               PROVE now < loginAt[c] + RefreshLife + AccessLife + 2 * Handling
    BY DEF SessionBounded
  <2>1. /\ Typed /\ now <= since[c] + Handling
        /\ since[c] < loginAt[c] + RefreshLife + AccessLife + Handling
    BY DEF IInv, ClientInv, RequestAge, SessionAge
  <2> QED BY <2>1, AuthAssumption DEF Typed, Times, Never
<1> QED BY <1>1, Invariant, PTL

\* No token, of a login or of a refresh, carries a role that was lost before the
\* request for it came in (the comment at api.py:409).
THEOREM TokensAreFresh == Spec => TokensCarryFreshRoles
<1>1. IInv /\ [Next]_vars => [IssuedFresh]_vars
  <2> SUFFICES ASSUME IInv, Next PROVE IssuedFresh
    BY DEF IssuedFresh, vars, tokens
  <2> SUFFICES ASSUME NEW c \in Clients,
                      accessRole'[c] # accessRole[c] \/ accessExp'[c] # accessExp[c]
               PROVE ~LostBefore(c, accessRole'[c], since[c])
    BY DEF IssuedFresh
  <2>1. (stage[c] \in {"login", "refresh"}) /\ accessRole'[c] = seen[c]
    <3>1. ASSUME NEW d \in Clients, LoginIssue(d) \/ RefreshIssue(d)
          PROVE (stage[c] \in {"login", "refresh"}) /\ accessRole'[c] = seen[c]
      BY <3>1 DEF IInv, Typed, LoginIssue, RefreshIssue, IssueAccess
    <3> QED
      BY <3>1 DEF Next, ClientStep, LoginRead, LoginFailed, RefreshStart, RefreshRead,
                  CallStart, CallEnd, ChangeRole, Crash, Tick, tokens
  <2>2. Had(c, seen[c], since[c]) /\ seen[c] \in Roles /\ Typed
    BY <2>1 DEF IInv, ClientInv, RequestRole
  <2>3. UserOf[c] \in Users /\ lostAt[UserOf[c]][seen[c]] \in Int
    BY <2>2, AuthAssumption DEF Typed, Times, Never
  <2> QED BY <2>1, <2>2, <2>3 DEF Had, LostBefore, Typed
<1> QED BY <1>1, Invariant, PTL DEF Spec, TokensCarryFreshRoles
===============================================================================
