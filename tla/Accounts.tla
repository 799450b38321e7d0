------------------------------- MODULE Accounts -------------------------------
(***************************************************************************)
(* Operator accounts: the users table of database.py, POST /users of       *)
(* backend/api.py, and the sign-in gate and account form of the newest     *)
(* console.  API requests and console sessions create accounts at the same *)
(* time; each creation is a row and, in later calls, the trace that tells  *)
(* who made it: an audit_logs row of the API, a system_logs line of the    *)
(* console.                                                                *)
(*                                                                         *)
(* Nothing in the program renames or removes an account or changes a role; *)
(* the first account comes from a script.  Streamlit stops a script that   *)
(* is overtaken by another click at its next use of st, and an assignment  *)
(* to a session key is one.                                                *)
(***************************************************************************)
EXTENDS Integers, FiniteSets

CONSTANTS Names, Sessions,
          Attempts,   \* the requests to create an account; a retry is another one
          Script,     \* who makes the first account
          Nobody,     \* no one: the maker of a name without a row, the user of a free session
          Faults      \* what may go wrong

ASSUME AccountsAssumption ==
    /\ Script \notin Attempts /\ Nobody \notin Attempts \cup {Script} \cup Names \cup Sessions
    /\ Faults \subseteq {"refused", "lostAck", "crash", "interrupt"}

Roles == {"analyst", "admin"}

VARIABLES tables,     \* does the users table exist
          opened,     \* has the console's process run create_database()
          role,       \* role[n]: the role column of n's row, "none" without a row
          maker,      \* maker[n]: whose INSERT the row is
          at,         \* at[a]: where attempt a stands
          asks,       \* asks[a]: the name and the role it asks for
          told,       \* told[a]: the answer
          shown,      \* shown[a]: the role in the answer
          from,       \* from[a]: the session attempt a is made in; Nobody: the API
          traced,     \* the attempts that left a trace
          untraced,   \* the attempts whose trace the database refused
          authenticated, operator, operRole,   \* the session keys: flag, username, role
          doing,      \* doing[s]: where a sign-in or sign-out stands
          entering,   \* entering[s]: who signs in; Nobody otherwise
          entered,    \* entered[s]: whose password the session has seen
          torn        \* the sessions whose last sign-in or sign-out was overtaken

usersTable == <<role, maker>>
trail == <<traced, untraced>>
gate == <<authenticated, operator, operRole, doing, entering, entered, torn>>
vars == <<tables, opened, usersTable, at, asks, told, shown, from, trail, gate>>

Init == /\ tables \in BOOLEAN /\ opened = FALSE
        /\ role = [n \in Names |-> "none"] /\ maker = [n \in Names |-> Nobody]
        /\ at = [a \in Attempts |-> "new"]
        /\ asks \in [Attempts -> [name : Names, role : Roles]]
        /\ told = [a \in Attempts |-> "nothing"]
        /\ shown = [a \in Attempts |-> "none"]
        /\ from = [a \in Attempts |-> Nobody]
        /\ traced = {} /\ untraced = {}
        /\ authenticated = [s \in Sessions |-> FALSE]
        /\ operator = [s \in Sessions |-> Nobody]
        /\ operRole = [s \in Sessions |-> "none"]
        /\ doing = [s \in Sessions |-> "nothing"]
        /\ entering = [s \in Sessions |-> Nobody]
        /\ entered = [s \in Sessions |-> {}]
        /\ torn = {}

-------------------------------------------------------------------------------
(* database.py *)

\* A call works, is refused and rolled back, or takes effect and is reported as failed.
Outcomes == {"ok"} \cup (Faults \cap {"refused", "lostAck"})
Committed(o) == o # "refused"
Acked(o) == o = "ok"

\* Does create_user() insert the row, and does it answer with an id?  Without the table,
\* and for a name that is taken, it does neither.
Free(n) == tables /\ role[n] = "none"
Inserts(n, o) == Free(n) /\ Committed(o)
Returns(n, o) == Free(n) /\ Acked(o)

\* Mutant: INSERT OR REPLACE.
CreateUser_Replaces(n, r, who, o) ==
    IF tables /\ Committed(o) /\ who # Script
    THEN role' = [role EXCEPT ![n] = r] /\ maker' = [maker EXCEPT ![n] = who]
    ELSE IF Inserts(n, o)
         THEN role' = [role EXCEPT ![n] = r] /\ maker' = [maker EXCEPT ![n] = who]
         ELSE UNCHANGED usersTable

CreateUser(n, r, who, o) ==
    IF Inserts(n, o)
    THEN role' = [role EXCEPT ![n] = r] /\ maker' = [maker EXCEPT ![n] = who]
    ELSE UNCHANGED usersTable

\* get_user(): the role of the row, "none" without one or on an error.
GetUser(n) == {role[n]} \cup (IF "refused" \in Faults THEN {"none"} ELSE {})

\* save_audit_log() and save_log(): their answers are not looked at.
Trace(a, o) == IF Committed(o) THEN traced' = traced \cup {a} /\ UNCHANGED untraced
               ELSE untraced' = untraced \cup {a} /\ UNCHANGED traced

\* create_database(), as far as the users table, which is its first (a log that is
\* missing refuses its rows).  The consoles run it, once in a process, whatever it
\* answers; the API never does.
CreateDatabase == /\ ~opened
                  /\ opened' = TRUE
                  /\ \E o \in Outcomes : tables' = (tables \/ Committed(o))
                  /\ UNCHANGED <<usersTable, at, asks, told, shown, from, trail, gate>>

\* The first account.
RunScript == \E n \in Names :
               /\ \A m \in Names : role[m] = "none"
               /\ CreateUser(n, "admin", Script, "ok")
               /\ UNCHANGED <<tables, opened, at, asks, told, shown, from, trail, gate>>

-------------------------------------------------------------------------------
(* POST /users of an administrator *)

Insert(a) == /\ at[a] = "new"
             /\ \E n \in Names : role[n] = "admin"
             /\ \E o \in Outcomes :
                  /\ CreateUser(asks[a].name, asks[a].role, a, o)
                  /\ IF Returns(asks[a].name, o)
                     THEN /\ at' = [at EXCEPT ![a] = "inserted"]
                          /\ UNCHANGED told
                     ELSE /\ at' = [at EXCEPT ![a] = "over"]
                          /\ told' = [told EXCEPT ![a] = "409"]
             /\ UNCHANGED <<tables, opened, asks, shown, from, trail, gate>>

\* Mutant: the answer is built from what get_user() gave, row or not.
Reread_Unchecked(a) ==
    /\ at[a] = "inserted"
    /\ at' = [at EXCEPT ![a] = "read"]
    /\ \E r \in GetUser(asks[a].name) : shown' = [shown EXCEPT ![a] = r]
    /\ UNCHANGED <<tables, opened, usersTable, asks, told, from, trail, gate>>

\* The row is read back for the answer.
Reread(a) == /\ at[a] = "inserted"
             /\ \E r \in GetUser(asks[a].name) :
                  IF r = "none"
                  THEN /\ at' = [at EXCEPT ![a] = "over"]
                       /\ told' = [told EXCEPT ![a] = "500"]
                       /\ UNCHANGED shown
                  ELSE /\ at' = [at EXCEPT ![a] = "read"]
                       /\ shown' = [shown EXCEPT ![a] = r]
                       /\ UNCHANGED told
             /\ UNCHANGED <<tables, opened, usersTable, asks, from, trail, gate>>

\* Mutant: the request goes on to its answer without the row.
Audit_Skipped(a) == /\ at[a] = "read"
                    /\ UNCHANGED trail
                    /\ at' = [at EXCEPT ![a] = "audited"]
                    /\ UNCHANGED <<tables, opened, usersTable, asks, told, shown, from, gate>>

\* The row is committed before the answer is made.
Audit(a) == /\ at[a] = "read"
            /\ \E o \in Outcomes : Trace(a, o)
            /\ at' = [at EXCEPT ![a] = "audited"]
            /\ UNCHANGED <<tables, opened, usersTable, asks, told, shown, from, gate>>

Answer(a) == /\ at[a] = "audited"
             /\ at' = [at EXCEPT ![a] = "over"]
             /\ told' = [told EXCEPT ![a] = "201"]
             /\ UNCHANGED <<tables, opened, usersTable, asks, shown, from, trail, gate>>

\* The API's process dies: its requests are not answered.
Crash == /\ "crash" \in Faults
         /\ at' = [a \in Attempts |-> IF at[a] \in {"inserted", "read", "audited"} THEN "stopped"
                                      ELSE at[a]]
         /\ UNCHANGED <<tables, opened, usersTable, asks, told, shown, from, trail, gate>>

-------------------------------------------------------------------------------
(* The newest console: sign-in and sign-out *)

\* The login form, with the right password; a wrong one, and an error of the database,
\* change nothing.
SignIn(s, n) == /\ opened /\ doing[s] = "nothing" /\ ~authenticated[s]
                /\ GetUser(n) # {"none"}
                /\ authenticated' = [authenticated EXCEPT ![s] = TRUE]
                /\ entering' = [entering EXCEPT ![s] = n]
                /\ entered' = [entered EXCEPT ![s] = @ \cup {n}]
                /\ doing' = [doing EXCEPT ![s] = "name"]
                /\ UNCHANGED <<tables, opened, usersTable, at, asks, told, shown, from, trail,
                               operator, operRole, torn>>

SetName(s) == /\ doing[s] = "name"
              /\ operator' = [operator EXCEPT ![s] = entering[s]]
              /\ doing' = [doing EXCEPT ![s] = "role"]
              /\ UNCHANGED <<tables, opened, usersTable, at, asks, told, shown, from, trail,
                             authenticated, operRole, entering, entered, torn>>

SetRole(s) == /\ doing[s] = "role"
              /\ operRole' = [operRole EXCEPT ![s] = role[entering[s]]]
              /\ doing' = [doing EXCEPT ![s] = "nothing"]
              /\ entering' = [entering EXCEPT ![s] = Nobody]
              /\ torn' = torn \ {s}
              /\ UNCHANGED <<tables, opened, usersTable, at, asks, told, shown, from, trail,
                             authenticated, operator, entered>>

\* The run of session s stops where it is: at a message, a log line or a session key.
StopRun(s) == at' = [a \in Attempts |-> IF from[a] = s /\ at[a] \in {"announcing", "logging"}
                                        THEN "stopped" ELSE at[a]]

\* Logout: the flag, the name, the role.
SignOut(s) == /\ doing[s] = "nothing" /\ authenticated[s]
              /\ authenticated' = [authenticated EXCEPT ![s] = FALSE]
              /\ doing' = [doing EXCEPT ![s] = "no name"]
              /\ StopRun(s)
              /\ UNCHANGED <<tables, opened, usersTable, asks, told, shown, from, trail,
                             operator, operRole, entering, entered, torn>>

ClearName(s) == /\ doing[s] = "no name"
                /\ operator' = [operator EXCEPT ![s] = Nobody]
                /\ doing' = [doing EXCEPT ![s] = "no role"]
                /\ UNCHANGED <<tables, opened, usersTable, at, asks, told, shown, from, trail,
                               authenticated, operRole, entering, entered, torn>>

\* Mutant: the role is left to the next sign-in.
ClearRole_Kept(s) == /\ doing[s] = "no role"
                     /\ doing' = [doing EXCEPT ![s] = "nothing"]
                     /\ torn' = torn \ {s}
                     /\ UNCHANGED <<tables, opened, usersTable, at, asks, told, shown, from, trail,
                                    authenticated, operator, operRole, entering, entered>>

ClearRole(s) == /\ doing[s] = "no role"
                /\ operRole' = [operRole EXCEPT ![s] = "none"]
                /\ doing' = [doing EXCEPT ![s] = "nothing"]
                /\ torn' = torn \ {s}
                /\ UNCHANGED <<tables, opened, usersTable, at, asks, told, shown, from, trail,
                               authenticated, operator, entering, entered>>

\* The operator clicks again before the run has ended.
Interrupt(s) == /\ "interrupt" \in Faults
                /\ StopRun(s)
                /\ torn' = IF doing[s] = "nothing" THEN torn ELSE torn \cup {s}
                /\ doing' = [doing EXCEPT ![s] = "nothing"]
                /\ entering' = [entering EXCEPT ![s] = Nobody]
                /\ UNCHANGED <<tables, opened, usersTable, asks, told, shown, from, trail,
                               authenticated, operator, operRole, entered>>

-------------------------------------------------------------------------------
(* The newest console: Create Account, for an administrator *)

IsAdmin(s) == operRole[s] = "admin"

FormInsert(s, a) ==
    /\ at[a] = "new" /\ doing[s] = "nothing"
    /\ authenticated[s] /\ IsAdmin(s)
    /\ \A b \in Attempts : ~(from[b] = s /\ at[b] \in {"announcing", "logging"})
    /\ from' = [from EXCEPT ![a] = s]
    /\ \E o \in Outcomes :
         /\ CreateUser(asks[a].name, asks[a].role, a, o)
         /\ IF Returns(asks[a].name, o)
            THEN at' = [at EXCEPT ![a] = "announcing"] /\ UNCHANGED told
            ELSE at' = [at EXCEPT ![a] = "over"] /\ told' = [told EXCEPT ![a] = "error"]
    /\ UNCHANGED <<tables, opened, asks, shown, trail, gate>>

\* "Account created"
FormAnnounce(a) == /\ at[a] = "announcing"
                   /\ at' = [at EXCEPT ![a] = "logging"]
                   /\ told' = [told EXCEPT ![a] = "success"]
                   /\ UNCHANGED <<tables, opened, usersTable, asks, shown, from, trail, gate>>

FormLog(a) == /\ at[a] = "logging"
              /\ \E o \in Outcomes : Trace(a, o)
              /\ at' = [at EXCEPT ![a] = "over"]
              /\ UNCHANGED <<tables, opened, usersTable, asks, told, shown, from, gate>>

\* The console's process restarts: sessions are gone.
Restart == /\ "crash" \in Faults /\ opened
           /\ opened' = FALSE
           /\ at' = [a \in Attempts |-> IF at[a] \in {"announcing", "logging"} THEN "stopped"
                                        ELSE at[a]]
           /\ authenticated' = [s \in Sessions |-> FALSE]
           /\ operator' = [s \in Sessions |-> Nobody]
           /\ operRole' = [s \in Sessions |-> "none"]
           /\ doing' = [s \in Sessions |-> "nothing"]
           /\ entering' = [s \in Sessions |-> Nobody]
           /\ entered' = [s \in Sessions |-> {}]
           /\ torn' = {}
           /\ UNCHANGED <<tables, usersTable, asks, told, shown, from, trail>>

ApiStep(a) == Insert(a) \/ Reread(a) \/ Audit(a) \/ Answer(a)

FormStep(a) == (\E s \in Sessions : FormInsert(s, a)) \/ FormAnnounce(a) \/ FormLog(a)

GateStep(s) == \/ \E n \in Names : SignIn(s, n)
               \/ SetName(s) \/ SetRole(s)
               \/ SignOut(s) \/ ClearName(s) \/ ClearRole(s)
               \/ Interrupt(s)

Next == \/ CreateDatabase \/ RunScript
        \/ \E a \in Attempts : ApiStep(a) \/ FormStep(a)
        \/ \E s \in Sessions : GateStep(s)
        \/ Crash \/ Restart

Spec == Init /\ [][Next]_vars

-------------------------------------------------------------------------------
(* Properties *)

Places == {"new", "inserted", "read", "audited", "announcing", "logging", "over", "stopped"}

\* Types of the table, the attempts and the sessions; _to_public_user() is given a row.
TypeOK == /\ tables \in BOOLEAN /\ opened \in BOOLEAN
          /\ role \in [Names -> Roles \cup {"none"}]
          /\ maker \in [Names -> Attempts \cup {Script, Nobody}]
          /\ at \in [Attempts -> Places]
          /\ asks \in [Attempts -> [name : Names, role : Roles]]
          /\ told \in [Attempts -> {"nothing", "201", "409", "500", "success", "error"}]
          /\ shown \in [Attempts -> Roles \cup {"none"}]
          /\ \A a \in Attempts : at[a] = "read" => shown[a] \in Roles
          /\ from \in [Attempts -> Sessions \cup {Nobody}]
          /\ traced \subseteq Attempts /\ untraced \subseteq Attempts
          /\ authenticated \in [Sessions -> BOOLEAN]
          /\ operator \in [Sessions -> Names \cup {Nobody}]
          /\ operRole \in [Sessions -> Roles \cup {"none"}]
          /\ doing \in [Sessions -> {"nothing", "name", "role", "no name", "no role"}]
          /\ entering \in [Sessions -> Names \cup {Nobody}]
          /\ entered \in [Sessions -> SUBSET Names]
          /\ torn \subseteq Sessions

Won(a) == told[a] \in {"201", "success"}

\* A name has one winner.  Whoever is told that the account was made, of all the requests
\* and forms that ask for the name at once, is the one whose row it is, with the role
\* that was asked for and, from the API, shown (create_user_endpoint, Create Account).
OneWinner ==
    \A a \in Attempts : Won(a) =>
      LET n == asks[a].name
      IN  /\ maker[n] = a /\ role[n] = asks[a].role
          /\ told[a] = "201" => shown[a] = role[n]
          /\ \A b \in Attempts : b # a /\ asks[b].name = n => ~Won(b)

\* The trail and the answers.  An attempt that ran to its end left a trace exactly when
\* its account was announced to it and the database took the trace: an account whose maker
\* was told 409, 500 or an error is in no log.  Elsewhere the trail is ahead of the answer
\* in one place only, between the audit row of the API and its 201, and stays ahead when
\* the process dies there; the console announces first, so a run that is cut short leaves
\* no trace.  Whatever happens, a trace names an account that its attempt did make.
TrailIsExact ==
    \A a \in Attempts :
      /\ at[a] = "over" => (a \in traced <=> Won(a) /\ a \notin untraced)
      /\ a \in traced /\ at[a] # "over" => from[a] = Nobody /\ told[a] = "nothing"
      /\ a \in traced => maker[asks[a].name] = a

\* Whoever is signed in has a row, and the role of it, unless a click overtook the last
\* sign-in or sign-out between two session keys.  Then the keys may be those of two
\* operators, which AdminIsOperator shows, but no others than operators who gave their
\* password in this session: no account made and no name taken meanwhile, no restart,
\* adds a role (the login form, Logout).
OperatorsAreKnown ==
    \A s \in Sessions :
      /\ doing[s] = "nothing" /\ s \notin torn =>
           IF authenticated[s]
           THEN operator[s] # Nobody /\ operRole[s] = role[operator[s]]
           ELSE operator[s] = Nobody /\ operRole[s] = "none"
      /\ authenticated[s] => entered[s] # {}
      /\ operator[s] \in entered[s] \cup {Nobody}
      /\ operRole[s] # "none" => \E n \in entered[s] : operRole[s] = role[n]

\* "Returns True if the currently logged-in operator has the admin role." (is_admin,
\* ai_security_test1_copilot_pro.py:736): of an operator whose name the session shows,
\* while no sign-in or sign-out is under way.
AdminIsOperator ==
    \A s \in Sessions, n \in Names :
        authenticated[s] /\ doing[s] = "nothing" /\ operator[s] = n /\ IsAdmin(s)
          => role[n] = "admin"
===============================================================================
