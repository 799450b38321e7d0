---------------------------- MODULE AccountsProofs ----------------------------
(***************************************************************************)
(* Theorems about Accounts, for any names, attempts, sessions and faults.  *)
(***************************************************************************)
EXTENDS Accounts, TLAPS

USE DEF Places

\* A row has a maker, and an attempt's row is the one it asked for.
RowsHaveMakers ==
    \A n \in Names : /\ role[n] = "none" <=> maker[n] = Nobody
                     /\ maker[n] \in Attempts => /\ asks[maker[n]].name = n
                                                 /\ asks[maker[n]].role = role[n]

\* Where a request or a run that is in work may stand.
InWork == {"inserted", "read", "audited", "announcing", "logging"}

\* Where an attempt stands, what it was told and what it left.
Story(a) ==
    /\ at[a] \in {"new", "inserted", "read", "announcing"}
         => told[a] = "nothing" /\ a \notin traced \cup untraced
    /\ at[a] = "logging" => told[a] = "success" /\ a \notin traced \cup untraced
    /\ at[a] = "audited" => told[a] = "nothing" /\ (a \in traced <=> a \notin untraced)
    /\ at[a] \in {"new", "inserted", "read", "audited"} => from[a] = Nobody
    /\ at[a] \in {"inserted", "read", "audited", "announcing"} \/ Won(a) \/ a \in traced
         => maker[asks[a].name] = a
    /\ at[a] \in {"read", "audited"} \/ told[a] = "201" => shown[a] = role[asks[a].name]
    /\ at[a] = "over" => (a \in traced <=> Won(a) /\ a \notin untraced)
    /\ at[a] = "stopped" /\ a \in traced => told[a] = "nothing" /\ from[a] = Nobody

Stories == \A a \in Attempts : Story(a)

\* Where a sign-in or sign-out stands, and the session keys.
Keys(s) ==
    /\ IF doing[s] \in {"name", "role"} THEN entering[s] \in entered[s] ELSE entering[s] = Nobody
    /\ doing[s] = "name" => authenticated[s]
    /\ doing[s] = "role" => authenticated[s] /\ operator[s] = entering[s]
    /\ doing[s] = "no name" => ~authenticated[s]
    /\ doing[s] = "no role" => ~authenticated[s] /\ operator[s] = Nobody
    /\ doing[s] = "nothing" /\ s \notin torn =>
         IF authenticated[s] THEN operator[s] # Nobody /\ operRole[s] = role[operator[s]]
         ELSE operator[s] = Nobody /\ operRole[s] = "none"
    /\ authenticated[s] => entered[s] # {}
    /\ operator[s] \in entered[s] \cup {Nobody}
    /\ operRole[s] # "none" => \E n \in entered[s] : operRole[s] = role[n]
    /\ \A n \in entered[s] : role[n] # "none"

AllKeys == \A s \in Sessions : Keys(s)

AInv == TypeOK /\ RowsHaveMakers /\ Stories /\ AllKeys

-------------------------------------------------------------------------------
\* create_user() writes only a row nobody had made.
LEMMA CreateKeeps ==
    ASSUME TypeOK, RowsHaveMakers,
           NEW n \in Names, NEW r \in Roles, NEW who \in Attempts \cup {Script},
           NEW o, CreateUser(n, r, who, o),
           who \in Attempts => asks[who] = [name |-> n, role |-> r],
           UNCHANGED asks
    PROVE  /\ role' \in [Names -> Roles \cup {"none"}]
           /\ maker' \in [Names -> Attempts \cup {Script, Nobody}]
           /\ RowsHaveMakers'
           /\ \A m \in Names : role[m] # "none" => role'[m] = role[m] /\ maker'[m] = maker[m]
           /\ Inserts(n, o) => role[n] = "none" /\ maker'[n] = who /\ role'[n] = r
<1>0. role \in [Names -> Roles \cup {"none"}] /\ maker \in [Names -> Attempts \cup {Script, Nobody}]
  BY DEF TypeOK
<1>1. CASE Inserts(n, o)
  <2>1. role[n] = "none"  BY <1>1 DEF Inserts, Free
  <2>2. role' = [role EXCEPT ![n] = r] /\ maker' = [maker EXCEPT ![n] = who]
    BY <1>1 DEF CreateUser
  <2>3. r # "none" /\ who # Nobody  BY AccountsAssumption DEF Roles
  <2>4. RowsHaveMakers'
    <3> SUFFICES ASSUME NEW m \in Names
                 PROVE  /\ role'[m] = "none" <=> maker'[m] = Nobody
                        /\ maker'[m] \in Attempts => /\ asks[maker'[m]].name = m
                                                     /\ asks[maker'[m]].role = role'[m]
      BY DEF RowsHaveMakers
    <3>1. CASE m = n
      <4>1. maker'[m] = who /\ role'[m] = r  BY <3>1, <2>2, <1>0
      <4> QED BY <3>1, <4>1, <2>3
    <3>2. CASE m # n
      <4>1. maker'[m] = maker[m] /\ role'[m] = role[m]  BY <3>2, <2>2, <1>0
      <4> QED BY <4>1 DEF RowsHaveMakers
    <3> QED BY <3>1, <3>2
  <2> QED BY <1>0, <1>1, <2>1, <2>2, <2>4
<1>2. CASE ~Inserts(n, o)
  <2>1. UNCHANGED <<role, maker>>  BY <1>2 DEF CreateUser, usersTable
  <2> QED BY <1>0, <1>2, <2>1 DEF RowsHaveMakers
<1> QED BY <1>1, <1>2

\* A new row is nothing to an attempt that had its row, or has none.
LEMMA StoriesKeep ==
    ASSUME TypeOK, RowsHaveMakers, NEW a \in Attempts, Story(a), AccountsAssumption,
           \A m \in Names : role[m] # "none" => role'[m] = role[m] /\ maker'[m] = maker[m],
           UNCHANGED <<at[a], asks, told[a], shown[a], from[a]>>,
           a \in traced' <=> a \in traced, a \in untraced' <=> a \in untraced
    PROVE  Story(a)'
<1> DEFINE n == asks[a].name
<1>1. n \in Names  BY DEF TypeOK
<1>2. maker[n] = a => role[n] # "none"  BY <1>1, AccountsAssumption DEF RowsHaveMakers
<1>3. maker[n] = a => role'[n] = role[n] /\ maker'[n] = a  BY <1>1, <1>2
<1>4. at[a] \in {"read", "audited"} \/ told[a] = "201" => maker[n] = a  BY DEF Story, Won
<1> QED BY <1>3, <1>4 DEF Story, Won

\* A new row is nothing to a session: roles never change.
LEMMA KeysKeep ==
    ASSUME TypeOK, AllKeys, UNCHANGED gate,
           \A m \in Names : role[m] # "none" => role'[m] = role[m]
    PROVE  AllKeys'
<1> SUFFICES ASSUME NEW s \in Sessions PROVE Keys(s)'  BY DEF AllKeys
<1>1. entered[s] \subseteq Names  BY DEF TypeOK
<1>2. Keys(s)  BY DEF AllKeys
<1>3. \A n \in entered[s] : role[n] # "none" /\ role'[n] = role[n]  BY <1>1, <1>2 DEF Keys
<1>4. UNCHANGED <<authenticated, operator, operRole, doing, entering, entered, torn>>  BY DEF gate
<1>5. operator[s] # Nobody => role'[operator[s]] = role[operator[s]]
  BY <1>2, <1>3 DEF Keys
<1> QED BY <1>2, <1>3, <1>4, <1>5 DEF Keys

-------------------------------------------------------------------------------
LEMMA InvariantInit == Init => AInv
<1> SUFFICES ASSUME Init PROVE AInv  OBVIOUS
<1>1. TypeOK  BY DEF Init, TypeOK, Roles
<1>2. RowsHaveMakers  BY AccountsAssumption DEF Init, RowsHaveMakers
<1>3. Stories  BY DEF Init, Stories, Story, Won
<1>4. AllKeys  BY DEF Init, AllKeys, Keys
<1> QED BY <1>1, <1>2, <1>3, <1>4 DEF AInv

LEMMA CreateDatabaseStep == AInv /\ CreateDatabase => AInv'
<1> SUFFICES ASSUME AInv, CreateDatabase PROVE AInv'  OBVIOUS
<1>1. UNCHANGED <<role, maker, at, asks, told, shown, from, traced, untraced, gate>>
  BY DEF CreateDatabase, usersTable, trail
<1>2. TypeOK'
  <2>1. tables' \in BOOLEAN /\ opened' \in BOOLEAN  BY DEF CreateDatabase, Committed
  <2> QED BY <1>1, <2>1 DEF AInv, TypeOK, gate
<1>3. RowsHaveMakers'  BY <1>1 DEF AInv, RowsHaveMakers
<1>4. Stories'  BY <1>1 DEF AInv, Stories, Story, Won
<1>5. AllKeys'  BY <1>1, KeysKeep DEF AInv
<1> QED BY <1>2, <1>3, <1>4, <1>5 DEF AInv

LEMMA RunScriptStep == AInv /\ RunScript => AInv'
<1> SUFFICES ASSUME AInv, RunScript PROVE AInv'  OBVIOUS
<1>1. UNCHANGED <<tables, opened, at, asks, told, shown, from, traced, untraced, gate>>
  BY DEF RunScript, trail
<1>2. PICK n \in Names : CreateUser(n, "admin", Script, "ok")  BY DEF RunScript
<1>3. /\ role' \in [Names -> Roles \cup {"none"}]
      /\ maker' \in [Names -> Attempts \cup {Script, Nobody}]
      /\ RowsHaveMakers'
      /\ \A m \in Names : role[m] # "none" => role'[m] = role[m] /\ maker'[m] = maker[m]
  <2>1. "admin" \in Roles /\ Script \notin Attempts  BY AccountsAssumption DEF Roles
  <2> QED BY <1>1, <1>2, <2>1, CreateKeeps DEF AInv
<1>4. TypeOK'  BY <1>1, <1>3 DEF AInv, TypeOK, gate
<1>5. Stories'
  <2> SUFFICES ASSUME NEW a \in Attempts PROVE Story(a)'  BY DEF Stories
  <2> QED BY <1>1, <1>3, StoriesKeep, AccountsAssumption DEF AInv, Stories
<1>6. AllKeys'  BY <1>1, <1>3, KeysKeep DEF AInv
<1> QED BY <1>3, <1>4, <1>5, <1>6 DEF AInv

\* The insert of an attempt, of the API or of the form.
LEMMA InsertStory ==
    ASSUME AInv, NEW a \in Attempts, at[a] = "new", NEW o,
           CreateUser(asks[a].name, asks[a].role, a, o), UNCHANGED <<asks, trail>>,
           at' \in [Attempts -> Places],
           \A b \in Attempts \ {a} : UNCHANGED <<at[b], told[b], shown[b], from[b]>>,
           IF Returns(asks[a].name, o)
           THEN /\ at'[a] = "announcing" \/ (at'[a] = "inserted" /\ from'[a] = from[a])
                /\ told'[a] = told[a]
           ELSE at'[a] = "over" /\ told'[a] \in {"409", "error"}
    PROVE  /\ role' \in [Names -> Roles \cup {"none"}]
           /\ maker' \in [Names -> Attempts \cup {Script, Nobody}]
           /\ RowsHaveMakers' /\ Stories'
           /\ \A m \in Names : role[m] # "none" => role'[m] = role[m]
<1> DEFINE n == asks[a].name
<1>1. n \in Names /\ asks[a].role \in Roles /\ asks[a] = [name |-> n, role |-> asks[a].role]
  BY ZenonT(60) DEF AInv, TypeOK
<1>2. /\ role' \in [Names -> Roles \cup {"none"}]
      /\ maker' \in [Names -> Attempts \cup {Script, Nobody}]
      /\ RowsHaveMakers'
      /\ \A m \in Names : role[m] # "none" => role'[m] = role[m] /\ maker'[m] = maker[m]
      /\ Inserts(n, o) => role[n] = "none" /\ maker'[n] = a /\ role'[n] = asks[a].role
  BY <1>1, CreateKeeps DEF AInv
<1>3. Returns(n, o) => Inserts(n, o)  BY DEF Returns, Inserts, Acked, Committed
<1>4. ASSUME NEW b \in Attempts, b # a PROVE Story(b)'
  <2>1. Story(b)  BY DEF AInv, Stories
  <2>2. traced' = traced /\ untraced' = untraced  BY DEF trail
  <2> QED BY <1>2, <1>4, <2>1, <2>2, StoriesKeep, AccountsAssumption DEF AInv
<1>5. Story(a)'
  <2>1. Story(a) /\ told[a] = "nothing" /\ a \notin traced \cup untraced
    BY DEF AInv, Stories, Story
  <2>2. traced' = traced /\ untraced' = untraced /\ asks' = asks  BY DEF trail
  <2>3. CASE Returns(n, o)  BY <1>2, <1>3, <2>1, <2>2, <2>3 DEF Story, Won
  <2>4. CASE ~Returns(n, o)  BY <2>1, <2>2, <2>4 DEF Story, Won
  <2> QED BY <2>3, <2>4
<1>6. Stories'  BY <1>4, <1>5 DEF Stories
<1> QED BY <1>2, <1>6

LEMMA InsertStep == ASSUME AInv, NEW a \in Attempts, Insert(a) PROVE AInv'
<1>1. PICK o \in Outcomes :
        /\ CreateUser(asks[a].name, asks[a].role, a, o)
        /\ IF Returns(asks[a].name, o)
           THEN at' = [at EXCEPT ![a] = "inserted"] /\ UNCHANGED told
           ELSE at' = [at EXCEPT ![a] = "over"] /\ told' = [told EXCEPT ![a] = "409"]
  BY DEF Insert
<1>2. UNCHANGED <<tables, opened, asks, shown, from, traced, untraced, gate>> /\ at[a] = "new"
  BY DEF Insert, trail
<1>3. /\ at' \in [Attempts -> Places]
      /\ told' \in [Attempts -> {"nothing", "201", "409", "500", "success", "error"}]
      /\ \A b \in Attempts \ {a} : UNCHANGED <<at[b], told[b]>>
      /\ IF Returns(asks[a].name, o) THEN at'[a] = "inserted" /\ told'[a] = told[a]
         ELSE at'[a] = "over" /\ told'[a] = "409"
  <2>1. /\ at \in [Attempts -> Places]
        /\ told \in [Attempts -> {"nothing", "201", "409", "500", "success", "error"}]
    BY DEF AInv, TypeOK
  <2>2. CASE Returns(asks[a].name, o)  BY <1>1, <2>1, <2>2
  <2>3. CASE ~Returns(asks[a].name, o)  BY <1>1, <2>1, <2>3
  <2> QED BY <2>2, <2>3
<1>4. /\ role' \in [Names -> Roles \cup {"none"}]
      /\ maker' \in [Names -> Attempts \cup {Script, Nobody}]
      /\ RowsHaveMakers' /\ Stories'
      /\ \A m \in Names : role[m] # "none" => role'[m] = role[m]
  <2>1. UNCHANGED <<asks, trail>> /\ UNCHANGED shown  BY <1>2 DEF trail
  <2>2. \A b \in Attempts \ {a} : UNCHANGED <<at[b], told[b], shown[b], from[b]>>
    BY <1>2, <1>3
  <2>3. /\ CreateUser(asks[a].name, asks[a].role, a, o)
        /\ IF Returns(asks[a].name, o)
           THEN /\ at'[a] = "announcing" \/ (at'[a] = "inserted" /\ from'[a] = from[a])
                /\ told'[a] = told[a]
           ELSE at'[a] = "over" /\ told'[a] \in {"409", "error"}
    BY <1>1, <1>2, <1>3
  <2> QED BY <1>2, <1>3, <2>1, <2>2, <2>3, InsertStory
<1>5. TypeOK'
  <2>1. \A b \in Attempts : at'[b] = "read" => at[b] = "read"  BY <1>3
  <2> QED BY <1>2, <1>3, <1>4, <2>1 DEF AInv, TypeOK, gate
<1>6. AllKeys'  BY <1>2, <1>4, KeysKeep DEF AInv
<1> QED BY <1>4, <1>5, <1>6 DEF AInv

LEMMA FormInsertStep ==
    ASSUME AInv, NEW a \in Attempts, NEW s \in Sessions, FormInsert(s, a) PROVE AInv'
<1>1. PICK o \in Outcomes :
        /\ CreateUser(asks[a].name, asks[a].role, a, o)
        /\ IF Returns(asks[a].name, o)
           THEN at' = [at EXCEPT ![a] = "announcing"] /\ UNCHANGED told
           ELSE at' = [at EXCEPT ![a] = "over"] /\ told' = [told EXCEPT ![a] = "error"]
  BY DEF FormInsert
<1>2. /\ UNCHANGED <<tables, opened, asks, shown, traced, untraced, gate>> /\ at[a] = "new"
      /\ from' = [from EXCEPT ![a] = s]
  BY DEF FormInsert, trail
<1>3. /\ at' \in [Attempts -> Places]
      /\ told' \in [Attempts -> {"nothing", "201", "409", "500", "success", "error"}]
      /\ \A b \in Attempts \ {a} : UNCHANGED <<at[b], told[b]>>
      /\ IF Returns(asks[a].name, o) THEN at'[a] = "announcing" /\ told'[a] = told[a]
         ELSE at'[a] = "over" /\ told'[a] = "error"
  <2>1. /\ at \in [Attempts -> Places]
        /\ told \in [Attempts -> {"nothing", "201", "409", "500", "success", "error"}]
    BY DEF AInv, TypeOK
  <2>2. CASE Returns(asks[a].name, o)  BY <1>1, <2>1, <2>2
  <2>3. CASE ~Returns(asks[a].name, o)  BY <1>1, <2>1, <2>3
  <2> QED BY <2>2, <2>3
<1>4. /\ role' \in [Names -> Roles \cup {"none"}]
      /\ maker' \in [Names -> Attempts \cup {Script, Nobody}]
      /\ RowsHaveMakers' /\ Stories'
      /\ \A m \in Names : role[m] # "none" => role'[m] = role[m]
  <2>1. UNCHANGED <<asks, trail>> /\ UNCHANGED shown  BY <1>2 DEF trail
  <2>2. \A b \in Attempts \ {a} : UNCHANGED <<at[b], told[b], shown[b], from[b]>>
    BY <1>2, <1>3 DEF AInv, TypeOK
  <2>3. /\ CreateUser(asks[a].name, asks[a].role, a, o)
        /\ IF Returns(asks[a].name, o)
           THEN /\ at'[a] = "announcing" \/ (at'[a] = "inserted" /\ from'[a] = from[a])
                /\ told'[a] = told[a]
           ELSE at'[a] = "over" /\ told'[a] \in {"409", "error"}
    BY <1>1, <1>3
  <2> QED BY <1>2, <1>3, <2>1, <2>2, <2>3, InsertStory
<1>5. TypeOK'
  <2>1. \A b \in Attempts : at'[b] = "read" => at[b] = "read"  BY <1>3
  <2>2. from' \in [Attempts -> Sessions \cup {Nobody}]  BY <1>2 DEF AInv, TypeOK
  <2> QED BY <1>2, <1>3, <1>4, <2>1, <2>2 DEF AInv, TypeOK, gate
<1>6. AllKeys'  BY <1>2, <1>4, KeysKeep DEF AInv
<1> QED BY <1>4, <1>5, <1>6 DEF AInv

-------------------------------------------------------------------------------
\* The calls of an attempt after its insert touch neither rows nor sessions.
LEMMA CallFrame ==
    ASSUME AInv, UNCHANGED <<usersTable, asks, gate>>
    PROVE  RowsHaveMakers' /\ AllKeys'
<1>1. role' = role /\ maker' = maker /\ asks' = asks  BY DEF usersTable
<1>2. RowsHaveMakers'  BY <1>1 DEF AInv, RowsHaveMakers
<1>3. AllKeys'  BY <1>1, KeysKeep DEF AInv
<1> QED BY <1>2, <1>3

\* The attempts a call is not about.
LEMMA CallStories ==
    ASSUME AInv, NEW a \in Attempts, UNCHANGED <<usersTable, asks>>, Story(a)',
           \A b \in Attempts \ {a} :
             /\ UNCHANGED <<at[b], told[b], shown[b], from[b]>>
             /\ b \in traced' <=> b \in traced
             /\ b \in untraced' <=> b \in untraced
    PROVE  Stories'
<1> SUFFICES ASSUME NEW b \in Attempts, b # a PROVE Story(b)'  BY DEF Stories
<1>1. Story(b)  BY DEF AInv, Stories
<1>2. role' = role /\ maker' = maker  BY DEF usersTable
<1> QED BY <1>1, <1>2, StoriesKeep, AccountsAssumption DEF AInv

\* A run or a process that stops leaves its attempts where they are.
LEMMA StoppedStories ==
    ASSUME AInv, UNCHANGED <<usersTable, asks, told, shown, from, trail>>,
           \A a \in Attempts : \/ at'[a] = at[a]
                               \/ /\ at[a] \in InWork
                                  /\ at'[a] = "stopped"
    PROVE  Stories'
<1> SUFFICES ASSUME NEW a \in Attempts PROVE Story(a)'  BY DEF Stories
<1>1. Story(a)  BY DEF AInv, Stories
<1>2. role' = role /\ maker' = maker /\ traced' = traced /\ untraced' = untraced
  BY DEF usersTable, trail
<1>3. CASE at'[a] = at[a]  BY <1>1, <1>2, <1>3 DEF Story, Won
<1>4. CASE /\ at[a] \in InWork
           /\ at'[a] = "stopped"
  BY <1>1, <1>2, <1>4 DEF Story, Won, InWork
<1> QED BY <1>3, <1>4

LEMMA RereadStep == ASSUME AInv, NEW a \in Attempts, Reread(a) PROVE AInv'
<1>1. PICK r \in GetUser(asks[a].name) :
        IF r = "none"
        THEN /\ at' = [at EXCEPT ![a] = "over"]
             /\ told' = [told EXCEPT ![a] = "500"]
             /\ UNCHANGED shown
        ELSE /\ at' = [at EXCEPT ![a] = "read"]
             /\ shown' = [shown EXCEPT ![a] = r]
             /\ UNCHANGED told
  BY DEF Reread
<1>2. /\ UNCHANGED <<tables, opened, usersTable, asks, from, traced, untraced, gate>>
      /\ at[a] = "inserted" /\ role' = role /\ maker' = maker
  BY DEF Reread, trail, usersTable
<1>3. asks[a].name \in Names /\ Story(a)  BY DEF AInv, TypeOK, Stories
<1>4. r # "none" => r = role[asks[a].name] /\ r \in Roles
  <2>1. role[asks[a].name] \in Roles \cup {"none"}  BY <1>3 DEF AInv, TypeOK
  <2>2. r \in {role[asks[a].name], "none"}  BY DEF GetUser
  <2> QED BY <2>1, <2>2
<1>5. /\ at \in [Attempts -> Places]
      /\ told \in [Attempts -> {"nothing", "201", "409", "500", "success", "error"}]
      /\ shown \in [Attempts -> Roles \cup {"none"}]
      /\ \A b \in Attempts : at[b] = "read" => shown[b] \in Roles
  BY DEF AInv, TypeOK
<1>6. CASE r = "none"
  <2>1. at'[a] = "over" /\ told'[a] = "500" /\ shown' = shown  BY <1>1, <1>5, <1>6
  <2>2. \A b \in Attempts \ {a} : UNCHANGED <<at[b], told[b], shown[b], from[b]>>
    BY <1>1, <1>2, <1>5, <1>6
  <2>3. /\ at' \in [Attempts -> Places]
        /\ told' \in [Attempts -> {"nothing", "201", "409", "500", "success", "error"}]
    BY <1>1, <1>5, <1>6
  <2>4. TypeOK'
    <3>1. \A b \in Attempts : at'[b] = "read" => shown'[b] \in Roles  BY <1>5, <2>1, <2>2
    <3> QED BY <1>2, <2>1, <2>3, <3>1 DEF AInv, TypeOK, gate
  <2>5. Story(a)'  BY <1>2, <1>3, <2>1 DEF Story, Won
  <2>6. Stories'  BY <1>2, <2>2, <2>5, CallStories
  <2> QED BY <1>2, <2>4, <2>6, CallFrame DEF AInv
<1>7. CASE r # "none"
  <2>1. at'[a] = "read" /\ told' = told /\ shown'[a] = role[asks[a].name]
    BY <1>1, <1>4, <1>5, <1>7
  <2>2. \A b \in Attempts \ {a} : UNCHANGED <<at[b], told[b], shown[b], from[b]>>
    BY <1>1, <1>2, <1>5, <1>7
  <2>3. /\ at' \in [Attempts -> Places]
        /\ shown' \in [Attempts -> Roles \cup {"none"}] /\ shown'[a] \in Roles
    BY <1>1, <1>4, <1>5, <1>7
  <2>4. TypeOK'
    <3>1. \A b \in Attempts : at'[b] = "read" => shown'[b] \in Roles  BY <1>5, <2>2, <2>3
    <3> QED BY <1>2, <2>1, <2>3, <3>1 DEF AInv, TypeOK, gate
  <2>5. Story(a)'  BY <1>2, <1>3, <2>1 DEF Story, Won
  <2>6. Stories'  BY <1>2, <2>2, <2>5, CallStories
  <2> QED BY <1>2, <2>4, <2>6, CallFrame DEF AInv
<1> QED BY <1>6, <1>7

\* save_audit_log() of the API and save_log() of the form.
LEMMA TraceStory ==
    ASSUME AInv, NEW a \in Attempts, NEW o, Trace(a, o), at[a] \in {"read", "logging"},
           at' = [at EXCEPT ![a] = IF at[a] = "read" THEN "audited" ELSE "over"],
           UNCHANGED <<tables, opened, usersTable, asks, told, shown, from, gate>>
    PROVE  AInv'
<1>1. /\ at \in [Attempts -> Places]
      /\ traced \subseteq Attempts /\ untraced \subseteq Attempts
      /\ \A b \in Attempts : at[b] = "read" => shown[b] \in Roles
  BY DEF AInv, TypeOK
<1>2. /\ at' \in [Attempts -> Places]
      /\ at'[a] = IF at[a] = "read" THEN "audited" ELSE "over"
      /\ \A b \in Attempts \ {a} : UNCHANGED <<at[b], told[b], shown[b], from[b]>>
  <2>1. CASE at[a] = "read"  BY <1>1, <2>1
  <2>2. CASE at[a] # "read"  BY <1>1, <2>2
  <2> QED BY <2>1, <2>2
<1>3. /\ traced' \subseteq Attempts /\ untraced' \subseteq Attempts
      /\ \A b \in Attempts \ {a} : /\ b \in traced' <=> b \in traced
                                   /\ b \in untraced' <=> b \in untraced
  BY <1>1 DEF Trace
<1>4. TypeOK'
  <2>1. \A b \in Attempts : at'[b] = "read" => shown'[b] \in Roles  BY <1>1, <1>2
  <2> QED BY <1>2, <1>3, <2>1 DEF AInv, TypeOK, gate, usersTable
<1>5. Story(a)'
  <2>1. Story(a) /\ a \notin traced \cup untraced  BY DEF AInv, Stories, Story
  <2>2. a \in traced' <=> a \notin untraced'  BY <2>1 DEF Trace
  <2>3. maker'[asks'[a].name] = a /\ role' = role  BY <2>1 DEF Story, Won, usersTable
  <2>4. CASE at[a] = "read"  BY <1>2, <2>1, <2>2, <2>3, <2>4 DEF Story, Won
  <2>5. CASE at[a] = "logging"  BY <1>2, <2>1, <2>2, <2>3, <2>5 DEF Story, Won
  <2> QED BY <2>4, <2>5
<1>6. Stories'  BY <1>2, <1>3, <1>5, CallStories
<1> QED BY <1>4, <1>6, CallFrame DEF AInv

LEMMA AuditStep == ASSUME AInv, NEW a \in Attempts, Audit(a) PROVE AInv'
<1>1. PICK o \in Outcomes : Trace(a, o)  BY DEF Audit
<1>2. /\ at[a] = "read"
      /\ at' = [at EXCEPT ![a] = IF at[a] = "read" THEN "audited" ELSE "over"]
      /\ UNCHANGED <<tables, opened, usersTable, asks, told, shown, from, gate>>
  BY DEF Audit
<1> QED BY <1>1, <1>2, TraceStory

LEMMA FormLogStep == ASSUME AInv, NEW a \in Attempts, FormLog(a) PROVE AInv'
<1>1. PICK o \in Outcomes : Trace(a, o)  BY DEF FormLog
<1>2. /\ at[a] = "logging"
      /\ at' = [at EXCEPT ![a] = IF at[a] = "read" THEN "audited" ELSE "over"]
      /\ UNCHANGED <<tables, opened, usersTable, asks, told, shown, from, gate>>
  BY DEF FormLog
<1> QED BY <1>1, <1>2, TraceStory

\* The 201, after the row.
LEMMA AnswerStep == ASSUME AInv, NEW a \in Attempts, Answer(a) PROVE AInv'
<1>1. /\ at[a] = "audited" /\ at' = [at EXCEPT ![a] = "over"]
      /\ told' = [told EXCEPT ![a] = "201"]
      /\ UNCHANGED <<tables, opened, usersTable, asks, shown, from, traced, untraced, gate>>
  BY DEF Answer, trail
<1>2. /\ at \in [Attempts -> Places]
      /\ told \in [Attempts -> {"nothing", "201", "409", "500", "success", "error"}]
      /\ \A b \in Attempts : at[b] = "read" => shown[b] \in Roles
  BY DEF AInv, TypeOK
<1>3. /\ at' \in [Attempts -> Places]
      /\ told' \in [Attempts -> {"nothing", "201", "409", "500", "success", "error"}]
      /\ at'[a] = "over" /\ told'[a] = "201"
      /\ \A b \in Attempts \ {a} : UNCHANGED <<at[b], told[b], shown[b], from[b]>>
  BY <1>1, <1>2
<1>4. TypeOK'
  <2>1. \A b \in Attempts : at'[b] = "read" => shown'[b] \in Roles  BY <1>1, <1>2, <1>3
  <2> QED BY <1>1, <1>3, <2>1 DEF AInv, TypeOK, gate, usersTable
<1>5. Story(a)'
  <2>1. Story(a)  BY DEF AInv, Stories
  <2> QED BY <1>1, <1>3, <2>1 DEF Story, Won, usersTable
<1>6. Stories'  BY <1>1, <1>3, <1>5, CallStories
<1> QED BY <1>1, <1>4, <1>6, CallFrame DEF AInv

LEMMA FormAnnounceStep == ASSUME AInv, NEW a \in Attempts, FormAnnounce(a) PROVE AInv'
<1>1. /\ at[a] = "announcing" /\ at' = [at EXCEPT ![a] = "logging"]
      /\ told' = [told EXCEPT ![a] = "success"]
      /\ UNCHANGED <<tables, opened, usersTable, asks, shown, from, traced, untraced, gate>>
  BY DEF FormAnnounce, trail
<1>2. /\ at \in [Attempts -> Places]
      /\ told \in [Attempts -> {"nothing", "201", "409", "500", "success", "error"}]
      /\ \A b \in Attempts : at[b] = "read" => shown[b] \in Roles
  BY DEF AInv, TypeOK
<1>3. /\ at' \in [Attempts -> Places]
      /\ told' \in [Attempts -> {"nothing", "201", "409", "500", "success", "error"}]
      /\ at'[a] = "logging" /\ told'[a] = "success"
      /\ \A b \in Attempts \ {a} : UNCHANGED <<at[b], told[b], shown[b], from[b]>>
  BY <1>1, <1>2
<1>4. TypeOK'
  <2>1. \A b \in Attempts : at'[b] = "read" => shown'[b] \in Roles  BY <1>1, <1>2, <1>3
  <2> QED BY <1>1, <1>3, <2>1 DEF AInv, TypeOK, gate, usersTable
<1>5. Story(a)'
  <2>1. Story(a)  BY DEF AInv, Stories
  <2> QED BY <1>1, <1>3, <2>1 DEF Story, Won, usersTable
<1>6. Stories'  BY <1>1, <1>3, <1>5, CallStories
<1> QED BY <1>1, <1>4, <1>6, CallFrame DEF AInv

LEMMA CrashStep == AInv /\ Crash => AInv'
<1> SUFFICES ASSUME AInv, Crash PROVE AInv'  OBVIOUS
<1>1. /\ at' = [a \in Attempts |-> IF at[a] \in {"inserted", "read", "audited"} THEN "stopped"
                               ELSE at[a]]
      /\ UNCHANGED <<tables, opened, usersTable, asks, told, shown, from, trail, gate>>
  BY DEF Crash
<1>2. TypeOK'  BY <1>1 DEF AInv, TypeOK, usersTable, trail, gate
<1>3. Stories'  BY <1>1, StoppedStories DEF InWork
<1> QED BY <1>1, <1>2, <1>3, CallFrame DEF AInv

-------------------------------------------------------------------------------
\* Steps of a session, one session at a time.
LEMMA KeysOfOne ==
    ASSUME AInv, NEW s \in Sessions, UNCHANGED usersTable, Keys(s)',
           \A z \in Sessions \ {s} :
             /\ UNCHANGED <<authenticated[z], operator[z], operRole[z], doing[z], entering[z],
                            entered[z]>>
             /\ z \in torn' <=> z \in torn
    PROVE  AllKeys'
<1> SUFFICES ASSUME NEW z \in Sessions, z # s PROVE Keys(z)'  BY DEF AllKeys
<1>1. Keys(z)  BY DEF AInv, AllKeys
<1>2. role' = role  BY DEF usersTable
<1>3. /\ authenticated[z]' = authenticated[z] /\ operator[z]' = operator[z]
      /\ operRole[z]' = operRole[z] /\ doing[z]' = doing[z]
      /\ entering[z]' = entering[z] /\ entered[z]' = entered[z]
      /\ z \in torn' <=> z \in torn
  OBVIOUS
<1> QED BY ONLY <1>1, <1>2, <1>3 DEF Keys

\* Steps of the gate that stop no run leave rows and attempts alone.
LEMMA GateFrame ==
    ASSUME AInv, UNCHANGED <<usersTable, at, asks, told, shown, from, trail>>
    PROVE  RowsHaveMakers' /\ Stories'
<1>1. role' = role /\ maker' = maker /\ asks' = asks  BY DEF usersTable
<1>2. RowsHaveMakers'  BY <1>1 DEF AInv, RowsHaveMakers
<1>3. Stories'  BY StoppedStories
<1> QED BY <1>2, <1>3

LEMMA GateTypes ==
    AInv => /\ authenticated \in [Sessions -> BOOLEAN]
            /\ operator \in [Sessions -> Names \cup {Nobody}]
            /\ operRole \in [Sessions -> Roles \cup {"none"}]
            /\ doing \in [Sessions -> {"nothing", "name", "role", "no name", "no role"}]
            /\ entering \in [Sessions -> Names \cup {Nobody}]
            /\ entered \in [Sessions -> SUBSET Names]
            /\ torn \subseteq Sessions
BY DEF AInv, TypeOK

LEMMA SignInStep == ASSUME AInv, NEW s \in Sessions, NEW n \in Names, SignIn(s, n) PROVE AInv'
<1>1. /\ doing[s] = "nothing" /\ ~authenticated[s] /\ GetUser(n) # {"none"}
      /\ authenticated' = [authenticated EXCEPT ![s] = TRUE]
      /\ entering' = [entering EXCEPT ![s] = n]
      /\ entered' = [entered EXCEPT ![s] = @ \cup {n}]
      /\ doing' = [doing EXCEPT ![s] = "name"]
      /\ UNCHANGED <<tables, opened, usersTable, at, asks, told, shown, from, trail,
                     operator, operRole, torn>>
  BY DEF SignIn
<1>2. role[n] # "none"  BY <1>1 DEF GetUser
<1>3. TypeOK'
  <2>1. /\ authenticated' \in [Sessions -> BOOLEAN] /\ entering' \in [Sessions -> Names \cup {Nobody}]
        /\ entered' \in [Sessions -> SUBSET Names]
        /\ doing' \in [Sessions -> {"nothing", "name", "role", "no name", "no role"}]
    BY <1>1, GateTypes
  <2> QED BY <1>1, <2>1 DEF AInv, TypeOK, usersTable, trail
<1>4. Keys(s)'
  <2>1. Keys(s)  BY DEF AInv, AllKeys
  <2>2. /\ authenticated'[s] = TRUE /\ entering'[s] = n /\ doing'[s] = "name"
        /\ entered'[s] = entered[s] \cup {n}
    BY <1>1, GateTypes
  <2> QED BY <1>1, <1>2, <2>1, <2>2 DEF Keys, usersTable
<1>5. AllKeys'  BY <1>1, <1>4, KeysOfOne, GateTypes
<1> QED BY <1>1, <1>3, <1>5, GateFrame DEF AInv

LEMMA SetNameStep == ASSUME AInv, NEW s \in Sessions, SetName(s) PROVE AInv'
<1>1. /\ doing[s] = "name"
      /\ operator' = [operator EXCEPT ![s] = entering[s]]
      /\ doing' = [doing EXCEPT ![s] = "role"]
      /\ UNCHANGED <<tables, opened, usersTable, at, asks, told, shown, from, trail,
                     authenticated, operRole, entering, entered, torn>>
  BY DEF SetName
<1>2. Keys(s)  BY DEF AInv, AllKeys
<1>3. operator'[s] = entering[s] /\ doing'[s] = "role"  BY <1>1, GateTypes
<1>4. TypeOK'
  <2>1. /\ operator' \in [Sessions -> Names \cup {Nobody}]
        /\ doing' \in [Sessions -> {"nothing", "name", "role", "no name", "no role"}]
    BY <1>1, GateTypes
  <2> QED BY <1>1, <2>1 DEF AInv, TypeOK, usersTable, trail
<1>5. Keys(s)'  BY <1>1, <1>2, <1>3 DEF Keys, usersTable
<1>6. AllKeys'  BY <1>1, <1>5, KeysOfOne, GateTypes
<1> QED BY <1>1, <1>4, <1>6, GateFrame DEF AInv

LEMMA SetRoleStep == ASSUME AInv, NEW s \in Sessions, SetRole(s) PROVE AInv'
<1>1. /\ doing[s] = "role"
      /\ operRole' = [operRole EXCEPT ![s] = role[entering[s]]]
      /\ doing' = [doing EXCEPT ![s] = "nothing"]
      /\ entering' = [entering EXCEPT ![s] = Nobody]
      /\ torn' = torn \ {s}
      /\ UNCHANGED <<tables, opened, usersTable, at, asks, told, shown, from, trail,
                     authenticated, operator, entered>>
  BY DEF SetRole
<1>2. Keys(s) /\ entering[s] \in entered[s] /\ entering[s] \in Names
  BY <1>1, GateTypes DEF AInv, AllKeys, Keys
<1>3. /\ operRole'[s] = role[entering[s]] /\ doing'[s] = "nothing"
      /\ entering'[s] = Nobody /\ s \notin torn'
  BY <1>1, GateTypes
<1>4. TypeOK'
  <2>1. role[entering[s]] \in Roles \cup {"none"}  BY <1>2 DEF AInv, TypeOK
  <2>2. /\ operRole' \in [Sessions -> Roles \cup {"none"}]
        /\ entering' \in [Sessions -> Names \cup {Nobody}] /\ torn' \subseteq Sessions
        /\ doing' \in [Sessions -> {"nothing", "name", "role", "no name", "no role"}]
    BY <1>1, <2>1, GateTypes
  <2> QED BY <1>1, <2>2 DEF AInv, TypeOK, usersTable, trail
<1>5. Keys(s)'
  <2>1. entering[s] # Nobody  BY <1>2, AccountsAssumption
  <2>2. UNCHANGED <<role, authenticated[s], operator[s], entered[s]>>  BY <1>1 DEF usersTable
  <2> QED BY <1>1, <1>2, <1>3, <2>1, <2>2 DEF Keys
<1>6. AllKeys'  BY <1>1, <1>5, KeysOfOne, GateTypes
<1> QED BY <1>1, <1>4, <1>6, GateFrame DEF AInv

LEMMA ClearNameStep == ASSUME AInv, NEW s \in Sessions, ClearName(s) PROVE AInv'
<1>1. /\ doing[s] = "no name"
      /\ operator' = [operator EXCEPT ![s] = Nobody]
      /\ doing' = [doing EXCEPT ![s] = "no role"]
      /\ UNCHANGED <<tables, opened, usersTable, at, asks, told, shown, from, trail,
                     authenticated, operRole, entering, entered, torn>>
  BY DEF ClearName
<1>2. Keys(s)  BY DEF AInv, AllKeys
<1>3. operator'[s] = Nobody /\ doing'[s] = "no role"  BY <1>1, GateTypes
<1>4. TypeOK'
  <2>1. /\ operator' \in [Sessions -> Names \cup {Nobody}]
        /\ doing' \in [Sessions -> {"nothing", "name", "role", "no name", "no role"}]
    BY <1>1, GateTypes
  <2> QED BY <1>1, <2>1 DEF AInv, TypeOK, usersTable, trail
<1>5. Keys(s)'  BY <1>1, <1>2, <1>3 DEF Keys, usersTable
<1>6. AllKeys'  BY <1>1, <1>5, KeysOfOne, GateTypes
<1> QED BY <1>1, <1>4, <1>6, GateFrame DEF AInv

LEMMA ClearRoleStep == ASSUME AInv, NEW s \in Sessions, ClearRole(s) PROVE AInv'
<1>1. /\ doing[s] = "no role"
      /\ operRole' = [operRole EXCEPT ![s] = "none"]
      /\ doing' = [doing EXCEPT ![s] = "nothing"]
      /\ torn' = torn \ {s}
      /\ UNCHANGED <<tables, opened, usersTable, at, asks, told, shown, from, trail,
                     authenticated, operator, entering, entered>>
  BY DEF ClearRole
<1>2. Keys(s)  BY DEF AInv, AllKeys
<1>3. operRole'[s] = "none" /\ doing'[s] = "nothing"  BY <1>1, GateTypes
<1>4. TypeOK'
  <2>1. /\ operRole' \in [Sessions -> Roles \cup {"none"}] /\ torn' \subseteq Sessions
        /\ doing' \in [Sessions -> {"nothing", "name", "role", "no name", "no role"}]
    BY <1>1, GateTypes
  <2> QED BY <1>1, <2>1 DEF AInv, TypeOK, usersTable, trail
<1>5. Keys(s)'  BY <1>1, <1>2, <1>3 DEF Keys, usersTable
<1>6. AllKeys'  BY <1>1, <1>5, KeysOfOne, GateTypes
<1> QED BY <1>1, <1>4, <1>6, GateFrame DEF AInv

-------------------------------------------------------------------------------
\* A run that is stopped, by a sign-out, a click or a restart.
LEMMA StopTypes ==
    ASSUME AInv, UNCHANGED shown,
           \A a \in Attempts : at'[a] = at[a] \/ at'[a] = "stopped"
    PROVE  \A a \in Attempts : at'[a] = "read" => shown'[a] \in Roles
BY DEF AInv, TypeOK

LEMMA StopRunStops ==
    ASSUME AInv, NEW s, StopRun(s)
    PROVE  /\ at' \in [Attempts -> Places]
           /\ \A a \in Attempts : \/ at'[a] = at[a]
                                  \/ /\ at[a] \in InWork
                                     /\ at'[a] = "stopped"
BY DEF AInv, TypeOK, StopRun, InWork

LEMMA SignOutStep == ASSUME AInv, NEW s \in Sessions, SignOut(s) PROVE AInv'
<1>1. /\ doing[s] = "nothing" /\ authenticated[s] /\ StopRun(s)
      /\ authenticated' = [authenticated EXCEPT ![s] = FALSE]
      /\ doing' = [doing EXCEPT ![s] = "no name"]
      /\ UNCHANGED <<tables, opened, usersTable, asks, told, shown, from, trail,
                     operator, operRole, entering, entered, torn>>
  BY DEF SignOut
<1>2. /\ at' \in [Attempts -> Places]
      /\ \A a \in Attempts : \/ at'[a] = at[a]
                             \/ /\ at[a] \in InWork
                                /\ at'[a] = "stopped"
  BY <1>1, StopRunStops
<1>3. TypeOK'
  <2>1. /\ authenticated' \in [Sessions -> BOOLEAN]
        /\ doing' \in [Sessions -> {"nothing", "name", "role", "no name", "no role"}]
    BY <1>1, GateTypes
  <2>2. \A a \in Attempts : at'[a] = "read" => shown'[a] \in Roles  BY <1>1, <1>2, StopTypes
  <2> QED BY <1>1, <1>2, <2>1, <2>2 DEF AInv, TypeOK, usersTable, trail
<1>4. Keys(s)'
  <2>1. Keys(s)  BY DEF AInv, AllKeys
  <2>2. authenticated'[s] = FALSE /\ doing'[s] = "no name"  BY <1>1, GateTypes
  <2> QED BY <1>1, <2>1, <2>2 DEF Keys, usersTable
<1>5. AllKeys'  BY <1>1, <1>4, KeysOfOne, GateTypes
<1>6. RowsHaveMakers'  BY <1>1 DEF AInv, RowsHaveMakers, usersTable
<1>7. Stories'  BY <1>1, <1>2, StoppedStories
<1> QED BY <1>3, <1>5, <1>6, <1>7 DEF AInv

LEMMA InterruptStep == ASSUME AInv, NEW s \in Sessions, Interrupt(s) PROVE AInv'
<1>1. /\ StopRun(s)
      /\ torn' = IF doing[s] = "nothing" THEN torn ELSE torn \cup {s}
      /\ doing' = [doing EXCEPT ![s] = "nothing"]
      /\ entering' = [entering EXCEPT ![s] = Nobody]
      /\ UNCHANGED <<tables, opened, usersTable, asks, told, shown, from, trail,
                     authenticated, operator, operRole, entered>>
  BY DEF Interrupt
<1>2. /\ at' \in [Attempts -> Places]
      /\ \A a \in Attempts : \/ at'[a] = at[a]
                             \/ /\ at[a] \in InWork
                                /\ at'[a] = "stopped"
  BY <1>1, StopRunStops
<1>3. TypeOK'
  <2>1. /\ entering' \in [Sessions -> Names \cup {Nobody}] /\ torn' \subseteq Sessions
        /\ doing' \in [Sessions -> {"nothing", "name", "role", "no name", "no role"}]
    BY <1>1, GateTypes
  <2>2. \A a \in Attempts : at'[a] = "read" => shown'[a] \in Roles  BY <1>1, <1>2, StopTypes
  <2> QED BY <1>1, <1>2, <2>1, <2>2 DEF AInv, TypeOK, usersTable, trail
<1>4. Keys(s)'
  <2>1. Keys(s)  BY DEF AInv, AllKeys
  <2>2. entering'[s] = Nobody /\ doing'[s] = "nothing"  BY <1>1, GateTypes
  <2>3. s \notin torn' => doing[s] = "nothing" /\ s \notin torn  BY <1>1
  <2>4. UNCHANGED <<role, authenticated[s], operator[s], operRole[s], entered[s]>>
    BY <1>1 DEF usersTable
  <2> QED BY <2>1, <2>2, <2>3, <2>4 DEF Keys
<1>5. AllKeys'  BY <1>1, <1>4, KeysOfOne, GateTypes
<1>6. RowsHaveMakers'  BY <1>1 DEF AInv, RowsHaveMakers, usersTable
<1>7. Stories'  BY <1>1, <1>2, StoppedStories
<1> QED BY <1>3, <1>5, <1>6, <1>7 DEF AInv

LEMMA RestartStep == AInv /\ Restart => AInv'
<1> SUFFICES ASSUME AInv, Restart PROVE AInv'  OBVIOUS
<1>1. /\ opened' = FALSE
      /\ at' = [a \in Attempts |-> IF at[a] \in {"announcing", "logging"} THEN "stopped" ELSE at[a]]
      /\ authenticated' = [s \in Sessions |-> FALSE]
      /\ operator' = [s \in Sessions |-> Nobody]
      /\ operRole' = [s \in Sessions |-> "none"]
      /\ doing' = [s \in Sessions |-> "nothing"]
      /\ entering' = [s \in Sessions |-> Nobody]
      /\ entered' = [s \in Sessions |-> {}]
      /\ torn' = {}
      /\ UNCHANGED <<tables, usersTable, asks, told, shown, from, trail>>
  BY DEF Restart
<1>2. /\ at' \in [Attempts -> Places]
      /\ \A a \in Attempts : \/ at'[a] = at[a]
                             \/ /\ at[a] \in InWork
                                /\ at'[a] = "stopped"
  BY <1>1 DEF AInv, TypeOK, InWork
<1>3. TypeOK'
  <2>1. \A a \in Attempts : at'[a] = "read" => shown'[a] \in Roles  BY <1>1, <1>2, StopTypes
  <2>2. /\ authenticated' \in [Sessions -> BOOLEAN] /\ operator' \in [Sessions -> Names \cup {Nobody}]
        /\ operRole' \in [Sessions -> Roles \cup {"none"}]
        /\ doing' \in [Sessions -> {"nothing", "name", "role", "no name", "no role"}]
        /\ entering' \in [Sessions -> Names \cup {Nobody}]
        /\ entered' \in [Sessions -> SUBSET Names] /\ torn' \subseteq Sessions
    BY <1>1
  <2> QED BY <1>1, <1>2, <2>1, <2>2 DEF AInv, TypeOK, usersTable, trail
<1>4. AllKeys'  BY <1>1 DEF AllKeys, Keys
<1>5. RowsHaveMakers'  BY <1>1 DEF AInv, RowsHaveMakers, usersTable
<1>6. Stories'  BY <1>1, <1>2, StoppedStories
<1> QED BY <1>3, <1>4, <1>5, <1>6 DEF AInv

-------------------------------------------------------------------------------
LEMMA InvariantNext == AInv /\ [Next]_vars => AInv'
<1> SUFFICES ASSUME AInv, [Next]_vars PROVE AInv'  OBVIOUS
<1>1. CASE CreateDatabase  BY <1>1, CreateDatabaseStep
<1>2. CASE RunScript  BY <1>2, RunScriptStep
<1>3. CASE \E a \in Attempts : ApiStep(a) \/ FormStep(a)
  <2>1. PICK a \in Attempts : ApiStep(a) \/ FormStep(a)  BY <1>3
  <2>2. CASE Insert(a)  BY <2>2, InsertStep
  <2>3. CASE Reread(a)  BY <2>3, RereadStep
  <2>4. CASE Audit(a)  BY <2>4, AuditStep
  <2>8. CASE Answer(a)  BY <2>8, AnswerStep
  <2>5. CASE \E s \in Sessions : FormInsert(s, a)  BY <2>5, FormInsertStep
  <2>6. CASE FormAnnounce(a)  BY <2>6, FormAnnounceStep
  <2>7. CASE FormLog(a)  BY <2>7, FormLogStep
  <2> QED BY <2>1, <2>2, <2>3, <2>4, <2>5, <2>6, <2>7, <2>8 DEF ApiStep, FormStep
<1>4. CASE \E s \in Sessions : GateStep(s)
  <2>1. PICK s \in Sessions : GateStep(s)  BY <1>4
  <2>2. CASE \E n \in Names : SignIn(s, n)  BY <2>2, SignInStep
  <2>3. CASE SetName(s)  BY <2>3, SetNameStep
  <2>4. CASE SetRole(s)  BY <2>4, SetRoleStep
  <2>5. CASE SignOut(s)  BY <2>5, SignOutStep
  <2>6. CASE ClearName(s)  BY <2>6, ClearNameStep
  <2>7. CASE ClearRole(s)  BY <2>7, ClearRoleStep
  <2>8. CASE Interrupt(s)  BY <2>8, InterruptStep
  <2> QED BY <2>1, <2>2, <2>3, <2>4, <2>5, <2>6, <2>7, <2>8 DEF GateStep
<1>5. CASE Crash  BY <1>5, CrashStep
<1>6. CASE Restart  BY <1>6, RestartStep
<1>7. CASE UNCHANGED vars
  <2>1. UNCHANGED <<tables, opened, usersTable, at, asks, told, shown, from, trail, gate>>
    BY <1>7 DEF vars
  <2>2. TypeOK'  BY <2>1 DEF AInv, TypeOK, usersTable, trail, gate
  <2>3. Stories'  BY <2>1, StoppedStories
  <2> QED BY <2>1, <2>2, <2>3, CallFrame DEF AInv
<1> QED BY <1>1, <1>2, <1>3, <1>4, <1>5, <1>6, <1>7 DEF Next

\* The inductive invariant: rows, attempts and session keys, each where it stands.
THEOREM AccountsInvariant == Spec => []AInv
<1> QED BY InvariantInit, InvariantNext, PTL DEF Spec

\* Types, and the row that the API's answer is built from (_to_public_user).
THEOREM TypeCorrect == Spec => []TypeOK
<1>1. AInv => TypeOK  BY DEF AInv
<1> QED BY <1>1, AccountsInvariant, PTL

\* However requests and forms interleave, the one that is told it made an account did,
\* and with the role it asked for (create_user, create_user_endpoint, Create Account).
THEOREM NamesHaveOneWinner == Spec => []OneWinner
<1>1. AInv => OneWinner
  <2> SUFFICES ASSUME AInv, NEW a \in Attempts, Won(a)
               PROVE  LET n == asks[a].name
                      IN  /\ maker[n] = a /\ role[n] = asks[a].role
                          /\ told[a] = "201" => shown[a] = role[n]
                          /\ \A b \in Attempts : b # a /\ asks[b].name = n => ~Won(b)
    BY DEF OneWinner
  <2>1. asks[a].name \in Names  BY DEF AInv, TypeOK
  <2>2. \A b \in Attempts : Won(b) => maker[asks[b].name] = b  BY DEF AInv, Stories, Story
  <2>3. role[asks[a].name] = asks[a].role  BY <2>1, <2>2 DEF AInv, RowsHaveMakers
  <2>4. told[a] = "201" => shown[a] = role[asks[a].name]  BY DEF AInv, Stories, Story
  <2> QED BY <2>2, <2>3, <2>4
<1> QED BY <1>1, AccountsInvariant, PTL

\* An attempt that ran to its end is in the trail exactly when it was told that it made the
\* account and its trace was taken; the trail runs ahead of the answer only in a request of
\* the API whose row is written and whose answer is not sent, be it cut there or not; and
\* the trail names nobody who did not make the account (save_audit_log, save_log).
THEOREM TrailMatchesAnswers == Spec => []TrailIsExact
<1>1. AInv => TrailIsExact
  <2> SUFFICES ASSUME AInv, NEW a \in Attempts
               PROVE  /\ at[a] = "over" => (a \in traced <=> Won(a) /\ a \notin untraced)
                      /\ a \in traced /\ at[a] # "over" => from[a] = Nobody /\ told[a] = "nothing"
                      /\ a \in traced => maker[asks[a].name] = a
    BY DEF TrailIsExact
  <2>1. Story(a) /\ at[a] \in Places  BY DEF AInv, Stories, TypeOK
  <2> QED BY <2>1 DEF Story
<1> QED BY <1>1, AccountsInvariant, PTL

\* A session has the role of its operator, and, whatever is overtaken, none that its own
\* operators did not bring (the login form, Logout, is_admin).
THEOREM RolesComeFromOperators == Spec => []OperatorsAreKnown
<1>1. AInv => OperatorsAreKnown  BY DEF AInv, AllKeys, Keys, OperatorsAreKnown
<1> QED BY <1>1, AccountsInvariant, PTL
===============================================================================
