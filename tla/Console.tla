------------------------------- MODULE Console -------------------------------
(***************************************************************************)
(* A console at work, step by step: its session (conversation, log,        *)
(* timeline, counters), and the tables of database.py, which outlive it.   *)
(*                                                                         *)
(* Streamlit runs the page's script once per interaction.  A second        *)
(* interaction stops the script at its next st call, wherever that is; an  *)
(* exception ends it; the session stays.  A reload of the page, a restart  *)
(* of the server or the end of a command line gives a new session.         *)
(***************************************************************************)
EXTENDS ConsoleRoutes

CONSTANTS MaxPrompts,   \* bounds the prompts of a behaviour
          Faults        \* what may go wrong: "raise", "refused", "reload", "interrupt"

ASSUME ConsoleAssumption == /\ MaxPrompts \in Nat
                            /\ Faults \subseteq {"raise", "refused", "reload", "interrupt"}

VARIABLES console,   \* which console runs; never changes
          prompt,    \* the number of the last prompt
          todo,      \* the steps left of its run
          session,   \* what the script keeps between runs, and how the runs ended
          tables,    \* the prompts with a row in system_logs, the rows of scan_history
          refused    \* the same, of the rows the database did not take

vars == <<console, prompt, todo, session, tables, refused>>

\* Next to its own state, the prompts that raised total_scans and threats_found, those
\* with a line in the session's log, and those whose run stopped short.
NewSession == [talk |-> << >>, timeline |-> {}, announced |-> {},
               scans |-> Fresh(console).scans, threats |-> Fresh(console).threats,
               counted |-> {}, alarmed |-> {}, cut |-> {}]

NoRows == [logs |-> {}, scans |-> {}]

Init == /\ console \in Consoles
        /\ prompt = 0 /\ todo = << >>
        /\ session = NewSession
        /\ tables = NoRows /\ refused = NoRows

-------------------------------------------------------------------------------
(* The page *)

Streamlit == Consoles \ {"cli"}
Persists == {"newest", "pro", "older"}

\* render_risk_distribution_chart() asks whether a risk is a key of a dict: with a list
\* or an object among the rows every run of the script ends there, above the chat.
Drawn == console \in {"newest", "pro"} => \A row \in session.timeline : row.risk # "list"

\* The run of the last prompt stops where it is.
Stopped(s) == IF todo = << >> THEN s ELSE [s EXCEPT !.cut = @ \cup {prompt}]

\* Mutant: the script of the last prompt runs on beside the new one.
Prompt_RunsOn == /\ prompt < MaxPrompts /\ Drawn
                 /\ prompt' = prompt + 1
                 /\ session' = [session EXCEPT !.talk = Append(@, <<"user", prompt + 1>>)]
                 /\ \E p \in Prompts : \E run \in Routes(console, p) : todo' = todo \o run
                 /\ UNCHANGED <<console, tables, refused>>

\* A prompt, typed or from a quick reply.
Prompt == /\ prompt < MaxPrompts
          /\ todo = << >> \/ (console \in Streamlit /\ "interrupt" \in Faults)
          /\ Drawn
          /\ prompt' = prompt + 1
          /\ session' = [Stopped(session) EXCEPT !.talk = Append(@, <<"user", prompt + 1>>)]
          /\ \E p \in Prompts : \E run \in Routes(console, p) : todo' = run
          /\ UNCHANGED <<console, tables, refused>>

\* Any other widget is used while the script runs.
Interrupt == /\ "interrupt" \in Faults /\ console \in Streamlit
             /\ todo # << >>
             /\ todo' = << >>
             /\ session' = Stopped(session)
             /\ UNCHANGED <<console, prompt, tables, refused>>

Reload == /\ "reload" \in Faults
          /\ todo' = << >>
          /\ session' = NewSession
          /\ UNCHANGED <<console, prompt, tables, refused>>

-------------------------------------------------------------------------------
(* The steps of a run *)

Steps(step) == todo # << >> /\ Head(todo) = step /\ todo' = Tail(todo)

\* save_log() and save_scan() swallow their errors; scan_history wants a risk, and a
\* list is text to one database and an error to the other.
Taken(risk) == IF risk = "null" THEN {FALSE}
               ELSE {TRUE} \cup (IF risk = "list" \/ "refused" \in Faults THEN {FALSE} ELSE {})

SaveLog == IF console \notin Persists THEN UNCHANGED <<tables, refused>>
           ELSE \E ok \in Taken("text") :
                  /\ tables' = IF ok THEN [tables EXCEPT !.logs = @ \cup {prompt}] ELSE tables
                  /\ refused' = IF ok THEN refused ELSE [refused EXCEPT !.logs = @ \cup {prompt}]

SaveScan(row) == IF console \notin Persists THEN UNCHANGED <<tables, refused>>
                 ELSE \E ok \in Taken(row.risk) :
                        /\ tables' = IF ok THEN [tables EXCEPT !.scans = @ \cup {row}] ELSE tables
                        /\ refused' = IF ok THEN refused
                                      ELSE [refused EXCEPT !.scans = @ \cup {row}]

AddLog == /\ Steps(Log)
          /\ session' = [session EXCEPT !.announced = @ \cup {prompt}]
          /\ SaveLog
          /\ UNCHANGED <<console, prompt>>

\* Mutant: the risk is cleaned up on its way to the table, not on the screen.
AddHistory_Cleaned == \E risk \in Risks \cup {"INFO"} :
    LET row == [prompt |-> prompt, risk |-> risk]
    IN  /\ Steps(Remember(risk))
        /\ session' = [session EXCEPT !.timeline = @ \cup {row}]
        /\ SaveScan([row EXCEPT !.risk = IF @ = "text" THEN "LOW" ELSE @])
        /\ UNCHANGED <<console, prompt>>

AddHistory == \E risk \in Risks \cup {"INFO"} :
    LET row == [prompt |-> prompt, risk |-> risk]
    IN  /\ Steps(Remember(risk))
        /\ session' = [session EXCEPT !.timeline = @ \cup {row}]
        /\ SaveScan(row)
        /\ UNCHANGED <<console, prompt>>

\* Mutant: the role is called what another library calls it.
Answer_Renamed == /\ Steps(Say)
                  /\ session' = [session EXCEPT !.talk = Append(@, <<"ai", prompt>>)]
                  /\ UNCHANGED <<console, prompt, tables, refused>>

Answer == /\ Steps(Say)
          /\ session' = [session EXCEPT !.talk = Append(@, <<"assistant", prompt>>)]
          /\ UNCHANGED <<console, prompt, tables, refused>>

CountScans == \E k \in {1, 3} :
                /\ Steps(Count(k))
                /\ session' = [session EXCEPT !.scans = @ + k, !.counted = @ \cup {prompt}]
                /\ UNCHANGED <<console, prompt, tables, refused>>

RaiseAlarm == /\ Steps(Alarm)
              /\ session' = [session EXCEPT !.threats = @ + 1, !.alarmed = @ \cup {prompt}]
              /\ UNCHANGED <<console, prompt, tables, refused>>

\* The model, the tools and the files answer: nothing the console keeps changes yet.
Consult == /\ \E step \in {Tool, Subdomains, Read, Ask, Save} : Steps(step)
           /\ UNCHANGED <<console, prompt, session, tables, refused>>

\* The model is not there: an error on the screen is all that is left of the run.
GiveUp == /\ Steps(Offline)
          /\ session' = [session EXCEPT !.cut = @ \cup {prompt}]
          /\ UNCHANGED <<console, prompt, tables, refused>>

\* An exception ends the run; it ends the loop of the command line.
Raise == /\ "raise" \in Faults
         /\ todo # << >> /\ Head(todo) \in Raises(console)
         /\ todo' = << >>
         /\ session' = IF console = "cli" THEN NewSession ELSE Stopped(session)
         /\ UNCHANGED <<console, prompt, tables, refused>>

RunStep == \/ AddLog \/ AddHistory \/ Answer \/ CountScans \/ RaiseAlarm \/ Consult
           \/ GiveUp \/ Raise

Next == Prompt \/ Interrupt \/ Reload \/ RunStep

Spec == Init /\ [][Next]_vars

-------------------------------------------------------------------------------
(* Properties *)

Numbers == 1..MaxPrompts
RowSet == [prompt : Numbers, risk : Risks \cup {"INFO"}]

\* Types of the session and of the tables.
TypeOK ==
    /\ console \in Consoles /\ prompt \in 0..MaxPrompts
    /\ todo # << >> => prompt > 0
    /\ \A i \in DOMAIN session.talk : session.talk[i] \in {"user", "assistant"} \X Numbers
    /\ session.timeline \subseteq RowSet
    /\ {session.scans, session.threats} \subseteq Nat
    /\ UNION {session.announced, session.counted, session.alarmed, session.cut} \subseteq Numbers
    /\ \A t \in {tables, refused} : t.logs \subseteq Numbers /\ t.scans \subseteq RowSet

\* The messages of a prompt in the conversation, and its rows.
Said(role, p) == {i \in DOMAIN session.talk : session.talk[i] = <<role, p>>}
Asked == {p \in Numbers : Said("user", p) # {}}
RowsOf(p) == {row \in session.timeline : row.prompt = p}
Over(p) == p # prompt \/ todo = << >>

\* The timeline of a session tells what happened.  A row was announced in the log before
\* its tool ran, and its answer is in the conversation; where there is a database both
\* the row and the log line are stored, unless the database refused exactly them.  And
\* the tables hold nothing else: no row whose session does not show it, none without its
\* log line, even when the session that wrote it is gone (add_log, add_history).
TimelineIsTrue ==
    /\ \A row \in session.timeline : /\ row.prompt \in session.announced
                                     /\ Said("assistant", row.prompt) # {}
                                     /\ console \in Persists => row \in tables.scans \cup refused.scans
    /\ \A row \in tables.scans : /\ row.prompt \in Asked => row \in session.timeline
                                 /\ row.prompt \in tables.logs \cup refused.logs
                                 /\ row.risk # "null"

\* The dashboard's counters and its timeline tell the same story.  A run that got to its
\* end has a row if it was counted as a scan, and a serious one if it was counted as a
\* threat; and nothing is on the timeline that should have been counted before: every
\* row of a database console is a counted scan, a critical scan of the GUI and any
\* serious finding of copilot_test.py are counted threats.
CountersAgree ==
    LET serious(row) == row.risk \in {"CRITICAL", "MEDIUM"}
    IN  /\ \A p \in Asked : Over(p) /\ p \notin session.cut =>
             /\ p \in session.counted => RowsOf(p) # {}
             /\ p \in session.alarmed => \E row \in RowsOf(p) : serious(row)
        /\ \A row \in session.timeline :
             /\ console \in Persists => row.prompt \in session.counted
             /\ console = "gui" /\ row.risk = "CRITICAL" /\ row.prompt \in session.counted
                  => row.prompt \in session.alarmed
             /\ console = "test" /\ serious(row) => row.prompt \in session.alarmed
        /\ session.scans >= Fresh(console).scans + Cardinality(session.counted)
        /\ session.threats = Fresh(console).threats + Cardinality(session.alarmed)

\* An answer stands under its own prompt, whatever was interrupted, and a prompt has one
\* answer; a header audit may have two, and is then a LOW one (the except branch).
AnswersInPlace ==
    /\ \A i \in DOMAIN session.talk :
         session.talk[i][1] = "assistant" => i > 1 /\ session.talk[i - 1][2] = session.talk[i][2]
    /\ \A p \in Asked :
         /\ Cardinality(Said("user", p)) = 1
         /\ Cardinality(Said("assistant", p)) <= IF console \in Persists THEN 2 ELSE 1
         /\ Cardinality(Said("assistant", p)) = 2 => \A row \in RowsOf(p) : row.risk = "LOW"
===============================================================================
