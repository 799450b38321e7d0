---------------------------- MODULE ConsoleRoutes ----------------------------
(***************************************************************************)
(* What each console does with a prompt: three Streamlit consoles that     *)
(* keep the database, two that do not, a chat page and a command line.     *)
(*                                                                         *)
(* A route is given by the runs it can take, a run by its steps in order.  *)
(* A step is a place where the script touches the session, a table, a tool *)
(* or the model; what is only displayed (st.error, st.code) is no step, so *)
(* the run of a prompt that is turned down is empty.                       *)
(***************************************************************************)
EXTENDS Integers, Sequences, FiniteSets

Log == <<"log">>                   \* add_log(), with its row in system_logs
Tool == <<"tool">>                 \* a scanner that returns the text of its errors
Subdomains == <<"subdomains">>     \* run_subdomain_brute_force()
Read == <<"read">>                 \* open() and readlines() of a log file
Ask == <<"ask">>                   \* llm.invoke()
Say == <<"say">>                   \* an assistant message
Count(k) == <<"count", k>>         \* total_scans += k
Alarm == <<"alarm">>               \* threats_found += 1
Remember(risk) == <<"history", risk>>   \* add_history(), with its row in scan_history
Save == <<"save">>                 \* a report file
Offline == <<"offline">>           \* st.error(): the model could not be loaded

\* What the routers look for in a prompt: words, with their synonyms ("analyze" is also
\* "fullscan", "header" "http", "dig" "dns"), and targets.
Words == {"analyze", "header", "scan", "whois", "dig", "subdomain", "log"}
Targets == {"domain", "ip", "path"}
Prompts == [words : {W \in SUBSET Words : Cardinality(W) <= 2}, has : SUBSET Targets]

\* A risk weight as the model may write it in JSON: a level, another text, null, or a
\* list or object.
Risks == {"LOW", "MEDIUM", "HIGH", "CRITICAL", "text", "null", "list"}

\* Runs that need the model, which may not have been loaded.
WithModel(runs) == runs \cup {<<Offline>>}

Prefixed(steps, runs) == {steps \o r : r \in runs}

-------------------------------------------------------------------------------
(* The routes the three database consoles share, as written in the newest *)

\* ROUTE 7.  The scans are counted before the model is asked; an address that does not
\* resolve costs the nmap scan and its two log lines.
ChainRoute(p) ==
    IF "domain" \notin p.has THEN {<< >>}
    ELSE LET resolved == <<Log, Tool, Log>>
             unresolved == <<Log>>
         IN  UNION {Prefixed(<<Log, Tool, Log, Tool, Log>> \o phase3 \o <<Count(3)>>,
                             WithModel({<<Ask, Say, Remember("MEDIUM")>>})) :
                    phase3 \in {resolved, unresolved}}

\* The answer to a header audit.  JSON that is not an object is announced, fails at
\* .get(), and is announced again as text.
HeaderAnswers == {<<Say, Remember(risk)>> : risk \in Risks}
                 \cup {<<Say, Say, Remember("LOW")>>}

\* ROUTE 1.  No headers, no audit: an error is said.
HeaderRoute(p) ==
    IF "domain" \notin p.has THEN {<< >>}
    ELSE Prefixed(<<Log, Tool>>,
                  {<<Say>>} \cup Prefixed(<<Count(1)>>,
                                          WithModel(Prefixed(<<Ask>>, HeaderAnswers))))

\* ROUTE 8
ChatRoute == WithModel({<<Ask, Say>>})

\* Mutant: the scan is counted last.
DirectRoute_CountsLast(p, target) == IF target \notin p.has THEN {<< >>}
                                     ELSE {<<Log, Tool, Say, Remember("LOW"), Count(1)>>}

\* ROUTES A to C of the newest console: one tool, one answer, one row.
DirectRoute(p, target) == IF target \notin p.has THEN {<< >>}
                          ELSE {<<Log, Tool, Say, Count(1), Remember("LOW")>>}

\* ROUTE D
SubdomainRoute(p) == IF "domain" \notin p.has THEN {<< >>}
                     ELSE {<<Log, Subdomains, Say, Count(1), Remember("LOW")>>}

\* The first word that matches decides: "whois scanme.nmap.org" is a scan.
NewestRoutes(p) == IF "analyze" \in p.words THEN ChainRoute(p)
                   ELSE IF "header" \in p.words THEN HeaderRoute(p)
                   ELSE IF "scan" \in p.words THEN DirectRoute(p, "ip")
                   ELSE IF "whois" \in p.words \/ "dig" \in p.words THEN DirectRoute(p, "domain")
                   ELSE IF "subdomain" \in p.words THEN SubdomainRoute(p)
                   ELSE ChatRoute

\* The other two have the routes of the model only.
ProRoutes(p) == IF "analyze" \in p.words THEN ChainRoute(p)
                ELSE IF "header" \in p.words THEN HeaderRoute(p)
                ELSE ChatRoute

OlderRoutes(p) == ProRoutes(p)

-------------------------------------------------------------------------------
(* The consoles without a database *)

GuiScan(p) == IF "ip" \notin p.has THEN {<< >>}
              ELSE Prefixed(<<Log, Count(1), Tool, Ask, Say>>,
                            {<<Alarm, Remember("CRITICAL"), Log>>,
                             <<Remember("MEDIUM"), Log>>, <<Remember("LOW"), Log>>})

GuiLogAnalysis(p) == IF "path" \notin p.has THEN {<< >>}
                     ELSE {<< >>} \cup Prefixed(<<Log, Read, Ask, Say>>,
                                                {<<Remember("CRITICAL")>>, <<Remember("MEDIUM")>>})

GuiWhois(p) == IF "domain" \notin p.has THEN {<< >>}
               ELSE {<<Log, Tool, Ask, Say, Remember("LOW")>>}

GuiRoutes(p) == IF "scan" \in p.words \/ "ip" \in p.has THEN GuiScan(p)
                ELSE IF "log" \in p.words THEN GuiLogAnalysis(p)
                ELSE IF "whois" \in p.words THEN GuiWhois(p)
                ELSE {<<Ask, Say>>}

\* copilot_test.py asks the model first; its answer, or the words of the prompt, choose
\* the handler, and the target may come from either.
TestScan == {<< >>} \cup
            Prefixed(<<Log, Count(1), Tool, Ask, Say>>,
                     {<<Alarm, Remember("CRITICAL"), Log>>, <<Alarm, Remember("MEDIUM"), Log>>,
                      <<Remember("LOW"), Log>>})

TestLogAnalysis == {<< >>} \cup
                   Prefixed(<<Log, Alarm, Read, Ask, Say>>,
                            {<<Remember("CRITICAL"), Log>>, <<Remember("MEDIUM"), Log>>})

TestWhois == {<< >>, <<Log, Tool, Ask, Say, Remember("INFO"), Log>>}

TestHandler(p, decision) ==
    IF decision = "nmap" \/ "scan" \in p.words THEN TestScan
    ELSE IF decision = "log_analyzer" \/ "log" \in p.words THEN TestLogAnalysis
    ELSE IF decision = "whois" \/ "whois" \in p.words THEN TestWhois
    ELSE {<<Say>>}

Decisions == {"nmap", "log_analyzer", "whois", "words"}

TestRoutes(p) == Prefixed(<<Ask>>, UNION {TestHandler(p, d) : d \in Decisions})

\* copilot2.py knows one tool, and answers even when it finds no address.
AgentRoutes(p) == {<<Ask, Say>>, <<Ask, Tool, Ask, Say>>}

\* copilot.py: the report is printed, then saved.  A log file that is missing, or that
\* holds the text "Error:", is printed and dropped; one that cannot be read is reported
\* on like any other, because the text of that error is not the one looked for.
CliReport == <<Tool, Ask, Say, Save>>
CliRoutes(p) == Prefixed(<<Ask>>, {<< >>, CliReport, <<Say>>})

-------------------------------------------------------------------------------
(* What may raise: the model everywhere, and what no try of the console covers. *)

NewestRaises == {Ask, Subdomains}
ProRaises == {Ask}
OlderRaises == {Ask}
GuiRaises == {Ask, Read}
TestRaises == {Ask, Read}
AgentRaises == {Ask, Tool}
CliRaises == {Ask, Save}

\* The counters of a new session.
NewestSession == [scans |-> 142, threats |-> 12]
ProSession == [scans |-> 142, threats |-> 12]
OlderSession == [scans |-> 142, threats |-> 12]
GuiSession == [scans |-> 24, threats |-> 3]
TestSession == [scans |-> 0, threats |-> 0]
NoCounters == [scans |-> 0, threats |-> 0]

Consoles == {"newest", "pro", "older", "gui", "test", "agent", "cli"}

Routes(console, p) == CASE console = "newest" -> NewestRoutes(p)
                        [] console = "pro" -> ProRoutes(p)
                        [] console = "older" -> OlderRoutes(p)
                        [] console = "gui" -> GuiRoutes(p)
                        [] console = "test" -> TestRoutes(p)
                        [] console = "agent" -> AgentRoutes(p)
                        [] console = "cli" -> CliRoutes(p)

Raises(console) == CASE console = "newest" -> NewestRaises
                     [] console = "pro" -> ProRaises
                     [] console = "older" -> OlderRaises
                     [] console = "gui" -> GuiRaises
                     [] console = "test" -> TestRaises
                     [] console = "agent" -> AgentRaises
                     [] console = "cli" -> CliRaises

Fresh(console) == CASE console = "newest" -> NewestSession
                    [] console = "pro" -> ProSession
                    [] console = "older" -> OlderSession
                    [] console = "gui" -> GuiSession
                    [] console = "test" -> TestSession
                    [] OTHER -> NoCounters
==============================================================================
