--------------------------------- MODULE Web ---------------------------------
(***************************************************************************)
(* The web server (src/web/mod.rs): the proxy and the jobs share the table *)
(* of tasks, any task id can be cancelled through any of their handlers,   *)
(* and a shutdown cancels them all.                                        *)
(***************************************************************************)
EXTENDS WebProxy, WebJobs

CONSTANT Setups   \* what an instance covers: [web |-> .., covers |-> ..]

\* Captures and queries are counted; None is none of them, and no caller.  A
\* job works in a session at least.
ASSUME WebAssumption ==
    /\ None \notin Nat \cup Proxies \cup Toggles \cup {"start", "stop"}
    /\ \A s \in Setups : {s.web.at_once, s.web.timeouts, s.covers.at_once} \subseteq BOOLEAN
    /\ \A s \in Setups : s.covers.initial \subseteq Workloads
    /\ Sessions # {}

vars == <<tasks, proxyVars, jobVars>>

Init ==
    /\ TasksInit
    /\ \E s \in Setups : web = s.web /\ covers = s.covers
    /\ ProxyInit /\ JobsInit

\* Cancelling the proxy's task through the replay handler.
CancelProxy(p) ==
    /\ Up /\ covers.cancels /\ p \in handles
    /\ Cancel(p)
    /\ UNCHANGED <<proxyVars, jobVars>>

\* list_tasks: what has ended, proxy or job, is forgotten first.
ListTasks ==
    /\ Cleanup(Alive \cup {p \in Proxies : task[p] \notin Ended})
    /\ UNCHANGED <<proxyVars, jobVars>>

\* A signal, once the requests have been served, or a crash.
Shutdown ==
    /\ web.stops > 0 \/ covers.cancels
    /\ ServerEnds
    /\ UNCHANGED <<proxyVars, jobVars>>

Next ==
    \/ ProxyNext /\ UNCHANGED jobVars
    \/ JobsNext /\ UNCHANGED proxyVars
    \/ \E p \in Proxies : CancelProxy(p)
    \/ ListTasks
    \/ Shutdown

Spec == Init /\ [][Next]_vars /\ ProxyFairness /\ JobsFairness

-----------------------------------------------------------------------------
\* A workload the dashboard registers when a capture is stopped is the profile
\* of that capture, written, and of no other: neither a refused stop, nor one
\* whose answer came late, nor two requests at once register what is not there
\* (handlers/proxy.rs 527-583, mod.rs 1035-1102).
RegisteredIsWritten ==
    /\ \A w \in workloads : \E f \in files : f.capture = w.capture
    /\ \A v, w \in workloads : v.capture = w.capture => v = w
    /\ \A w \in workloads, p \in Proxies : w.capture \notin {target[p], closing[p].capture}

\* For an operator who asks one thing at a time and a loop that answers in
\* time, the dashboard tells the truth: a proxy in its loop is the one shown,
\* and it records exactly when it is shown to capture, into the capture that is
\* shown; a proxy that has ended is not shown, and when none is, none listens (handlers/proxy.rs 154-233).
DashboardTrue ==
    ~web.at_once /\ ~web.timeouts /\ ~Busy /\ Up =>
        /\ \A p \in Proxies : task[p] = "loop" /\ Awake(p) =>
              /\ ps.running /\ ps.task = p /\ ps.tx = p
              /\ ps.capturing <=> target[p] # None
              /\ ps.capturing => ps.capture = target[p]
              /\ no_capture[p] <=> ~ps.capturing
        /\ ps.running /\ Awake(ps.task) => task[ps.task] \notin Ended
        /\ ~ps.running => listening = {}

\* A run is shown as completed only when every session it started has
\* returned, and as running only as long as somebody will write its end, or it
\* was cancelled, or its end could not be written: the code drops that error
\* (replay.rs 129, ab.rs 114, pipeline.rs 109, 151), and the row is shown as
\* running for good with no task.  Nothing is written for a cancelled job later
\* on (handlers/replay.rs 236-283, ab.rs 157-191).
RunsTrue ==
    \A j \in Jobs :
        /\ runs[j].status = "completed" => sessions[j] = {} /\ job[j] = "done"
        /\ runs[j].status = "failed" => job[j] = "done" /\ runs[j].exit_code = 5
        /\ runs[j].status = "running" /\ request[j] = "replied" /\ Awake(j) =>
              j \in Alive \/ job[j] = "lost"
        /\ job[j] \in {"dropped", "lost"} /\ Kind(j) # "tuning" => runs[j].status = "running"
        /\ runs[j].report /\ Kind(j) = "replay" => runs[j].results

\* One tuning at a time changes the settings of the target, when the start
\* requests come one after the other (handlers/tuning.rs 31-36).
OneTuning ==
    ~covers.at_once => Cardinality({j \in OfKind("tuning") \cap Alive : Awake(j)}) <= 1

\* What is listed can be replayed: a row has its file, whatever was refused,
\* failed or interrupted meanwhile; only a deletion that failed after the file
\* was gone leaves a row without one (handlers/workloads.rs 91-364).
ListedIsThere ==
    \A n \in rows : n \in disk \/ (n = Source /\ \E w \in Writers : writer[w].pc = "failed")

\* A run that nobody cancels ends, well or not, and is shown to, unless the end
\* of its row cannot be written, which the code does not try again.
RunsEnd ==
    \A j \in Jobs :
        runs[j].status = "running" ~>
            runs[j].status # "running" \/ job[j] = "lost" \/ j \in aborted \/ ~Up

\* "Sends a cancellation signal for graceful shutdown. The captured workload is
\* automatically saved" (docs/web-dashboard.md:134).
StopSaves ==
    \A p \in Proxies, c \in 1..2 :
        (Up /\ p \in cancelled /\ target[p] = c) ~> ~Up \/ \E f \in files : f.capture = c
=============================================================================
