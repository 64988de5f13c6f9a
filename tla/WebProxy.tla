------------------------------ MODULE WebProxy ------------------------------
(***************************************************************************)
(* The proxy of the web dashboard: start_proxy, stop_proxy and             *)
(* toggle_capture over the shared ProxyState                               *)
(* (src/web/handlers/proxy.rs), and the command loop they drive,           *)
(* run_proxy_managed_multi (src/proxy/mod.rs).                             *)
(*                                                                         *)
(* All proxies listen on one address.  A capture is a number, and what is  *)
(* kept of it is how many queries it was sent: how they reach the staging  *)
(* table is CaptureControl's business.  The sender and the no_capture flag *)
(* of ProxyState always belong to one proxy, so one field stands for both. *)
(***************************************************************************)
EXTENDS Tasks, Sequences

CONSTANTS
    Proxies,   \* calls of start_proxy, and the tasks they spawn
    Toggles    \* calls of toggle_capture

VARIABLES
    web,           \* what the instance covers, see below
    ps,            \* the shared ProxyState
    start,         \* where each start_proxy is
    toggle,        \* where each toggle_capture is, and what it asked
    task,          \* where each proxy task is
    listening,     \* proxies whose listener has the port
    no_capture,    \* the flag of each proxy
    commands,      \* the command channel of each proxy
    target,        \* the capture the forwarder of each proxy sends to
    closing,       \* the capture being written, and for which toggle
    staged,        \* queries staged for each capture, in order
    files,         \* profiles written
    workloads,     \* rows registered by toggle_capture
    stops          \* calls of stop_proxy

(* web: proxies          the starts that may be asked                      *)
(*      toggles          the toggles that may be asked                     *)
(*      queries          bound on the queries clients run                  *)
(*      stops            bound on the calls of stop_proxy                  *)
(*      at_once          may requests overlap?                             *)
(*      timeouts         may the loop be slower than a handler waits?      *)
(*      faults           of "bind", "read", "write" and "clear"            *)
requesting == <<start, toggle, stops>>
proxying == <<task, listening, no_capture, commands, target, closing>>
kept == <<staged, files, workloads>>
proxyVars == <<web, ps, requesting, proxying, kept>>

Stopped == [running |-> FALSE, task |-> None, tx |-> None,
            capturing |-> FALSE, capture |-> None]
NotCalled == [pc |-> "idle", op |-> None, proxy |-> None, reply |-> None, capture |-> None]
MadeUp == 0
Nothing == [capture |-> None, toggle |-> None]

ProxyInit ==
    /\ ps = Stopped
    /\ start = [p \in Proxies |-> "idle"]
    /\ toggle = [t \in Toggles |-> NotCalled]
    /\ task = [p \in Proxies |-> "none"]
    /\ listening = {}
    /\ no_capture = [p \in Proxies |-> TRUE]
    /\ commands = [p \in Proxies |-> <<>>]
    /\ target = [p \in Proxies |-> None]
    /\ closing = [p \in Proxies |-> Nothing]
    /\ staged = <<>> /\ files = {} /\ workloads = {}
    /\ stops = 0

-----------------------------------------------------------------------------
(***************************************************************************)
(* start_proxy                                                             *)
(***************************************************************************)
Busy ==
    \/ \E p \in Proxies : start[p] \notin {"idle", "replied"}
    \/ \E p \in Proxies : task[p] = "created"
    \/ \E t \in Toggles : toggle[t].pc \notin {"idle", "done"}

\* The operator waits for an answer, and for a started task to show, before
\* asking again.
Alone == web.at_once \/ ~Busy

\* The lock is dropped after the look at running.
CheckRunning(p) ==
    /\ Up /\ p \in web.proxies /\ start[p] = "idle" /\ Alone
    /\ ~ps.running
    /\ start' = [start EXCEPT ![p] = "storing"]
    /\ UNCHANGED <<tasks, web, ps, toggle, stops, proxying, kept>>

\* The sender of an earlier start is overwritten.
StoreSender(p) ==
    /\ Up /\ start[p] = "storing"
    /\ ps' = [ps EXCEPT !.tx = p]
    /\ start' = [start EXCEPT ![p] = "spawning"]
    /\ UNCHANGED <<tasks, web, toggle, stops, proxying, kept>>

SpawnTask(p) ==
    /\ Up /\ start[p] = "spawning"
    /\ task' = [task EXCEPT ![p] = "created"]
    /\ start' = [start EXCEPT ![p] = "inserting"]
    /\ UNCHANGED <<tasks, web, ps, toggle, stops, listening, no_capture, commands,
                   target, closing, kept>>

InsertHandle(p) ==
    /\ Up /\ start[p] = "inserting"
    /\ Insert(p)
    /\ start' = [start EXCEPT ![p] = "replied"]
    /\ UNCHANGED <<web, ps, toggle, stops, proxying, kept>>

\* stop_proxy
StopProxy ==
    /\ Up /\ Alone /\ stops < web.stops
    /\ ps.task # None
    /\ Cancel(ps.task)
    /\ stops' = stops + 1
    /\ UNCHANGED <<web, ps, start, toggle, proxying, kept>>

-----------------------------------------------------------------------------
(***************************************************************************)
(* The task: first ProxyState, then run_proxy_managed_multi.               *)
(***************************************************************************)
At(p, pc) == Up /\ task[p] = pc
Goto(p, pc) == task' = [task EXCEPT ![p] = pc]

TaskBegins(p) ==
    /\ At(p, "created") /\ Awake(p)
    /\ ps' = [running |-> TRUE, task |-> p, tx |-> ps.tx,
              capturing |-> FALSE, capture |-> None]
    /\ Goto(p, "binding")
    /\ UNCHANGED <<tasks, web, requesting, listening, no_capture, commands, target,
                   closing, kept>>

\* The handlers whose command nobody will answer.
Lost(p) == {t \in Toggles : toggle[t].pc = "sent" /\ toggle[t].proxy = p}

\* The receiver is dropped, and with it the commands and their reply channels.
DropReceiver(p) ==
    /\ toggle' = [t \in Toggles |->
         IF t \in Lost(p) THEN [toggle[t] EXCEPT !.pc = "answered", !.reply = "lost"]
         ELSE toggle[t]]
    /\ commands' = [commands EXCEPT ![p] = <<>>]

\* create_listener, and the staging database.
Bind(p) ==
    /\ At(p, "binding") /\ Awake(p)
    /\ listening = {}
    /\ listening' = {p}
    /\ no_capture' = [no_capture EXCEPT ![p] = TRUE]
    /\ Goto(p, "loop")
    /\ UNCHANGED <<tasks, web, ps, requesting, commands, target, closing, kept>>

BindFails(p) ==
    /\ At(p, "binding") /\ Awake(p)
    /\ listening # {} \/ "bind" \in web.faults
    /\ DropReceiver(p)
    /\ Goto(p, "clearing")
    /\ UNCHANGED <<tasks, web, ps, start, stops, listening, no_capture, target,
                   closing, kept>>

NextCommand(p, op) ==
    /\ At(p, "loop") /\ Awake(p)
    /\ commands[p] # <<>> /\ toggle[Head(commands[p])].op = op
    /\ commands' = [commands EXCEPT ![p] = Tail(@)]

\* A handler that gave up has dropped its end of the reply channel.
Reply(t, answer, capture) ==
    toggle' = IF toggle[t].pc # "sent" THEN toggle
              ELSE [toggle EXCEPT ![t].pc = "answered", ![t].reply = answer,
                                  ![t].capture = capture]

StartCapture(p) ==
    /\ NextCommand(p, "start")
    /\ LET t == Head(commands[p])
           c == Len(staged) + 1
       IN IF target[p] # None
          THEN /\ Reply(t, "refused", None)
               /\ UNCHANGED <<target, no_capture, staged>>
          ELSE /\ target' = [target EXCEPT ![p] = c]
               /\ staged' = Append(staged, 0)
               /\ no_capture' = [no_capture EXCEPT ![p] = FALSE]
               /\ Reply(t, "ok", c)
    /\ UNCHANGED <<tasks, web, ps, start, stops, task, listening, closing, files, workloads>>

\* active_capture_id.take(), the flag up, the forwarder's sender dropped.
Close(p, t) ==
    /\ closing' = [closing EXCEPT ![p] = [capture |-> target[p], toggle |-> t]]
    /\ target' = [target EXCEPT ![p] = None]
    /\ no_capture' = [no_capture EXCEPT ![p] = TRUE]

StopCapture(p) ==
    /\ NextCommand(p, "stop")
    /\ LET t == Head(commands[p])
       IN IF target[p] = None
          THEN Reply(t, "refused", None) /\ UNCHANGED <<task, target, no_capture, closing>>
          ELSE Close(p, t) /\ Goto(p, "writing") /\ UNCHANGED toggle
    /\ UNCHANGED <<tasks, web, ps, start, stops, listening, kept>>

File(c) == [capture |-> c, queries |-> staged[c]]

Cleared(c) == staged' = [staged EXCEPT ![c] = 0]

\* read_capture, write_profile and clear_capture, once the collector returned.
Flush(c, answer) ==
    \/ answer = "refused" /\ "read" \in web.faults /\ UNCHANGED <<files, staged>>
    \/ answer = "refused" /\ "write" \in web.faults /\ Cleared(c) /\ UNCHANGED files
    \/ /\ answer = "ok"
       /\ files' = files \cup {File(c)}
       /\ \/ Cleared(c)
          \/ "clear" \in web.faults /\ UNCHANGED staged

WriteCapture(p) ==
    /\ At(p, "writing") /\ Awake(p)
    /\ \E answer \in {"ok", "refused"} :
          /\ Flush(closing[p].capture, answer)
          /\ Reply(closing[p].toggle, answer, closing[p].capture)
    /\ closing' = [closing EXCEPT ![p] = Nothing]
    /\ Goto(p, "loop")
    /\ UNCHANGED <<tasks, web, ps, start, stops, listening, no_capture, commands,
                   target, workloads>>

\* Nobody can send another command.
ChannelClosed(p) ==
    /\ ps.tx # p /\ commands[p] = <<>>
    /\ start[p] = "inserting" \/ start[p] = "replied"
    /\ \A t \in Toggles : toggle[t].proxy = p => toggle[t].pc = "done"

\* The token is seen, even by a task that is being aborted if it was woken
\* between cancel() and abort().  The listener is only told once the active
\* capture has been written.
LoopEnds(p) ==
    /\ At(p, "loop")
    /\ p \in cancelled \/ ChannelClosed(p)
    /\ IF target[p] # None
       THEN Close(p, None) /\ Goto(p, "flushing") /\ UNCHANGED listening
       ELSE /\ listening' = listening \ {p}
            /\ Goto(p, "draining")
            /\ UNCHANGED <<target, no_capture, closing>>
    /\ UNCHANGED <<tasks, web, ps, requesting, commands, kept>>

FlushAtEnd(p) ==
    /\ At(p, "flushing") /\ Awake(p)
    /\ \E answer \in {"ok", "refused"} : Flush(closing[p].capture, answer)
    /\ closing' = [closing EXCEPT ![p] = Nothing]
    /\ listening' = listening \ {p}
    /\ Goto(p, "draining")
    /\ UNCHANGED <<tasks, web, ps, requesting, no_capture, commands, target, workloads>>

\* The listener and the sessions are waited for, then the function returns.
Drained(p) ==
    /\ At(p, "draining") /\ Awake(p)
    /\ DropReceiver(p)
    /\ Goto(p, "clearing")
    /\ UNCHANGED <<tasks, web, ps, start, stops, listening, no_capture, target, closing, kept>>

ClearState(p) ==
    /\ At(p, "clearing") /\ Awake(p)
    /\ ps' = Stopped
    /\ Goto(p, "done")
    /\ UNCHANGED <<tasks, web, requesting, listening, no_capture, commands, target,
                   closing, kept>>

Ended == {"none", "done", "dropped"}

\* The aborted task is dropped at an await.  Its listener, its forwarder and
\* its collector are tasks of their own: they stay.
DropTask(p) ==
    /\ Up /\ p \in aborted /\ task[p] \notin Ended
    /\ DropReceiver(p)
    /\ Goto(p, "dropped")
    /\ UNCHANGED <<tasks, web, ps, start, stops, listening, no_capture, target, closing, kept>>

\* A client runs a query: it is captured if the flag is down and the forwarder
\* has a target.
Query(p) ==
    /\ Up /\ p \in listening
    /\ ~no_capture[p] /\ target[p] # None
    /\ staged[target[p]] < web.queries
    /\ staged' = [staged EXCEPT ![target[p]] = @ + 1]
    /\ UNCHANGED <<tasks, web, ps, requesting, proxying, files, workloads>>

-----------------------------------------------------------------------------
(***************************************************************************)
(* toggle_capture                                                          *)
(***************************************************************************)
HasReceiver(p) == task[p] \notin {"clearing", "done", "dropped"}

Asks(t) ==
    /\ Up /\ t \in web.toggles /\ toggle[t].pc = "idle" /\ Alone
    /\ ps.running /\ ps.tx # None

Asked(op) == [pc |-> "sent", op |-> op, proxy |-> ps.tx, reply |-> None, capture |-> None]

SendCommand(t) ==
    /\ Asks(t)
    /\ HasReceiver(ps.tx)
    /\ toggle' = [toggle EXCEPT ![t] = Asked(IF ps.capturing THEN "stop" ELSE "start")]
    /\ commands' = [commands EXCEPT ![ps.tx] = Append(@, t)]
    /\ UNCHANGED <<tasks, web, ps, start, stops, task, listening, no_capture, target,
                   closing, kept>>

\* The fallback of a stop goes around the loop.
CaptureOff(p) ==
    /\ no_capture' = [no_capture EXCEPT ![p] = TRUE]
    /\ ps' = [ps EXCEPT !.capturing = FALSE, !.capture = None]

\* The fallback of a start makes up an id.
CaptureOn(p) ==
    /\ no_capture' = [no_capture EXCEPT ![p] = FALSE]
    /\ ps' = [ps EXCEPT !.capturing = TRUE, !.capture = MadeUp]

\* The send fails: a start gives up.
SendFails(t) ==
    /\ Asks(t)
    /\ ~HasReceiver(ps.tx)
    /\ ps.capturing
    /\ CaptureOff(ps.tx)
    /\ toggle' = [toggle EXCEPT ![t] = [NotCalled EXCEPT !.pc = "done"]]
    /\ UNCHANGED <<tasks, web, start, stops, task, listening, commands, target, closing, kept>>

\* The slip: a refused stop is registered as well.
to_register_any == {"ok", "refused"}
to_register == {"ok"}

\* The slip: a refused stop leaves what is shown.
shown_kept(answer) ==
    IF answer = "ok" THEN [ps EXCEPT !.capturing = FALSE, !.capture = None] ELSE ps
shown(answer) == [ps EXCEPT !.capturing = FALSE, !.capture = None]

Answered(t) ==
    LET r == toggle[t] IN
    \/ /\ r.op = "start" /\ r.reply = "ok"
       /\ ps' = [ps EXCEPT !.capturing = TRUE, !.capture = r.capture]
       /\ UNCHANGED <<no_capture, workloads>>
    \/ /\ r.op = "start" /\ r.reply = "refused"
       /\ UNCHANGED <<ps, no_capture, workloads>>
    \/ /\ r.op = "stop" /\ r.reply \in {"ok", "refused"}
       /\ ps' = shown(r.reply)
       /\ workloads' = IF r.reply \in to_register
                       THEN workloads \cup {[toggle |-> t, capture |-> r.capture]}
                       ELSE workloads
       /\ UNCHANGED no_capture
    \/ /\ r.op = "start" /\ r.reply = "lost"
       /\ CaptureOn(r.proxy) /\ UNCHANGED workloads
    \/ /\ r.op = "stop" /\ r.reply = "lost"
       /\ CaptureOff(r.proxy) /\ UNCHANGED workloads

ToggleReturns(t) ==
    /\ Up /\ toggle[t].pc = "answered"
    /\ Answered(t)
    /\ toggle' = [toggle EXCEPT ![t].pc = "done"]
    /\ UNCHANGED <<tasks, web, start, stops, task, listening, commands, target, closing,
                   staged, files>>

\* 10 seconds for a start, 30 for a stop.
ToggleTimesOut(t) ==
    /\ Up /\ web.timeouts /\ toggle[t].pc = "sent"
    /\ IF toggle[t].op = "start" THEN CaptureOn(toggle[t].proxy)
                                 ELSE CaptureOff(toggle[t].proxy)
    /\ toggle' = [toggle EXCEPT ![t].pc = "done"]
    /\ UNCHANGED <<tasks, web, start, stops, task, listening, commands, target, closing, kept>>

-----------------------------------------------------------------------------
StartSteps(p) == CheckRunning(p) \/ StoreSender(p) \/ SpawnTask(p) \/ InsertHandle(p)

TaskSteps(p) ==
    \/ TaskBegins(p) \/ Bind(p) \/ BindFails(p)
    \/ StartCapture(p) \/ StopCapture(p) \/ WriteCapture(p)
    \/ LoopEnds(p) \/ FlushAtEnd(p) \/ Drained(p) \/ ClearState(p)
    \/ DropTask(p)

ToggleSteps(t) ==
    SendCommand(t) \/ SendFails(t) \/ ToggleReturns(t) \/ ToggleTimesOut(t)

ProxyNext ==
    \/ \E p \in Proxies : StartSteps(p) \/ TaskSteps(p) \/ Query(p)
    \/ \E t \in Toggles : ToggleSteps(t)
    \/ StopProxy

\* Requests come or not; what has begun goes on.
ProxyFairness ==
    /\ \A p \in Proxies :
          /\ WF_<<tasks, proxyVars>>(StoreSender(p) \/ SpawnTask(p) \/ InsertHandle(p))
          /\ WF_<<tasks, proxyVars>>(TaskSteps(p))
    /\ \A t \in Toggles : WF_<<tasks, proxyVars>>(ToggleReturns(t))
=============================================================================
