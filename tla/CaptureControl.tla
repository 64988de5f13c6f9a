--------------------------- MODULE CaptureControl ---------------------------
(***************************************************************************)
(* Starting, stopping, recovering and discarding captures of a persistent  *)
(* proxy: run_proxy_persistent (src/proxy/mod.rs) with its forwarder task, *)
(* the handlers of src/proxy/control.rs, run_staging_collector and         *)
(* build_profile_from_staging (src/proxy/capture.rs) over the SQLite       *)
(* staging table (src/proxy/staging.rs).                                   *)
(*                                                                         *)
(* A query is a number; what a capture keeps of it is Collector's record.  *)
(* active_sessions and total_queries, which only /status reads, SessionEnd *)
(* events, which change nothing, and timestamps are left out.  A written   *)
(* file never replaces another.                                            *)
(***************************************************************************)
EXTENDS Naturals, Sequences, SequencesExt

CONSTANTS
    Sessions,   \* client sessions
    BatchSize,  \* rows that make the staging collector insert
    Setups,     \* the configurations a run covers, see below
    None

(* setup: clients     sessions that run queries                            *)
(*        queries     number of queries they run                           *)
(*        returning   those with a RETURNING clause                        *)
(*        errors      may queries fail?                                    *)
(*        max_queries, timed   the capture limits, 0 and FALSE for none    *)
(*        commands    bound on the control requests                        *)
(*        operations  "recover" and "discard", when they are requested     *)
(*        faults      of "read", "write", "clear" and "insert"             *)
(*        crashes     bound on crashes                                     *)
ASSUME ControlAssumption ==
    /\ None \notin Nat
    /\ BatchSize \in Nat \ {0}
    /\ \A s \in Setups : {s.queries, s.max_queries, s.commands, s.crashes} \subseteq Nat
    /\ \A s \in Setups : s.clients \subseteq Sessions

VARIABLES
    setup,
    no_capture, capturing, active, target,  \* active_capture_id, active_staging_tx
    main, stopping, exiting,                \* where the command loop is
    commands, auto_stops,                   \* its two channels
    running, next_query,                    \* the clients
    channel,                                \* the persistent channel
    held, query_count, limit_triggered, capture_start,  \* the forwarder
    staging, collector, pending, batch,     \* the staging collector
    db, files,                              \* what survives the process
    recovery,                               \* the recover or discard request
    forwarded, returned,                    \* what the active capture was sent
    next_capture, requests, crashes

flags == <<no_capture, capturing, active, target>>
loop == <<main, stopping, exiting, commands, auto_stops>>
clients == <<running, next_query, channel>>
forwarder == <<held, query_count, limit_triggered, capture_start>>
collecting == <<staging, collector, pending, batch>>
ghosts == <<forwarded, returned, next_capture>>
bounds == <<setup, requests, crashes>>
vars == <<flags, loop, clients, forwarder, collecting, db, files, recovery,
          ghosts, bounds>>

NoSql == 0
Staged == INSTANCE Collector

NoRecovery == [op |-> "none", todo |-> {}, written |-> None]
Idle == [s \in Sessions |-> NoSql]
Fresh == [s \in Sessions |-> Staged!NewSession]

Init ==
    /\ setup \in Setups
    /\ no_capture = TRUE /\ capturing = FALSE /\ active = None /\ target = None
    /\ main = "loop" /\ stopping = None /\ exiting = FALSE
    /\ commands = <<>> /\ auto_stops = 0
    /\ running = Idle /\ next_query = 1 /\ channel = <<>>
    /\ held = None /\ query_count = 0 /\ limit_triggered = FALSE
    /\ capture_start = FALSE
    /\ staging = <<>> /\ collector = None /\ pending = Idle /\ batch = <<>>
    /\ db = <<>> /\ files = {} /\ recovery = NoRecovery
    /\ forwarded = Fresh /\ returned = {} /\ next_capture = 1 /\ requests = 0 /\ crashes = 0

-----------------------------------------------------------------------------
(***************************************************************************)
(* Client sessions: the relay tasks send events while no_capture is down   *)
(* and look at the flag once per message.                                  *)
(***************************************************************************)
\* The process is there.
Up == main # "exited"

Event(s, e) == [session |-> s, event |-> e]
SessionStart == [type |-> "SessionStart"]

Emit(events) == channel' = IF no_capture THEN channel ELSE channel \o events

\* Another client connects: it announces itself whatever the flag says.
Connect ==
    /\ Up /\ setup.timed /\ next_query <= setup.queries
    /\ channel' = Append(channel, Event(None, SessionStart))
    /\ next_query' = next_query + 1
    /\ UNCHANGED <<running, flags, loop, forwarder, collecting, db, files,
                   recovery, ghosts, bounds>>

QueryStart(s) ==
    /\ Up /\ running[s] = NoSql /\ next_query <= setup.queries
    /\ running' = [running EXCEPT ![s] = next_query]
    /\ next_query' = next_query + 1
    /\ Emit(<<Event(s, Staged!QueryStart(next_query))>>)
    /\ UNCHANGED <<flags, loop, forwarder, collecting, db, files, recovery,
                   ghosts, bounds>>

QueryEnd(s) ==
    /\ Up /\ running[s] # NoSql
    /\ \/ Emit(<<Event(s, Staged!QueryComplete)>>
               \o IF running[s] \in setup.returning
                  THEN <<Event(s, Staged!QueryReturning(<<running[s]>>))>> ELSE <<>>)
       \/ setup.errors /\ Emit(<<Event(s, Staged!QueryError)>>)
    /\ running' = [running EXCEPT ![s] = NoSql]
    /\ UNCHANGED <<next_query, flags, loop, forwarder, collecting, db, files,
                   recovery, ghosts, bounds>>

-----------------------------------------------------------------------------
(***************************************************************************)
(* The forwarder: counters and limits first, then, under the lock of       *)
(* active_staging_tx, the event goes to whichever capture is the target.   *)
(***************************************************************************)
FwdReceive ==
    /\ Up /\ held = None /\ channel # <<>>
    /\ held' = Head(channel)
    /\ channel' = Tail(channel)
    /\ UNCHANGED <<running, next_query, capturing, active, target, main,
                   stopping, exiting, commands, collecting, db, files,
                   recovery, ghosts, bounds>>

FwdSessionStart ==
    /\ FwdReceive
    /\ held'.event = SessionStart
    /\ capture_start' = (capture_start \/ capturing)
    /\ UNCHANGED <<no_capture, auto_stops, query_count, limit_triggered>>

FwdOther ==
    /\ FwdReceive
    /\ held'.event.type \in {"QueryStart", "QueryReturning"}
    /\ UNCHANGED <<no_capture, auto_stops, query_count, limit_triggered, capture_start>>

\* The slip: stopping one query late.
limit_passed(n) == n > setup.max_queries
limit_reached(n) == n >= setup.max_queries

LimitExceeded ==
    /\ ~limit_triggered
    /\ \/ setup.max_queries > 0 /\ limit_reached(query_count + 1)
       \/ setup.timed /\ capture_start   \* enough time may have passed

LimitKept ==
    \/ limit_triggered
    \/ ~(setup.max_queries > 0 /\ limit_reached(query_count + 1))

\* The slip: only the flag goes up.
auto_stop_kept == auto_stops
auto_stop_sent == auto_stops + 1

\* The flag and the auto-stop are raised before anything else can be awaited.
FwdCompletion ==
    /\ FwdReceive
    /\ held'.event.type \in {"QueryComplete", "QueryError"}
    /\ query_count' = query_count + 1
    /\ \/ /\ LimitExceeded
          /\ limit_triggered' = TRUE
          /\ no_capture' = TRUE
          /\ auto_stops' = auto_stop_sent
       \/ LimitKept /\ UNCHANGED <<limit_triggered, no_capture, auto_stops>>
    /\ UNCHANGED capture_start

\* How many queries an in-memory collector would have of session s by now.
Queries(s) == Len(forwarded[s].queries)

FwdSend ==
    /\ Up /\ held # None
    /\ held' = None
    /\ \/ target = None /\ UNCHANGED <<staging, forwarded, returned>>
       \/ /\ target # None
          /\ staging' = Append(staging, held)
          /\ forwarded' = IF held.event = SessionStart THEN forwarded
                          ELSE [forwarded EXCEPT ![held.session] =
                                  Staged!Collect(@, held.event)]
          /\ returned' = IF held.event.type # "QueryReturning" THEN returned
                         ELSE returned \cup {<<held.session, Queries(held.session), held.event.rows>>}
    /\ UNCHANGED <<flags, loop, clients, query_count, limit_triggered,
                   capture_start, collector, pending, batch, db, files,
                   recovery, next_capture, bounds>>

-----------------------------------------------------------------------------
(***************************************************************************)
(* run_staging_collector.                                                  *)
(***************************************************************************)
Row(s, sql, is_error) ==
    [capture |-> collector, session |-> s, sql |-> sql, is_error |-> is_error,
     response_values |-> <<>>]

\* pending.remove(..), then push: nothing without a QueryStart.
Push(s, is_error) ==
    IF pending[s] = NoSql THEN batch ELSE Append(batch, Row(s, pending[s], is_error))

\* Rows that were inserted already are out of reach.
Attach(s, rows) ==
    LET i == SelectLastInSeq(batch, LAMBDA r : r.session = s)
    IN IF i = 0 THEN batch ELSE [batch EXCEPT ![i].response_values = rows]

\* The slip: comparing before the row is counted.
full_later(b) == Len(b) > BatchSize
full(b) == Len(b) >= BatchSize

\* An insert that fails loses the batch.
Insert(b) ==
    /\ batch' = <<>>
    /\ \/ db' = db \o b
       \/ "insert" \in setup.faults /\ UNCHANGED db

CollectEvent ==
    /\ collector # None /\ staging # <<>>
    /\ staging' = Tail(staging)
    /\ LET s == Head(staging).session
           e == Head(staging).event
           after == CASE e.type = "QueryComplete"  -> Push(s, FALSE)
                      [] e.type = "QueryError"     -> Push(s, TRUE)
                      [] e.type = "QueryReturning" -> Attach(s, e.rows)
                      [] OTHER                     -> batch
       IN /\ pending' = CASE e.type = "QueryStart" -> [pending EXCEPT ![s] = e.sql]
                          [] e.type \in {"QueryComplete", "QueryError"} ->
                                 [pending EXCEPT ![s] = NoSql]
                          [] OTHER -> pending
          /\ \/ ~full(after) /\ batch' = after /\ UNCHANGED db
             \/ full(after) /\ Insert(after)
    /\ UNCHANGED <<flags, loop, clients, forwarder, collector, files, recovery,
                   ghosts, bounds>>

\* No event for half a second.
PeriodicFlush ==
    /\ collector # None /\ target = collector /\ staging = <<>> /\ batch # <<>>
    /\ Insert(batch)
    /\ UNCHANGED <<flags, loop, clients, forwarder, staging, collector, pending,
                   files, recovery, ghosts, bounds>>

\* recv answers None when the sender is gone and the channel is empty.
CollectorEnds ==
    /\ collector # None /\ target # collector /\ staging = <<>>
    /\ Insert(batch)
    /\ collector' = None
    /\ pending' = Idle
    /\ UNCHANGED <<flags, loop, clients, forwarder, staging, files, recovery,
                   ghosts, bounds>>

-----------------------------------------------------------------------------
(***************************************************************************)
(* The control endpoint (control.rs): the flag is looked at before the     *)
(* command is sent, and may be old when the command is taken.              *)
(***************************************************************************)
Request(c) ==
    /\ Up /\ requests < setup.commands
    /\ commands' = Append(commands, c)
    /\ requests' = requests + 1
    /\ UNCHANGED <<flags, main, stopping, exiting, auto_stops, clients, forwarder,
                   collecting, db, files, recovery, ghosts, setup, crashes>>

RequestStart == ~capturing /\ Request("start")

RequestStop == capturing /\ Request("stop")

-----------------------------------------------------------------------------
(***************************************************************************)
(* The command loop.  select! takes a command, an auto-stop or a signal,   *)
(* whichever it likes.                                                     *)
(***************************************************************************)
TakeCommand(c) ==
    /\ main = "loop" /\ commands # <<>> /\ Head(commands) = c
    /\ commands' = Tail(commands)
    /\ UNCHANGED auto_stops

TakeAutoStop ==
    /\ main = "loop" /\ auto_stops > 0
    /\ auto_stops' = auto_stops - 1
    /\ UNCHANGED commands

outside == <<clients, forwarder, db, files, recovery, bounds>>

\* "Already capturing".
RefuseStart ==
    /\ TakeCommand("start")
    /\ active # None
    /\ UNCHANGED <<flags, main, stopping, exiting, collecting, ghosts, outside>>

\* A new channel becomes the target and a collector is spawned on it.
Start ==
    /\ TakeCommand("start")
    /\ active = None
    /\ target' = next_capture
    /\ collector' = next_capture
    /\ staging' = <<>> /\ pending' = Idle /\ batch' = <<>>
    /\ forwarded' = Fresh /\ returned' = {}
    /\ next_capture' = next_capture + 1
    /\ main' = "enabling"
    /\ UNCHANGED <<no_capture, capturing, active, stopping, exiting, outside>>

Enable ==
    /\ main = "enabling"
    /\ no_capture' = FALSE
    /\ main' = "started"
    /\ UNCHANGED <<capturing, active, target, stopping, exiting, commands,
                   auto_stops, collecting, ghosts, outside>>

\* The write lock of the control state was waited for in between.
Started ==
    /\ main = "started"
    /\ capturing' = TRUE
    /\ active' = target
    /\ main' = "loop"
    /\ UNCHANGED <<no_capture, target, stopping, exiting, commands, auto_stops,
                   collecting, ghosts, outside>>

\* active_capture_id.take() and no_capture up.
BeginStop ==
    /\ active # None
    /\ stopping' = active
    /\ active' = None
    /\ no_capture' = TRUE
    /\ main' = "closing"
    /\ UNCHANGED <<capturing, target>>

NotCapturing ==
    /\ active = None
    /\ UNCHANGED <<flags, main, stopping>>

Stop ==
    /\ TakeCommand("stop") \/ TakeAutoStop
    /\ BeginStop \/ NotCapturing
    /\ UNCHANGED <<exiting, collecting, ghosts, outside>>

Shutdown ==
    /\ main = "loop"
    /\ exiting' = TRUE
    /\ \/ BeginStop
       \/ active = None /\ main' = "exited" /\ UNCHANGED <<flags, stopping>>
    /\ UNCHANGED <<commands, auto_stops, collecting, ghosts, outside>>

\* The sender is dropped under the lock; the slip: keeping it.
kept_target == target
no_target == None

CloseTarget ==
    /\ main = "closing"
    /\ target' = no_target
    /\ main' = "joining"
    /\ UNCHANGED <<no_capture, capturing, active, stopping, exiting, commands,
                   auto_stops, collecting, ghosts, outside>>

\* The collector's handle is awaited; the slip: going on at once.
collector_left == TRUE
collector_ended == collector = None

Join ==
    /\ main = "joining" /\ collector_ended
    /\ main' = "reading"
    /\ UNCHANGED <<flags, stopping, exiting, commands, auto_stops, collecting,
                   ghosts, outside>>

\* What a SELECT gives, in the order of the table.
Selected(rows, which) ==
    LET kept[n \in 0..Len(rows)] ==
            IF n = 0 THEN <<>>
            ELSE IF rows[n] \in which THEN Append(kept[n - 1], rows[n]) ELSE kept[n - 1]
    IN kept[Len(rows)]

Rows(c) == Selected(db, {r \in Range(db) : r.capture = c})

\* The slip: DELETE without its WHERE.
ClearedAll(c) == <<>>
Cleared(c) == Selected(db, {r \in Range(db) : r.capture # c})

\* build_profile_from_staging: by session; is_error is not kept.
Query(r) == [sql |-> r.sql, response_values |-> r.response_values]

Profile(rows) ==
    [s \in Sessions |->
        LET own == Selected(rows, {r \in Range(rows) : r.session = s})
        IN [i \in 1..Len(own) |-> Query(own[i])]]

File(c, by) == [capture |-> c, by |-> by, profile |-> Profile(Rows(c))]

BackToLoop == main' = IF exiting THEN "exited" ELSE "loop"

\* An early return: capturing keeps its value.
ReadFails ==
    /\ main = "reading" /\ "read" \in setup.faults
    /\ BackToLoop /\ stopping' = None
    /\ UNCHANGED <<flags, exiting, commands, auto_stops, collecting, ghosts, outside>>

\* Nothing is awaited between the read and the write.
WriteProfile ==
    /\ main = "reading"
    /\ \/ files' = files \cup {File(stopping, "stop")}
       \/ "write" \in setup.faults /\ UNCHANGED files
    /\ main' = "clearing"
    /\ UNCHANGED <<flags, stopping, exiting, commands, auto_stops, collecting,
                   ghosts, clients, forwarder, db, recovery, bounds>>

\* The result of clear_capture is ignored; the rows go whether or not the
\* file was written.
ClearStaged ==
    /\ main = "clearing"
    /\ \/ db' = Cleared(stopping)
       \/ "clear" \in setup.faults /\ UNCHANGED db
    /\ main' = "stopped"
    /\ UNCHANGED <<flags, stopping, exiting, commands, auto_stops, collecting,
                   ghosts, clients, forwarder, files, recovery, bounds>>

\* The control state is not written on the way out of the process.
Stopped ==
    /\ main = "stopped"
    /\ capturing' = (capturing /\ exiting)
    /\ BackToLoop /\ stopping' = None
    /\ UNCHANGED <<no_capture, active, target, exiting, commands, auto_stops,
                   collecting, ghosts, outside>>

-----------------------------------------------------------------------------
(***************************************************************************)
(* recover_handler and discard_handler: every capture that has rows is     *)
(* taken for an orphan, the active one too.  anytime = FALSE assumes an    *)
(* operator who asks only while /status shows no capture.                  *)
(***************************************************************************)
Recovering(op) == recovery.op = op

ListOrphans(op) ==
    /\ Up /\ op \in setup.operations /\ Recovering("none")
    /\ setup.anytime \/ (~capturing /\ main = "loop")
    /\ requests < setup.commands /\ db # <<>>
    /\ requests' = requests + 1
    /\ recovery' = [op |-> op, todo |-> {r.capture : r \in Range(db)},
                    written |-> None]
    /\ UNCHANGED <<flags, loop, clients, forwarder, collecting, db, files,
                   ghosts, setup, crashes>>

done_with(c) ==
    recovery' = IF recovery.todo = {c} THEN NoRecovery
                ELSE [recovery EXCEPT !.todo = @ \ {c}, !.written = None]

\* A capture that cannot be read or written keeps its rows.
RecoverOne(c) ==
    /\ Up /\ Recovering("recover") /\ recovery.written = None /\ c \in recovery.todo
    /\ \/ /\ files' = files \cup {File(c, "recover")}
          /\ recovery' = [recovery EXCEPT !.written = c]
       \/ {"read", "write"} \cap setup.faults # {} /\ done_with(c) /\ UNCHANGED files
    /\ UNCHANGED <<flags, loop, clients, forwarder, collecting, db, ghosts, bounds>>

ClearOne(c) ==
    /\ Up
    /\ \/ Recovering("recover") /\ recovery.written = c
       \/ Recovering("discard") /\ c \in recovery.todo
    /\ \/ db' = Cleared(c)
       \/ "clear" \in setup.faults /\ UNCHANGED db
    /\ done_with(c)
    /\ UNCHANGED <<flags, loop, clients, forwarder, collecting, files, ghosts, bounds>>

\* The process dies and is started again: the database and the files are left.
Crash ==
    /\ Up /\ crashes < setup.crashes
    /\ crashes' = crashes + 1
    /\ no_capture' = TRUE /\ capturing' = FALSE /\ active' = None /\ target' = None
    /\ main' = "loop" /\ stopping' = None /\ exiting' = FALSE
    /\ commands' = <<>> /\ auto_stops' = 0
    /\ running' = Idle /\ channel' = <<>>
    /\ held' = None /\ query_count' = 0 /\ limit_triggered' = FALSE
    /\ capture_start' = FALSE
    /\ staging' = <<>> /\ collector' = None /\ pending' = Idle /\ batch' = <<>>
    /\ recovery' = NoRecovery /\ forwarded' = Fresh /\ returned' = {}
    /\ UNCHANGED <<next_query, db, files, next_capture, setup, requests>>

-----------------------------------------------------------------------------
Clients == Connect \/ \E s \in setup.clients : QueryStart(s) \/ QueryEnd(s)

Forward == FwdSessionStart \/ FwdOther \/ FwdCompletion \/ FwdSend

CollectStaged == CollectEvent \/ PeriodicFlush \/ CollectorEnds

Control == RequestStart \/ RequestStop \/ \E op \in {"recover", "discard"} : ListOrphans(op)

Commands == RefuseStart \/ Start \/ Stop

StopSteps ==
    CloseTarget \/ Join \/ ReadFails \/ WriteProfile \/ ClearStaged \/ Stopped

MainLoop == Commands \/ Enable \/ Started \/ StopSteps

Recover == \E c \in 1..next_capture : RecoverOne(c) \/ ClearOne(c)

Next ==
    \/ Control \/ Clients \/ Forward \/ CollectStaged
    \/ MainLoop \/ Shutdown \/ Recover \/ Crash

(***************************************************************************)
(* The tasks of the runtime get on; nobody has to send a query, a request  *)
(* or a signal.  An auto-stop that waits is taken some time: select! picks *)
(* among the ready branches at random, and requests are bounded.           *)
(***************************************************************************)
Fairness ==
    /\ WF_vars(Forward)
    /\ WF_vars(CollectStaged)
    /\ WF_vars(MainLoop)
    /\ WF_vars(Recover)

Spec == Init /\ [][Next]_vars /\ Fairness

-----------------------------------------------------------------------------
Captures == 1..(next_capture - 1)

Rowish == [capture : Captures, session : Sessions, sql : 1..setup.queries,
           is_error : BOOLEAN,
           response_values : {<<>>} \cup {<<q>> : q \in setup.returning}]

\* The fields hold what the code keeps in them: a batch never reaches
\* BatchSize, and rows and files belong to captures that were started.
TypeOK ==
    /\ setup \in Setups
    /\ no_capture \in BOOLEAN /\ capturing \in BOOLEAN /\ exiting \in BOOLEAN
    /\ {active, target, stopping, collector} \subseteq Captures \cup {None}
    /\ main \in {"loop", "enabling", "started", "closing", "joining", "reading",
                 "clearing", "stopped", "exited"}
    /\ Range(commands) \subseteq {"start", "stop"} /\ auto_stops \in {0, 1}
    /\ running \in [Sessions -> 0..setup.queries]
    /\ pending \in [Sessions -> 0..setup.queries]
    /\ query_count \in 0..setup.queries /\ limit_triggered \in BOOLEAN
    /\ capture_start \in BOOLEAN
    /\ Range(batch) \subseteq Rowish /\ Len(batch) < BatchSize
    /\ Range(db) \subseteq Rowish
    /\ \A f \in files : f.capture \in Captures
    /\ recovery.op \in {"none", "recover", "discard"}
    /\ recovery.todo \subseteq Captures
    /\ recovery.written \in recovery.todo \cup {None}

Faithful(profile) ==
    \A s \in Sessions :
        /\ Len(profile[s]) = Queries(s)
        /\ \A i \in DOMAIN profile[s] :
              LET q == profile[s][i] IN
              /\ q.sql = forwarded[s].queries[i].sql
              /\ q.response_values # <<>> => <<s, i, q.response_values>> \in returned

\* The file Stop writes holds the queries an in-memory collector would have
\* made of the events sent to this capture: all of them, each once, in order,
\* none of another capture, whatever was batched, flushed or still queued, and
\* RETURNING rows only where that collector attached them, should it have
\* replaced them since (capture.rs 272-530, mod.rs 635-684).
ProfileIsForwarded ==
    main \in {"clearing", "stopped"} /\ {"write", "insert"} \cap setup.faults = {} =>
        \E f \in files : /\ f.capture = stopping /\ f.by = "stop"
                         /\ Faithful(f.profile)

\* What an operator sees is what the tasks do: between commands there is an
\* active capture exactly when events have a target and a collector runs on it,
\* it is recording unless its auto-stop is on the way, and capturing says so
\* (a failed read at stop leaves the flag up, mod.rs 650-656).
StatusTrue ==
    main = "loop" =>
        /\ target = active /\ collector = active
        /\ active # None => capturing /\ (no_capture => auto_stops > 0)
        /\ active = None => no_capture
        /\ capturing /\ "read" \notin setup.faults => active # None

Holds(f, r) ==
    /\ f.capture = r.capture
    /\ \E i \in DOMAIN f.profile[r.session] : f.profile[r.session][i] = Query(r)

RemovedRightly ==
    \A r \in Range(db) \ Range(db') :
        \/ \E f \in files : Holds(f, r)
        \/ r.capture \in recovery.todo /\ Recovering("discard")
        \/ "write" \in setup.faults

\* "They survive process restarts and can be converted to a .wkl" (staging.rs
\* 3-5): a staged row is only removed when a file holds it, when the operator
\* discards it, or after a failed write (mod.rs 673-676), through crashes,
\* failed reads, failed deletes and recoveries.
StagedSurvive == [][RemovedRightly]_vars

\* A stop that has begun comes to its end: the collector it waits for drains
\* and returns once the forwarder's sender is dropped (mod.rs 638-647).
StopReturns == main = "closing" ~> main \in {"loop", "exited"}

\* "Auto-stop capture after this many queries" (docs/cli-reference.md:219): the
\* first capture of the process does not stay active once it was sent max_queries
\* queries.  It is not so for the captures after it: query_count and
\* limit_triggered are never reset (mod.rs 459-461), so that the queries of an
\* earlier capture count, and nothing stops a capture once the limit was reached.
AtLimit(c) ==
    /\ active = c /\ setup.max_queries > 0
    /\ FoldFunction(LAMBDA st, n : n + Len(st.queries), 0, forwarded) >= setup.max_queries

LimitEnforced == AtLimit(1) ~> active # 1
=============================================================================
