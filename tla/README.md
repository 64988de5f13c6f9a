# pg-retest in TLA+

pg-retest captures the workload of a PostgreSQL application (through a proxy, or
from the logs of PostgreSQL, MySQL, Oracle or SQL Server), replays it against
another server and compares the two. A web server drives the same parts as jobs,
a tuner changes settings of the target between replays. This directory holds TLA+
models of these parts, the TLC configurations that check them, and proofs checked by
TLAPS. File names are those of `src/` in the repository, without the prefix; line
numbers are in `PROJECT.json` ("map").

## 1. The system

| Component | State it keeps | Operations | Interacts with |
|---|---|---|---|
| Session pool (`proxy/pool.rs`) | idle queue, `active_count`, `Notify` | `checkout`, `checkin`, `discard`, `reap_idle` | every connection handler |
| Listener (`proxy/listener.rs`) | counters per address, gauge of connections | accept, refuse, stop | spawns handlers, shutdown token |
| Connection handler (`proxy/connection.rs`) | `CorrelateState`, statement cache, OIDs, buffers | startup, login, two relay tasks | pool, capture channel, client, server |
| Collector (`proxy/capture.rs`) | sessions with a pending statement | one event at a time; `build_profile` | end of the capture channel |
| Capture control (`proxy/mod.rs`, `control.rs`) | `no_capture`, `capturing`, `active_capture_id`, `active_staging_tx`, limits | start, stop, auto-stop, status, shutdown | forwarder task, staging collector, handlers |
| Staging (`proxy/staging.rs`, `capture.rs`) | SQLite table, batch | insert, read, clear, list | capture control, recover, discard |
| Replay (`replay/session.rs`) | `failed_txn_id`, results, semaphore | one task per session | target server, id map |
| Id map (`correlate/map.rs`, `substitute.rs`) | captured id to replayed id | register, substitute | all replay sessions |
| Sequences (`correlate/sequence.rs`, `main.rs`) | snapshot in the profile | snapshot, restore, compile | source, target, replay |
| Task manager (`web/tasks.rs`) | table of handles and tokens | spawn, cancel, cancel all | every web handler that starts something |
| Web proxy (`web/handlers/proxy.rs`, `proxy/mod.rs`) | `ProxyState`, command channel | start, stop, toggle | task manager, managed proxy loop |
| Web jobs (`web/handlers/*.rs`, `web/db.rs`) | rows of runs and workloads, files | start, cancel, import, upload, derive, delete | task manager, replay, tuner, pipeline |
| Tuner (`tuner/`) | recommendations, applied changes, iteration | recommend, apply, replay, roll back | target server, replay, language model |
| Pipeline (`pipeline/`, `provision/`, `config/`) | stage, container, results | capture, provision, restore, replay, compare, tear down | replay, comparison, docker |
| Log capture (`capture/`) | state of a parser between two lines | read, parse, group, mask | profile |
| Scaling, classification, comparison (`replay/scaling.rs`, `classify/`, `compare/`) | none | pure functions | pipeline |
| SQL text (`sql/`, `correlate/substitute.rs`, `capture/masking.rs`) | a tokenizer's last punctuation, eligibility | lex, mask, substitute, splice RETURNING | capture, replay, proxy |
| Transformation (`transform/`) | groups, results so far | analyze, apply a plan | profile, language model |
| Profile (`profile/mod.rs`) | none | `from_sql`, `assign_transaction_ids` | capture and replay |
| Health probe, metrics, sockets, TLS, wire framing, dialects, oracle, UI pages, command line | display only, or none | conversions and I/O | |

How they interact. The listener hands every client to a handler task. A handler
takes a server connection from the pool, copies the login and starts two relay
tasks (client to server, c2s; server to client, s2c) that share
`CorrelateState` under small mutexes. Both send `CaptureEvent`s into an
unbounded channel. In a single run (`run_proxy`) the collector reads that
channel until its last sender is dropped. In a persistent proxy a forwarder
reads it, counts, enforces limits, and passes events to the staging collector of
the active capture, which batches them into SQLite; a stop closes that
collector, waits for it and writes the profile from the table. The web server
runs the same loop as a task and talks to it through a channel of commands. A
replay reads a profile and runs one task per session against the target, with a
semaphore for the number of connections and one id map for all. Pipelines,
tunings and A/B comparisons run replays, by themselves or as web jobs.

What is hard. Wake-ups between a mutex and a `Notify`; a slot counted before the
connection exists; early returns through `?`; two tasks deriving one history
from two directions of a byte stream; a flag (`no_capture`) that flips in the
middle of it; shutdown, which waits for a chain of tasks; events in four queues
when a capture stops; a process that dies between write and delete; transactions
that fail half way through a replay; a web task that is aborted between two writes
of its clean-up; requests that look at shared state and act on it later; SQL that
was executed although its answer was lost, and must be undone; logs whose statements
are spread over lines; indices into a workload that a rule has just changed.
`PROJECT.json` lists each of these under "hazards" with its line.

What makes each part correct.

- Pool: slots are counted exactly and bounded by `--pool-size`; a connection has
  one user; a checkout returns; a waiter does not sleep beside a free slot.
- Relay: the client sees what the server said; the server runs what the client
  sent; the capture is what was run; nobody waits for ever.
- Lifecycle: counters are balanced on every way out; the profile holds
  every event; a shutdown ends.
- Capture control: a profile is what its capture was sent; staged rows are not
  lost; the status is true; a stop returns; limits stop the capture.
- Replay: no statement enters an aborted transaction; transactions are
  whole; the report is true; ids are translated; the limit holds; it ends.
- Web: what is registered was written; dashboard and runs table are true; what is
  listed can be replayed; one tuning at a time; runs end.
- Tuner: nothing changes that was not permitted and recorded; what made it slower is
  taken back. Pipeline: the exit code is what the results say.
- Log capture: every executed statement once, in its session, with its values.
- SQL text: literals are found where the server finds them; ids and nothing else are
  replaced; the spliced clause is at the end.
- Sequences: a replay draws the ids of the capture. Transformation: the result is the
  workload with what the plan says and nothing else.

## 2. Modules

| Module | Models | Properties |
|---|---|---|
| `SlotPool` | the pool as its callers may think of it (abstract specification) | |
| `SessionPool` | `pool.rs` with the handlers that use it | `SlotAccounting`, `Exclusive`, `CheckoutReturns`, `ImplementsSlotPool`; violated: `WaitsOnlyAtCapacity` |
| `SessionPoolProofs` | theorems about `SessionPool` | |
| `Collector` | what the collector does with one event | used by `Relay` and `CaptureControl` |
| `Relay` | both relay tasks of one connection with client and server | `Transparent`, `ExecutedOnce`, `CapturedFaithful`, `Answered`; violated: `StealthHolds` |
| `RelayProofs` | theorems about `Relay` | |
| `ProxyLifecycle` | `run_proxy` from accept to the written profile | `CountersBalanced`, `PerIpLimit`, `ProfileComplete`, `Finalizes` |
| `ProxyLifecycleProofs` | theorems about `ProxyLifecycle` | |
| `CaptureControl` | `run_proxy_persistent`, control endpoint, staging | `ProfileIsForwarded`, `StatusTrue`, `StagedSurvive`, `StopReturns`, `LimitEnforced` |
| `CaptureControlProofs` | theorems about `CaptureControl` | |
| `Replay` | `run_replay`, `replay_session`, transaction ids, id map | `TxnIdsRight`, `NoCascade`, `AllOrNothing`, `ReportTrue`, `OwnIdsMapped`, `ConnectionLimit`, `AllFinish` |
| `ReplayProofs` | theorems about `Replay` | |
| `Tasks` | the task manager, shutdown and crash of the web server | used by the next two |
| `WebProxy` | proxy handlers and `run_proxy_managed_multi` | |
| `WebJobs` | replay, A/B, pipeline, tuning and demo jobs, runs, workloads | |
| `Web` | the web server: both, over one table of tasks | `RegisteredIsWritten`, `DashboardTrue`, `RunsTrue`, `OneTuning`, `ListedIsThere`, `RunsEnd`; violated: `StopSaves` |
| `WebProofs` | theorems about `Web` | |
| `Tuner` | `run_tuning_with_events`, apply, rollback | `Accounted`, `RegressionUndone`; violated: `DryRunHarmless` |
| `TunerProofs` | theorems about `Tuner` | |
| `Scaling` | copies of a scaled replay, classes of sessions | used by the next three |
| `Comparison` | percentiles, thresholds, outcome, variants | used by `Pipeline` |
| `Pipeline` | `run`, `replay`, `ab`, `compare`, `inspect` | `VerdictTrue`, `ScaledRight` |
| `Logs` | `capture` from eight kinds of source | `CaptureRight` |
| `SqlText` | tokenizer, masking, substitution, RETURNING | `LexedRight`, `SubstitutedRight`; violated: `SpliceAtEnd` |
| `Correlation` | sequences from capture to replay, `compile` | `IdsRight` |
| `Transform` | analysis by union-find, plan, engine | `GroupsRight`, `TransformRight` |
| `WorkloadProofs` | theorems about `Correlation`, `Transform` and `Pipeline` | |
| `Batch` | the commands above, one at a time | those of its parts |
| `MC...` | the instances TLC runs | |

Composition: `ProxyLifecycle` uses the pool through `SlotPool`, which
`SessionPool` is shown to implement; `Relay` feeds `Collector`; `CaptureControl`
compares its staged profile with what `Collector` makes of the same events; `Web`
joins `WebProxy` and `WebJobs` over `Tasks`, so that a cancel or a shutdown meets
either; `Pipeline` scales with `Scaling` and judges with `Comparison`; `Batch`
is the dispatch of `main.rs`: commands share no state, so one runs and the
others stay at their beginning.

### SessionPool

State: `idle` and `active_count` are the fields of `PoolInner`, `permit` the one
the `Notify` stores, `pc` where each handler is, `conn` the socket it owns,
`late` the deadlines passed. One action is one critical section of the pool's
mutex or one await point: `TakeIdle`, `OpenNew` and `AtCapacity` are the three
ways through the lock of `checkout`; `Register` is the first poll of
`notified()`, after the lock was released; `ConnectFails` and `LoginError` are
the `?` returns that keep the slot counted (`SlotAccounting` counts it with the lost ones: it
says that the counter is exact, not that no slot is lost); `Discard`, `NotifyOne` and
`CloseSocket` are the three steps of letting go. The socket closes after the
slot was given back (the relay tasks are aborted, not awaited), so the target
may for a moment see more sockets than `--pool-size`; what the code bounds, and
the properties speak of, is slots. A pool of capacity zero only ever answers
with a timeout.

### Relay

One connection: `c2s` and `s2c` are program counters with the message in hand,
and the locks of `CorrelateState` are points where they interleave. A statement
is a model value with a kind (select, write, bare insert, RETURNING, currval, COPY), or a
text with no statement (`"empty"`) or with two (`"several"`). A Parse defines a name, may
define it again with another text, and may declare types (`Declared`). There is no Flush. The
client is either synchronous or keeps a window of requests outstanding; the
server answers each request the way PostgreSQL does, with errors where the setup
allows them. `Toggle` flips `no_capture` at any time. The write buffer towards
the client is flushed on `ReadyForQuery`, or when it is full (`BufferFull`).

`served` lists what became of each statement, also of those the server discards
because an earlier message of the same request failed: `ExecutedOnce` says that this list
is a beginning of the statements sent, and all of them once nothing is on its way. (The
server's side of it is not the proxy's choice; that nothing is doubled, dropped or
overtaken between client and server is.) `CapturedFaithful` has two parts: for clients
that wait for their answers and describe one statement per request (`Waits`), OIDs are
filed under the right statement; for those of them that send simple queries without COPY
and one statement in each (`Plain`), the captured session is what was executed.

Five behaviours are the code's and not claimed otherwise: an empty query pushes a flag
that no CommandComplete pops, and a query of several statements pops one flag for each of
them (connection.rs 711, 920), so that RETURNING rows are looked for in the wrong query
for the rest of the session; OIDs are filed under a name, and stay those of an earlier text
when a new one is parsed under it without declaring types (751-754); for a pipelined
client the flag queue is fed per Parse but drained per completion, so RETURNING
rows may be attached to another query (`CapturedFaithful` is about clients that
wait); `pending_describe` holds one name, so pipelined Describes mix up OIDs
(likewise); when the completion of an injected INSERT overtakes
`suppress_response`, the flag hides the rows of the next statement
(`Transparent` leaves rows out of account while hiding is on, so it does not catch this). A FATAL error
without a `ReadyForQuery` after it is lost when the buffer is dropped; the model's
server does not send one. `Answered` asks
for an answer to every request but COPY: the reply to COPY FROM STDIN stays in the
buffer (section 6).

### ProxyLifecycle

`Accept` and `Reject` are one turn of `run_listener`, whose counters are raised
before they are compared; `phase` is where a handler is; `relays` are relay
tasks that were aborted but not dropped yet, and still hold a sender. The
collector ends when no sender is left (`Senders`). `Drained` may happen at once:
`drain_connections` has a timeout and lost slots never come back. The pool is
`SlotPool`, by `INSTANCE`. Events are counted per session; the order in which
the channel interleaves sessions is left out, since the collector files them by
session. The token ends sessions at once, so
`shutdown_timeout` gives a running session no grace. An error of `accept` stops
the listener while the proxy goes on (`ListenerStops` without the token). `Mute` is
the set of clients that connect and say nothing: with one of them a shutdown
never ends (section 6), so the run has none; the proofs allow any.

### CaptureControl

An event travels `channel`, `held` (between the forwarder's counters and its
lock), `staging`, `batch`, `db`. A start has three steps (target and collector;
flag; control state, whose lock is awaited), a stop five (take the capture and
raise the flag, close the target, wait for the collector, read and write, clear)
and a sixth for the control state. `forwarded` is history: what an in-memory
collector would have made of the events this capture was sent; `returned` too: to
which query that collector attached which RETURNING rows. `LimitEnforced` is about the first
capture of a process: the counters are not reset for the next, which begins with what the
last one counted and is not stopped once the limit was reached (mod.rs 459-461, 484). A crash resets
all but the table and the files. `recover` and `discard` run beside all this.

Left out: status counters nothing depends on, timestamps, masking, and the size
limit (which is a third way to the same branch). `run_proxy_managed_multi` is the
same loop under the web server: `WebProxy` models its commands and leaves what
happens between channel and table to this module.

Behaviours the properties leave room for, each a hazard with its line: RETURNING
values that arrive after the batch was inserted are dropped (always so for the
row that fills a batch), a failed insert loses its batch, a failed read at stop
leaves `capturing` up for the life of the process, `recover` during a capture
deletes rows it has not read. `setup.anytime` is the switch for the last: the
runs leave it off, assuming an operator who recovers while nothing is captured. Two recoveries
at once (control.rs 189-199) are not modelled.

### Replay

`pc`, `pos`, `failed` are the local state of `replay_session`; `Execute`
substitutes, sends and lets the server run the statement, `ReceiveOk`,
`ReceiveError`, `ReceiveErrorInTxn` and `RolledBack` are what follows the await.
The server (`Succeed`, `Fail`, `Answers`) is PostgreSQL's transaction block:
open, aborted, savepoints, writes pending and committed. `transaction_id` is
what the loop of `assign_transaction_ids` leaves in a query: `OpenBegin` is the
BEGIN its `current_txn` stems from, `txn_id` the number the counter had there.
`Block` is the reference it is compared with: which BEGIN the server would say a
statement belongs to, found by running the script.

`from_sql` goes by the first word, and a few statements are `Misread`: BEGIN behind a
comment is Other (and so is PREPARE TRANSACTION), ROLLBACK WORK or TRANSACTION TO SAVEPOINT
is a rollback, COMMIT AND CHAIN a plain commit; ROLLBACK AND CHAIN is
alike and left out. The others are in the scripts TLC runs; what is claimed of transactions is
claimed of `Regular` workloads, where they do not occur (`Legible`) and no session sends BEGIN
inside a transaction (`Flat`). A query is one statement; the protocol's simple queries may
hold several, which `from_sql` classifies by the first. `--max-connections 0` gives no permits
and hangs; the instances have 1, 2 or none. The connection task of `tokio_postgres`
(session.rs 26-38) may live a little longer than the permit, so `ConnectionLimit` is about
sessions that hold a permit, not sockets.

BEGIN counts as transaction control, so when BEGIN itself fails nothing is rolled
back or skipped and what follows runs in autocommit, statement by statement.
`setup.begin_fails` switches that on; `AllOrNothing` is then only checked for a
single write, and the theorem on cascades excludes it.

### Tasks, WebProxy, WebJobs, Web

`handles`, `cancelled` and `aborted` are the table, the tokens and the abort flags of
`TaskManager`; `cancel` does the last two in one step, which is the hazard. A task
that is aborted ends at its next await; what it was about to write it does not write.
`WebProxy` splits `start_proxy` where it awaits (check, channel, spawn, insert) and
`toggle_capture` where it waits for the loop's answer with a time-out; the fallbacks
that follow a time-out change `ProxyState` while the command is still queued. The
task's end and the flush of the loop are steps of their own. `WebJobs` has a start
handler, a task, session tasks and a row for each job; importing, uploading,
deriving and deleting workloads are file and row, one after the other, each of which
may fail. So may the write of a row at the end of a job, whose error the handlers drop
(`let _ =`, replay.rs 129, ab.rs 114, pipeline.rs 109, 151): the job is then `"lost"` (`LoseRow`)
and its row says "running" for good. `RunsTrue` and `RunsEnd` name this case. `web` and `covers` say what an instance contains and never change.

`DashboardTrue` speaks of an operator who asks one thing at a time and of answers
that come in time; the runs with requests at once check `RegisteredIsWritten` only.
Not claimed, because the code does not keep it (section 6): that a stopped proxy
saves, that two starts exclude each other, that late toggles agree.

### Tuner

`settings` is what `ALTER SYSTEM` wrote, `live` what the server runs with since its
last reload; parameters in `RestartParams` differ until a restart. Every SQL
statement is one action with the outcome `ok`, `refused` or `lost` (executed, answer
lost), bounded by `request.faults`. `Safe` is `validate_recommendations` with the
allowlist, `Applied` the record of a change, `to_undo` and `Restore` are
`rollback_all` in reverse. `Abandon` is `?`. The advisor is any choice of `Replies`.
What a list says was the current value need not be true. The text of an index
recommendation may leave out the name, say IF NOT EXISTS, and create further indexes
(`also`); a schema change is a list of statements (`parts`), of which the check sees the
beginning and the server executes all. `Accounted` and `RegressionUndone` say where they make
room for these (`Unlisted`, `SetBySchema`, `IndexExcused`).

### Scaling, Comparison, Pipeline

A profile is a sequence of sessions with queries; durations are numbers, so
percentiles, averages, rates and limits are computed as the code rounds them
(`Round`; floating point is not modelled, the values are whole). The stages of
`run_pipeline_inner` are actions, each with its error; an error is the set of words
`classify_error` looks for, since the exit code depends on nothing else.
`VerdictTrue` recomputes the verdict from the results without the code's helpers: a limit
on the 95th percentile of `n` latencies, which the code takes at index
`(95 * (n - 1) + 50) / 100` of the sorted list, holds when `20 * slower < n + 9`, where `slower`
counts the queries above the limit: a twentieth of them, and the rounding. It is about runs
whose replay succeeded (`ReplaySucceeded`): docs/pipeline.md 210, 503 and 508 give exit code
5 when connections are refused or the replay fails, but `run_replay` drops the errors of its
sessions, so the code exits with 0, or with 1 for a limit of the others.

### Logs

A log is a sequence of lines `[type, fields]`. Each source has its parser as a fold
over lines with the state it keeps (`pending`, user, time, parameters). The log of an
instance is written from a list of executed statements by `Captures`, so
`CaptureRight` can compare the profile with what was executed. Times of 0 are times
that could not be read; some parsers put the clock there.

### SqlText

A text is a sequence of characters, one for each class the tokenizer tells apart, and
a keyword is one letter: this keeps all of `advance`'s control over quotes, comments,
signs and dollars. `Regions` is the reference, how a server reads the same text
character by character, comments inside comments included. `LexedRight` is about texts in
which dollars are plain (`PlainDollars`) and no comment holds another (`FlatComments`): the
tokenizer ends the outer one at the first `*/` (lex.rs 74-86), the server does not.
`SubstitutedRight` says of a number with a sign only that it stays a number (`StandsAlone`):
docs/id-correlation.md 229 has its minus emitted and its digits looked up, lex.rs 197-211
makes one token of both. pg_query is taken to
split at semicolons and to know a statement by its first word.

### Correlation

A sequence is `[last, called]` as PostgreSQL keeps it. The proxy may or may not have a
snapshot; the workload draws ids while it is captured; `compile` strips and marks the
profile; a replay restores each sequence of the snapshot (done, missing or failed),
checks the capture method and draws again. Response values are kept in the modes that
correlate or with `--id-capture-implicit`, of INSERTs that return something. A sequence may
stand anywhere when the capture begins; one that is not called but was moved (RESTART WITH,
`setval(.., false)`) shows no last value and is restored to its start (sequence.rs 38-44),
although docs/id-correlation.md 53 has every sequence reset to its captured state. The
history variable `moved` names these, and `IdsRight` says nothing of their draws. `pg_sequences` also
hides the last value from a user without privileges on the sequence, which is left out.
`IdsRight` supposes that the inserts of one
sequence are replayed in their order, the draws being those of one session or of
sessions that do not race.

### Transform

A statement is the set of its tables, its place says which it is; an injected one has tables too,
and they count for the group its session is scaled with. `analyze` is
union-find by rank, in the order statements come; `find` follows parents to the root and
leaves out path compression, which changes no root.
`apply_transform` is rule by rule over queries, copies and sessions. The seeded
generator and the order of `HashMap`s are free choices; of several rules that scale a
group the last counts, as in the code's `HashMap`. Factors are whole numbers, and a
session is copied by their mean over its statements, rounded (`copies`).
`TransformRight` says where every statement, injected or not, comes from, that a copy
repeats a whole session, how many there are and that no two are later by the same. Two
promises of docs/transform.md are not the code's, and neither property makes them: that
tables in separate queries are not grouped unless a third query references both (47; the code joins
chains, `GroupsRight`), and that an injected query comes once in a fraction of the sessions
(170; the code draws for every statement of the group).

## 3. Runs

Every run takes at most a few minutes with two workers. One run covers several
configurations of a component: a variable (`setup`, `web`, `covers`, `command`,
`request`, `config`, `capture`) is chosen initially and never changes.

| Run | Instance | What it shows |
|---|---|---|
| `pool` | 3 handlers, 2 slots, lifetimes, idle expiry, checkin | the pool's safety, refinement of `SlotPool`, every checkout returns |
| `pool_wakeup` | 4 handlers, 2 slots | violation: a lost wake-up |
| `relay` | six scripts of clients | transparency, exactly-once, capture, answers |
| `relay_stealth` | one injected INSERT | violation: its row can reach the client |
| `lifecycle` | 3 clients, 2 addresses, limit 1, 1 slot, 2 events each | counters, limit, completeness, shutdown ends |
| `control` | 5 setups, 2 sessions, 2-3 queries, batches of 2, up to 3 requests and a crash | profiles, staging, status, stop, limit |
| `replay` | several hundred setups: all scripts of up to 4 statements, savepoints, read-only, 3 sessions, broken connections | transactions, report, ids, limit, end |
| `web` | 2 starts, 3 toggles, a stop; two jobs of every kind; imports, uploads, derivations, deletion; a tuning beside a proxy | dashboard, registration, runs, workloads |
| `web_stop` | one proxy that captures and is stopped | violation: the capture is not saved |
| `tuner_dry_run` | a tuning without `--apply` | violation: the baseline replays write |
| `sql_splice` | INSERTs ending in comments, semicolons, literals of several lines | violation: RETURNING lands inside a literal |
| `batch` | 4 requests and 7 replies of a tuning; 14 configurations of pipelines; logs of eight sources; texts with id maps; sequences; workloads and plans | each command by itself |

The violation runs each state a promise of a document or comment and are
described under "findings".

Bounds.

- Pool: a lost wake-up needs two notifications and two waiters behind two
  holders, so four handlers; accounting and exclusiveness involve a handler, its
  rival and the reaper, so three handlers with two slots. The proofs have no
  bound.
- Relay: scripts are short because state is per connection and returns to rest
  after each statement, save the queue, cache and flags, which the scripts load
  with leftovers (errors, Parse without execution, toggles) before using them.
- Lifecycle: two clients share an address limited to one, the third waits for the
  only slot. Events are counted, two each, so a channel is empty, partly and
  wholly read.
- Control: a batch of two makes rows cross the insert between two events of one
  query; three requests give two captures; one crash leaves an orphan beside a
  new capture.
- Replay: four statements give a transaction with one before or after it, and
  two that succeed around one that fails; three sessions over one or two permits
  queue and register concurrently.
- Web: two starts and a third toggle are what it takes for a request to find the
  state of another half written; two sessions make a job end with one of them still
  running; a workload that is there, one being made and one more.
- Tuner: three values tell the old setting, the one in between and the new one apart;
  two faults are one while applying and one while rolling back; two iterations show
  a second context that holds the first one's changes. The proofs have no bound.
- Pipeline: sessions of every class, one without queries, ids that are and are not
  1..n; each limit set and exceeded; variants that win and tie.
- Logs: per source the shortest logs in which the parser's state is carried over,
  overwritten and left over, two sessions interleaved, and a download of two pages.
- Text: every kind of token next to and inside every other, unterminated, doubled; an id map
  whose value is a number, and one whose value is not.
- Sequences: used, unused, and moved before the capture, a target that is ahead and one
  that lacks a sequence, two draws (`MaxDraws`). The proof has no bound.
- Transform: two sessions of three statements and one of four, tables in four sets,
  every kind of rule and pairs of rules that touch one statement.

Fairness. All fairness is weak and on what the runtime or a timer does: tasks that are
ready are polled, timeouts fire, the target answers. No client is assumed to
send, to finish or to hang up, no operator to issue a request. In
`ProxyLifecycle` a client that is not in `Mute` gets through its startup; in
`Relay`, where the question is who waits for whom, client and server go on
when they can. `CheckoutReturns` rests on `pool_timeout` alone: sessions
that hold connections need never end. `select!` picks at random among ready
branches; a waiting auto-stop is taken because requests are finite. In `Web` the
handlers that were called, tasks that are not aborted and session tasks go on;
`RunsEnd` is about runs nobody cancels. `Batch` has no liveness: its commands have no
loop but those over finite data.

## 4. Proofs

`SessionPoolProofs` holds for every finite set of sessions, every pool size in
`Nat` and every combination of options:

- `TypeCorrect`: `Spec => []TypeOK`.
- `SlotsCorrect`: `Spec => [](SlotAccounting /\ Bounded)`.
- `ExclusiveCorrect`: `Spec => []Exclusive`.
- `SlotPoolCorrect`: `Spec => ImplementsSlotPool`.

Assumptions: `SessionsAssumption` (finitely many sessions arrive),
`MaxSizeAssumption`, `FlagsAssumption`.

Argument. `TypeOK` is not inductive: that a handler about to return a connection
has one depends on what it owns in each phase. `TypeInv` adds `Owns`. On top of
it, `SlotInv` is `SlotAccounting` with `Bounded`: the bound needs the accounting,
because the code compares counters and the property counts handlers, and the
accounting needs the types. `Moves` says how the sets of users and leaks change
when a handler changes phase, `FewerIdle` that expiry only shrinks the queue;
with the library's facts on cardinalities each action is then a step of its
own. `Exclusive` is preserved on top of `TypeInv`, since a new connection has an
id nobody has. For the refinement `held`, `lost` and `spare` are the handlers in
use, those that left through `?`, and the size of the idle queue; each action maps to
`Acquire`, `Release`, `Lose`, `Trim` or a stutter (`SlotPoolStep`).

`ProxyLifecycleProofs` holds for every finite set of client connections, every
assignment of addresses and every value of the limits, mute clients included:

- `TypeCorrect`: `Spec => []TypeOK`.
- `CountersCorrect`: `Spec => []CountersBalanced`.
- `PerIpLimitCorrect`: `Spec => []PerIpLimit`.
- `ProfileCorrect`: `Spec => []ProfileComplete`.

Assumption: `LifecycleAssumption`. Argument. `TypeInv` adds to `TypeOK` what is
not worth a check of its own: where listener and collector are, and that the
counters are integers. The counters are proved by what a step
does to the set of live handlers: one begins (`Begins`), one ends (`Ends`), or it
stays (`Stays`); each lemma says what the cardinalities become, and each action
is an instance of one of them. The limit needs the balance, because `Accept`
compares a counter and the property counts connections. For the profile,
`NoSenders` says that a proxy without senders never gets one again, which is why
the collector may end on `recv` returning `None`; `SealInv` then carries "no
sender, channel empty" from there to the write.

`ReplayProofs` holds for every workload (any number of sessions of any length,
any statements, ids and options):

- `TypeCorrect`: `Spec => []TypeOK`.
- `LimitCorrect`: `Spec => []ConnectionLimit`.
- `CascadeCorrect`: `Spec => [](~setup.begin_fails => NoCascade)`.
- `OwnIdsCorrect`: `(\A u \in Setups : Distinct(u)) => (Spec => []OwnIdsMapped)`.
- `TxnIdsCorrect`: `Spec => []TxnIdsRight`.
- `AllOrNothingCorrect`: `Spec => [](~setup.begin_fails /\ ~setup.read_only => AllOrNothing)`.
- `ReportCorrect`: the same with `ReportTrue`; `CompleteCorrect`, without any
  hypothesis: `Spec => [](\A s \in Sessions : pc[s] = "done" => Complete(s))`, the part of
  `ReportTrue` that does not depend on the server.

Assumption: `ReplayAssumption`, the types of a setup. Two conditions are about the
workload, the first a hypothesis, the second a part of the properties.
`Distinct`: no two queries were captured with the same id, as it is when they come from
one sequence; without it the shared map is overwritten and `OwnIdsMapped` is false.
`Regular`: no session sends BEGIN inside a transaction, and no statement is misread.
PostgreSQL answers such a BEGIN with a warning and goes on in the same transaction, while
`assign_transaction_ids` opens a new id, so without it `TxnIdsRight` is false; each misread
statement makes it false too. In `AllOrNothingCorrect` and `ReportCorrect`,
read-only replays are left out because they drop BEGIN and COMMIT and run what is left
on its own.
Argument. `LimitInv` says
that free permits and connected sessions add up to the limit; `Acquire` moves
one across, a failing `Connect` and `Finish` move it back. For the cascades, `CascadeInv` relates three
views of one transaction: the server's (`conn`), the engine's at this query
(`OpenBegin`) and `failed_txn_id`. Whenever the server has a transaction open
the script has an open BEGIN behind it (`OpenBeginStep` carries it over
one query), so a statement that fails in it has a
`transaction_id` (`MustRollback`) and the engine rolls back before it goes on.
The converse does not hold and is not needed: a script may have a BEGIN open
which the server has already ended. For the ids, `IdInv` ties the shared map to the
history `given`: an entry of the map was registered by the one query that returned the
id (`MapInv`), so no other session can change it between a RETURNING and its use; what
a session was given is either in the map or in the answer it is about to process
(`GivenInv`); and `used` is what the map held when the statement was sent (`UsedInv`).

The properties that compare a replay with the captured run speak of `Captured` and
`Block`, recursive functions over the script. The first part of their proof is that
they meet their definitions (`CapturedIs`, `BlockIs`): `Iterates` is such a function on an
initial segment, which exists for each length (`IteratesExist`, by a least
counterexample). What then holds along a script is carried from query to query by
`Climb`. `Steady` says that the captured run has a transaction open exactly where
`OpenBegin` finds a BEGIN, and that nothing of it is committed. From this follow
that the block of a query is that BEGIN (`BlockBegins`, `TransactionIdIs`) and, because
different BEGINs have different numbers (`TxnIdOne`), `TxnIdsRight`. For
`AllOrNothing`, `Closed` says that a commit in the captured run settles its block: what it
commits stays, and what it does not is never committed. `AtomicInv` relates the connection
of the replay to the captured state at the same query: as long as no statement of the
transaction has failed the two are alike (`Kept`, `Like`); once one has, the server holds
nothing of it and the engine skips to its end (`SkipsAll`), or the connection is lost.
`AnswerStep` says how each answer of the server leads from one of these to another.

For the report, `ReportsInv` says that the results name the queries passed that are not
left out, in order. `TruthInv` (`Told`) compares what is committed with what is reported, at each
query: outside of transactions a write is in one exactly when it is in the other
(`AloneTold`); of a transaction whose COMMIT has been passed, what it had done is committed
exactly when the COMMIT is reported as successful, and then all of it is (`CommitTold`); of
one that is open, all is reported so far (`OpenTold`). A statement that fails or is skipped
keeps this because nothing of its transaction is committed (`Kept`, `ToldFails`); one that
succeeds because the connection is `Like` the captured one (`ToldSucceeds`). At the end,
`Origin` says that each write the captured run committed came from one of these two
cases, and `OtherBlock` that a transaction has one commit (`Truthful`).

`TunerProofs` holds for every allowlist, every set of parameters, values and indexes, every
reply of the advisor and every request (any number of iterations and faults):

- `TypeCorrect`: `TunerSpec => []TunerTypeOK`.
- `AccountedCorrect`: `TunerSpec => []Accounted`.
- `RegressionCorrect`: `TunerSpec => []RegressionUndone`.

Assumption: `TunerAssumption`. Argument. `TypeInv` adds to the types that `todo` is only
filled while a list is applied. `AccountInv` has five parts, because what makes a change
legitimate is decided long before it happens: `Permitted` (production check and `apply`
were passed), `Listed` (what is left to apply is on the allowlist), `Recorded` (what
was applied is, and is named in the report), `ReloadOfConfig` (the reload belongs to
the first change left) and `Explained`, which is `Accounted` with the one change whose
`ALTER SYSTEM` is done and whose record comes with the reload (`Pending`). `NamedApplied`
says what recording does, `Untouched` and `Silent` cover the steps that write nothing.

`RegressInv` is the invariant behind `RegressionUndone`. Nothing in that property
speaks of the time before the rollback, all that decides it happened then. So the
invariant follows an iteration: it begins as the last one left the settings (`FreshInv`);
while the list is applied every recommendation that is done has left a change, and a
parameter without a change is as it was (`ApplyInv`); the first change of each parameter
carries the value the advisor was shown, and what succeeded can be taken back
(`ListInv`). During the rollback the changes come off from the last to the first
(`LastFirst`), and a parameter whose changes are all off is where the first of them says
(`Restored`), which uses the order: with a parameter named twice any other one
restores the value in between. `SlowInv` says that only an iteration that has got slower
rolls back.

`WorkloadProofs` has three parts. The first holds for every finite set of sequences, any start
values, any state before the capture, any target and any number of draws:

- `TypeCorrect`: `CorrelationSpec => []CorrelationTypeOK`.
- `IdsCorrect`: `CorrelationSpec => []IdsRight`.

Assumption: `CorrelationAssumption`. Argument. Capture and replay are two runs over different databases; what they have in common is
`Given(q, n)`, the value the snapshot says `q` gives after the first `n` draws of all
sequences. `CaptureInv` says that what was drawn, and what the source gives next, is
`Given` (except for a sequence in `moved`, of which the snapshot keeps no value; any other that is
not called is at its start). `RestoreInv` counts: each
sequence still to do or not put back leaves `reset` below the number of sequences, so if
it ends there, every one of them was restored, and the target gives `Given` as well.
`DrawsNext` is one draw more on either side.

The second part holds for any finite set of tables, any workload over them and any plan:

- `GroupsCorrect`: `TransformSpec => []GroupsRight`.
- `TransformCorrect`: `TransformSpec => []TransformRight`.

Assumption: `TransformAssumption`: sessions of a workload have ids of their own, a plan
names groups by their number. Argument, first for the groups. The state is what
`analyze_workload` makes of the statements (`GroupInv`), so the work is about its operators.

- `find` ends: `Forest` says that a parent has a higher rank than its child and that no
  rank is higher than the number of tables less the number of roots. A table is then fewer
  steps from its root than there are tables, which is as many as `find` takes (`FindRoot`). The second half is
  what `union` keeps: the rank grows by one only when a root is lost (`LinkForest`).
- `union` joins two classes and nothing else: a link of the roots `s` to `r` sends the
  tables under `s` to `r` and leaves every other (`LinkFind`). `Joins` states this without counting
  classes: what was the same stays the same, the two tables are the same, and every
  equivalence that has what was the same and this pair has all that is the same now.
  It composes along the tables of a statement (`UnionAllJoins`) and the statements
  (`StatementsJoin`). With tables linked in place of their roots it is false.
- `Linked` is the least such equivalence: what is reached from a table after as many steps
  as there are tables is closed, since each step before adds one (`LinkedComponent`). Hence
  both relations are the same (`GroupsFollow`).

Then for the engine. `TransformRight` is about its end; `EngineInv` says what holds on the
way, in parts that the steps disturb one at a time.

- Places: the sessions' statements follow each other without a gap (`PlacesAre`), so a place
  is in one session only (`PlaceOnce`), and the one the engine is at is in the session it
  extends (`PlaceFound`).
- `KeptInv`: every captured session holds, in order, its statements among those seen that no
  rule removes, and injected ones only behind one whose group a rule names
  (`Holds`, kept by `HoldsMore`). The engine's own count is what names a statement's group:
  `QueriesInv` says it is the number of statements seen. When removed ones are not counted, it is not.
- `CopiesInv`: copy `c` is some session delayed by its number times `stagger_us`, and session
  `k` has as many copies as the engine has counted (`CopiesSoFar`). A copy's first statement is
  a captured one (`FirstOwn`) and in one session only, so a copy repeats one session
  (`RepeatsOne`) and counts for no other.
- `AddedInv`: ids go on from the largest of the workload (`Fresh`) without a gap.
- The rounded mean of equal factors is the factor (`SumSame`, `MeanIs`), so a session of one group
  has the factor less one copies (`CopiesAre`). `Largest` is a choice; it is one of the
  numbers only because there are finitely many (`LargestOf`).

The third part holds for any configurations, any workload and any outcome of each statement:

- `VerdictCorrect`: `PipelineSpec => []VerdictTrue`.
- `ScaledCorrect`: `PipelineSpec => []ScaledRight`.

Assumption: `PipelineAssumption`, the types of a configuration and of a workload. Argument. `VerdictInv`
says where the verdict comes from. Every result is what one way of replaying the workload
returns (`Happened`), under the mode it was replayed in; the report is the comparison of
that result, the checks are of that report (`ReportRight`), and exit code 0 is given exactly when
all of them passed. `StageInv` says which command reaches which stage, since an error
may end the pipeline at each of them and then nothing is to be shown.
What is left is that the code's arithmetic means what the property counts:

- `Sort` gives a member the place that as many members are not behind it; for a
  linear order these places are `1..n`, each once (`Ranked`, `SortedIs`). So the
  member at place `r` is within a limit exactly when at most `n - r` are above
  (`SortedWithin`), and the percentiles are what the limits mean (`PercentilesWithin`). The
  property's first form had 10 and 50 in place of 9 and 49, and the proof failed: it was false for
  11 and for 51 queries, more than the instance replays.
- `Worse` compares two changes by cross-multiplication. It orders them since the old time is positive
  (`WorseSorted`), so a report has each regression once and the first is the worst.
- Checks are joined from four limits that may be missing; all passed when each that is
  there did (`ChecksAre`).
- Without a refused session position `k` of each variant is the same query
  (`JoinedAlike`), which is what `compute_ab_comparison` pairs by.

`ScaledRight` tells the copies of a session by their statements, so it speaks of workloads whose
sessions differ in them and in their ids (`Distinct`; the property's first form did not say so and was
true of the instance only). `ScaledInv` adds to `VerdictInv` that what a run without
variants replays is what scaling returns; the rest is about `scale_sessions` and
`scale_sessions_by_class`:

- `Files` gives every copy, a pair of its number and its session, a place of its own in a
  sequence. It is kept by joining, choosing and sorting (`FiledJoin`, `FiledFlatten`,
  `ChosenFiled`, `FiledSorted`), so it holds of the originals, of the rounds of further
  copies and of both sorted by their first queries (`FirstsFiled`, `TwinsFiled`, `OffsetOrder`).
- Whatever order the HashMap of classes is walked in, it has each class once (`OrderIs`), and a class
  gets one round less than its scale (`RoundsAre`). Counting pairs gives as many copies as are
  asked for (`Replicates`, `LikeCount`); copies differ by their round and so begin at different
  times. New ids lie above the largest captured one (`LargestId`).
- Scaled uniformly, the place of a copy is a number written to the base of the number of
  sessions (`PlaceParts`, `PlaceOne`), and so is its id: it has only one such form when the
  captured ids are 1 to n, the condition `Numbered` of the property.

`WebProofs` holds for any sets of proxies, toggles, jobs, workloads, requests and uploads, and
any configuration of them:

- `TypeCorrect`: `Spec => []TypeInv`.
- `RunsCorrect`: `Spec => []RunsTrue`.
- `ListedCorrect`: `Spec => []ListedIsThere`.
- `TuningCorrect`: `Spec => []OneTuning`.
- `RegisteredCorrect`: `Spec => []RegisteredIsWritten`.
- `DashboardCorrect`: `Spec => []DashboardTrue`.

Assumption: `WebAssumption` (names are no numbers, options are Boolean, there is a session).
The promises about an operator who asks one thing at a time are conditions inside
`OneTuning` and `DashboardTrue`, as they are for TLC. Argument.

- Runs: `JobShape` says what a row looks like before its job has ended, and that a job
  whose row says "running" is alive unless it was told to stop. An abort is what makes
  this hard: `AbortedGrows` says that who is told to stop stays told, so the clause that
  excuses a row cannot be lost.
- Tunings: `TuningsApart` adds that at most one request is between its check and its
  insertion, and that until it is answered no other tuning is alive.
- Registration: a capture goes from `target` through `closing` to a file, an answer and a
  row. `Owners` says that each capture is in one of these places for one proxy,
  `Registrable` what the answer to a stop is worth (the file is written, and no second
  answer names the capture), `Registered` is the property with the answers added.
- Dashboard: `Recording` has a part for each place the loop can be (`RecordingBefore`,
  `Binding`, `Loop`, `Writing`): what its command queue holds and how what is shown relates to what
  is. Between a command and its answer the two differ, in the way `Agreed` says.
  `OneAtATime` and `Shown` say who can be under way. Time-outs break `Recording`, which
  is why the property leaves them out.

`CaptureControlProofs` holds for any sessions, batch size, limits, failures and crashes:

- `StatusCorrect`: `Spec => []StatusTrue`.
- `SurviveCorrect`: `(\A s \in Setups : ~s.anytime) => (Spec => StagedSurvive)`, where
  `StagedSurvive` is an action property.
- `ProfileCorrect`: `(\A s \in Setups : ~s.anytime) => (Spec => []ProfileIsForwarded)`.

Assumption: `ControlAssumption`. The hypothesis of the last two is the operator who recovers
and discards while nothing is captured; with `anytime` the code deletes rows it has not
read (section 2). Argument. `StatusTrue` speaks of the points between two commands;
`Starting` and `Stopping` say what holds inside them, above all that an active capture keeps its
collector until the target is closed. `SurviveInv` needs the data: what is collected for a
capture carries its number (`Of`, `Numbered`), a capture that is cleared or recovered
gets no more rows (`Orphans`), and a file made of the rows of a capture holds each of
them (`FileHolds`). The last is about `Profile`, a fold over the table, and uses the two
lemmas on selections (`SelectedRows`).

`ProfileCorrect` compares two folds over the same events that reach their collectors at
different times: `forwarded` when the event is sent, the rows when it is taken off the
channel. `Reached` closes the gap. The states an in-memory collector would go through
on the events still in the channel form a run that begins in a state the rows agree with
(`Agrees`: as many rows as queries, the same texts, RETURNING rows from `returned`) and
ends in `forwarded`. `CollectEvent` drops the first state of the run (`CollectReaches`), `FwdSend`
appends one (`RunsOn`), so when the channel has drained the run has one state and the rows agree
with `forwarded`. `Underway` says this from the start of a capture to its sealing, `Drained` from
there until the table has been read, `Sealing` where the loop is in between. Which rows a
`SELECT` for one session gives is told by the one increasing enumeration of their places
(`Enumerates`, `EnumerationUnique`): from it follow what appending a row, attaching values to
one and joining batch and table do to the selection (`SelectedAppend`, `SelectedAlike`,
`SelectedConcat`).

`RelayProofs` holds for every set of statements of any kinds, every client (any script of
requests, any window), every choice of options, any number of toggles and errors, and any
`MaxRows` above zero:

- `TypeCorrect`: `Spec => []TypeOK`.
- `ExecutedCorrect`: `Spec => []ExecutedOnce`.
- `TransparentCorrect`: `Spec => []Transparent`.
- `CapturedCorrect`: `Spec => []CapturedFaithful`.

Assumptions: `KindAssumption`, `RelayAssumption`, and `ScriptAssumption`, which says what a
client may send: simple queries, or messages of the extended protocol up to a Sync
(no COPY among these). Argument.

- `Shape` is the type of every variable, tasks and wires included.
- `ExecutedInv`: what was served, what is on the wire to the server, what c2s holds
  (`HeldC`) and what is on the wire to the proxy name, in this order, the statements
  sent. `HeldC` is where the rewriting hides: between `rewrite` and `read` the message
  is on the wire and no longer held.
- `TransparentInv` is the same in the other direction, in five parts, for the messages
  that are not hidden. It needs `HidingInv`: rows are only dropped while
  `suppress_response` is up, and that only goes up where INSERTs are rewritten.
- The one part of `TypeOK` that is more than a type is `outstanding \in 0 .. setup.window`:
  the client never gets an answer to what it did not ask. `CountInv` says that
  `outstanding` is the number of requests on their way to the server plus the number of
  ends of answers on their way back. This takes `UpInv`: a message of the extended
  protocol is followed by the rest of its request up to the Sync (`Runs`), also while
  the server discards. `UpFlow` and `DownFlow` say where messages go in a step,
  `CountStep` balances them. `Balance` names all of this together.
- `CapturedFaithful` needs what the balance does not say: what is between the server and
  the place where s2c looks at a message (`Coming`), as opposed to the client's buffers
  behind it. `LastInv`: once the server has nothing left to read, `Coming` is empty or
  ends with the end of an answer; with a window of one that makes a request wait until
  all of the answer before it has been looked at (`Quiet`). `DescribeInv` counts the
  Describes on their way up and the descriptions on their way down, at most one
  together, and says that each of them carries the name in `pending_describe`.
- For simple queries `PlainInv` follows each request through four stages: `Resting`
  (all is captured), `Asking` (the query is on its way; c2s has looked at it, and pushed
  its flag and QueryStart, or not), `Answering` (the server has executed it, the flag and the
  pending statement are its own, and these messages of the answer are left) and `Popping`
  (CommandComplete has been sent to the collector and the rows not yet, so for a moment the
  last entry lacks them). In each stage the entries before the last are `Right`, and a
  state where nothing moves can only be in a stage where every answer is filed. One lemma
  per stage says where its steps lead (`RestingStep`, `AskingStep`, `AnsweringStep`,
  `PoppingStep`).

These properties speak of the messages of one kind in a sequence (`Only`), of the
statements they name, and of joined sequences. They were stated with `FlattenSeq` in
place of `SelectSeq`, which the provers cannot expand. What a recursive function such as
`FlattenSeq` computes is proved without an induction rule: `Joins` is the function on an
initial segment, which exists for each length and is unique (a least counterexample, `LeastNumber`,
by the well-foundedness of `<`), and the laws (`FlattenAppend`, `FlattenConcat`) follow
in the same way. `Cat` and `Monoid` are concatenation without its definition, for the
steps that only regroup.

Only model-checked: every liveness property (temporal reasoning with fairness
and `ENABLED` is out of the prover's reach); `CaptureRight` and `LexedRight`, since what a recursive lexer or parser
computes for every text would need induction over data; and `SubstitutedRight`, which is not true of
every value: one that holds a quote is not escaped. The modules that are proved
about declare no RECURSIVE operator.

## 5. Not modelled

- Wire framing, decoding of binary parameters, MessagePack, TOML, CSV, XML and dates:
  conversions of data without state. What they decide enters the models as a kind of
  message, statement or line.
- Sockets, TLS, AWS and HTTP clients: I/O; each is an outcome.
- Dialect translation and the corpus that tests it: text to text; that a statement is
  skipped enters `Logs`.
- Language models: their answer is an arbitrary choice.
- Health probe and metrics: shown, and read by no other part. `record_query`,
  `record_bytes` and `record_error` have no caller, so `/metrics` shows no queries.
- Routing, authentication, websockets and report layout.
- Timing: the pacing of a replay by offsets, and measured durations.

## 6. Where code and promises part

Besides the findings, the models leave room for the following, which no run shows
as a violation; each was met while modelling.

Proxy and capture.
- A failed connect or login leaves its slot counted (docs/capture.md:178).
- After an empty query or one of several statements, RETURNING rows are looked for in the
  wrong query (connection.rs:711, 920); declared types outlive the text they were declared
  for (connection.rs:751).
- `discard` gives the slot back while the aborted relay tasks still own the socket.
- The reply to COPY FROM STDIN waits in a buffer only ReadyForQuery flushes
  (connection.rs:1000, README.md:418).
- A client that connects and says nothing holds up the profile at shutdown
  (connection.rs:236).
- RETURNING rows of a query whose start was not recorded, because it ran before the
  capture was enabled, are attached to the query recorded before (capture.rs:396).
- Capture limits are not reset between captures (mod.rs:459, docs/cli-reference.md:219).
- A failed read at stop leaves `capturing` up for the life of the process (mod.rs:653).
- `run_metrics_consumer` cuts SQL at byte 77, which need not be a character boundary.

Replay.
- Read-only mode executes `WITH ... INSERT` (session.rs:95, docs/replay.md:34).
- BEGIN behind a comment, ROLLBACK WORK TO, COMMIT AND CHAIN and PREPARE TRANSACTION are
  classified as something else (profile/mod.rs:113-117).
- `run_replay` drops the errors of sessions; a pipeline whose sessions all failed ends
  with 0 unless a limit says otherwise (docs/pipeline.md:210, 503, 508).
- `--max-connections 0` waits for ever.

Web.
- Sessions of a cancelled replay go on (docs/web-dashboard.md:145); rows of cancelled runs,
  and of runs whose last update failed, stay "running"; a tuning's row has no exit code or report.
- Two starts at once both pass the check; a late toggle flips state by itself; a profile
  written by a stop whose answer came late is never registered.
- Session errors are dropped while the run is "completed"; the demo's set-up is dropped
  when its client disconnects.

Tuner.
- A reported current value is taken for the one to go back to, where docs/tuning.md:120
  says ALTER SYSTEM RESET; a failed reload leaves ALTER SYSTEM written; an abandoned run
  leaves its changes.
- The report does not mark what was rolled back; its improvement is that of the last
  iteration. CREATE INDEX IF NOT EXISTS of an index that was there succeeds, and its rollback
  drops that index; an index without a name, or behind the first of a text, has no rollback
  (apply.rs:56-65, 236-239, docs/tuning.md:119-124).
- A schema change is checked by how its text begins only: "ANALYZE; ALTER SYSTEM SET ..."
  changes any parameter, unlisted and unrecorded (safety.rs:105-120, apply.rs:85-99,
  docs/tuning.md:97-99).

Pipeline.
- The container is left when a step after `docker run` fails; "Failed to parse mapped
  port" and capture errors with "parse" in them exit with 2.
- A read-only replay is compared with the unfiltered source; A/B always exits with 0 and
  compares by position, also after a session was dropped; a variant that ran nothing wins.
- Uniform scaling gives equal ids unless the captured ones are 1..n (scaling.rs:18), where
  docs/replay.md:130 has them unique.
- `compare --fail-on-error` exits with 2 (docs/compare.md:181), which docs/cli-reference.md:519
  calls 1.

Logs.
- A blank line inside a MySQL query splits it; an entry without "# Time" joins the one
  before; `use db;` stays in front.
- Extended events count a batch and its statement; a `<value/>` loses a value.
- Parameter values that contain `$k` are substituted again (CSV).
- An RDS answer without marker ends the download; ids depend on the order of a HashMap.

SQL text.
- After a word or number `-5` is one number, where lex.rs 197-201 says only after an
  operator or at the start; nested comments, `a$b$`, `$1$` and E'' strings are read
  differently from the server (lex.rs:74-86, 270-309).
- `= -42` is looked up as `-42`, not as the 42 of docs/id-correlation.md:229; `.42` and `42.` are
  taken apart at the point, and their 42 is replaced.
- A substituted value is not escaped; a negative number after `-` makes a comment.
- RETURNING goes to the last statement of several; an unqualified table takes the key of
  the first schema; a masked text may read `$S$N`.

Sequences and transformation.
- A replay refused for its capture method has already reset the sequences (main.rs 376
  before 421); a sequence moved by RESTART WITH or `setval(.., false)` and not used since is restored to its
  start value (sequence.rs:38-44, docs/id-correlation.md:53); a compiled capture
  without snapshot claims resolved ids; draws between snapshot and capture that bypass
  the proxy shift all ids.
- The analysis given to the model has no indices though the prompt demands them
  (planner.rs:107); with overlapping groups a copy depends on the order of a HashMap
  (engine.rs:16); copies lose `transaction_id`, a factor of 0 keeps one, a removal may cut
  a transaction.
- Groups join chains of tables (docs/transform.md:47); an injected query is drawn for each
  statement of its group (engine.rs:119-139, docs/transform.md:170).

## 7. Plan

1. Done: pool, relay, lifecycle, capture control, replay, web, tuner and sequences with
   proofs; transformation, scaling and verdicts with proofs; the other commands under `Batch`
   model-checked.
2. Abstract specification of a capture (a log of events per capture, sealed by a
   stop) that `CaptureControl`, `ProxyLifecycle` and `WebProxy` all implement.
3. The wire: `protocol.rs` as framing over partial reads, against a reference.
