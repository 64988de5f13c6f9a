------------------------------- MODULE Replay -------------------------------
(***************************************************************************)
(* Replaying a workload: run_replay and replay_session                     *)
(* (src/replay/session.rs), one task and one connection per session, with  *)
(* QueryKind and assign_transaction_ids (src/profile/mod.rs) deciding what *)
(* belongs together and IdMap (src/correlate/map.rs) translating ids.      *)
(*                                                                         *)
(* A statement is what the server makes of it; timing (--speed) only       *)
(* delays a step, so any interleaving of the sessions may happen.          *)
(***************************************************************************)
EXTENDS Naturals, Sequences, FiniteSets

CONSTANTS
    Setups,       \* the workloads and options a run covers, see below
    MaxSessions,  \* the most sessions a workload has
    None

(* setup: script           for each session, numbered from 1, its queries  *)
(*        read_only        ReplayMode                                      *)
(*        max_connections  permits, or None                                *)
(*        begin_fails, unreliable   may BEGIN fail, connections break?     *)
(* A query is [stmt, returns, uses]: the id a RETURNING clause gave when   *)
(* it was captured and an id that occurs in its text, or None.             *)
WellRead == {"select", "with_write", "write", "begin", "commit", "rollback",
             "savepoint", "rollback_to"}
\* BEGIN behind a comment, ROLLBACK WORK TO, COMMIT AND CHAIN, PREPARE TRANSACTION.
Misread == {"hidden_begin", "rollback_work_to", "commit_chain", "prepare"}
Stmts == WellRead \cup Misread
Ids == Nat \cup {None}

ASSUME ReplayAssumption ==
    /\ MaxSessions \in Nat /\ None \notin Nat
    /\ \A u \in Setups :
        /\ u \in [script : Seq(Seq([stmt : Stmts, returns : Ids, uses : Ids])),
                  read_only : BOOLEAN, max_connections : Nat \cup {None},
                  begin_fails : BOOLEAN, unreliable : BOOLEAN]
        /\ Len(u.script) <= MaxSessions

VARIABLES
    setup,
    permits,    \* free permits of the semaphore, or None
    pc, pos,    \* where each session's task is
    failed,     \* failed_txn_id
    outcome,    \* what the server answered to the query under way
    results,    \* query_results
    conn,       \* the session on the server
    id_map, next_id, \* the shared IdMap, the sequence of the target database
    given, used,     \* ids the server gave a session; the id a query was sent with
    joined      \* sessions run_replay has awaited

task == <<pc, pos, failed, outcome, results, used>>
ids == <<id_map, next_id, given>>
vars == <<setup, permits, task, conn, ids, joined>>

Sessions == DOMAIN setup.script
Script(s) == setup.script[s]
Query(s) == Script(s)[pos[s]]
Queries == UNION {{<<s, i>> : i \in DOMAIN Script(s)} : s \in Sessions}

-----------------------------------------------------------------------------
(***************************************************************************)
(* QueryKind::from_sql looks at how the text begins: whatever follows WITH *)
(* is a Select, what it does not know is Other.  ROLLBACK TO is told from  *)
(* ROLLBACK (ROLLBACK WORK TO is not); the slip: it is not either.         *)
(***************************************************************************)
first_word(stmt) ==
    CASE stmt \in {"select", "with_write"} -> "select"
      [] stmt \in {"rollback", "rollback_to", "rollback_work_to"} -> "rollback"
      [] stmt \in {"commit", "commit_chain"} -> "commit"
      [] stmt \in {"savepoint", "hidden_begin", "prepare"} -> "other"
      [] OTHER -> stmt

from_sql(stmt) == IF stmt = "rollback_to" THEN "other" ELSE first_word(stmt)

is_transaction_control(kind) == kind \in {"begin", "commit", "rollback"}

should_replay(kind) == setup.read_only => kind = "select"

Kind(s, i) == from_sql(Script(s)[i].stmt)

\* assign_transaction_ids: the BEGIN that current_txn is of after n queries, ...
OpenBegin(s, n) ==
    {b \in 1..n : /\ Kind(s, b) = "begin"
                  /\ \A i \in (b + 1)..n : ~is_transaction_control(Kind(s, i))}

\* ... and its id: next_txn_id counts the BEGINs of one session after another.
txn_id(s, b) ==
    Cardinality({q \in Queries :
        Kind(q[1], q[2]) = "begin" /\ (q[1] < s \/ (q[1] = s /\ q[2] <= b))})

CurrentTxn(s, n) ==
    IF OpenBegin(s, n) = {} THEN None
    ELSE txn_id(s, CHOOSE b \in OpenBegin(s, n) : TRUE)

transaction_id(s, i) ==
    CurrentTxn(s, IF Kind(s, i) \in {"commit", "rollback"} THEN i - 1 ELSE i)

-----------------------------------------------------------------------------
(***************************************************************************)
(* PostgreSQL as the engine sees it: the transaction of a connection, the  *)
(* writes in it, those at the last savepoint, and the writes committed.    *)
(***************************************************************************)
Connection == [txn |-> "none", work |-> {}, saved |-> {}, committed |-> {}]

Writes(stmt) == stmt \in {"write", "with_write"}

End(c) == [c EXCEPT !.txn = "none", !.work = {}, !.saved = {}]

\* PREPARE TRANSACTION ends the transaction and leaves its work in doubt.
Succeed(c, i, stmt) ==
    CASE stmt \in {"begin", "hidden_begin"} -> [c EXCEPT !.txn = "open"]
      [] stmt = "commit" -> [End(c) EXCEPT !.committed = @ \cup c.work]
      [] stmt = "commit_chain" ->
           [End(c) EXCEPT !.txn = c.txn, !.committed = @ \cup c.work]
      [] stmt \in {"rollback", "prepare"} -> End(c)
      [] stmt = "savepoint" -> [c EXCEPT !.saved = c.work]
      [] stmt \in {"rollback_to", "rollback_work_to"} -> [c EXCEPT !.work = c.saved]
      [] Writes(stmt) /\ c.txn = "none" -> [c EXCEPT !.committed = @ \cup {i}]
      [] Writes(stmt) /\ c.txn = "open" -> [c EXCEPT !.work = @ \cup {i}]
      [] OTHER -> c

Fail(c, stmt) ==
    IF stmt \in {"commit", "commit_chain", "prepare"} \/ c.txn = "none" THEN End(c)
    ELSE [c EXCEPT !.txn = "aborted", !.work = {}]

\* ROLLBACK never fails, COMMIT only in a transaction.
CanFail(c, stmt) ==
    /\ stmt # "rollback"
    /\ stmt = "commit" => c.txn = "open"
    /\ stmt = "begin" => setup.begin_fails

\* What an aborted transaction still answers: its end, and a return to a
\* savepoint it may or may not have.
Aborted(c, stmt) ==
    IF stmt \in {"commit", "rollback", "prepare"} THEN {<<End(c), "ok">>}
    ELSE IF stmt = "commit_chain" THEN {<<[End(c) EXCEPT !.txn = "open"], "ok">>}
    ELSE {<<c, "aborted">>}
         \cup (IF stmt \notin {"rollback_to", "rollback_work_to"} THEN {}
               ELSE {<<[c EXCEPT !.txn = "open", !.work = c.saved], "ok">>})

\* The states and answers a statement can lead to.
Answers(c, i, stmt) ==
    IF c.txn = "lost" THEN {<<c, "lost">>}
    ELSE IF c.txn = "aborted" THEN Aborted(c, stmt)
    ELSE {<<Succeed(c, i, stmt), "ok">>}
         \cup (IF CanFail(c, stmt) THEN {<<Fail(c, stmt), "error">>} ELSE {})
         \cup (IF ~setup.unreliable THEN {}
               ELSE {<<[End(d) EXCEPT !.txn = "lost"], "lost">> :
                       d \in {c, Succeed(c, i, stmt)}})

-----------------------------------------------------------------------------
Init ==
    /\ setup \in Setups
    /\ permits = setup.max_connections
    /\ pc = [s \in Sessions |-> "queued"]
    /\ pos = [s \in Sessions |-> 1]
    /\ failed = [s \in Sessions |-> None]
    /\ outcome = [s \in Sessions |-> None]
    /\ results = [s \in Sessions |-> <<>>]
    /\ used = [s \in Sessions |-> None]
    /\ conn = [s \in Sessions |-> Connection]
    /\ id_map = <<>> /\ next_id = 1
    /\ given = [s \in Sessions |-> <<>>]
    /\ joined = 0

Goto(s, p) == pc' = [pc EXCEPT ![s] = p]

Unlimited == setup.max_connections = None

\* acquire().await; the slip: taking a permit nobody gave back.
has_permit_inclusive == ~Unlimited => permits >= 0
has_permit == ~Unlimited => permits > 0

\* The permit is dropped with the task, however it ends; the slip: it is not.
permits_kept == permits
permits_returned == IF Unlimited THEN None ELSE permits + 1

Acquire(s) ==
    /\ pc[s] = "queued" /\ has_permit
    /\ permits' = IF Unlimited THEN None ELSE permits - 1
    /\ Goto(s, "connecting")
    /\ UNCHANGED <<setup, pos, failed, outcome, results, used, conn, ids, joined>>

Connect(s) ==
    /\ pc[s] = "connecting"
    /\ \/ Goto(s, "running") /\ UNCHANGED permits
       \/ setup.unreliable /\ Goto(s, "failed") /\ permits' = permits_returned
    /\ UNCHANGED <<setup, pos, failed, outcome, results, used, conn, ids, joined>>

\* query_results.push, and on to the next query.
Record(s, success, error) ==
    /\ results' = [results EXCEPT ![s] =
                     Append(@, [query |-> pos[s], success |-> success, error |-> error])]
    /\ pos' = [pos EXCEPT ![s] = @ + 1]

AtQuery(s) == pc[s] = "running" /\ pos[s] <= Len(Script(s))

\* Read-only mode: a statement that is not replayed leaves no result.
LeaveOut(s) ==
    /\ AtQuery(s) /\ ~should_replay(Kind(s, pos[s]))
    /\ pos' = [pos EXCEPT ![s] = @ + 1]
    /\ UNCHANGED <<setup, permits, pc, failed, outcome, results, used, conn, ids, joined>>

in_failed_txn(s) ==
    failed[s] # None /\ transaction_id(s, pos[s]) = failed[s]

\* The slip: the first statement skipped ends the failed transaction.
ends_anyway(s) == TRUE
ends_failed_txn(s) == Kind(s, pos[s]) \in {"commit", "rollback"}

\* What was skipped did not succeed; the slip: it did not fail either.
not_failed == TRUE
skipped_success == FALSE

Skip(s) ==
    /\ AtQuery(s) /\ should_replay(Kind(s, pos[s])) /\ in_failed_txn(s)
    /\ failed' = [failed EXCEPT ![s] = IF ends_failed_txn(s) THEN None ELSE @]
    /\ Record(s, skipped_success, "skipped")
    /\ UNCHANGED <<setup, permits, pc, outcome, used, conn, ids, joined>>

Inserted(map, c, d) == [x \in DOMAIN map \cup {c} |-> IF x = c THEN d ELSE map[x]]

\* IdMap::substitute, one pass over the text.
substitute(c) == IF c \in DOMAIN id_map THEN id_map[c] ELSE c

\* The query goes to the server, which runs it; a different transaction
\* clears the failed one.
Execute(s) ==
    /\ AtQuery(s) /\ should_replay(Kind(s, pos[s])) /\ ~in_failed_txn(s)
    /\ failed' = [failed EXCEPT ![s] = None]
    /\ used' = [used EXCEPT ![s] = substitute(Query(s).uses)]
    /\ \E a \in Answers(conn[s], pos[s], Query(s).stmt) :
          /\ conn' = [conn EXCEPT ![s] = a[1]]
          /\ IF a[2] = "ok" /\ Query(s).returns # None
               THEN /\ outcome' = [outcome EXCEPT ![s] = [status |-> "ok", row |-> next_id]]
                    /\ given' = [given EXCEPT ![s] = Inserted(@, Query(s).returns, next_id)]
                    /\ next_id' = next_id + 1
               ELSE /\ outcome' = [outcome EXCEPT ![s] = [status |-> a[2], row |-> None]]
                    /\ UNCHANGED <<given, next_id>>
    /\ Goto(s, "answered")
    /\ UNCHANGED <<setup, permits, pos, results, id_map, joined>>

\* IdMap::register, unless the id came back unchanged; the slip: the wrong way
\* round.
register_reversed(captured, replayed) == Inserted(id_map, replayed, captured)
register(captured, replayed) == Inserted(id_map, captured, replayed)

Register(s) ==
    id_map' = IF outcome[s].row \in {None, Query(s).returns} THEN id_map
              ELSE register(Query(s).returns, outcome[s].row)

\* The slip: only a write that fails is rolled back.
must_rollback_writes(s) ==
    transaction_id(s, pos[s]) # None /\ Kind(s, pos[s]) = "write"
must_rollback(s) ==
    transaction_id(s, pos[s]) # None /\ ~is_transaction_control(Kind(s, pos[s]))

Answered(s, p) ==
    /\ pc[s] = "answered"
    /\ Goto(s, p)
    /\ outcome' = [outcome EXCEPT ![s] = None]
    /\ used' = [used EXCEPT ![s] = None]
    /\ UNCHANGED <<setup, permits, failed, conn, next_id, given, joined>>

ReceiveOk(s) ==
    /\ Answered(s, "running")
    /\ outcome[s].status = "ok"
    /\ Register(s)
    /\ Record(s, TRUE, "none")

ReceiveError(s) ==
    /\ Answered(s, "running")
    /\ outcome[s].status # "ok" /\ ~must_rollback(s)
    /\ Record(s, FALSE, outcome[s].status)
    /\ UNCHANGED id_map

\* The engine's own ROLLBACK is awaited before the result is recorded; what
\* it answers is ignored.
ReceiveErrorInTxn(s) ==
    /\ pc[s] = "answered" /\ outcome[s].status # "ok" /\ must_rollback(s)
    /\ Goto(s, "rolling_back")
    /\ conn' = [conn EXCEPT ![s] = IF @.txn = "lost" THEN @ ELSE End(@)]
    /\ UNCHANGED <<setup, permits, pos, failed, outcome, results, used, ids, joined>>

RolledBack(s) ==
    /\ pc[s] = "rolling_back"
    /\ Goto(s, "running")
    /\ failed' = [failed EXCEPT ![s] = transaction_id(s, pos[s])]
    /\ Record(s, FALSE, outcome[s].status)
    /\ outcome' = [outcome EXCEPT ![s] = None]
    /\ used' = [used EXCEPT ![s] = None]
    /\ UNCHANGED <<setup, permits, conn, ids, joined>>

\* The client is dropped: the server ends what is open.
Finish(s) ==
    /\ pc[s] = "running" /\ pos[s] > Len(Script(s))
    /\ Goto(s, "done")
    /\ conn' = [conn EXCEPT ![s] = End(@)]
    /\ permits' = permits_returned
    /\ UNCHANGED <<setup, pos, failed, outcome, results, used, ids, joined>>

\* run_replay awaits the handles in order.
Join ==
    /\ joined + 1 \in Sessions /\ pc[joined + 1] \in {"done", "failed"}
    /\ joined' = joined + 1
    /\ UNCHANGED <<setup, permits, task, conn, ids>>

Session(s) ==
    \/ Acquire(s) \/ Connect(s) \/ LeaveOut(s) \/ Skip(s) \/ Execute(s)
    \/ ReceiveOk(s) \/ ReceiveError(s) \/ ReceiveErrorInTxn(s) \/ RolledBack(s)
    \/ Finish(s)

Next == Join \/ \E s \in Sessions : Session(s)

\* Every task runs and the server answers.
Fairness ==
    /\ WF_vars(Join)
    /\ \A s \in 1..MaxSessions : WF_vars(s \in Sessions /\ Session(s))

Spec == Init /\ [][Next]_vars /\ Fairness

-----------------------------------------------------------------------------
(***************************************************************************)
(* What was captured: the run in which every statement succeeded.          *)
(***************************************************************************)
Captured(s) ==
    LET run[n \in 0..Len(Script(s))] ==
            IF n = 0 THEN Connection
            ELSE Succeed(run[n - 1], n, Script(s)[n].stmt)
    IN run

\* The BEGIN of the transaction that each query was captured in, 0 for none (in
\* a script without COMMIT AND CHAIN).
Block(s) ==
    LET block[n \in 0..Len(Script(s))] ==
            IF n = 0 THEN 0
            ELSE IF Captured(s)[n - 1].txn = "open" THEN block[n - 1]
            ELSE IF Captured(s)[n].txn = "open" THEN n ELSE 0
    IN block

\* No session sends BEGIN in a transaction.
Flat(u) ==
    \A s \in DOMAIN u.script : \A i, j \in DOMAIN u.script[s] :
        i < j /\ u.script[s][i].stmt = "begin" /\ u.script[s][j].stmt = "begin" =>
            \E k \in (i + 1)..(j - 1) : u.script[s][k].stmt \in {"commit", "rollback"}

\* ... and each statement is one that from_sql reads for what it is.
Legible(u) ==
    \A s \in DOMAIN u.script : \A i \in DOMAIN u.script[s] : u.script[s][i].stmt \in WellRead

Regular(u) == Flat(u) /\ Legible(u)

\* The tasks are where they may be, and results only speak of queries passed.
TypeOK ==
    /\ setup \in Setups
    /\ permits \in IF Unlimited THEN {None} ELSE 0..setup.max_connections
    /\ joined \in 0..Cardinality(Sessions)
    /\ \A s \in Sessions :
        /\ pc[s] \in {"queued", "connecting", "running", "answered",
                      "rolling_back", "done", "failed"}
        /\ pos[s] \in 1..(Len(Script(s)) + 1)
        /\ failed[s] \in {None} \cup {transaction_id(s, i) : i \in DOMAIN Script(s)}
        /\ conn[s].txn \in {"none", "open", "aborted", "lost"}
        /\ \A i \in DOMAIN results[s] : results[s][i].query < pos[s]

\* Two queries have the same transaction id exactly when the server ran them in
\* the same transaction, whatever session they are of (assign_transaction_ids,
\* profile/mod.rs 148-170).  The code keeps this only of Regular workloads:
\* from_sql takes a Misread statement for another one.
TxnIdsRight ==
    Regular(setup) /\ (\A s \in Sessions : pc[s] = "queued") =>
        \A s, r \in Sessions : \A i \in DOMAIN Script(s), j \in DOMAIN Script(r) :
            /\ transaction_id(s, i) = None <=> Block(s)[i] = 0
            /\ transaction_id(s, i) # None =>
                 (transaction_id(s, i) = transaction_id(r, j)
                    <=> s = r /\ Block(s)[i] = Block(r)[j])

\* "This prevents cascading errors" (docs/replay.md:88): nothing is sent into a
\* transaction the server has aborted, if each statement is read for what it is
\* (after a BEGIN behind a comment the engine knows of no transaction).
NoCascade ==
    Legible(setup) => \A s \in Sessions : \A i \in DOMAIN results[s] : results[s][i].error # "aborted"

\* "Preserving the original transaction boundaries" (docs/replay.md:29): of the
\* writes a captured transaction committed, all are committed or none,
\* whichever of its statements fail and wherever the connection breaks.  So it
\* is of Regular workloads; should BEGIN itself fail (setup.begin_fails), only
\* for a single write.
AllOrNothing ==
    Regular(setup) => \A s \in Sessions : \A b \in DOMAIN Script(s) :
        LET txn == {i \in DOMAIN Script(s) : Block(s)[i] = b}
        IN conn[s].committed \cap txn \in
               {{}, Captured(s)[Len(Script(s))].committed \cap txn}

Succeeded(s, i) ==
    \E k \in DOMAIN results[s] : results[s][k].query = i /\ results[s][k].success

\* Each query that is replayed has one result, in order.
Complete(s) ==
    /\ \A j, k \in DOMAIN results[s] : j < k => results[s][j].query < results[s][k].query
    /\ {results[s][k].query : k \in DOMAIN results[s]} =
          {i \in DOMAIN Script(s) : should_replay(Kind(s, i))}

\* The report, which every comparison is made from, tells the truth: it is
\* complete, and of a Regular workload a write took effect exactly when it and
\* the COMMIT of its transaction are reported as successful (session.rs 51-80,
\* 144-179).
ReportTrue ==
    \A s \in Sessions : pc[s] = "done" =>
        /\ Complete(s)
        /\ Regular(setup) /\ ~setup.unreliable =>
             \A i \in Captured(s)[Len(Script(s))].committed :
                i \in conn[s].committed <=>
                  /\ Succeeded(s, i)
                  /\ Block(s)[i] # 0 =>
                       \E k \in DOMAIN Script(s) :
                          /\ Block(s)[k] = Block(s)[i]
                          /\ Script(s)[k].stmt = "commit" /\ Succeeded(s, k)

\* No two queries were given the same id.
Distinct(u) ==
    \A s, r \in DOMAIN u.script : \A i \in DOMAIN u.script[s], j \in DOMAIN u.script[r] :
        u.script[s][i].returns # None /\ u.script[s][i].returns = u.script[r][j].returns
            => s = r /\ i = j

EarlierIds(s) == DOMAIN given[s] \ {Query(s).returns}

\* A query that uses an id its own session got from an earlier RETURNING is
\* sent with the id the target gave for it, whatever other sessions register
\* meanwhile (session.rs 89-125); captured ids are assumed Distinct.
OwnIdsMapped ==
    \A s \in Sessions :
        pc[s] = "answered" /\ Query(s).uses \in EarlierIds(s) =>
            used[s] = given[s][Query(s).uses]

\* Never more sessions connected than --max-connections (session.rs 206,
\* 225-228); the spawned task that closes a connection (26-38) may outlast the
\* session by a moment.
ConnectionLimit ==
    ~Unlimited =>
        Cardinality({s \in Sessions : pc[s] \notin {"queued", "done", "failed"}})
            <= setup.max_connections

\* A replay comes to its end, with sessions waiting for permits (of which there
\* is one at least), failing to connect, or losing their connection.
AllFinish == <>(joined = Cardinality(Sessions))
=============================================================================
