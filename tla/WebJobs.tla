------------------------------- MODULE WebJobs -------------------------------
(***************************************************************************)
(* The jobs of the web dashboard (src/web/handlers/replay.rs, ab.rs,       *)
(* pipeline.rs, tuning.rs, demo.rs), the rows they leave in the runs table *)
(* (src/web/db.rs), and the workloads they read, as files and as rows      *)
(* (src/web/handlers/workloads.rs, transform.rs).                          *)
(*                                                                         *)
(* A replay runs its sessions in tasks of their own (a pipeline in a       *)
(* blocking thread): they outlive the task that waits for them.  What a    *)
(* session does is Replay's business, what a pipeline and a tuning do is   *)
(* Pipeline's and Tuner's: here they end, well or not.                     *)
(***************************************************************************)
EXTENDS Tasks

CONSTANTS
    Jobs,        \* calls of the start handlers, and the tasks they spawn
    Workloads,   \* workload ids, those that exist and those to come
    Writers,     \* requests that create or delete a workload
    Sessions     \* session tasks of one replay

VARIABLES
    covers,      \* what the instance covers, see below
    request,     \* where each start handler is
    job,         \* where each job's task is
    sessions,    \* session tasks alive, of each job
    variant,     \* replays a job has still to run after the current one
    runs,        \* the runs table: one row per job, or NoRow
    disk,        \* workload files
    rows,        \* the workloads table
    tmp,         \* uploaded logs
    writer,      \* where each writing request is
    demo         \* DemoState: one wizard step or scenario

(* covers: kinds      of each job: "replay", "ab", "pipeline" or "tuning"  *)
(*         writing    what each writer does                                *)
(*         initial    workloads there are at first                         *)
(*         demo       is the demo enabled?                                 *)
(*         at_once    may start requests overlap?                          *)
(*         cancels    may jobs be cancelled?                               *)
(*         faults     may reads, writes, sessions and captures fail?       *)
working == <<request, job, sessions, variant>>
stored == <<disk, rows, tmp, writer>>
jobVars == <<covers, working, runs, stored, demo>>

NoRow == [status |-> "none", exit_code |-> None, report |-> FALSE, results |-> FALSE]
Row(status, exit_code, report, results) ==
    [status |-> status, exit_code |-> exit_code, report |-> report, results |-> results]

JobsInit ==
    /\ request = [j \in Jobs |-> "idle"]
    /\ job = [j \in Jobs |-> "none"]
    /\ sessions = [j \in Jobs |-> {}]
    /\ variant = [j \in Jobs |-> 0]
    /\ runs = [j \in Jobs |-> NoRow]
    /\ disk = covers.initial /\ rows = covers.initial /\ tmp = {}
    /\ writer = [w \in Writers |-> [pc |-> "idle", source |-> None, new |-> None]]
    /\ demo = [status |-> "pending", result |-> FALSE, pc |-> "idle"]

Kind(j) == covers.kinds[j]
OfKind(k) == {j \in Jobs : Kind(j) = k}
Fails == covers.faults

\* The workload of every job is the first one.
Source == CHOOSE w \in covers.initial : TRUE

In(j, pc) == Up /\ job[j] = pc
Alive == {j \in Jobs : job[j] \notin {"none", "done", "lost", "dropped"}}
Move(j, pc) == job' = [job EXCEPT ![j] = pc]

-----------------------------------------------------------------------------
(***************************************************************************)
(* The start handlers.                                                     *)
(***************************************************************************)
Quiet == covers.at_once \/ \A j \in Jobs : request[j] \in {"idle", "replied"}

InsertRun(j) == runs' = [runs EXCEPT ![j] = Row("running", None, FALSE, FALSE)]

\* The workload is looked up, then the row is inserted.
StartRun(j) ==
    /\ Up /\ Quiet /\ request[j] = "idle"
    /\ Kind(j) \in {"replay", "ab", "pipeline"}
    /\ Kind(j) # "pipeline" => Source \in rows
    /\ InsertRun(j)
    /\ request' = [request EXCEPT ![j] = "inserted"]
    /\ UNCHANGED <<tasks, covers, job, sessions, variant, stored, demo>>

\* The slip: looking at nothing.
tuning_not_asked == FALSE
tuning_runs == HasRunning(OfKind("tuning"), Alive)

\* "Tuning is already running", or no such file; a row only comes at the end.
StartTuning(j) ==
    /\ Up /\ Quiet /\ request[j] = "idle" /\ Kind(j) = "tuning"
    /\ ~tuning_runs
    /\ Source \in disk
    /\ request' = [request EXCEPT ![j] = "inserted"]
    /\ UNCHANGED <<tasks, covers, job, sessions, variant, runs, stored, demo>>

SpawnJob(j) ==
    /\ Up /\ request[j] = "inserted"
    /\ request' = [request EXCEPT ![j] = "spawned"]
    /\ Move(j, "reading")
    /\ UNCHANGED <<tasks, covers, sessions, variant, runs, stored, demo>>

InsertJob(j) ==
    /\ Up /\ request[j] = "spawned"
    /\ Insert(j)
    /\ request' = [request EXCEPT ![j] = "replied"]
    /\ UNCHANGED <<covers, job, sessions, variant, runs, stored, demo>>

\* cancel_replay and cancel_tuning take any task id.
CancelJob(j) ==
    /\ Up /\ covers.cancels /\ j \in handles
    /\ Cancel(j)
    /\ UNCHANGED jobVars

-----------------------------------------------------------------------------
(***************************************************************************)
(* The tasks.                                                              *)
(***************************************************************************)
TheWork(j) == IF Kind(j) = "pipeline" THEN {CHOOSE s \in Sessions : TRUE} ELSE Sessions

\* Replays still to come: an A/B test has a second variant, a tuning a replay
\* after its baseline.
Later(j) == IF Kind(j) \in {"ab", "tuning"} THEN 1 ELSE 0

Spawned(j) == sessions' = [sessions EXCEPT ![j] = TheWork(j)]

\* read_profile, scaling, and the session tasks.
BeginReplay(j) ==
    /\ In(j, "reading") /\ Awake(j)
    /\ Kind(j) # "pipeline" => Source \in disk
    /\ Spawned(j)
    /\ variant' = [variant EXCEPT ![j] = Later(j)]
    /\ Move(j, "replaying")
    /\ UNCHANGED <<tasks, covers, request, runs, stored, demo>>

ReadFails(j) ==
    /\ In(j, "reading") /\ Awake(j)
    /\ Kind(j) # "pipeline" /\ (Source \notin disk \/ Fails)
    /\ Move(j, "failing")
    /\ UNCHANGED <<tasks, covers, request, sessions, variant, runs, stored, demo>>

\* A session comes to its end, whatever became of the task that waits for it.
SessionEnds(j, s) ==
    /\ Up /\ s \in sessions[j]
    /\ sessions' = [sessions EXCEPT ![j] = @ \ {s}]
    /\ UNCHANGED <<tasks, covers, request, job, variant, runs, stored, demo>>

\* The slip: the first handle is enough.
some_returned(j) == sessions[j] # TheWork(j)
all_returned(j) == sessions[j] = {}

NextVariant(j) ==
    /\ In(j, "replaying") /\ Awake(j)
    /\ all_returned(j) /\ variant[j] > 0
    /\ Spawned(j)
    /\ variant' = [variant EXCEPT ![j] = @ - 1]
    /\ UNCHANGED <<tasks, covers, request, job, runs, stored, demo>>

AllReturned(j) ==
    /\ In(j, "replaying") /\ Awake(j)
    /\ all_returned(j) /\ variant[j] = 0
    /\ Move(j, "finishing")
    /\ UNCHANGED <<tasks, covers, request, sessions, variant, runs, stored, demo>>

\* A session task that panicked: its JoinError ends the job at once.  A tuning
\* may fail anywhere; so may the results' file or its row.
JobFails(j) ==
    /\ Fails /\ Awake(j)
    /\ In(j, "replaying") \/ In(j, "finishing")
    /\ Move(j, "failing")
    /\ UNCHANGED <<tasks, covers, request, sessions, variant, runs, stored, demo>>

\* The job ends, but its row cannot be written: `let _ =` drops the error.
LoseRow(j) == Fails /\ Move(j, "lost") /\ UNCHANGED runs

\* A pipeline is completed whatever its exit code; insert_run leaves out the
\* exit code and the report of a tuning.  Replay and A/B test end as failed if
\* this row cannot be written (JobFails), the others just end.
JobCompletes(j) ==
    /\ In(j, "finishing") /\ Awake(j)
    /\ \/ /\ LET code == IF Kind(j) = "pipeline" /\ Fails THEN {0, 3} ELSE {0}
             IN runs' \in {[runs EXCEPT ![j] =
                             CASE Kind(j) = "replay"   -> Row("completed", 0, TRUE, TRUE)
                               [] Kind(j) = "ab"       -> Row("completed", 0, TRUE, FALSE)
                               [] Kind(j) = "pipeline" -> Row("completed", c, c = 0, FALSE)
                               [] Kind(j) = "tuning"   -> Row("completed", None, FALSE, FALSE)] : c \in code}
          /\ Move(j, "done")
       \/ Kind(j) \in {"pipeline", "tuning"} /\ LoseRow(j)
    /\ UNCHANGED <<tasks, covers, request, sessions, variant, stored, demo>>

\* The slip: an error leaves the row alone.
failed_row_kept(j) == runs[j]
failed_row(j) == IF Kind(j) = "tuning" THEN NoRow ELSE Row("failed", 5, FALSE, FALSE)

JobFailed(j) ==
    /\ In(j, "failing") /\ Awake(j)
    /\ \/ runs' = [runs EXCEPT ![j] = failed_row(j)] /\ Move(j, "done")
       \/ Kind(j) # "tuning" /\ LoseRow(j)
    /\ UNCHANGED <<tasks, covers, request, sessions, variant, stored, demo>>

\* The aborted task is dropped; nobody writes its row.
DropJob(j) ==
    /\ Up /\ j \in aborted /\ j \in Alive
    /\ Move(j, "dropped")
    /\ UNCHANGED <<tasks, covers, request, sessions, variant, runs, stored, demo>>

\* compute_compare: the report is made again and the row completed again.
Compare(j) ==
    /\ Up /\ Source \in rows \cap disk
    /\ runs[j].results
    /\ runs' = [runs EXCEPT ![j] = Row("completed", @.exit_code, TRUE, TRUE)]
    /\ UNCHANGED <<tasks, covers, working, stored, demo>>

\* get_run_stats
Stats ==
    LET Count(P(_)) == Cardinality({j \in Jobs : runs[j] # NoRow /\ P(runs[j])})
    IN [total   |-> Count(LAMBDA r : TRUE),
        passed  |-> Count(LAMBDA r : r.status = "completed" /\ r.exit_code = 0),
        failed  |-> Count(LAMBDA r : r.status = "completed" /\ r.exit_code \notin {None, 0}),
        running |-> Count(LAMBDA r : r.status = "running")]

-----------------------------------------------------------------------------
(***************************************************************************)
(* Workloads: a file, then a row.                                          *)
(***************************************************************************)
Does(w, op) == Up /\ covers.writing[w] = op
Write(w, pc) == writer' = [writer EXCEPT ![w].pc = pc]
Taken == {writer[w].new : w \in Writers}

NewFile(w, n) ==
    /\ writer[w].pc = "idle"
    /\ n \in Workloads \ (disk \cup rows \cup Taken)
    /\ writer' = [writer EXCEPT ![w] = [pc |-> "written", source |-> None, new |-> n]]

\* The bytes are written before they are read.
Import(w, n) ==
    /\ Does(w, "import") /\ NewFile(w, n)
    /\ disk' = disk \cup {n}
    /\ UNCHANGED <<tasks, covers, working, runs, rows, tmp, demo>>

\* Not a profile: the file stays.
ImportRefused(w) ==
    /\ Does(w, "import") /\ Fails /\ writer[w].pc = "written"
    /\ Write(w, "done")
    /\ UNCHANGED <<tasks, covers, working, runs, disk, rows, tmp, demo>>

\* The log, then the profile made of it; a log nobody can read stays.
Upload(w, n) ==
    /\ Does(w, "upload") /\ NewFile(w, n)
    /\ tmp' = tmp \cup {n}
    /\ \/ disk' = disk \cup {n}
       \/ Fails /\ UNCHANGED disk
    /\ UNCHANGED <<tasks, covers, working, runs, rows, demo>>

UploadRefused(w) ==
    /\ Does(w, "upload") /\ writer[w].pc = "written" /\ writer[w].new \notin disk
    /\ Write(w, "done")
    /\ UNCHANGED <<tasks, covers, working, runs, disk, rows, tmp, demo>>

\* compile, synthesize and transform make a workload of another.
Look(w) ==
    /\ Does(w, "derive") /\ writer[w].pc = "idle"
    /\ Source \in rows
    /\ Write(w, "looked")
    /\ UNCHANGED <<tasks, covers, working, runs, disk, rows, tmp, demo>>

Derive(w, n) ==
    /\ Does(w, "derive") /\ writer[w].pc = "looked"
    /\ n \in Workloads \ (disk \cup rows \cup Taken)
    /\ \/ /\ Source \in disk
          /\ disk' = disk \cup {n}
          /\ writer' = [writer EXCEPT ![w] = [pc |-> "written", source |-> Source, new |-> n]]
       \/ /\ Source \notin disk \/ Fails
          /\ Write(w, "done") /\ UNCHANGED disk
    /\ UNCHANGED <<tasks, covers, working, runs, rows, tmp, demo>>

\* The slip: registering whatever was uploaded.
readable_any(w) == TRUE
readable(w) == writer[w].new \in disk

\* insert_workload; a row that cannot be inserted leaves the file, and the log.
Register(w) ==
    /\ Up /\ writer[w].pc = "written" /\ readable(w)
    /\ \/ rows' = rows \cup {writer[w].new} /\ tmp' = tmp \ {writer[w].new}
       \/ Fails /\ UNCHANGED <<rows, tmp>>
    /\ Write(w, "done")
    /\ UNCHANGED <<tasks, covers, working, runs, disk, demo>>

\* The file first, under the lock of the database; the row may not follow.
Delete(w) ==
    /\ Does(w, "delete") /\ writer[w].pc = "idle"
    /\ Source \in rows
    /\ disk' = disk \ {Source}
    /\ \/ rows' = rows \ {Source} /\ Write(w, "done") /\ UNCHANGED server
       \/ Fails /\ Write(w, "failed") /\ UNCHANGED <<rows, server>>
       \/ Fails /\ Write(w, "failed") /\ server' = "down" /\ UNCHANGED rows
    /\ UNCHANGED <<handles, cancelled, aborted, covers, working, runs, tmp, demo>>

-----------------------------------------------------------------------------
(***************************************************************************)
(* The demo: a step runs inside its request, so a client that goes away    *)
(* takes it along.                                                         *)
(***************************************************************************)
DemoStart ==
    /\ Up /\ covers.demo /\ demo.pc = "idle"
    /\ demo' = [demo EXCEPT !.status = "running", !.pc = "step"]
    /\ UNCHANGED <<tasks, covers, working, runs, stored>>

DemoEnds ==
    /\ Up /\ demo.pc = "step"
    /\ \/ demo' = [status |-> "completed", result |-> TRUE, pc |-> "idle"]
       \/ Fails /\ demo' = [demo EXCEPT !.status = "failed", !.pc = "idle"]
    /\ UNCHANGED <<tasks, covers, working, runs, stored>>

DemoClientGone ==
    /\ Up /\ demo.pc = "step"
    /\ demo' = [demo EXCEPT !.pc = "idle"]
    /\ UNCHANGED <<tasks, covers, working, runs, stored>>

\* reset_db clears the states of steps that are still running.
DemoReset ==
    /\ Up /\ covers.demo /\ demo.status # "pending"
    /\ demo' = [demo EXCEPT !.status = "pending", !.result = FALSE]
    /\ UNCHANGED <<tasks, covers, working, runs, stored>>

-----------------------------------------------------------------------------
RequestSteps(j) == StartRun(j) \/ StartTuning(j) \/ SpawnJob(j) \/ InsertJob(j)

JobSteps(j) ==
    \/ BeginReplay(j) \/ ReadFails(j) \/ NextVariant(j) \/ AllReturned(j)
    \/ JobFails(j) \/ JobCompletes(j) \/ JobFailed(j) \/ DropJob(j)

WriterSteps(w) ==
    \/ \E n \in Workloads : Import(w, n) \/ Upload(w, n) \/ Derive(w, n)
    \/ ImportRefused(w) \/ UploadRefused(w) \/ Look(w) \/ Register(w) \/ Delete(w)

DemoSteps == DemoStart \/ DemoEnds \/ DemoClientGone \/ DemoReset

JobsNext ==
    \/ \E j \in Jobs :
          \/ RequestSteps(j) \/ JobSteps(j) \/ CancelJob(j) \/ Compare(j)
          \/ \E s \in Sessions : SessionEnds(j, s)
    \/ \E w \in Writers : WriterSteps(w)
    \/ DemoSteps

\* What was started goes on, and a session ends.
JobsFairness ==
    \A j \in Jobs :
        /\ WF_<<tasks, jobVars>>(SpawnJob(j) \/ InsertJob(j))
        /\ WF_<<tasks, jobVars>>(JobSteps(j))
        /\ \A s \in Sessions : WF_<<tasks, jobVars>>(SessionEnds(j, s))
=============================================================================
