-------------------------------- MODULE Tasks --------------------------------
(***************************************************************************)
(* TaskManager of the web server (src/web/tasks.rs): the table of handles  *)
(* that the proxy and the job handlers share, and the server's own end.    *)
(* What a task does is up to the modules that extend this one.             *)
(***************************************************************************)
EXTENDS Naturals, FiniteSets

CONSTANT None   \* the absent option of every kind

VARIABLES server,     \* "up", or "down" after a shutdown or a crash
          handles,    \* tasks whose handle is in the table
          cancelled,  \* tasks whose token is cancelled
          aborted     \* tasks that will not go past their next await

tasks == <<server, handles, cancelled, aborted>>

Up == server = "up"

TasksInit == server = "up" /\ handles = {} /\ cancelled = {} /\ aborted = {}

\* The last step of spawn: the task itself was started before.
Insert(t) ==
    /\ handles' = handles \cup {t}
    /\ UNCHANGED <<server, cancelled, aborted>>

\* The slip: leaving the task to its token.
aborting_none(t) == aborted
aborting(t) == aborted \cup {t}

\* cancel answers whether the handle was there.
Cancel(t) ==
    IF t \in handles
    THEN /\ handles' = handles \ {t}
         /\ cancelled' = cancelled \cup {t}
         /\ aborted' = aborting(t)
         /\ UNCHANGED server
    ELSE UNCHANGED tasks

\* The end of run_server: cancel_all, and the runtime goes away.
ServerEnds ==
    /\ Up /\ server' = "down"
    /\ handles' = {}
    /\ cancelled' = cancelled \cup handles
    /\ aborted' = aborted \cup handles

\* Not yet told to stop at an await.
Awake(t) == t \notin aborted

\* has_running, for the tasks of one type of which some are alive.
HasRunning(ofType, alive) == handles \cap ofType \cap alive # {}

\* cleanup, before a list, forgets the tasks that are no longer alive.
Cleanup(alive) ==
    /\ Up /\ ~ (handles \subseteq alive)
    /\ handles' = handles \cap alive
    /\ UNCHANGED <<server, cancelled, aborted>>
=============================================================================
