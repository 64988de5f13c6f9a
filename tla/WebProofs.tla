------------------------------- MODULE WebProofs -------------------------------
(***************************************************************************)
(* Theorems about Web, for any proxies, toggles, jobs, workloads and       *)
(* requests, and any configuration of them.                                *)
(***************************************************************************)
EXTENDS Web, Integers, FiniteSetTheorems, SequenceTheorems, TLAPS

-----------------------------------------------------------------------------
(***************************************************************************)
(* Types.                                                                  *)
(***************************************************************************)
StartPcs == {"idle", "storing", "spawning", "inserting", "replied"}
Begun == {"binding", "loop", "writing", "flushing", "draining", "clearing"}
TaskPcs == {"none", "created", "binding", "loop", "writing", "flushing", "draining",
            "clearing", "done", "dropped"}
Captures == Nat \cup {None}
ProxyOrNone == Proxies \cup {None}

ProxyState == [running : BOOLEAN, task : ProxyOrNone, tx : ProxyOrNone,
               capturing : BOOLEAN, capture : Captures]

ToggleState == [pc : {"idle", "sent", "answered", "done"}, op : {None, "start", "stop"},
                proxy : ProxyOrNone, reply : {None, "ok", "refused", "lost"},
                capture : Captures]

ProxyTypes ==
    /\ web.at_once \in BOOLEAN /\ web.timeouts \in BOOLEAN
    /\ ps \in ProxyState
    /\ start \in [Proxies -> StartPcs]
    /\ toggle \in [Toggles -> ToggleState]
    /\ task \in [Proxies -> TaskPcs]
    /\ listening \subseteq Proxies
    /\ no_capture \in [Proxies -> BOOLEAN]
    /\ commands \in [Proxies -> Seq(Toggles)]
    /\ target \in [Proxies -> Captures]
    /\ closing \in [Proxies -> [capture : Captures, toggle : Toggles \cup {None}]]
    /\ staged \in Seq(Nat)

RequestPcs == {"idle", "inserted", "spawned", "replied"}
JobPcs == {"none", "reading", "replaying", "finishing", "failing", "done", "lost",
           "dropped"}

JobKinds == {"replay", "ab", "pipeline", "tuning"}

RunRow == [status : {"none", "running", "completed", "failed"},
           exit_code : {None, 0, 3, 5}, report : BOOLEAN, results : BOOLEAN]

WriterState == [pc : {"idle", "looked", "written", "done", "failed"},
                source : Workloads \cup {None}, new : Workloads \cup {None}]

JobTypes ==
    /\ covers.at_once \in BOOLEAN
    /\ request \in [Jobs -> RequestPcs]
    /\ job \in [Jobs -> JobPcs]
    /\ sessions \in [Jobs -> SUBSET Sessions]
    /\ runs \in [Jobs -> RunRow]
    /\ writer \in [Writers -> WriterState]
    /\ disk \subseteq Workloads
    /\ \A j \in Jobs : (request[j] = "idle" /\ job[j] = "none") \/ Kind(j) \in JobKinds

\* Nobody has asked for anything.
LEMMA TypeInit == Init => ProxyTypes /\ JobTypes
<1> SUFFICES ASSUME Init PROVE ProxyTypes /\ JobTypes
  OBVIOUS
<1>1. PICK s \in Setups : web = s.web /\ covers = s.covers
  BY DEF Init
<1>2. web.at_once \in BOOLEAN /\ web.timeouts \in BOOLEAN /\ covers.at_once \in BOOLEAN
  BY <1>1, WebAssumption
<1>3. ProxyTypes
  BY <1>2 DEF Init, ProxyInit, ProxyTypes, ProxyState, ToggleState, ProxyOrNone, Captures,
              StartPcs, TaskPcs, Begun, Ended, Stopped, NotCalled, Nothing
<1>4. JobTypes
  BY <1>1, <1>2, WebAssumption DEF Init, JobsInit, JobTypes, RequestPcs, JobPcs, RunRow, NoRow, WriterState
<1>5. QED
  BY <1>3, <1>4


\* A sequence is not changed outside its domain.
LEMMA ExceptOutside ==
  ASSUME NEW s \in Seq(Nat), NEW i, i \notin 1..Len(s), NEW e
  PROVE  [s EXCEPT ![i] = e] = s
<1>1. DOMAIN s = 1..Len(s)
  OBVIOUS
<1>2. s = [j \in DOMAIN s |-> s[j]]
  OBVIOUS
<1>3. [s EXCEPT ![i] = e] = [j \in DOMAIN s |-> IF i = j THEN e ELSE s[j]]
  BY Zenon
<1>4. QED
  BY <1>1, <1>2, <1>3

\* What the loop answers, and what it leaves unanswered.
LEMMA Answers ==
  \A r \in ToggleState :
     /\ [r EXCEPT !.pc = "done"] \in ToggleState
     /\ [r EXCEPT !.pc = "answered", !.reply = "lost"] \in ToggleState
     /\ \A a \in {"ok", "refused"}, c \in Captures :
           [r EXCEPT !.pc = "answered", !.reply = a, !.capture = c] \in ToggleState
BY DEF ToggleState

LEMMA ReplyType ==
  ASSUME toggle \in [Toggles -> ToggleState],
         NEW t \in Toggles, NEW answer \in {"ok", "refused"}, NEW c \in Captures,
         Reply(t, answer, c)
  PROVE  toggle' \in [Toggles -> ToggleState]
<1> DEFINE r == [toggle[t] EXCEPT !.pc = "answered", !.reply = answer, !.capture = c]
<1>1. r \in ToggleState
  BY Answers
<1>2. toggle' = toggle \/ toggle' = [toggle EXCEPT ![t] = r]
  BY Zenon DEF Reply
<1> HIDE DEF r
<1>3. QED
  BY <1>1, <1>2

\* What is taken from the loop and what it then writes.
LEMMA CloseType ==
  ASSUME closing \in [Proxies -> [capture : Captures, toggle : Toggles \cup {None}]],
         target \in [Proxies -> Captures], no_capture \in [Proxies -> BOOLEAN],
         NEW p \in Proxies, NEW t \in Toggles \cup {None}, Close(p, t)
  PROVE  /\ closing' \in [Proxies -> [capture : Captures, toggle : Toggles \cup {None}]]
         /\ target' \in [Proxies -> Captures] /\ no_capture' \in [Proxies -> BOOLEAN]
<1>1. [capture |-> target[p], toggle |-> t] \in [capture : Captures, toggle : Toggles \cup {None}]
  OBVIOUS
<1>2. QED
  BY <1>1 DEF Close, Captures

LEMMA DropReceiverType ==
  ASSUME toggle \in [Toggles -> ToggleState], commands \in [Proxies -> Seq(Toggles)],
         NEW p \in Proxies, DropReceiver(p)
  PROVE  toggle' \in [Toggles -> ToggleState] /\ commands' \in [Proxies -> Seq(Toggles)]
<1>1. \A t \in Toggles : [toggle[t] EXCEPT !.pc = "answered", !.reply = "lost"] \in ToggleState
  BY Answers
<1>2. toggle' \in [Toggles -> ToggleState]
  BY <1>1, Zenon DEF DropReceiver
<1>3. <<>> \in Seq(Toggles)
  OBVIOUS
<1>4. commands' \in [Proxies -> Seq(Toggles)]
  BY <1>3, Zenon DEF DropReceiver
<1>5. QED
  BY <1>2, <1>4

\* A step of the proxy's side.
LEMMA ProxyTypeStep == ProxyTypes /\ ProxyNext => ProxyTypes'
<1> SUFFICES ASSUME ProxyTypes, ProxyNext PROVE ProxyTypes'
  OBVIOUS
<1> USE DEF ProxyTypes, tasks, requesting, proxying, kept, At, Goto
<1>0. None \in Captures /\ None \in ProxyOrNone /\ Proxies \subseteq ProxyOrNone
  BY DEF Captures, ProxyOrNone
<1>1. ASSUME NEW p \in Proxies, StartSteps(p) PROVE ProxyTypes'
  <2>1. CASE CheckRunning(p)
    BY <2>1 DEF CheckRunning, StartPcs
  <2>2. CASE StoreSender(p)
    BY <2>2, <1>0 DEF StoreSender, StartPcs, ProxyState
  <2>3. CASE SpawnTask(p)
    BY <2>3 DEF SpawnTask, StartPcs, TaskPcs
  <2>4. CASE InsertHandle(p)
    BY <2>4 DEF InsertHandle, StartPcs
  <2>5. QED
    BY <1>1, <2>1, <2>2, <2>3, <2>4 DEF StartSteps
<1>2. ASSUME NEW p \in Proxies, TaskSteps(p) PROVE ProxyTypes'
  <2>0. \A pc \in TaskPcs : Goto(p, pc) => task' \in [Proxies -> TaskPcs]
    OBVIOUS
  <2>1. CASE TaskBegins(p)
    <3>1. ps' \in ProxyState
      BY <2>1, <1>0 DEF TaskBegins, ProxyState
    <3>2. QED
      BY <3>1, <2>0, <2>1 DEF TaskBegins, TaskPcs
  <2>2. CASE Bind(p)
    BY <2>2, <2>0 DEF Bind, TaskPcs
  <2>3. CASE BindFails(p) \/ Drained(p) \/ DropTask(p)
    BY <2>3, <2>0, DropReceiverType DEF BindFails, Drained, DropTask, TaskPcs
  <2>4. CASE StartCapture(p)
    <3> DEFINE t == Head(commands[p])
               c == Len(staged) + 1
    <3>1. t \in Toggles /\ commands' \in [Proxies -> Seq(Toggles)] /\ c \in Captures
      BY <2>4 DEF StartCapture, NextCommand, Captures
    <3>2. CASE target[p] # None
      BY <3>1, <3>2, <1>0, <2>4, ReplyType DEF StartCapture
    <3>3. CASE target[p] = None
      <4>1. toggle' \in [Toggles -> ToggleState]
        BY <3>1, <3>3, <2>4, ReplyType DEF StartCapture
      <4>2. target' = [target EXCEPT ![p] = c] /\ staged' = Append(staged, 0)
            /\ no_capture' = [no_capture EXCEPT ![p] = FALSE]
        BY <3>3, <2>4 DEF StartCapture
      <4>3. QED
        BY <3>1, <4>1, <4>2, <2>4 DEF StartCapture
    <3>4. QED
      BY <3>2, <3>3
  <2>5. CASE StopCapture(p)
    <3> DEFINE t == Head(commands[p])
    <3>1. t \in Toggles /\ commands' \in [Proxies -> Seq(Toggles)]
      BY <2>5 DEF StopCapture, NextCommand
    <3>2. CASE target[p] = None
      BY <3>1, <3>2, <1>0, <2>5, ReplyType DEF StopCapture
    <3>3. CASE target[p] # None
      BY <3>1, <3>3, <2>5, <2>0, CloseType DEF StopCapture, TaskPcs
    <3>4. QED
      BY <3>2, <3>3
  <2>6. CASE WriteCapture(p) \/ FlushAtEnd(p)
    <3>1. staged' \in Seq(Nat)
      BY <2>6 DEF WriteCapture, FlushAtEnd, Flush, Cleared
    <3>2. closing' \in [Proxies -> [capture : Captures, toggle : Toggles \cup {None}]]
      <4>1. Nothing \in [capture : Captures, toggle : Toggles \cup {None}]
        BY <1>0 DEF Nothing
      <4>2. closing' = [closing EXCEPT ![p] = Nothing]
        BY <2>6 DEF WriteCapture, FlushAtEnd
      <4>3. QED
        BY <4>1, <4>2
    <3>3. task' \in [Proxies -> TaskPcs] /\ listening' \subseteq Proxies
      BY <2>6, <2>0 DEF WriteCapture, FlushAtEnd, TaskPcs
    <3>4. toggle' \in [Toggles -> ToggleState]
      <4>1. CASE FlushAtEnd(p)
        BY <4>1 DEF FlushAtEnd
      <4>2. CASE WriteCapture(p) /\ closing[p].toggle \in Toggles
        <5>1. PICK answer \in {"ok", "refused"} :
                 Reply(closing[p].toggle, answer, closing[p].capture)
          BY <4>2 DEF WriteCapture
        <5>2. QED
          BY <4>2, <5>1, ReplyType
      <4>3. CASE WriteCapture(p) /\ closing[p].toggle \notin Toggles
        BY <4>3, WebAssumption DEF WriteCapture, Reply
      <4>4. QED
        BY <2>6, <4>1, <4>2, <4>3
    <3>5. QED
      BY <2>6, <3>1, <3>2, <3>3, <3>4 DEF WriteCapture, FlushAtEnd
  <2>7. CASE LoopEnds(p)
    <3>1. CASE target[p] # None
      BY <2>7, <3>1, <2>0, CloseType DEF LoopEnds, TaskPcs
    <3>2. CASE target[p] = None
      BY <2>7, <3>2, <2>0 DEF LoopEnds, TaskPcs
    <3>3. QED
      BY <3>1, <3>2
  <2>8. CASE ClearState(p)
    <3>1. ps' \in ProxyState
      BY <2>8, <1>0 DEF ClearState, Stopped, ProxyState
    <3>2. QED
      BY <3>1, <2>0, <2>8 DEF ClearState, TaskPcs
  <2>9. QED
    BY <1>2, <2>1, <2>2, <2>3, <2>4, <2>5, <2>6, <2>7, <2>8 DEF TaskSteps
<1>3. ASSUME NEW p \in Proxies, Query(p) PROVE ProxyTypes'
  <2>1. target[p] \in Nat
    BY <1>3 DEF Query, Captures
  <2>2. staged' \in Seq(Nat)
    <3>1. CASE target[p] \in 1..Len(staged)
      <4>1. staged[target[p]] + 1 \in Nat
        BY <3>1
      <4>2. QED
        BY <1>3, <3>1, <4>1, ExceptSeq DEF Query
    <3>2. CASE target[p] \notin 1..Len(staged)
      BY <1>3, <3>2, ExceptOutside DEF Query
    <3>3. QED
      BY <3>1, <3>2
  <2>3. QED
    BY <1>3, <2>2 DEF Query
<1>4. ASSUME NEW t \in Toggles, ToggleSteps(t) PROVE ProxyTypes'
  <2>0. toggle[t] \in ToggleState /\ toggle[t].capture \in Captures
    BY DEF ToggleState
  <2>1. CASE SendCommand(t)
    <3>1. ps.tx \in Proxies
      BY <2>1 DEF SendCommand, Asks, ProxyState, ProxyOrNone
    <3>2. \A op \in {"start", "stop"} : Asked(op) \in ToggleState
      BY <3>1, <1>0 DEF Asked, ToggleState
    <3>3. toggle' \in [Toggles -> ToggleState]
      BY <2>1, <3>2 DEF SendCommand
    <3>4. commands' \in [Proxies -> Seq(Toggles)]
      BY <2>1, <3>1 DEF SendCommand
    <3>5. QED
      BY <2>1, <3>3, <3>4 DEF SendCommand
  <2>2. CASE SendFails(t)
    <3>1. toggle' \in [Toggles -> ToggleState]
      BY <2>2, <1>0 DEF SendFails, NotCalled, ToggleState
    <3>2. ps' \in ProxyState /\ no_capture' \in [Proxies -> BOOLEAN]
      BY <2>2, <1>0 DEF SendFails, CaptureOff, ProxyState
    <3>3. QED
      BY <2>2, <3>1, <3>2 DEF SendFails
  <2>3. CASE ToggleReturns(t) \/ ToggleTimesOut(t)
    <3>1. toggle' \in [Toggles -> ToggleState]
      BY <2>3, <2>0, Answers DEF ToggleReturns, ToggleTimesOut
    <3>2. ps' \in ProxyState
      <4>1. \A b \in BOOLEAN, c \in Captures : [ps EXCEPT !.capturing = b, !.capture = c] \in ProxyState
        BY DEF ProxyState
      <4>2. PICK b \in BOOLEAN, c \in {None, MadeUp, toggle[t].capture} :
               ps' = ps \/ ps' = [ps EXCEPT !.capturing = b, !.capture = c]
        BY <2>3, Zenon DEF ToggleReturns, ToggleTimesOut, Answered, shown, CaptureOn, CaptureOff
      <4>3. c \in Captures
        BY <1>0, <2>0 DEF MadeUp, Captures
      <4>4. [ps EXCEPT !.capturing = b, !.capture = c] \in ProxyState
        BY <4>1, <4>3
      <4>5. QED
        BY <4>2, <4>4, Zenon
    <3>3. no_capture' \in [Proxies -> BOOLEAN]
      <4>1. \/ no_capture' = no_capture
            \/ \E q : no_capture' = [no_capture EXCEPT ![q] = TRUE]
            \/ \E q : no_capture' = [no_capture EXCEPT ![q] = FALSE]
        BY <2>3, Zenon DEF ToggleReturns, ToggleTimesOut, Answered, CaptureOn, CaptureOff
      <4>2. QED
        BY <4>1
    <3>4. QED
      BY <2>3, <3>1, <3>2, <3>3 DEF ToggleReturns, ToggleTimesOut
  <2>4. QED
    BY <1>4, <2>1, <2>2, <2>3 DEF ToggleSteps
<1>5. CASE StopProxy
  BY <1>5 DEF StopProxy
<1>6. QED
  BY <1>1, <1>2, <1>3, <1>4, <1>5 DEF ProxyNext

\* The row of a job that completes.
CompletedOf(j, row) ==
    \E c \in {0, 3} :
        /\ row.status = "completed" /\ row.exit_code \in {None, c}
        /\ row.results <=> Kind(j) = "replay"
        /\ Kind(j) = "replay" => row.report

LEMMA CompletedRow ==
  ASSUME JobTypes, NEW j \in Jobs, JobCompletes(j), ~LoseRow(j)
  PROVE  \E row \in RunRow : CompletedOf(j, row) /\ runs' = [runs EXCEPT ![j] = row]
<1> DEFINE e(c) == CASE Kind(j) = "replay"   -> Row("completed", 0, TRUE, TRUE)
                     [] Kind(j) = "ab"       -> Row("completed", 0, TRUE, FALSE)
                     [] Kind(j) = "pipeline" -> Row("completed", c, c = 0, FALSE)
                     [] Kind(j) = "tuning"   -> Row("completed", None, FALSE, FALSE)
<1>1. PICK c \in {0, 3} : runs' = [runs EXCEPT ![j] = e(c)]
  BY DEF JobCompletes
<1>2. Kind(j) \in JobKinds
  BY DEF JobCompletes, JobTypes, In
<1>3. e(c) \in RunRow /\ CompletedOf(j, e(c))
  BY <1>2 DEF JobKinds, Row, RunRow, CompletedOf
<1>4. QED
  BY <1>1, <1>3

\* A step of the jobs' side.
LEMMA JobTypeStep == JobTypes /\ JobsNext => JobTypes'
<1> SUFFICES ASSUME JobTypes, JobsNext PROVE JobTypes'
  OBVIOUS
<1> USE DEF JobTypes, JobKinds, Kind, tasks, working, stored, In, Move, Write
<1>1. ASSUME NEW j \in Jobs, RequestSteps(j) PROVE JobTypes'
  <2>1. CASE StartRun(j)
    <3>1. Row("running", None, FALSE, FALSE) \in RunRow
      BY DEF Row, RunRow
    <3>2. QED
      BY <2>1, <3>1 DEF StartRun, InsertRun, RequestPcs
  <2>2. CASE StartTuning(j) \/ InsertJob(j)
    BY <2>2 DEF StartTuning, InsertJob, RequestPcs, jobVars
  <2>3. CASE SpawnJob(j)
    BY <2>3 DEF SpawnJob, RequestPcs, JobPcs
  <2>4. QED
    BY <1>1, <2>1, <2>2, <2>3 DEF RequestSteps
<1>2. ASSUME NEW j \in Jobs, JobSteps(j) PROVE JobTypes'
  <2>1. CASE BeginReplay(j) \/ NextVariant(j)
    <3>1. TheWork(j) \subseteq Sessions
      BY WebAssumption DEF TheWork
    <3>2. QED
      BY <2>1, <3>1 DEF BeginReplay, NextVariant, Spawned, JobPcs
  <2>2. CASE ReadFails(j) \/ AllReturned(j) \/ JobFails(j) \/ DropJob(j)
    BY <2>2 DEF ReadFails, AllReturned, JobFails, DropJob, Alive, JobPcs
  <2>6. CASE (JobCompletes(j) \/ JobFailed(j)) /\ LoseRow(j)
    <3>1. runs' = runs /\ job' = [job EXCEPT ![j] = "lost"]
      BY <2>6 DEF LoseRow
    <3>2. UNCHANGED <<tasks, covers, request, sessions, variant, stored, demo>>
      BY <2>6 DEF JobCompletes, JobFailed
    <3>3. "lost" \in JobPcs
      BY DEF JobPcs
    <3>4. job' \in [Jobs -> JobPcs]
      BY <3>1, <3>3
    <3>5. job[j] # "none"
      BY <2>6 DEF JobCompletes, JobFailed
    <3>6. \A i \in Jobs : (request'[i] = "idle" /\ job'[i] = "none") \/ Kind(i)' \in JobKinds
      BY <3>1, <3>2, <3>5
    <3>7. QED
      BY <3>1, <3>2, <3>4, <3>6
  <2>3. CASE JobCompletes(j) /\ ~LoseRow(j)
    <3>1. \E row \in RunRow : runs' = [runs EXCEPT ![j] = row]
      BY <2>3, CompletedRow DEF JobCompletes
    <3>2. runs' \in [Jobs -> RunRow]
      BY <3>1
    <3>3. QED
      BY <2>3, <3>2 DEF JobCompletes, JobPcs
  <2>4. CASE JobFailed(j) /\ ~LoseRow(j)
    <3>1. failed_row(j) \in RunRow
      BY DEF failed_row, Row, NoRow, RunRow
    <3>2. QED
      BY <2>4, <3>1 DEF JobFailed, JobPcs
  <2>5. QED
    BY <1>2, <2>1, <2>2, <2>3, <2>4, <2>6 DEF JobSteps
<1>3. ASSUME NEW j \in Jobs, CancelJob(j) PROVE JobTypes'
  BY <1>3 DEF CancelJob, jobVars
<1>4. ASSUME NEW j \in Jobs, Compare(j) PROVE JobTypes'
  <2>1. Row("completed", runs[j].exit_code, TRUE, TRUE) \in RunRow
    BY DEF Row, RunRow
  <2>2. QED
    BY <1>4, <2>1 DEF Compare
<1>5. ASSUME NEW j \in Jobs, NEW s \in Sessions, SessionEnds(j, s) PROVE JobTypes'
  BY <1>5 DEF SessionEnds
<1>6. ASSUME NEW w \in Writers, WriterSteps(w) PROVE JobTypes'
  <2>1. \A pc \in {"looked", "written", "done", "failed"} :
           Write(w, pc) => writer' \in [Writers -> WriterState]
    BY DEF WriterState
  <2>2. ASSUME NEW n \in Workloads, Import(w, n) \/ Upload(w, n) PROVE JobTypes'
    <3>1. [pc |-> "written", source |-> None, new |-> n] \in WriterState
      BY DEF WriterState
    <3>2. QED
      BY <2>2, <3>1 DEF Import, Upload, NewFile
  <2>3. ASSUME NEW n \in Workloads, Derive(w, n) PROVE JobTypes'
    <3>1. Source \in disk => [pc |-> "written", source |-> Source, new |-> n] \in WriterState
      BY DEF WriterState
    <3>2. QED
      BY <2>1, <2>3, <3>1 DEF Derive
  <2>4. CASE ImportRefused(w) \/ UploadRefused(w) \/ Look(w)
    BY <2>1, <2>4 DEF ImportRefused, UploadRefused, Look
  <2>5. CASE Register(w) \/ Delete(w)
    BY <2>1, <2>5 DEF Register, Delete
  <2>6. QED
    BY <1>6, <2>2, <2>3, <2>4, <2>5 DEF WriterSteps
<1>7. CASE DemoSteps
  BY <1>7 DEF DemoSteps, DemoStart, DemoEnds, DemoClientGone, DemoReset
<1>8. QED
  BY <1>1, <1>2, <1>3, <1>4, <1>5, <1>6, <1>7 DEF JobsNext

TypeInv == ProxyTypes /\ JobTypes

\* What is left alone keeps its type.
LEMMA ProxyTypesKept == ProxyTypes /\ UNCHANGED proxyVars => ProxyTypes'
BY DEF ProxyTypes, proxyVars, requesting, proxying, kept

LEMMA JobTypesKept == JobTypes /\ UNCHANGED jobVars => JobTypes'
BY DEF JobTypes, Kind, jobVars, working, stored

LEMMA TypeStep == TypeInv /\ [Next]_vars => TypeInv'
<1> SUFFICES ASSUME TypeInv, [Next]_vars PROVE TypeInv'
  OBVIOUS
<1>1. ProxyTypes'
  BY ProxyTypeStep, ProxyTypesKept DEF TypeInv, Next, vars, CancelProxy, ListTasks, Shutdown
<1>2. JobTypes'
  BY JobTypeStep, JobTypesKept DEF TypeInv, Next, vars, CancelProxy, ListTasks, Shutdown
<1>3. QED
  BY <1>1, <1>2 DEF TypeInv

\* The state of the web server is well typed in every behaviour.
THEOREM TypeCorrect == Spec => []TypeInv
<1>1. Init => TypeInv
  BY TypeInit DEF TypeInv
<1>2. QED
  BY <1>1, TypeStep, PTL DEF Spec

-----------------------------------------------------------------------------
(***************************************************************************)
(* Runs.  JobShape adds to the property what a row and the sessions look   *)
(* like before the job's end.                                              *)
(***************************************************************************)
JobShape ==
    \A j \in Jobs :
        /\ request[j] \in {"idle", "inserted"} <=> job[j] = "none"
        /\ request[j] = "idle" => runs[j] = NoRow
        /\ job[j] \in {"none", "reading", "finishing"} => sessions[j] = {}
        /\ Kind(j) # "tuning" /\ request[j] # "idle" /\ job[j] # "done" => runs[j].status = "running"
        /\ Kind(j) = "tuning" => runs[j].status \in {"none", "completed"}
        /\ runs[j].results => runs[j].status = "completed"
        /\ runs[j].status = "running" /\ job[j] # "none" /\ Awake(j) =>
              j \in Alive \/ job[j] = "lost"

RowsTrue == JobShape /\ RunsTrue

\* Whoever is told to stop stays told.
LEMMA AbortedGrows == [Next]_vars => aborted \subseteq aborted'
<1> SUFFICES ASSUME [Next]_vars PROVE aborted \subseteq aborted'
  OBVIOUS
<1> USE DEF tasks, Cancel, aborting
<1>1. CASE ProxyNext
  BY ZenonT(40), <1>1
     DEF ProxyNext, StartSteps, TaskSteps, ToggleSteps, CheckRunning, StoreSender, SpawnTask,
         InsertHandle, Insert, TaskBegins, Bind, BindFails, StartCapture, StopCapture,
         WriteCapture, LoopEnds, FlushAtEnd, Drained, ClearState, DropTask, Query,
         SendCommand, SendFails, ToggleReturns, ToggleTimesOut, StopProxy
<1>2. CASE JobsNext
  BY ZenonT(40), <1>2
     DEF JobsNext, RequestSteps, JobSteps, WriterSteps, DemoSteps, StartRun, StartTuning,
         SpawnJob, InsertJob, Insert, BeginReplay, ReadFails, NextVariant, AllReturned,
         JobFails, JobCompletes, JobFailed, LoseRow, DropJob, CancelJob, Compare, SessionEnds,
         Import, Upload, Derive, ImportRefused, UploadRefused, Look, Register, Delete,
         DemoStart, DemoEnds, DemoClientGone, DemoReset
<1>3. CASE (\E p \in Proxies : CancelProxy(p)) \/ ListTasks \/ Shutdown
  BY <1>3 DEF CancelProxy, ListTasks, Cleanup, Shutdown, ServerEnds
<1>4. CASE UNCHANGED vars
  BY <1>4 DEF vars
<1>5. QED
  BY <1>1, <1>2, <1>3, <1>4 DEF Next

\* One job's part of RowsTrue.
RowTrue(j) ==
    /\ request[j] \in {"idle", "inserted"} <=> job[j] = "none"
    /\ request[j] = "idle" => runs[j] = NoRow
    /\ job[j] \in {"none", "reading", "finishing"} => sessions[j] = {}
    /\ Kind(j) # "tuning" /\ request[j] # "idle" /\ job[j] # "done" => runs[j].status = "running"
    /\ Kind(j) = "tuning" => runs[j].status \in {"none", "completed"}
    /\ runs[j].results => runs[j].status = "completed"
    /\ runs[j].status = "completed" => sessions[j] = {} /\ job[j] = "done"
    /\ runs[j].status = "failed" => job[j] = "done" /\ runs[j].exit_code = 5
    /\ runs[j].status = "running" /\ request[j] = "replied" /\ Awake(j) =>
          j \in Alive \/ job[j] = "lost"
    /\ runs[j].status = "running" /\ job[j] # "none" /\ Awake(j) =>
          j \in Alive \/ job[j] = "lost"
    /\ job[j] \in {"dropped", "lost"} /\ Kind(j) # "tuning" => runs[j].status = "running"
    /\ runs[j].report /\ Kind(j) = "replay" => runs[j].results

LEMMA RowsTrueByJob == RowsTrue <=> \A j \in Jobs : RowTrue(j)
BY DEF RowsTrue, JobShape, RunsTrue, RowTrue

\* A job whose own state is left alone stays as it is.
LEMMA RowKept ==
  ASSUME NEW i \in Jobs, RowTrue(i), aborted \subseteq aborted',
         request'[i] = request[i], job'[i] = job[i], sessions'[i] = sessions[i],
         runs'[i] = runs[i], covers' = covers
  PROVE  RowTrue(i)'
BY DEF RowTrue, Awake, Alive, Kind

LEMMA RowsStep == TypeInv /\ RowsTrue /\ [Next]_vars => RowsTrue'
<1> SUFFICES ASSUME TypeInv, \A i \in Jobs : RowTrue(i), [Next]_vars, NEW i \in Jobs
             PROVE  RowTrue(i)'
  BY RowsTrueByJob DEF RowsTrue, JobShape, RunsTrue, RowTrue
<1>a. aborted \subseteq aborted' /\ RowTrue(i)
  BY AbortedGrows
<1> USE DEF tasks, working, stored, In, Move
<1>t. /\ request \in [Jobs -> RequestPcs] /\ job \in [Jobs -> JobPcs]
      /\ sessions \in [Jobs -> SUBSET Sessions] /\ runs \in [Jobs -> RunRow]
  BY DEF TypeInv, JobTypes
<1>1. CASE UNCHANGED jobVars
  BY <1>1, <1>a, RowKept DEF jobVars
<1>2. CASE \E w \in Writers : WriterSteps(w)
  BY <1>2, <1>a, RowKept
     DEF WriterSteps, Import, Upload, Derive, ImportRefused, UploadRefused, Look, Register, Delete
<1>3. CASE DemoSteps
  BY <1>3, <1>a, RowKept DEF DemoSteps, DemoStart, DemoEnds, DemoClientGone, DemoReset
<1>4. ASSUME NEW j \in Jobs, RequestSteps(j) PROVE RowTrue(i)'
  <2>1. CASE i # j
    BY <1>4, <1>a, <1>t, <2>1, RowKept
       DEF RequestSteps, StartRun, InsertRun, StartTuning, SpawnJob, InsertJob, jobVars
  <2>2. CASE i = j /\ StartRun(j)
    <3>1. runs'[j] = Row("running", None, FALSE, FALSE) /\ request'[j] = "inserted"
      BY <1>t, <2>2 DEF StartRun, InsertRun
    <3>2. job'[j] = "none" /\ sessions'[j] = {} /\ Kind(j)' = Kind(j) /\ Kind(j) # "tuning"
      BY <1>a, <2>2 DEF StartRun, RowTrue, Kind
    <3>3. QED
      BY <2>2, <3>1, <3>2 DEF RowTrue, Row
  <2>3. CASE i = j /\ StartTuning(j)
    BY <1>a, <1>t, <2>3 DEF StartTuning, RowTrue, Kind, NoRow
  <2>4. CASE i = j /\ (SpawnJob(j) \/ InsertJob(j))
    BY <1>a, <1>t, <2>4 DEF SpawnJob, InsertJob, RowTrue, Kind, Alive, Awake
  <2>5. QED
    BY <1>4, <2>1, <2>2, <2>3, <2>4 DEF RequestSteps
<1>5. ASSUME NEW j \in Jobs, JobSteps(j) PROVE RowTrue(i)'
  <2>1. CASE i # j
    BY <1>5, <1>a, <1>t, <2>1, RowKept
       DEF JobSteps, BeginReplay, ReadFails, NextVariant, Spawned, AllReturned, JobFails,
           JobCompletes, JobFailed, LoseRow, DropJob
  <2>2. CASE i = j /\ (BeginReplay(j) \/ NextVariant(j))
    BY <1>a, <1>t, <2>2 DEF BeginReplay, NextVariant, Spawned, RowTrue, Kind, Alive, Awake
  <2>3. CASE i = j /\ (ReadFails(j) \/ AllReturned(j) \/ JobFails(j))
    BY <1>a, <1>t, <2>3
       DEF ReadFails, AllReturned, all_returned, JobFails, RowTrue, Kind, Alive, Awake
  <2>8. CASE i = j /\ (JobCompletes(j) \/ JobFailed(j)) /\ LoseRow(j)
    <3>1. runs'[j] = runs[j] /\ job'[j] = "lost" /\ sessions'[j] = sessions[j]
          /\ request'[j] = request[j] /\ Kind(j)' = Kind(j) /\ job[j] \in {"finishing", "failing"}
      BY <1>t, <2>8 DEF LoseRow, JobCompletes, JobFailed, Kind
    <3>2. QED
      BY <1>a, <2>8, <3>1 DEF RowTrue
  <2>4. CASE i = j /\ JobCompletes(j) /\ ~LoseRow(j)
    <3>1. PICK row \in RunRow : CompletedOf(j, row) /\ runs' = [runs EXCEPT ![j] = row]
      BY <2>4, CompletedRow DEF TypeInv
    <3>2. job'[j] = "done" /\ sessions'[j] = {} /\ runs'[j] = row /\ Kind(j)' = Kind(j)
          /\ request'[j] = request[j] /\ request[j] \notin {"idle", "inserted"}
      BY <1>a, <1>t, <2>4, <3>1 DEF JobCompletes, RowTrue, Kind
    <3>3. QED
      BY <2>4, <3>1, <3>2 DEF CompletedOf, RowTrue, RunRow
  <2>5. CASE i = j /\ JobFailed(j) /\ ~LoseRow(j)
    BY <1>a, <1>t, <2>5 DEF JobFailed, failed_row, Row, NoRow, RowTrue, Kind
  <2>6. CASE i = j /\ DropJob(j)
    BY <1>a, <1>t, <2>6 DEF DropJob, RowTrue, Kind, Alive, Awake
  <2>7. QED
    BY <1>5, <2>1, <2>2, <2>3, <2>4, <2>5, <2>6, <2>8 DEF JobSteps
<1>6. ASSUME NEW j \in Jobs, CancelJob(j) \/ Compare(j) PROVE RowTrue(i)'
  <2>1. CASE i # j \/ CancelJob(j)
    BY <1>6, <1>a, <1>t, <2>1, RowKept DEF CancelJob, Compare, jobVars
  <2>2. CASE i = j /\ Compare(j)
    <3>1. runs'[j] = Row("completed", runs[j].exit_code, TRUE, TRUE)
      BY <1>t, <2>2 DEF Compare
    <3>2. QED
      BY <1>a, <1>t, <2>2, <3>1 DEF Compare, Row, RowTrue, Kind
  <2>3. QED
    BY <1>6, <2>1, <2>2
<1>7. ASSUME NEW j \in Jobs, NEW s \in Sessions, SessionEnds(j, s) PROVE RowTrue(i)'
  <2>1. CASE i # j
    BY <1>7, <1>a, <1>t, <2>1, RowKept DEF SessionEnds
  <2>2. CASE i = j
    BY <1>7, <1>a, <1>t, <2>2 DEF SessionEnds, RowTrue, Kind, Alive, Awake
  <2>3. QED
    BY <2>1, <2>2
<1>8. QED
  BY <1>1, <1>2, <1>3, <1>4, <1>5, <1>6, <1>7
     DEF Next, JobsNext, CancelProxy, ListTasks, Shutdown, vars

\* A run is shown as completed only when every session it started has returned,
\* and as running only as long as somebody will write its end, or it was
\* cancelled, or the write of its end failed (the code drops that error:
\* replay.rs 129, ab.rs 114, pipeline.rs 109, 151).
THEOREM RunsCorrect == Spec => []RunsTrue
<1>1. Init => RowsTrue
  BY DEF Init, JobsInit, RowsTrue, JobShape, RunsTrue, NoRow
<1>2. RowsTrue => RunsTrue
  BY DEF RowsTrue
<1>3. QED
  BY <1>1, <1>2, RowsStep, TypeCorrect, PTL DEF Spec

-----------------------------------------------------------------------------
(***************************************************************************)
(* Workloads, and one tuning at a time.                                    *)
(***************************************************************************)
LEMMA ListedKept == ListedIsThere /\ UNCHANGED <<covers, disk, rows, writer>> => ListedIsThere'
BY DEF ListedIsThere, Source

LEMMA ListedStep == TypeInv /\ ListedIsThere /\ [Next]_vars => ListedIsThere'
<1> SUFFICES ASSUME TypeInv, ListedIsThere, [Next]_vars PROVE ListedIsThere'
  OBVIOUS
<1> USE DEF tasks, working, stored
<1>t. writer \in [Writers -> WriterState]
  BY DEF TypeInv, JobTypes
<1>1. CASE UNCHANGED jobVars
  BY <1>1, ListedKept DEF jobVars
<1>2. ASSUME NEW j \in Jobs, RequestSteps(j) \/ JobSteps(j) \/ CancelJob(j) \/ Compare(j)
      PROVE  ListedIsThere'
  BY <1>2, ListedKept
     DEF RequestSteps, JobSteps, StartRun, StartTuning, SpawnJob, InsertJob, BeginReplay,
         ReadFails, NextVariant, AllReturned, JobFails, JobCompletes, JobFailed, DropJob,
         CancelJob, Compare, jobVars
<1>3. ASSUME NEW j \in Jobs, NEW s \in Sessions, SessionEnds(j, s) PROVE ListedIsThere'
  BY <1>3, ListedKept DEF SessionEnds
<1>4. CASE DemoSteps
  BY <1>4, ListedKept DEF DemoSteps, DemoStart, DemoEnds, DemoClientGone, DemoReset
<1>5. ASSUME NEW w \in Writers, WriterSteps(w) PROVE ListedIsThere'
  <2> USE DEF Write
  <2>0. Source' = Source
    BY <1>5
       DEF Source, WriterSteps, Import, Upload, Derive, ImportRefused, UploadRefused, Look,
           Register, Delete
  <2>1. CASE Delete(w)
    <3>1. CASE writer' = [writer EXCEPT ![w].pc = "failed"] /\ rows' = rows
      <4>1. writer'[w].pc = "failed"
        BY <1>t, <3>1
      <4>2. QED
        BY <2>0, <2>1, <3>1, <4>1 DEF Delete, ListedIsThere
    <3>2. CASE writer' = [writer EXCEPT ![w].pc = "done"] /\ rows' = rows \ {Source}
      BY <2>0, <2>1, <3>2 DEF Delete, ListedIsThere
    <3>3. QED
      BY <2>1, <3>1, <3>2 DEF Delete
  <2>2. CASE ~Delete(w)
    <3>1. disk \subseteq disk'
      BY <1>5, <2>2 DEF WriterSteps, Import, Upload, Derive, ImportRefused, UploadRefused, Look, Register
    <3>2. rows' \subseteq rows \cup disk'
      BY <1>5, <2>2
         DEF WriterSteps, Import, Upload, Derive, ImportRefused, UploadRefused, Look, Register,
             readable
    <3>3. \A v \in Writers : writer[v].pc = "failed" => writer'[v].pc = "failed"
      BY <1>5, <1>t, <2>2
         DEF WriterSteps, Import, Upload, NewFile, Derive, ImportRefused, UploadRefused, Look,
             Does, Register
    <3>4. QED
      BY <2>0, <3>1, <3>2, <3>3 DEF ListedIsThere
  <2>3. QED
    BY <2>1, <2>2
<1>6. QED
  BY <1>1, <1>2, <1>3, <1>4, <1>5 DEF Next, JobsNext, CancelProxy, ListTasks, Shutdown, vars

\* A workload that is listed has its file, except one whose deletion failed
\* after the file was gone.
THEOREM ListedCorrect == Spec => []ListedIsThere
<1>1. Init => ListedIsThere
  BY DEF Init, JobsInit, ListedIsThere
<1>2. QED
  BY <1>1, ListedStep, TypeCorrect, PTL DEF Spec

InFlight(j) == request[j] \in {"inserted", "spawned"}
TuningOn(j) == Kind(j) = "tuning" /\ j \in Alive /\ Awake(j)

\* A start that is answered before the next one is asked finds every tuning
\* that is alive in the table.
TuningsApart ==
    ~covers.at_once =>
        /\ \A i, j \in Jobs : InFlight(i) /\ InFlight(j) => i = j
        /\ \A j \in Jobs : j \in Alive /\ Awake(j) /\ request[j] = "replied" /\ Up => j \in handles
        /\ \A i, j \in Jobs : InFlight(i) /\ Kind(i) = "tuning" /\ TuningOn(j) => i = j
        /\ \A i, j \in Jobs : TuningOn(i) /\ TuningOn(j) => i = j

\* Who leaves the table is told to stop or has ended, and whoever is up was up.
LEMMA TableStep ==
  [Next]_vars => /\ Up' => Up
                 /\ \A j \in Jobs : Up' /\ j \in handles /\ j \notin aborted' /\ j \in Alive => j \in handles'
<1> SUFFICES ASSUME [Next]_vars
             PROVE  /\ Up' => Up
                    /\ \A j \in Jobs : Up' /\ j \in handles /\ j \notin aborted' /\ j \in Alive => j \in handles'
  OBVIOUS
<1> USE DEF tasks, Cancel, aborting, Up
<1>1. CASE ProxyNext
  BY <1>1
     DEF ProxyNext, StartSteps, TaskSteps, ToggleSteps, CheckRunning, StoreSender, SpawnTask,
         InsertHandle, Insert, TaskBegins, Bind, BindFails, StartCapture, StopCapture,
         WriteCapture, LoopEnds, FlushAtEnd, Drained, ClearState, DropTask, Query,
         SendCommand, SendFails, ToggleReturns, ToggleTimesOut, StopProxy
<1>2. CASE JobsNext
  BY ZenonT(40), <1>2
     DEF JobsNext, RequestSteps, JobSteps, WriterSteps, DemoSteps, StartRun, StartTuning,
         SpawnJob, InsertJob, Insert, BeginReplay, ReadFails, NextVariant, AllReturned,
         JobFails, JobCompletes, JobFailed, LoseRow, DropJob, CancelJob, Compare, SessionEnds,
         Import, Upload, Derive, ImportRefused, UploadRefused, Look, Register, Delete,
         Does, DemoStart, DemoEnds, DemoClientGone, DemoReset
<1>3. CASE (\E p \in Proxies : CancelProxy(p)) \/ ListTasks \/ Shutdown
  BY <1>3 DEF CancelProxy, ListTasks, Cleanup, Shutdown, ServerEnds
<1>4. CASE UNCHANGED vars
  BY <1>4 DEF vars
<1>5. QED
  BY <1>1, <1>2, <1>3, <1>4 DEF Next

LEMMA TuningsKept ==
  ASSUME [Next]_vars, TuningsApart, covers' = covers, request' = request, Alive' \subseteq Alive
  PROVE  TuningsApart'
BY TableStep, AbortedGrows DEF TuningsApart, InFlight, TuningOn, Awake, Kind

LEMMA TuningsStep == TypeInv /\ RowsTrue /\ TuningsApart /\ [Next]_vars => TuningsApart'
<1> SUFFICES ASSUME TypeInv, RowsTrue, TuningsApart, [Next]_vars PROVE TuningsApart'
  OBVIOUS
<1> USE DEF tasks, working, stored, In, Move
<1>t. request \in [Jobs -> RequestPcs] /\ job \in [Jobs -> JobPcs]
  BY DEF TypeInv, JobTypes
<1>1. CASE UNCHANGED jobVars
  BY <1>1, TuningsKept DEF jobVars, Alive
<1>2. CASE \E w \in Writers : WriterSteps(w)
  BY <1>2, TuningsKept
     DEF WriterSteps, Import, Upload, Derive, ImportRefused, UploadRefused, Look, Register,
         Delete, Alive
<1>3. CASE DemoSteps
  BY <1>3, TuningsKept DEF DemoSteps, DemoStart, DemoEnds, DemoClientGone, DemoReset, Alive
<1>4. ASSUME NEW j \in Jobs, CancelJob(j) \/ Compare(j) \/ \E s \in Sessions : SessionEnds(j, s)
      PROVE  TuningsApart'
  BY <1>4, TuningsKept DEF CancelJob, Compare, SessionEnds, jobVars, Alive
<1>5. ASSUME NEW j \in Jobs, JobSteps(j) PROVE TuningsApart'
  <2>1. covers' = covers /\ request' = request /\ Alive' \subseteq Alive
    BY <1>5, <1>t
       DEF JobSteps, BeginReplay, ReadFails, NextVariant, AllReturned, JobFails, JobCompletes,
           JobFailed, LoseRow, DropJob, Alive
  <2>2. QED
    BY <2>1, TuningsKept
<1>6. ASSUME NEW j \in Jobs, RequestSteps(j), ~covers.at_once PROVE TuningsApart'
  <2>1. CASE StartRun(j) \/ StartTuning(j)
    <3>1. \A i \in Jobs : ~InFlight(i)
      BY <1>6, <1>t, <2>1 DEF StartRun, StartTuning, Quiet, InFlight
    <3>2. \A i \in Jobs : TuningOn(i) => Up /\ request[i] = "replied" /\ i \in handles
      <4>1. \A i \in Jobs : i \in Alive => request[i] \notin {"idle", "inserted"}
        BY DEF RowsTrue, JobShape, Alive
      <4>2. QED
        BY <1>6, <1>t, <2>1, <3>1, <4>1
           DEF TuningsApart, TuningOn, InFlight, RequestPcs, StartRun, StartTuning
    <3>3. Kind(j) = "tuning" => \A i \in Jobs : ~TuningOn(i)
      BY <2>1, <3>2 DEF StartRun, StartTuning, tuning_runs, HasRunning, OfKind, TuningOn
    <3>4. /\ request' = [request EXCEPT ![j] = "inserted"]
          /\ UNCHANGED <<covers, job, server, handles, cancelled, aborted>>
      BY <2>1 DEF StartRun, StartTuning
    <3>5. QED
      BY <1>6, <1>t, <3>1, <3>3, <3>4 DEF TuningsApart, TuningOn, InFlight, Alive, Awake, Kind, Up
  <2>2. CASE SpawnJob(j)
    <3>1. \A i \in Jobs : TuningOn(i)' => TuningOn(i) \/ i = j
      BY <1>t, <2>2 DEF SpawnJob, TuningOn, Alive, Awake, Kind
    <3>2. Kind(j) = "tuning" => \A i \in Jobs : TuningOn(i) => i = j
      BY <1>6, <2>2 DEF SpawnJob, TuningsApart, InFlight
    <3>3. \A i \in Jobs : InFlight(i)' <=> InFlight(i)
      BY <1>t, <2>2 DEF SpawnJob, InFlight
    <3>4. \A i \in Jobs : request'[i] = "replied" => request[i] = "replied" /\ i # j
      BY <1>t, <2>2 DEF SpawnJob
    <3>5. \A i \in Jobs : i # j => (i \in Alive' <=> i \in Alive)
      BY <1>t, <2>2 DEF SpawnJob, Alive
    <3>6. UNCHANGED <<covers, server, handles, cancelled, aborted>>
      BY <2>2 DEF SpawnJob
    <3>7. (\A i, k \in Jobs : TuningOn(i) /\ TuningOn(k) => i = k)'
      BY <1>6, <3>1, <3>2, <3>6, <2>2 DEF TuningsApart, TuningOn, Kind
    <3>8. (\A i, k \in Jobs : InFlight(i) /\ Kind(i) = "tuning" /\ TuningOn(k) => i = k)'
      BY <1>6, <3>1, <3>3, <3>6, <2>2 DEF TuningsApart, SpawnJob, InFlight, Kind
    <3>9. QED
      BY <1>6, <3>3, <3>4, <3>5, <3>6, <3>7, <3>8 DEF TuningsApart, Awake, Up
  <2>3. CASE InsertJob(j)
    <3>1. /\ request' = [request EXCEPT ![j] = "replied"] /\ handles' = handles \cup {j}
          /\ UNCHANGED <<covers, job, server, cancelled, aborted>>
      BY <2>3 DEF InsertJob, Insert
    <3>2. \A i \in Jobs : TuningOn(i)' <=> TuningOn(i)
      BY <3>1 DEF TuningOn, Alive, Awake, Kind
    <3>3. QED
      BY <1>6, <1>t, <3>1, <3>2 DEF TuningsApart, InFlight, Alive, Awake, Kind, Up
  <2>4. QED
    BY <1>6, <2>1, <2>2, <2>3 DEF RequestSteps
<1>7. ASSUME NEW j \in Jobs, RequestSteps(j), covers.at_once PROVE TuningsApart'
  BY <1>7 DEF RequestSteps, StartRun, StartTuning, SpawnJob, InsertJob, jobVars, TuningsApart
<1>8. QED
  BY <1>1, <1>2, <1>3, <1>4, <1>5, <1>6, <1>7
     DEF Next, JobsNext, CancelProxy, ListTasks, Shutdown, vars

\* One tuning at a time changes the settings of the target.
THEOREM TuningCorrect == Spec => []OneTuning
<1>1. Init => TuningsApart
  BY DEF Init, JobsInit, TuningsApart, InFlight, TuningOn, Alive
<1>2. TuningsApart => OneTuning
  <2> SUFFICES ASSUME TuningsApart, ~covers.at_once
               PROVE  Cardinality({j \in OfKind("tuning") \cap Alive : Awake(j)}) <= 1
    BY DEF OneTuning
  <2> DEFINE S == {j \in OfKind("tuning") \cap Alive : Awake(j)}
  <2>1. \A i, j \in S : i = j
    BY DEF TuningsApart, TuningOn, OfKind
  <2>2. CASE S = {}
    BY <2>2, FS_EmptySet
  <2>3. CASE S # {}
    <3>1. PICK i : S = {i}
      BY <2>1, <2>3
    <3>2. QED
      BY SMTT(30), <3>1, FS_Singleton
  <2>4. QED
    BY <2>2, <2>3
<1>3. QED
  <2>1. Init => RowsTrue
    BY DEF Init, JobsInit, RowsTrue, JobShape, RunsTrue, NoRow
  <2>2. QED
    BY <1>1, <1>2, <2>1, RowsStep, TuningsStep, TypeCorrect, PTL DEF Spec

-----------------------------------------------------------------------------
(***************************************************************************)
(* Captures of the proxy and the workloads registered for them.  A capture *)
(* is at one place at a time: it is a target, is being closed, is the      *)
(* answer to a stop that was written, or is registered.                    *)
(***************************************************************************)
Finished(t) ==
    toggle[t].pc = "answered" /\ toggle[t].op = "stop" /\ toggle[t].reply = "ok"

Started(c) == c \in 1..Len(staged)
Free(c) == \A p \in Proxies : c # target[p] /\ c # closing[p].capture
Written(c) == \E f \in files : f.capture = c

Owners ==
    /\ \A t \in Toggles : toggle[t].pc = "idle" => toggle[t].op = None
    /\ \A p \in Proxies : target[p] # None => Started(target[p])
    /\ \A p \in Proxies : closing[p].capture # None => Started(closing[p].capture)
    /\ \A p \in Proxies : task[p] \in {"writing", "flushing"} => closing[p].capture # None
    /\ \A p \in Proxies : task[p] = "writing" =>
          closing[p].toggle \in Toggles /\ toggle[closing[p].toggle].op = "stop"
    /\ \A p, q \in Proxies : target[p] = target[q] /\ target[p] # None => p = q
    /\ \A p, q \in Proxies : target[p] # None => target[p] # closing[q].capture
    /\ \A p, q \in Proxies :
          closing[p].capture = closing[q].capture /\ closing[p].capture # None => p = q

Registrable ==
    /\ \A t \in Toggles : Finished(t) =>
          LET c == toggle[t].capture IN Started(c) /\ Free(c) /\ Written(c)
    /\ \A t, u \in Toggles :
          Finished(t) /\ Finished(u) /\ toggle[t].capture = toggle[u].capture => t = u

Registered ==
    /\ \A w \in workloads : Started(w.capture) /\ Free(w.capture) /\ Written(w.capture)
    /\ \A v, w \in workloads : v.capture = w.capture => v = w
    /\ \A w \in workloads, t \in Toggles : Finished(t) => w.capture # toggle[t].capture

WorkloadsInv == Owners /\ Registrable /\ Registered

\* A step that moves no capture: answers it gives are no finished stops.
LEMMA CapturesStay ==
  ASSUME WorkloadsInv, target' = target, closing' = closing, Len(staged') = Len(staged),
         files \subseteq files', workloads' = workloads,
         \A p \in Proxies : task'[p] \in {"writing", "flushing"} => task'[p] = task[p],
         \A t \in Toggles : toggle'[t].pc = "idle" => toggle'[t].op = None,
         \A t \in Toggles : toggle[t].op = "stop" => toggle'[t].op = "stop",
         \A t \in Toggles : Finished(t)' => Finished(t) /\ toggle'[t].capture = toggle[t].capture
  PROVE  WorkloadsInv'
<1>1. \A c : (Started(c) <=> Started(c)') /\ (Free(c) <=> Free(c)') /\ (Written(c) => Written(c)')
  BY DEF Started, Free, Written
<1>2. Owners'
  BY <1>1 DEF WorkloadsInv, Owners
<1>3. Registrable'
  BY <1>1 DEF WorkloadsInv, Registrable
<1>4. Registered'
  BY <1>1 DEF WorkloadsInv, Registered
<1>5. QED
  BY <1>2, <1>3, <1>4 DEF WorkloadsInv

\* Clearing what was staged for a capture, or adding to it, stages no other.
LEMMA StagedLength ==
  ASSUME NEW s \in Seq(Nat), NEW c, NEW e
  PROVE  Len([s EXCEPT ![c] = e]) = Len(s)
<1>1. CASE c \in 1..Len(s)
  <2>1. DOMAIN [s EXCEPT ![c] = e] = 1..Len(s)
    OBVIOUS
  <2>2. [s EXCEPT ![c] = e] \in Seq(Nat \cup {e})
    <3>1. s \in Seq(Nat \cup {e}) /\ e \in Nat \cup {e}
      OBVIOUS
    <3>2. QED
      BY <3>1, <1>1, ExceptSeq
  <2>3. QED
    BY <2>1, <2>2
<1>2. CASE c \notin 1..Len(s)
  BY <1>2, ExceptOutside
<1>3. QED
  BY <1>1, <1>2

\* The target of a proxy becomes what it closes.
LEMMA CloseStep ==
  ASSUME TypeInv, WorkloadsInv, NEW p \in Proxies, NEW t \in Toggles \cup {None}, NEW pc \in TaskPcs,
         target[p] # None, Close(p, t), Goto(p, pc),
         pc = "writing" => t \in Toggles /\ toggle[t].op = "stop",
         UNCHANGED <<toggle, staged, files, workloads>>
  PROVE  WorkloadsInv'
<1> USE DEF Close, Goto
<1>1. /\ target' = [target EXCEPT ![p] = None]
      /\ closing' = [closing EXCEPT ![p] = [capture |-> target[p], toggle |-> t]]
      /\ task' = [task EXCEPT ![p] = pc]
      /\ target \in [Proxies -> Captures] /\ task \in [Proxies -> TaskPcs]
      /\ closing \in [Proxies -> [capture : Captures, toggle : Toggles \cup {None}]]
  BY DEF TypeInv, ProxyTypes
<1>2. \A q \in Proxies :
         /\ target'[q] = IF q = p THEN None ELSE target[q]
         /\ closing'[q].capture = IF q = p THEN target[p] ELSE closing[q].capture
         /\ closing'[q].toggle = IF q = p THEN t ELSE closing[q].toggle
         /\ task'[q] = IF q = p THEN pc ELSE task[q]
  BY <1>1
<1>3. \A c : c # None => (Free(c) => Free(c)') /\ (Started(c) <=> Started(c)') /\ (Written(c) <=> Written(c)')
  BY <1>2 DEF Free, Started, Written
<1>4. \A c : Started(c) => c # None
  BY WebAssumption DEF Started
<1>5. Owners'
  BY <1>2, <1>3 DEF WorkloadsInv, Owners
<1>6. Registrable' /\ Registered'
  BY <1>3, <1>4 DEF WorkloadsInv, Registrable, Registered, Finished
<1>7. QED
  BY <1>5, <1>6 DEF WorkloadsInv

\* What is left of a toggle that is done.
LEMMA DoneFields ==
  ASSUME toggle \in [Toggles -> ToggleState], NEW t \in Toggles, toggle' = [toggle EXCEPT ![t].pc = "done"]
  PROVE  /\ \A u \in Toggles : u # t => toggle'[u] = toggle[u]
         /\ toggle'[t].pc = "done" /\ toggle'[t].op = toggle[t].op
         /\ toggle'[t].proxy = toggle[t].proxy /\ toggle'[t].reply = toggle[t].reply
         /\ toggle'[t].capture = toggle[t].capture
BY DEF ToggleState

\* What an answer leaves of a toggle.
LEMMA ReplyFields ==
  ASSUME toggle \in [Toggles -> ToggleState], NEW t \in Toggles, NEW answer, NEW c,
         Reply(t, answer, c)
  PROVE  \A u \in Toggles :
            /\ toggle'[u].op = toggle[u].op
            /\ \/ toggle'[u] = toggle[u]
               \/ /\ u = t /\ toggle'[u].pc = "answered"
                  /\ toggle'[u].reply = answer /\ toggle'[u].capture = c
BY DEF Reply, ToggleState

\* At most t is answered, with the capture that was closed.
Ends(t, answer, c) ==
    \A u \in Toggles :
       /\ toggle'[u].op = toggle[u].op /\ (toggle'[u].pc = "idle" => toggle[u].pc = "idle")
       /\ Finished(u)' =>
             \/ Finished(u) /\ toggle'[u].capture = toggle[u].capture
             \/ u = t /\ answer = "ok" /\ toggle'[u].capture = c

\* What is closed is written, or lost: then it is nobody's.
LEMMA FlushStep ==
  ASSUME TypeInv, WorkloadsInv, NEW p \in Proxies, NEW t, NEW answer \in {"ok", "refused"},
         NEW c, c = closing[p].capture, c # None, Flush(c, answer),
         closing' = [closing EXCEPT ![p] = Nothing],
         NEW pc \in {"loop", "draining"}, Goto(p, pc),
         UNCHANGED <<target, workloads>>, Ends(t, answer, c)
  PROVE  WorkloadsInv'
<1>1. /\ \A q \in Proxies : closing'[q] = IF q = p THEN Nothing ELSE closing[q]
      /\ \A q \in Proxies : task'[q] = IF q = p THEN pc ELSE task[q]
      /\ staged \in Seq(Nat)
  BY DEF TypeInv, ProxyTypes, Goto
<1>2. files \subseteq files' /\ (answer = "ok" => Written(c)')
  <2>1. File(c).capture = c
    BY DEF File
  <2>2. \/ files' = files /\ answer # "ok"
        \/ files' = files \cup {File(c)}
    BY DEF Flush
  <2>3. QED
    BY <2>1, <2>2 DEF Written
<1>3. Len(staged') = Len(staged)
  BY <1>1, StagedLength DEF Flush, Cleared
<1>4. \A d : (Started(d) <=> Started(d)') /\ (Written(d) => Written(d)')
  BY <1>2, <1>3 DEF Started, Written
<1>5. Started(c) /\ ~Free(c)
  BY DEF WorkloadsInv, Owners, Free
<1>6. \A d : Started(d) => d # None
  BY WebAssumption DEF Started
<1>7. \A d : Started(d) /\ Free(d) => Free(d)' /\ d # c
  BY <1>1, <1>5, <1>6 DEF Free, Nothing
<1>8. Free(c)'
  BY <1>1 DEF Free, Nothing, WorkloadsInv, Owners
<1>9. Owners'
  BY SMTT(30), <1>1, <1>4 DEF WorkloadsInv, Owners, Nothing, Ends
<1>10. Registrable'
  BY <1>2, <1>4, <1>5, <1>7, <1>8 DEF WorkloadsInv, Registrable, Ends
<1>11. Registered'
  BY <1>4, <1>5, <1>7 DEF WorkloadsInv, Registered, Ends
<1>12. QED
  BY <1>9, <1>10, <1>11 DEF WorkloadsInv

\* An answer that is no finished stop moves no capture.
LEMMA ReplyStep ==
  ASSUME TypeInv, WorkloadsInv, NEW t \in Toggles, NEW c, Reply(t, "refused", c),
         UNCHANGED <<task, target, closing, staged, files, workloads>>
  PROVE  WorkloadsInv'
<1>1. \A u \in Toggles : toggle[u].pc = "idle" => toggle[u].op = None
  BY DEF WorkloadsInv, Owners
<1>2. toggle \in [Toggles -> ToggleState]
  BY DEF TypeInv, ProxyTypes
<1>3. QED
  BY <1>1, <1>2, ReplyFields, CapturesStay DEF Finished

LEMMA WorkloadsStep == TypeInv /\ WorkloadsInv /\ [Next]_vars => WorkloadsInv'
<1> SUFFICES ASSUME TypeInv, WorkloadsInv, [Next]_vars PROVE WorkloadsInv'
  OBVIOUS
<1> USE DEF tasks, requesting, proxying, kept, At, Goto
<1>t. /\ toggle \in [Toggles -> ToggleState] /\ task \in [Proxies -> TaskPcs]
      /\ staged \in Seq(Nat) /\ target \in [Proxies -> Captures]
      /\ closing \in [Proxies -> [capture : Captures, toggle : Toggles \cup {None}]]
      /\ commands \in [Proxies -> Seq(Toggles)]
  BY DEF TypeInv, ProxyTypes
<1>i. \A t \in Toggles : toggle[t].pc = "idle" => toggle[t].op = None
  BY DEF WorkloadsInv, Owners
<1>n. None \notin {"start", "stop"}
  BY WebAssumption
<1>1. CASE UNCHANGED proxyVars
  BY <1>1, <1>i, CapturesStay DEF proxyVars, Finished
<1>2. ASSUME NEW p \in Proxies, StartSteps(p) PROVE WorkloadsInv'
  BY <1>2, <1>i, <1>t, CapturesStay
     DEF StartSteps, CheckRunning, StoreSender, SpawnTask, InsertHandle, Finished
<1>3. CASE StopProxy
  BY <1>3, <1>i, CapturesStay DEF StopProxy, Finished
<1>4. ASSUME NEW p \in Proxies, TaskSteps(p) PROVE WorkloadsInv'
  <2>1. CASE TaskBegins(p) \/ Bind(p) \/ ClearState(p)
    BY <2>1, <1>i, <1>t, CapturesStay DEF TaskBegins, Bind, ClearState, Finished
  <2>2. CASE BindFails(p) \/ Drained(p) \/ DropTask(p)
    <3>1. /\ \A t \in Toggles : toggle'[t] = toggle[t]
                \/ toggle'[t] = [toggle[t] EXCEPT !.pc = "answered", !.reply = "lost"]
          /\ UNCHANGED <<target, closing, staged, files, workloads>>
          /\ \E pc \in {"clearing", "dropped"} : task' = [task EXCEPT ![p] = pc]
      BY <2>2 DEF BindFails, Drained, DropTask, DropReceiver
    <3>2. \A t \in Toggles : toggle[t] \in ToggleState
      BY <1>t
    <3>3. \A r \in ToggleState : LET lost == [r EXCEPT !.pc = "answered", !.reply = "lost"]
                                 IN  lost.op = r.op /\ lost.pc = "answered" /\ lost.reply = "lost"
      BY DEF ToggleState
    <3>4. \A t \in Toggles : toggle'[t].op = toggle[t].op
              /\ (toggle'[t] = toggle[t] \/ (toggle'[t].pc = "answered" /\ toggle'[t].reply = "lost"))
      <4> TAKE t \in Toggles
      <4>1. CASE toggle'[t] = toggle[t]
        BY <4>1
      <4>2. CASE toggle'[t] = [toggle[t] EXCEPT !.pc = "answered", !.reply = "lost"]
        <5>1. toggle[t] \in ToggleState
          BY <3>2
        <5> QED
          BY <3>3, <4>2, <5>1
      <4> QED
        BY <3>1, <4>1, <4>2
    <3>5. QED
      BY <3>1, <3>4, <1>i, <1>t, CapturesStay DEF Finished
  <2>3. CASE StartCapture(p)
    <3> DEFINE t == Head(commands[p])
               c == Len(staged) + 1
    <3>1. t \in Toggles /\ toggle[t].op = "start"
          /\ UNCHANGED <<task, closing, files, workloads>>
      BY <2>3, <1>t DEF StartCapture, NextCommand
    <3>2. CASE target[p] # None
      <4>1. Reply(t, "refused", None) /\ UNCHANGED <<target, staged>>
        BY <2>3, <3>2 DEF StartCapture
      <4>2. QED
        BY <3>1, <4>1, ReplyStep
    <3>3. CASE target[p] = None
      <4>1. Reply(t, "ok", c) /\ target' = [target EXCEPT ![p] = c] /\ staged' = Append(staged, 0)
        BY <2>3, <3>3 DEF StartCapture
      <4>2. /\ \A u \in Toggles : Finished(u)' => Finished(u) /\ toggle'[u].capture = toggle[u].capture
            /\ \A u \in Toggles : toggle'[u].op = toggle[u].op
                  /\ (toggle'[u].pc = "idle" => toggle[u].pc = "idle")
        <5>1. \A u \in Toggles :
                 /\ toggle'[u].op = toggle[u].op
                 /\ \/ toggle'[u] = toggle[u]
                    \/ u = t /\ toggle'[u].pc = "answered"
          BY <3>1, <4>1, <1>t, ReplyFields
        <5>2. QED
          BY <3>1, <5>1 DEF Finished
      <4>3. /\ \A q \in Proxies : target'[q] = IF q = p THEN c ELSE target[q]
            /\ Len(staged') = c /\ c # None /\ ~Started(c)
        BY <4>1, <1>t, WebAssumption DEF Started
      <4>4. \A d : Started(d) => Started(d)' /\ d # c
        BY <4>3, <1>t DEF Started
      <4>5. \A d : Started(d) /\ Free(d) => Free(d)'
        BY <3>1, <4>3, <4>4 DEF Free
      <4>6. \A d : Written(d) <=> Written(d)'
        BY <3>1 DEF Written
      <4>7. \A d : d = c => Started(d)'
        BY <4>3, <1>t DEF Started
      <4>8. Owners'
        BY <3>1, <4>2, <4>3, <4>4, <4>7 DEF WorkloadsInv, Owners
      <4>9. Registrable' /\ Registered'
        BY <3>1, <4>2, <4>4, <4>5, <4>6 DEF WorkloadsInv, Registrable, Registered
      <4>10. QED
        BY <4>8, <4>9 DEF WorkloadsInv
    <3>4. QED
      BY <3>2, <3>3
  <2>4. CASE StopCapture(p)
    <3> DEFINE t == Head(commands[p])
    <3>1. t \in Toggles /\ toggle[t].op = "stop" /\ UNCHANGED <<staged, files, workloads>>
      BY <2>4, <1>t DEF StopCapture, NextCommand
    <3>2. CASE target[p] = None
      <4>1. Reply(t, "refused", None) /\ UNCHANGED <<task, target, closing>>
        BY <2>4, <3>2 DEF StopCapture
      <4>2. QED
        BY <3>1, <4>1, ReplyStep
    <3>3. CASE target[p] # None
      <4>1. Close(p, t) /\ Goto(p, "writing") /\ UNCHANGED toggle
        BY <2>4, <3>3 DEF StopCapture
      <4>2. QED
        BY <3>1, <3>3, <4>1, CloseStep DEF TaskPcs
    <3>4. QED
      BY <3>2, <3>3
  <2>5. CASE WriteCapture(p)
    <3>0. PICK t, c : t = closing[p].toggle /\ c = closing[p].capture
      OBVIOUS
    <3>1. t \in Toggles /\ toggle[t].op = "stop" /\ c # None
      BY <3>0, <2>5 DEF WriteCapture, WorkloadsInv, Owners
    <3>2. PICK answer \in {"ok", "refused"} : Flush(c, answer) /\ Reply(t, answer, c)
      BY <3>0, <2>5 DEF WriteCapture
    <3>3. closing' = [closing EXCEPT ![p] = Nothing] /\ task' = [task EXCEPT ![p] = "loop"]
          /\ UNCHANGED <<target, workloads>>
      BY <2>5 DEF WriteCapture
    <3>4. \A u \in Toggles :
             /\ toggle'[u].op = toggle[u].op
             /\ \/ toggle'[u] = toggle[u]
                \/ /\ u = t /\ toggle'[u].pc = "answered"
                   /\ toggle'[u].reply = answer /\ toggle'[u].capture = c
      BY <3>1, <3>2, <1>t, ReplyFields
    <3>5. Ends(t, answer, c)
      BY <3>4 DEF Finished, Ends
    <3>6. QED
      <4>1. Goto(p, "loop") /\ "loop" \in {"loop", "draining"}
        BY <3>3 DEF Goto
      <4>2. QED
        BY <3>0, <3>1, <3>2, <3>3, <3>5, <4>1, FlushStep
  <2>6. CASE LoopEnds(p)
    <3>1. CASE target[p] # None
      <4>1. Close(p, None) /\ Goto(p, "flushing") /\ UNCHANGED <<toggle, staged, files, workloads>>
        BY <2>6, <3>1 DEF LoopEnds
      <4>2. QED
        BY <4>1, <3>1, CloseStep DEF TaskPcs
    <3>2. CASE target[p] = None
      BY <2>6, <3>2, <1>i, <1>t, CapturesStay DEF LoopEnds, Finished
    <3>3. QED
      BY <3>1, <3>2
  <2>7. CASE FlushAtEnd(p)
    <3>0. PICK c : c = closing[p].capture
      OBVIOUS
    <3>1. c # None
      BY <3>0, <2>7 DEF FlushAtEnd, WorkloadsInv, Owners
    <3>2. PICK answer \in {"ok", "refused"} : Flush(c, answer)
      BY <3>0, <2>7 DEF FlushAtEnd
    <3>3. closing' = [closing EXCEPT ![p] = Nothing] /\ task' = [task EXCEPT ![p] = "draining"]
          /\ UNCHANGED <<toggle, target, workloads>>
      BY <2>7 DEF FlushAtEnd
    <3>4. QED
      <4>1. Ends(None, answer, c)
        BY <3>3 DEF Finished, Ends
      <4>2. QED
        BY <3>0, <3>1, <3>2, <3>3, <4>1, FlushStep DEF Goto
  <2>8. QED
    BY <1>4, <2>1, <2>2, <2>3, <2>4, <2>5, <2>6, <2>7 DEF TaskSteps
<1>5. ASSUME NEW p \in Proxies, Query(p) PROVE WorkloadsInv'
  BY <1>5, <1>i, <1>t, StagedLength, CapturesStay DEF Query, Finished
<1>6. ASSUME NEW t \in Toggles, ToggleSteps(t) PROVE WorkloadsInv'
  <2>1. CASE SendCommand(t) \/ SendFails(t) \/ ToggleTimesOut(t)
    <3>1. /\ \A u \in Toggles : u # t => toggle'[u] = toggle[u]
          /\ toggle'[t].pc \in {"sent", "done"}
          /\ toggle[t].op = "stop" => toggle'[t].op = "stop"
      <4>1. CASE SendCommand(t)
        <5>1. \A op : Asked(op).pc = "sent"
          BY DEF Asked
        <5>2. toggle[t].op # "stop"
          BY <4>1, <1>i, <1>n DEF SendCommand, Asks
        <5>3. QED
          BY <4>1, <5>1, <5>2, <1>t DEF SendCommand
      <4>2. CASE SendFails(t)
        <5>1. [NotCalled EXCEPT !.pc = "done"].pc = "done"
          BY DEF NotCalled
        <5>2. toggle[t].op # "stop"
          BY <4>2, <1>i, <1>n DEF SendFails, Asks
        <5>3. QED
          BY <4>2, <5>1, <5>2, <1>t DEF SendFails
      <4>3. CASE ToggleTimesOut(t)
        BY <4>3, <1>t, DoneFields DEF ToggleTimesOut
      <4>4. QED
        BY <2>1, <4>1, <4>2, <4>3
    <3>2. UNCHANGED <<task, target, closing, kept>>
      BY <2>1 DEF SendCommand, SendFails, ToggleTimesOut
    <3>3. QED
      BY <3>1, <3>2, <1>i, CapturesStay DEF Finished
  <2>2. CASE ToggleReturns(t)
    <3>1. \A u \in Toggles :
             /\ toggle'[u].op = toggle[u].op /\ toggle'[u].capture = toggle[u].capture
             /\ u # t => toggle'[u] = toggle[u]
             /\ toggle'[t].pc = "done"
      <4>1. toggle' = [toggle EXCEPT ![t].pc = "done"]
        BY <2>2 DEF ToggleReturns
      <4>2. QED
        BY <4>1, <1>t, DoneFields
    <3>2. UNCHANGED <<task, target, closing, staged, files>>
      BY <2>2 DEF ToggleReturns
    <3>3. \A u \in Toggles : Finished(u)' => Finished(u) /\ u # t
      BY <3>1 DEF Finished
    <3>4. CASE workloads' = workloads
      BY <3>1, <3>2, <3>3, <3>4, <1>i, CapturesStay
    <3>5. CASE workloads' = workloads \cup {[toggle |-> t, capture |-> toggle[t].capture]}
               /\ Finished(t)
      <4>1. \A c : (Started(c) <=> Started(c)') /\ (Free(c) <=> Free(c)') /\ (Written(c) <=> Written(c)')
        BY <3>2 DEF Started, Free, Written
      <4>2. Owners'
        BY <3>1, <3>2, <4>1, <1>i DEF WorkloadsInv, Owners
      <4>3. Registrable'
        BY <3>1, <3>3, <4>1 DEF WorkloadsInv, Registrable
      <4>4. Registered'
        BY <3>1, <3>3, <3>5, <4>1 DEF WorkloadsInv, Registrable, Registered
      <4>5. QED
        BY <4>2, <4>3, <4>4 DEF WorkloadsInv
    <3>6. QED
      BY <2>2, <3>4, <3>5 DEF ToggleReturns, Answered, to_register, Finished
  <2>3. QED
    BY <1>6, <2>1, <2>2 DEF ToggleSteps
<1>7. QED
  BY <1>1, <1>2, <1>3, <1>4, <1>5, <1>6
     DEF Next, ProxyNext, CancelProxy, ListTasks, Shutdown, vars

\* A workload registered for a capture is the profile of that capture, written,
\* and of no other.
THEOREM RegisteredCorrect == Spec => []RegisteredIsWritten
<1>1. Init => WorkloadsInv
  BY DEF Init, ProxyInit, WorkloadsInv, Owners, Registrable, Registered, Finished, NotCalled, Nothing
<1>2. WorkloadsInv => RegisteredIsWritten
  BY DEF WorkloadsInv, Registered, RegisteredIsWritten, Written, Free
<1>3. QED
  BY <1>1, <1>2, WorkloadsStep, TypeCorrect, PTL DEF Spec

-----------------------------------------------------------------------------
(***************************************************************************)
(* What the dashboard shows.  One request at a time and no time-outs: then *)
(* one start or one toggle is under way, a proxy that has begun is the one *)
(* shown, and the loop, its command and the answer agree with what is      *)
(* shown before and after each of their steps.                             *)
(***************************************************************************)
Calm == ~web.at_once /\ ~web.timeouts

Starting(p) == start[p] \in {"storing", "spawning", "inserting"} \/ task[p] = "created"
Active(t) == toggle[t].pc \in {"sent", "answered"}

Shape ==
    /\ cancelled \subseteq aborted
    /\ \A p \in Proxies : start[p] \in {"idle", "storing", "spawning"} <=> task[p] = "none"

OneAtATime ==
    /\ \A p, q \in Proxies : Starting(p) /\ Starting(q) => p = q
    /\ \A t, u \in Toggles : Active(t) /\ Active(u) => t = u
    /\ \A p \in Proxies, t \in Toggles : ~(Starting(p) /\ Active(t))

Shown ==
    /\ \A p \in Proxies : start[p] \in {"storing", "spawning"} \/ task[p] = "created" => ~ps.running
    /\ \A p \in Proxies : start[p] = "spawning" \/ task[p] = "created" => ps.tx = p
    /\ \A p \in Proxies : task[p] \in Begun => ps.running /\ ps.task = p
    /\ ps.running => /\ ps.task \in Proxies /\ ps.tx = ps.task
                     /\ \/ task[ps.task] \in Begun
                        \/ task[ps.task] = "dropped" /\ ps.task \in aborted
    /\ \A p \in listening : ps.running /\ ps.task = p
    /\ \A p \in Proxies : task[p] \in {"none", "created", "binding", "draining", "clearing"} =>
          p \notin listening

Settled(p) ==
    /\ ps.capturing <=> target[p] # None
    /\ ps.capturing => ps.capture = target[p]
    /\ no_capture[p] <=> ~ps.capturing

\* The answer to t, and what the loop of p has become.
Agreed(p, t) ==
    \/ /\ toggle[t].op = "start" /\ toggle[t].reply = "ok"
       /\ toggle[t].capture = target[p] /\ target[p] # None /\ ~no_capture[p]
    \/ /\ toggle[t].op = "stop" /\ toggle[t].reply \in {"ok", "refused"}
       /\ target[p] = None /\ no_capture[p]

RecordingBefore(p) ==
    task[p] \in {"none", "created"} => commands[p] = <<>> /\ target[p] = None

RecordingBinding(p) ==
    task[p] = "binding" =>
        /\ target[p] = None /\ ~ps.capturing
        /\ \A t \in Toggles : Active(t) =>
              toggle[t].pc = "sent" /\ toggle[t].op = "start" /\ commands[p] = <<t>>

RecordingLoop(p) ==
    task[p] = "loop" =>
        /\ (\A t \in Toggles : toggle[t].pc # "answered") => Settled(p)
        /\ \A t \in Toggles : toggle[t].pc = "sent" =>
              commands[p] = <<t>> /\ toggle[t].op = (IF ps.capturing THEN "stop" ELSE "start")
        /\ \A t \in Toggles : toggle[t].pc = "answered" => commands[p] = <<>> /\ Agreed(p, t)

RecordingWriting(p) ==
    task[p] = "writing" =>
        /\ commands[p] = <<>> /\ target[p] = None /\ no_capture[p]
        /\ closing[p].toggle \in Toggles
        /\ toggle[closing[p].toggle].pc = "sent" /\ toggle[closing[p].toggle].op = "stop"

Recording(p) ==
    /\ RecordingBefore(p) /\ RecordingBinding(p) /\ RecordingLoop(p) /\ RecordingWriting(p)
    /\ task[p] \in {"binding", "loop"} /\ (\A t \in Toggles : ~Active(t)) => commands[p] = <<>>

CalmInv == OneAtATime /\ Shown /\ \A p \in Proxies : Recording(p)

DashboardInv == Shape /\ (Calm => CalmInv)

\* A proxy at none of the three steps stays right; one whose state is kept too.
LEMMA RecordingAway ==
  ASSUME NEW q \in Proxies, Recording(q), task'[q] \notin {"binding", "loop", "writing"},
         task'[q] \in {"none", "created"} => /\ task[q] \in {"none", "created"}
                                             /\ commands'[q] = commands[q] /\ target'[q] = target[q]
  PROVE  Recording(q)'
BY DEF Recording, RecordingBefore, RecordingBinding, RecordingLoop, RecordingWriting

LEMMA RecordingKept ==
  ASSUME NEW q \in Proxies, Recording(q), task'[q] = task[q], commands'[q] = commands[q],
         target'[q] = target[q], no_capture'[q] = no_capture[q], closing'[q] = closing[q],
         ps'.capturing = ps.capturing, ps'.capture = ps.capture, toggle' = toggle
  PROVE  Recording(q)'
BY DEF Recording, RecordingBefore, RecordingBinding, RecordingLoop, RecordingWriting, Settled, Agreed, Active

LEMMA ShapeStep == TypeInv /\ Shape /\ [Next]_vars => Shape'
<1> SUFFICES ASSUME TypeInv, Shape, [Next]_vars PROVE Shape'
  OBVIOUS
<1> USE DEF tasks, requesting, proxying, kept, At, Goto, Shape
<1>t. start \in [Proxies -> StartPcs] /\ task \in [Proxies -> TaskPcs]
  BY DEF TypeInv, ProxyTypes
<1>1. CASE UNCHANGED proxyVars
  <2>1. cancelled' \subseteq aborted'
    BY ZenonT(40), <1>1
       DEF Next, ProxyNext, StartSteps, TaskSteps, ToggleSteps, CheckRunning, StoreSender,
         SpawnTask, InsertHandle, Insert, TaskBegins, Bind, BindFails, StartCapture, StopCapture,
         WriteCapture, LoopEnds, FlushAtEnd, Drained, ClearState, DropTask, Query,
         SendCommand, SendFails, ToggleReturns, ToggleTimesOut, StopProxy, Cancel, aborting,
         JobsNext, RequestSteps, JobSteps, WriterSteps, DemoSteps, StartRun, StartTuning,
         SpawnJob, InsertJob, BeginReplay, ReadFails, NextVariant, AllReturned,
         JobFails, JobCompletes, JobFailed, LoseRow, DropJob, CancelJob, Compare, SessionEnds,
         Import, Upload, Derive, ImportRefused, UploadRefused, Look, Register, Delete,
         DemoStart, DemoEnds, DemoClientGone, DemoReset,
         CancelProxy, ListTasks, Cleanup, Shutdown, ServerEnds, vars
  <2>2. QED
    BY <1>1, <2>1 DEF proxyVars
<1>2. ASSUME NEW p \in Proxies, StartSteps(p) PROVE Shape'
  BY <1>2, <1>t DEF StartSteps, CheckRunning, StoreSender, SpawnTask, InsertHandle, Insert
<1>3. ASSUME NEW p \in Proxies, TaskSteps(p) PROVE Shape'
  <2>1. PICK pc \in TaskPcs \ {"none"} : task' = [task EXCEPT ![p] = pc] \/ task' = task
    BY <1>3
       DEF TaskSteps, TaskBegins, Bind, BindFails, StartCapture, StopCapture, WriteCapture,
           LoopEnds, FlushAtEnd, Drained, ClearState, DropTask, TaskPcs
  <2>2. UNCHANGED <<start, tasks>> /\ (task' # task => task[p] # "none")
    <3>1. UNCHANGED <<start, tasks>>
      BY <1>3
         DEF TaskSteps, TaskBegins, Bind, BindFails, StartCapture, StopCapture, WriteCapture,
             LoopEnds, FlushAtEnd, Drained, ClearState, DropTask
    <3>2. task' # task => task[p] # "none"
      BY <1>3
         DEF TaskSteps, TaskBegins, Bind, BindFails, StartCapture, StopCapture, NextCommand,
             WriteCapture, LoopEnds, FlushAtEnd, Drained, ClearState, DropTask, Ended
    <3>3. QED
      BY <3>1, <3>2
  <2>3. QED
    BY <1>t, <2>1, <2>2
<1>4. ASSUME NEW p \in Proxies, Query(p) PROVE Shape'
  BY <1>4 DEF Query
<1>5. ASSUME NEW t \in Toggles, ToggleSteps(t) PROVE Shape'
  BY <1>5 DEF ToggleSteps, SendCommand, SendFails, ToggleReturns, ToggleTimesOut
<1>6. CASE StopProxy
  BY <1>6 DEF StopProxy, Cancel, aborting
<1>7. QED
  BY <1>1, <1>2, <1>3, <1>4, <1>5, <1>6
     DEF Next, ProxyNext, CancelProxy, ListTasks, Shutdown, vars

\* At most one proxy has begun, and none is starting then.
LEMMA OneBegun ==
  ASSUME Shown, NEW p \in Proxies, task[p] \in Begun
  PROVE  /\ ps.running /\ ps.task = p /\ ps.tx = p
         /\ \A q \in Proxies : task[q] \in Begun => q = p
         /\ \A q \in Proxies : start[q] \notin {"storing", "spawning"} /\ task[q] # "created"
BY DEF Shown

\* What the proofs need of the types.
LEMMA ShownTypes ==
  ASSUME TypeInv
  PROVE  /\ start \in [Proxies -> StartPcs] /\ task \in [Proxies -> TaskPcs]
         /\ toggle \in [Toggles -> ToggleState] /\ commands \in [Proxies -> Seq(Toggles)]
         /\ target \in [Proxies -> Captures] /\ no_capture \in [Proxies -> BOOLEAN]
         /\ closing \in [Proxies -> [capture : Captures, toggle : Toggles \cup {None}]]
         /\ listening \subseteq Proxies /\ ps \in ProxyState
BY DEF TypeInv, ProxyTypes

\* A start that goes on, in the absence of any other request.
LEMMA CalmStarts ==
  ASSUME TypeInv, Shape, Calm, CalmInv, NEW p \in Proxies, StartSteps(p)
  PROVE  CalmInv'
<1> USE DEF tasks, requesting, proxying, kept
<1>t. /\ start \in [Proxies -> StartPcs] /\ task \in [Proxies -> TaskPcs] /\ ps \in ProxyState
  BY ShownTypes
<1>1. CASE CheckRunning(p)
  <2>1. /\ ~Busy /\ ~ps.running /\ start' = [start EXCEPT ![p] = "storing"]
        /\ UNCHANGED <<tasks, web, ps, toggle, stops, proxying, kept>>
    BY <1>1 DEF CheckRunning, Alone, Calm
  <2>2. \A q \in Proxies : ~Starting(q) /\ (Starting(q)' => q = p)
    BY <2>1, <1>t DEF Busy, Starting
  <2>3. \A t \in Toggles : ~Active(t) /\ ~Active(t)'
    BY <2>1 DEF Busy, Active
  <2>4. OneAtATime'
    BY <2>2, <2>3 DEF OneAtATime
  <2>5. Shown'
    BY <2>1, <2>2, <1>t DEF CalmInv, Shown, Starting
  <2>6. QED
    BY <2>1, <2>4, <2>5, RecordingKept DEF CalmInv
<1>2. CASE StoreSender(p)
  <2>1. /\ start[p] = "storing" /\ start' = [start EXCEPT ![p] = "spawning"]
        /\ ps' = [ps EXCEPT !.tx = p]
        /\ UNCHANGED <<tasks, web, toggle, stops, proxying, kept>>
    BY <1>2 DEF StoreSender
  <2>2. /\ ps'.running = ps.running /\ ps'.task = ps.task /\ ps'.tx = p
        /\ ps'.capturing = ps.capturing /\ ps'.capture = ps.capture
    BY <2>1, <1>t DEF ProxyState
  <2>3. Starting(p) /\ ~ps.running
    BY <2>1 DEF Starting, CalmInv, Shown
  <2>4. \A q \in Proxies : Starting(q) <=> Starting(q)'
    BY <2>1, <1>t DEF Starting
  <2>5. OneAtATime'
    BY <2>1, <2>4 DEF CalmInv, OneAtATime, Active
  <2>6. Shown'
    BY <2>1, <2>2, <2>3, <1>t DEF CalmInv, OneAtATime, Shown, Starting
  <2>7. QED
    BY <2>1, <2>2, <2>5, <2>6, RecordingKept DEF CalmInv
<1>3. CASE SpawnTask(p)
  <2>1. /\ start[p] = "spawning" /\ start' = [start EXCEPT ![p] = "inserting"]
        /\ task' = [task EXCEPT ![p] = "created"]
        /\ UNCHANGED <<tasks, web, ps, toggle, stops, listening, no_capture, commands,
                       target, closing, kept>>
    BY <1>3 DEF SpawnTask
  <2>2. task[p] = "none" /\ ~ps.running /\ ps.tx = p /\ Starting(p)
    BY <2>1 DEF Shape, CalmInv, Shown, Starting
  <2>3. \A q \in Proxies : Starting(q) <=> Starting(q)'
    BY <2>1, <2>2, <1>t DEF Starting
  <2>4. OneAtATime'
    BY <2>1, <2>3 DEF CalmInv, OneAtATime, Active
  <2>5. Shown'
    BY <2>1, <2>2, <1>t DEF CalmInv, OneAtATime, Shown, Starting, Begun
  <2>6. ASSUME NEW q \in Proxies PROVE Recording(q)'
    <3>1. CASE q = p
      BY <2>1, <2>2, <3>1, <1>t, RecordingAway DEF CalmInv
    <3>2. CASE q # p
      BY <2>1, <3>2, <1>t, RecordingKept DEF CalmInv
    <3>3. QED
      BY <3>1, <3>2
  <2>7. QED
    BY <2>4, <2>5, <2>6 DEF CalmInv
<1>4. CASE InsertHandle(p)
  <2>1. /\ start[p] = "inserting" /\ start' = [start EXCEPT ![p] = "replied"]
        /\ UNCHANGED <<web, ps, toggle, stops, proxying, kept, aborted>>
    BY <1>4 DEF InsertHandle, Insert
  <2>2. \A q \in Proxies : Starting(q)' => Starting(q)
    BY <2>1, <1>t DEF Starting
  <2>3. OneAtATime'
    BY <2>1, <2>2 DEF CalmInv, OneAtATime, Active
  <2>4. Shown'
    BY <2>1, <1>t DEF CalmInv, Shown
  <2>5. QED
    BY <2>1, <2>3, <2>4, RecordingKept DEF CalmInv
<1>5. QED
  BY <1>1, <1>2, <1>3, <1>4 DEF StartSteps

\* A step of the task of p, which has begun: what it leaves of the others.
LEMMA CalmTask ==
  ASSUME TypeInv, Shape, CalmInv, NEW p \in Proxies, task[p] \in Begun,
         NEW pc \in Begun, task' = [task EXCEPT ![p] = pc], UNCHANGED <<start, ps, aborted>>,
         listening' \subseteq listening \/ (listening' = {p} /\ pc = "loop"),
         pc \in {"binding", "draining", "clearing"} => p \notin listening',
         \A t \in Toggles : Active(t)' <=> Active(t),
         \A q \in Proxies : q # p => commands'[q] = commands[q] /\ target'[q] = target[q],
         Recording(p)'
  PROVE  CalmInv'
<1>t. /\ start \in [Proxies -> StartPcs] /\ task \in [Proxies -> TaskPcs]
  BY ShownTypes
<1>o. /\ ps.running /\ ps.task = p /\ ps.tx = p
      /\ \A q \in Proxies : task[q] \in Begun => q = p
      /\ \A q \in Proxies : start[q] \notin {"storing", "spawning"} /\ task[q] # "created"
  BY OneBegun DEF CalmInv
<1>1. \A q \in Proxies : task'[q] = IF q = p THEN pc ELSE task[q]
  BY <1>t
<1>2. \A q \in Proxies : Starting(q)' <=> Starting(q)
  BY <1>1 DEF Starting, Begun
<1>3. OneAtATime'
  BY <1>2 DEF CalmInv, OneAtATime
<1>4. Shown'
  BY <1>o, <1>1, <1>t DEF CalmInv, Shown, Begun
<1>5. ASSUME NEW q \in Proxies PROVE Recording(q)'
  <2>1. CASE q # p
    <3>1. task'[q] = task[q] /\ task[q] \notin Begun /\ Recording(q)
      BY <2>1, <1>o, <1>1 DEF CalmInv
    <3>2. QED
      BY <2>1, <3>1, RecordingAway DEF Begun
  <2>2. QED
    BY <2>1
<1>6. QED
  BY <1>3, <1>4, <1>5 DEF CalmInv

\* A command that is waiting: nothing has been answered, and the loop is as shown.
LEMMA CalmCommand ==
  ASSUME TypeInv, CalmInv, NEW p \in Proxies, task[p] = "loop", commands[p] # <<>>,
         NEW t, t = Head(commands[p])
  PROVE  /\ t \in Toggles /\ toggle[t].pc = "sent" /\ commands[p] = <<t>> /\ Tail(commands[p]) = <<>>
         /\ toggle[t].op = (IF ps.capturing THEN "stop" ELSE "start")
         /\ Settled(p)
         /\ \A u \in Toggles : Active(u) => u = t
<1>1. PICK u \in Toggles : Active(u)
  BY DEF CalmInv, Recording
<1>2. toggle[u].pc = "sent" /\ commands[p] = <<u>>
  BY <1>1 DEF CalmInv, Recording, RecordingLoop, Active
<1>3. u = t
  BY <1>2
<1>4. \A v \in Toggles : Active(v) => v = t
  BY <1>1, <1>3 DEF CalmInv, OneAtATime
<1>5. \A v \in Toggles : toggle[v].pc # "answered"
  BY <1>2, <1>3, <1>4 DEF Active
<1>6. Tail(<<t>>) = <<>>
  OBVIOUS
<1>7. QED
  BY <1>2, <1>3, <1>4, <1>5, <1>6 DEF CalmInv, Recording, RecordingLoop

\* An answer to a command that was waiting for it.
LEMMA SentAnswered ==
  ASSUME toggle \in [Toggles -> ToggleState], NEW t \in Toggles, NEW answer, NEW c,
         toggle[t].pc = "sent", Reply(t, answer, c)
  PROVE  /\ \A u \in Toggles : u # t => toggle'[u] = toggle[u]
         /\ toggle'[t].pc = "answered" /\ toggle'[t].op = toggle[t].op
         /\ toggle'[t].reply = answer /\ toggle'[t].capture = c
         /\ \A u \in Toggles : Active(u)' <=> Active(u)
BY DEF Reply, ToggleState, Active

\* Dropping a receiver leaves the same requests to be answered.
LEMMA DropActive ==
  ASSUME TypeInv, NEW p \in Proxies, DropReceiver(p)
  PROVE  /\ \A t \in Toggles : Active(t)' <=> Active(t)
         /\ \A q \in Proxies : q # p => commands'[q] = commands[q]
<1>1. toggle \in [Toggles -> ToggleState] /\ commands \in [Proxies -> Seq(Toggles)]
  BY ShownTypes
<1>2. \A q \in Proxies : q # p => commands'[q] = commands[q]
  BY <1>1 DEF DropReceiver
<1>3. ASSUME NEW t \in Toggles PROVE Active(t)' <=> Active(t)
  <2>1. CASE t \in Lost(p)
    <3>1. toggle'[t] = [toggle[t] EXCEPT !.pc = "answered", !.reply = "lost"]
      BY <2>1 DEF DropReceiver
    <3>2. toggle'[t].pc = "answered"
      BY <1>1, <3>1 DEF ToggleState
    <3>3. QED
      BY <2>1, <3>2 DEF Lost, Active
  <2>2. CASE t \notin Lost(p)
    BY <2>2 DEF DropReceiver, Active
  <2>3. QED
    BY <2>1, <2>2
<1>4. QED
  BY <1>2, <1>3

\* A step of the task of p.
LEMMA CalmTasks ==
  ASSUME TypeInv, Shape, CalmInv, NEW p \in Proxies, TaskSteps(p)
  PROVE  CalmInv'
<1> USE DEF tasks, requesting, proxying, kept, At, Goto
<1>t. /\ start \in [Proxies -> StartPcs] /\ task \in [Proxies -> TaskPcs]
      /\ toggle \in [Toggles -> ToggleState] /\ commands \in [Proxies -> Seq(Toggles)]
      /\ target \in [Proxies -> Captures] /\ no_capture \in [Proxies -> BOOLEAN]
      /\ closing \in [Proxies -> [capture : Captures, toggle : Toggles \cup {None}]]
      /\ listening \subseteq Proxies /\ ps \in ProxyState
  BY ShownTypes
<1>r. Recording(p)
  BY DEF CalmInv
<1>1. CASE TaskBegins(p)
  <2>1. /\ task[p] = "created" /\ task' = [task EXCEPT ![p] = "binding"]
        /\ ps' = [running |-> TRUE, task |-> p, tx |-> ps.tx, capturing |-> FALSE, capture |-> None]
        /\ UNCHANGED <<start, toggle, listening, commands, target, aborted>>
    BY <1>1 DEF TaskBegins
  <2>2. /\ Starting(p) /\ ~ps.running /\ ps.tx = p /\ start[p] \notin {"storing", "spawning"}
        /\ \A q \in Proxies : task[q] \notin Begun /\ (Starting(q) => q = p)
        /\ \A t \in Toggles : ~Active(t)
    BY <2>1 DEF Starting, CalmInv, OneAtATime, Shown, Shape
  <2>3. \A q \in Proxies : task'[q] = IF q = p THEN "binding" ELSE task[q]
    BY <2>1, <1>t
  <2>4. OneAtATime'
    BY <2>1, <2>2, <2>3 DEF CalmInv, OneAtATime, Starting, Active
  <2>5. Shown'
    BY <2>1, <2>2, <2>3, <1>t DEF CalmInv, Shown, Starting, Begun
  <2>6. Recording(p)'
    BY <1>r, <2>1, <2>2, <2>3
       DEF Recording, RecordingBefore, RecordingBinding, RecordingLoop, RecordingWriting, Active
  <2>7. ASSUME NEW q \in Proxies, q # p PROVE Recording(q)'
    BY <2>1, <2>2, <2>3, <2>7, RecordingAway DEF CalmInv, Begun
  <2>8. QED
    BY <2>4, <2>5, <2>6, <2>7 DEF CalmInv
<1>2. CASE Bind(p)
  <2>1. /\ task[p] = "binding" /\ task' = [task EXCEPT ![p] = "loop"]
        /\ listening' = {p} /\ no_capture' = [no_capture EXCEPT ![p] = TRUE]
        /\ UNCHANGED <<ps, start, toggle, commands, target, aborted>>
    BY <1>2 DEF Bind
  <2>2. /\ target[p] = None /\ ~ps.capturing
        /\ \A t \in Toggles : Active(t) =>
              toggle[t].pc = "sent" /\ toggle[t].op = "start" /\ commands[p] = <<t>>
    BY <1>r, <2>1 DEF Recording, RecordingBinding
  <2>3. task'[p] = "loop" /\ no_capture'[p] = TRUE
    BY <2>1, <1>t
  <2>4. Settled(p)'
    BY <2>1, <2>2, <2>3 DEF Settled
  <2>5. Recording(p)'
    BY <1>r, <2>1, <2>2, <2>3, <2>4
       DEF Recording, RecordingBefore, RecordingBinding, RecordingLoop, RecordingWriting, Active
  <2>6. QED
    BY <2>1, <2>5, CalmTask DEF Begun, Active
<1>3. CASE BindFails(p) \/ Drained(p)
  <2>1. /\ task[p] \in {"binding", "draining"} /\ task' = [task EXCEPT ![p] = "clearing"]
        /\ DropReceiver(p)
        /\ UNCHANGED <<ps, start, listening, target, aborted>>
    BY <1>3 DEF BindFails, Drained
  <2>2. Recording(p)'
    BY <1>r, <1>t, <2>1, RecordingAway
  <2>3. p \notin listening
    BY <2>1 DEF CalmInv, Shown
  <2>4. QED
    BY <2>1, <2>2, <2>3, DropActive, CalmTask DEF Begun
<1>4. CASE StartCapture(p)
  <2>0. PICK t, c : t = Head(commands[p]) /\ c = Len(staged) + 1
    OBVIOUS
  <2>1. /\ task[p] = "loop" /\ commands[p] # <<>> /\ toggle[t].op = "start"
        /\ commands' = [commands EXCEPT ![p] = Tail(@)]
        /\ UNCHANGED <<ps, start, task, listening, aborted>>
    BY <1>4, <2>0 DEF StartCapture, NextCommand
  <2>2. /\ t \in Toggles /\ toggle[t].pc = "sent" /\ Tail(commands[p]) = <<>>
        /\ toggle[t].op = (IF ps.capturing THEN "stop" ELSE "start")
        /\ Settled(p)
        /\ \A u \in Toggles : Active(u) => u = t
    BY <2>0, <2>1, CalmCommand
  <2>3. target[p] = None
    BY <2>1, <2>2 DEF Settled
  <2>4. /\ target' = [target EXCEPT ![p] = c] /\ no_capture' = [no_capture EXCEPT ![p] = FALSE]
        /\ Reply(t, "ok", c)
    BY <1>4, <2>0, <2>3 DEF StartCapture
  <2>5. c \in Nat /\ c # None
    BY <2>0, WebAssumption DEF TypeInv, ProxyTypes
  <2>6. /\ toggle'[t].pc = "answered" /\ toggle'[t].op = "start"
        /\ toggle'[t].reply = "ok" /\ toggle'[t].capture = c
        /\ \A u \in Toggles : u # t => toggle'[u] = toggle[u]
        /\ \A u \in Toggles : Active(u)' <=> Active(u)
    BY <2>1, <2>2, <2>4, <1>t, SentAnswered
  <2>7. target'[p] = c /\ ~no_capture'[p] /\ commands'[p] = <<>>
    BY <2>1, <2>2, <2>4, <1>t
  <2>8. Agreed(p, t)'
    BY <2>5, <2>6, <2>7 DEF Agreed
  <2>9. \A u \in Toggles : toggle'[u].pc \in {"sent", "answered"} => u = t
    BY <2>2, <2>6 DEF Active
  <2>10. Recording(p)'
    BY <2>1, <2>2, <2>6, <2>7, <2>8, <2>9
       DEF Recording, RecordingBefore, RecordingBinding, RecordingLoop, RecordingWriting, Active
  <2>11. QED
    <3>1. task' = [task EXCEPT ![p] = "loop"] /\ task[p] \in Begun /\ "loop" \in Begun
      BY <2>1, <1>t DEF Begun
    <3>2. \A q \in Proxies : q # p => commands'[q] = commands[q] /\ target'[q] = target[q]
      BY <2>1, <2>4, <1>t
    <3>3. QED
      BY <2>1, <2>6, <2>10, <3>1, <3>2, CalmTask
<1>5. CASE StopCapture(p)
  <2>0. PICK t : t = Head(commands[p])
    OBVIOUS
  <2>1. /\ task[p] = "loop" /\ commands[p] # <<>> /\ toggle[t].op = "stop"
        /\ commands' = [commands EXCEPT ![p] = Tail(@)]
        /\ UNCHANGED <<ps, start, listening, aborted>>
    BY <1>5, <2>0 DEF StopCapture, NextCommand
  <2>2. /\ t \in Toggles /\ toggle[t].pc = "sent" /\ Tail(commands[p]) = <<>>
        /\ toggle[t].op = (IF ps.capturing THEN "stop" ELSE "start")
        /\ Settled(p)
    BY <2>0, <2>1, CalmCommand
  <2>3. target[p] # None
    BY <2>1, <2>2 DEF Settled
  <2>4. /\ task' = [task EXCEPT ![p] = "writing"] /\ toggle' = toggle
        /\ closing' = [closing EXCEPT ![p] = [capture |-> target[p], toggle |-> t]]
        /\ target' = [target EXCEPT ![p] = None]
        /\ no_capture' = [no_capture EXCEPT ![p] = TRUE]
    BY <1>5, <2>0, <2>3 DEF StopCapture, Close
  <2>5. /\ task'[p] = "writing" /\ target'[p] = None /\ no_capture'[p] /\ commands'[p] = <<>>
        /\ closing'[p].toggle = t
    BY <2>1, <2>2, <2>4, <1>t
  <2>6. Recording(p)'
    BY <2>1, <2>2, <2>4, <2>5
       DEF Recording, RecordingBefore, RecordingBinding, RecordingLoop, RecordingWriting
  <2>7. \A q \in Proxies : q # p => commands'[q] = commands[q] /\ target'[q] = target[q]
    BY <2>1, <2>4, <1>t
  <2>8. QED
    BY <2>1, <2>4, <2>6, <2>7, CalmTask DEF Begun, Active
<1>6. CASE WriteCapture(p)
  <2>0. PICK t, c : t = closing[p].toggle /\ c = closing[p].capture
    OBVIOUS
  <2>1. /\ task[p] = "writing" /\ task' = [task EXCEPT ![p] = "loop"]
        /\ UNCHANGED <<ps, start, listening, commands, target, no_capture, aborted>>
    BY <1>6 DEF WriteCapture
  <2>2. /\ commands[p] = <<>> /\ target[p] = None /\ no_capture[p]
        /\ t \in Toggles /\ toggle[t].pc = "sent" /\ toggle[t].op = "stop"
    BY <1>r, <2>0, <2>1 DEF Recording, RecordingWriting
  <2>3. PICK answer \in {"ok", "refused"} : Reply(t, answer, c)
    BY <1>6, <2>0 DEF WriteCapture
  <2>4. /\ toggle'[t].pc = "answered" /\ toggle'[t].op = "stop" /\ toggle'[t].reply = answer
        /\ \A u \in Toggles : u # t => toggle'[u] = toggle[u]
        /\ \A u \in Toggles : Active(u)' <=> Active(u)
    BY <2>2, <2>3, <1>t, SentAnswered
  <2>5. Agreed(p, t)'
    BY <2>1, <2>2, <2>4 DEF Agreed
  <2>6. \A u \in Toggles : toggle'[u].pc \in {"sent", "answered"} => u = t
    BY <2>2, <2>4 DEF CalmInv, OneAtATime, Active
  <2>7. Recording(p)'
    BY <2>1, <2>2, <2>4, <2>5, <2>6, <1>t
       DEF Recording, RecordingBefore, RecordingBinding, RecordingLoop, RecordingWriting, Active
  <2>8. QED
    BY <2>1, <2>4, <2>7, CalmTask DEF Begun
<1>7. CASE LoopEnds(p)
  <2>1. PICK pc \in {"flushing", "draining"} :
           /\ task' = [task EXCEPT ![p] = pc]
           /\ listening' = (IF pc = "draining" THEN listening \ {p} ELSE listening)
    BY <1>7 DEF LoopEnds
  <2>2. /\ task[p] = "loop" /\ UNCHANGED <<ps, start, toggle, commands, aborted>>
        /\ target' = target \/ target' = [target EXCEPT ![p] = None]
    BY <1>7 DEF LoopEnds, Close
  <2>3. task'[p] = pc
    BY <2>1, <1>t
  <2>4. Recording(p)'
    BY <1>r, <2>3, RecordingAway
  <2>5. \A q \in Proxies : q # p => commands'[q] = commands[q] /\ target'[q] = target[q]
    BY <2>2, <1>t
  <2>6. QED
    BY <2>1, <2>2, <2>4, <2>5, CalmTask DEF Begun, Active
<1>8. CASE FlushAtEnd(p)
  <2>1. /\ task[p] = "flushing" /\ task' = [task EXCEPT ![p] = "draining"]
        /\ listening' = listening \ {p}
        /\ UNCHANGED <<ps, start, toggle, commands, target, aborted>>
    BY <1>8 DEF FlushAtEnd
  <2>2. Recording(p)'
    BY <1>r, <1>t, <2>1, RecordingAway
  <2>3. QED
    BY <2>1, <2>2, CalmTask DEF Begun, Active
<1>9. CASE ClearState(p)
  <2>1. /\ task[p] = "clearing" /\ task' = [task EXCEPT ![p] = "done"] /\ ps' = Stopped
        /\ UNCHANGED <<start, toggle, listening, commands, target, aborted>>
    BY <1>9 DEF ClearState
  <2>2. /\ ps.running /\ ps.task = p /\ p \notin listening
        /\ \A q \in Proxies : task[q] \in Begun => q = p
        /\ \A q \in Proxies : start[q] \notin {"storing", "spawning"} /\ task[q] # "created"
    <3>1. task[p] \in Begun
      BY <2>1 DEF Begun
    <3>2. p \notin listening
      BY <2>1 DEF CalmInv, Shown
    <3>3. QED
      BY <3>1, <3>2, OneBegun DEF CalmInv
  <2>3. \A q \in Proxies : task'[q] = IF q = p THEN "done" ELSE task[q]
    BY <2>1, <1>t
  <2>4. OneAtATime'
    BY <2>1, <2>3 DEF CalmInv, OneAtATime, Starting, Active
  <2>5. listening = {}
    BY <2>2, <1>t DEF CalmInv, Shown
  <2>6. Shown'
    BY <2>1, <2>2, <2>3, <2>5 DEF Shown, Stopped, Begun
  <2>7. ASSUME NEW q \in Proxies PROVE Recording(q)'
    BY <2>1, <2>2, <2>3, RecordingAway DEF CalmInv, Begun
  <2>8. QED
    BY <2>4, <2>6, <2>7 DEF CalmInv
<1>10. CASE DropTask(p)
  <2>1. /\ p \in aborted /\ task[p] \notin Ended /\ task' = [task EXCEPT ![p] = "dropped"]
        /\ DropReceiver(p)
        /\ UNCHANGED <<start, ps, listening, target, aborted>>
    BY <1>10 DEF DropTask
  <2>2. \A q \in Proxies : task[q] \in Begun => q = p
    <3>1. CASE task[p] \in Begun
      BY <3>1, OneBegun DEF CalmInv
    <3>2. CASE task[p] = "created"
      BY <3>2 DEF CalmInv, Shown
    <3>3. QED
      BY <2>1, <3>1, <3>2, <1>t DEF Ended, TaskPcs, Begun
  <2>3. /\ \A q \in Proxies : task'[q] = IF q = p THEN "dropped" ELSE task[q]
        /\ \A q \in Proxies : q # p => commands'[q] = commands[q]
        /\ \A t \in Toggles : Active(t)' <=> Active(t)
    BY <2>1, <1>t, DropActive
  <2>4. OneAtATime'
    BY <2>1, <2>3 DEF CalmInv, OneAtATime, Starting
  <2>5. Shown'
    BY <2>1, <2>3 DEF CalmInv, Shown, Begun
  <2>6. ASSUME NEW q \in Proxies PROVE Recording(q)'
    BY <2>1, <2>2, <2>3, RecordingAway DEF CalmInv, Begun
  <2>7. QED
    BY <2>4, <2>5, <2>6 DEF CalmInv
<1>11. QED
  BY <1>1, <1>2, <1>3, <1>4, <1>5, <1>6, <1>7, <1>8, <1>9, <1>10 DEF TaskSteps

\* What an instance covers never changes.
LEMMA WebKept == [Next]_vars => web' = web
BY DEF Next, ProxyNext, StartSteps, TaskSteps, ToggleSteps, CheckRunning, StoreSender,
     SpawnTask, InsertHandle, TaskBegins, Bind, BindFails, StartCapture, StopCapture,
     WriteCapture, LoopEnds, FlushAtEnd, Drained, ClearState, DropTask, Query,
     SendCommand, SendFails, ToggleReturns, ToggleTimesOut, StopProxy, proxyVars,
     CancelProxy, ListTasks, Shutdown, vars

\* A step of a toggle.
LEMMA CalmToggles ==
  ASSUME TypeInv, Shape, Calm, CalmInv, NEW t \in Toggles, ToggleSteps(t)
  PROVE  CalmInv'
<1> USE DEF tasks, requesting, proxying, kept
<1>t. /\ task \in [Proxies -> TaskPcs] /\ toggle \in [Toggles -> ToggleState]
      /\ commands \in [Proxies -> Seq(Toggles)] /\ no_capture \in [Proxies -> BOOLEAN]
      /\ target \in [Proxies -> Captures] /\ ps \in ProxyState
  BY ShownTypes
<1>1. CASE SendCommand(t)
  <2>0. PICK p, op : p = ps.tx /\ op = (IF ps.capturing THEN "stop" ELSE "start")
    OBVIOUS
  <2>1. /\ ~Busy /\ ps.running /\ HasReceiver(p)
        /\ toggle' = [toggle EXCEPT ![t] = Asked(op)]
        /\ commands' = [commands EXCEPT ![p] = Append(@, t)]
        /\ UNCHANGED <<ps, start, task, listening, no_capture, target, closing, aborted>>
    BY <1>1, <2>0 DEF SendCommand, Asks, Alone, Calm
  <2>2. p \in Proxies /\ task[p] \in Begun
    BY <2>0, <2>1 DEF CalmInv, Shown, HasReceiver
  <2>3. \A q \in Proxies : task[q] \in Begun => q = p
    BY <2>2, OneBegun DEF CalmInv
  <2>4. \A u \in Toggles : toggle[u].pc \in {"idle", "done"}
    BY <2>1 DEF Busy
  <2>5. /\ toggle'[t].pc = "sent" /\ toggle'[t].op = op
        /\ \A u \in Toggles : u # t => toggle'[u] = toggle[u]
    <3>1. Asked(op).pc = "sent" /\ Asked(op).op = op
      BY DEF Asked
    <3>2. QED
      BY <2>1, <3>1, <1>t
  <2>6. \A u \in Toggles : ~Active(u) /\ toggle'[u].pc # "answered" /\ (toggle'[u].pc = "sent" => u = t)
    BY <2>4, <2>5 DEF Active
  <2>7. \A q \in Proxies : ~Starting(q)'
    BY <2>1, <1>t DEF Busy, Starting
  <2>8. OneAtATime'
    BY <2>6, <2>7 DEF OneAtATime, Active
  <2>9. Shown'
    BY <2>1 DEF CalmInv, Shown
  <2>10. Recording(p)'
    <3>1. CASE task[p] \in {"binding", "loop"}
      <4>1. commands[p] = <<>>
        BY <2>2, <2>6, <3>1 DEF CalmInv, Recording
      <4>2. Append(<<>>, t) = <<t>>
        OBVIOUS
      <4>3. commands'[p] = <<t>>
        BY <2>1, <2>2, <4>1, <4>2, <1>t
      <4>4. CASE task[p] = "binding"
        <5>1. target[p] = None /\ ~ps.capturing
          BY <2>2, <4>4 DEF CalmInv, Recording, RecordingBinding
        <5>2. op = "start"
          BY <2>0, <5>1
        <5>3. QED
          BY <2>1, <2>5, <2>6, <4>3, <4>4, <5>1, <5>2
             DEF Recording, RecordingBefore, RecordingBinding, RecordingLoop, RecordingWriting, Active
      <4>5. CASE task[p] = "loop"
        <5>1. Settled(p)
          BY <2>2, <2>4, <4>5 DEF CalmInv, Recording, RecordingLoop
        <5>2. Settled(p)'
          BY <2>1, <5>1 DEF Settled
        <5>3. QED
          BY <2>0, <2>1, <2>5, <2>6, <4>3, <4>5, <5>2
             DEF Recording, RecordingBefore, RecordingBinding, RecordingLoop, RecordingWriting, Active
      <4>6. QED
        BY <3>1, <4>4, <4>5
    <3>2. CASE task[p] = "writing"
      BY <2>2, <2>4, <3>2 DEF CalmInv, Recording, RecordingWriting
    <3>3. CASE task[p] \notin {"binding", "loop", "writing"}
      BY <2>1, <2>2, <3>3, RecordingAway DEF CalmInv, Begun
    <3>4. QED
      BY <3>1, <3>2, <3>3
  <2>11. ASSUME NEW q \in Proxies, q # p PROVE Recording(q)'
    <3>1. commands'[q] = commands[q]
      BY <2>1, <2>11, <1>t
    <3>2. QED
      BY <2>1, <2>3, <2>11, <3>1, RecordingAway DEF CalmInv, Begun
  <2>12. QED
    BY <2>8, <2>9, <2>10, <2>11 DEF CalmInv
<1>2. CASE SendFails(t)
  <2>0. PICK p : p = ps.tx
    OBVIOUS
  <2>1. /\ ~Busy /\ ps.running /\ ~HasReceiver(p)
        /\ ps' = [ps EXCEPT !.capturing = FALSE, !.capture = None]
        /\ toggle' = [toggle EXCEPT ![t] = [NotCalled EXCEPT !.pc = "done"]]
        /\ UNCHANGED <<start, task, listening, commands, target, aborted>>
    BY <1>2, <2>0 DEF SendFails, Asks, Alone, Calm, CaptureOff
  <2>2. ps'.running = ps.running /\ ps'.task = ps.task /\ ps'.tx = ps.tx
    BY <2>1, <1>t DEF ProxyState
  <2>3. toggle'[t].pc = "done" /\ \A u \in Toggles : u # t => toggle'[u] = toggle[u]
    <3>1. [NotCalled EXCEPT !.pc = "done"].pc = "done"
      BY DEF NotCalled
    <3>2. QED
      BY <2>1, <3>1, <1>t
  <2>4. \A u \in Toggles : ~Active(u)'
    BY <2>1, <2>3 DEF Busy, Active
  <2>5. OneAtATime'
    BY <2>1, <2>4 DEF CalmInv, OneAtATime, Starting
  <2>6. Shown'
    BY <2>1, <2>2 DEF CalmInv, Shown
  <2>7. \A q \in Proxies : task[q] \notin {"binding", "loop", "writing"}
    BY <2>0, <2>1 DEF CalmInv, Shown, HasReceiver, Begun
  <2>8. QED
    BY <2>1, <2>5, <2>6, <2>7, RecordingAway DEF CalmInv
<1>3. CASE ToggleReturns(t)
  <2>1. /\ toggle[t].pc = "answered" /\ Answered(t)
        /\ toggle' = [toggle EXCEPT ![t].pc = "done"]
        /\ UNCHANGED <<start, task, listening, commands, target, aborted>>
    BY <1>3 DEF ToggleReturns
  <2>2. \A u \in Toggles : Active(u) => u = t
    BY <2>1 DEF CalmInv, OneAtATime, Active
  <2>3. /\ \A u \in Toggles : u # t => toggle'[u] = toggle[u]
        /\ toggle'[t].pc = "done"
    BY <2>1, <1>t, DoneFields
  <2>4. \A u \in Toggles : ~Active(u)'
    BY <2>2, <2>3 DEF Active
  <2>5. ps'.running = ps.running /\ ps'.task = ps.task /\ ps'.tx = ps.tx
    BY <2>1, <1>t DEF Answered, shown, CaptureOn, CaptureOff, ProxyState
  <2>6. OneAtATime'
    BY <2>1, <2>4 DEF CalmInv, OneAtATime, Starting
  <2>7. Shown'
    BY <2>1, <2>5 DEF CalmInv, Shown
  <2>8. ASSUME NEW q \in Proxies PROVE Recording(q)'
    <3>1. CASE task[q] = "loop"
      <4>1. commands[q] = <<>> /\ Agreed(q, t)
        BY <2>1, <3>1 DEF CalmInv, Recording, RecordingLoop
      <4>2. CASE toggle[t].op = "start"
        <5>1. /\ toggle[t].reply = "ok" /\ toggle[t].capture = target[q] /\ target[q] # None
              /\ ~no_capture[q]
          BY <4>1, <4>2, WebAssumption DEF Agreed
        <5>2. ps' = [ps EXCEPT !.capturing = TRUE, !.capture = toggle[t].capture] /\ no_capture' = no_capture
          BY <2>1, <4>2, <5>1 DEF Answered
        <5>3. ps'.capturing /\ ps'.capture = toggle[t].capture
          BY <5>2, <1>t DEF ProxyState
        <5>4. Settled(q)'
          BY <2>1, <5>1, <5>2, <5>3 DEF Settled
        <5>5. QED
          BY <2>1, <2>4, <3>1, <4>1, <5>4
             DEF Recording, RecordingBefore, RecordingBinding, RecordingLoop, RecordingWriting, Active
      <4>3. CASE toggle[t].op = "stop"
        <5>1. toggle[t].reply \in {"ok", "refused"} /\ target[q] = None /\ no_capture[q]
          BY <4>1, <4>3 DEF Agreed
        <5>2. ps' = [ps EXCEPT !.capturing = FALSE, !.capture = None] /\ no_capture' = no_capture
          BY <2>1, <4>3, <5>1 DEF Answered, shown
        <5>3. ~ps'.capturing
          BY <5>2, <1>t DEF ProxyState
        <5>4. Settled(q)'
          BY <2>1, <5>1, <5>2, <5>3 DEF Settled
        <5>5. QED
          BY <2>1, <2>4, <3>1, <4>1, <5>4
             DEF Recording, RecordingBefore, RecordingBinding, RecordingLoop, RecordingWriting, Active
      <4>4. QED
        BY <4>1, <4>2, <4>3 DEF Agreed
    <3>2. CASE task[q] \in {"binding", "writing"}
      <4>1. task[q] # "binding"
        BY <2>1 DEF CalmInv, Recording, RecordingBinding, Active
      <4>2. CASE task[q] = "writing"
        BY <2>1, <2>2, <4>2 DEF CalmInv, Recording, RecordingWriting, Active
      <4>3. QED
        BY <3>2, <4>1, <4>2
    <3>3. CASE task[q] \notin {"binding", "loop", "writing"}
      BY <2>1, <3>3, RecordingAway DEF CalmInv
    <3>4. QED
      BY <3>1, <3>2, <3>3
  <2>9. QED
    BY <2>6, <2>7, <2>8 DEF CalmInv
<1>4. CASE ToggleTimesOut(t)
  BY <1>4 DEF ToggleTimesOut, Calm
<1>5. QED
  BY <1>1, <1>2, <1>3, <1>4 DEF ToggleSteps

LEMMA CalmStep == TypeInv /\ Shape /\ Calm /\ CalmInv /\ [Next]_vars => CalmInv'
<1> SUFFICES ASSUME TypeInv, Shape, Calm, CalmInv, [Next]_vars PROVE CalmInv'
  OBVIOUS
<1> USE DEF tasks, requesting, proxying, kept
<1>1. CASE UNCHANGED <<ps, start, toggle, task, listening, no_capture, commands, target, closing>>
  <2>1. aborted \subseteq aborted'
    BY AbortedGrows
  <2>2. OneAtATime' /\ Shown'
    BY <1>1, <2>1 DEF CalmInv, OneAtATime, Shown, Starting, Active
  <2>3. QED
    BY <1>1, <2>2, RecordingKept DEF CalmInv
<1>2. CASE UNCHANGED proxyVars \/ StopProxy \/ \E p \in Proxies : Query(p)
  BY <1>1, <1>2 DEF proxyVars, StopProxy, Query
<1>3. CASE ProxyNext
  BY <1>2, <1>3, CalmStarts, CalmTasks, CalmToggles DEF ProxyNext
<1>4. QED
  BY <1>2, <1>3 DEF Next, CancelProxy, ListTasks, Shutdown, vars

\* For an operator who asks one thing at a time, and a loop that answers in
\* time, the dashboard shows the proxy that runs, whether it captures, and the
\* capture it records into.
THEOREM DashboardCorrect == Spec => []DashboardTrue
<1>1. Init => DashboardInv
  BY DEF Init, TasksInit, ProxyInit, DashboardInv, Shape, CalmInv, OneAtATime, Shown, Starting,
         Active, Stopped, NotCalled, Begun, Recording, RecordingBefore, RecordingBinding,
         RecordingLoop, RecordingWriting
<1>2. TypeInv /\ DashboardInv /\ [Next]_vars => DashboardInv'
  <2> SUFFICES ASSUME TypeInv, DashboardInv, [Next]_vars PROVE DashboardInv'
    OBVIOUS
  <2>1. Calm' => Calm
    BY WebKept DEF Calm
  <2>2. QED
    BY <2>1, ShapeStep, CalmStep DEF DashboardInv
<1>3. TypeInv /\ DashboardInv => DashboardTrue
  <2> SUFFICES ASSUME TypeInv, DashboardInv, Calm, ~Busy PROVE DashboardTrue
    BY DEF DashboardTrue, Calm
  <2>1. \A t \in Toggles : ~Active(t) /\ toggle[t].pc # "answered"
    BY DEF Busy, Active
  <2>2. ASSUME NEW p \in Proxies, task[p] = "loop" PROVE Settled(p) /\ ps.running /\ ps.task = p /\ ps.tx = p
    BY <2>1, <2>2, OneBegun DEF DashboardInv, CalmInv, Recording, RecordingLoop, Begun
  <2>3. ps.running /\ Awake(ps.task) => task[ps.task] \notin Ended
    BY DEF DashboardInv, CalmInv, Shown, Awake, Ended, Begun
  <2>4. ~ps.running => listening = {}
    BY ShownTypes DEF DashboardInv, CalmInv, Shown
  <2>5. QED
    BY <2>2, <2>3, <2>4 DEF DashboardTrue, Settled
<1>4. QED
  BY <1>1, <1>2, <1>3, TypeCorrect, PTL DEF Spec
=============================================================================
