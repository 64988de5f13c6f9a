-------------------------------- MODULE Batch --------------------------------
(***************************************************************************)
(* The commands of main.rs that run to their end by themselves, one at a   *)
(* time: each has state of its own, and meets the others only through the  *)
(* profiles and results they write.  The proxy and the web server have     *)
(* modules of their own, and the sessions of a replay module Replay.       *)
(***************************************************************************)
EXTENDS Tuner, Pipeline, Logs, SqlText, Correlation, Transform

\* run also stands for replay, compare, inspect and ab (Pipeline); ids for
\* proxy, compile and replay with an id mode; sql for what they do to texts.
CommandNames == {"tune", "run", "capture", "sql", "ids", "transform"}

VARIABLE command

\* The state of the other commands is one that they begin in.
Only(name, S) == IF command = name THEN S ELSE {CHOOSE x \in S : TRUE}

BatchInit ==
    /\ command \in CommandNames
    /\ request \in Only("tune", Requests) /\ TunerInit
    /\ config \in Only("run", Configs) /\ PipelineInit
    /\ capture \in Only("capture", Captures) /\ LogsInit
    /\ step \in Only("sql", {"captured", "relayed"}) /\ text \in Only("sql", Texts \cup {s.text : s \in Statements})
    /\ used_map \in Only("sql", IdMaps) /\ TextInit
    /\ id_mode \in Only("ids", IdOptions)
    /\ source_seqs \in Only("ids", Originals) /\ target_seqs \in Only("ids", Backups) /\ CorrelationInit
    /\ source \in Only("transform", Workloads) /\ plan \in Only("transform", Plans) /\ TransformInit

BatchNext ==
    \/ command = "tune" /\ TunerNext
       /\ UNCHANGED <<command, pipelineVars, logVars, textVars, correlationVars, transformVars>>
    \/ command = "run" /\ PipelineNext
       /\ UNCHANGED <<command, tunerVars, logVars, textVars, correlationVars, transformVars>>
    \/ command = "capture" /\ LogsNext
       /\ UNCHANGED <<command, tunerVars, pipelineVars, textVars, correlationVars, transformVars>>
    \/ command = "sql" /\ TextNext
       /\ UNCHANGED <<command, tunerVars, pipelineVars, logVars, correlationVars, transformVars>>
    \/ command = "ids" /\ CorrelationNext
       /\ UNCHANGED <<command, tunerVars, pipelineVars, logVars, textVars, transformVars>>
    \/ command = "transform" /\ TransformNext
       /\ UNCHANGED <<command, tunerVars, pipelineVars, logVars, textVars, correlationVars>>

BatchSpec == BatchInit /\ [][BatchNext]_<<command, tunerVars, pipelineVars, logVars, textVars, correlationVars, transformVars>>
=============================================================================
