----------------------------- MODULE Correlation -----------------------------
(***************************************************************************)
(* Generated ids from capture to replay (correlate/, cmd_proxy, cmd_compile *)
(* and cmd_replay of main.rs): the snapshot of the sequences a capture     *)
(* begins with, the profile with or without the values clients were given, *)
(* its compilation, and the reset of the target before a replay.           *)
(*                                                                         *)
(* A sequence is [last, called]: nextval gives last, or the one after it   *)
(* when called.  What the sessions of a replay do with an IdMap is in      *)
(* module Replay, the text of statements in SqlText.                       *)
(***************************************************************************)
EXTENDS Naturals, Sequences, FiniteSets

CONSTANTS
    Counters,   \* names of sequences
    Start,      \* [name -> start_value]
    Originals,  \* the sequences of the source when the proxy starts: [name -> sequence]
    Backups,    \* those of the target, a name may be missing
    IdModes,    \* of capture and of replay
    MaxDraws    \* bound: values the workload draws

Sequence == [last : Nat, called : BOOLEAN]

ASSUME CorrelationAssumption ==
    /\ IsFiniteSet(Counters) /\ MaxDraws \in Nat
    /\ Start \in [Counters -> Nat]
    /\ Originals \subseteq [Counters -> Sequence]
    /\ \A b \in Backups : DOMAIN b \subseteq Counters /\ b \in [DOMAIN b -> Sequence]
    /\ IdModes \subseteq {"none", "sequence", "correlate", "full"}

VARIABLES
    phase,       \* where capture, compilation and replay are
    id_mode,     \* [capture, replay, and implicit: --id-capture-implicit]
    source_seqs, target_seqs, \* databases: [name -> sequence]
    moved,       \* history: what RESTART WITH or setval(.., false) had moved and nobody used since
    drawn,       \* values the workload drew at capture: <<name, value>>
    workload,    \* the profile: [capture_method, sequence_snapshot, response_values]
    todo_seqs,   \* sequences of the snapshot still to restore
    resets,      \* [reset, skipped, errors]
    redrawn      \* values it draws at replay

databases == <<source_seqs, target_seqs, moved>>
correlationVars == <<phase, id_mode, databases, drawn, workload, todo_seqs, resets, redrawn>>

needs_sequences(mode) == mode \in {"sequence", "full"}
needs_correlation(mode) == mode \in {"correlate", "full"}

enable_correlation == needs_correlation(id_mode.capture) \/ id_mode.implicit
IdOptions == [capture : IdModes, replay : IdModes, implicit : BOOLEAN]

nextval(seq) == IF seq.called THEN seq.last + 1 ELSE seq.last
Used(seq) == [last |-> nextval(seq), called |-> TRUE]

CorrelationInit ==
    /\ phase = "proxy" /\ id_mode \in IdOptions
    /\ source_seqs \in Originals /\ target_seqs \in Backups
    /\ moved = {q \in Counters : ~source_seqs[q].called /\ source_seqs[q].last # Start[q]}
    /\ drawn = << >> /\ redrawn = << >> /\ todo_seqs = {} /\ resets = [reset |-> 0, skipped |-> 0, errors |-> 0]
    /\ workload = [capture_method |-> "proxy", sequence_snapshot |-> << >>, response_values |-> FALSE]

-----------------------------------------------------------------------------
(* Capture.                                                                *)

\* snapshot_sequences: last_value is null of a sequence that is not called,
\* wherever it stands (and where the user may not read it, which is left out).
SequenceState(q) ==
    IF source_seqs[q].called THEN [last_value |-> <<source_seqs[q].last>>, start_value |-> Start[q], is_called |-> TRUE]
    ELSE [last_value |-> << >>, start_value |-> Start[q], is_called |-> FALSE]

\* cmd_proxy, before it listens; it goes on without a snapshot when there is
\* no --source-db or the query fails.
StartCaptureProxy ==
    /\ phase = "proxy" /\ phase' = "capture"
    /\ \/ /\ needs_sequences(id_mode.capture)
          /\ workload' = [workload EXCEPT !.sequence_snapshot = <<[q \in Counters |-> SequenceState(q)]>>]
       \/ UNCHANGED workload
    /\ UNCHANGED <<id_mode, databases, drawn, todo_seqs, resets, redrawn>>

\* An INSERT through the proxy draws a value; what a RETURNING, written or
\* spliced in, gives of it is kept when ids are correlated.
CaptureInsert(q) ==
    /\ phase = "capture" /\ Len(drawn) < MaxDraws
    /\ drawn' = Append(drawn, <<q, nextval(source_seqs[q])>>)
    /\ source_seqs' = [source_seqs EXCEPT ![q] = Used(@)]
    /\ \E returned \in BOOLEAN :
          workload' = [workload EXCEPT !.response_values = @ \/ (returned /\ enable_correlation)]
    /\ UNCHANGED <<phase, id_mode, target_seqs, moved, todo_seqs, resets, redrawn>>

StopCaptureProxy ==
    /\ phase = "capture" /\ phase' = "profile"
    /\ UNCHANGED <<id_mode, databases, drawn, workload, todo_seqs, resets, redrawn>>

\* compile_workload: refused without response values, and strips them.
CompileWorkload ==
    /\ phase = "profile" /\ workload.response_values
    /\ workload' = [workload EXCEPT !.response_values = FALSE, !.capture_method = "proxy+compiled"]
    /\ UNCHANGED <<phase, id_mode, databases, drawn, todo_seqs, resets, redrawn>>

-----------------------------------------------------------------------------
(* Replay.                                                                 *)

is_compiled == workload.capture_method = "proxy+compiled"
needs_sequence_restore == needs_sequences(id_mode.replay) \/ is_compiled

StartRestore ==
    /\ phase = "profile" /\ phase' = "restore"
    /\ todo_seqs' = IF needs_sequence_restore /\ workload.sequence_snapshot # << >> THEN Counters ELSE {}
    /\ UNCHANGED <<id_mode, databases, drawn, workload, resets, redrawn>>

\* restore_sql: setval; the slip: a sequence nobody used counts as called.
restore_sql_called(s) == [last |-> IF s.is_called THEN s.last_value[1] ELSE s.start_value, called |-> TRUE]
restore_sql(s) ==
    IF s.is_called /\ s.last_value # << >> THEN [last |-> s.last_value[1], called |-> TRUE]
    ELSE [last |-> s.start_value, called |-> FALSE]

RestoreSequence(q) ==
    /\ phase = "restore" /\ q \in todo_seqs
    /\ todo_seqs' = todo_seqs \ {q}
    /\ \/ /\ q \in DOMAIN target_seqs
          /\ target_seqs' = [target_seqs EXCEPT ![q] = restore_sql(workload.sequence_snapshot[1][q])]
          /\ resets' = [resets EXCEPT !.reset = @ + 1]
       \/ /\ q \notin DOMAIN target_seqs
          /\ resets' = [resets EXCEPT !.skipped = @ + 1] /\ UNCHANGED target_seqs
       \/ resets' = [resets EXCEPT !.errors = @ + 1] /\ UNCHANGED target_seqs
    /\ UNCHANGED <<phase, id_mode, source_seqs, moved, drawn, workload, redrawn>>

\* The check of the capture method comes after the reset.
BeginOrRefuse ==
    /\ phase = "restore" /\ todo_seqs = {}
    /\ phase' = IF needs_correlation(id_mode.replay) /\ workload.capture_method # "proxy" THEN "refused" ELSE "replay"
    /\ UNCHANGED <<id_mode, databases, drawn, workload, todo_seqs, resets, redrawn>>

\* connect for the reset fails: the command ends.
RestoreFails ==
    /\ phase = "restore" /\ todo_seqs = Counters
    /\ phase' = "failed"
    /\ UNCHANGED <<id_mode, databases, drawn, workload, todo_seqs, resets, redrawn>>

ReplayInsert ==
    /\ phase = "replay" /\ Len(redrawn) < Len(drawn)
    /\ LET q == drawn[Len(redrawn) + 1][1]
       IN IF q \in DOMAIN target_seqs
          THEN /\ redrawn' = Append(redrawn, <<q, nextval(target_seqs[q])>>)
               /\ target_seqs' = [target_seqs EXCEPT ![q] = Used(@)]
          ELSE redrawn' = Append(redrawn, << >>) /\ UNCHANGED target_seqs
    /\ UNCHANGED <<phase, id_mode, source_seqs, moved, drawn, workload, todo_seqs, resets>>

CorrelationNext ==
    \/ StartCaptureProxy \/ StopCaptureProxy \/ CompileWorkload \/ StartRestore
    \/ BeginOrRefuse \/ RestoreFails \/ ReplayInsert
    \/ \E q \in Counters : CaptureInsert(q) \/ RestoreSequence(q)

CorrelationSpec == CorrelationInit /\ [][CorrelationNext]_correlationVars

-----------------------------------------------------------------------------
\* A replay that reset every sequence of the snapshot gives each statement the
\* id it was given at capture, whatever the target was restored from and
\* whether or not a sequence had been used by then, with an id mode or
\* compiled (sequence.rs 26-113, main.rs 366-420).  A sequence that stood moved
\* and uncalled is left out: the snapshot has no place for where it stood, and
\* restore_sql puts it to its start value (sequence.rs 38-44), where
\* docs/id-correlation.md:53 promises the same values of nextval.
IdsRight ==
    needs_sequence_restore /\ workload.sequence_snapshot # << >> /\ resets.reset = Cardinality(Counters) =>
        \A k \in DOMAIN redrawn : drawn[k][1] \notin moved => redrawn[k] = drawn[k]
=============================================================================
