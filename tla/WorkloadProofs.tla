-------------------------- MODULE WorkloadProofs --------------------------
(***************************************************************************)
(* Theorems about what is done with a captured workload: the generated ids *)
(* of Correlation, for any sequences, uses and targets; the groups of      *)
(* tables and the engine of Transform, for any tables, workload and plan;  *)
(* and the verdict of Pipeline, for any configuration and any workload.    *)
(* None reads a variable of another.                                       *)
(***************************************************************************)
EXTENDS Correlation, Transform, Pipeline, FiniteSetTheorems, WellFoundedInduction, SequenceTheorems, TLAPS

States == {s \in [last_value : Seq(Nat), start_value : Nat, is_called : BOOLEAN] :
              s.is_called => s.last_value # << >>}
Snapshots == {<< >>} \cup {<<f>> : f \in [Counters -> States]}
Phases == {"proxy", "capture", "profile", "restore", "refused", "failed", "replay"}

CorrelationTypeOK ==
    /\ phase \in Phases
    /\ source_seqs \in [Counters -> Sequence]
    /\ DOMAIN target_seqs \subseteq Counters /\ target_seqs \in [DOMAIN target_seqs -> Sequence]
    /\ drawn \in Seq(Counters \X Nat)
    /\ redrawn \in Seq((Counters \X Nat) \cup {<< >>}) /\ Len(redrawn) <= Len(drawn)
    /\ workload \in [capture_method : {"proxy", "proxy+compiled"}, sequence_snapshot : Snapshots,
                     response_values : BOOLEAN]
    /\ todo_seqs \subseteq Counters
    /\ resets \in [reset : Nat, skipped : Nat, errors : Nat]

\* A sequence that is not called is where it started or was moved, and what is
\* left to restore is of a snapshot.
TypeInv ==
    /\ CorrelationTypeOK
    /\ \A q \in Counters \ moved : ~source_seqs[q].called => source_seqs[q].last = Start[q]
    /\ todo_seqs # {} => phase \in {"restore", "failed"} /\ workload.sequence_snapshot # << >>

\* The value a sequence gives next is a number, and a use gives the one after.
LEMMA Values ==
    ASSUME NEW s \in Sequence
    PROVE  nextval(s) \in Nat /\ Used(s) \in Sequence /\ Used(s).called /\ nextval(Used(s)) = nextval(s) + 1
BY DEF Sequence, nextval, Used

\* What the snapshot keeps of a sequence, and what is restored from it.
LEMMA Restored ==
    ASSUME NEW q \in Counters, NEW s \in States
    PROVE  restore_sql(s) \in Sequence
<1>1. s.is_called => s.last_value[1] \in Nat
  BY DEF States
<1> QED
  BY <1>1 DEF States, Sequence, restore_sql

\* A sequence put back from its snapshot gives the value the source would have
\* given next, if it is called or where it started.
LEMMA Kept ==
    ASSUME NEW q \in Counters, source_seqs[q] \in Sequence
    PROVE  /\ SequenceState(q) \in States
           /\ (~source_seqs[q].called => source_seqs[q].last = Start[q]) =>
                nextval(restore_sql(SequenceState(q))) = nextval(source_seqs[q])
<1>1. Start[q] \in Nat
  BY CorrelationAssumption
<1>2. CASE source_seqs[q].called
  <2>1. SequenceState(q) = [last_value |-> <<source_seqs[q].last>>, start_value |-> Start[q], is_called |-> TRUE]
    BY <1>2 DEF SequenceState
  <2>2. /\ <<source_seqs[q].last>> \in Seq(Nat) /\ <<source_seqs[q].last>> # << >>
        /\ <<source_seqs[q].last>>[1] = source_seqs[q].last
    BY DEF Sequence
  <2>3. SequenceState(q) \in States
    <3> DEFINE value == <<source_seqs[q].last>>
    <3>1. value \in Seq(Nat) /\ value # << >>
      BY <2>2
    <3>2. SequenceState(q) = [last_value |-> value, start_value |-> Start[q], is_called |-> TRUE]
      BY <2>1
    <3> HIDE DEF value
    <3> QED
      BY <1>1, <3>1, <3>2 DEF States
  <2>4. restore_sql(SequenceState(q)) = [last |-> source_seqs[q].last, called |-> TRUE]
    BY <2>1, <2>2 DEF restore_sql
  <2> QED
    BY <1>2, <2>3, <2>4 DEF Sequence, nextval
<1>3. CASE ~source_seqs[q].called
  <2>1. SequenceState(q) = [last_value |-> << >>, start_value |-> Start[q], is_called |-> FALSE]
    BY <1>3 DEF SequenceState
  <2> QED
    BY <1>1, <1>3, <2>1 DEF States, Sequence, restore_sql, nextval
<1> QED
  BY <1>2, <1>3 DEF Sequence

\* The types hold at first.
LEMMA TypeInit == CorrelationInit => TypeInv
<1> SUFFICES ASSUME CorrelationInit PROVE TypeInv
  OBVIOUS
<1> USE DEF CorrelationInit
<1>1. /\ source_seqs \in [Counters -> Sequence]
      /\ \A q \in Counters \ moved : ~source_seqs[q].called => source_seqs[q].last = Start[q]
  BY CorrelationAssumption
<1>2. DOMAIN target_seqs \subseteq Counters /\ target_seqs \in [DOMAIN target_seqs -> Sequence]
  BY CorrelationAssumption
<1>3. workload \in [capture_method : {"proxy", "proxy+compiled"}, sequence_snapshot : Snapshots, response_values : BOOLEAN]
  BY DEF Snapshots
<1> QED
  BY <1>1, <1>2, <1>3 DEF TypeInv, CorrelationTypeOK, Phases

\* Every step keeps the types.
LEMMA TypeStep == TypeInv /\ [CorrelationNext]_correlationVars => TypeInv'
<1> SUFFICES ASSUME TypeInv, [CorrelationNext]_correlationVars PROVE TypeInv'
  OBVIOUS
<1> USE DEF TypeInv, CorrelationTypeOK, Phases, databases
<1>1. CASE StartCaptureProxy
  <2>1. [q \in Counters |-> SequenceState(q)] \in [Counters -> States]
    BY Kept
  <2>2. workload' \in [capture_method : {"proxy", "proxy+compiled"}, sequence_snapshot : Snapshots, response_values : BOOLEAN]
    BY <1>1, <2>1 DEF StartCaptureProxy, Snapshots
  <2> QED
    BY <1>1, <2>2 DEF StartCaptureProxy
<1>2. ASSUME NEW q \in Counters, CaptureInsert(q) PROVE TypeInv'
  <2>1. nextval(source_seqs[q]) \in Nat /\ Used(source_seqs[q]) \in Sequence
    BY Values
  <2>2. drawn' \in Seq(Counters \X Nat) /\ Len(drawn') = Len(drawn) + 1
    BY <1>2, <2>1 DEF CaptureInsert
  <2>3. /\ source_seqs' \in [Counters -> Sequence]
        /\ \A r \in Counters \ moved : ~source_seqs'[r].called => source_seqs'[r].last = Start[r]
    BY <1>2, <2>1, Values DEF CaptureInsert
  <2>4. workload' \in [capture_method : {"proxy", "proxy+compiled"}, sequence_snapshot : Snapshots, response_values : BOOLEAN]
    BY <1>2 DEF CaptureInsert, enable_correlation, needs_correlation
  <2> QED
    BY <1>2, <2>2, <2>3, <2>4 DEF CaptureInsert
<1>3. CASE StopCaptureProxy
  BY <1>3 DEF StopCaptureProxy
<1>4. CASE CompileWorkload
  <2>1. workload' \in [capture_method : {"proxy", "proxy+compiled"}, sequence_snapshot : Snapshots, response_values : BOOLEAN]
    BY <1>4 DEF CompileWorkload
  <2> QED
    BY <1>4, <2>1 DEF CompileWorkload
<1>5. CASE StartRestore
  BY <1>5 DEF StartRestore
<1>6. ASSUME NEW q \in Counters, RestoreSequence(q) PROVE TypeInv'
  <2>1. /\ phase = "restore" /\ q \in todo_seqs /\ todo_seqs' = todo_seqs \ {q}
        /\ \/ /\ q \in DOMAIN target_seqs
              /\ target_seqs' = [target_seqs EXCEPT ![q] = restore_sql(workload.sequence_snapshot[1][q])]
           \/ UNCHANGED target_seqs
        /\ UNCHANGED <<phase, id_mode, source_seqs, moved, drawn, workload, redrawn>>
    BY <1>6 DEF RestoreSequence
  <2>4. resets' \in [reset : Nat, skipped : Nat, errors : Nat]
    <3>1. \/ resets' = [resets EXCEPT !.reset = @ + 1] \/ resets' = [resets EXCEPT !.skipped = @ + 1]
          \/ resets' = [resets EXCEPT !.errors = @ + 1]
      BY <1>6 DEF RestoreSequence
    <3> QED
      BY <3>1
  <2>2. restore_sql(workload.sequence_snapshot[1][q]) \in Sequence
    <3>1. workload.sequence_snapshot \in {<<f>> : f \in [Counters -> States]}
      BY <2>1 DEF Snapshots
    <3>2. workload.sequence_snapshot[1][q] \in States
      BY <3>1
    <3> QED
      BY <3>2, Restored
  <2>3. DOMAIN target_seqs' = DOMAIN target_seqs /\ target_seqs' \in [DOMAIN target_seqs -> Sequence]
    BY <2>1, <2>2
  <2> QED
    BY <2>1, <2>3, <2>4
<1>7. CASE BeginOrRefuse
  BY <1>7 DEF BeginOrRefuse
<1>8. CASE RestoreFails
  BY <1>8 DEF RestoreFails
<1>9. CASE ReplayInsert
  <2> DEFINE name == drawn[Len(redrawn) + 1][1]
  <2>1. /\ phase = "replay" /\ Len(redrawn) < Len(drawn)
        /\ \/ /\ name \in DOMAIN target_seqs /\ redrawn' = Append(redrawn, <<name, nextval(target_seqs[name])>>)
              /\ target_seqs' = [target_seqs EXCEPT ![name] = Used(@)]
           \/ redrawn' = Append(redrawn, << >>) /\ UNCHANGED target_seqs
        /\ UNCHANGED <<phase, id_mode, source_seqs, moved, drawn, workload, todo_seqs, resets>>
    BY <1>9 DEF ReplayInsert
  <2> HIDE DEF name
  <2>2. CASE /\ name \in DOMAIN target_seqs /\ redrawn' = Append(redrawn, <<name, nextval(target_seqs[name])>>)
             /\ target_seqs' = [target_seqs EXCEPT ![name] = Used(@)]
    <3>1. nextval(target_seqs[name]) \in Nat /\ Used(target_seqs[name]) \in Sequence /\ name \in Counters
      BY <2>2, Values
    <3>2. redrawn' \in Seq((Counters \X Nat) \cup {<< >>}) /\ Len(redrawn') <= Len(drawn)
      BY <2>1, <2>2, <3>1
    <3>3. DOMAIN target_seqs' = DOMAIN target_seqs /\ target_seqs' \in [DOMAIN target_seqs -> Sequence]
      BY <2>2, <3>1
    <3> QED
      BY <2>1, <3>2, <3>3
  <2>3. CASE redrawn' = Append(redrawn, << >>) /\ UNCHANGED target_seqs
    <3>1. redrawn' \in Seq((Counters \X Nat) \cup {<< >>}) /\ Len(redrawn') <= Len(drawn)
      BY <2>1, <2>3
    <3> QED
      BY <2>1, <2>3, <3>1
  <2> QED
    BY <2>1, <2>2, <2>3
<1>10. CASE UNCHANGED correlationVars
  BY <1>10 DEF correlationVars
<1> QED
  BY <1>1, <1>2, <1>3, <1>4, <1>5, <1>6, <1>7, <1>8, <1>9, <1>10 DEF CorrelationNext

\* A sequence, a draw and a workload of the right kind stay so: every variable
\* keeps its type (sequence.rs, map.rs, compile.rs, main.rs 366-420).
THEOREM TypeCorrect == CorrelationSpec => []CorrelationTypeOK
<1>1. TypeInv => CorrelationTypeOK
  BY DEF TypeInv
<1> QED
  BY <1>1, TypeInit, TypeStep, PTL DEF CorrelationSpec

-----------------------------------------------------------------------------
(***************************************************************************)
(* Ids.  IdsRight compares two runs of the workload; what they share is a  *)
(* function of the snapshot: the value that a sequence gives after the     *)
(* first n draws of all.                                                   *)
(***************************************************************************)
Draws(s, q, n) == {j \in 1..n : s[j][1] = q}
FirstValue(q) == nextval(restore_sql(workload.sequence_snapshot[1][q]))
Given(q, n) == FirstValue(q) + Cardinality(Draws(drawn, q, n))
Snapped == workload.sequence_snapshot # << >>

CaptureInv ==
    /\ phase = "proxy" => drawn = << >> /\ ~Snapped
    /\ Snapped => \A k \in DOMAIN drawn, q \in Counters \ moved : drawn[k][1] = q => drawn[k][2] = Given(q, k - 1)
    /\ Snapped /\ phase = "capture" => \A q \in Counters \ moved, n \in Nat :
          n = Len(drawn) => nextval(source_seqs[q]) = Given(q, n)
\* Every sequence that is not put back leaves a number fewer than there are.
RestoreInv ==
    /\ phase \in {"proxy", "capture", "profile"} => resets.reset = 0
    /\ phase # "replay" => redrawn = << >>
    /\ phase = "replay" => todo_seqs = {}
    /\ phase \in {"restore", "replay"} /\ needs_sequence_restore /\ Snapped =>
          /\ resets.reset + Cardinality(todo_seqs) <= Cardinality(Counters)
          /\ resets.reset + Cardinality(todo_seqs) = Cardinality(Counters) =>
                \A q \in Counters \ todo_seqs, n \in Nat :
                    n = Len(redrawn) => q \in DOMAIN target_seqs /\ nextval(target_seqs[q]) = Given(q, n)

IdsInv == TypeInv /\ CaptureInv /\ RestoreInv /\ IdsRight

\* One draw more counts for its sequence, and for no other.
LEMMA DrawsNext ==
    ASSUME NEW s, NEW q, NEW n \in Nat
    PROVE  /\ Cardinality(Draws(s, q, n)) \in Nat
           /\ Cardinality(Draws(s, q, n + 1)) = Cardinality(Draws(s, q, n)) + (IF s[n + 1][1] = q THEN 1 ELSE 0)
<1>1. IsFiniteSet(1..n)
  BY FS_Interval
<1>2. IsFiniteSet(Draws(s, q, n)) /\ Cardinality(Draws(s, q, n)) \in Nat
  BY <1>1, FS_Subset, FS_CardinalityType DEF Draws
<1>3. CASE s[n + 1][1] = q
  <2>1. Draws(s, q, n + 1) = Draws(s, q, n) \cup {n + 1} /\ n + 1 \notin Draws(s, q, n)
    BY <1>3 DEF Draws
  <2>2. Cardinality(Draws(s, q, n + 1)) = Cardinality(Draws(s, q, n)) + 1
    BY <1>2, <2>1, FS_AddElement
  <2> QED
    BY <1>2, <1>3, <2>2
<1>4. CASE s[n + 1][1] # q
  <2>1. Draws(s, q, n + 1) = Draws(s, q, n)
    BY <1>4 DEF Draws
  <2> QED
    BY <1>2, <1>4, <2>1
<1> QED
  BY <1>3, <1>4

\* How often a sequence is drawn from looks only at the prefix.
LEMMA DrawsAlike ==
    ASSUME NEW s, NEW t, NEW q, NEW n, \A j \in 1..n : s[j] = t[j]
    PROVE  Draws(s, q, n) = Draws(t, q, n)
BY DEF Draws

\* The value a draw is given depends on what was drawn before it and the snapshot alone.
LEMMA GivenSame ==
    ASSUME UNCHANGED drawn, workload'.sequence_snapshot = workload.sequence_snapshot
    PROVE  \A q, n : Given(q, n)' = Given(q, n)
BY DEF Given, FirstValue, nextval, restore_sql

\* The first value of a restored sequence is a number.
LEMMA FirstIsNumber ==
    ASSUME TypeInv, Snapped, NEW q \in Counters
    PROVE  FirstValue(q) \in Nat
<1>1. workload.sequence_snapshot[1][q] \in States
  BY DEF TypeInv, CorrelationTypeOK, Snapshots, Snapped
<1> QED
  BY <1>1, Restored, Values DEF FirstValue

\* The invariant holds at first.
LEMMA IdsInit == CorrelationInit => IdsInv
<1> SUFFICES ASSUME CorrelationInit PROVE IdsInv
  OBVIOUS
<1>1. /\ phase = "proxy" /\ drawn = << >> /\ redrawn = << >> /\ ~Snapped /\ resets.reset = 0
  BY DEF CorrelationInit, Snapped
<1> QED
  BY <1>1, TypeInit DEF IdsInv, CaptureInv, RestoreInv, IdsRight, Snapped

\* A step of a capture that is over leaves what was drawn.
LEMMA CaptureOver ==
    ASSUME CaptureInv, UNCHANGED <<drawn, moved>>, workload'.sequence_snapshot = workload.sequence_snapshot,
           phase # "proxy", phase' \notin {"proxy", "capture"}
    PROVE  CaptureInv'
<1>1. \A q, n : Given(q, n)' = Given(q, n)
  BY GivenSame
<1> QED
  BY <1>1 DEF CaptureInv, Snapped

\* Every step keeps the invariant.
LEMMA IdsStep == IdsInv /\ [CorrelationNext]_correlationVars => IdsInv'
<1> SUFFICES ASSUME IdsInv, [CorrelationNext]_correlationVars PROVE IdsInv'
  OBVIOUS
<1>T. TypeInv /\ CorrelationTypeOK /\ TypeInv'
  BY TypeStep DEF IdsInv, TypeInv
<1>C. CaptureInv /\ RestoreInv /\ IdsRight
  BY DEF IdsInv
<1> USE DEF databases
<1>1. CASE StartCaptureProxy
  <2>1. phase = "proxy" /\ phase' = "capture" /\ UNCHANGED <<source_seqs, moved, drawn, todo_seqs, resets, redrawn>>
    BY <1>1 DEF StartCaptureProxy
  <2>2. drawn = << >> /\ redrawn = << >> /\ resets.reset = 0 /\ ~Snapped
    BY <1>C, <2>1 DEF CaptureInv, RestoreInv
  <2>3. ASSUME Snapped', NEW q \in Counters \ moved PROVE nextval(source_seqs'[q]) = Given(q, 0)'
    <3>1. workload' = [workload EXCEPT !.sequence_snapshot = <<[r \in Counters |-> SequenceState(r)]>>]
      BY <1>1, <2>2, <2>3 DEF StartCaptureProxy, Snapped
    <3>2. workload'.sequence_snapshot[1][q] = SequenceState(q)
      BY <1>T, <3>1 DEF CorrelationTypeOK
    <3>3. nextval(restore_sql(SequenceState(q))) = nextval(source_seqs[q])
      BY <1>T, Kept DEF TypeInv, CorrelationTypeOK
    <3>4. nextval(source_seqs[q]) \in Nat
      BY <1>T, Values DEF CorrelationTypeOK
    <3>5. Draws(drawn', q, 0) = {} /\ Cardinality({}) = 0
      BY FS_EmptySet DEF Draws
    <3>6. Given(q, 0)' = nextval(restore_sql(workload'.sequence_snapshot[1][q])) + 0
      BY <3>5 DEF Given, FirstValue, nextval, restore_sql
    <3> QED
      BY <2>1, <3>2, <3>3, <3>4, <3>6
  <2>4. CaptureInv'
    BY <2>1, <2>2, <2>3 DEF CaptureInv
  <2>5. RestoreInv' /\ IdsRight'
    BY <2>1, <2>2 DEF RestoreInv, IdsRight
  <2> QED
    BY <1>T, <2>4, <2>5 DEF IdsInv
<1>2. ASSUME NEW q \in Counters, CaptureInsert(q) PROVE IdsInv'
  <2> DEFINE value == nextval(source_seqs[q])
  <2>1. /\ phase = "capture" /\ phase' = "capture" /\ drawn' = Append(drawn, <<q, value>>)
        /\ source_seqs' = [source_seqs EXCEPT ![q] = Used(@)]
        /\ workload'.sequence_snapshot = workload.sequence_snapshot
        /\ UNCHANGED <<target_seqs, moved, todo_seqs, resets, redrawn>>
    BY <1>2, <1>T DEF CaptureInsert, CorrelationTypeOK
  <2>2. value \in Nat /\ <<q, value>> \in Counters \X Nat /\ nextval(Used(source_seqs[q])) = value + 1
    BY <1>T, Values DEF CorrelationTypeOK
  <2> HIDE DEF value
  <2>3. redrawn = << >> /\ resets.reset = 0
    BY <1>C, <2>1 DEF RestoreInv
  <2>5. Len(drawn) \in Nat /\ Len(drawn') = Len(drawn) + 1 /\ DOMAIN drawn' = DOMAIN drawn \cup {Len(drawn) + 1}
        /\ drawn'[Len(drawn) + 1] = <<q, value>> /\ \A k \in DOMAIN drawn : drawn'[k] = drawn[k]
    BY SMTT(30), <1>T, <2>1, <2>2 DEF CorrelationTypeOK
  <2>6. CaptureInv'
    <3> SUFFICES ASSUME Snapped'
                 PROVE  /\ \A k \in DOMAIN drawn', r \in Counters \ moved : drawn'[k][1] = r => drawn'[k][2] = Given(r, k - 1)'
                        /\ \A r \in Counters \ moved, n \in Nat : n = Len(drawn) + 1 => nextval(source_seqs'[r]) = Given(r, n)'
      BY <2>1, <2>5 DEF CaptureInv
    <3>1. Snapped
      BY <2>1 DEF Snapped
    <3>2. /\ \A k \in DOMAIN drawn, r \in Counters \ moved : drawn[k][1] = r => drawn[k][2] = Given(r, k - 1)
          /\ \A r \in Counters \ moved : nextval(source_seqs[r]) = Given(r, Len(drawn))
      BY <1>C, <2>1, <2>5, <3>1 DEF CaptureInv
    <3>3. ASSUME NEW r \in Counters, NEW n \in 0..Len(drawn) PROVE Given(r, n)' = Given(r, n)
      <4>1. \A j \in 1..n : drawn'[j] = drawn[j]
        BY <1>T, <2>5 DEF CorrelationTypeOK
      <4>2. Draws(drawn', r, n) = Draws(drawn, r, n)
        BY <4>1, DrawsAlike
      <4> QED
        BY <2>1, <4>2 DEF Given, FirstValue, nextval, restore_sql
    <3>4. ASSUME NEW k \in DOMAIN drawn', NEW r \in Counters \ moved, drawn'[k][1] = r PROVE drawn'[k][2] = Given(r, k - 1)'
      <4>1. k - 1 \in 0..Len(drawn) /\ DOMAIN drawn = 1..Len(drawn)
        BY <1>T, <2>5 DEF CorrelationTypeOK
      <4>2. Given(r, k - 1)' = Given(r, k - 1)
        BY <3>3, <4>1
      <4>3. CASE k \in DOMAIN drawn
        BY <2>5, <3>2, <3>4, <4>2, <4>3
      <4>4. CASE k = Len(drawn) + 1
        <5>1. r = q /\ drawn'[k][2] = nextval(source_seqs[q])
          BY <2>5, <3>4, <4>4 DEF value
        <5>2. k - 1 = Len(drawn)
          BY <2>5, <4>4
        <5> QED
          BY <3>2, <4>2, <5>1, <5>2
      <4> QED
        BY <2>5, <4>3, <4>4
    <3>5. ASSUME NEW r \in Counters \ moved, NEW n \in Nat, n = Len(drawn) + 1 PROVE nextval(source_seqs'[r]) = Given(r, n)'
      <4>1. /\ Cardinality(Draws(drawn', r, Len(drawn))) \in Nat
            /\ Cardinality(Draws(drawn', r, Len(drawn) + 1))
               = Cardinality(Draws(drawn', r, Len(drawn))) + (IF drawn'[Len(drawn) + 1][1] = r THEN 1 ELSE 0)
        BY SMTT(30), <2>5, DrawsNext
      <4>2. Draws(drawn', r, Len(drawn)) = Draws(drawn, r, Len(drawn))
        <5>1. \A j \in 1..Len(drawn) : drawn'[j] = drawn[j]
          BY <1>T, <2>5 DEF CorrelationTypeOK
        <5> QED
          BY <5>1, DrawsAlike
      <4>3. drawn'[Len(drawn) + 1][1] = q
        BY <2>5
      <4>4. FirstValue(r)' = FirstValue(r) /\ FirstValue(r) \in Nat
        BY <1>T, <2>1, <3>1, FirstIsNumber DEF FirstValue, nextval, restore_sql
      <4>5. Given(r, n)' = FirstValue(r) + Cardinality(Draws(drawn', r, n))
        BY <4>4 DEF Given
      <4>6. Given(r, Len(drawn)) = FirstValue(r) + Cardinality(Draws(drawn, r, Len(drawn)))
        BY DEF Given
      <4>7. Given(r, n)' = IF r = q THEN Given(r, Len(drawn)) + 1 ELSE Given(r, Len(drawn))
        BY <3>5, <4>1, <4>2, <4>3, <4>4, <4>5, <4>6
      <4>8. nextval(source_seqs'[r]) = IF r = q THEN nextval(source_seqs[r]) + 1 ELSE nextval(source_seqs[r])
        BY <1>T, <2>1, <2>2 DEF CorrelationTypeOK, value
      <4> QED
        BY <3>2, <4>7, <4>8
    <3> QED
      BY <3>4, <3>5
  <2>7. RestoreInv' /\ IdsRight'
    BY <2>1, <2>3 DEF RestoreInv, IdsRight
  <2> QED
    BY <1>T, <2>6, <2>7 DEF IdsInv
<1>3. CASE StopCaptureProxy
  <2>1. /\ phase = "capture" /\ phase' = "profile"
        /\ UNCHANGED <<source_seqs, target_seqs, moved, drawn, workload, todo_seqs, resets, redrawn>>
    BY <1>3 DEF StopCaptureProxy
  <2>2. redrawn = << >> /\ resets.reset = 0
    BY <1>C, <2>1 DEF RestoreInv
  <2>3. CaptureInv'
    BY <1>C, <2>1, CaptureOver
  <2>4. RestoreInv' /\ IdsRight'
    BY <2>1, <2>2 DEF RestoreInv, IdsRight
  <2> QED
    BY <1>T, <2>3, <2>4 DEF IdsInv
<1>4. CASE CompileWorkload
  <2>1. /\ phase = "profile" /\ phase' = "profile" /\ workload'.sequence_snapshot = workload.sequence_snapshot
        /\ UNCHANGED <<source_seqs, target_seqs, moved, drawn, todo_seqs, resets, redrawn>>
    BY <1>4, <1>T DEF CompileWorkload, CorrelationTypeOK
  <2>2. redrawn = << >> /\ resets.reset = 0
    BY <1>C, <2>1 DEF RestoreInv
  <2>3. CaptureInv'
    BY <1>C, <2>1, CaptureOver
  <2>4. RestoreInv' /\ IdsRight'
    BY <2>1, <2>2 DEF RestoreInv, IdsRight
  <2> QED
    BY <1>T, <2>3, <2>4 DEF IdsInv
<1>5. CASE StartRestore
  <2>1. /\ phase = "profile" /\ phase' = "restore" /\ UNCHANGED <<id_mode, databases, drawn, workload, resets, redrawn>>
        /\ todo_seqs' = IF needs_sequence_restore /\ Snapped THEN Counters ELSE {}
    BY <1>5 DEF StartRestore, Snapped
  <2>2. redrawn = << >> /\ resets.reset = 0
    BY <1>C, <2>1 DEF RestoreInv
  <2>3. CaptureInv'
    BY <1>C, <2>1, CaptureOver
  <2>4. Cardinality(Counters) \in Nat
    BY CorrelationAssumption, FS_CardinalityType
  <2>5. (needs_sequence_restore /\ Snapped)' <=> (needs_sequence_restore /\ Snapped)
    BY <2>1 DEF needs_sequence_restore, is_compiled, needs_sequences, Snapped
  <2>6. RestoreInv' /\ IdsRight'
    BY <2>1, <2>2, <2>4, <2>5 DEF RestoreInv, IdsRight
  <2> QED
    BY <1>T, <2>3, <2>6 DEF IdsInv
<1>6. ASSUME NEW q \in Counters, RestoreSequence(q) PROVE IdsInv'
  <2>1. /\ phase = "restore" /\ phase' = "restore" /\ q \in todo_seqs /\ todo_seqs' = todo_seqs \ {q}
        /\ UNCHANGED <<id_mode, source_seqs, moved, drawn, workload, redrawn>>
    BY <1>6 DEF RestoreSequence
  <2>2. \/ /\ q \in DOMAIN target_seqs
           /\ target_seqs' = [target_seqs EXCEPT ![q] = restore_sql(workload.sequence_snapshot[1][q])]
           /\ resets'.reset = resets.reset + 1
        \/ resets'.reset = resets.reset /\ UNCHANGED target_seqs
    BY <1>T, <1>6 DEF RestoreSequence, CorrelationTypeOK
  <2>3. /\ Cardinality(todo_seqs) \in Nat /\ Cardinality(todo_seqs') = Cardinality(todo_seqs) - 1
        /\ Cardinality(Counters) \in Nat /\ resets.reset \in Nat
    <3>1. IsFiniteSet(todo_seqs)
      BY <1>T, CorrelationAssumption, FS_Subset DEF CorrelationTypeOK
    <3> QED
      BY <1>T, <2>1, <3>1, CorrelationAssumption, FS_RemoveElement, FS_CardinalityType DEF CorrelationTypeOK
  <2>4. redrawn = << >>
    BY <1>C, <2>1 DEF RestoreInv
  <2>5. \A r, n : Given(r, n)' = Given(r, n)
    BY <2>1, GivenSame
  <2>6. CaptureInv'
    BY <1>C, <2>1, CaptureOver
  <2>7. ASSUME needs_sequence_restore, Snapped
        PROVE  /\ resets'.reset + Cardinality(todo_seqs') <= Cardinality(Counters)
               /\ resets'.reset + Cardinality(todo_seqs') = Cardinality(Counters) =>
                    \A r \in Counters \ todo_seqs' : r \in DOMAIN target_seqs' /\ nextval(target_seqs'[r]) = Given(r, 0)
    <3>1. /\ resets.reset + Cardinality(todo_seqs) <= Cardinality(Counters)
          /\ resets.reset + Cardinality(todo_seqs) = Cardinality(Counters) =>
                \A r \in Counters \ todo_seqs : r \in DOMAIN target_seqs /\ nextval(target_seqs[r]) = Given(r, 0)
      BY <1>C, <2>1, <2>4, <2>7 DEF RestoreInv
    <3>2. CASE /\ q \in DOMAIN target_seqs
               /\ target_seqs' = [target_seqs EXCEPT ![q] = restore_sql(workload.sequence_snapshot[1][q])]
               /\ resets'.reset = resets.reset + 1
      <4>1. resets'.reset + Cardinality(todo_seqs') = resets.reset + Cardinality(todo_seqs)
        BY <2>3, <3>2
      <4>2. nextval(target_seqs'[q]) = Given(q, 0)
        <5>1. Draws(drawn, q, 0) = {} /\ Cardinality({}) = 0
          BY FS_EmptySet DEF Draws
        <5>2. FirstValue(q) \in Nat
          BY <1>T, <2>7, FirstIsNumber
        <5>3. target_seqs'[q] = restore_sql(workload.sequence_snapshot[1][q])
          BY <3>2
        <5> QED
          BY <5>1, <5>2, <5>3 DEF Given, FirstValue
      <4>3. \A r \in DOMAIN target_seqs : r # q => target_seqs'[r] = target_seqs[r]
        BY <3>2
      <4>4. DOMAIN target_seqs' = DOMAIN target_seqs
        BY <3>2
      <4> QED
        BY <2>1, <3>1, <3>2, <4>1, <4>2, <4>3, <4>4
    <3>3. CASE resets'.reset = resets.reset /\ UNCHANGED target_seqs
      <4>2. resets'.reset + Cardinality(todo_seqs') <= Cardinality(Counters)
        BY <2>3, <3>1, <3>3
      <4>3. resets'.reset + Cardinality(todo_seqs') # Cardinality(Counters)
        BY <2>3, <3>1, <3>3
      <4> QED
        BY <4>2, <4>3
    <3> QED
      BY <2>2, <3>2, <3>3
  <2>8. (needs_sequence_restore /\ Snapped)' <=> (needs_sequence_restore /\ Snapped)
    BY <2>1 DEF needs_sequence_restore, is_compiled, needs_sequences, Snapped
  <2>9. RestoreInv' /\ IdsRight'
    BY <2>1, <2>4, <2>5, <2>7, <2>8 DEF RestoreInv, IdsRight
  <2> QED
    BY <1>T, <2>6, <2>9 DEF IdsInv
<1>7. CASE BeginOrRefuse
  <2>1. /\ phase = "restore" /\ phase' \in {"refused", "replay"} /\ todo_seqs = {}
        /\ UNCHANGED <<id_mode, databases, drawn, workload, todo_seqs, resets, redrawn>>
    BY <1>7 DEF BeginOrRefuse
  <2>2. redrawn = << >>
    BY <1>C, <2>1 DEF RestoreInv
  <2>3. \A r, n : Given(r, n)' = Given(r, n)
    BY <2>1, GivenSame
  <2>4. CaptureInv'
    BY <1>C, <2>1, CaptureOver
  <2>5. (needs_sequence_restore /\ Snapped)' <=> (needs_sequence_restore /\ Snapped)
    BY <2>1 DEF needs_sequence_restore, is_compiled, needs_sequences, Snapped
  <2>6. RestoreInv' /\ IdsRight'
    BY <1>C, <2>1, <2>2, <2>3, <2>5 DEF RestoreInv, IdsRight
  <2> QED
    BY <1>T, <2>4, <2>6 DEF IdsInv
<1>8. CASE RestoreFails
  <2>1. /\ phase = "restore" /\ phase' = "failed"
        /\ UNCHANGED <<id_mode, databases, drawn, workload, todo_seqs, resets, redrawn>>
    BY <1>8 DEF RestoreFails
  <2>2. redrawn = << >>
    BY <1>C, <2>1 DEF RestoreInv
  <2>3. CaptureInv'
    BY <1>C, <2>1, CaptureOver
  <2>4. RestoreInv' /\ IdsRight'
    BY <2>1, <2>2 DEF RestoreInv, IdsRight
  <2> QED
    BY <1>T, <2>3, <2>4 DEF IdsInv
<1>9. CASE ReplayInsert
  <2>1. /\ phase = "replay" /\ phase' = "replay" /\ Len(redrawn) < Len(drawn) /\ todo_seqs = {}
        /\ UNCHANGED <<id_mode, source_seqs, moved, drawn, workload, todo_seqs, resets>>
    BY <1>C, <1>9 DEF ReplayInsert, RestoreInv
  <2>2. \A r, n : Given(r, n)' = Given(r, n)
    BY <2>1, GivenSame
  <2>3. CaptureInv'
    BY <1>C, <2>1, CaptureOver
  <2>4. (needs_sequence_restore /\ Snapped)' <=> (needs_sequence_restore /\ Snapped)
    BY <2>1 DEF needs_sequence_restore, is_compiled, needs_sequences, Snapped
  <2>5. ASSUME needs_sequence_restore, Snapped, resets.reset = Cardinality(Counters)
        PROVE  /\ \A k \in DOMAIN redrawn' : drawn[k][1] \notin moved => redrawn'[k] = drawn[k]
               /\ \A r \in Counters, n \in Nat :
                     n = Len(redrawn') => r \in DOMAIN target_seqs' /\ nextval(target_seqs'[r]) = Given(r, n)
    <3> DEFINE m == Len(redrawn)
               q == drawn[m + 1][1]
    <3>1. /\ m \in Nat /\ m + 1 \in DOMAIN drawn /\ q \in Counters /\ drawn[m + 1] = <<q, drawn[m + 1][2]>>
          /\ redrawn \in Seq((Counters \X Nat) \cup {<< >>})
      BY <1>T, <2>1 DEF CorrelationTypeOK
    <3>2. Cardinality({}) = 0 /\ resets.reset \in Nat
      BY <1>T, FS_EmptySet DEF CorrelationTypeOK
    <3>3. \A r \in Counters : r \in DOMAIN target_seqs /\ nextval(target_seqs[r]) = Given(r, m)
      BY <1>C, <2>1, <2>5, <3>1, <3>2 DEF RestoreInv
    <3>4. \A k \in DOMAIN redrawn : drawn[k][1] \notin moved => redrawn[k] = drawn[k]
      BY <1>C, <2>5 DEF IdsRight, Snapped
    <3>5. q \notin moved => drawn[m + 1][2] = Given(q, m)
      BY <1>C, <2>5, <3>1 DEF CaptureInv
    <3>6. /\ redrawn' = Append(redrawn, <<q, nextval(target_seqs[q])>>)
          /\ target_seqs' = [target_seqs EXCEPT ![q] = Used(@)]
      BY <1>9, <3>1, <3>3 DEF ReplayInsert
    <3>7. /\ Len(redrawn') = m + 1 /\ DOMAIN redrawn' = DOMAIN redrawn \cup {m + 1}
          /\ redrawn'[m + 1] = <<q, nextval(target_seqs[q])>> /\ \A k \in DOMAIN redrawn : redrawn'[k] = redrawn[k]
      <4>1. <<q, nextval(target_seqs[q])>> \in Counters \X Nat
        BY <1>T, <3>1, <3>3, Values DEF CorrelationTypeOK
      <4> QED
        BY <3>1, <3>6, <4>1
    <3>8. \A k \in DOMAIN redrawn' : drawn[k][1] \notin moved => redrawn'[k] = drawn[k]
      BY <3>1, <3>3, <3>4, <3>5, <3>7
    <3>9. ASSUME NEW r \in Counters
          PROVE  r \in DOMAIN target_seqs' /\ nextval(target_seqs'[r]) = Given(r, m + 1)
      <4>1. /\ Cardinality(Draws(drawn, r, m)) \in Nat
            /\ Cardinality(Draws(drawn, r, m + 1)) = Cardinality(Draws(drawn, r, m)) + (IF q = r THEN 1 ELSE 0)
        BY <3>1, DrawsNext
      <4>2. FirstValue(r) \in Nat
        BY <1>T, <2>5, FirstIsNumber
      <4>3. Given(r, m + 1) = IF q = r THEN Given(r, m) + 1 ELSE Given(r, m)
        BY <4>1, <4>2 DEF Given
      <4>4. target_seqs'[r] = IF q = r THEN Used(target_seqs[r]) ELSE target_seqs[r]
        BY <3>3, <3>6
      <4>5. nextval(Used(target_seqs[r])) = nextval(target_seqs[r]) + 1
        BY <1>T, <3>3, Values DEF CorrelationTypeOK
      <4> QED
        BY <3>3, <3>6, <4>3, <4>4, <4>5
    <3> QED
      BY <3>7, <3>8, <3>9
  <2>6. resets.reset \in Nat /\ Cardinality({}) = 0 /\ Cardinality(Counters) \in Nat
    BY <1>T, CorrelationAssumption, FS_EmptySet, FS_CardinalityType DEF CorrelationTypeOK
  <2>7. RestoreInv' /\ IdsRight'
    BY <1>C, <2>1, <2>2, <2>4, <2>5, <2>6 DEF RestoreInv, IdsRight, Snapped
  <2> QED
    BY <1>T, <2>3, <2>7 DEF IdsInv
<1>10. CASE UNCHANGED correlationVars
  <2>1. UNCHANGED <<phase, id_mode, source_seqs, target_seqs, moved, drawn, workload, todo_seqs, resets, redrawn>>
    BY <1>10 DEF correlationVars
  <2>2. \A r, n : Given(r, n)' = Given(r, n)
    BY <2>1, GivenSame
  <2> QED
    BY <1>T, <1>C, <2>1, <2>2 DEF IdsInv, CaptureInv, RestoreInv, IdsRight, Snapped, needs_sequence_restore,
                                  is_compiled, needs_sequences
<1> QED
  BY <1>1, <1>2, <1>3, <1>4, <1>5, <1>6, <1>7, <1>8, <1>9, <1>10 DEF CorrelationNext

\* A replay that put every sequence of the snapshot back gives each statement
\* the id it was given at capture, for any sequences and wherever the target
\* was, except those of sequences that were moved and not used since
\* (sequence.rs 26-113, main.rs 366-420).
THEOREM IdsCorrect == CorrelationSpec => []IdsRight
<1>1. IdsInv => IdsRight
  BY DEF IdsInv
<1> QED
  BY <1>1, IdsInit, IdsStep, PTL DEF CorrelationSpec

-----------------------------------------------------------------------------
(***************************************************************************)
(* Recursive functions over 0..n.                                          *)
(***************************************************************************)
\* A set of numbers that is not empty has a least one.
LEMMA LeastNumber ==
    ASSUME NEW T \in SUBSET Nat, T # {}
    PROVE  \E m \in T : \A k \in T : m <= k
<1>1. PICK m \in T : \A k \in T : <<k, m>> \notin OpToRel(<, Nat)
  BY WFMin, NatLessThanWellFounded, Zenon
<1>2. \A k \in T : ~(k < m)
  BY <1>1, Zenon DEF OpToRel
<1> QED
  BY <1>2

\* What holds of 0 and of each number with the one before holds up to n.
LEMMA Climb ==
    ASSUME NEW n \in Nat, NEW T, 0 \in T, \A k \in 1..n : k - 1 \in T => k \in T
    PROVE  \A k \in 0..n : k \in T
<1> DEFINE F == {k \in 0..n : k \notin T}
<1>1. SUFFICES ASSUME F # {} PROVE FALSE
  OBVIOUS
<1>2. PICK k \in F : \A j \in F : k <= j
  <2>1. F \in SUBSET Nat
    OBVIOUS
  <2> QED
    BY <1>1, <2>1, LeastNumber
<1>3. k \in 1..n /\ k - 1 \in 0..n /\ ~(k <= k - 1)
  OBVIOUS
<1>4. k - 1 \in T
  BY <1>2, <1>3
<1> QED
  BY <1>3, <1>4

\* f starts with c and goes on by the functions of F.
Iterates(f, c, F, n) == f = [i \in 0..n |-> IF i = 0 THEN c ELSE F[i][f[i - 1]]]

\* There is one for every length: else a shortest without.
LEMMA IteratesExist ==
    ASSUME NEW c, NEW n \in Nat, NEW F
    PROVE  \E f : Iterates(f, c, F, n)
<1> DEFINE T == {m \in 0..n : \E f : Iterates(f, c, F, m)}
<1>1. 0 \in T
  <2>1. Iterates([i \in 0..0 |-> c], c, F, 0)
    BY DEF Iterates
  <2> QED
    BY <2>1
<1>2. ASSUME NEW k \in 1..n, k - 1 \in T PROVE k \in T
  <2>1. PICK f : Iterates(f, c, F, k - 1)
    BY <1>2
  <2> DEFINE e(h, i) == IF i = 0 THEN c ELSE F[i][h[i - 1]]
             g == [i \in 0..k |-> IF i = k THEN F[k][f[k - 1]] ELSE f[i]]
  <2>2. \A i \in 0..(k - 1) : f[i] = e(f, i)
    <3>1. f = [i \in 0..(k - 1) |-> e(f, i)]
      BY <2>1, Zenon DEF Iterates
    <3> HIDE DEF e
    <3> QED
      BY <3>1
  <2>3. \A i \in 0..k : g[i] = e(g, i)
    <3> TAKE i \in 0..k
    <3>1. CASE i = k
      BY <3>1
    <3>2. CASE i # k
      <4>1. i \in 0..(k - 1) /\ g[i] = f[i] /\ (i # 0 => i - 1 \in 0..k /\ i - 1 # k /\ g[i - 1] = f[i - 1])
        BY <3>2
      <4> QED
        BY <2>2, <4>1
    <3> QED
      BY <3>1, <3>2
  <2>4. g = [i \in 0..k |-> g[i]]
    OBVIOUS
  <2> HIDE DEF g, e
  <2>5. g = [i \in 0..k |-> e(g, i)]
    BY <2>3, <2>4
  <2>6. Iterates(g, c, F, k)
    BY <2>5, Zenon DEF Iterates, e
  <2> QED
    BY <2>6
<1>3. \A k \in 0..n : k \in T
  <2> HIDE DEF T
  <2> QED
    BY <1>1, <1>2, Climb
<1> QED
  BY <1>3

\* What the definition of such a function says of its values.
Follows(f, c, F, n) == f[0] = c /\ \A i \in 1..n : f[i] = F[i][f[i - 1]]

\* The first value is c, and each later one is F of the one before.
LEMMA IteratesStep ==
    ASSUME NEW c, NEW n \in Nat, NEW F, NEW f, Iterates(f, c, F, n)
    PROVE  Follows(f, c, F, n)
<1> DEFINE e(h, i) == IF i = 0 THEN c ELSE F[i][h[i - 1]]
<1>1. f = [i \in 0..n |-> e(f, i)]
  BY Zenon DEF Iterates
<1> HIDE DEF e
<1>2. \A i \in 0..n : f[i] = e(f, i)
  BY <1>1
<1> QED
  BY <1>2 DEF e, Follows

\* Functions on S stay in S.
LEMMA IteratesIn ==
    ASSUME NEW S, NEW c \in S, NEW n \in Nat, NEW F \in [1..n -> [S -> S]],
           NEW f, Iterates(f, c, F, n)
    PROVE  \A i \in 0..n : f[i] \in S
<1> DEFINE T == {i \in 0..n : f[i] \in S}
<1>1. f[0] = c /\ \A i \in 1..n : f[i] = F[i][f[i - 1]]
  <2>1. Follows(f, c, F, n)
    BY IteratesStep, Zenon
  <2> QED
    BY <2>1 DEF Follows
<1>2. 0 \in T /\ \A k \in 1..n : k - 1 \in T => k \in T
  BY <1>1
<1>3. \A i \in 0..n : i \in T
  <2> HIDE DEF T
  <2> QED
    BY <1>2, Climb
<1> QED
  BY <1>3

-----------------------------------------------------------------------------
(***************************************************************************)
(* The forest.  A parent has the higher rank, and a rank is at most the    *)
(* number of roots that were linked: a path to a root is short.            *)
(***************************************************************************)
N == Cardinality(Tables)

Roots(u) == {x \in Tables : u.parent[x] = x}

Forest(u) ==
    /\ u \in [parent : [Tables -> Tables], rank : [Tables -> Nat]]
    /\ \A x \in Tables : u.parent[x] # x => u.rank[x] < u.rank[u.parent[x]]
    /\ \A x \in Tables : u.rank[x] + Cardinality(Roots(u)) <= N

\* Tables are finitely many numbers.
LEMMA TablesFinite ==
    /\ Tables \subseteq Nat /\ IsFiniteSet(Tables) /\ N \in Nat
    /\ \A S \in SUBSET Tables : IsFiniteSet(S) /\ Cardinality(S) \in Nat
<1>1. Tables \subseteq Nat /\ IsFiniteSet(Tables)
  BY TransformAssumption
<1>2. \A S \in SUBSET Tables : IsFiniteSet(S)
  BY <1>1, FS_Subset
<1> QED
  BY <1>1, <1>2, FS_CardinalityType DEF N

\* up is the way find goes.
Way(up, u, x) == up[0] = x /\ \A k \in 1..N : up[k] = u.parent[up[k - 1]]

\* find follows parents, as many times as there are tables.
LEMMA FindGoes ==
    ASSUME NEW u, NEW x
    PROVE  \E up : Way(up, u, x) /\ find(u, x) = up[N]
<1> DEFINE F == [k \in 1..N |-> u.parent]
           By(f) == f = [n \in 0..N |-> IF n = 0 THEN x ELSE u.parent[f[n - 1]]]
           up == CHOOSE f : By(f)
<1>1. N \in Nat
  BY TablesFinite
<1>2. \A f : Iterates(f, x, F, N) => By(f)
  <2> TAKE f
  <2> HAVE Iterates(f, x, F, N)
  <2> DEFINE e(i) == IF i = 0 THEN x ELSE F[i][f[i - 1]]
             d(i) == IF i = 0 THEN x ELSE u.parent[f[i - 1]]
  <2>1. f = [i \in 0..N |-> e(i)]
    BY Zenon DEF Iterates
  <2>2. \A i \in 0..N : e(i) = d(i)
    BY <1>1
  <2> HIDE DEF e, d
  <2>3. f = [i \in 0..N |-> d(i)]
    BY <2>1, <2>2
  <2> QED
    BY <2>3, Zenon DEF d
<1>3. By(up)
  <2>1. \E f : Iterates(f, x, F, N)
    <3> HIDE DEF F
    <3> QED
      BY <1>1, IteratesExist
  <2> QED
    BY <1>2, <2>1, Zenon
<1>4. find(u, x) = up[N]
  BY Zenon DEF find, N
<1>5. Way(up, u, x)
  <2> DEFINE e(h, i) == IF i = 0 THEN x ELSE u.parent[h[i - 1]]
  <2>1. up = [i \in 0..N |-> e(up, i)]
    BY <1>3, Zenon
  <2> HIDE DEF e, up
  <2>2. \A i \in 0..N : up[i] = e(up, i)
    BY <2>1
  <2> QED
    BY <1>1, <2>2 DEF e, Way
<1> QED
  BY <1>4, <1>5, Zenon

\* find ends in a root: a step from a table that is none goes to a higher rank.
LEMMA FindRoot ==
    ASSUME NEW u, Forest(u), NEW x \in Tables
    PROVE  find(u, x) \in Tables /\ u.parent[find(u, x)] = find(u, x)
<1>1. PICK up : Way(up, u, x) /\ find(u, x) = up[N]
  BY FindGoes
<1> DEFINE T == {k \in 0..N : up[k] \in Tables /\ (u.parent[up[k]] = up[k] \/ k <= u.rank[up[k]])}
<1>2. N \in Nat /\ \A y \in Tables : u.rank[y] \in Nat /\ u.parent[y] \in Tables
  BY TablesFinite DEF Forest
<1>3. 0 \in T
  BY <1>1, <1>2 DEF Way
<1>4. ASSUME NEW k \in 1..N, k - 1 \in T PROVE k \in T
  <2>1. PICK y \in Tables : y = up[k - 1] /\ (u.parent[y] = y \/ k - 1 <= u.rank[y])
    BY <1>4
  <2>2. up[k] = u.parent[y]
    BY <1>1, <1>4, <2>1 DEF Way
  <2>3. CASE u.parent[y] = y
    BY <1>2, <2>1, <2>2, <2>3
  <2>4. CASE u.parent[y] # y
    <3>1. u.rank[y] < u.rank[u.parent[y]] /\ k - 1 <= u.rank[y]
      BY <2>1, <2>4 DEF Forest
    <3>2. k <= u.rank[u.parent[y]]
      BY <1>2, <3>1
    <3> QED
      BY <1>2, <2>2, <3>2
  <2> QED
    BY <2>3, <2>4
<1>5. N \in T
  <2>1. \A k \in 0..N : k \in T
    <3> HIDE DEF T
    <3> QED
      BY <1>2, <1>3, <1>4, Climb
  <2> QED
    BY <1>2, <2>1
<1>6. PICK r \in Tables : r = up[N] /\ (u.parent[r] = r \/ N <= u.rank[r])
  BY <1>5
<1>7. u.parent[r] = r
  <2> SUFFICES ASSUME u.parent[r] # r PROVE FALSE
    OBVIOUS
  <2>1. PICK y \in Tables : y = u.parent[r]
    BY <1>2
  <2>2. N <= u.rank[r] /\ u.rank[r] < u.rank[y]
    BY <1>6, <2>1 DEF Forest
  <2>3. Cardinality(Roots(u)) \in Nat /\ u.rank[y] + Cardinality(Roots(u)) <= N
    BY TablesFinite DEF Forest, Roots
  <2> QED
    BY <1>2, <2>2, <2>3
<1> QED
  BY <1>1, <1>6, <1>7

\* A table and its parent have one root.
LEMMA FindParent ==
    ASSUME NEW u, Forest(u), NEW x \in Tables
    PROVE  find(u, u.parent[x]) = find(u, x)
<1>1. PICK up : Way(up, u, x) /\ find(u, x) = up[N]
  BY FindGoes
<1>2. PICK on : Way(on, u, u.parent[x]) /\ find(u, u.parent[x]) = on[N]
  BY FindGoes
<1> DEFINE T == {k \in 0..N : on[k] = u.parent[up[k]]}
<1>3. 0 \in T /\ N \in Nat
  BY <1>1, <1>2, TablesFinite DEF Way
<1>4. ASSUME NEW k \in 1..N, k - 1 \in T PROVE k \in T
  BY <1>1, <1>2, <1>4 DEF Way
<1>5. N \in T
  <2>1. \A k \in 0..N : k \in T
    <3> HIDE DEF T
    <3> QED
      BY <1>3, <1>4, Climb
  <2> QED
    BY <1>3, <2>1
<1> QED
  BY <1>1, <1>2, <1>5, FindRoot

\* A root is its own.
LEMMA FindOfRoot ==
    ASSUME NEW u, NEW x, u.parent[x] = x
    PROVE  find(u, x) = x
<1>1. PICK up : Way(up, u, x) /\ find(u, x) = up[N]
  BY FindGoes
<1> DEFINE T == {k \in 0..N : up[k] = x}
<1>2. 0 \in T /\ N \in Nat
  BY <1>1, TablesFinite DEF Way
<1>3. ASSUME NEW k \in 1..N, k - 1 \in T PROVE k \in T
  BY <1>1, <1>3 DEF Way
<1>4. N \in T
  <2>1. \A k \in 0..N : k \in T
    <3> HIDE DEF T
    <3> QED
      BY <1>2, <1>3, Climb
  <2> QED
    BY <1>2, <2>1
<1> QED
  BY <1>1, <1>4

\* What is the same along every edge, and of a root the root, is find.
LEMMA FindUnique ==
    ASSUME NEW u, Forest(u), NEW g,
           \A x \in Tables : g[u.parent[x]] = g[x] /\ (u.parent[x] = x => g[x] = x)
    PROVE  \A x \in Tables : find(u, x) = g[x]
<1> TAKE x \in Tables
<1>1. PICK up : Way(up, u, x) /\ find(u, x) = up[N]
  BY FindGoes
<1> DEFINE T == {k \in 0..N : up[k] \in Tables /\ g[up[k]] = g[x]}
<1>2. 0 \in T /\ N \in Nat /\ \A y \in Tables : u.parent[y] \in Tables
  BY <1>1, TablesFinite DEF Way, Forest
<1>3. ASSUME NEW k \in 1..N, k - 1 \in T PROVE k \in T
  <2>1. PICK y \in Tables : y = up[k - 1] /\ g[y] = g[x]
    BY <1>3
  <2>2. up[k] = u.parent[y]
    BY <1>1, <1>3, <2>1 DEF Way
  <2> QED
    BY <1>2, <2>1, <2>2
<1>4. N \in T
  <2>1. \A k \in 0..N : k \in T
    <3> HIDE DEF T
    <3> QED
      BY <1>2, <1>3, Climb
  <2> QED
    BY <1>2, <2>1
<1>5. g[find(u, x)] = g[x] /\ g[find(u, x)] = find(u, x)
  BY <1>1, <1>4, FindRoot
<1> QED
  BY <1>5

\* v is u with the root s under the root r, as union by rank does it.
Links(u, v, s, r) ==
    /\ s \in Tables /\ r \in Tables /\ s # r /\ u.parent[s] = s /\ u.parent[r] = r
    /\ v \in [parent : [Tables -> Tables], rank : [Tables -> Nat]]
    /\ \A x \in Tables : v.parent[x] = IF x = s THEN r ELSE u.parent[x]
    /\ u.rank[s] <= u.rank[r]
    /\ \A x \in Tables : v.rank[x] = IF x = r /\ u.rank[s] = u.rank[r] THEN u.rank[r] + 1 ELSE u.rank[x]

\* Linking two roots leaves a forest: the root lost pays for the rank won.
LEMMA LinkForest ==
    ASSUME NEW u, Forest(u), NEW v, NEW s, NEW r, Links(u, v, s, r)
    PROVE  Forest(v)
<1>1. /\ s \in Tables /\ r \in Tables /\ s # r /\ u.parent[s] = s /\ u.parent[r] = r
      /\ v \in [parent : [Tables -> Tables], rank : [Tables -> Nat]]
      /\ u.rank[s] <= u.rank[r]
  BY DEF Links
<1>2. \A x \in Tables : v.parent[x] = IF x = s THEN r ELSE u.parent[x]
  BY DEF Links
<1>3. \A x \in Tables : v.rank[x] = IF x = r /\ u.rank[s] = u.rank[r] THEN u.rank[r] + 1 ELSE u.rank[x]
  BY DEF Links
<1>4. \A x \in Tables : u.rank[x] \in Nat /\ u.parent[x] \in Tables
  BY DEF Forest
<1>5. Roots(v) = Roots(u) \ {s}
  BY <1>1, <1>2 DEF Roots
<1>6. Cardinality(Roots(u)) \in Nat /\ Cardinality(Roots(v)) \in Nat /\ Cardinality(Roots(v)) = Cardinality(Roots(u)) - 1
  <2>1. Roots(u) \in SUBSET Tables /\ Roots(v) \in SUBSET Tables /\ s \in Roots(u)
    BY <1>1 DEF Roots
  <2>2. IsFiniteSet(Roots(u)) /\ Cardinality(Roots(u)) \in Nat /\ Cardinality(Roots(v)) \in Nat
    BY <2>1, TablesFinite
  <2>3. Cardinality(Roots(u) \ {s}) = Cardinality(Roots(u)) - 1
    BY <2>1, <2>2, FS_RemoveElement
  <2> QED
    BY <1>5, <2>2, <2>3
<1>7. ASSUME NEW x \in Tables, v.parent[x] # x PROVE v.rank[x] < v.rank[v.parent[x]]
  <2>1. CASE x = s
    BY <1>1, <1>2, <1>3, <1>4, <2>1
  <2>2. CASE x # s
    <3>1. v.parent[x] = u.parent[x] /\ u.parent[x] # x /\ u.parent[x] \in Tables
      BY <1>2, <1>4, <1>7, <2>2
    <3>2. u.rank[x] < u.rank[u.parent[x]] /\ x # r
      BY <1>1, <3>1 DEF Forest
    <3>3. v.rank[x] = u.rank[x] /\ u.rank[u.parent[x]] <= v.rank[u.parent[x]]
      BY <1>3, <1>4, <3>1, <3>2
    <3>4. v.rank[u.parent[x]] \in Nat
      BY <1>1, <3>1
    <3> QED
      BY <1>4, <3>1, <3>2, <3>3, <3>4
  <2> QED
    BY <2>1, <2>2
<1>8. ASSUME NEW x \in Tables PROVE v.rank[x] + Cardinality(Roots(v)) <= N
  <2>1. u.rank[x] + Cardinality(Roots(u)) <= N
    BY DEF Forest
  <2>2. v.rank[x] = u.rank[x] \/ v.rank[x] = u.rank[x] + 1
    BY <1>3
  <2> QED
    BY <1>4, <1>6, <2>1, <2>2, TablesFinite
<1> QED
  BY <1>1, <1>7, <1>8 DEF Forest

\* Linking moves the tables under s to r, and no other.
LEMMA LinkFind ==
    ASSUME NEW u, Forest(u), NEW v, NEW s, NEW r, Links(u, v, s, r)
    PROVE  \A x \in Tables : find(v, x) = IF find(u, x) = s THEN r ELSE find(u, x)
<1> DEFINE g == [x \in Tables |-> IF find(u, x) = s THEN r ELSE find(u, x)]
<1>1. s \in Tables /\ r \in Tables /\ s # r /\ u.parent[s] = s /\ u.parent[r] = r
  BY DEF Links
<1>2. \A x \in Tables : v.parent[x] = IF x = s THEN r ELSE u.parent[x]
  BY DEF Links
<1>3. find(u, s) = s /\ find(u, r) = r
  BY <1>1, FindOfRoot
<1>4. ASSUME NEW x \in Tables PROVE g[v.parent[x]] = g[x] /\ (v.parent[x] = x => g[x] = x)
  <2>1. CASE x = s
    BY <1>1, <1>2, <1>3, <2>1
  <2>2. CASE x # s
    <3>1. v.parent[x] = u.parent[x] /\ u.parent[x] \in Tables
      BY <1>2, <2>2 DEF Forest
    <3>2. find(u, u.parent[x]) = find(u, x)
      BY FindParent
    <3>3. u.parent[x] = x => find(u, x) = x
      BY FindOfRoot
    <3> QED
      BY <2>2, <3>1, <3>2, <3>3
  <2> QED
    BY <2>1, <2>2
<1>5. \A x \in Tables : find(v, x) = g[x]
  <2> HIDE DEF g
  <2> QED
    BY <1>4, LinkForest, FindUnique
<1> QED
  BY <1>5

\* union links the two roots, either way, unless they are one.
LEMMA UnionLinks ==
    ASSUME NEW u, Forest(u), NEW a \in Tables, NEW b \in Tables
    PROVE  \/ find(u, a) = find(u, b) /\ union(u, a, b) = u
           \/ find(u, a) # find(u, b) /\ Links(u, union(u, a, b), find(u, a), find(u, b))
           \/ find(u, a) # find(u, b) /\ Links(u, union(u, a, b), find(u, b), find(u, a))
<1>1. PICK ra \in Tables : ra = find(u, a) /\ u.parent[ra] = ra
  BY FindRoot
<1>2. PICK rb \in Tables : rb = find(u, b) /\ u.parent[rb] = rb
  BY FindRoot
<1>3. PICK v : v = union(u, a, b)
  OBVIOUS
<1>4. v = CASE ra = rb -> u
            [] ra # rb /\ u.rank[ra] < u.rank[rb] -> [u EXCEPT !.parent[ra] = rb]
            [] ra # rb /\ u.rank[ra] > u.rank[rb] -> [u EXCEPT !.parent[rb] = ra]
            [] OTHER -> [u EXCEPT !.parent[rb] = ra, !.rank[ra] = @ + 1]
  BY <1>1, <1>2, <1>3 DEF union
<1>5. /\ u \in [parent : [Tables -> Tables], rank : [Tables -> Nat]]
      /\ u.rank[ra] \in Nat /\ u.rank[rb] \in Nat
  BY DEF Forest
<1>6. CASE ra = rb
  BY <1>1, <1>2, <1>3, <1>4, <1>6
<1>7. CASE ra # rb /\ u.rank[ra] < u.rank[rb]
  <2>1. v = [u EXCEPT !.parent[ra] = rb]
    BY <1>4, <1>5, <1>7
  <2>2. Links(u, v, ra, rb)
    BY <1>1, <1>2, <1>5, <1>7, <2>1 DEF Links
  <2> QED
    BY <1>1, <1>2, <1>3, <1>7, <2>2
<1>8. CASE ra # rb /\ u.rank[ra] > u.rank[rb]
  <2>1. v = [u EXCEPT !.parent[rb] = ra]
    BY <1>4, <1>5, <1>8
  <2>2. Links(u, v, rb, ra)
    BY <1>1, <1>2, <1>5, <1>8, <2>1 DEF Links
  <2> QED
    BY <1>1, <1>2, <1>3, <1>8, <2>2
<1>9. CASE ra # rb /\ u.rank[ra] = u.rank[rb]
  <2>1. v = [u EXCEPT !.parent[rb] = ra, !.rank[ra] = @ + 1]
    BY <1>4, <1>5, <1>9
  <2>2. v.parent = [u.parent EXCEPT ![rb] = ra] /\ v.rank = [u.rank EXCEPT ![ra] = u.rank[ra] + 1]
    BY <1>5, <2>1
  <2>3. /\ v.parent \in [Tables -> Tables] /\ v.rank \in [Tables -> Nat]
        /\ \A x \in Tables : v.parent[x] = IF x = rb THEN ra ELSE u.parent[x]
        /\ \A x \in Tables : v.rank[x] = IF x = ra THEN u.rank[ra] + 1 ELSE u.rank[x]
    BY <1>1, <1>2, <1>5, <2>2
  <2>5. v \in [parent : [Tables -> Tables], rank : [Tables -> Nat]]
    BY <1>5, <2>1, <2>3
  <2>6. Links(u, v, rb, ra)
    BY <1>1, <1>2, <1>5, <1>9, <2>3, <2>5 DEF Links
  <2> QED
    BY <1>1, <1>2, <1>3, <1>9, <2>6
<1> QED
  BY <1>5, <1>6, <1>7, <1>8, <1>9

-----------------------------------------------------------------------------
(***************************************************************************)
(* What a union joins, and nothing else: every equivalence that has the    *)
(* pairs joined so far and those of the set keeps them all.                *)
(***************************************************************************)
Same(u, x, y) == find(u, x) = find(u, y)
Within(u, E) == \A x, y \in Tables : Same(u, x, y) => <<x, y>> \in E
Equivalence(E) ==
    /\ \A x \in Tables : <<x, x>> \in E
    /\ \A x, y \in Tables : <<x, y>> \in E => <<y, x>> \in E
    /\ \A x, y, z \in Tables : <<x, y>> \in E /\ <<y, z>> \in E => <<x, z>> \in E

Joins(u, v, T) ==
    /\ Forest(v)
    /\ \A x, y \in Tables : Same(u, x, y) => Same(v, x, y)
    /\ \A x, y \in T : Same(v, x, y)
    /\ \A E : Equivalence(E) /\ Within(u, E) /\ (\A x, y \in T : <<x, y>> \in E) => Within(v, E)

\* A link of the roots of a and b joins a and b and nothing an equivalence would not.
LEMMA LinkJoins ==
    ASSUME NEW u, Forest(u), NEW v, NEW a \in Tables, NEW b \in Tables, NEW s, NEW r,
           Links(u, v, s, r), {s, r} = {find(u, a), find(u, b)}
    PROVE  Joins(u, v, {a, b})
<1>1. \A x \in Tables : find(v, x) = IF find(u, x) = s THEN r ELSE find(u, x)
  BY LinkFind
<1>2. Forest(v)
  BY LinkForest
<1>3. \A x, y \in Tables : Same(u, x, y) => Same(v, x, y)
  BY <1>1 DEF Same
<1>4. \A x, y \in {a, b} : Same(v, x, y)
  BY <1>1 DEF Same
<1>5. ASSUME NEW E, Equivalence(E), Within(u, E), \A x, y \in {a, b} : <<x, y>> \in E PROVE Within(v, E)
  <2> SUFFICES ASSUME NEW x \in Tables, NEW y \in Tables, Same(v, x, y) PROVE <<x, y>> \in E
    BY DEF Within
  <2>1. CASE Same(u, x, y)
    BY <1>5, <2>1 DEF Within
  <2>2. CASE ~Same(u, x, y)
    <3>1. find(u, x) \in {s, r} /\ find(u, y) \in {s, r} /\ find(u, x) # find(u, y)
      BY <1>1, <2>2 DEF Same
    <3>2. \/ Same(u, x, a) /\ Same(u, b, y)
          \/ Same(u, x, b) /\ Same(u, a, y)
      BY <3>1 DEF Same
    <3>3. CASE Same(u, x, a) /\ Same(u, b, y)
      <4>1. <<x, a>> \in E /\ <<a, b>> \in E /\ <<b, y>> \in E
        BY <1>5, <3>3 DEF Within
      <4>2. <<x, b>> \in E
        BY <1>5, <4>1 DEF Equivalence
      <4> QED
        BY <1>5, <4>1, <4>2 DEF Equivalence
    <3>4. CASE Same(u, x, b) /\ Same(u, a, y)
      <4>1. <<x, b>> \in E /\ <<b, a>> \in E /\ <<a, y>> \in E
        BY <1>5, <3>4 DEF Within
      <4>2. <<x, a>> \in E
        BY <1>5, <4>1 DEF Equivalence
      <4> QED
        BY <1>5, <4>1, <4>2 DEF Equivalence
    <3> QED
      BY <3>2, <3>3, <3>4
  <2> QED
    BY <2>1, <2>2
<1> QED
  BY <1>2, <1>3, <1>4, <1>5 DEF Joins

\* union joins its two tables and nothing an equivalence would not.
LEMMA UnionJoins ==
    ASSUME NEW u, Forest(u), NEW a \in Tables, NEW b \in Tables
    PROVE  Joins(u, union(u, a, b), {a, b})
<1>1. PICK v : v = union(u, a, b)
  OBVIOUS
<1>2. CASE find(u, a) = find(u, b) /\ v = u
  <2>1. \A x, y \in {a, b} : Same(v, x, y)
    BY <1>2 DEF Same
  <2> QED
    BY <1>1, <1>2, <2>1 DEF Joins
<1>3. CASE Links(u, v, find(u, a), find(u, b))
  BY <1>1, <1>3, LinkJoins
<1>4. CASE Links(u, v, find(u, b), find(u, a))
  <2>1. {find(u, b), find(u, a)} = {find(u, a), find(u, b)}
    OBVIOUS
  <2> QED
    BY <1>1, <1>4, <2>1, LinkJoins
<1> QED
  BY <1>1, <1>2, <1>3, <1>4, UnionLinks

-----------------------------------------------------------------------------
(***************************************************************************)
(* The tables of a statement, in the order of their names.                 *)
(***************************************************************************)
Sorts(list, S) ==
    /\ list \in [1..Cardinality(S) -> S]
    /\ \A i, j \in 1..Cardinality(S) : i < j => list[i] < list[j]

\* Smallest is the least element.
LEMMA SmallestIs ==
    ASSUME NEW S \in SUBSET Nat, S # {}
    PROVE  Smallest(S) \in S /\ \A j \in S : Smallest(S) <= j
<1>1. \E m \in S : \A k \in S : m <= k
  BY LeastNumber
<1> QED
  BY <1>1, Zenon DEF Smallest

\* Every finite set of numbers has an increasing list: the least before a list of the rest.
LEMMA SortsExist ==
    ASSUME NEW S \in SUBSET Nat, IsFiniteSet(S)
    PROVE  \E list : Sorts(list, S)
<1> DEFINE T == {n \in 0..Cardinality(S) : \A A \in SUBSET S : Cardinality(A) = n => \E list : Sorts(list, A)}
<1>1. Cardinality(S) \in Nat /\ \A A \in SUBSET S : IsFiniteSet(A) /\ Cardinality(A) \in Nat /\ A \in SUBSET Nat
  BY FS_Subset, FS_CardinalityType
<1>2. 0 \in T
  <2>1. ASSUME NEW A \in SUBSET S, Cardinality(A) = 0 PROVE Sorts(<< >>, A)
    <3>1. A = {}
      BY <1>1, <2>1, FS_EmptySet
    <3> QED
      BY <2>1, <3>1 DEF Sorts
  <2> QED
    BY <1>1, <2>1
<1>3. ASSUME NEW n \in 1..Cardinality(S), n - 1 \in T PROVE n \in T
  <2>1. ASSUME NEW A \in SUBSET S, Cardinality(A) = n PROVE \E list : Sorts(list, A)
    <3>1. IsFiniteSet(A) /\ A # {} /\ A \in SUBSET Nat
      BY <1>1, <2>1, FS_EmptySet
    <3>2. PICK m \in A : \A k \in A : m <= k
      BY <3>1, LeastNumber
    <3> DEFINE B == A \ {m}
    <3>3. Cardinality(B) = n - 1 /\ B \in SUBSET S
      BY <2>1, <3>1, FS_RemoveElement
    <3>4. PICK q : Sorts(q, B)
      <4> HIDE DEF B
      <4> QED
        BY <1>3, <3>3
    <3>5. q \in [1..(n - 1) -> B] /\ \A i, j \in 1..(n - 1) : i < j => q[i] < q[j]
      <4> HIDE DEF B
      <4> QED
        BY <3>3, <3>4 DEF Sorts
    <3> DEFINE l == [i \in 1..n |-> IF i = 1 THEN m ELSE q[i - 1]]
    <3>6. l \in [1..n -> A]
      BY <3>5
    <3>7. \A k \in B : m < k
      BY <3>1, <3>2
    <3>8. ASSUME NEW i \in 1..n, NEW j \in 1..n, i < j PROVE l[i] < l[j]
      <4>1. j - 1 \in 1..(n - 1) /\ l[j] = q[j - 1]
        BY <3>8
      <4>2. CASE i = 1
        BY <3>5, <3>7, <4>1, <4>2
      <4>3. CASE i # 1
        BY <3>5, <3>8, <4>1, <4>3
      <4> QED
        BY <4>2, <4>3
    <3> QED
      BY <2>1, <3>6, <3>8 DEF Sorts
  <2> QED
    BY <2>1
<1>4. \A n \in 0..Cardinality(S) : n \in T
  <2> HIDE DEF T
  <2> QED
    BY <1>1, <1>2, <1>3, Climb
<1> QED
  BY <1>1, <1>4

\* Ordered lists every member of the set.
LEMMA OrderedLists ==
    ASSUME NEW S \in SUBSET Nat, IsFiniteSet(S)
    PROVE  /\ Cardinality(S) \in Nat /\ Ordered(S) \in [1..Cardinality(S) -> S]
           /\ Len(Ordered(S)) = Cardinality(S)
           /\ \A t \in S : \E i \in 1..Cardinality(S) : Ordered(S)[i] = t
<1>1. PICK n \in Nat : n = Cardinality(S)
  BY FS_CardinalityType
<1> DEFINE Good(list) == \A i, j \in DOMAIN list : i < j => list[i] < list[j]
           o == CHOOSE list \in [1..n -> S] : Good(list)
<1>2. \E list \in [1..n -> S] : Good(list)
  <2>1. PICK list : Sorts(list, S)
    BY SortsExist
  <2>2. list \in [1..n -> S] /\ \A i, j \in 1..n : i < j => list[i] < list[j]
    BY <1>1, <2>1 DEF Sorts
  <2> QED
    BY <2>2
<1>3. o \in [1..n -> S] /\ Good(o)
  <2> HIDE DEF Good
  <2> QED
    BY <1>2, Zenon
<1>4. Ordered(S) = o
  BY <1>1, Zenon DEF Ordered
<1>5. \A i, j \in 1..n : i # j => o[i] # o[j]
  <2>1. \A i \in 1..n : o[i] \in S /\ o[i] \in Nat
    BY <1>3
  <2>2. DOMAIN o = 1..n
    BY <1>3
  <2>3. \A i, j \in 1..n : i < j => o[i] < o[j]
    BY <1>3, <2>2
  <2> HIDE DEF o
  <2> QED
    BY <2>1, <2>3
<1>6. \A t \in S : \E i \in 1..n : o[i] = t
  <2> HIDE DEF o
  <2>1. o \in Injection(1..n, S)
    BY <1>3, <1>5 DEF Injection, IsInjective
  <2>2. IsFiniteSet(S) /\ Cardinality(1..n) = n
    BY FS_Interval
  <2>3. o \in Surjection(1..n, S)
    BY <1>1, <2>1, <2>2, FS_Injection
  <2> QED
    BY <2>3 DEF Surjection
<1>7. Len(o) = n
  <2> HIDE DEF o
  <2> QED
    BY <1>3
<1> QED
  BY <1>1, <1>3, <1>4, <1>6, <1>7

Forests == {u \in [parent : [Tables -> Tables], rank : [Tables -> Nat]] : Forest(u)}

\* Joining S and then one table to a table of S joins S with it.
LEMMA JoinsMore ==
    ASSUME NEW u, NEW v, NEW w, NEW S \in SUBSET Tables, NEW a \in S, NEW b \in Tables,
           Joins(u, v, S), Joins(v, w, {a, b})
    PROVE  Joins(u, w, S \cup {b})
<1>1. Forest(w)
  BY DEF Joins
<1>2. \A x, y \in Tables : Same(u, x, y) => Same(w, x, y)
  BY DEF Joins
<1>3. \A x, y \in S \cup {b} : Same(w, x, y)
  <2>1. \A x \in S : Same(w, x, a)
    BY DEF Joins
  <2>2. Same(w, b, a)
    BY DEF Joins
  <2> QED
    BY <2>1, <2>2 DEF Same
<1>4. ASSUME NEW E, Equivalence(E), Within(u, E), \A x, y \in S \cup {b} : <<x, y>> \in E PROVE Within(w, E)
  <2>1. Within(v, E)
    BY <1>4 DEF Joins
  <2>2. \A x, y \in {a, b} : <<x, y>> \in E
    BY <1>4
  <2> QED
    BY <1>4, <2>1, <2>2 DEF Joins
<1> QED
  BY <1>1, <1>2, <1>3, <1>4 DEF Joins

\* join is the way UnionAll goes.
Joining(join, u, list, n) ==
    \A k \in 0..n : join[k] = IF k <= 1 THEN u ELSE union(join[k - 1], list[k - 1], list[k])

\* union takes forests to forests.
LEMMA UnionForest ==
    ASSUME NEW u \in Forests, NEW a \in Tables, NEW b \in Tables
    PROVE  union(u, a, b) \in Forests
<1>1. Forest(u)
  BY DEF Forests
<1>2. Forest(union(u, a, b))
  BY <1>1, UnionJoins DEF Joins
<1> QED
  BY <1>2 DEF Forest, Forests

\* UnionAll joins neighbours of the list one after the other.
LEMMA UnionAllGoes ==
    ASSUME NEW u, Forest(u), NEW S \in SUBSET Tables
    PROVE  \E join : /\ Joining(join, u, Ordered(S), Cardinality(S))
                     /\ UnionAll(u, S) = join[Cardinality(S)]
<1>1. PICK n \in Nat : n = Cardinality(S)
  BY TablesFinite
<1>0. S \in SUBSET Nat /\ IsFiniteSet(S)
  BY TablesFinite
<1>2. PICK list : list = Ordered(S)
  OBVIOUS
<1>3. list \in [1..n -> S] /\ Len(list) = n
  BY <1>0, <1>1, <1>2, OrderedLists
<1> DEFINE step(v, k) == IF k <= 1 THEN u ELSE union(v, list[k - 1], list[k])
           F == [k \in 1..n |-> [v \in Forests |-> step(v, k)]]
           By(f) == f = [k \in 0..n |-> IF k <= 1 THEN u ELSE union(f[k - 1], list[k - 1], list[k])]
           join == CHOOSE f : By(f)
<1>4. u \in Forests
  BY DEF Forests, Forest
<1>5. ASSUME NEW k \in 1..n, NEW v \in Forests PROVE step(v, k) \in Forests
  <2>1. CASE k <= 1
    BY <1>4, <2>1
  <2>2. CASE ~(k <= 1)
    <3>1. list[k - 1] \in Tables /\ list[k] \in Tables
      BY <1>3, <2>2
    <3> QED
      BY <2>2, <3>1, UnionForest
  <2> QED
    BY <2>1, <2>2
<1>6. F \in [1..n -> [Forests -> Forests]]
  <2> HIDE DEF step
  <2> QED
    BY <1>5
<1>7. PICK g : Iterates(g, u, F, n)
  <2> HIDE DEF F
  <2> QED
    BY IteratesExist
<1>8. Follows(g, u, F, n) /\ \A k \in 0..n : g[k] \in Forests
  <2> HIDE DEF F
  <2> QED
    BY <1>4, <1>6, <1>7, IteratesStep, IteratesIn
<1>9. By(g)
  <2> DEFINE d(k) == IF k <= 1 THEN u ELSE union(g[k - 1], list[k - 1], list[k])
  <2>1. g = [k \in 0..n |-> g[k]]
    BY <1>7 DEF Iterates
  <2>2. ASSUME NEW k \in 0..n PROVE g[k] = d(k)
    <3>1. CASE k = 0
      BY <1>8, <3>1 DEF Follows
    <3>2. CASE k # 0
      <4>1. k \in 1..n /\ k - 1 \in 0..n
        BY <3>2
      <4>2. g[k] = F[k][g[k - 1]] /\ g[k - 1] \in Forests
        <5> HIDE DEF F
        <5> QED
          BY <1>8, <4>1 DEF Follows
      <4>3. g[k] = step(g[k - 1], k)
        <5> HIDE DEF step
        <5> QED
          BY <4>1, <4>2
      <4> QED
        BY <4>3
    <3> QED
      BY <3>1, <3>2
  <2> HIDE DEF d
  <2>3. g = [k \in 0..n |-> d(k)]
    BY <2>1, <2>2
  <2> QED
    BY <2>3, Zenon DEF d
<1>10. By(join)
  <2> HIDE DEF By
  <2> QED
    BY <1>9, Zenon
<1>11. UnionAll(u, S) = join[n]
  BY <1>2, <1>3, Zenon DEF UnionAll
<1>12. Joining(join, u, list, n)
  <2> DEFINE e(f, k) == IF k <= 1 THEN u ELSE union(f[k - 1], list[k - 1], list[k])
  <2>1. join = [k \in 0..n |-> e(join, k)]
    BY <1>10, Zenon
  <2> HIDE DEF e, join
  <2>2. \A k \in 0..n : join[k] = e(join, k)
    BY <2>1
  <2> QED
    BY <2>2, Zenon DEF e, Joining
<1> QED
  BY <1>1, <1>2, <1>11, <1>12, Zenon

\* UnionAll joins the tables of a statement.
LEMMA UnionAllJoins ==
    ASSUME NEW u, Forest(u), NEW S \in SUBSET Tables
    PROVE  Joins(u, UnionAll(u, S), S)
<1>1. PICK n \in Nat : n = Cardinality(S)
  BY TablesFinite
<1>0. S \in SUBSET Nat /\ IsFiniteSet(S)
  BY TablesFinite
<1>2. PICK list : list = Ordered(S)
  OBVIOUS
<1>3. list \in [1..n -> S] /\ \A t \in S : \E i \in 1..n : list[i] = t
  BY <1>0, <1>1, <1>2, OrderedLists
<1>4. PICK join : Joining(join, u, list, n) /\ UnionAll(u, S) = join[n]
  BY <1>1, <1>2, UnionAllGoes
<1> DEFINE Upto(k) == {list[i] : i \in 1..k}
           T == {k \in 0..n : Joins(u, join[k], Upto(k))}
<1>5. Joins(u, u, {}) /\ \A x : Joins(u, u, {x})
  BY DEF Joins, Same
<1>6. 0 \in T
  <2>1. join[0] = u
    BY <1>4 DEF Joining
  <2>2. Upto(0) = {}
    OBVIOUS
  <2> HIDE DEF Upto
  <2> QED
    BY <1>5, <2>1, <2>2
<1>7. ASSUME NEW k \in 1..n, k - 1 \in T PROVE k \in T
  <2>1. CASE k = 1
    <3>1. join[1] = u /\ 1 \in 0..n
      BY <1>4, <2>1 DEF Joining
    <3>2. Upto(1) = {list[1]}
      OBVIOUS
    <3> HIDE DEF Upto
    <3> QED
      BY <1>5, <2>1, <3>1, <3>2
  <2>2. CASE k # 1
    <3>1. PICK v : v = join[k - 1]
      OBVIOUS
    <3>2. PICK a : a = list[k - 1]
      OBVIOUS
    <3>3. PICK b : b = list[k]
      OBVIOUS
    <3>4. PICK A : A = Upto(k - 1)
      OBVIOUS
    <3>5. join[k] = union(v, a, b)
      BY <1>4, <2>2, <3>1, <3>2, <3>3 DEF Joining
    <3>6. a \in A /\ A \in SUBSET Tables /\ b \in Tables /\ Upto(k) = A \cup {b}
      <4>1. k - 1 \in 1..(k - 1) /\ 1..k = (1..(k - 1)) \cup {k} /\ 1..k \subseteq 1..n
        BY <2>2
      <4> QED
        BY <1>3, <3>2, <3>3, <3>4, <4>1
    <3>7. Joins(u, v, A)
      <4> HIDE DEF Upto
      <4> QED
        BY <1>7, <3>1, <3>4
    <3>8. Forest(v) /\ a \in Tables
      BY <3>6, <3>7 DEF Joins
    <3>9. Joins(v, union(v, a, b), {a, b})
      BY <3>6, <3>8, UnionJoins
    <3>10. PICK w : w = union(v, a, b)
      OBVIOUS
    <3>11. Joins(u, w, A \cup {b})
      BY <3>6, <3>7, <3>9, <3>10, JoinsMore
    <3> HIDE DEF Upto
    <3> QED
      BY <3>5, <3>6, <3>10, <3>11
  <2> QED
    BY <2>1, <2>2
<1>8. n \in T
  <2>1. \A k \in 0..n : k \in T
    <3> HIDE DEF T
    <3> QED
      BY <1>6, <1>7, Climb
  <2>2. n \in 0..n
    OBVIOUS
  <2> QED
    BY <2>1, <2>2, Zenon
<1>9. Upto(n) = S
  BY <1>3
<1> HIDE DEF Upto
<1> QED
  BY <1>4, <1>8, <1>9

StatementType == [tables : SUBSET Tables, start : Nat, txn : Nat]

\* All statements of flat up to k have been joined.
JoinsAll(u, v, flat, k) ==
    /\ Forest(v)
    /\ \A i \in 1..k : \A x, y \in flat[i].tables : Same(v, x, y)
    /\ \A E : /\ Equivalence(E) /\ Within(u, E)
              /\ \A i \in 1..k : \A x, y \in flat[i].tables : <<x, y>> \in E
              => Within(v, E)

Statementwise(joined, u, flat) ==
    /\ joined[0] = u
    /\ \A k \in 1..Len(flat) : joined[k] = UnionAll(joined[k - 1], flat[k].tables)

\* UnionStatements joins the tables of one statement after the other.
LEMMA StatementsGo ==
    ASSUME NEW u, Forest(u), NEW flat \in Seq(StatementType)
    PROVE  \E joined : Statementwise(joined, u, flat) /\ UnionStatements(u, flat) = joined[Len(flat)]
<1>1. PICK n \in Nat : n = Len(flat)
  OBVIOUS
<1> DEFINE step(v, k) == UnionAll(v, flat[k].tables)
           F == [k \in 1..n |-> [v \in Forests |-> step(v, k)]]
           By(f) == f = [k \in 0..n |-> IF k = 0 THEN u ELSE UnionAll(f[k - 1], flat[k].tables)]
           joined == CHOOSE f : By(f)
<1>2. u \in Forests
  BY DEF Forests, Forest
<1>3. ASSUME NEW k \in 1..n, NEW v \in Forests PROVE step(v, k) \in Forests
  <2>1. Forest(v)
    BY DEF Forests
  <2>2. flat[k].tables \in SUBSET Tables
    <3>1. flat[k] \in StatementType
      BY <1>1
    <3> QED
      BY <3>1 DEF StatementType
  <2>3. Forest(step(v, k))
    BY <2>1, <2>2, UnionAllJoins DEF Joins
  <2> QED
    BY <2>3 DEF Forest, Forests
<1>4. F \in [1..n -> [Forests -> Forests]]
  <2> HIDE DEF step
  <2> QED
    BY <1>3
<1>5. PICK g : Iterates(g, u, F, n)
  <2> HIDE DEF F
  <2> QED
    BY IteratesExist
<1>6. Follows(g, u, F, n) /\ \A k \in 0..n : g[k] \in Forests
  <2> HIDE DEF F
  <2> QED
    BY <1>2, <1>4, <1>5, IteratesStep, IteratesIn
<1>7. By(g)
  <2> DEFINE d(k) == IF k = 0 THEN u ELSE UnionAll(g[k - 1], flat[k].tables)
  <2>1. g = [k \in 0..n |-> g[k]]
    BY <1>5 DEF Iterates
  <2>2. ASSUME NEW k \in 0..n PROVE g[k] = d(k)
    <3>1. CASE k = 0
      BY <1>6, <3>1 DEF Follows
    <3>2. CASE k # 0
      <4>1. k \in 1..n /\ k - 1 \in 0..n
        BY <3>2
      <4>2. g[k] = F[k][g[k - 1]] /\ g[k - 1] \in Forests
        <5> HIDE DEF F
        <5> QED
          BY <1>6, <4>1 DEF Follows
      <4>3. g[k] = step(g[k - 1], k)
        <5> HIDE DEF step
        <5> QED
          BY <4>1, <4>2
      <4> QED
        BY <3>2, <4>3
    <3> QED
      BY <3>1, <3>2
  <2> HIDE DEF d
  <2>3. g = [k \in 0..n |-> d(k)]
    BY <2>1, <2>2
  <2> QED
    BY <2>3, Zenon DEF d
<1>8. By(joined)
  <2> HIDE DEF By
  <2> QED
    BY <1>7, Zenon
<1>9. UnionStatements(u, flat) = joined[n]
  BY <1>1, Zenon DEF UnionStatements
<1>10. Statementwise(joined, u, flat)
  <2> DEFINE e(f, k) == IF k = 0 THEN u ELSE UnionAll(f[k - 1], flat[k].tables)
  <2>1. joined = [k \in 0..n |-> e(joined, k)]
    BY <1>8, Zenon
  <2> HIDE DEF e, joined
  <2>2. \A k \in 0..n : joined[k] = e(joined, k)
    BY <2>1
  <2>3. joined[0] = u
    BY <2>2 DEF e
  <2>4. ASSUME NEW k \in 1..n PROVE joined[k] = UnionAll(joined[k - 1], flat[k].tables)
    BY <2>2 DEF e
  <2> QED
    BY <1>1, <2>3, <2>4 DEF Statementwise
<1> QED
  BY <1>1, <1>9, <1>10, Zenon

\* After all statements, tables of one statement are joined, and no others than these force.
LEMMA StatementsJoin ==
    ASSUME NEW u, Forest(u), NEW flat \in Seq(StatementType)
    PROVE  JoinsAll(u, UnionStatements(u, flat), flat, Len(flat))
<1>1. PICK n \in Nat : n = Len(flat)
  OBVIOUS
<1>2. PICK joined : Statementwise(joined, u, flat) /\ UnionStatements(u, flat) = joined[n]
  BY <1>1, StatementsGo
<1> DEFINE T == {k \in 0..n : JoinsAll(u, joined[k], flat, k)}
<1>3. 0 \in T
  <2>1. joined[0] = u
    BY <1>2 DEF Statementwise
  <2>2. JoinsAll(u, u, flat, 0)
    BY DEF JoinsAll
  <2> QED
    BY <2>1, <2>2
<1>4. ASSUME NEW k \in 1..n, k - 1 \in T PROVE k \in T
  <2>1. PICK v : v = joined[k - 1]
    OBVIOUS
  <2>2. PICK w : w = joined[k]
    OBVIOUS
  <2>3. PICK S \in SUBSET Tables : S = flat[k].tables
    <3>1. flat[k] \in StatementType
      BY <1>1
    <3> QED
      BY <3>1 DEF StatementType
  <2>4. JoinsAll(u, v, flat, k - 1)
    BY <1>4, <2>1
  <2>5. w = UnionAll(v, S)
    BY <1>1, <1>2, <2>1, <2>2, <2>3 DEF Statementwise
  <2>6. Forest(v)
    BY <2>4 DEF JoinsAll
  <2>7. Joins(v, w, S)
    BY <2>5, <2>6, UnionAllJoins
  <2>8. \A i \in 1..k : i \in 1..(k - 1) \/ i = k
    OBVIOUS
  <2>9. \A i \in 1..k : flat[i].tables \in SUBSET Tables
    <3>1. \A i \in 1..k : flat[i] \in StatementType
      BY <1>1
    <3> QED
      BY <3>1 DEF StatementType
  <2>10. ASSUME NEW i \in 1..k, NEW x \in flat[i].tables, NEW y \in flat[i].tables PROVE Same(w, x, y)
    <3>1. CASE i = k
      BY <2>3, <2>7, <3>1 DEF Joins
    <3>2. CASE i # k
      <4>1. Same(v, x, y)
        BY <2>4, <2>8, <3>2 DEF JoinsAll
      <4>2. x \in Tables /\ y \in Tables
        BY <2>9
      <4> QED
        BY <2>7, <4>1, <4>2 DEF Joins
    <3> QED
      BY <3>1, <3>2
  <2>11. ASSUME NEW E, Equivalence(E), Within(u, E),
                \A i \in 1..k : \A x, y \in flat[i].tables : <<x, y>> \in E
         PROVE Within(w, E)
    <3>1. \A i \in 1..(k - 1) : i \in 1..k
      OBVIOUS
    <3>2. \A i \in 1..(k - 1) : \A x, y \in flat[i].tables : <<x, y>> \in E
      BY <2>11, <3>1
    <3>3. Within(v, E)
      BY <2>4, <2>11, <3>2 DEF JoinsAll
    <3>4. \A x, y \in S : <<x, y>> \in E
      <4>1. k \in 1..k
        OBVIOUS
      <4> QED
        BY <2>3, <2>11, <4>1, Zenon
    <3> QED
      BY <2>7, <2>11, <3>3, <3>4 DEF Joins
  <2>12. Forest(w)
    BY <2>7 DEF Joins
  <2>13. JoinsAll(u, w, flat, k)
    BY <2>10, <2>11, <2>12 DEF JoinsAll
  <2> QED
    BY <2>2, <2>13
<1>5. \A k \in 0..n : k \in T
  <2> HIDE DEF T
  <2> QED
    BY <1>3, <1>4, Climb
<1>6. n \in T
  <2>1. n \in 0..n
    OBVIOUS
  <2> QED
    BY <1>5, <2>1, Zenon
<1> QED
  BY <1>1, <1>2, <1>6

-----------------------------------------------------------------------------
(***************************************************************************)
(* The statements of a workload.                                           *)
(***************************************************************************)
SessionType == [id : Nat, queries : Seq(StatementType)]

\* cat joins the first members of seqs.
Joined(cat, seqs, S) ==
    /\ cat[0] = << >>
    /\ \A k \in 1..Len(seqs) : cat[k] = cat[k - 1] \o seqs[k]
    /\ \A k \in 0..Len(seqs) : cat[k] \in Seq(S)

\* FlattenSeq is the last value of such a function.
LEMMA FlattenGoes ==
    ASSUME NEW S, NEW seqs \in Seq(Seq(S))
    PROVE  \E cat : Joined(cat, seqs, S) /\ FlattenSeq(seqs) = cat[Len(seqs)]
<1>1. PICK n \in Nat : n = Len(seqs)
  OBVIOUS
<1>2. PICK Q : Q = Seq(S)
  OBVIOUS
<1>3. PICK c \in Q : c = << >>
  <2>1. << >> \in Seq(S)
    OBVIOUS
  <2> QED
    BY <1>2, <2>1, Zenon
<1>4. \A k \in 1..n : seqs[k] \in Q
  <2>1. seqs \in Seq(Q)
    BY <1>2
  <2> QED
    BY <1>1, <2>1
<1>5. CASE n = 0
  <2> DEFINE cat == [k \in 0..0 |-> << >>]
  <2>1. seqs = << >> /\ FlattenSeq(seqs) = seqs
    <3>1. Len(seqs) = 0 => FlattenSeq(seqs) = seqs
      BY Zenon DEF FlattenSeq
    <3>2. seqs = << >>
      BY <1>1, <1>5, EmptySeq
    <3> QED
      BY <1>1, <1>5, <3>1, <3>2, Zenon
  <2>2. Joined(cat, seqs, S)
    BY <1>1, <1>2, <1>3, <1>5 DEF Joined
  <2> HIDE DEF cat
  <2>3. cat[0] = << >>
    BY <2>2, Zenon DEF Joined
  <2> QED
    BY <1>1, <1>5, <2>1, <2>2, <2>3, Zenon
<1>6. CASE n # 0
  <2> DEFINE step(v, k) == v \o seqs[k]
             F == [k \in 1..n |-> [v \in Q |-> step(v, k)]]
             By(h) == h = [i \in 1..n |-> IF i = 1 THEN seqs[i] ELSE h[i - 1] \o seqs[i]]
             flatten == CHOOSE h : By(h)
  <2>1. ASSUME NEW k \in 1..n, NEW v \in Q PROVE step(v, k) \in Q
    BY <1>2, <1>4
  <2>2. F \in [1..n -> [Q -> Q]]
    <3> HIDE DEF step
    <3> QED
      BY <2>1
  <2>3. PICK g : Iterates(g, c, F, n)
    <3> HIDE DEF F
    <3> QED
      BY IteratesExist
  <2>4. Follows(g, c, F, n) /\ \A k \in 0..n : g[k] \in Q
    <3> HIDE DEF F
    <3> QED
      BY <2>2, <2>3, IteratesStep, IteratesIn
  <2>5. \A k \in 1..n : g[k] = g[k - 1] \o seqs[k]
    <3> TAKE k \in 1..n
    <3>1. g[k] = F[k][g[k - 1]] /\ g[k - 1] \in Q
      <4>1. k - 1 \in 0..n
        OBVIOUS
      <4> HIDE DEF F
      <4> QED
        BY <2>4, <4>1 DEF Follows
    <3>2. g[k] = step(g[k - 1], k)
      <4> HIDE DEF step
      <4> QED
        BY <3>1
    <3> QED
      BY <3>2
  <2>6. g[1] = seqs[1]
    <3>1. g[1] = g[0] \o seqs[1] /\ g[0] = c
      <4>1. 1 \in 1..n /\ 1 - 1 = 0
        BY <1>6
      <4> QED
        BY <2>4, <2>5, <4>1 DEF Follows
    <3>2. seqs[1] \in Seq(S)
      BY <1>2, <1>4, <1>6
    <3> QED
      BY <1>3, <3>1, <3>2, ConcatEmptySeq
  <2> DEFINE h0 == [i \in 1..n |-> g[i]]
  <2>7. By(h0)
    <3> DEFINE d(i) == IF i = 1 THEN seqs[i] ELSE h0[i - 1] \o seqs[i]
    <3>1. ASSUME NEW i \in 1..n PROVE h0[i] = d(i)
      <4>1. CASE i = 1
        BY <2>6, <4>1
      <4>2. CASE i # 1
        <5>1. i - 1 \in 1..n /\ h0[i - 1] = g[i - 1] /\ h0[i] = g[i]
          BY <4>2
        <5> QED
          BY <2>5, <4>2, <5>1
      <4> QED
        BY <4>1, <4>2
    <3>2. h0 = [i \in 1..n |-> h0[i]]
      OBVIOUS
    <3> HIDE DEF d, h0
    <3>3. h0 = [i \in 1..n |-> d(i)]
      BY <3>1, <3>2
    <3> QED
      BY <3>3, Zenon DEF d
  <2>8. By(flatten)
    <3> HIDE DEF By
    <3> QED
      BY <2>7, Zenon
  <2>9. FlattenSeq(seqs) = flatten[n]
    <3>1. Len(seqs) # 0 => FlattenSeq(seqs) = flatten[Len(seqs)]
      <4> SUFFICES ASSUME n # 0 PROVE FlattenSeq(seqs) = flatten[n]
        BY <1>1, Zenon
      <4> QED
        BY <1>1, Zenon DEF FlattenSeq
    <3> QED
      BY <1>1, <1>6, <3>1, Zenon
  <2>10. \A i \in 1..n : flatten[i] = IF i = 1 THEN seqs[i] ELSE flatten[i - 1] \o seqs[i]
    <3> DEFINE e(f, i) == IF i = 1 THEN seqs[i] ELSE f[i - 1] \o seqs[i]
    <3>1. flatten = [i \in 1..n |-> e(flatten, i)]
      BY <2>8, Zenon
    <3> HIDE DEF e, flatten
    <3>2. \A i \in 1..n : flatten[i] = e(flatten, i)
      BY <3>1
    <3> QED
      BY <3>2, Zenon DEF e
  <2> DEFINE cat == [k \in 0..n |-> IF k = 0 THEN << >> ELSE flatten[k]]
             T == {k \in 0..n : cat[k] \in Q}
  <2> HIDE DEF flatten
  <2>11. cat[0] = << >> /\ cat[n] = flatten[n] /\ \A k \in 1..n : cat[k] = flatten[k]
    BY <1>6
  <2>12. \A k \in 1..n : cat[k] = cat[k - 1] \o seqs[k]
    <3> TAKE k \in 1..n
    <3>1. CASE k = 1
      <4>1. cat[k] = seqs[k] /\ cat[k - 1] = << >> /\ seqs[k] \in Seq(S)
        BY <1>2, <1>4, <2>10, <2>11, <3>1
      <4> QED
        BY <4>1, ConcatEmptySeq
    <3>2. CASE k # 1
      <4>1. k - 1 \in 1..n
        BY <3>2
      <4> HIDE DEF cat
      <4> QED
        BY <2>10, <2>11, <3>2, <4>1
    <3> QED
      BY <3>1, <3>2
  <2> HIDE DEF cat
  <2>13. \A k \in 0..n : k \in T
    <3>1. 0 \in T
      BY <1>3, <2>11
    <3>2. ASSUME NEW k \in 1..n, k - 1 \in T PROVE k \in T
      <4>1. cat[k] = step(cat[k - 1], k) /\ cat[k - 1] \in Q
        BY <2>12, <3>2
      <4>2. cat[k] \in Q
        <5> HIDE DEF step
        <5> QED
          BY <2>1, <4>1
      <4> QED
        BY <4>2
    <3> HIDE DEF T
    <3> QED
      BY <3>1, <3>2, Climb
  <2>14. Joined(cat, seqs, S)
    BY <1>1, <1>2, <2>11, <2>12, <2>13 DEF Joined
  <2> QED
    BY <1>1, <2>9, <2>11, <2>14, Zenon
<1> QED
  BY <1>5, <1>6

\* What is joined from sequences over a set is one.
LEMMA FlattenType ==
    ASSUME NEW S, NEW seqs \in Seq(Seq(S))
    PROVE  FlattenSeq(seqs) \in Seq(S)
<1>1. PICK n \in Nat : n = Len(seqs)
  OBVIOUS
<1>2. PICK cat : Joined(cat, seqs, S) /\ FlattenSeq(seqs) = cat[n]
  BY <1>1, FlattenGoes
<1> QED
  BY <1>1, <1>2 DEF Joined

\* cat is the way FlatQueries goes.
Flattening(cat, w) ==
    /\ cat[0] = << >>
    /\ \A k \in 1..Len(w) : cat[k] = cat[k - 1] \o w[k].queries
    /\ \A k \in 0..Len(w) : cat[k] \in Seq(StatementType)

\* FlatQueries appends one session after the other.
LEMMA FlatGoes ==
    ASSUME NEW w \in Seq(SessionType)
    PROVE  \E cat : Flattening(cat, w) /\ FlatQueries(w) = cat[Len(w)]
<1> DEFINE seqs == [k \in DOMAIN w |-> w[k].queries]
<1>1. /\ seqs \in Seq(Seq(StatementType)) /\ Len(seqs) = Len(w)
      /\ \A k \in 1..Len(w) : seqs[k] = w[k].queries
  <2>1. \A k \in DOMAIN w : w[k].queries \in Seq(StatementType)
    <3>1. \A k \in DOMAIN w : w[k] \in SessionType
      OBVIOUS
    <3> QED
      BY <3>1 DEF SessionType
  <2>2. DOMAIN w = 1..Len(w) /\ Len(w) \in Nat
    OBVIOUS
  <2>3. seqs \in [1..Len(w) -> Seq(StatementType)]
    BY <2>1, <2>2
  <2> QED
    BY <2>2, <2>3
<1> HIDE DEF seqs
<1>2. PICK cat : Joined(cat, seqs, StatementType) /\ FlattenSeq(seqs) = cat[Len(seqs)]
  BY <1>1, FlattenGoes
<1>3. FlatQueries(w) = FlattenSeq(seqs)
  BY Zenon DEF FlatQueries, seqs
<1> QED
  BY <1>1, <1>2, <1>3 DEF Joined, Flattening

\* FlatQueries gives a sequence of statements.
LEMMA FlatType ==
    ASSUME NEW w \in Seq(SessionType)
    PROVE  FlatQueries(w) \in Seq(StatementType)
<1>1. PICK n \in Nat : n = Len(w)
  OBVIOUS
<1>2. PICK cat : Flattening(cat, w) /\ FlatQueries(w) = cat[n]
  BY <1>1, FlatGoes
<1> QED
  BY <1>1, <1>2 DEF Flattening

-----------------------------------------------------------------------------
(***************************************************************************)
(* Linked is an equivalence: the tables reached after as many steps as     *)
(* there are tables are closed, since every step before adds one.          *)
(***************************************************************************)
Closed(R) == \A x \in R : \A y \in Tables : Together(x, y) => y \in R
Further(R) == R \cup {y \in Tables : \E x \in R : Together(x, y)}

Reaching(reach, a) ==
    reach[0] = {a} /\ \A k \in 1..N : reach[k] = Further(reach[k - 1])

\* The tables a is linked with.
Component(R, a) ==
    /\ a \in R /\ R \in SUBSET Tables /\ Closed(R)
    /\ \A C : a \in C /\ Closed(C) => R \subseteq C

\* Linked looks for b in what is reached from a.
LEMMA LinkedGoes ==
    ASSUME NEW a \in Tables
    PROVE  \E reach : Reaching(reach, a) /\ \A b : Linked(a, b) <=> b \in reach[N]
<1>1. N \in Nat
  BY TablesFinite
<1>2. PICK S : S = SUBSET Tables
  OBVIOUS
<1>3. PICK c \in S : c = {a}
  BY <1>2
<1> DEFINE F == [k \in 1..N |-> [R \in S |-> Further(R)]]
           By(f) == f = [k \in 0..N |-> IF k = 0 THEN {a}
                            ELSE f[k - 1] \cup {y \in Tables : \E x \in f[k - 1] : Together(x, y)}]
           reach == CHOOSE f : By(f)
<1>4. \A R \in S : Further(R) \in S
  BY <1>2 DEF Further
<1>5. F \in [1..N -> [S -> S]]
  BY <1>4
<1>6. PICK g : Iterates(g, c, F, N)
  <2> HIDE DEF F
  <2> QED
    BY <1>1, IteratesExist
<1>7. Follows(g, c, F, N) /\ \A k \in 0..N : g[k] \in S
  <2> HIDE DEF F
  <2> QED
    BY <1>1, <1>5, <1>6, IteratesStep, IteratesIn
<1>8. By(g)
  <2> DEFINE d(k) == IF k = 0 THEN {a} ELSE Further(g[k - 1])
  <2>1. g = [k \in 0..N |-> g[k]]
    BY <1>6 DEF Iterates
  <2>2. ASSUME NEW k \in 0..N PROVE g[k] = d(k)
    <3>1. CASE k = 0
      BY <1>3, <1>7, <3>1 DEF Follows
    <3>2. CASE k # 0
      <4>1. k \in 1..N /\ k - 1 \in 0..N
        BY <1>1, <3>2
      <4>2. g[k] = F[k][g[k - 1]] /\ g[k - 1] \in S
        <5> HIDE DEF F
        <5> QED
          BY <1>7, <4>1 DEF Follows
      <4> QED
        BY <3>2, <4>1, <4>2
    <3> QED
      BY <3>1, <3>2
  <2> HIDE DEF d
  <2>3. g = [k \in 0..N |-> d(k)]
    BY <2>1, <2>2
  <2> QED
    BY <2>3, Zenon DEF d, Further
<1>9. By(reach)
  <2> HIDE DEF By
  <2> QED
    BY <1>8, Zenon
<1>10. \A b : Linked(a, b) <=> b \in reach[N]
  BY Zenon DEF Linked, N
<1>11. Reaching(reach, a)
  <2> DEFINE e(f, k) == IF k = 0 THEN {a} ELSE Further(f[k - 1])
  <2>1. reach = [k \in 0..N |-> e(reach, k)]
    BY <1>9, Zenon DEF Further
  <2> HIDE DEF e, reach
  <2>2. \A k \in 0..N : reach[k] = e(reach, k)
    BY <2>1
  <2>3. reach[0] = {a}
    BY <1>1, <2>2 DEF e
  <2>4. ASSUME NEW k \in 1..N PROVE reach[k] = Further(reach[k - 1])
    <3>1. k \in 0..N /\ k # 0
      BY <1>1
    <3> QED
      BY <2>2, <3>1, Zenon DEF e
  <2> QED
    BY <2>3, <2>4 DEF Reaching
<1> QED
  BY <1>10, <1>11, Zenon

\* What is reached from a is closed, and nothing closed that has a is smaller.
LEMMA LinkedComponent ==
    ASSUME NEW a \in Tables
    PROVE  \E R : Component(R, a) /\ \A b : Linked(a, b) <=> b \in R
<1>1. PICK reach : Reaching(reach, a) /\ \A b : Linked(a, b) <=> b \in reach[N]
  BY LinkedGoes
<1>2. N \in Nat
  BY TablesFinite
<1> DEFINE T == {k \in 0..N : /\ a \in reach[k] /\ reach[k] \in SUBSET Tables
                              /\ \A C : a \in C /\ Closed(C) => reach[k] \subseteq C
                              /\ Closed(reach[k]) \/ Cardinality(reach[k]) > k}
<1>3. 0 \in T
  <2>1. reach[0] = {a} /\ Cardinality({a}) = 1
    BY <1>1, FS_Singleton DEF Reaching
  <2> QED
    BY <1>2, <2>1
<1>4. ASSUME NEW k \in 1..N, k - 1 \in T PROVE k \in T
  <2>1. PICK R : R = reach[k - 1]
    OBVIOUS
  <2>2. /\ a \in R /\ R \in SUBSET Tables
        /\ \A C : a \in C /\ Closed(C) => R \subseteq C
        /\ Closed(R) \/ Cardinality(R) > k - 1
    BY <1>4, <2>1
  <2>3. PICK Q : Q = Further(R)
    OBVIOUS
  <2>4. reach[k] = Q
    BY <1>1, <2>1, <2>3 DEF Reaching
  <2>5. a \in Q /\ Q \in SUBSET Tables /\ R \subseteq Q
    BY <2>2, <2>3 DEF Further
  <2>6. ASSUME NEW C, a \in C, Closed(C) PROVE Q \subseteq C
    <3>1. R \subseteq C
      BY <2>2, <2>6
    <3> QED
      BY <2>3, <2>6, <3>1 DEF Further, Closed
  <2>7. Closed(Q) \/ Cardinality(Q) > k
    <3>1. CASE Q = R
      <4>1. Closed(R)
        BY <2>3, <3>1 DEF Further, Closed
      <4> QED
        BY <3>1, <4>1
    <3>2. CASE Q # R
      <4>1. ~Closed(R)
        BY <2>3, <3>2 DEF Further, Closed
      <4>2. IsFiniteSet(Q) /\ Cardinality(Q) \in Nat /\ Cardinality(R) \in Nat
        BY <2>2, <2>5, TablesFinite
      <4>3. Cardinality(R) <= Cardinality(Q) /\ (Cardinality(Q) = Cardinality(R) => Q = R)
        BY <2>5, <4>2, FS_Subset
      <4> QED
        BY <2>2, <3>2, <4>1, <4>2, <4>3
    <3> QED
      BY <3>1, <3>2
  <2> QED
    BY <1>2, <2>4, <2>5, <2>6, <2>7
<1>5. N \in T
  <2>1. \A k \in 0..N : k \in T
    <3> HIDE DEF T
    <3> QED
      BY <1>2, <1>3, <1>4, Climb
  <2>2. N \in 0..N
    BY <1>2
  <2> QED
    BY <2>1, <2>2, Zenon
<1>6. PICK R : R = reach[N]
  OBVIOUS
<1>7. /\ a \in R /\ R \in SUBSET Tables
      /\ \A C : a \in C /\ Closed(C) => R \subseteq C
      /\ Closed(R) \/ Cardinality(R) > N
  BY <1>5, <1>6
<1>8. Cardinality(R) <= N /\ Cardinality(R) \in Nat
  BY <1>7, TablesFinite, FS_Subset DEF N
<1>9. Component(R, a)
  BY <1>2, <1>7, <1>8 DEF Component
<1> QED
  BY <1>1, <1>6, <1>9

\* Linked is an equivalence that has the tables of each statement.
LEMMA LinkedEquivalence ==
    /\ \A x \in Tables : Linked(x, x)
    /\ \A x, y \in Tables : Together(x, y) => Linked(x, y)
    /\ \A x, y \in Tables : Linked(x, y) => Linked(y, x)
    /\ \A x, y, z \in Tables : Linked(x, y) /\ Linked(y, z) => Linked(x, z)
<1>1. ASSUME NEW x \in Tables PROVE Linked(x, x)
  BY LinkedComponent DEF Component
<1>2. ASSUME NEW x \in Tables, NEW y \in Tables, Together(x, y) PROVE Linked(x, y)
  BY <1>2, LinkedComponent DEF Component, Closed
<1>3. ASSUME NEW x \in Tables, NEW y \in Tables, NEW z \in Tables, Linked(x, y), Linked(y, z) PROVE Linked(x, z)
  <2>1. PICK R : Component(R, x) /\ \A b : Linked(x, b) <=> b \in R
    BY LinkedComponent
  <2>2. PICK Q : Component(Q, y) /\ \A b : Linked(y, b) <=> b \in Q
    BY LinkedComponent
  <2>3. Q \subseteq R
    BY <1>3, <2>1, <2>2 DEF Component
  <2> QED
    BY <1>3, <2>1, <2>2, <2>3
<1>4. \A x, y : Together(x, y) => Together(y, x)
  BY DEF Together
<1>5. ASSUME NEW x \in Tables, NEW y \in Tables, Linked(x, y) PROVE Linked(y, x)
  <2> DEFINE C == {z \in Tables : Linked(z, x)}
  <2>1. PICK R : Component(R, x) /\ \A b : Linked(x, b) <=> b \in R
    BY LinkedComponent
  <2>2. ASSUME NEW z \in C, NEW v \in Tables, Together(z, v) PROVE v \in C
    <3>1. Linked(v, z)
      BY <1>2, <1>4, <2>2
    <3> QED
      BY <1>3, <2>2, <3>1
  <2>3. x \in C /\ Closed(C)
    BY <1>1, <2>2 DEF Closed
  <2> HIDE DEF C
  <2>4. y \in C
    BY <1>5, <2>1, <2>3 DEF Component
  <2> QED
    BY <2>4 DEF C
<1> QED
  BY <1>1, <1>2, <1>3, <1>5

-----------------------------------------------------------------------------
(***************************************************************************)
(* Groups.                                                                 *)
(***************************************************************************)
Alone == [parent |-> [t \in Tables |-> t], rank |-> [t \in Tables |-> 0]]

\* The forest is what analyze_workload makes of the statements.
GroupInv ==
    /\ source \in Workloads
    /\ transforming = "unplanned" => uf = Alone
    /\ transforming = "analyzed" => uf = UnionStatements(Alone, FlatQueries(source))

\* At first every table is a root.
LEMMA AloneForest ==
    Forest(Alone) /\ \A x \in Tables : find(Alone, x) = x
<1>1. /\ Alone.parent = [t \in Tables |-> t] /\ Alone.rank = [t \in Tables |-> 0]
      /\ Alone \in [parent : [Tables -> Tables], rank : [Tables -> Nat]]
  BY DEF Alone
<1>2. Roots(Alone) = Tables
  BY <1>1 DEF Roots
<1>3. N \in Nat
  BY TablesFinite
<1>4. Forest(Alone)
  BY <1>1, <1>2, <1>3 DEF Forest, N
<1>5. \A x \in Tables : Alone.parent[x] = x
  BY <1>1
<1> QED
  BY <1>4, <1>5, FindOfRoot

\* What analyze_workload leaves behind has the right groups.
LEMMA GroupsFollow ==
    ASSUME GroupInv
    PROVE  GroupsRight
<1>1. SUFFICES ASSUME transforming = "analyzed",
                      NEW j \in DOMAIN FlatQueries(source), NEW k \in DOMAIN FlatQueries(source),
                      FlatQueries(source)[j].tables # {}, FlatQueries(source)[k].tables # {}
               PROVE  query_group(j) = query_group(k) <=>
                          Linked(Smallest(FlatQueries(source)[j].tables), Smallest(FlatQueries(source)[k].tables))
  BY Zenon DEF GroupsRight
<1>2. PICK flat : flat = FlatQueries(source)
  OBVIOUS
<1>3. flat \in Seq(StatementType)
  <2>1. source \in Seq(SessionType)
    BY TransformAssumption DEF GroupInv, SessionType, StatementType
  <2> QED
    BY <1>2, <2>1, FlatType
<1>4. JoinsAll(Alone, uf, flat, Len(flat))
  BY <1>1, <1>2, <1>3, AloneForest, StatementsJoin DEF GroupInv
<1>5. \A i \in DOMAIN flat : i \in 1..Len(flat) /\ flat[i].tables \in SUBSET Tables
  <2>1. DOMAIN flat = 1..Len(flat) /\ \A i \in 1..Len(flat) : flat[i] \in StatementType
    BY <1>3
  <2> QED
    BY <2>1 DEF StatementType
<1>6. PICK a \in SUBSET Tables : a = flat[j].tables /\ a # {}
  BY <1>1, <1>2, <1>5
<1>7. PICK b \in SUBSET Tables : b = flat[k].tables /\ b # {}
  BY <1>1, <1>2, <1>5
<1>8. PICK x \in Tables : x = Smallest(a)
  BY <1>6, SmallestIs, TablesFinite
<1>9. PICK y \in Tables : y = Smallest(b)
  BY <1>7, SmallestIs, TablesFinite
<1>10. query_group(j) = {find(uf, x)} /\ query_group(k) = {find(uf, y)}
  BY <1>2, <1>6, <1>7, <1>8, <1>9, Zenon DEF query_group
<1>11. ASSUME Same(uf, x, y) PROVE Linked(x, y)
  <2> DEFINE E == {e \in Tables \X Tables : Linked(e[1], e[2])}
  <2>1. \A p, q \in Tables : <<p, q>> \in E <=> Linked(p, q)
    OBVIOUS
  <2> HIDE DEF E
  <2>2. Equivalence(E)
    BY <2>1, LinkedEquivalence DEF Equivalence
  <2>3. Within(Alone, E)
    BY <2>1, AloneForest, LinkedEquivalence DEF Within, Same
  <2>4. ASSUME NEW i \in 1..Len(flat), NEW p \in flat[i].tables, NEW q \in flat[i].tables PROVE <<p, q>> \in E
    <3>1. i \in DOMAIN flat
      BY <1>3
    <3>2. p \in Tables /\ q \in Tables
      BY <1>5, <3>1
    <3>3. Together(p, q)
      BY <1>2, <3>1 DEF Together
    <3> QED
      BY <2>1, <3>2, <3>3, LinkedEquivalence
  <2>5. Within(uf, E)
    BY <1>4, <2>2, <2>3, <2>4 DEF JoinsAll
  <2> QED
    BY <1>11, <2>1, <2>5 DEF Within
<1>12. ASSUME Linked(x, y) PROVE Same(uf, x, y)
  <2> DEFINE C == {z \in Tables : Same(uf, x, z)}
  <2>1. PICK R : Component(R, x) /\ \A q : Linked(x, q) <=> q \in R
    BY LinkedComponent
  <2>2. ASSUME NEW p \in C, NEW q \in Tables, Together(p, q) PROVE q \in C
    <3>1. PICK i \in DOMAIN flat : {p, q} \subseteq flat[i].tables
      BY <1>2, <2>2 DEF Together
    <3>2. Same(uf, p, q)
      BY <1>4, <1>5, <3>1 DEF JoinsAll
    <3> QED
      BY <2>2, <3>2 DEF Same
  <2>3. x \in C /\ Closed(C)
    BY <2>2 DEF Closed, Same
  <2> HIDE DEF C
  <2>4. y \in C
    BY <1>12, <2>1, <2>3 DEF Component
  <2> QED
    BY <2>4 DEF C
<1> QED
  BY <1>2, <1>6, <1>7, <1>8, <1>9, <1>10, <1>11, <1>12 DEF Same

\* Statements are in one group exactly when a chain of statements links their
\* tables, whatever the workload and the order its tables come in (analyze.rs 292-410).
THEOREM GroupsCorrect ==
    TransformSpec => []GroupsRight
<1>1. TransformInit => GroupInv
  BY DEF TransformInit, GroupInv, Alone
<1>2. GroupInv /\ [TransformNext]_transformVars => GroupInv'
  <2> SUFFICES ASSUME GroupInv, [TransformNext]_transformVars PROVE GroupInv'
    OBVIOUS
  <2>1. CASE Analyze
    BY <2>1 DEF Analyze, GroupInv
  <2>2. CASE ReadPlan
    BY <2>2 DEF ReadPlan, GroupInv
  <2>3. CASE TransformQuery
    BY <2>3 DEF TransformQuery, GroupInv
  <2>4. CASE Duplicate
    BY <2>4 DEF Duplicate, GroupInv
  <2>5. CASE InjectSessions
    BY <2>5 DEF InjectSessions, GroupInv
  <2>6. CASE WriteProfile
    BY <2>6 DEF WriteProfile, GroupInv
  <2>7. CASE UNCHANGED transformVars
    BY <2>7 DEF transformVars, GroupInv
  <2> QED
    BY <2>1, <2>2, <2>3, <2>4, <2>5, <2>6, <2>7 DEF TransformNext
<1> QED
  BY <1>1, <1>2, GroupsFollow, PTL DEF TransformSpec

-----------------------------------------------------------------------------
(***************************************************************************)
(* Where the statements of a session are among all.                        *)
(***************************************************************************)
\* Before counts the statements of the sessions before.
LEMMA BeforeIs ==
    ASSUME NEW w \in Seq(SessionType), NEW cat, Flattening(cat, w), NEW k \in 1..Len(w)
    PROVE  Before(w, k) = Len(cat[k - 1])
<1>1. PICK m \in Nat : m = k - 1
  OBVIOUS
<1>2. PICK w1 : w1 = SubSeq(w, 1, m)
  OBVIOUS
<1>3. w1 \in Seq(SessionType) /\ Len(w1) = m /\ \A i \in 1..m : w1[i] = w[i] /\ i \in 1..Len(w)
  BY <1>1, <1>2
<1>4. PICK on : Flattening(on, w1) /\ FlatQueries(w1) = on[m]
  BY <1>3, FlatGoes
<1> DEFINE T == {i \in 0..m : on[i] = cat[i]}
<1>5. \A i \in 0..m : i \in T
  <2>1. 0 \in T
    BY <1>4 DEF Flattening
  <2>2. ASSUME NEW i \in 1..m, i - 1 \in T PROVE i \in T
    <3>1. on[i] = on[i - 1] \o w1[i].queries /\ cat[i] = cat[i - 1] \o w[i].queries
      BY <1>3, <1>4 DEF Flattening
    <3>2. on[i - 1] = cat[i - 1] /\ w1[i].queries = w[i].queries /\ i \in 0..m
      BY <1>3, <2>2
    <3>3. on[i] = cat[i]
      BY <3>1, <3>2, Zenon
    <3> QED
      BY <3>2, <3>3
  <2> HIDE DEF T
  <2> QED
    BY <2>1, <2>2, Climb
<1>6. on[m] = cat[m]
  BY <1>5
<1>7. FlatQueries(SubSeq(w, 1, k - 1)) = cat[k - 1]
  BY <1>1, <1>2, <1>4, <1>6
<1> QED
  BY <1>7, Zenon DEF Before

\* The sessions follow each other, and each place is in one.
Placed(w) ==
    /\ \A k \in 1..Len(w) : Before(w, k) \in Nat /\ Len(w[k].queries) \in Nat
    /\ \A k \in 1..Len(w) : Before(w, k) + Len(w[k].queries) <= Len(FlatQueries(w))
    /\ \A j, k \in 1..Len(w) : j < k => Before(w, j) + Len(w[j].queries) <= Before(w, k)
    /\ \A f \in Nat : f < Len(FlatQueries(w)) => \E k \in 1..Len(w) : f \in Places(w, k)

\* What grows by its steps from 0 meets every number below its end.
LEMMA StepsMeet ==
    ASSUME NEW n \in Nat, NEW b \in [0..n -> Nat], b[0] = 0, \A k \in 1..n : b[k - 1] <= b[k]
    PROVE  /\ \A j, k \in 0..n : j <= k => b[j] <= b[k]
           /\ \A f \in Nat : f < b[n] => \E k \in 1..n : b[k - 1] <= f /\ f < b[k]
<1>1. ASSUME NEW j \in 0..n PROVE \A k \in 0..n : j <= k => b[j] <= b[k]
  <2> DEFINE T == {k \in 0..n : j <= k => b[j] <= b[k]}
  <2>1. 0 \in T
    BY <1>1
  <2>2. ASSUME NEW k \in 1..n, k - 1 \in T PROVE k \in T
    <3>1. k - 1 \in 0..n /\ b[k - 1] <= b[k] /\ b[k] \in Nat /\ b[k - 1] \in Nat /\ b[j] \in Nat
      OBVIOUS
    <3>2. CASE j = k
      BY <3>1, <3>2
    <3>3. CASE j # k
      BY <2>2, <3>1, <3>3
    <3> QED
      BY <3>2, <3>3
  <2>3. \A k \in 0..n : k \in T
    <3> HIDE DEF T
    <3> QED
      BY <2>1, <2>2, Climb
  <2> QED
    BY <2>3
<1>2. ASSUME NEW f \in Nat, f < b[n] PROVE \E k \in 1..n : b[k - 1] <= f /\ f < b[k]
  <2> DEFINE T == {k \in 0..n : f < b[k]}
  <2>1. PICK k \in T : \A j \in T : k <= j
    <3>1. T \in SUBSET Nat /\ T # {}
      BY <1>2
    <3> QED
      BY <3>1, LeastNumber
  <2>2. k \in 1..n /\ k - 1 \in 0..n
    BY <2>1
  <2>3. ~(f < b[k - 1]) /\ b[k - 1] \in Nat
    BY <2>1, <2>2
  <2> QED
    BY <2>1, <2>2, <2>3
<1> QED
  BY <1>1, <1>2

\* So it is for every workload.
LEMMA PlacesAre ==
    ASSUME NEW w \in Seq(SessionType)
    PROVE  Placed(w)
<1>1. PICK n \in Nat : n = Len(w)
  OBVIOUS
<1>2. PICK cat : Flattening(cat, w) /\ FlatQueries(w) = cat[n]
  BY <1>1, FlatGoes
<1> DEFINE b0 == [k \in 0..n |-> Len(cat[k])]
<1>3. PICK b : b = b0
  OBVIOUS
<1>4. \A k \in 0..n : b[k] = Len(cat[k]) /\ cat[k] \in Seq(StatementType)
  BY <1>1, <1>2, <1>3 DEF Flattening
<1>5. b \in [0..n -> Nat]
  <2>1. \A k \in 0..n : Len(cat[k]) \in Nat
    BY <1>4
  <2> QED
    BY <1>3, <2>1
<1>6. b[0] = 0
  BY <1>2, <1>4 DEF Flattening
<1>7. \A k \in 1..n : Len(w[k].queries) \in Nat /\ b[k] = b[k - 1] + Len(w[k].queries)
  <2> TAKE k \in 1..n
  <2>1. w[k].queries \in Seq(StatementType)
    <3>1. w[k] \in SessionType
      BY <1>1
    <3> QED
      BY <3>1 DEF SessionType
  <2>2. k - 1 \in 0..n /\ k \in 0..n
    OBVIOUS
  <2>3. cat[k] = cat[k - 1] \o w[k].queries /\ cat[k - 1] \in Seq(StatementType)
    BY <1>1, <1>2, <1>4, <2>2 DEF Flattening
  <2>4. Len(cat[k]) = Len(cat[k - 1]) + Len(w[k].queries)
    BY <2>1, <2>3
  <2>5. b[k] = Len(cat[k]) /\ b[k - 1] = Len(cat[k - 1])
    BY <1>4, <2>2
  <2> QED
    BY <2>1, <2>4, <2>5
<1>8. \A k \in 1..n : Before(w, k) = b[k - 1]
  <2> TAKE k \in 1..n
  <2>1. Before(w, k) = Len(cat[k - 1])
    BY <1>1, <1>2, BeforeIs
  <2> QED
    BY <1>4, <2>1
<1>9. /\ \A j, k \in 0..n : j <= k => b[j] <= b[k]
      /\ \A f \in Nat : f < b[n] => \E k \in 1..n : b[k - 1] <= f /\ f < b[k]
  <2>1. ASSUME NEW k \in 1..n PROVE b[k - 1] <= b[k]
    <3>1. k - 1 \in 0..n /\ b[k - 1] \in Nat
      BY <1>5
    <3> QED
      BY <1>7, <3>1
  <2> QED
    BY <1>5, <1>6, <2>1, StepsMeet
<1>10. Len(FlatQueries(w)) = b[n]
  BY <1>2, <1>4
<1>11. \A k \in 1..n : Before(w, k) \in Nat /\ Before(w, k) + Len(w[k].queries) = b[k]
  BY <1>5, <1>7, <1>8
<1>12. \A k \in 1..n : b[k] <= b[n]
  BY <1>9
<1>13. ASSUME NEW j \in 1..n, NEW k \in 1..n, j < k PROVE b[j] <= Before(w, k)
  <2>1. j \in 0..n /\ k - 1 \in 0..n /\ j <= k - 1
    BY <1>13
  <2>2. b[j] <= b[k - 1]
    BY <1>9, <2>1
  <2> QED
    BY <1>8, <2>2
<1>14. ASSUME NEW f \in Nat, f < b[n] PROVE \E k \in 1..n : f \in Places(w, k)
  <2>1. PICK k \in 1..n : b[k - 1] <= f /\ f < b[k]
    BY <1>9, <1>14
  <2>2. f \in Before(w, k) .. Before(w, k) + Len(w[k].queries) - 1
    <3>1. b[k] \in Nat /\ Before(w, k) = b[k - 1] /\ Before(w, k) + Len(w[k].queries) = b[k] /\ b[k - 1] \in Nat
      BY <1>5, <1>8, <1>11
    <3> QED
      BY <1>7, <2>1, <3>1
  <2> QED
    BY <2>2 DEF Places
<1> QED
  BY <1>1, <1>7, <1>10, <1>11, <1>12, <1>13, <1>14 DEF Placed

\* A place is in one session only.
LEMMA PlaceOnce ==
    ASSUME NEW w, Placed(w), NEW j \in 1..Len(w), NEW k \in 1..Len(w), NEW f,
           f \in Places(w, j), f \in Places(w, k)
    PROVE  j = k
<1>1. PICK b \in Nat, c \in Nat : b = Before(w, j) /\ c = Before(w, k)
  BY DEF Placed
<1>2. PICK m \in Nat, n \in Nat : m = Len(w[j].queries) /\ n = Len(w[k].queries)
  BY DEF Placed
<1>3. (j < k => b + m <= c) /\ (k < j => c + n <= b)
  BY <1>1, <1>2 DEF Placed
<1>4. f \in b .. b + m - 1 /\ f \in c .. c + n - 1
  BY <1>1, <1>2, Zenon DEF Places
<1>5. j \in Int /\ k \in Int
  OBVIOUS
<1> QED
  BY ONLY <1>3, <1>4, <1>5, b \in Nat, c \in Nat, m \in Nat, n \in Nat

\* SessionAt finds the session, and Original the statement.
LEMMA PlaceFound ==
    ASSUME NEW w \in Seq(SessionType), NEW f \in Nat, f < Len(FlatQueries(w))
    PROVE  SessionAt(w, f) \in 1..Len(w) /\ f \in Places(w, SessionAt(w, f)) /\ Original(w, f) \in StatementType
<1>1. Placed(w)
  BY PlacesAre
<1>2. \E k \in DOMAIN w : f \in Places(w, k)
  <2>1. DOMAIN w = 1..Len(w)
    OBVIOUS
  <2> QED
    BY <1>1, <2>1 DEF Placed
<1>3. SessionAt(w, f) \in DOMAIN w /\ f \in Places(w, SessionAt(w, f))
  BY <1>2, Zenon DEF SessionAt
<1>4. PICK k \in 1..Len(w) : k = SessionAt(w, f) /\ f \in Places(w, k)
  BY <1>3
<1>5. Before(w, k) \in Nat /\ Len(w[k].queries) \in Nat
  BY <1>1 DEF Placed
<1>6. f - Before(w, k) + 1 \in 1..Len(w[k].queries)
  BY <1>4, <1>5 DEF Places
<1>7. w[k].queries \in Seq(StatementType)
  <2>1. w[k] \in SessionType
    OBVIOUS
  <2> QED
    BY <2>1 DEF SessionType
<1>8. w[k].queries[f - Before(w, k) + 1] \in StatementType
  BY <1>6, <1>7, ElementOfSeq, Zenon
<1> QED
  BY <1>4, <1>8 DEF Original

-----------------------------------------------------------------------------
(***************************************************************************)
(* Numbers: the largest of some, their sum, and the factors of a plan.     *)
(***************************************************************************)
\* Largest is the greatest element.
LEMMA LargestIs ==
    ASSUME NEW n \in Nat, NEW S \in SUBSET (0..n), S # {}, NEW none
    PROVE  Largest(S, none) \in S /\ \A j \in S : j <= Largest(S, none)
<1> DEFINE R == {n - j : j \in S}
<1>1. PICK m \in R : \A k \in R : m <= k
  <2>1. \A j \in S : j \in 0..n
    OBVIOUS
  <2>2. \A j \in S : n - j \in Nat
    BY <2>1
  <2>3. R \in SUBSET Nat /\ R # {}
    BY <2>2
  <2> QED
    BY <2>3, LeastNumber
<1>2. PICK k \in S : m = n - k
  BY <1>1
<1>3. \A j \in S : j <= k
  <2> TAKE j \in S
  <2>1. n - j \in R
    OBVIOUS
  <2>2. n - k <= n - j
    BY <1>1, <1>2, <2>1
  <2>3. j \in 0..n /\ k \in 0..n
    OBVIOUS
  <2> QED
    BY <2>2, <2>3
<1>4. \E i \in S : \A j \in S : j <= i
  BY <1>3
<1> QED
  BY <1>4, Zenon DEF Largest

\* Finitely many numbers have a bound.
LEMMA Bounded ==
    ASSUME NEW n \in Nat, NEW f \in [1..n -> Nat]
    PROVE  \E b \in Nat : \A k \in 1..n : f[k] <= b
<1> DEFINE T == {k \in 0..n : \E b \in Nat : \A i \in 1..k : f[i] <= b}
<1>1. 0 \in T
  OBVIOUS
<1>2. ASSUME NEW k \in 1..n, k - 1 \in T PROVE k \in T
  <2>1. PICK b \in Nat : \A i \in 1..(k - 1) : f[i] <= b
    BY <1>2
  <2>2. PICK c \in Nat : b <= c /\ f[k] <= c
    <3>1. f[k] \in Nat
      OBVIOUS
    <3>2. CASE b <= f[k]
      BY <3>1, <3>2
    <3>3. CASE f[k] <= b
      BY <3>1, <3>3
    <3> QED
      BY <3>1, <3>2, <3>3
  <2>3. \A i \in 1..k : f[i] <= c
    <3> TAKE i \in 1..k
    <3>1. CASE i = k
      BY <2>2, <3>1
    <3>2. CASE i # k
      <4>1. i \in 1..(k - 1) /\ f[i] \in Nat
        BY <3>2
      <4> QED
        BY <2>1, <2>2, <4>1
    <3> QED
      BY <3>1, <3>2
  <2> QED
    BY <2>3
<1>3. \A k \in 0..n : k \in T
  <2> HIDE DEF T
  <2> QED
    BY <1>1, <1>2, Climb
<1>4. n \in T
  <2>1. n \in 0..n
    OBVIOUS
  <2> HIDE DEF T
  <2> QED
    BY <1>3, <2>1
<1> QED
  BY <1>4

\* So the largest of some of them is one of them.
LEMMA LargestOf ==
    ASSUME NEW n \in Nat, NEW f \in [1..n -> Nat], NEW K \in SUBSET (1..n), K # {}, NEW none
    PROVE  LET S == {f[k] : k \in K} IN Largest(S, none) \in S /\ \A k \in K : f[k] <= Largest(S, none)
<1> DEFINE S == {f[k] : k \in K}
<1>1. PICK b \in Nat : \A k \in 1..n : f[k] <= b
  BY Bounded
<1>2. S \in SUBSET (0..b) /\ S # {}
  <2>1. \A k \in K : f[k] \in 0..b
    <3> TAKE k \in K
    <3>1. k \in 1..n
      OBVIOUS
    <3>2. f[k] \in Nat /\ f[k] <= b
      BY <1>1, <3>1
    <3> QED
      BY <3>2
  <2> QED
    BY <2>1
<1>3. Largest(S, none) \in S /\ \A j \in S : j <= Largest(S, none)
  <2> HIDE DEF S
  <2> QED
    BY <1>2, LargestIs
<1> QED
  BY <1>3

\* sum adds the first numbers of s.
Summing(sum, s, n) ==
    /\ sum[0] = 0
    /\ \A k \in 1..n : sum[k] = sum[k - 1] + s[k]
    /\ \A k \in 0..n : sum[k] \in Nat

\* SumOf is the last value of such a function.
LEMMA SumGoes ==
    ASSUME NEW n \in Nat, NEW s \in [1..n -> Nat]
    PROVE  \E sum : Summing(sum, s, n) /\ SumOf(s) = sum[n]
<1>1. Len(s) = n
  OBVIOUS
<1>2. PICK Q : Q = Nat
  OBVIOUS
<1>3. PICK c \in Q : c = 0
  BY <1>2
<1> DEFINE step(v, k) == v + s[k]
           F == [k \in 1..n |-> [v \in Q |-> step(v, k)]]
           By(f) == f = [k \in 0..n |-> IF k = 0 THEN 0 ELSE f[k - 1] + s[k]]
           sum == CHOOSE f : By(f)
<1>4. ASSUME NEW k \in 1..n, NEW v \in Q PROVE step(v, k) \in Q
  BY <1>2
<1>5. F \in [1..n -> [Q -> Q]]
  <2> HIDE DEF step
  <2> QED
    BY <1>4
<1>6. PICK g : Iterates(g, c, F, n)
  <2> HIDE DEF F
  <2> QED
    BY IteratesExist
<1>7. Follows(g, c, F, n) /\ \A k \in 0..n : g[k] \in Q
  <2> HIDE DEF F
  <2> QED
    BY <1>5, <1>6, IteratesStep, IteratesIn
<1>8. By(g)
  <2> DEFINE d(k) == IF k = 0 THEN 0 ELSE g[k - 1] + s[k]
  <2>1. g = [k \in 0..n |-> g[k]]
    BY <1>6 DEF Iterates
  <2>2. ASSUME NEW k \in 0..n PROVE g[k] = d(k)
    <3>1. CASE k = 0
      BY <1>3, <1>7, <3>1 DEF Follows
    <3>2. CASE k # 0
      <4>1. k \in 1..n /\ k - 1 \in 0..n
        BY <3>2
      <4>2. g[k] = F[k][g[k - 1]] /\ g[k - 1] \in Q
        <5> HIDE DEF F
        <5> QED
          BY <1>7, <4>1 DEF Follows
      <4>3. g[k] = step(g[k - 1], k)
        <5> HIDE DEF step
        <5> QED
          BY <4>1, <4>2
      <4> QED
        BY <3>2, <4>3
    <3> QED
      BY <3>1, <3>2
  <2> HIDE DEF d
  <2>3. g = [k \in 0..n |-> d(k)]
    BY <2>1, <2>2
  <2> QED
    BY <2>3, Zenon DEF d
<1>9. By(sum)
  <2> HIDE DEF By
  <2> QED
    BY <1>8, Zenon
<1>10. SumOf(s) = sum[n]
  BY <1>1, Zenon DEF SumOf
<1>11. sum[0] = 0 /\ \A k \in 1..n : sum[k] = sum[k - 1] + s[k]
  <2> DEFINE e(f, k) == IF k = 0 THEN 0 ELSE f[k - 1] + s[k]
  <2>1. sum = [k \in 0..n |-> e(sum, k)]
    BY <1>9, Zenon
  <2> HIDE DEF e, sum
  <2>2. \A k \in 0..n : sum[k] = e(sum, k)
    BY <2>1
  <2> QED
    BY <2>2 DEF e
<1> HIDE DEF sum
<1>12. \A k \in 0..n : sum[k] \in Nat
  <2> DEFINE T == {k \in 0..n : sum[k] \in Nat}
  <2>1. 0 \in T
    BY <1>11
  <2>2. ASSUME NEW k \in 1..n, k - 1 \in T PROVE k \in T
    BY <1>11, <2>2
  <2> HIDE DEF T
  <2>3. \A k \in 0..n : k \in T
    BY <2>1, <2>2, Climb
  <2> QED
    BY <2>3 DEF T
<1>13. Summing(sum, s, n)
  BY <1>11, <1>12 DEF Summing
<1> QED
  BY <1>10, <1>13

\* n times a number.
LEMMA SumSame ==
    ASSUME NEW n \in Nat, NEW f \in Nat, NEW s \in [1..n -> Nat], \A k \in 1..n : s[k] = f
    PROVE  SumOf(s) = n * f
<1>1. PICK sum : Summing(sum, s, n) /\ SumOf(s) = sum[n]
  BY SumGoes
<1> DEFINE T == {k \in 0..n : sum[k] = k * f}
<1>2. 0 \in T
  BY <1>1 DEF Summing
<1>3. ASSUME NEW k \in 1..n, k - 1 \in T PROVE k \in T
  <2>1. sum[k] = (k - 1) * f + f
    BY <1>1, <1>3 DEF Summing
  <2>2. (k - 1) * f + f = k * f
    OBVIOUS
  <2> QED
    BY <2>1, <2>2
<1>4. \A k \in 0..n : k \in T
  <2> HIDE DEF T
  <2> QED
    BY <1>2, <1>3, Climb
<1> QED
  BY <1>1, <1>4

\* Rounding the mean of equal numbers gives the number.
LEMMA MeanIs ==
    ASSUME NEW t \in Nat, t > 0, NEW f \in Nat
    PROVE  (2 * (t * f) + t) \div (2 * t) = f
<1>1. PICK q \in Int : q = (2 * (t * f) + t) \div (2 * t)
  OBVIOUS
<1>2. (2 * t) * q <= 2 * (t * f) + t /\ 2 * (t * f) + t < (2 * t) * q + 2 * t
  BY <1>1
<1>3. q < f + 1
  BY <1>2
<1>4. q > f - 1
  BY <1>2
<1> QED
  BY <1>1, <1>3, <1>4

\* A rounded mean is a number.
LEMMA MeanNat ==
    ASSUME NEW t \in Nat, t > 0, NEW a \in Nat
    PROVE  (2 * a + t) \div (2 * t) \in Nat
OBVIOUS

-----------------------------------------------------------------------------
\* The rules of a plan.
LEMMA PlanRules ==
    ASSUME plan \in Plans
    PROVE  /\ plan.transforms \in Seq(Rules) /\ Len(plan.transforms) \in Nat
           /\ DOMAIN plan.transforms = 1..Len(plan.transforms)
           /\ \A k \in scale_rules : /\ k \in 1..Len(plan.transforms)
                                     /\ plan.transforms[k].factor \in Nat /\ plan.transforms[k].stagger \in Nat
           /\ \A g : IsFiniteSet(inject_rules(g)) /\ Cardinality(inject_rules(g)) \in Nat
<1>1. plan.transforms \in Seq(Rules)
  BY TransformAssumption
<1>2. Len(plan.transforms) \in Nat /\ DOMAIN plan.transforms = 1..Len(plan.transforms)
  BY <1>1
<1>3. ASSUME NEW k \in scale_rules
      PROVE  k \in 1..Len(plan.transforms) /\ plan.transforms[k].factor \in Nat /\ plan.transforms[k].stagger \in Nat
  <2>1. k \in 1..Len(plan.transforms) /\ plan.transforms[k].type = "scale"
    BY <1>2 DEF scale_rules
  <2>2. plan.transforms[k] \in Rules
    BY <1>1, <2>1, ElementOfSeq, Zenon
  <2> QED
    BY <2>1, <2>2 DEF Rules
<1>4. ASSUME NEW g PROVE IsFiniteSet(inject_rules(g)) /\ Cardinality(inject_rules(g)) \in Nat
  <2>1. inject_rules(g) \in SUBSET (1..Len(plan.transforms))
    BY <1>2 DEF inject_rules
  <2>2. IsFiniteSet(1..Len(plan.transforms))
    BY <1>2, FS_Interval
  <2> QED
    BY <2>1, <2>2, FS_Subset, FS_CardinalityType
<1> QED
  BY <1>1, <1>2, <1>3, <1>4

\* The statements that are injected by some rules for a group.
LEMMA TablesInjected ==
    ASSUME plan \in Plans, NEW g, NEW S \in SUBSET inject_rules(g)
    PROVE  TablesToInject(S) \in Seq(SUBSET Tables) /\ (TablesToInject(S) # << >> => S # {})
<1>1. PICK n \in Nat : n = Len(plan.transforms) /\ DOMAIN plan.transforms = 1..n
  BY PlanRules
<1>2. S \in SUBSET (1..n) /\ S \in SUBSET Nat /\ IsFiniteSet(S)
  <2>1. inject_rules(g) \in SUBSET (1..n) /\ IsFiniteSet(inject_rules(g))
    BY <1>1, PlanRules DEF inject_rules
  <2> QED
    BY <2>1, FS_Subset
<1>3. PICK m \in Nat : m = Cardinality(S)
  BY <1>2, FS_CardinalityType
<1>4. PICK list : list = Ordered(S) /\ list \in [1..m -> S]
  BY <1>2, <1>3, OrderedLists
<1>5. ASSUME NEW k \in 1..m PROVE plan.transforms[list[k]].tables \in SUBSET Tables
  <2>1. PICK i \in S : i = list[k]
    BY <1>4
  <2>2. i \in 1..n /\ plan.transforms[i].type = "inject"
    BY <1>2 DEF inject_rules
  <2>3. plan.transforms[i] \in Rules
    <3>1. plan.transforms \in Seq(Rules)
      BY PlanRules
    <3> QED
      BY <1>1, <2>2, <3>1, ElementOfSeq, Zenon
  <2>4. plan.transforms[i].tables \in SUBSET Tables
    BY <2>2, <2>3 DEF Rules
  <2> QED
    BY <2>1, <2>4
<1>6. PICK t : t = TablesToInject(S) /\ t = [k \in 1..m |-> plan.transforms[list[k]].tables]
  BY <1>3, <1>4 DEF TablesToInject
<1>7. t \in Seq(SUBSET Tables) /\ (m = 0 => t = << >>)
  <2>1. t \in [1..m -> SUBSET Tables]
    BY <1>5, <1>6
  <2>2. t \in Seq(SUBSET Tables) /\ Len(t) = m
    BY <2>1
  <2> QED
    BY <2>2
<1>8. S = {} => m = 0
  BY <1>3, FS_EmptySet
<1> QED
  BY <1>6, <1>7, <1>8

\* Factors are numbers, whatever the statement.
LEMMA FactorNat ==
    ASSUME plan \in Plans
    PROVE  \A q : FactorOf(q) \in Nat
<1>1. PICK n \in Nat : n = Len(plan.transforms) /\ \A k \in scale_rules : k \in 1..n /\ plan.transforms[k].factor \in Nat
  BY PlanRules
<1>2. ASSUME NEW g PROVE ScaleOf(g) \in Nat
  <2>1. PICK K : K = {k \in scale_rules : plan.transforms[k].group = g}
    OBVIOUS
  <2>2. ScaleRule(g) = Largest(K, 0)
    BY <2>1, Zenon DEF ScaleRule
  <2>3. CASE K = {}
    <3>1. ScaleRule(g) = 0
      BY <2>2, <2>3, Zenon DEF Largest
    <3> QED
      BY <3>1 DEF ScaleOf
  <2>4. CASE K # {}
    <3>1. K \in SUBSET (0..n)
      BY <1>1, <2>1
    <3>2. Largest(K, 0) \in K
      BY <2>4, <3>1, LargestIs
    <3>3. plan.transforms[ScaleRule(g)].factor \in Nat
      BY <1>1, <2>1, <2>2, <3>2
    <3> QED
      BY <3>3 DEF ScaleOf
  <2> QED
    BY <2>3, <2>4
<1> QED
  BY <1>2 DEF FactorOf

\* The delay of a copy is a number.
LEMMA StaggerNat ==
    ASSUME plan \in Plans
    PROVE  stagger_us \in Nat
<1>1. PICK n \in Nat : n = Len(plan.transforms) /\ \A k \in scale_rules : k \in 1..n /\ plan.transforms[k].stagger \in Nat
  BY PlanRules
<1>2. PICK K : K = {j \in scale_rules : ScaleRule(plan.transforms[j].group) = j}
  OBVIOUS
<1>3. K \in SUBSET (1..n) /\ K \subseteq scale_rules
  BY <1>1, <1>2
<1> DEFINE f0 == [k \in 1..n |-> IF k \in scale_rules THEN plan.transforms[k].stagger ELSE 0]
<1>4. PICK f : f = f0
  OBVIOUS
<1>5. f \in [1..n -> Nat] /\ \A k \in scale_rules : f[k] = plan.transforms[k].stagger
  BY <1>1, <1>4
<1>6. stagger_us = Largest({plan.transforms[k].stagger : k \in K}, 10)
  BY <1>2, Zenon DEF stagger_us
<1>7. {plan.transforms[k].stagger : k \in K} = {f[k] : k \in K}
  BY <1>3, <1>5
<1>8. CASE K = {}
  <2>1. {f[k] : k \in K} = {}
    BY <1>8
  <2> QED
    BY <1>6, <1>7, <2>1 DEF Largest
<1>9. CASE K # {}
  <2>1. Largest({f[k] : k \in K}, 10) \in {f[k] : k \in K}
    BY <1>3, <1>5, <1>9, LargestOf
  <2> QED
    BY <1>3, <1>5, <1>6, <1>7, <2>1
<1> QED
  BY <1>8, <1>9

\* How many copies are made is a number, and follows from the factor if it is
\* one for all statements.
LEMMA CopiesAre ==
    ASSUME plan \in Plans, NEW s, NEW n \in Nat, Len(s.queries) = n, DOMAIN s.queries = 1..n
    PROVE  /\ copies(s) \in Nat
           /\ n = 0 => copies(s) = 0
           /\ \A f \in Nat : n # 0 /\ (\A i \in 1..n : FactorOf(s.queries[i]) = f) =>
                copies(s) = IF f = 0 THEN 0 ELSE f - 1
<1> DEFINE factors0 == [i \in DOMAIN s.queries |-> FactorOf(s.queries[i])]
<1>1. PICK factors : factors = factors0
  OBVIOUS
<1>2. factors \in [1..n -> Nat] /\ \A i \in 1..n : factors[i] = FactorOf(s.queries[i])
  BY <1>1, FactorNat
<1>3. PICK a \in Nat : a = SumOf(factors)
  <2>1. PICK sum : Summing(sum, factors, n) /\ SumOf(factors) = sum[n]
    BY <1>2, SumGoes
  <2> QED
    BY <2>1 DEF Summing
<1>4. copies(s) = IF n = 0 \/ (2 * a + n) \div (2 * n) = 0 THEN 0 ELSE (2 * a + n) \div (2 * n) - 1
  BY <1>1, <1>3, Zenon DEF copies
<1>5. n # 0 => (2 * a + n) \div (2 * n) \in Nat
  BY MeanNat
<1>6. ASSUME NEW f \in Nat, n # 0, \A i \in 1..n : FactorOf(s.queries[i]) = f
      PROVE  copies(s) = IF f = 0 THEN 0 ELSE f - 1
  <2>1. a = n * f
    BY <1>2, <1>3, <1>6, SumSame
  <2>2. (2 * a + n) \div (2 * n) = f
    BY <1>6, <2>1, MeanIs
  <2> QED
    BY <1>4, <1>6, <2>2
<1>7. copies(s) \in Nat /\ (n = 0 => copies(s) = 0)
  <2>1. PICK q : q = (2 * a + n) \div (2 * n)
    OBVIOUS
  <2> QED
    BY <1>4, <1>5, <2>1
<1> QED
  BY <1>6, <1>7

-----------------------------------------------------------------------------
(***************************************************************************)
(* A session of the result.                                                *)
(***************************************************************************)
Outs == [of : Int, tables : SUBSET Tables, start : Nat, txn : Nat]

\* q has the statements S in order, and injected ones only behind those of I.
Holds(q, S, I) ==
    /\ q \in Seq(Outs)
    /\ \A n \in 1..Len(q) : q[n].of # Injected => q[n].of \in S
    /\ \A f \in S : \E n \in 1..Len(q) : q[n].of = f
    /\ \A m, n \in 1..Len(q) : m < n /\ q[m].of # Injected /\ q[n].of # Injected => q[m].of < q[n].of
    /\ \A n \in 1..Len(q) : q[n].of = Injected =>
         \E m \in 1..Len(q) : /\ m < n /\ q[m].of # Injected /\ q[m].of \in I
                              /\ \A i \in m + 1 .. n : q[i].of = Injected

\* What a session is extended by: f and m injected statements.
Insertion(t, f, m) ==
    /\ t \in Seq(Outs) /\ Len(t) = m + 1 /\ t[1].of = f
    /\ \A k \in 2 .. m + 1 : t[k].of = Injected

\* WithInjected is such an extension.
LEMMA InjectedAre ==
    ASSUME NEW f \in Nat, NEW e \in StatementType, NEW also \in Seq(SUBSET Tables), NEW m \in Nat, m = Len(also)
    PROVE  Insertion(WithInjected(f, e, also), f, m)
<1> DEFINE a == [of |-> f, tables |-> e.tables, start |-> e.start, txn |-> e.txn]
           b(k) == [of |-> Injected, tables |-> also[k], start |-> e.start + 1, txn |-> 0]
           s0 == [k \in 1..m |-> b(k)]
<1>1. a \in Outs /\ a.of = f /\ \A k \in 1..m : b(k) \in Outs /\ b(k).of = Injected
  <2>1. \A k \in 1..m : also[k] \in SUBSET Tables
    OBVIOUS
  <2> QED
    BY <2>1 DEF Outs, StatementType, Injected
<1>2. PICK s : s = s0
  OBVIOUS
<1>3. s \in Seq(Outs) /\ Len(s) = m /\ \A k \in 1..m : s[k] = b(k)
  <2> HIDE DEF a, b
  <2>1. s \in [1..m -> Outs]
    BY <1>1, <1>2
  <2> QED
    BY <1>2, <2>1
<1>4. PICK h : h = <<a>>
  OBVIOUS
<1>5. h \in Seq(Outs) /\ Len(h) = 1 /\ h[1] = a
  <2> HIDE DEF a
  <2> QED
    BY <1>1, <1>4
<1>6. PICK t : t = h \o s
  OBVIOUS
<1>7. t = WithInjected(f, e, also)
  BY <1>2, <1>4, <1>6, Zenon DEF WithInjected
<1>8. /\ t \in Seq(Outs) /\ Len(t) = m + 1
      /\ \A i \in 1 .. m + 1 : t[i] = IF i <= 1 THEN h[i] ELSE s[i - 1]
  <2> HIDE DEF a, b, s0
  <2>1. /\ h \o s \in Seq(Outs) /\ Len(h \o s) = Len(h) + Len(s)
        /\ \A i \in 1 .. Len(h) + Len(s) : (h \o s)[i] = IF i <= Len(h) THEN h[i] ELSE s[i - Len(h)]
    BY ONLY <1>3, <1>5, ConcatProperties
  <2>2. Len(h) = 1 /\ Len(s) = m /\ 1 + m = m + 1
    BY <1>3, <1>5
  <2> QED
    BY ONLY <1>6, <2>1, <2>2
<1>9. t[1].of = f
  BY <1>1, <1>5, <1>8
<1>10. ASSUME NEW k \in 2 .. m + 1 PROVE t[k].of = Injected
  <2>1. k - 1 \in 1..m /\ k \in 1 .. m + 1 /\ ~(k <= 1)
    OBVIOUS
  <2> HIDE DEF a, b
  <2> QED
    BY <1>1, <1>3, <1>8, <2>1
<1>11. Insertion(t, f, m)
  BY <1>8, <1>9, <1>10, Zenon DEF Insertion
<1> QED
  BY <1>7, <1>11, Zenon

\* One more statement, with or without injected ones.
LEMMA HoldsMore ==
    ASSUME NEW q, NEW S \in SUBSET Nat, NEW I, Holds(q, S, I), NEW f \in Nat, \A g \in S : g < f,
           NEW e \in StatementType, NEW also \in Seq(SUBSET Tables), also # << >> => f \in I
    PROVE  Holds(q \o WithInjected(f, e, also), S \cup {f}, I)
<1>0. PICK m \in Nat : m = Len(also) /\ (m > 0 => f \in I)
  OBVIOUS
<1>1. PICK t : t = WithInjected(f, e, also)
  OBVIOUS
<1>2. t \in Seq(Outs) /\ Len(t) = m + 1 /\ t[1].of = f /\ \A k \in 2 .. m + 1 : t[k].of = Injected
  <2>1. Insertion(t, f, m)
    BY <1>0, <1>1, InjectedAre
  <2> QED
    BY <2>1 DEF Insertion
<1>3. PICK n \in Nat : n = Len(q) /\ q \in Seq(Outs)
  BY DEF Holds
<1>4. PICK r : r = q \o t
  OBVIOUS
<1>5. /\ r \in Seq(Outs) /\ Len(r) = n + m + 1
      /\ \A i \in 1 .. n + m + 1 : r[i] = IF i <= n THEN q[i] ELSE t[i - n]
  <2>1. t \in Seq(Outs) /\ q \in Seq(Outs) /\ Len(t) = m + 1 /\ Len(q) = n
    BY <1>2, <1>3
  <2>2. /\ q \o t \in Seq(Outs) /\ Len(q \o t) = Len(q) + Len(t)
        /\ \A i \in 1 .. Len(q) + Len(t) : (q \o t)[i] = IF i <= Len(q) THEN q[i] ELSE t[i - Len(q)]
    BY ONLY <2>1, ConcatProperties
  <2>3. n + (m + 1) = n + m + 1
    OBVIOUS
  <2> QED
    BY ONLY <1>4, <2>1, <2>2, <2>3
<1>6. /\ \A i \in 1..n : r[i] = q[i] /\ i \in 1..Len(r)
      /\ n + 1 \in 1..Len(r) /\ r[n + 1].of = f
      /\ \A i \in 1..Len(r) : i > n + 1 => r[i].of = Injected
      /\ \A i \in 1..Len(r) : i \in 1..n \/ i = n + 1 \/ i > n + 1
  <2>1. \A i \in 1..n : r[i] = q[i] /\ i \in 1..Len(r)
    BY <1>5
  <2>2. n + 1 \in 1..Len(r) /\ r[n + 1].of = f
    <3>1. n + 1 \in 1 .. n + m + 1 /\ ~(n + 1 <= n) /\ (n + 1) - n = 1
      OBVIOUS
    <3> QED
      BY <1>2, <1>5, <3>1
  <2>3. ASSUME NEW i \in 1..Len(r), i > n + 1 PROVE r[i].of = Injected
    <3>1. i \in 1 .. n + m + 1 /\ ~(i <= n) /\ i - n \in 2 .. m + 1
      BY <1>5, <2>3
    <3> QED
      BY <1>2, <1>5, <3>1
  <2>4. \A i \in 1..Len(r) : i \in 1..n \/ i = n + 1 \/ i > n + 1
    BY <1>5
  <2> QED
    BY <2>1, <2>2, <2>3, <2>4
<1>7. f # Injected
  BY DEF Injected
<1>8. \A i \in 1..Len(r) : r[i].of # Injected => (i \in 1..n /\ q[i].of # Injected) \/ i = n + 1
  BY <1>6
<1>9. \A i \in 1..Len(r) : r[i].of # Injected => r[i].of \in S \cup {f}
  BY <1>3, <1>6, <1>8 DEF Holds
<1>10. \A g \in S \cup {f} : \E i \in 1..Len(r) : r[i].of = g
  <2> TAKE g \in S \cup {f}
  <2>1. CASE g = f
    BY <1>6, <2>1
  <2>2. CASE g \in S
    <3>1. PICK i \in 1..n : q[i].of = g
      BY <1>3, <2>2 DEF Holds
    <3> QED
      BY <1>6, <3>1
  <2> QED
    BY <2>1, <2>2
<1>11. ASSUME NEW i \in 1..Len(r), NEW j \in 1..Len(r), i < j, r[i].of # Injected, r[j].of # Injected
       PROVE  r[i].of < r[j].of
  <2>1. i \in 1..n /\ q[i].of # Injected /\ r[i] = q[i]
    <3>1. i # n + 1
      <4>1. j = n + 1 \/ j \in 1..n
        BY <1>8, <1>11
      <4> QED
        BY <1>11, <4>1
    <3> QED
      BY <1>6, <1>8, <1>11, <3>1
  <2>2. CASE j = n + 1
    <3>1. q[i].of \in S
      BY <1>3, <2>1 DEF Holds
    <3> QED
      BY <1>6, <2>1, <2>2, <3>1
  <2>3. CASE j # n + 1
    <3>1. j \in 1..n /\ q[j].of # Injected /\ r[j] = q[j]
      BY <1>6, <1>8, <1>11, <2>3
    <3> QED
      BY <1>3, <1>11, <2>1, <3>1 DEF Holds
  <2> QED
    BY <2>2, <2>3
<1>12. ASSUME NEW i \in 1..Len(r), r[i].of = Injected
       PROVE  \E j \in 1..Len(r) : /\ j < i /\ r[j].of # Injected /\ r[j].of \in I
                                   /\ \A k \in j + 1 .. i : r[k].of = Injected
  <2>1. CASE i \in 1..n
    <3>1. PICK j \in 1..n : /\ j < i /\ q[j].of # Injected /\ q[j].of \in I
                            /\ \A k \in j + 1 .. i : q[k].of = Injected
      BY <1>3, <1>6, <1>12, <2>1 DEF Holds
    <3>2. ASSUME NEW k \in j + 1 .. i PROVE r[k].of = Injected
      <4>1. k \in 1..n
        BY <2>1
      <4> QED
        BY <1>6, <3>1, <4>1
    <3> QED
      BY <1>6, <3>1, <3>2
  <2>2. CASE i \notin 1..n
    <3>1. i > n + 1
      BY <1>6, <1>7, <1>12, <2>2
    <3>2. m > 0
      BY <1>5, <3>1
    <3>3. \A k \in n + 2 .. i : r[k].of = Injected
      <4> TAKE k \in n + 2 .. i
      <4>1. k \in 1..Len(r) /\ k > n + 1
        BY <1>5
      <4> QED
        BY <1>6, <4>1
    <3>4. \A k \in (n + 1) + 1 .. i : k \in n + 2 .. i
      OBVIOUS
    <3> QED
      BY <1>0, <1>6, <1>7, <3>1, <3>2, <3>3, <3>4
  <2> QED
    BY <2>1, <2>2
<1>13. Holds(r, S \cup {f}, I)
  BY <1>5, <1>9, <1>10, <1>11, <1>12 DEF Holds
<1> QED
  BY <1>1, <1>4, <1>13

\* The first of a session is no injected one.
LEMMA FirstOwn ==
    ASSUME NEW q, NEW S, NEW I, Holds(q, S, I), Len(q) # 0
    PROVE  1 \in 1..Len(q) /\ q[1].of \in S /\ q[1].of # Injected
<1>1. Len(q) \in Nat /\ 1 \in 1..Len(q)
  BY DEF Holds
<1>2. \A m \in 1..Len(q) : ~(m < 1)
  BY <1>1
<1> QED
  BY <1>1, <1>2 DEF Holds

-----------------------------------------------------------------------------
\* A delayed session repeats it, later by the delay.
LEMMA DelayedAre ==
    ASSUME NEW s, s.queries \in Seq(Outs), Len(s.queries) # 0, NEW d \in Nat, NEW c, c.queries = Delayed(s.queries, d)
    PROVE  /\ c.queries \in Seq(Outs) /\ Repeats(c, s)
           /\ c.queries[1].start = s.queries[1].start + d
<1>1. PICK q \in Seq(Outs) : q = s.queries
  OBVIOUS
<1>2. PICK n \in Nat : n = Len(q) /\ n # 0
  BY <1>1
<1> DEFINE l(k) == [q[k] EXCEPT !.start = @ + d, !.txn = 0]
<1>3. ASSUME NEW k \in 1..n
      PROVE  /\ q[k] \in Outs /\ l(k) \in Outs
             /\ l(k).of = q[k].of /\ l(k).tables = q[k].tables /\ l(k).start = q[k].start + d
  <2>1. q[k] \in Outs
    BY <1>2
  <2>2. PICK e \in Outs : e = q[k]
    BY <2>1
  <2>3. e.start \in Nat /\ e.of \in Int /\ e = [of |-> e.of, tables |-> e.tables, start |-> e.start, txn |-> e.txn]
    BY DEF Outs
  <2>4. PICK x \in Nat : x = e.start + d
    BY <2>3
  <2>5. l(k) = [e EXCEPT !.start = x, !.txn = 0]
    BY <2>2, <2>4
  <2>6. [e EXCEPT !.start = x, !.txn = 0] \in Outs
    BY DEF Outs
  <2>7. /\ [e EXCEPT !.start = x, !.txn = 0].of = e.of /\ [e EXCEPT !.start = x, !.txn = 0].tables = e.tables
        /\ [e EXCEPT !.start = x, !.txn = 0].start = x
    BY DEF Outs
  <2> HIDE DEF l
  <2> QED
    BY <2>2, <2>4, <2>5, <2>6, <2>7
<1>4. PICK r : r = c.queries
  OBVIOUS
<1>5. r = [k \in 1..n |-> l(k)]
  <2>1. DOMAIN q = 1..n
    BY <1>2
  <2> QED
    BY <1>1, <1>4, <2>1 DEF Delayed
<1> HIDE DEF l
<1>6. r \in [1..n -> Outs] /\ \A k \in 1..n : r[k] = l(k)
  BY <1>3, <1>5
<1>7. r \in Seq(Outs) /\ Len(r) = n
  BY <1>6
<1>8. \A k \in 1..n : r[k].of = q[k].of /\ r[k].tables = q[k].tables /\ r[k].start = q[k].start + d
  BY <1>3, <1>6
<1>9. 1 \in 1..n /\ \A k \in 1..n : q[k].start \in Nat
  BY <1>2, <1>3 DEF Outs
<1>10. ASSUME NEW k \in 1..n PROVE r[k].start - r[1].start = q[k].start - q[1].start
  BY <1>8, <1>9
<1>11. q # << >>
  BY <1>2
<1>12. \A k \in DOMAIN q : /\ r[k].of = q[k].of /\ r[k].tables = q[k].tables
                            /\ r[k].start - r[1].start = q[k].start - q[1].start
  BY <1>2, <1>8, <1>10
<1>13. Repeats(c, s)
  BY <1>1, <1>2, <1>4, <1>7, <1>11, <1>12 DEF Repeats
<1> QED
  BY <1>1, <1>4, <1>7, <1>8, <1>9, <1>13

-----------------------------------------------------------------------------
(***************************************************************************)
(* The engine.                                                             *)
(***************************************************************************)
Results == [id : Nat, queries : Seq(Outs)]
Whole == Len(FlatQueries(source))
Seen == IF transforming = "queries" THEN copied.here ELSE Whole
KeptOf(k) == {f \in Places(source, k) : f < Seen /\ ~Gone(f)}
InvitedOf(k) == {f \in Places(source, k) : group_of(f) # 0 /\ inject_rules(group_of(f)) # {}}
Fresh == Largest({source[k].id : k \in DOMAIN source}, 0) + 1
Made == Len(source) + 1 .. Len(source) + copied.all
RepeatsOf(k) == {c \in Made : Repeats(modified[c], modified[k])}
CopiesSoFar(k) == IF k < copied.session THEN copies(modified[k]) ELSE IF k = copied.session THEN copied.here ELSE 0

Unread == {"unplanned", "analyzed"}
QueriesDone == {"copies", "sessions", "done"}

EngineType ==
    /\ source \in Workloads /\ plan \in Plans
    /\ transforming \in Unread \cup {"queries"} \cup QueriesDone
    /\ copied \in [session : Nat, all : Nat, here : Nat]
    /\ modified \in Seq(Results)
    /\ next_id \in Nat

\* Nothing is copied before the plan is read, and no session copied while its
\* statements are gone through.
QueriesInv ==
    /\ transforming \in Unread => copied.here = 0 /\ flat_index = 0
    /\ transforming = "queries" => copied.here <= Whole /\ flat_index = copied.here /\ Len(modified) = Len(source)
    /\ transforming \in Unread \cup {"queries"} => copied.session = 1 /\ copied.all = 0 /\ next_id = Fresh

\* The captured sessions, as far as their statements have been seen.
KeptInv ==
    transforming \notin Unread =>
        /\ Len(source) <= Len(modified)
        /\ \A k \in 1..Len(source) : modified[k].id = source[k].id /\ Holds(modified[k].queries, KeptOf(k), InvitedOf(k))

\* The copies, as far as sessions have been copied.
CopiesInv ==
    transforming \in QueriesDone =>
        /\ Len(source) + copied.all <= Len(modified)
        /\ \A c \in Made : \E k \in 1..Len(source) :
             /\ Len(modified[k].queries) # 0
             /\ modified[c].queries = Delayed(modified[k].queries, (c - Len(source)) * stagger_us)
        /\ \A k \in 1..Len(source) : Cardinality(RepeatsOf(k)) = CopiesSoFar(k)
        /\ copied.session # 0
        /\ copied.session <= Len(source) => copied.here <= copies(modified[copied.session])
        /\ transforming # "copies" => copied.session > Len(source)

\* The ids of what is added, and how much it is.
AddedInv ==
    transforming \in QueriesDone =>
        /\ \A c \in 1..Len(modified) : c > Len(source) => modified[c].id = Fresh + (c - Len(source) - 1)
        /\ next_id = Fresh + (Len(modified) - Len(source))
        /\ Len(modified) = Len(source) + copied.all + (IF transforming = "copies" THEN 0 ELSE Len(NewSessions))
        /\ transforming = "done" => metadata = [sessions |-> Len(modified), queries |-> Len(FlatQueries(modified))]

EngineInv == EngineType /\ QueriesInv /\ KeptInv /\ CopiesInv /\ AddedInv

\* A workload is a sequence of sessions, with ids of their own.
LEMMA SourceAre ==
    ASSUME source \in Workloads
    PROVE  /\ source \in Seq(SessionType) /\ Len(source) \in Nat /\ DOMAIN source = 1..Len(source)
           /\ Placed(source) /\ Whole \in Nat
           /\ \A j, k \in 1..Len(source) : source[j].id = source[k].id => j = k
           /\ Fresh \in Nat /\ \A k \in 1..Len(source) : source[k].id \in Nat /\ source[k].id < Fresh
<1>1. source \in Seq(SessionType)
  BY TransformAssumption DEF SessionType, StatementType
<1>2. PICK n \in Nat : n = Len(source) /\ DOMAIN source = 1..n
  BY <1>1
<1>3. Placed(source)
  BY <1>1, PlacesAre
<1>4. Whole \in Nat
  <2>1. FlatQueries(source) \in Seq(StatementType)
    BY <1>1, FlatType
  <2> QED
    BY <2>1 DEF Whole
<1>5. \A j, k \in 1..n : source[j].id = source[k].id => j = k
  BY <1>2, TransformAssumption
<1>6. \A k \in 1..n : source[k].id \in Nat
  <2>1. \A k \in 1..n : source[k] \in SessionType
    BY <1>1, <1>2
  <2> QED
    BY <2>1 DEF SessionType
<1>7. Fresh \in Nat /\ \A k \in 1..n : source[k].id < Fresh
  <2> DEFINE f0 == [k \in 1..n |-> source[k].id]
  <2>1. PICK f : f = f0
    OBVIOUS
  <2>2. f \in [1..n -> Nat] /\ \A k \in 1..n : f[k] = source[k].id
    BY <1>6, <2>1
  <2>3. PICK K : K = 1..n
    OBVIOUS
  <2>4. Fresh = Largest({f[k] : k \in K}, 0) + 1
    <3>1. {source[k].id : k \in DOMAIN source} = {f[k] : k \in K}
      BY <1>2, <2>2, <2>3
    <3> QED
      BY <3>1 DEF Fresh
  <2>5. CASE K = {}
    <3>1. {f[k] : k \in K} = {}
      BY <2>5
    <3>2. Largest({f[k] : k \in K}, 0) = 0
      BY <3>1, Zenon DEF Largest
    <3> QED
      BY <2>3, <2>4, <2>5, <3>2
  <2>6. CASE K # {}
    <3>1. K \in SUBSET (1..n)
      BY <2>3
    <3>2. PICK l : l = Largest({f[k] : k \in K}, 0)
      OBVIOUS
    <3>3. l \in {f[k] : k \in K} /\ \A k \in K : f[k] <= l
      BY <2>2, <2>6, <3>1, <3>2, LargestOf
    <3>4. l \in Nat
      BY <2>2, <3>1, <3>3
    <3>5. \A k \in 1..n : f[k] <= l /\ f[k] \in Nat
      BY <2>2, <2>3, <3>3
    <3>6. Fresh = l + 1
      BY <2>4, <3>2
    <3>7. \A k \in 1..n : source[k].id < l + 1
      <4> TAKE k \in 1..n
      <4>1. f[k] = source[k].id
        BY <2>2
      <4> QED
        BY <3>4, <3>5, <4>1
    <3> QED
      BY <3>4, <3>6, <3>7
  <2> QED
    BY <2>5, <2>6
<1> QED
  BY <1>1, <1>2, <1>3, <1>4, <1>5, <1>6, <1>7

\* What depends on the plan alone.
LEMMA PlanSame ==
    ASSUME UNCHANGED plan
    PROVE  /\ \A f : group_of(f)' = group_of(f) /\ Gone(f)' = Gone(f)
           /\ \A g : inject_rules(g)' = inject_rules(g)
           /\ stagger_us' = stagger_us /\ NewSessions' = NewSessions
<1>1. \A f : group_of(f)' = group_of(f)
  BY DEF group_of
<1>2. \A g : Removes(g)' = Removes(g)
  BY DEF Removes
<1>3. \A f : Gone(f)' = Gone(f)
  BY <1>1, <1>2 DEF Gone
<1>4. \A g : inject_rules(g)' = inject_rules(g)
  BY DEF inject_rules
<1>5. scale_rules' = scale_rules
  BY DEF scale_rules
<1>6. \A g : ScaleRule(g)' = ScaleRule(g)
  BY <1>5 DEF ScaleRule
<1>7. stagger_us' = stagger_us
  BY <1>5, <1>6 DEF stagger_us
<1>8. NewSessions' = NewSessions
  BY DEF NewSessions
<1> QED
  BY <1>1, <1>3, <1>4, <1>7, <1>8

\* What depends on the order of the groups as well.
LEMMA FactorSame ==
    ASSUME UNCHANGED <<source, plan, hash_order>>
    PROVE  \A s : copies(s)' = copies(s)
<1>3. \A q : affinity(q)' = affinity(q)
  BY DEF affinity
<1>4. scale_rules' = scale_rules
  BY DEF scale_rules
<1>5. \A g : ScaleRule(g)' = ScaleRule(g)
  BY <1>4 DEF ScaleRule
<1>6. \A g : ScaleOf(g)' = ScaleOf(g)
  BY <1>5 DEF ScaleOf
<1>7. \A q : FactorOf(q)' = FactorOf(q)
  BY <1>3, <1>6 DEF FactorOf
<1> QED
  BY <1>7 DEF copies

\* A session repeats one captured session only.
LEMMA RepeatsOne ==
    ASSUME EngineType, KeptInv, transforming \notin Unread, NEW j \in 1..Len(source), NEW k \in 1..Len(source),
           NEW c, Repeats(c, modified[j]), Repeats(c, modified[k])
    PROVE  j = k
<1>1. Placed(source)
  BY SourceAre DEF EngineType
<1>2. ASSUME NEW i \in 1..Len(source), Repeats(c, modified[i])
      PROVE  c.queries[1].of \in Places(source, i)
  <2>1. PICK q : q = modified[i].queries /\ Holds(q, KeptOf(i), InvitedOf(i))
    BY DEF KeptInv
  <2>2. q \in Seq(Outs) /\ q # << >> /\ \A n \in DOMAIN q : c.queries[n].of = q[n].of
    BY <1>2, <2>1 DEF Repeats, Holds
  <2>3. Len(q) \in Nat /\ Len(q) # 0 /\ DOMAIN q = 1..Len(q)
    BY <2>2, EmptySeq
  <2>4. 1 \in DOMAIN q /\ q[1].of \in KeptOf(i)
    BY <2>1, <2>3, FirstOwn
  <2> QED
    BY <2>2, <2>4 DEF KeptOf
<1>3. c.queries[1].of \in Places(source, j) /\ c.queries[1].of \in Places(source, k)
  BY <1>2
<1> QED
  BY <1>1, <1>3, PlaceOnce

\* What is kept and invited depends on workload and plan, and how far it is seen.
LEMMA PlacesSame ==
    ASSUME UNCHANGED <<source, plan>>
    PROVE  /\ \A k : InvitedOf(k)' = InvitedOf(k)
           /\ Seen' = Seen => \A k : KeptOf(k)' = KeptOf(k)
           /\ Whole' = Whole /\ Fresh' = Fresh
<1>1. /\ \A f : group_of(f)' = group_of(f) /\ Gone(f)' = Gone(f)
      /\ \A g : inject_rules(g)' = inject_rules(g)
  BY PlanSame
<1>2. \A k : InvitedOf(k)' = InvitedOf(k)
  BY <1>1 DEF InvitedOf
<1>3. ASSUME Seen' = Seen PROVE \A k : KeptOf(k)' = KeptOf(k)
  BY <1>1, <1>3 DEF KeptOf
<1>4. Whole' = Whole /\ Fresh' = Fresh
  BY DEF Whole, Fresh
<1> QED
  BY <1>2, <1>3, <1>4

\* Sessions that stay as they are.
LEMMA KeptStays ==
    ASSUME KeptInv, UNCHANGED <<source, plan>>, transforming \notin Unread, Seen' = Seen,
           Len(source) <= Len(modified'), \A k \in 1..Len(source) : modified'[k] = modified[k]
    PROVE  KeptInv'
<1>1. (\A k : InvitedOf(k)' = InvitedOf(k)) /\ (\A k : KeptOf(k)' = KeptOf(k))
  BY PlacesSame
<1> QED
  BY <1>1 DEF KeptInv

\* It holds at first.
LEMMA EngineInit == TransformInit => EngineInv
<1> SUFFICES ASSUME TransformInit PROVE EngineInv
  OBVIOUS
<1>1. /\ source \in Workloads /\ plan \in Plans /\ transforming = "unplanned" /\ flat_index = 0 /\ modified = << >>
      /\ copied = [session |-> 1, all |-> 0, here |-> 0] /\ next_id = Fresh
  BY DEF TransformInit, Fresh
<1>2. EngineType
  <2>1. Fresh \in Nat
    BY <1>1, SourceAre
  <2>2. modified \in Seq(Results)
    BY <1>1
  <2> QED
    BY <1>1, <2>1, <2>2 DEF EngineType, Unread
<1> QED
  BY <1>1, <1>2 DEF EngineInv, QueriesInv, KeptInv, CopiesInv, AddedInv, Unread, QueriesDone

\* The analysis changes nothing of the engine.
LEMMA AnalyzeEngine == EngineInv /\ Analyze => EngineInv'
<1> SUFFICES ASSUME EngineInv, Analyze PROVE EngineInv'
  OBVIOUS
<1>1. /\ transforming \in Unread /\ transforming' \in Unread
      /\ UNCHANGED <<source, plan, flat_index, modified, copied, next_id>>
  BY DEF Analyze, Unread
<1>2. EngineType'
  BY <1>1 DEF EngineInv, EngineType
<1>3. QueriesInv'
  <2>1. Fresh' = Fresh
    BY <1>1, PlacesSame
  <2> QED
    BY <1>1, <2>1 DEF EngineInv, QueriesInv, Unread
<1> QED
  BY <1>1, <1>2, <1>3 DEF EngineInv, KeptInv, CopiesInv, AddedInv, Unread, QueriesDone

\* When the plan is read every session is empty.
LEMMA ReadEngine == EngineInv /\ ReadPlan => EngineInv'
<1> SUFFICES ASSUME EngineInv, ReadPlan PROVE EngineInv'
  OBVIOUS
<1>1. /\ transforming \in Unread /\ transforming' = "queries"
      /\ modified' = [k \in DOMAIN source |-> [id |-> source[k].id, queries |-> << >>]]
      /\ UNCHANGED <<source, plan, flat_index, copied, next_id>>
  BY DEF ReadPlan, Unread
<1>2. source \in Workloads /\ EngineType
  BY DEF EngineInv, EngineType
<1>3. PICK n \in Nat : n = Len(source) /\ DOMAIN source = 1..n /\ \A k \in 1..n : source[k].id \in Nat
  BY <1>2, SourceAre
<1>4. << >> \in Seq(Outs) /\ Len(<< >>) = 0
  BY EmptySeq
<1>5. /\ modified' \in [1..n -> Results]
      /\ \A k \in 1..n : modified'[k].id = source[k].id /\ modified'[k].queries = << >>
  <2>1. \A k \in 1..n : [id |-> source[k].id, queries |-> << >>] \in Results
    BY <1>3, <1>4 DEF Results
  <2> QED
    BY <1>1, <1>3, <2>1
<1>6. modified' \in Seq(Results) /\ Len(modified') = n
  BY <1>5
<1>7. copied.here = 0 /\ flat_index = 0 /\ copied.session = 1 /\ copied.all = 0 /\ next_id = Fresh
  BY <1>1 DEF EngineInv, QueriesInv
<1>8. EngineType'
  BY <1>1, <1>2, <1>6 DEF EngineType, Unread
<1>9. Whole' = Whole /\ Fresh' = Fresh /\ Whole \in Nat /\ Placed(source)
  BY <1>1, <1>2, PlacesSame, SourceAre
<1>10. QueriesInv'
  BY <1>1, <1>3, <1>6, <1>7, <1>9 DEF QueriesInv, Unread
<1>11. ASSUME NEW k \in 1..n PROVE Holds(<< >>, KeptOf(k)', InvitedOf(k)')
  <2>1. Seen' = 0
    BY <1>1, <1>7 DEF Seen
  <2>2. \A f \in Places(source, k) : f \in Nat
    <3>1. Before(source, k) \in Nat
      BY <1>3, <1>9 DEF Placed
    <3> QED
      BY <3>1 DEF Places
  <2>3. KeptOf(k)' = {}
    BY <1>1, <2>1, <2>2 DEF KeptOf
  <2> QED
    BY <1>4, <2>3 DEF Holds
<1>12. KeptInv'
  BY <1>1, <1>3, <1>5, <1>6, <1>11 DEF KeptInv
<1> QED
  BY <1>1, <1>8, <1>10, <1>12 DEF EngineInv, CopiesInv, AddedInv, QueriesDone

\* When all statements have been seen, no session has been copied yet.
LEMMA EndQueries ==
    ASSUME EngineInv, TransformQuery, copied.here >= Whole
    PROVE  EngineInv'
<1>1. /\ transforming = "queries" /\ transforming' = "copies" /\ copied' = [copied EXCEPT !.here = 0]
      /\ UNCHANGED <<source, plan, modified, hash_order, next_id, metadata>>
  BY DEF TransformQuery, Whole
<1>2. EngineType /\ source \in Workloads /\ plan \in Plans
  BY DEF EngineInv, EngineType
<1>3. /\ Whole \in Nat /\ copied \in [session : Nat, all : Nat, here : Nat] /\ Len(source) \in Nat
  BY <1>2, SourceAre DEF EngineType
<1>4. copied.here = Whole /\ copied.session = 1 /\ copied.all = 0 /\ next_id = Fresh /\ Len(modified) = Len(source)
  BY <1>1, <1>3 DEF EngineInv, QueriesInv
<1>5. copied'.here = 0 /\ copied'.session = 1 /\ copied'.all = 0 /\ copied' \in [session : Nat, all : Nat, here : Nat]
  BY <1>1, <1>3, <1>4
<1>6. EngineType'
  BY <1>1, <1>2, <1>5 DEF EngineType, QueriesDone
<1>7. QueriesInv'
  BY <1>1 DEF QueriesInv, Unread
<1>8. Seen' = Seen
  BY <1>1, <1>4, PlacesSame DEF Seen
<1>9. KeptInv'
  BY <1>1, <1>3, <1>4, <1>8, KeptStays DEF EngineInv, Unread
<1>10. Made' = {}
  BY <1>1, <1>3, <1>5 DEF Made
<1>11. \A k : Cardinality(RepeatsOf(k)') = 0
  BY <1>10, FS_EmptySet DEF RepeatsOf
<1>12. ASSUME NEW k \in 1..Len(source) PROVE copies(modified[k])' \in Nat
  <2>1. \A s : copies(s)' = copies(s)
    BY <1>1, FactorSame
  <2>2. modified[k].queries \in Seq(Outs)
    BY <1>1 DEF EngineInv, KeptInv, Unread, Holds
  <2>3. copies(modified[k]) \in Nat
    <3>1. PICK m \in Nat : Len(modified[k].queries) = m /\ DOMAIN modified[k].queries = 1..m
      BY <2>2
    <3> QED
      BY <1>2, <3>1, CopiesAre
  <2> QED
    BY <1>1, <2>1, <2>3
<1>13. CopiesInv'
  <2>1. \A k \in 1..Len(source) : CopiesSoFar(k)' = 0
    BY <1>3, <1>5 DEF CopiesSoFar
  <2>2. copied'.session <= Len(source) => copied'.here <= copies(modified[copied.session])'
    <3>1. 1 <= Len(source) => 0 <= copies(modified[1])'
      BY <1>3, <1>12
    <3> QED
      BY <1>4, <1>5, <3>1
  <2> QED
    BY <1>1, <1>3, <1>4, <1>5, <1>10, <1>11, <2>1, <2>2 DEF CopiesInv, QueriesDone
<1>14. AddedInv'
  <2>1. Fresh' = Fresh
    BY <1>1, PlacesSame
  <2>2. Fresh \in Nat
    BY <1>2, SourceAre
  <2> QED
    BY <1>1, <1>3, <1>4, <1>5, <2>1, <2>2 DEF AddedInv
<1> QED
  BY <1>6, <1>7, <1>9, <1>13, <1>14 DEF EngineInv

\* One place more has been seen.
LEMMA KeptGrows ==
    ASSUME UNCHANGED <<source, plan>>, source \in Workloads, NEW seen \in Nat, Seen = seen, Seen' = seen + 1,
           NEW k \in 1..Len(source)
    PROVE  KeptOf(k)' = IF seen \in Places(source, k) /\ ~Gone(seen) THEN KeptOf(k) \cup {seen} ELSE KeptOf(k)
<1>1. \A f : Gone(f)' = Gone(f)
  BY PlanSame
<1>2. KeptOf(k)' = {f \in Places(source, k) : f < seen + 1 /\ ~Gone(f)}
  BY <1>1 DEF KeptOf
<1>3. KeptOf(k) = {f \in Places(source, k) : f < seen /\ ~Gone(f)}
  BY DEF KeptOf
<1>4. \A f \in Places(source, k) : f \in Int
  BY DEF Places
<1>5. \A f \in Places(source, k) : f < seen + 1 <=> f < seen \/ f = seen
  BY <1>4
<1>6. CASE seen \in Places(source, k) /\ ~Gone(seen)
  <2>1. KeptOf(k)' = KeptOf(k) \cup {seen}
    BY <1>2, <1>3, <1>5, <1>6
  <2> QED
    BY <1>6, <2>1
<1>7. CASE ~(seen \in Places(source, k) /\ ~Gone(seen))
  <2>1. KeptOf(k)' = KeptOf(k)
    BY <1>2, <1>3, <1>5, <1>7
  <2> QED
    BY <1>7, <2>1
<1> QED
  BY <1>6, <1>7

\* One statement is gone through.
LEMMA QueryEngine ==
    ASSUME EngineInv, TransformQuery, ~(copied.here >= Whole)
    PROVE  EngineInv'
<1>1. EngineType /\ source \in Workloads /\ plan \in Plans /\ transforming = "queries" /\ modified \in Seq(Results)
  BY DEF EngineInv, EngineType, TransformQuery
<1>2. /\ Whole \in Nat /\ Len(source) \in Nat /\ Placed(source) /\ source \in Seq(SessionType)
      /\ copied \in [session : Nat, all : Nat, here : Nat]
  BY <1>1, SourceAre DEF EngineType
<1>3. PICK seen \in Nat : seen = copied.here /\ seen < Whole
  BY <1>2
<1>4. /\ transforming' = "queries" /\ flat_index' = flat_index + 1 /\ copied' = [copied EXCEPT !.here = seen + 1]
      /\ UNCHANGED <<source, plan, hash_order, next_id, metadata>>
      /\ IF Gone(flat_index) THEN UNCHANGED modified
         ELSE \E yes \in SUBSET IF group_of(flat_index) = 0 THEN {} ELSE inject_rules(group_of(flat_index)) :
                modified' = [modified EXCEPT ![SessionAt(source, seen)].queries =
                                 @ \o WithInjected(seen, Original(source, seen), TablesToInject(yes))]
  BY <1>1, <1>3 DEF TransformQuery, Whole, next_flat
<1>5. flat_index = seen /\ copied.session = 1 /\ copied.all = 0 /\ next_id = Fresh /\ Len(modified) = Len(source)
  BY <1>1, <1>3 DEF EngineInv, QueriesInv
<1>6. /\ copied'.here = seen + 1 /\ copied'.session = 1 /\ copied'.all = 0
      /\ copied' \in [session : Nat, all : Nat, here : Nat]
  BY <1>2, <1>4, <1>5
<1>7. Seen = seen /\ Seen' = seen + 1 /\ Whole' = Whole /\ Fresh' = Fresh /\ \A k : InvitedOf(k)' = InvitedOf(k)
  BY <1>1, <1>3, <1>4, <1>6, PlacesSame DEF Seen
<1>8. \A k \in 1..Len(source) :
         KeptOf(k)' = IF seen \in Places(source, k) /\ ~Gone(seen) THEN KeptOf(k) \cup {seen} ELSE KeptOf(k)
  BY <1>1, <1>4, <1>7, KeptGrows
<1>9. \A k \in 1..Len(source) : modified[k].id = source[k].id /\ Holds(modified[k].queries, KeptOf(k), InvitedOf(k))
  BY <1>1 DEF EngineInv, KeptInv, Unread
<1>10. ASSUME modified' \in Seq(Results), Len(modified') = Len(source),
              \A k \in 1..Len(source) : /\ modified'[k].id = modified[k].id
                                        /\ Holds(modified'[k].queries, KeptOf(k)', InvitedOf(k))
       PROVE  EngineInv'
  <2>1. EngineType'
    <3>1. next_id' \in Nat
      BY <1>1, <1>4 DEF EngineType
    <3> QED
      BY <1>1, <1>4, <1>6, <1>10, <3>1 DEF EngineType
  <2>2. QueriesInv'
    BY <1>2, <1>3, <1>4, <1>5, <1>6, <1>7, <1>10 DEF QueriesInv, Unread
  <2>3. KeptInv'
    BY <1>2, <1>4, <1>7, <1>9, <1>10 DEF KeptInv
  <2>4. CopiesInv' /\ AddedInv'
    BY <1>4 DEF CopiesInv, AddedInv, QueriesDone
  <2> QED
    BY <2>1, <2>2, <2>3, <2>4 DEF EngineInv
<1>11. CASE Gone(seen)
  <2>1. modified' = modified
    BY <1>4, <1>5, <1>11
  <2>2. \A k \in 1..Len(source) : KeptOf(k)' = KeptOf(k)
    BY <1>8, <1>11
  <2> QED
    BY <1>1, <1>5, <1>9, <1>10, <2>1, <2>2
<1>12. CASE ~Gone(seen)
  <2>1. PICK yes \in SUBSET IF group_of(seen) = 0 THEN {} ELSE inject_rules(group_of(seen)) :
          modified' = [modified EXCEPT ![SessionAt(source, seen)].queries =
                           @ \o WithInjected(seen, Original(source, seen), TablesToInject(yes))]
    BY <1>4, <1>5, <1>12
  <2>2. PICK also : also = TablesToInject(yes)
    OBVIOUS
  <2>3. also \in Seq(SUBSET Tables) /\ (also # << >> => yes # {})
    <3>1. yes \in SUBSET inject_rules(group_of(seen))
      OBVIOUS
    <3> QED
      BY <1>1, <2>2, <3>1, TablesInjected
  <2>4. also # << >> => group_of(seen) # 0 /\ inject_rules(group_of(seen)) # {}
    BY <2>3
  <2>5. PICK k0 \in 1..Len(source) : k0 = SessionAt(source, seen) /\ seen \in Places(source, k0)
    BY <1>2, <1>3, PlaceFound DEF Whole
  <2>6. PICK e \in StatementType : e = Original(source, seen)
    BY <1>2, <1>3, PlaceFound DEF Whole
  <2>7. PICK q : q = modified[k0].queries /\ Holds(q, KeptOf(k0), InvitedOf(k0))
    BY <1>9
  <2>8. PICK r : r = q \o WithInjected(seen, e, also)
    OBVIOUS
  <2>9. Holds(r, KeptOf(k0) \cup {seen}, InvitedOf(k0))
    <3>1. KeptOf(k0) \in SUBSET Nat /\ \A f \in KeptOf(k0) : f < seen
      <4>1. \A f \in Places(source, k0) : f \in Nat
        <5>1. Before(source, k0) \in Nat
          BY <1>2 DEF Placed
        <5> QED
          BY <5>1 DEF Places
      <4> QED
        BY <1>7, <4>1 DEF KeptOf
    <3>2. also # << >> => seen \in InvitedOf(k0)
      BY <2>4, <2>5 DEF InvitedOf
    <3> QED
      BY <2>3, <2>7, <2>8, <3>1, <3>2, HoldsMore
  <2>10. modified' = [modified EXCEPT ![k0].queries = r]
    BY <2>1, <2>2, <2>5, <2>6, <2>7, <2>8, Zenon
  <2>11. r \in Seq(Outs)
    BY <2>9 DEF Holds
  <2>12. PICK x \in Results : x = modified[k0]
    <3>1. k0 \in 1..Len(modified)
      BY <1>5
    <3>2. modified[k0] \in Results
      BY <1>1, <3>1, ElementOfSeq, Zenon
    <3> QED
      BY <3>2
  <2>13. PICK y : y = [x EXCEPT !.queries = r]
    OBVIOUS
  <2>14. y \in Results /\ y.id = x.id /\ y.queries = r
    BY <2>11, <2>13 DEF Results
  <2>15. modified' = [modified EXCEPT ![k0] = y]
    BY <2>10, <2>12, <2>13, Zenon
  <2>16. /\ modified' \in Seq(Results) /\ Len(modified') = Len(modified)
         /\ modified'[k0] = y /\ \A k \in 1..Len(modified) : k # k0 => modified'[k] = modified[k]
    BY <1>1, <1>5, <2>14, <2>15
  <2>17. ASSUME NEW k \in 1..Len(source)
         PROVE  modified'[k].id = modified[k].id /\ Holds(modified'[k].queries, KeptOf(k)', InvitedOf(k))
    <3>1. CASE k = k0
      <4>1. KeptOf(k)' = KeptOf(k) \cup {seen}
        BY <1>8, <1>12, <2>5, <3>1
      <4> QED
        BY <2>9, <2>12, <2>14, <2>16, <3>1, <4>1
    <3>2. CASE k # k0
      <4>1. seen \notin Places(source, k)
        BY <1>2, <2>5, <3>2, PlaceOnce
      <4>2. KeptOf(k)' = KeptOf(k) /\ modified'[k] = modified[k]
        BY <1>5, <1>8, <2>16, <3>2, <4>1
      <4> QED
        BY <1>9, <4>2
    <3> QED
      BY <3>1, <3>2
  <2> QED
    BY <1>5, <1>10, <2>16, <2>17
<1> QED
  BY <1>11, <1>12

\* The number of copies of a captured session is a number, and none if it is empty.
LEMMA CopiesNat ==
    ASSUME EngineType, KeptInv, transforming \notin Unread, NEW k \in 1..Len(source)
    PROVE  copies(modified[k]) \in Nat /\ (Len(modified[k].queries) = 0 => copies(modified[k]) = 0)
<1>1. modified[k].queries \in Seq(Outs)
  BY DEF KeptInv, Holds
<1>2. PICK m \in Nat : Len(modified[k].queries) = m /\ DOMAIN modified[k].queries = 1..m
  BY <1>1
<1> QED
  BY <1>2, CopiesAre DEF EngineType

\* All copies of a session are made, and the next one is taken.
LEMMA NextSession ==
    ASSUME EngineInv, Duplicate, ~(copied.here < copies(modified[copied.session]))
    PROVE  EngineInv'
<1>1. /\ transforming = "copies" /\ transforming' = "copies" /\ copied.session <= Len(source)
      /\ copied' = [copied EXCEPT !.session = copied.session + 1, !.here = 0]
      /\ UNCHANGED <<source, plan, modified, hash_order, next_id, metadata>>
  BY DEF Duplicate
<1>2. EngineType /\ KeptInv /\ source \in Workloads /\ Len(source) \in Nat /\ transforming \notin Unread
  BY <1>1, SourceAre DEF EngineInv, EngineType, Unread
<1>3. PICK n \in Nat, a \in Nat, h \in Nat : copied = [session |-> n, all |-> a, here |-> h]
  BY <1>2 DEF EngineType
<1>4. copied' = [session |-> n + 1, all |-> a, here |-> 0]
  BY <1>1, <1>3
<1>5. n \in 1..Len(source) /\ n # 0 /\ h <= copies(modified[n]) /\ ~(h < copies(modified[n]))
  BY <1>1, <1>2, <1>3 DEF EngineInv, CopiesInv, QueriesDone
<1>6. h = copies(modified[n])
  BY <1>2, <1>5, CopiesNat
<1>7. EngineType'
  <2>1. copied' \in [session : Nat, all : Nat, here : Nat]
    BY <1>4
  <2> QED
    BY <1>1, <1>2, <2>1 DEF EngineType
<1>8. QueriesInv'
  BY <1>1 DEF QueriesInv, Unread
<1>9. Seen' = Seen
  BY <1>1, PlacesSame DEF Seen
<1>10. KeptInv'
  BY <1>1, <1>2, <1>9, KeptStays DEF KeptInv
<1>11. \A s : copies(s)' = copies(s)
  BY <1>1, FactorSame
<1>12. stagger_us' = stagger_us /\ NewSessions' = NewSessions /\ Fresh' = Fresh
  BY <1>1, PlanSame, PlacesSame
<1>13. Made' = Made /\ \A k : RepeatsOf(k)' = RepeatsOf(k)
  BY <1>1, <1>3, <1>4 DEF Made, RepeatsOf
<1>14. ASSUME NEW k \in 1..Len(source) PROVE CopiesSoFar(k)' = CopiesSoFar(k)
  <2>1. copies(modified[k])' = copies(modified[k])
    BY <1>1, <1>11
  <2>2. CopiesSoFar(k) = IF k < n THEN copies(modified[k]) ELSE IF k = n THEN h ELSE 0
    BY <1>3 DEF CopiesSoFar
  <2>3. CopiesSoFar(k)' = IF k < n + 1 THEN copies(modified[k]) ELSE 0
    BY <1>4, <2>1 DEF CopiesSoFar
  <2>4. CASE k < n
    BY <2>2, <2>3, <2>4
  <2>5. CASE k = n
    BY <1>6, <2>2, <2>3, <2>5
  <2>6. CASE k > n
    BY <2>2, <2>3, <2>6
  <2> QED
    BY <2>4, <2>5, <2>6
<1>15. CopiesInv'
  <2>1. /\ Len(source) + a <= Len(modified)
        /\ \A c \in Made : \E k \in 1..Len(source) :
             /\ Len(modified[k].queries) # 0
             /\ modified[c].queries = Delayed(modified[k].queries, (c - Len(source)) * stagger_us)
        /\ \A k \in 1..Len(source) : Cardinality(RepeatsOf(k)) = CopiesSoFar(k)
    BY <1>1, <1>3 DEF EngineInv, CopiesInv, QueriesDone
  <2>2. n + 1 <= Len(source) => 0 <= copies(modified[copied.session])'
    <3>1. ASSUME n + 1 <= Len(source) PROVE copies(modified[n + 1]) \in Nat
      BY <1>2, <3>1, CopiesNat
    <3>2. copied'.session = n + 1
      BY <1>4
    <3>3. copies(modified[copied.session])' = copies(modified[n + 1])
      BY <1>1, <1>11, <3>2
    <3> QED
      BY <3>1, <3>3
  <2>3. /\ Len(source') + copied'.all <= Len(modified')
        /\ copied'.session # 0
        /\ copied'.session <= Len(source') => copied'.here <= copies(modified[copied.session])'
    <3>1. copied'.session = n + 1 /\ copied'.here = 0 /\ copied'.all = a /\ n + 1 # 0
      BY <1>4
    <3>2. source' = source /\ modified' = modified
      BY <1>1
    <3>3. PICK x : x = copies(modified[copied.session])'
      OBVIOUS
    <3>4. copied'.session <= Len(source') => copied'.here <= x
      BY <2>2, <3>1, <3>2, <3>3, Zenon
    <3>5. Len(source') + copied'.all <= Len(modified')
      BY <2>1, <3>1, <3>2
    <3> QED
      BY <3>1, <3>3, <3>4, <3>5, Zenon
  <2>4. \A c \in Made' : \E k \in 1..Len(source') :
             /\ Len(modified'[k].queries) # 0
             /\ modified'[c].queries = Delayed(modified'[k].queries, (c - Len(source')) * stagger_us')
    BY <1>1, <1>12, <1>13, <2>1
  <2>5. \A k \in 1..Len(source') : Cardinality(RepeatsOf(k)') = CopiesSoFar(k)'
    BY <1>1, <1>13, <1>14, <2>1
  <2> QED
    BY <1>1, <2>3, <2>4, <2>5 DEF CopiesInv
<1>16. AddedInv'
  <2>1. /\ \A c \in 1..Len(modified) : c > Len(source) => modified[c].id = Fresh + (c - Len(source) - 1)
        /\ next_id = Fresh + (Len(modified) - Len(source))
        /\ Len(modified) = Len(source) + a + 0
    BY <1>1, <1>3 DEF EngineInv, AddedInv, QueriesDone
  <2>2. Len(modified) = Len(source) + a /\ copied'.all = a
    BY <1>2, <1>3, <1>4, <2>1
  <2>3. Len(modified') = Len(source') + copied'.all + 0
    BY <1>1, <1>2, <1>3, <2>2
  <2>4. /\ \A c \in 1..Len(modified') : c > Len(source') => modified'[c].id = Fresh' + (c - Len(source') - 1)
        /\ next_id' = Fresh' + (Len(modified') - Len(source'))
    BY <1>1, <1>12, <2>1
  <2> QED
    BY <1>1, <2>3, <2>4 DEF AddedInv
<1> QED
  BY <1>7, <1>8, <1>10, <1>15, <1>16 DEF EngineInv

\* One more copy of a session.
LEMMA OneCopy ==
    ASSUME EngineInv, Duplicate, copied.here < copies(modified[copied.session])
    PROVE  EngineInv'
<1>1. /\ transforming = "copies" /\ transforming' = "copies" /\ copied.session <= Len(source)
      /\ modified' = Append(modified, [id |-> next_id,
             queries |-> Delayed(modified[copied.session].queries, (copied.all + 1) * stagger_us)])
      /\ next_id' = next_id + 1
      /\ copied' = [copied EXCEPT !.all = copied.all + 1, !.here = copied.here + 1]
      /\ UNCHANGED <<source, plan, hash_order, metadata>>
  BY DEF Duplicate
<1>2. EngineType /\ KeptInv /\ source \in Workloads /\ plan \in Plans /\ Len(source) \in Nat /\ transforming \notin Unread
  BY <1>1, SourceAre DEF EngineInv, EngineType, Unread
<1>3. PICK n \in Nat, a \in Nat, h \in Nat : copied = [session |-> n, all |-> a, here |-> h]
  BY <1>2 DEF EngineType
<1>4. copied' = [session |-> n, all |-> a + 1, here |-> h + 1]
  BY <1>1, <1>3
<1>5. n \in 1..Len(source) /\ h < copies(modified[n])
  BY <1>1, <1>2, <1>3 DEF EngineInv, CopiesInv, QueriesDone
<1>6. copies(modified[n]) \in Nat /\ Len(modified[n].queries) # 0
  BY <1>2, <1>5, CopiesNat
<1>7. PICK d \in Nat : d = (a + 1) * stagger_us
  <2>1. stagger_us \in Nat
    BY <1>2, StaggerNat
  <2> QED
    BY <2>1
<1>8. PICK new : new = [id |-> next_id, queries |-> Delayed(modified[n].queries, d)]
  OBVIOUS
<1>9. new.queries \in Seq(Outs) /\ Repeats(new, modified[n])
  <2>1. modified[n].queries \in Seq(Outs)
    BY <1>2, <1>5 DEF KeptInv, Holds
  <2>2. new.queries = Delayed(modified[n].queries, d)
    BY <1>8
  <2> QED
    BY <1>6, <2>1, <2>2, DelayedAre
<1>10. /\ modified' = Append(modified, new) /\ new \in Results /\ new.id = next_id /\ modified \in Seq(Results)
  <2>1. modified' = Append(modified, new)
    BY <1>1, <1>3, <1>7, <1>8
  <2>2. next_id \in Nat /\ modified \in Seq(Results)
    BY <1>2 DEF EngineType
  <2>3. new = [id |-> next_id, queries |-> new.queries]
    BY <1>8
  <2> QED
    BY <1>9, <2>1, <2>2, <2>3 DEF Results
<1>11. PICK c0 \in Nat : c0 = Len(source) + a + 1 /\ c0 = Len(modified) + 1
  BY <1>1, <1>2, <1>3 DEF EngineInv, AddedInv, QueriesDone
<1>12. /\ modified' \in Seq(Results) /\ Len(modified') = c0 /\ modified'[c0] = new
       /\ \A c \in 1 .. c0 - 1 : modified'[c] = modified[c]
  BY <1>10, <1>11
<1>13. EngineType'
  <2>1. copied' \in [session : Nat, all : Nat, here : Nat]
    BY <1>4
  <2>2. next_id' \in Nat
    BY <1>1, <1>2 DEF EngineType
  <2> QED
    BY <1>1, <1>2, <1>12, <2>1, <2>2 DEF EngineType
<1>14. QueriesInv'
  BY <1>1 DEF QueriesInv, Unread
<1>15. \A k \in 1..Len(source) : modified'[k] = modified[k] /\ k \in 1 .. c0 - 1
  BY <1>2, <1>11, <1>12
<1>16. KeptInv'
  <2>1. Seen' = Seen
    BY <1>1, PlacesSame DEF Seen
  <2>2. Len(source) <= Len(modified')
    BY <1>2, <1>11, <1>12
  <2> QED
    BY <1>1, <1>2, <1>15, <2>1, <2>2, KeptStays
<1>17. \A s : copies(s)' = copies(s)
  BY <1>1, FactorSame
<1>18. stagger_us' = stagger_us /\ NewSessions' = NewSessions /\ Fresh' = Fresh
  BY <1>1, PlanSame, PlacesSame
<1>19. /\ Made = Len(source) + 1 .. c0 - 1 /\ Made' = Made \cup {c0} /\ c0 \notin Made
       /\ \A c \in Made : modified'[c] = modified[c]
  <2>1. Made = Len(source) + 1 .. Len(source) + a
    BY <1>3 DEF Made
  <2>2. Made' = Len(source) + 1 .. Len(source) + (a + 1)
    <3>1. copied'.all = a + 1
      BY <1>4
    <3>2. source' = source
      BY <1>1
    <3> QED
      BY <3>1, <3>2, Zenon DEF Made
  <2> QED
    BY <1>2, <1>11, <1>12, <2>1, <2>2
<1>20. ASSUME NEW k \in 1..Len(source)
       PROVE  RepeatsOf(k)' = IF k = n THEN RepeatsOf(k) \cup {c0} ELSE RepeatsOf(k)
  <2>1. RepeatsOf(k)' = {c \in Made \cup {c0} : Repeats(modified'[c], modified[k])}
    BY <1>15, <1>19 DEF RepeatsOf
  <2>2. RepeatsOf(k) = {c \in Made : Repeats(modified[c], modified[k])}
    BY DEF RepeatsOf
  <2>3. Repeats(new, modified[k]) <=> k = n
    BY <1>2, <1>5, <1>9, RepeatsOne
  <2>4. \A c \in Made : Repeats(modified'[c], modified[k]) <=> Repeats(modified[c], modified[k])
    BY <1>19
  <2>5. Repeats(modified'[c0], modified[k]) <=> k = n
    BY <1>12, <2>3
  <2> QED
    BY <2>1, <2>2, <2>4, <2>5
<1>21. ASSUME NEW k \in 1..Len(source) PROVE Cardinality(RepeatsOf(k)') = CopiesSoFar(k)'
  <2>1. copies(modified[k])' = copies(modified[k])
    BY <1>15, <1>17
  <2>2. CopiesSoFar(k) = IF k < n THEN copies(modified[k]) ELSE IF k = n THEN h ELSE 0
    BY <1>3 DEF CopiesSoFar
  <2>3. CopiesSoFar(k)' = IF k < n THEN copies(modified[k]) ELSE IF k = n THEN h + 1 ELSE 0
    BY <1>4, <2>1 DEF CopiesSoFar
  <2>4. Cardinality(RepeatsOf(k)) = CopiesSoFar(k)
    BY <1>1 DEF EngineInv, CopiesInv, QueriesDone
  <2>5. CASE k = n
    <3>1. IsFiniteSet(RepeatsOf(k)) /\ c0 \notin RepeatsOf(k)
      <4>1. IsFiniteSet(Made)
        BY <1>2, <1>11, <1>19, FS_Interval
      <4>2. RepeatsOf(k) \in SUBSET Made
        BY DEF RepeatsOf
      <4> QED
        BY <1>19, <4>1, <4>2, FS_Subset
    <3>2. Cardinality(RepeatsOf(k) \cup {c0}) = Cardinality(RepeatsOf(k)) + 1
      BY <3>1, FS_AddElement
    <3>3. RepeatsOf(k)' = RepeatsOf(k) \cup {c0}
      BY <1>20, <2>5
    <3>4. CopiesSoFar(k) = h /\ CopiesSoFar(k)' = h + 1
      BY <1>5, <2>2, <2>3, <2>5
    <3>5. Cardinality(RepeatsOf(k)') = Cardinality(RepeatsOf(k)) + 1
      BY <3>2, <3>3, Zenon
    <3> QED
      BY <2>4, <3>4, <3>5
  <2>6. CASE k # n
    BY <1>20, <2>2, <2>3, <2>4, <2>6
  <2> QED
    BY <2>5, <2>6
<1>22. CopiesInv'
  <2>1. copied'.session = n /\ copied'.here = h + 1 /\ copied'.all = a + 1
    BY <1>4
  <2>2. Len(source') + copied'.all <= Len(modified')
    BY <1>1, <1>2, <1>11, <1>12, <2>1
  <2>3. copied'.session # 0 /\ (copied'.session <= Len(source') => copied'.here <= copies(modified[copied.session])')
    <3>1. copies(modified[copied.session])' = copies(modified[n])
      BY <1>5, <1>15, <1>17, <2>1
    <3>2. h + 1 <= copies(modified[n])
      BY <1>5, <1>6
    <3> QED
      BY <1>5, <2>1, <3>1, <3>2
  <2>4. ASSUME NEW c \in Made'
        PROVE  \E k \in 1..Len(source) :
                 /\ Len(modified'[k].queries) # 0
                 /\ modified'[c].queries = Delayed(modified'[k].queries, (c - Len(source)) * stagger_us)
    <3>1. CASE c = c0
      <4>1. c0 - Len(source) = a + 1
        BY <1>2, <1>11
      <4>2. modified'[c].queries = Delayed(modified[n].queries, d)
        BY <1>8, <1>12, <3>1
      <4>3. modified'[n] = modified[n]
        BY <1>5, <1>15
      <4> QED
        BY <1>5, <1>6, <1>7, <3>1, <4>1, <4>2, <4>3
    <3>2. CASE c # c0
      <4>1. c \in Made /\ modified'[c] = modified[c]
        BY <1>19, <3>2
      <4>2. PICK k \in 1..Len(source) :
              /\ Len(modified[k].queries) # 0
              /\ modified[c].queries = Delayed(modified[k].queries, (c - Len(source)) * stagger_us)
        BY <1>1, <4>1 DEF EngineInv, CopiesInv, QueriesDone
      <4> QED
        BY <1>15, <4>1, <4>2
    <3> QED
      BY <3>1, <3>2
  <2>5. \A c \in Made' : \E k \in 1..Len(source') :
             /\ Len(modified'[k].queries) # 0
             /\ modified'[c].queries = Delayed(modified'[k].queries, (c - Len(source')) * stagger_us')
    BY <1>1, <1>18, <2>4
  <2>6. \A k \in 1..Len(source') : Cardinality(RepeatsOf(k)') = CopiesSoFar(k)'
    BY <1>1, <1>21
  <2> QED
    BY <1>1, <2>2, <2>3, <2>5, <2>6 DEF CopiesInv
<1>23. AddedInv'
  <2>1. /\ \A c \in 1..Len(modified) : c > Len(source) => modified[c].id = Fresh + (c - Len(source) - 1)
        /\ next_id = Fresh + (Len(modified) - Len(source))
    BY <1>1 DEF EngineInv, AddedInv, QueriesDone
  <2>2. Fresh \in Nat
    BY <1>2, SourceAre
  <2>3. copied'.all = a + 1
    BY <1>4
  <2>4. Len(modified') = Len(source') + copied'.all + 0
    BY <1>1, <1>2, <1>11, <1>12, <2>3
  <2>5. next_id' = Fresh' + (Len(modified') - Len(source'))
    BY <1>1, <1>2, <1>11, <1>12, <1>18, <2>1, <2>2
  <2>6. ASSUME NEW c \in 1..Len(modified'), c > Len(source)
        PROVE  modified'[c].id = Fresh + (c - Len(source) - 1)
    <3>1. CASE c = c0
      BY <1>2, <1>10, <1>11, <1>12, <2>1, <2>2, <3>1
    <3>2. CASE c # c0
      <4>1. c \in 1 .. c0 - 1 /\ c \in 1..Len(modified)
        BY <1>11, <1>12, <3>2
      <4> QED
        BY <1>12, <2>1, <2>6, <4>1
    <3> QED
      BY <3>1, <3>2
  <2> QED
    BY <1>1, <1>18, <2>4, <2>5, <2>6 DEF AddedInv
<1> QED
  BY <1>13, <1>14, <1>16, <1>22, <1>23 DEF EngineInv

\* The sessions of the rules that add some.
LEMMA NewType ==
    ASSUME plan \in Plans
    PROVE  NewSessions \in Seq(Seq(Outs))
<1> DEFINE made(r) == [i \in 1..r.repeat |-> [k \in 1..r.length |->
                         [of |-> Injected, tables |-> {}, start |-> (i - 1) * r.interval + k - 1, txn |-> 0]]]
           news == [k \in DOMAIN plan.transforms |->
                      IF plan.transforms[k].type = "inject_session" THEN made(plan.transforms[k]) ELSE << >>]
<1>1. PICK n \in Nat : n = Len(plan.transforms) /\ DOMAIN plan.transforms = 1..n
  BY PlanRules
<1>2. PICK S : S = Seq(Outs)
  OBVIOUS
<1>3. ASSUME NEW k \in 1..n, plan.transforms[k].type = "inject_session" PROVE made(plan.transforms[k]) \in Seq(S)
  <2>1. PICK r : r = plan.transforms[k]
    OBVIOUS
  <2>2. r.repeat \in Nat /\ r.length \in Nat /\ r.interval \in Nat
    <3>1. plan.transforms \in Seq(Rules)
      BY PlanRules
    <3>2. r \in Rules
      BY <1>1, <2>1, <3>1, ElementOfSeq, Zenon
    <3> QED
      BY <1>3, <2>1, <3>2 DEF Rules
  <2>3. ASSUME NEW i \in 1..r.repeat
        PROVE  [j \in 1..r.length |-> [of |-> Injected, tables |-> {}, start |-> (i - 1) * r.interval + j - 1, txn |-> 0]] \in S
    <3>1. PICK b \in Nat : b = (i - 1) * r.interval
      BY <2>2
    <3>2. ASSUME NEW j \in 1..r.length PROVE [of |-> Injected, tables |-> {}, start |-> b + j - 1, txn |-> 0] \in Outs
      BY <2>2 DEF Outs, Injected
    <3>3. [j \in 1..r.length |-> [of |-> Injected, tables |-> {}, start |-> b + j - 1, txn |-> 0]] \in [1..r.length -> Outs]
      BY <3>2
    <3>4. [j \in 1..r.length |-> [of |-> Injected, tables |-> {}, start |-> b + j - 1, txn |-> 0]] \in Seq(Outs)
      <4>1. PICK l \in Nat : l = r.length
        BY <2>2
      <4>2. PICK f : f = [j \in 1..r.length |-> [of |-> Injected, tables |-> {}, start |-> b + j - 1, txn |-> 0]]
        OBVIOUS
      <4>3. f \in [1..l -> Outs]
        BY <3>3, <4>1, <4>2
      <4>4. f \in Seq(Outs)
        BY <4>3
      <4> QED
        BY <4>2, <4>4
    <3> QED
      BY <1>2, <3>1, <3>4
  <2>4. made(r) \in [1..r.repeat -> S]
    BY <2>3
  <2> HIDE DEF made
  <2>5. made(r) \in Seq(S)
    BY <2>2, <2>4
  <2> QED
    BY <2>1, <2>5
<1>4. news \in [1..n -> Seq(S)]
  <2>1. << >> \in Seq(S)
    OBVIOUS
  <2> HIDE DEF made
  <2> QED
    BY <1>1, <1>3, <2>1
<1>5. PICK seqs : seqs = news
  OBVIOUS
<1>6. seqs \in Seq(Seq(S))
  <2> HIDE DEF news
  <2> QED
    BY <1>4, <1>5
<1>7. FlattenSeq(seqs) \in Seq(S)
  BY <1>6, FlattenType
<1>8. NewSessions = FlattenSeq(seqs)
  BY <1>5, Zenon DEF NewSessions
<1> QED
  BY <1>2, <1>7, <1>8

\* The sessions the plan adds go behind the copies.
LEMMA InjectEngine == EngineInv /\ InjectSessions => EngineInv'
<1> SUFFICES ASSUME EngineInv, InjectSessions PROVE EngineInv'
  OBVIOUS
<1>1. /\ transforming = "copies" /\ transforming' = "sessions" /\ copied.session > Len(source)
      /\ modified' = modified \o [k \in DOMAIN NewSessions |-> [id |-> next_id + k - 1, queries |-> NewSessions[k]]]
      /\ next_id' = next_id + Len(NewSessions)
      /\ UNCHANGED <<source, plan, hash_order, copied>>
  BY DEF InjectSessions
<1>2. EngineType /\ KeptInv /\ source \in Workloads /\ plan \in Plans /\ Len(source) \in Nat /\ transforming \notin Unread
  BY <1>1, SourceAre DEF EngineInv, EngineType, Unread
<1>3. next_id \in Nat /\ modified \in Seq(Results) /\ copied \in [session : Nat, all : Nat, here : Nat]
  BY <1>2 DEF EngineType
<1>4. PICK S : S = Seq(Outs)
  OBVIOUS
<1>5. PICK news \in Seq(S) : news = NewSessions
  BY <1>2, <1>4, NewType
<1>6. PICK n \in Nat, m \in Nat : n = Len(modified) /\ m = Len(news) /\ DOMAIN news = 1..m
  BY <1>3, <1>5
<1>7. PICK t : t = [k \in 1..m |-> [id |-> next_id + k - 1, queries |-> news[k]]]
  OBVIOUS
<1>8. /\ t \in Seq(Results) /\ Len(t) = m
      /\ \A k \in 1..m : t[k].id = next_id + k - 1
  <2>1. ASSUME NEW k \in 1..m PROVE [id |-> next_id + k - 1, queries |-> news[k]] \in Results
    <3>1. news[k] \in S
      BY <1>5, <1>6
    <3>2. next_id + k - 1 \in Nat
      BY <1>3
    <3> QED
      BY <1>4, <3>1, <3>2 DEF Results
  <2>2. t \in [1..m -> Results] /\ \A k \in 1..m : t[k] = [id |-> next_id + k - 1, queries |-> news[k]]
    BY <1>7, <2>1
  <2> QED
    BY <2>2
<1>9. modified' = modified \o t
  BY <1>1, <1>5, <1>6, <1>7
<1>10. /\ modified' \in Seq(Results) /\ Len(modified') = n + m
       /\ \A i \in 1 .. n + m : modified'[i] = IF i <= n THEN modified[i] ELSE t[i - n]
  <2>1. /\ modified \o t \in Seq(Results) /\ Len(modified \o t) = Len(modified) + Len(t)
        /\ \A i \in 1 .. Len(modified) + Len(t) : (modified \o t)[i] = IF i <= Len(modified) THEN modified[i] ELSE t[i - Len(modified)]
    BY ONLY <1>3, <1>8, ConcatProperties
  <2> QED
    BY <1>6, <1>8, <1>9, <2>1
<1>11. /\ Len(source) + copied.all = n /\ next_id = Fresh + (n - Len(source))
       /\ \A c \in 1..n : c > Len(source) => modified[c].id = Fresh + (c - Len(source) - 1)
  <2>1. AddedInv /\ transforming = "copies" /\ transforming \in QueriesDone
    BY <1>1 DEF EngineInv, QueriesDone
  <2>2. /\ Len(modified) = Len(source) + copied.all + 0
        /\ next_id = Fresh + (Len(modified) - Len(source))
        /\ \A c \in 1..Len(modified) : c > Len(source) => modified[c].id = Fresh + (c - Len(source) - 1)
    BY <2>1 DEF AddedInv
  <2>3. Len(source) \in Nat /\ copied.all \in Nat
    BY <1>2, SourceAre DEF EngineType
  <2> QED
    BY <1>6, <2>2, <2>3
<1>12. copied.all \in Nat /\ Len(source) <= n
  BY <1>2, <1>3, <1>11
<1>13. EngineType'
  <2>1. next_id' \in Nat
    BY <1>1, <1>3, <1>5, <1>6
  <2> QED
    BY <1>1, <1>2, <1>3, <1>10, <2>1 DEF EngineType, QueriesDone
<1>14. QueriesInv'
  BY <1>1 DEF QueriesInv, Unread
<1>15. \A k \in 1..n : modified'[k] = modified[k]
  BY <1>10
<1>16. \A k \in 1..Len(source) : k \in 1..n /\ modified'[k] = modified[k]
  BY <1>2, <1>12, <1>15
<1>17. KeptInv'
  <2>1. Seen' = Seen
    BY <1>1, PlacesSame DEF Seen
  <2>2. Len(source) <= Len(modified')
    BY <1>2, <1>10, <1>12
  <2> QED
    BY <1>1, <1>2, <1>16, <2>1, <2>2, KeptStays
<1>18. stagger_us' = stagger_us /\ NewSessions' = NewSessions /\ Fresh' = Fresh
  BY <1>1, PlanSame, PlacesSame
<1>19. /\ Made' = Made /\ \A c \in Made : c \in 1..n
       /\ \A k \in 1..Len(source) : RepeatsOf(k)' = RepeatsOf(k)
  <2>1. Made' = Made
    BY <1>1 DEF Made
  <2>2. \A c \in Made : c \in 1..n
    BY <1>2, <1>11, <1>12 DEF Made
  <2> QED
    BY <1>15, <1>16, <2>1, <2>2 DEF RepeatsOf
<1>20. CopiesInv'
  <2>1. Len(source') + copied'.all <= Len(modified') /\ copied'.session # 0 /\ copied'.session > Len(source')
    <3>1. copied.session # 0
      BY <1>1 DEF EngineInv, CopiesInv, QueriesDone
    <3> QED
      BY <1>1, <1>2, <1>10, <1>11, <1>12, <3>1
  <2>2. \A c \in Made' : \E k \in 1..Len(source') :
             /\ Len(modified'[k].queries) # 0
             /\ modified'[c].queries = Delayed(modified'[k].queries, (c - Len(source')) * stagger_us')
    <3>1. \A c \in Made : \E k \in 1..Len(source) :
             /\ Len(modified[k].queries) # 0
             /\ modified[c].queries = Delayed(modified[k].queries, (c - Len(source)) * stagger_us)
      BY <1>1 DEF EngineInv, CopiesInv, QueriesDone
    <3> QED
      BY <1>1, <1>15, <1>16, <1>18, <1>19, <3>1
  <2>3. ASSUME NEW k \in 1..Len(source) PROVE Cardinality(RepeatsOf(k)') = CopiesSoFar(k)'
    <3>1. Cardinality(RepeatsOf(k)) = CopiesSoFar(k)
      BY <1>1 DEF EngineInv, CopiesInv, QueriesDone
    <3>2. copies(modified[k])' = copies(modified[k])
      BY <1>1, <1>16, FactorSame
    <3>3. CopiesSoFar(k)' = CopiesSoFar(k)
      BY <1>1, <3>2 DEF CopiesSoFar
    <3> QED
      BY <1>19, <3>1, <3>3
  <2>4. copied'.session <= Len(source') => copied'.here <= copies(modified[copied.session])'
    BY <1>1, <1>2, <1>3
  <2>5. \A k \in 1..Len(source') : Cardinality(RepeatsOf(k)') = CopiesSoFar(k)'
    BY <1>1, <2>3
  <2> QED
    BY <1>1, <2>1, <2>2, <2>4, <2>5 DEF CopiesInv
<1>21. AddedInv'
  <2>1. Fresh \in Nat
    BY <1>2, SourceAre
  <2>2. Len(modified') = Len(source') + copied'.all + Len(NewSessions')
    BY <1>1, <1>2, <1>5, <1>6, <1>10, <1>11, <1>12, <1>18
  <2>3. next_id' = Fresh' + (Len(modified') - Len(source'))
    BY <1>1, <1>2, <1>5, <1>6, <1>10, <1>11, <1>18, <2>1
  <2>4. ASSUME NEW c \in 1..Len(modified'), c > Len(source)
        PROVE  modified'[c].id = Fresh + (c - Len(source) - 1)
    <3>1. CASE c <= n
      <4>1. c \in 1..n
        BY <1>10, <3>1
      <4> QED
        BY <1>11, <1>15, <2>4, <4>1
    <3>2. CASE ~(c <= n)
      <4>1. c - n \in 1..m /\ c \in 1 .. n + m
        BY <1>10, <3>2
      <4>2. modified'[c].id = next_id + (c - n) - 1
        BY <1>8, <1>10, <3>2, <4>1
      <4> QED
        BY <1>2, <1>11, <2>1, <4>1, <4>2
    <3> QED
      BY <3>1, <3>2
  <2> QED
    BY <1>1, <1>18, <2>2, <2>3, <2>4 DEF AddedInv
<1> QED
  BY <1>13, <1>14, <1>17, <1>20, <1>21 DEF EngineInv

\* Writing the profile counts it.
LEMMA WriteEngine == EngineInv /\ WriteProfile => EngineInv'
<1> SUFFICES ASSUME EngineInv, WriteProfile PROVE EngineInv'
  OBVIOUS
<1>1. /\ transforming = "sessions" /\ transforming' = "done"
      /\ metadata' = [sessions |-> Len(modified), queries |-> Len(FlatQueries(modified))]
      /\ UNCHANGED <<source, plan, hash_order, modified, copied, next_id>>
  BY DEF WriteProfile
<1>2. EngineType /\ KeptInv /\ source \in Workloads
  BY DEF EngineInv, EngineType
<1>3. EngineType'
  BY <1>1, <1>2 DEF EngineType, QueriesDone
<1>4. QueriesInv'
  BY <1>1 DEF QueriesInv, Unread
<1>5. KeptInv'
  <2>1. Seen' = Seen
    BY <1>1, PlacesSame DEF Seen
  <2>2. Len(source) <= Len(modified')
    BY <1>1, <1>2 DEF KeptInv, Unread
  <2> QED
    BY <1>1, <1>2, <2>1, <2>2, KeptStays DEF Unread
<1>6. stagger_us' = stagger_us /\ NewSessions' = NewSessions /\ Fresh' = Fresh
  BY <1>1, PlanSame, PlacesSame
<1>7. CopiesInv'
  <2>1. /\ Len(source) + copied.all <= Len(modified)
        /\ \A c \in Made : \E k \in 1..Len(source) :
             /\ Len(modified[k].queries) # 0
             /\ modified[c].queries = Delayed(modified[k].queries, (c - Len(source)) * stagger_us)
        /\ copied.session # 0
    BY <1>1 DEF EngineInv, CopiesInv, QueriesDone
  <2>2. copied.session > Len(source)
    BY <1>1 DEF EngineInv, CopiesInv, QueriesDone
  <2>3. ASSUME NEW k \in 1..Len(source) PROVE Cardinality(RepeatsOf(k)') = CopiesSoFar(k)'
    <3>1. Cardinality(RepeatsOf(k)) = CopiesSoFar(k)
      BY <1>1 DEF EngineInv, CopiesInv, QueriesDone
    <3>2. copies(modified[k])' = copies(modified[k])
      BY <1>1, FactorSame
    <3>3. CopiesSoFar(k)' = CopiesSoFar(k)
      BY <1>1, <3>2 DEF CopiesSoFar
    <3>4. RepeatsOf(k)' = RepeatsOf(k)
      BY <1>1 DEF RepeatsOf, Made
    <3> QED
      BY <3>1, <3>3, <3>4
  <2>4. Made' = Made
    BY <1>1 DEF Made
  <2>5. copied.session <= Len(source) => copied.here <= copies(modified[copied.session])'
    BY <1>2, <2>2, SourceAre DEF EngineType
  <2> QED
    BY <1>1, <1>6, <2>1, <2>2, <2>3, <2>4, <2>5 DEF CopiesInv
<1>8. AddedInv'
  <2>1. /\ \A c \in 1..Len(modified) : c > Len(source) => modified[c].id = Fresh + (c - Len(source) - 1)
        /\ next_id = Fresh + (Len(modified) - Len(source))
        /\ Len(modified) = Len(source) + copied.all + Len(NewSessions)
    BY <1>1 DEF EngineInv, AddedInv, QueriesDone
  <2> QED
    BY <1>1, <1>6, <2>1 DEF AddedInv
<1> QED
  BY <1>3, <1>4, <1>5, <1>7, <1>8 DEF EngineInv

\* Every step keeps the invariant.
LEMMA EngineStep == EngineInv /\ [TransformNext]_transformVars => EngineInv'
<1> SUFFICES ASSUME EngineInv, [TransformNext]_transformVars PROVE EngineInv'
  OBVIOUS
<1>1. CASE Analyze
  BY <1>1, AnalyzeEngine
<1>2. CASE ReadPlan
  BY <1>2, ReadEngine
<1>3. CASE TransformQuery
  BY <1>3, EndQueries, QueryEngine
<1>4. CASE Duplicate
  BY <1>4, OneCopy, NextSession
<1>5. CASE InjectSessions
  BY <1>5, InjectEngine
<1>6. CASE WriteProfile
  BY <1>6, WriteEngine
<1>7. CASE UNCHANGED transformVars
  <2>1. UNCHANGED <<source, plan, transforming, flat_index, hash_order, modified, copied, next_id, metadata>>
    BY <1>7 DEF transformVars
  <2>2. stagger_us' = stagger_us /\ NewSessions' = NewSessions /\ Fresh' = Fresh /\ Whole' = Whole
    BY <2>1, PlanSame, PlacesSame
  <2>3. EngineType'
    BY <2>1 DEF EngineInv, EngineType
  <2>4. QueriesInv'
    BY <2>1, <2>2 DEF EngineInv, QueriesInv
  <2>5. KeptInv'
    <3>1. Seen' = Seen
      BY <2>1, <2>2 DEF Seen
    <3> QED
      BY <2>1, <3>1, PlacesSame DEF EngineInv, KeptInv
  <2>6. CopiesInv'
    <3>1. \A s : copies(s)' = copies(s)
      BY <2>1, FactorSame
    <3>2. Made' = Made /\ \A k : RepeatsOf(k)' = RepeatsOf(k)
      BY <2>1 DEF Made, RepeatsOf
    <3>3. \A k : CopiesSoFar(k)' = CopiesSoFar(k)
      BY <2>1, <3>1 DEF CopiesSoFar
    <3> QED
      BY <2>1, <2>2, <3>1, <3>2, <3>3 DEF EngineInv, CopiesInv
  <2>7. AddedInv'
    BY <2>1, <2>2 DEF EngineInv, AddedInv
  <2> QED
    BY <2>3, <2>4, <2>5, <2>6, <2>7 DEF EngineInv
<1> QED
  BY <1>1, <1>2, <1>3, <1>4, <1>5, <1>6, <1>7 DEF TransformNext

-----------------------------------------------------------------------------
(***************************************************************************)
(* What the engine's invariant says of its result.                         *)
(***************************************************************************)
\* No two sessions of the result have one id.
LEMMA IdsDiffer ==
    ASSUME EngineInv, transforming = "done"
    PROVE  \A j, k \in 1..Len(modified) : modified[j].id = modified[k].id => j = k
<1>1. EngineType /\ KeptInv /\ source \in Workloads /\ transforming \notin Unread /\ transforming \in QueriesDone
  BY DEF EngineInv, EngineType, Unread, QueriesDone
<1>2. PICK n \in Nat : n = Len(source)
  BY <1>1, SourceAre
<1>3. PICK m \in Nat : m = Len(modified)
  BY <1>1 DEF EngineType
<1>4. PICK x \in Nat : x = Fresh
  BY <1>1, SourceAre
<1>5. \A k \in 1..n : source[k].id \in Nat /\ source[k].id < x /\ modified[k].id = source[k].id
  BY <1>1, <1>2, <1>4, SourceAre DEF KeptInv
<1>6. \A j, k \in 1..n : source[j].id = source[k].id => j = k
  BY <1>1, <1>2, SourceAre
<1>7. \A c \in 1..m : c > n => modified[c].id = x + (c - n - 1)
  BY <1>1, <1>2, <1>3, <1>4 DEF EngineInv, AddedInv
<1>8. ASSUME NEW j \in 1..m, NEW k \in 1..m, modified[j].id = modified[k].id PROVE j = k
  <2>1. CASE j <= n /\ k <= n
    BY <1>5, <1>6, <1>8, <2>1
  <2>2. CASE j <= n /\ k > n
    <3>1. modified[j].id < x
      BY <1>5, <2>2
    <3>2. modified[k].id = x + (k - n - 1)
      BY <1>7, <2>2
    <3>3. modified[j].id \in Nat
      BY <1>5, <2>2
    <3> QED
      BY <1>8, <2>2, <3>1, <3>2, <3>3
  <2>3. CASE j > n /\ k <= n
    <3>1. modified[k].id < x
      BY <1>5, <2>3
    <3>2. modified[j].id = x + (j - n - 1)
      BY <1>7, <2>3
    <3>3. modified[k].id \in Nat
      BY <1>5, <2>3
    <3> QED
      BY <1>8, <2>3, <3>1, <3>2, <3>3
  <2>4. CASE j > n /\ k > n
    BY <1>7, <1>8, <2>4
  <2> QED
    BY <2>1, <2>2, <2>3, <2>4
<1> QED
  BY <1>3, <1>8

\* q, of the captured session k, with the captured statements at O.
KeptRight(k, q, O) ==
    /\ {q[n].of : n \in O} = {f \in Places(source, k) : ~Gone(f)}
    /\ \A m, n \in O : m < n => q[m].of < q[n].of
    /\ \A n \in DOMAIN q \ O : \E m \in O :
         /\ m < n /\ \A i \in m + 1 .. n : i \notin O
         /\ group_of(q[m].of) # 0 /\ inject_rules(group_of(q[m].of)) # {}

\* A captured session has its statements but those of removed groups, in
\* order, and injected ones behind those of groups a rule names.
LEMMA SessionKept ==
    ASSUME EngineInv, transforming = "done", NEW k \in 1..Len(source),
           NEW q, q = modified[k].queries, NEW O, O = {n \in DOMAIN q : q[n].of # Injected}
    PROVE  modified[k].id = source[k].id /\ KeptRight(k, q, O)
<1>1. EngineType /\ KeptInv /\ source \in Workloads /\ transforming \notin Unread
  BY DEF EngineInv, EngineType, Unread
<1>2. modified[k].id = source[k].id /\ Holds(q, KeptOf(k), InvitedOf(k))
  BY <1>1 DEF KeptInv
<1>3. PICK n \in Nat : n = Len(q) /\ DOMAIN q = 1..n
  BY <1>2 DEF Holds
<1>4. KeptOf(k) = {f \in Places(source, k) : ~Gone(f)}
  <2>1. PICK t \in Nat : t = Whole
    BY <1>1, SourceAre
  <2>2. PICK b \in Nat, l \in Nat : b = Before(source, k) /\ l = Len(source[k].queries) /\ b + l <= t
    BY <1>1, <2>1, SourceAre DEF Placed, Whole
  <2>3. Places(source, k) = b .. b + l - 1
    BY <2>2, Zenon DEF Places
  <2>4. Seen = t
    BY <2>1 DEF Seen
  <2>5. \A f \in Places(source, k) : f < Seen
    BY <2>2, <2>3, <2>4
  <2> QED
    BY <2>5 DEF KeptOf
<1>5. O = {i \in 1..n : q[i].of # Injected}
  BY <1>3
<1>6. {q[i].of : i \in O} = KeptOf(k)
  <2>1. \A i \in O : q[i].of \in KeptOf(k)
    BY <1>2, <1>3, <1>5 DEF Holds
  <2>2. ASSUME NEW f \in KeptOf(k) PROVE \E i \in O : q[i].of = f
    <3>1. PICK i \in 1..n : q[i].of = f
      BY <1>2, <1>3, <2>2 DEF Holds
    <3>2. f \in Places(source, k)
      BY <1>4
    <3>3. f \in Nat
      <4>1. Before(source, k) \in Nat
        BY <1>1, SourceAre DEF Placed
      <4> QED
        BY <3>2, <4>1 DEF Places
    <3>4. f # Injected
      BY <3>3 DEF Injected
    <3> QED
      BY <1>5, <3>1, <3>4
  <2> QED
    BY <2>1, <2>2
<1>7. ASSUME NEW i \in O, NEW j \in O, i < j PROVE q[i].of < q[j].of
  BY <1>2, <1>3, <1>5, <1>7 DEF Holds
<1>8. ASSUME NEW j \in DOMAIN q \ O
      PROVE  \E i \in O : /\ i < j /\ \A h \in i + 1 .. j : h \notin O
                          /\ group_of(q[i].of) # 0 /\ inject_rules(group_of(q[i].of)) # {}
  <2>1. j \in 1..n /\ q[j].of = Injected
    BY <1>3, <1>5
  <2>2. PICK i \in 1..n : /\ i < j /\ q[i].of # Injected /\ q[i].of \in InvitedOf(k)
                          /\ \A h \in i + 1 .. j : q[h].of = Injected
    BY <1>2, <1>3, <2>1 DEF Holds
  <2>3. i \in O /\ \A h \in i + 1 .. j : h \notin O
    BY <1>5, <2>2
  <2>4. group_of(q[i].of) # 0 /\ inject_rules(group_of(q[i].of)) # {}
    BY <2>2 DEF InvitedOf
  <2> QED
    BY <2>2, <2>3, <2>4
<1> QED
  BY <1>2, <1>4, <1>6, <1>7, <1>8 DEF KeptRight

\* Each copy repeats a captured session, by a delay of its own.
LEMMA CopyOf ==
    ASSUME EngineInv, transforming = "done", NEW c \in Made
    PROVE  \E k \in 1..Len(source) :
             /\ Repeats(modified[c], modified[k])
             /\ modified[k].queries[1].start \in Nat
             /\ modified[c].queries[1].start = modified[k].queries[1].start + (c - Len(source)) * stagger_us
<1>1. /\ EngineType /\ KeptInv /\ source \in Workloads /\ plan \in Plans
      /\ transforming \notin Unread /\ transforming \in QueriesDone
  BY DEF EngineInv, EngineType, Unread, QueriesDone
<1>2. PICK k \in 1..Len(source) :
        /\ Len(modified[k].queries) # 0
        /\ modified[c].queries = Delayed(modified[k].queries, (c - Len(source)) * stagger_us)
  BY <1>1 DEF EngineInv, CopiesInv
<1>3. modified[k].queries \in Seq(Outs)
  BY <1>1 DEF KeptInv, Holds
<1>4. (c - Len(source)) * stagger_us \in Nat
  <2>1. stagger_us \in Nat
    BY <1>1, StaggerNat
  <2>2. c - Len(source) \in Nat
    <3>1. PICK n \in Nat : n = Len(source)
      BY <1>1, SourceAre
    <3>2. copied.all \in Nat
      BY <1>1 DEF EngineType
    <3> QED
      BY <3>1, <3>2 DEF Made
  <2> QED
    BY <2>1, <2>2
<1>5. /\ Repeats(modified[c], modified[k])
      /\ modified[c].queries[1].start = modified[k].queries[1].start + (c - Len(source)) * stagger_us
  BY <1>2, <1>3, <1>4, DelayedAre
<1>6. modified[k].queries[1].start \in Nat
  <2>1. modified[k].queries[1] \in Outs
    BY <1>2, <1>3
  <2> QED
    BY <2>1 DEF Outs
<1> QED
  BY <1>5, <1>6

\* Different numbers of times a delay are different delays.
LEMMA TimesDiffer ==
    ASSUME NEW i \in Int, NEW j \in Int, i # j, NEW d \in Nat, d > 0
    PROVE  i * d # j * d
<1>1. CASE i < j
  <2>1. PICK e \in Nat : e > 0 /\ j = i + e
    BY <1>1
  <2>2. j * d = i * d + e * d
    BY <2>1
  <2>3. e * d > 0
    BY <2>1
  <2> QED
    BY <2>2, <2>3
<1>2. CASE j < i
  <2>1. PICK e \in Nat : e > 0 /\ i = j + e
    BY <1>2
  <2>2. i * d = j * d + e * d
    BY <2>1
  <2>3. e * d > 0
    BY <2>1
  <2> QED
    BY <2>2, <2>3
<1> QED
  BY <1>1, <1>2

\* So no two copies are later by the same, unless the delay is none.
LEMMA DelaysDiffer ==
    ASSUME EngineInv, transforming = "done", stagger_us > 0,
           NEW j \in 1..Len(source), NEW k \in 1..Len(source), NEW c \in RepeatsOf(j), NEW d \in RepeatsOf(k), c # d
    PROVE  modified[c].queries[1].start - modified[j].queries[1].start
             # modified[d].queries[1].start - modified[k].queries[1].start
<1>1. /\ EngineType /\ KeptInv /\ source \in Workloads /\ plan \in Plans /\ transforming \notin Unread
  BY DEF EngineInv, EngineType, Unread
<1>2. PICK n \in Nat : n = Len(source)
  BY <1>1, SourceAre
<1>3. PICK s \in Nat : s = stagger_us
  BY <1>1, StaggerNat
<1>4. Made \subseteq Int
  <2>1. copied.all \in Nat
    BY <1>1 DEF EngineType
  <2> QED
    BY <1>2, <2>1 DEF Made
<1>5. c \in Made /\ d \in Made /\ Repeats(modified[c], modified[j]) /\ Repeats(modified[d], modified[k])
  BY DEF RepeatsOf
<1>6. ASSUME NEW h \in 1..Len(source), NEW e \in Made, Repeats(modified[e], modified[h])
      PROVE  /\ modified[h].queries[1].start \in Nat
             /\ modified[e].queries[1].start = modified[h].queries[1].start + (e - n) * s
  <2>1. PICK g \in 1..Len(source) :
          /\ Repeats(modified[e], modified[g])
          /\ modified[g].queries[1].start \in Nat
          /\ modified[e].queries[1].start = modified[g].queries[1].start + (e - n) * s
    BY <1>2, <1>3, CopyOf
  <2>2. g = h
    BY <1>1, <1>6, <2>1, RepeatsOne
  <2> QED
    BY <2>1, <2>2
<1>7. PICK a \in Nat : /\ a = modified[j].queries[1].start
                       /\ modified[c].queries[1].start = a + (c - n) * s
  BY <1>5, <1>6
<1>8. PICK b \in Nat : /\ b = modified[k].queries[1].start
                       /\ modified[d].queries[1].start = b + (d - n) * s
  BY <1>5, <1>6
<1>9. PICK x \in Int, y \in Int : x = c - n /\ y = d - n /\ x # y
  BY <1>4, <1>5
<1>10. x * s # y * s
  BY <1>3, <1>9, TimesDiffer
<1>11. PICK u \in Int, v \in Int : u = x * s /\ v = y * s /\ u # v
  <2>1. x * s \in Int /\ y * s \in Int
    BY <1>9
  <2> QED
    BY <1>10, <2>1
<1>12. modified[c].queries[1].start = a + u /\ modified[d].queries[1].start = b + v
  BY <1>7, <1>8, <1>9, <1>11
<1>13. \A p \in Nat : \A r \in Int : p + r - p = r
  OBVIOUS
<1>14. a + u - a = u /\ b + v - b = v
  BY ONLY <1>13, a \in Nat, b \in Nat, u \in Int, v \in Int
<1>15. modified[j].queries[1].start = a /\ modified[k].queries[1].start = b
  BY <1>7, <1>8, Zenon
<1>16. u # v
  BY <1>11, Zenon
<1> QED
  BY ONLY <1>12, <1>14, <1>15, <1>16

\* A session whose statements are all of one group has as many copies as the
\* group's factor says.
LEMMA CopiesCount ==
    ASSUME EngineInv, transforming = "done", NEW k \in 1..Len(source), modified[k].queries # << >>,
           NEW f, f = FactorOf(modified[k].queries[1]),
           \A n \in DOMAIN modified[k].queries : FactorOf(modified[k].queries[n]) = f
    PROVE  Cardinality(RepeatsOf(k)) = IF f = 0 THEN 0 ELSE f - 1
<1>1. /\ EngineType /\ KeptInv /\ source \in Workloads /\ plan \in Plans /\ transforming \notin Unread
      /\ transforming \in QueriesDone /\ transforming # "copies"
  BY DEF EngineInv, EngineType, Unread, QueriesDone
<1>2. modified[k].queries \in Seq(Outs)
  BY <1>1 DEF KeptInv, Holds
<1>3. PICK n \in Nat : n = Len(modified[k].queries) /\ DOMAIN modified[k].queries = 1..n /\ n # 0
  BY <1>2, EmptySeq
<1>4. f \in Nat
  BY <1>1, FactorNat
<1>5. copies(modified[k]) = IF f = 0 THEN 0 ELSE f - 1
  BY <1>1, <1>3, <1>4, CopiesAre
<1>6. Cardinality(RepeatsOf(k)) = CopiesSoFar(k) /\ copied.session > Len(source)
  BY <1>1 DEF EngineInv, CopiesInv
<1>7. k < copied.session
  <2>1. copied.session \in Nat /\ Len(source) \in Nat
    BY <1>1, SourceAre DEF EngineType
  <2> QED
    BY <1>6, <2>1
<1>8. CopiesSoFar(k) = copies(modified[k])
  BY <1>7 DEF CopiesSoFar
<1> QED
  BY <1>5, <1>6, <1>8

\* All of it together.
LEMMA EngineRight == EngineInv => TransformRight
<1> SUFFICES ASSUME EngineInv, transforming = "done" PROVE TransformRight
  BY Zenon DEF TransformRight
<1> DEFINE Own(k) == {n \in DOMAIN modified[k].queries : modified[k].queries[n].of # Injected}
           of(k, n) == modified[k].queries[n].of
           start(k) == modified[k].queries[1].start
           made == Len(source) + 1 .. Len(source) + copied.all
           copies_of(k) == {c \in made : Repeats(modified[c], modified[k])}
           Behind(k) == \A n \in DOMAIN modified[k].queries \ Own(k) : \E m \in Own(k) :
                          /\ m < n /\ \A i \in m + 1 .. n : i \notin Own(k)
                          /\ group_of(of(k, m)) # 0 /\ inject_rules(group_of(of(k, m))) # {}
           Counted(k) == LET f == FactorOf(modified[k].queries[1])
                         IN modified[k].queries # << >> /\ (\A n \in DOMAIN modified[k].queries : FactorOf(modified[k].queries[n]) = f) =>
                              Cardinality(copies_of(k)) = IF f = 0 THEN 0 ELSE f - 1
<1>1. EngineType /\ source \in Workloads /\ transforming \in QueriesDone /\ transforming # "copies"
  BY DEF EngineInv, EngineType, QueriesDone
<1>2. DOMAIN source = 1..Len(source) /\ DOMAIN modified = 1..Len(modified)
  BY <1>1, SourceAre DEF EngineType
<1>3. \A j, k \in DOMAIN modified : modified[j].id = modified[k].id => j = k
  BY <1>2, IdsDiffer
<1>4. ASSUME NEW k \in DOMAIN source
      PROVE  /\ modified[k].id = source[k].id
             /\ {of(k, n) : n \in Own(k)} = {f \in Places(source, k) : ~Gone(f)}
             /\ \A m, n \in Own(k) : m < n => of(k, m) < of(k, n)
             /\ Behind(k)
  <2>1. k \in 1..Len(source)
    BY <1>2
  <2> HIDE DEF Own, of, Behind
  <2>2. PICK q : q = modified[k].queries
    OBVIOUS
  <2>3. PICK O : O = {n \in DOMAIN q : q[n].of # Injected}
    OBVIOUS
  <2>4. modified[k].id = source[k].id /\ KeptRight(k, q, O)
    BY <2>1, <2>2, <2>3, SessionKept
  <2>5. Own(k) = O /\ \A n : of(k, n) = q[n].of
    BY <2>2, <2>3 DEF Own, of
  <2>6. {of(k, n) : n \in Own(k)} = {q[n].of : n \in O}
    BY <2>5
  <2>7. Behind(k)
    BY <2>2, <2>4, <2>5 DEF Behind, KeptRight
  <2> QED
    BY <2>4, <2>5, <2>6, <2>7 DEF KeptRight
<1>5. made = Made /\ \A k : copies_of(k) = RepeatsOf(k)
  BY DEF Made, RepeatsOf
<1>6. \A c \in made : \E k \in DOMAIN source : c \in copies_of(k)
  BY <1>2, <1>5, CopyOf
<1>7. ASSUME stagger_us > 0, NEW j \in DOMAIN source, NEW k \in DOMAIN source,
             NEW c \in copies_of(j), NEW d \in copies_of(k), c # d
      PROVE  start(c) - start(j) # start(d) - start(k)
  <2>1. c \in RepeatsOf(j) /\ d \in RepeatsOf(k)
    BY <1>5
  <2> QED
    BY <1>2, <1>7, <2>1, DelaysDiffer
<1>8. ASSUME NEW k \in DOMAIN source PROVE Counted(k)
  <2>1. copies_of(k) = RepeatsOf(k)
    BY <1>5
  <2> QED
    BY <1>2, <2>1, CopiesCount
<1>9. /\ Len(modified) = Len(source) + copied.all + Len(NewSessions)
      /\ metadata = [sessions |-> Len(modified), queries |-> Len(FlatQueries(modified))]
  BY <1>1 DEF EngineInv, AddedInv
<1> QED
  BY <1>3, <1>4, <1>6, <1>7, <1>8, <1>9, Zenon DEF TransformRight

\* The theorem for every workload and every plan: in the transformed workload
\* every captured session has its statements but those of removed groups, in
\* order, what is injected stands behind a statement whose group a rule names,
\* copies are as many as the group is scaled to, later each by a delay of its
\* own, ids differ and the totals are right (engine.rs 17-310).
THEOREM TransformCorrect == TransformSpec => []TransformRight
<1>1. TransformInit => EngineInv
  BY EngineInit
<1>2. EngineInv /\ [TransformNext]_transformVars => EngineInv'
  BY EngineStep
<1>3. EngineInv => TransformRight
  BY EngineRight
<1> QED
  BY <1>1, <1>2, <1>3, PTL DEF TransformSpec

-----------------------------------------------------------------------------
(***************************************************************************)
(* Sorting.                                                                *)
(***************************************************************************)
\* At[m] is the one of 1..n that m of them, itself included, are not behind.
Ranks(At, n, G) ==
    /\ At \in [1..n -> 1..n]
    /\ \A m \in 1..n : At[m] = CHOOSE k \in 1..n : Cardinality(G[k]) = m
    /\ \A k \in 1..n : \E m \in 1..n : At[m] = k
    /\ \A j, k \in 1..n : At[j] = At[k] => j = k
    /\ \A j, k \in 1..n : j <= k => At[j] \in G[At[k]]

\* G[k] are those not behind k.
Linear(G, n) ==
    /\ \A k \in 1..n : G[k] \subseteq 1..n /\ k \in G[k]
    /\ \A j, k \in 1..n : j \in G[k] /\ k \in G[j] => j = k
    /\ \A j, k \in 1..n : j \in G[k] \/ k \in G[j]
    /\ \A i, j, k \in 1..n : i \in G[j] /\ j \in G[k] => i \in G[k]

\* In a linear order every place has its own.
LEMMA Ranked ==
    ASSUME NEW n \in Nat, NEW G, Linear(G, n)
    PROVE  \E At : Ranks(At, n, G)
<1> DEFINE c == [k \in 1..n |-> Cardinality(G[k])]
<1>1. IsFiniteSet(1..n) /\ Cardinality(1..n) = n
  BY FS_Interval
<1>2. ASSUME NEW k \in 1..n PROVE IsFiniteSet(G[k]) /\ Cardinality(G[k]) \in 1..n
  <2>1. G[k] \in SUBSET (1..n) /\ G[k] # {}
    BY DEF Linear
  <2>2. IsFiniteSet(G[k]) /\ Cardinality(G[k]) <= n
    BY <1>1, <2>1, FS_Subset
  <2>3. Cardinality(G[k]) \in Nat /\ Cardinality(G[k]) # 0
    BY <2>1, <2>2, FS_CardinalityType, FS_EmptySet
  <2> QED
    BY <2>2, <2>3
<1>3. ASSUME NEW j \in 1..n, NEW k \in 1..n, j \in G[k], j # k
      PROVE  Cardinality(G[j]) < Cardinality(G[k])
  <2>1. G[j] \in SUBSET G[k]
    BY <1>3 DEF Linear
  <2>2. k \in G[k] /\ k \notin G[j]
    BY <1>3 DEF Linear
  <2>3. Cardinality(G[j]) <= Cardinality(G[k]) /\ Cardinality(G[j]) # Cardinality(G[k])
    BY <1>2, <2>1, <2>2, FS_Subset
  <2> QED
    BY <1>2, <2>3
<1>4. c \in Injection(1..n, 1..n)
  <2>1. c \in [1..n -> 1..n]
    BY <1>2
  <2>2. ASSUME NEW j \in 1..n, NEW k \in 1..n, c[j] = c[k] PROVE j = k
    <3>1. Cardinality(G[j]) = Cardinality(G[k]) /\ Cardinality(G[j]) \in Nat
      BY <1>2, <2>2
    <3>2. j \in G[k] \/ k \in G[j]
      BY DEF Linear
    <3> QED
      BY <1>2, <1>3, <3>1, <3>2
  <2> QED
    BY <2>1, <2>2 DEF Injection, IsInjective
<1>5. c \in Surjection(1..n, 1..n)
  BY <1>1, <1>4, FS_Injection
<1>6. \A m \in 1..n : \E k \in 1..n : Cardinality(G[k]) = m
  BY <1>5 DEF Surjection
<1> DEFINE At == [m \in 1..n |-> CHOOSE k \in 1..n : Cardinality(G[k]) = m]
<1>7. ASSUME NEW m \in 1..n
      PROVE  /\ At[m] = CHOOSE k \in 1..n : Cardinality(G[k]) = m
             /\ At[m] \in 1..n /\ Cardinality(G[At[m]]) = m
  <2>1. At[m] = CHOOSE k \in 1..n : Cardinality(G[k]) = m
    OBVIOUS
  <2> QED
    BY <1>6, <2>1
<1>8. ASSUME NEW j \in 1..n, NEW k \in 1..n, Cardinality(G[j]) = Cardinality(G[k]) PROVE j = k
  <2>1. j \in G[k] \/ k \in G[j]
    BY DEF Linear
  <2> QED
    BY <1>2, <1>3, <1>8, <2>1
<1> HIDE DEF At, c
<1>9. ASSUME NEW k \in 1..n PROVE \E m \in 1..n : At[m] = k
  <2>1. PICK m \in 1..n : m = Cardinality(G[k])
    BY <1>2
  <2>2. At[m] = k
    BY <1>7, <1>8, <2>1
  <2> QED
    BY <2>2
<1>10. ASSUME NEW j \in 1..n, NEW k \in 1..n, At[j] = At[k] PROVE j = k
  BY <1>7, <1>10
<1>11. ASSUME NEW j \in 1..n, NEW k \in 1..n, j <= k PROVE At[j] \in G[At[k]]
  <2>1. At[j] \in 1..n /\ At[k] \in 1..n /\ Cardinality(G[At[j]]) = j /\ Cardinality(G[At[k]]) = k
    BY <1>7
  <2>2. At[j] \in G[At[k]] \/ At[k] \in G[At[j]]
    BY <2>1 DEF Linear
  <2>3. CASE At[j] \in G[At[k]]
    BY <2>3
  <2>4. CASE At[k] \in G[At[j]] /\ At[j] # At[k]
    BY <1>3, <1>11, <2>1, <2>4
  <2>5. CASE At[j] = At[k]
    BY <2>1, <2>5 DEF Linear
  <2> QED
    BY <2>2, <2>3, <2>4, <2>5
<1>12. At \in [1..n -> 1..n]
  BY <1>7 DEF At
<1>13. Ranks(At, n, G)
  BY <1>7, <1>9, <1>10, <1>11, <1>12 DEF Ranks
<1> QED
  BY <1>13

\* Sorted orders the members of a sequence of numbers.
LEMMA SortedIs ==
    ASSUME NEW n \in Nat, NEW s \in [1..n -> Nat]
    PROVE  \E G, At : /\ Linear(G, n) /\ Ranks(At, n, G)
                      /\ Sorted(s) = [m \in 1..n |-> s[At[m]]]
                      /\ \A j, k \in 1..n : j \in G[k] => s[j] <= s[k]
<1> DEFINE Of(k) == {j \in 1..n : j = k \/ s[j] < s[k] \/ (j < k /\ ~(s[k] < s[j]))}
           G == [k \in 1..n |-> Of(k)]
<1>1. \A k \in 1..n : s[k] \in Nat
  OBVIOUS
<1>2. \A j, k \in 1..n : j \in G[k] <=> j = k \/ s[j] < s[k] \/ (j < k /\ ~(s[k] < s[j]))
  OBVIOUS
<1>3. Linear(G, n)
  BY <1>1 DEF Linear
<1>4. PICK At : Ranks(At, n, G)
  BY <1>3, Ranked
<1>5. Sorted(s) = [m \in 1..n |-> s[CHOOSE k \in 1..n : Cardinality(Of(k)) = m]]
  <2> DEFINE Over(D) == [m \in D |-> s[CHOOSE k \in D :
                Cardinality({j \in D : j = k \/ s[j] < s[k] \/ (j < k /\ ~(s[k] < s[j]))}) = m]]
  <2>1. DOMAIN s = 1..n
    OBVIOUS
  <2>2. Sorted(s) = Over(DOMAIN s)
    BY DEF Sorted, SortByKey, Sort
  <2>3. Over(DOMAIN s) = Over(1..n)
    <3> HIDE DEF Over
    <3> QED
      BY <2>1
  <2> QED
    BY <2>2, <2>3
<1>6. \A m \in 1..n : At[m] = CHOOSE k \in 1..n : Cardinality(Of(k)) = m
  <2>1. \A k \in 1..n : G[k] = Of(k)
    OBVIOUS
  <2>2. \A m \in 1..n : (CHOOSE k \in 1..n : Cardinality(G[k]) = m) = CHOOSE k \in 1..n : Cardinality(Of(k)) = m
    BY <2>1
  <2> QED
    BY <1>4, <2>2 DEF Ranks
<1>7. Sorted(s) = [m \in 1..n |-> s[At[m]]]
  BY <1>5, <1>6
<1>8. \A j, k \in 1..n : j \in G[k] => s[j] <= s[k]
  BY <1>1, <1>2
<1> HIDE DEF G
<1> QED
  BY <1>3, <1>4, <1>7, <1>8

\* A sorted sequence is one of as many numbers.
LEMMA SortedType ==
    ASSUME NEW n \in Nat, NEW s \in [1..n -> Nat]
    PROVE  Sorted(s) \in [1..n -> Nat] /\ Sorted(s) \in Seq(Nat) /\ Len(Sorted(s)) = n
<1>1. PICK G, At : /\ Linear(G, n) /\ Ranks(At, n, G)
                   /\ Sorted(s) = [m \in 1..n |-> s[At[m]]]
                   /\ \A j, k \in 1..n : j \in G[k] => s[j] <= s[k]
  BY SortedIs
<1>2. \A m \in 1..n : At[m] \in 1..n
  BY <1>1 DEF Ranks
<1>3. Sorted(s) \in [1..n -> Nat]
  BY <1>1, <1>2
<1> QED
  BY <1>3

\* The number at a place of the sorted ones is within a limit exactly when no
\* more numbers exceed the limit than there are places behind it.
LEMMA SortedWithin ==
    ASSUME NEW n \in Nat, NEW s \in [1..n -> Nat], NEW r \in 1..n, NEW us \in Nat
    PROVE  Sorted(s)[r] <= us <=> Cardinality({k \in 1..n : s[k] > us}) <= n - r
<1>1. PICK G, At : /\ Ranks(At, n, G)
                   /\ Sorted(s) = [m \in 1..n |-> s[At[m]]]
                   /\ \A j, k \in 1..n : j \in G[k] => s[j] <= s[k]
  BY SortedIs
<1>2. PICK B : B = {k \in 1..n : s[k] > us}
  OBVIOUS
<1>3. PICK C : C = {m \in 1..n : s[At[m]] > us}
  OBVIOUS
<1>4. At \in [1..n -> 1..n] /\ \A m \in 1..n : At[m] \in 1..n /\ s[At[m]] \in Nat
  BY <1>1 DEF Ranks
<1>5. IsFiniteSet(1..n) /\ Cardinality(1..n) = n
  BY FS_Interval
<1>6. IsFiniteSet(C) /\ IsFiniteSet(B) /\ Cardinality(C) \in Nat /\ Cardinality(B) \in Nat
  <2>1. C \in SUBSET (1..n) /\ B \in SUBSET (1..n)
    BY <1>2, <1>3
  <2> QED
    BY <1>5, <2>1, FS_Subset, FS_CardinalityType
<1>7. Cardinality(B) = Cardinality(C)
  <2> DEFINE f == [m \in C |-> At[m]]
  <2>1. f \in [C -> B]
    BY <1>2, <1>3, <1>4
  <2>2. \A j, k \in C : f[j] = f[k] => j = k
    BY <1>1, <1>3 DEF Ranks
  <2>3. ASSUME NEW k \in B PROVE \E m \in C : f[m] = k
    <3>1. PICK m \in 1..n : At[m] = k
      BY <1>1, <1>2 DEF Ranks
    <3>2. m \in C
      BY <1>2, <1>3, <3>1
    <3> QED
      BY <3>1, <3>2
  <2>4. f \in Bijection(C, B)
    BY <2>1, <2>2, <2>3 DEF Bijection, Injection, Surjection, IsInjective
  <2>5. ExistsBijection(C, B)
    BY <2>4 DEF ExistsBijection
  <2> QED
    BY <1>6, <2>5, FS_Bijection
<1>8. Sorted(s)[r] = s[At[r]]
  BY <1>1
<1>9. ASSUME NEW j \in 1..n, NEW k \in 1..n, j <= k PROVE s[At[j]] <= s[At[k]]
  BY <1>1, <1>4, <1>9 DEF Ranks
<1>10. ASSUME s[At[r]] <= us PROVE Cardinality(C) <= n - r
  <2>1. \A m \in C : m \in 1..n /\ m > r
    <3>1. TAKE m \in C
    <3>2. m \in 1..n /\ s[At[m]] > us
      BY <1>3
    <3>3. m <= r => s[At[m]] <= s[At[r]]
      BY <1>9, <3>2
    <3>4. s[At[m]] \in Nat /\ s[At[r]] \in Nat
      BY <1>4, <3>2
    <3>5. ~(s[At[m]] <= s[At[r]])
      <4> DEFINE x == s[At[m]]
                 y == s[At[r]]
      <4>1. x > us /\ y <= us /\ x \in Nat /\ y \in Nat
        BY ONLY <1>10, <3>2, <3>4
      <4> HIDE DEF x, y
      <4>2. ~(x <= y)
        BY ONLY <4>1, us \in Nat
      <4> QED
        BY ONLY <4>2 DEF x, y
    <3>6. ~(m <= r) /\ n \in Nat /\ r \in 1..n
      BY ONLY <3>3, <3>5, n \in Nat, r \in 1..n
    <3> QED
      BY ONLY <3>2, <3>6
  <2>2. C \in SUBSET (r + 1 .. n)
    BY <2>1
  <2>3. IsFiniteSet(r + 1 .. n) /\ Cardinality(r + 1 .. n) = n - r
    <3>1. n \in Int /\ r + 1 \in Int /\ r \in Int /\ r <= n
      BY ONLY n \in Nat, r \in 1..n
    <3>2. /\ IsFiniteSet(r + 1 .. n)
          /\ Cardinality(r + 1 .. n) = IF r + 1 > n THEN 0 ELSE n - (r + 1) + 1
      BY ONLY <3>1, FS_Interval
    <3> QED
      BY ONLY <3>1, <3>2
  <2> QED
    BY <2>2, <2>3, FS_Subset
<1>11. ASSUME ~(s[At[r]] <= us) PROVE Cardinality(C) >= n - r + 1
  <2>1. ASSUME NEW m \in r..n PROVE m \in C
    <3>1. m \in 1..n /\ r <= m
      BY ONLY m \in r..n, n \in Nat, r \in 1..n
    <3>2. s[At[r]] <= s[At[m]] /\ s[At[m]] \in Nat /\ s[At[r]] \in Nat
      BY <1>4, <1>9, <3>1
    <3>3. s[At[m]] > us
      <4> DEFINE x == s[At[m]]
                 y == s[At[r]]
      <4>1. y <= x /\ ~(y <= us) /\ x \in Nat /\ y \in Nat
        BY ONLY <1>11, <3>2
      <4> HIDE DEF x, y
      <4>2. x > us
        BY ONLY <4>1, us \in Nat
      <4> QED
        BY ONLY <4>2 DEF x, y
    <3> QED
      BY <1>3, <3>1, <3>3
  <2>2. (r..n) \in SUBSET C
    BY <2>1
  <2>3. Cardinality(r..n) = n - r + 1
    <3>1. n \in Int /\ r \in Int /\ r <= n
      BY ONLY n \in Nat, r \in 1..n
    <3>2. Cardinality(r..n) = IF r > n THEN 0 ELSE n - r + 1
      BY ONLY <3>1, FS_Interval
    <3> QED
      BY ONLY <3>1, <3>2
  <2> QED
    BY <1>6, <2>2, <2>3, FS_Subset
<1>12. Cardinality(B) <= n - r <=> s[At[r]] <= us
  BY <1>6, <1>7, <1>10, <1>11
<1> QED
  BY <1>2, <1>8, <1>12

\* How many of n numbers exceed a limit.
Exceeding(s, n, us) == Cardinality({k \in 1..n : s[k] > us})

\* What a limit on a percentile means: fewer than a share of the numbers, and
\* a rest for the rounding of the rank, exceed it.
LEMMA PercentilesWithin ==
    ASSUME NEW n \in Nat, NEW s \in [1..n -> Nat], NEW us \in Nat,
           NEW c, c = Exceeding(s, n, us)
    PROVE  /\ percentile(Sorted(s), 95) <= us <=> 20 * c < n + 9
           /\ percentile(Sorted(s), 99) <= us <=> 100 * c < n + 49
<1>1. PICK t : t = Sorted(s)
  OBVIOUS
<1>2. t \in Seq(Nat) /\ Len(t) = n /\ (t = << >> <=> n = 0)
  <2>1. t \in Seq(Nat) /\ Len(t) = n
    BY <1>1, SortedType
  <2> QED
    BY <2>1, EmptySeq
<1>3. c \in Nat /\ c <= n
  <2>1. IsFiniteSet(1..n) /\ Cardinality(1..n) = n
    BY FS_Interval
  <2>2. {k \in 1..n : s[k] > us} \in SUBSET (1..n)
    OBVIOUS
  <2> QED
    BY <2>1, <2>2, FS_Subset, FS_CardinalityType DEF Exceeding
<1>4. CASE n = 0
  <2>1. percentile(t, 95) = 0 /\ percentile(t, 99) = 0
    BY <1>2, <1>4 DEF percentile
  <2> QED
    BY <1>1, <1>3, <1>4, <2>1
<1>5. CASE n # 0
  <2>1. PICK d \in Nat : d = n - 1
    BY <1>5
  <2>2. PICK q \in Nat : q = (2 * (95 * d) + 100) \div 200
    OBVIOUS
  <2>3. PICK p \in Nat : p = (2 * (99 * d) + 100) \div 200
    OBVIOUS
  <2>4. 200 * q <= 190 * d + 100 /\ 190 * d + 100 < 200 * q + 200
    BY <2>2
  <2>5. 200 * p <= 198 * d + 100 /\ 198 * d + 100 < 200 * p + 200
    BY <2>3
  <2>6. q + 1 \in 1..n /\ p + 1 \in 1..n
    BY <2>1, <2>4, <2>5
  <2>7. percentile(t, 95) = t[q + 1] /\ percentile(t, 99) = t[p + 1]
    BY <1>2, <1>5, <2>1, <2>2, <2>3 DEF percentile, Round
  <2>8. (t[q + 1] <= us <=> c <= n - (q + 1)) /\ (t[p + 1] <= us <=> c <= n - (p + 1))
    BY <1>1, <2>6, SortedWithin DEF Exceeding
  <2>9. c <= n - (q + 1) <=> 20 * c < n + 9
    BY <1>3, <2>1, <2>4
  <2>10. c <= n - (p + 1) <=> 100 * c < n + 49
    BY <1>3, <2>1, <2>5
  <2> QED
    BY <1>1, <2>7, <2>8, <2>9, <2>10
<1> QED
  BY <1>4, <1>5

-----------------------------------------------------------------------------
(***************************************************************************)
(* Members of a sequence, and sequences joined alike.                      *)
(***************************************************************************)
\* The members of s at K.
Chosen(s, K) == FlattenSeq([k \in DOMAIN s |-> IF k \in K THEN <<s[k]>> ELSE << >>])

\* r has the members of s at K, and is s if these are all.
Picks(r, s, K, S) ==
    /\ r \in Seq(S) /\ Len(r) = Cardinality(K)
    /\ \A i \in 1..Len(r) : \E k \in K : r[i] = s[k]

\* What is chosen is in number the places chosen, each member the one at such a place.
LEMMA Choosing ==
    ASSUME NEW S, NEW n \in Nat, NEW s \in [1..n -> S], NEW K \in SUBSET (1..n)
    PROVE  /\ Picks(Chosen(s, K), s, K, S)
           /\ K = 1..n => Chosen(s, K) = s
<1> DEFINE seqs0 == [k \in 1..n |-> IF k \in K THEN <<s[k]>> ELSE << >>]
<1>1. PICK seqs : seqs = seqs0
  OBVIOUS
<1>2. \A k \in 1..n : s[k] \in S
  OBVIOUS
<1>3. seqs \in Seq(Seq(S)) /\ Len(seqs) = n /\ \A k \in 1..n : seqs[k] = IF k \in K THEN <<s[k]>> ELSE << >>
  <2>1. \A k \in 1..n : (IF k \in K THEN <<s[k]>> ELSE << >>) \in Seq(S)
    BY <1>2
  <2>2. seqs \in [1..n -> Seq(S)]
    BY <1>1, <2>1
  <2> QED
    BY <1>1, <2>2
<1>4. PICK cat : Joined(cat, seqs, S) /\ FlattenSeq(seqs) = cat[n]
  BY <1>3, FlattenGoes
<1>5. Chosen(s, K) = cat[n]
  <2>1. DOMAIN s = 1..n
    OBVIOUS
  <2>2. Chosen(s, K) = FlattenSeq(seqs)
    BY <1>1, <2>1 DEF Chosen
  <2> QED
    BY <1>4, <2>2
<1> DEFINE T == {j \in 0..n : /\ Picks(cat[j], s, K \cap 1..j, S)
                              /\ (1..j) \subseteq K => Len(cat[j]) = j /\ \A i \in 1..j : cat[j][i] = s[i]}
<1>6. 0 \in T
  <2>1. cat[0] = << >>
    BY <1>4 DEF Joined
  <2>2. K \cap 1..0 = {} /\ Cardinality({}) = 0
    BY FS_EmptySet
  <2>3. << >> \in Seq(S) /\ Len(<< >>) = 0
    OBVIOUS
  <2>4. Picks(<< >>, s, {}, S)
    BY <2>2, <2>3 DEF Picks
  <2>5. Picks(cat[0], s, K \cap 1..0, S)
    BY <2>1, <2>2, <2>4, Zenon
  <2> QED
    BY <2>1, <2>3, <2>5
<1>7. ASSUME NEW k \in 1..n, k - 1 \in T PROVE k \in T
  <2>1. PICK j \in Nat : j = k - 1 /\ k = j + 1 /\ j \in 0..n
    OBVIOUS
  <2>2. PICK c : c = cat[j] /\ Picks(c, s, K \cap 1..j, S)
                 /\ ((1..j) \subseteq K => Len(c) = j /\ \A i \in 1..j : c[i] = s[i])
    BY <1>7, <2>1
  <2>3. cat[k] = c \o seqs[k] /\ c \in Seq(S)
    BY <1>3, <1>4, <2>1, <2>2 DEF Joined, Picks
  <2>4. IsFiniteSet(K \cap 1..j)
    BY FS_Interval, FS_Subset
  <2>5. CASE k \in K
    <3>1. cat[k] = Append(c, s[k])
      <4>1. seqs[k] = <<s[k]>> /\ s[k] \in S
        BY <1>2, <1>3, <2>5
      <4> QED
        BY <2>3, <4>1
    <3>2. /\ cat[k] \in Seq(S) /\ Len(cat[k]) = Len(c) + 1
          /\ \A i \in 1..Len(c) : cat[k][i] = c[i]
          /\ cat[k][Len(c) + 1] = s[k]
      BY <1>2, <2>3, <3>1
    <3>3. PICK l \in Nat : l = Len(c)
      BY <2>3
    <3>4. K \cap 1..k = (K \cap 1..j) \cup {k} /\ k \notin K \cap 1..j
      BY <2>1, <2>5
    <3>5. Cardinality(K \cap 1..k) = Cardinality(K \cap 1..j) + 1
      BY <2>4, <3>4, FS_AddElement
    <3>6. ASSUME NEW i \in 1..Len(cat[k]) PROVE \E h \in K \cap 1..k : cat[k][i] = s[h]
      <4>1. CASE i \in 1..l
        <5>1. PICK h \in K \cap 1..j : c[i] = s[h]
          BY <2>2, <3>3, <4>1 DEF Picks
        <5>2. cat[k][i] = s[h] /\ h \in K \cap 1..k
          BY <3>2, <3>3, <3>4, <4>1, <5>1
        <5> QED
          BY <5>2
      <4>2. CASE i = l + 1
        BY <3>2, <3>3, <3>4, <4>2
      <4> QED
        BY <3>2, <3>3, <4>1, <4>2
    <3>7. Picks(cat[k], s, K \cap 1..k, S)
      BY <2>2, <3>2, <3>5, <3>6 DEF Picks
    <3>8. ASSUME (1..k) \subseteq K PROVE Len(cat[k]) = k /\ \A i \in 1..k : cat[k][i] = s[i]
      <4>1. (1..j) \subseteq K
        BY <2>1, <3>8
      <4>2. l = j /\ \A i \in 1..j : c[i] = s[i]
        BY <2>2, <3>3, <4>1
      <4>3. Len(cat[k]) = k
        BY <2>1, <3>2, <3>3, <4>2
      <4>4. ASSUME NEW i \in 1..k PROVE cat[k][i] = s[i]
        <5>1. CASE i \in 1..j
          BY <3>2, <3>3, <4>2, <5>1
        <5>2. CASE i = k
          BY <2>1, <3>2, <3>3, <4>2, <5>2
        <5> QED
          BY <2>1, <5>1, <5>2
      <4> QED
        BY <4>3, <4>4
    <3> QED
      BY <3>7, <3>8
  <2>6. CASE k \notin K
    <3>1. cat[k] = c
      <4>1. seqs[k] = << >>
        BY <1>3, <2>6
      <4> QED
        BY <2>3, <4>1
    <3>2. K \cap 1..k = K \cap 1..j
      BY <2>1, <2>6
    <3>3. ~((1..k) \subseteq K)
      BY <2>6
    <3>4. Picks(cat[k], s, K \cap 1..k, S)
      BY <2>2, <3>1, <3>2, Zenon
    <3> QED
      BY <3>3, <3>4
  <2> QED
    BY <2>5, <2>6
<1>8. n \in T
  <2> HIDE DEF T
  <2> QED
    BY <1>6, <1>7, Climb
<1>9. K \cap 1..n = K
  OBVIOUS
<1>10. Picks(Chosen(s, K), s, K, S)
  BY <1>5, <1>8, <1>9
<1>11. ASSUME K = 1..n PROVE Chosen(s, K) = s
  <2>1. PICK c : c = cat[n] /\ c \in Seq(S) /\ Len(c) = n /\ \A i \in 1..n : c[i] = s[i]
    BY <1>8, <1>11 DEF Picks
  <2>2. c \in [1..n -> S]
    BY <2>1
  <2>3. c = s
    BY <2>1, <2>2
  <2> QED
    BY <1>5, <2>1, <2>3
<1> QED
  BY <1>10, <1>11

\* x and y have the same texts.
Alike(x, y) == Len(x) = Len(y) /\ \A i \in 1..Len(x) : x[i].sql = y[i].sql

\* What is joined from sequences with the same texts has the same texts.
LEMMA JoinedAlike ==
    ASSUME NEW S, NEW a \in Seq(Seq(S)), NEW b \in Seq(Seq(S)), Len(a) = Len(b),
           \A k \in 1..Len(a) : Alike(a[k], b[k])
    PROVE  Alike(FlattenSeq(a), FlattenSeq(b))
<1>1. PICK n \in Nat : n = Len(a)
  OBVIOUS
<1>2. PICK c : Joined(c, a, S) /\ FlattenSeq(a) = c[n]
  BY <1>1, FlattenGoes
<1>3. PICK d : Joined(d, b, S) /\ FlattenSeq(b) = d[n]
  BY <1>1, FlattenGoes
<1> DEFINE T == {k \in 0..n : Alike(c[k], d[k])}
<1>4. 0 \in T
  BY <1>2, <1>3 DEF Joined, Alike
<1>5. ASSUME NEW k \in 1..n, k - 1 \in T PROVE k \in T
  <2>1. PICK x \in Seq(S) : x = c[k - 1]
    BY <1>1, <1>2 DEF Joined
  <2>2. PICK y \in Seq(S) : y = d[k - 1]
    BY <1>1, <1>3 DEF Joined
  <2>3. PICK u \in Seq(S) : u = a[k]
    BY <1>1
  <2>4. PICK v \in Seq(S) : v = b[k]
    BY <1>1
  <2>5. c[k] = x \o u /\ d[k] = y \o v
    BY <1>1, <1>2, <1>3, <2>1, <2>2, <2>3, <2>4 DEF Joined
  <2>6. Alike(x, y) /\ Alike(u, v)
    BY <1>1, <1>5, <2>1, <2>2, <2>3, <2>4
  <2>7. PICK l \in Nat, m \in Nat : l = Len(x) /\ l = Len(y) /\ m = Len(u) /\ m = Len(v)
    BY <2>6 DEF Alike
  <2>8. /\ Len(c[k]) = l + m /\ Len(d[k]) = l + m
        /\ \A i \in 1 .. l + m : c[k][i] = IF i <= l THEN x[i] ELSE u[i - l]
        /\ \A i \in 1 .. l + m : d[k][i] = IF i <= l THEN y[i] ELSE v[i - l]
    <3>1. /\ Len(x \o u) = Len(x) + Len(u)
          /\ \A i \in 1 .. Len(x) + Len(u) : (x \o u)[i] = IF i <= Len(x) THEN x[i] ELSE u[i - Len(x)]
      BY ONLY ConcatProperties, x \in Seq(S), u \in Seq(S)
    <3>2. /\ Len(y \o v) = Len(y) + Len(v)
          /\ \A i \in 1 .. Len(y) + Len(v) : (y \o v)[i] = IF i <= Len(y) THEN y[i] ELSE v[i - Len(y)]
      BY ONLY ConcatProperties, y \in Seq(S), v \in Seq(S)
    <3> QED
      BY <2>5, <2>7, <3>1, <3>2
  <2>9. ASSUME NEW i \in 1 .. l + m PROVE c[k][i].sql = d[k][i].sql
    <3>1. CASE i <= l
      <4>1. i \in 1..l
        BY <3>1
      <4>2. c[k][i] = x[i] /\ d[k][i] = y[i]
        BY <2>8, <3>1
      <4>3. x[i].sql = y[i].sql
        BY <2>6, <2>7, <4>1 DEF Alike
      <4> QED
        BY <4>2, <4>3
    <3>2. CASE i > l
      <4>1. PICK j \in 1..m : j = i - l
        BY <3>2
      <4>2. c[k][i] = u[j] /\ d[k][i] = v[j]
        BY <2>8, <3>2, <4>1
      <4>3. u[j].sql = v[j].sql
        BY <2>6, <2>7 DEF Alike
      <4> QED
        BY <4>2, <4>3
    <3> QED
      BY <3>1, <3>2
  <2> QED
    BY <2>8, <2>9 DEF Alike
<1>6. Alike(c[n], d[n])
  <2>1. n \in Nat /\ n \in 0..n
    OBVIOUS
  <2>2. \A k \in 0..n : k \in T
    <3> HIDE DEF T
    <3> QED
      BY <1>4, <1>5, <2>1, Climb
  <2> QED
    BY <2>1, <2>2
<1> QED
  BY <1>2, <1>3, <1>6

-----------------------------------------------------------------------------
(***************************************************************************)
(* What a replay returns.                                                  *)
(***************************************************************************)
QueryType == [sql : STRING, kind : STRING, start_offset_us : Nat, duration_us : Nat, transaction_id : Nat]
ProfileType == Seq([id : Nat, queries : Seq(QueryType)])
Outcome == [sql : STRING, original_duration_us : Nat, replay_duration_us : Nat, success : BOOLEAN]
ResultType == Seq([session_id : Nat, query_results : Seq(Outcome)])

ResultsOf(profile, ways, read_only) ==
    [k \in DOMAIN Returned(profile, ways) |->
        [session_id |-> profile[Returned(profile, ways)[k]].id,
         query_results |-> QueryResults(profile[Returned(profile, ways)[k]], ways[Returned(profile, ways)[k]], read_only)]]

\* The texts of a session's results do not depend on how it went.
LEMMA QueryResultsAre ==
    ASSUME NEW session, session.queries \in Seq(QueryType), NEW way, NEW other, NEW read_only
    PROVE  /\ QueryResults(session, way, read_only) \in Seq(Outcome)
           /\ Alike(QueryResults(session, way, read_only), QueryResults(session, other, read_only))
<1>1. PICK q \in Seq(QueryType) : q = session.queries
  OBVIOUS
<1>2. PICK n \in Nat : n = Len(q) /\ DOMAIN q = 1..n /\ q \in [1..n -> QueryType]
  OBVIOUS
<1>3. PICK K : K = {k \in 1..n : Replays(q[k], read_only)}
  OBVIOUS
<1>4. PICK r : r = Chosen(q, K)
  OBVIOUS
<1>5. r \in Seq(QueryType)
  <2>1. K \in SUBSET (1..n)
    BY <1>3
  <2>2. Picks(Chosen(q, K), q, K, QueryType)
    BY <1>2, <2>1, Choosing
  <2> QED
    BY <1>4, <2>2 DEF Picks
<1>6. Those(session.queries, LAMBDA x : Replays(x, read_only)) = r
  <2>1. Those(q, LAMBDA x : Replays(x, read_only)) = FlattenSeq([k \in DOMAIN q |-> IF Replays(q[k], read_only) THEN <<q[k]>> ELSE << >>])
    BY DEF Those
  <2>2. [k \in DOMAIN q |-> IF Replays(q[k], read_only) THEN <<q[k]>> ELSE << >>]
          = [k \in DOMAIN q |-> IF k \in K THEN <<q[k]>> ELSE << >>]
    BY <1>2, <1>3
  <2> QED
    BY <1>1, <1>4, <2>1, <2>2 DEF Chosen
<1> DEFINE e(w, k) == [sql |-> r[k].sql, original_duration_us |-> r[k].duration_us,
                       replay_duration_us |-> IF w = "slow" THEN 2 * r[k].duration_us + 1 ELSE r[k].duration_us,
                       success |-> ~(w = "error" /\ k = Len(r))]
<1>7. \A w : QueryResults(session, w, read_only) = [k \in DOMAIN r |-> e(w, k)]
  BY <1>6 DEF QueryResults
<1>8. PICK m \in Nat : m = Len(r) /\ DOMAIN r = 1..m
  BY <1>5
<1>9. ASSUME NEW w PROVE QueryResults(session, w, read_only) \in Seq(Outcome) /\ Len(QueryResults(session, w, read_only)) = m
                         /\ \A k \in 1..m : QueryResults(session, w, read_only)[k].sql = r[k].sql
  <2>1. ASSUME NEW k \in 1..m PROVE e(w, k) \in Outcome /\ e(w, k).sql = r[k].sql
    <3>1. r[k] \in QueryType
      BY <1>5, <1>8
    <3>2. r[k].sql \in STRING /\ r[k].duration_us \in Nat
      BY <3>1 DEF QueryType
    <3>3. PICK d \in Nat : d = IF w = "slow" THEN 2 * r[k].duration_us + 1 ELSE r[k].duration_us
      BY <3>2
    <3>4. PICK b \in BOOLEAN : b = ~(w = "error" /\ k = Len(r))
      OBVIOUS
    <3>5. e(w, k) = [sql |-> r[k].sql, original_duration_us |-> r[k].duration_us, replay_duration_us |-> d, success |-> b]
      BY <3>3, <3>4
    <3> QED
      BY <3>2, <3>5 DEF Outcome
  <2> HIDE DEF e
  <2>2. QueryResults(session, w, read_only) = [k \in 1..m |-> e(w, k)]
    BY <1>7, <1>8
  <2> QED
    BY <2>1, <2>2
<1> QED
  BY <1>9 DEF Alike

\* Which sessions returned.
LEMMA ReturnedAre ==
    ASSUME NEW profile \in ProfileType, NEW n \in Nat, n = Len(profile), NEW ways, NEW r, r = Returned(profile, ways)
    PROVE  /\ r \in Seq(1..n) /\ Len(r) \in Nat /\ Len(r) <= n
           /\ Len(r) = n => r = [s \in 1..n |-> s]
<1>1. PICK s : s = [k \in 1..n |-> k]
  OBVIOUS
<1>2. s \in [1..n -> 1..n]
  BY <1>1
<1>3. PICK K : K = {k \in 1..n : ways[k] # "refused"}
  OBVIOUS
<1>4. r = Chosen(s, K)
  <2>1. DOMAIN profile = 1..n
    BY DEF ProfileType
  <2>2. Returned(profile, ways) = FlattenSeq([k \in DOMAIN s |-> IF ways[s[k]] # "refused" THEN <<s[k]>> ELSE << >>])
    BY <1>1, <2>1, Zenon DEF Returned, Those
  <2>3. [k \in DOMAIN s |-> IF ways[s[k]] # "refused" THEN <<s[k]>> ELSE << >>]
          = [k \in DOMAIN s |-> IF k \in K THEN <<s[k]>> ELSE << >>]
    BY <1>1, <1>3
  <2> QED
    BY <2>2, <2>3 DEF Chosen
<1>5. K \in SUBSET (1..n)
  BY <1>3
<1>6. Picks(r, s, K, 1..n) /\ (K = 1..n => r = s)
  BY <1>2, <1>4, <1>5, Choosing
<1>7. Cardinality(K) <= n /\ (Cardinality(K) = n => K = 1..n)
  <2>1. IsFiniteSet(1..n) /\ Cardinality(1..n) = n
    BY ONLY n \in Nat, FS_Interval
  <2>2. IsFiniteSet(K) /\ Cardinality(K) <= Cardinality(1..n)
        /\ (Cardinality(1..n) = Cardinality(K) => K = 1..n)
    BY <1>5, <2>1, FS_Subset
  <2> QED
    BY <2>1, <2>2
<1> QED
  BY <1>1, <1>6, <1>7 DEF Picks

\* What run_replay returns, a result for each of them.
LEMMA ResultsAre ==
    ASSUME NEW profile \in ProfileType, NEW ways, NEW read_only
    PROVE  /\ ResultsOf(profile, ways, read_only) \in ResultType
           /\ Len(ResultsOf(profile, ways, read_only)) = Len(Returned(profile, ways))
<1>1. PICK n \in Nat : n = Len(profile)
  BY DEF ProfileType
<1>2. PICK r : r = Returned(profile, ways)
  OBVIOUS
<1>3. r \in Seq(1..n) /\ Len(r) \in Nat
  BY <1>1, <1>2, ReturnedAre
<1>4. PICK m \in Nat : m = Len(r) /\ DOMAIN r = 1..m
  BY <1>3
<1> DEFINE e(k) == [session_id |-> profile[r[k]].id, query_results |-> QueryResults(profile[r[k]], ways[r[k]], read_only)]
<1>5. ASSUME NEW k \in 1..m PROVE e(k) \in [session_id : Nat, query_results : Seq(Outcome)]
  <2>1. r[k] \in 1..n
    BY <1>3, <1>4
  <2>2. profile[r[k]] \in [id : Nat, queries : Seq(QueryType)]
    BY <1>1, <2>1, ElementOfSeq, Zenon DEF ProfileType
  <2>3. profile[r[k]].id \in Nat /\ profile[r[k]].queries \in Seq(QueryType)
    BY <2>2
  <2>4. QueryResults(profile[r[k]], ways[r[k]], read_only) \in Seq(Outcome)
    BY <2>3, QueryResultsAre
  <2> QED
    BY <2>3, <2>4
<1>6. ResultsOf(profile, ways, read_only) = [k \in 1..m |-> e(k)]
  BY <1>2, <1>4 DEF ResultsOf
<1> HIDE DEF e
<1> QED
  BY <1>2, <1>4, <1>5, <1>6 DEF ResultType

\* The queries of a result.
LEMMA ExecutedType ==
    ASSUME NEW r \in ResultType
    PROVE  Executed(r) \in Seq(Outcome)
<1>1. PICK n \in Nat : n = Len(r) /\ DOMAIN r = 1..n
  BY DEF ResultType
<1>2. ASSUME NEW k \in 1..n PROVE r[k].query_results \in Seq(Outcome)
  <2>1. r[k] \in [session_id : Nat, query_results : Seq(Outcome)]
    BY <1>1, ElementOfSeq, Zenon DEF ResultType
  <2> QED
    BY <2>1
<1>3. PICK q : q = [k \in 1..n |-> r[k].query_results]
  OBVIOUS
<1>4. q \in Seq(Seq(Outcome))
  BY <1>2, <1>3
<1>5. Executed(r) = FlattenSeq(q)
  BY <1>1, <1>3 DEF Executed, Each
<1> QED
  BY <1>4, <1>5, FlattenType

\* When no session was refused, a place is the same query whatever the way.
LEMMA ResultsAlike ==
    ASSUME NEW profile \in ProfileType, NEW ways, NEW others, NEW read_only,
           Len(Returned(profile, ways)) = Len(profile), Len(Returned(profile, others)) = Len(profile)
    PROVE  Alike(Executed(ResultsOf(profile, ways, read_only)), Executed(ResultsOf(profile, others, read_only)))
<1>1. PICK n \in Nat : n = Len(profile)
  BY DEF ProfileType
<1>2. Returned(profile, ways) = [s \in 1..n |-> s] /\ Returned(profile, others) = [s \in 1..n |-> s]
  BY <1>1, ReturnedAre
<1> DEFINE Lists(w) == [k \in 1..n |-> QueryResults(profile[k], w[k], read_only)]
<1>3. ASSUME NEW w, Returned(profile, w) = [s \in 1..n |-> s]
      PROVE  Executed(ResultsOf(profile, w, read_only)) = FlattenSeq(Lists(w)) /\ Lists(w) \in Seq(Seq(Outcome)) /\ Len(Lists(w)) = n
  <2>1. ResultsOf(profile, w, read_only) = [k \in 1..n |-> [session_id |-> profile[k].id, query_results |-> QueryResults(profile[k], w[k], read_only)]]
    BY <1>3 DEF ResultsOf
  <2>2. Executed(ResultsOf(profile, w, read_only)) = FlattenSeq(Lists(w))
    <3>1. PICK e : e = ResultsOf(profile, w, read_only)
      OBVIOUS
    <3>2. [k \in DOMAIN e |-> e[k].query_results] = Lists(w)
      BY <2>1, <3>1
    <3>3. Executed(e) = FlattenSeq([k \in DOMAIN e |-> e[k].query_results])
      BY DEF Executed, Each
    <3> HIDE DEF Lists
    <3> QED
      BY <3>1, <3>2, <3>3, Zenon
  <2>3. ASSUME NEW k \in 1..n PROVE QueryResults(profile[k], w[k], read_only) \in Seq(Outcome)
    <3>1. profile[k] \in [id : Nat, queries : Seq(QueryType)]
      BY <1>1, ElementOfSeq, Zenon DEF ProfileType
    <3>2. profile[k].queries \in Seq(QueryType)
      BY <3>1
    <3> QED
      BY <3>2, QueryResultsAre
  <2> QED
    BY <2>2, <2>3
<1>4. PICK a, b : a = Lists(ways) /\ b = Lists(others)
  OBVIOUS
<1>5. ASSUME NEW k \in 1..n PROVE Alike(a[k], b[k])
  <2>1. profile[k] \in [id : Nat, queries : Seq(QueryType)]
    BY <1>1, ElementOfSeq, Zenon DEF ProfileType
  <2>2. profile[k].queries \in Seq(QueryType)
    BY <2>1
  <2>3. Alike(QueryResults(profile[k], ways[k], read_only), QueryResults(profile[k], others[k], read_only))
    BY <2>2, QueryResultsAre
  <2> QED
    BY <1>4, <2>3
<1> HIDE DEF Lists
<1>6. a \in Seq(Seq(Outcome)) /\ b \in Seq(Seq(Outcome)) /\ Len(a) = n /\ Len(b) = n
  BY <1>2, <1>3, <1>4
<1>7. Alike(FlattenSeq(a), FlattenSeq(b))
  BY <1>5, <1>6, JoinedAlike
<1> QED
  BY <1>2, <1>3, <1>4, <1>7

-----------------------------------------------------------------------------
(***************************************************************************)
(* The report and its thresholds.                                          *)
(***************************************************************************)
\* How long the queries took, and which of them became slower.
TimesOf(q, n) == [k \in 1..n |-> q[k].replay_duration_us]
SlowerOf(q, n, pct) ==
    {k \in 1..n : q[k].original_duration_us > 0
                  /\ Slower(q[k].original_duration_us, q[k].replay_duration_us, pct)}

\* The members of a report that its thresholds and the outcome look at.
LEMMA ReportIs ==
    ASSUME NEW earlier, NEW q \in Seq(Outcome), NEW n \in Nat, n = Len(q), NEW outcome, Executed(outcome) = q,
           NEW pct, NEW report1, report1 = compute_comparison(earlier, outcome, pct),
           NEW lat, lat = TimesOf(q, n), NEW K, K = SlowerOf(q, n, pct)
    PROVE  /\ lat \in [1..n -> Nat]
           /\ report1.total_errors = Errors(q)
           /\ report1.total_queries_replayed = n
           /\ report1.replay_p95_latency_us = percentile(Sorted(lat), 95)
           /\ report1.replay_p99_latency_us = percentile(Sorted(lat), 99)
           /\ Cardinality(K) \in Nat /\ Len(report1.regressions) = Cardinality(K)
           /\ report1.regressions = << >> <=> Cardinality(K) = 0
<1>1. DOMAIN q = 1..n /\ q \in [1..n -> Outcome]
  OBVIOUS
<1>2. lat \in [1..n -> Nat]
  <2>1. ASSUME NEW k \in 1..n PROVE q[k].replay_duration_us \in Nat
    <3>1. q[k] \in Outcome
      BY <1>1
    <3> QED
      BY <3>1 DEF Outcome
  <2> QED
    BY <2>1 DEF TimesOf
<1>3. Latencies(q) = Sorted(lat)
  BY <1>1 DEF Latencies, Each, TimesOf
<1>4. Len(Sorted(lat)) = n
  BY <1>2, SortedType
<1> DEFINE P(o) == /\ o.original_duration_us > 0
                   /\ Slower(o.original_duration_us, o.replay_duration_us, pct)
           change(o) == [sql |-> o.sql, old |-> o.original_duration_us, new |-> o.replay_duration_us]
<1>5. /\ report1.total_errors = Errors(q)
      /\ report1.total_queries_replayed = n
      /\ report1.replay_p95_latency_us = percentile(Sorted(lat), 95)
      /\ report1.replay_p99_latency_us = percentile(Sorted(lat), 99)
      /\ report1.regressions = Sort(Each(Those(q, P), change), Worse)
  BY <1>3, <1>4 DEF compute_comparison
<1>6. K \in SUBSET (1..n)
  BY <1>1 DEF SlowerOf
<1>7. PICK r : r = Those(q, P)
  OBVIOUS
<1>8. r = Chosen(q, K)
  <2>1. Those(q, P) = FlattenSeq([k \in DOMAIN q |-> IF P(q[k]) THEN <<q[k]>> ELSE << >>])
    BY DEF Those
  <2>2. [k \in DOMAIN q |-> IF P(q[k]) THEN <<q[k]>> ELSE << >>]
          = [k \in DOMAIN q |-> IF k \in K THEN <<q[k]>> ELSE << >>]
    BY <1>1 DEF SlowerOf
  <2> QED
    BY <1>7, <2>1, <2>2 DEF Chosen
<1>9. r \in Seq(Outcome) /\ Len(r) = Cardinality(K)
  <2>1. Picks(Chosen(q, K), q, K, Outcome)
    BY <1>1, <1>6, Choosing
  <2> QED
    BY <1>8, <2>1 DEF Picks
<1>10. PICK m \in Nat : m = Len(r) /\ DOMAIN r = 1..m
  <2>1. r \in Seq(Outcome)
    BY <1>9
  <2> QED
    BY ONLY <2>1
<1> HIDE DEF P
<1>11. PICK x : x = Each(r, change)
  OBVIOUS
<1>12. DOMAIN x = 1..m
  BY <1>10, <1>11 DEF Each
<1>13. DOMAIN report1.regressions = 1..m
       /\ \E g : report1.regressions = [i \in 1..m |-> g[i]]
  <2>1. report1.regressions = Sort(x, Worse)
    BY <1>5, <1>7, <1>11
  <2>2. PICK h : h = Sort(x, Worse)
    OBVIOUS
  <2>3. h = [i \in DOMAIN x |-> x[CHOOSE k \in DOMAIN x : Cardinality({j \in DOMAIN x :
                  j = k \/ Worse(x[j], x[k]) \/ (j < k /\ ~Worse(x[k], x[j]))}) = i]]
    BY <2>2 DEF Sort
  <2>4. h = [i \in DOMAIN x |-> h[i]]
    BY <2>3
  <2> QED
    BY <1>12, <2>1, <2>2, <2>4
<1>14. PICK g : report1.regressions = [i \in 1..m |-> g[i]]
  BY <1>13
<1>15. report1.regressions \in Seq({g[i] : i \in 1..m}) /\ Len(report1.regressions) = m
  BY <1>14
<1>16. report1.regressions = << >> <=> m = 0
  BY <1>15, EmptySeq
<1> QED
  BY <1>2, <1>5, <1>9, <1>10, <1>15, <1>16

\* A check that is made is passed exactly when the limit is kept.
LEMMA CheckIs ==
    ASSUME NEW S, NEW name, NEW limits, NEW passed \in BOOLEAN, limits = {} => passed,
           [name |-> name, passed |-> passed] \in S
    PROVE  /\ Check(name, limits, passed) \in Seq(S)
           /\ all_passed(Check(name, limits, passed)) <=> passed
<1>1. CASE limits = {}
  <2>1. passed = TRUE
    BY <1>1
  <2>2. Check(name, limits, passed) = << >>
    BY <1>1 DEF Check
  <2> QED
    BY <2>1, <2>2 DEF all_passed
<1>2. CASE limits # {}
  <2>1. PICK r : r = [name |-> name, passed |-> passed]
    OBVIOUS
  <2>2. r \in S /\ r.passed = passed
    BY <2>1
  <2>3. Check(name, limits, passed) = <<r>>
    BY <1>2, <2>1 DEF Check
  <2>4. DOMAIN <<r>> = {1} /\ <<r>>[1] = r
    OBVIOUS
  <2>5. all_passed(<<r>>) <=> r.passed
    BY <2>4, Zenon DEF all_passed
  <2> QED
    BY <2>2, <2>3, <2>5
<1> QED
  BY <1>1, <1>2

\* Checks one after the other are passed when each is.
LEMMA PassedJoined ==
    ASSUME NEW S, NEW a \in Seq(S), NEW b \in Seq(S)
    PROVE  /\ a \o b \in Seq(S)
           /\ all_passed(a \o b) <=> all_passed(a) /\ all_passed(b)
<1>1. PICK l \in Nat, m \in Nat : l = Len(a) /\ m = Len(b) /\ DOMAIN a = 1..l /\ DOMAIN b = 1..m
  OBVIOUS
<1>2. /\ a \o b \in Seq(S)
      /\ Len(a \o b) = Len(a) + Len(b)
      /\ \A i \in 1 .. Len(a) + Len(b) : (a \o b)[i] = IF i <= Len(a) THEN a[i] ELSE b[i - Len(a)]
  BY ONLY ConcatProperties, a \in Seq(S), b \in Seq(S)
<1>3. PICK c : c = a \o b
  OBVIOUS
<1>4. DOMAIN c = 1 .. l + m
  BY <1>1, <1>2, <1>3
<1>5. \A i \in 1 .. l + m : c[i] = IF i <= l THEN a[i] ELSE b[i - l]
  BY <1>1, <1>2, <1>3
<1>6. ASSUME all_passed(c) PROVE all_passed(a)
  <2>1. ASSUME NEW k \in 1..l PROVE a[k].passed
    <3>1. k \in 1 .. l + m /\ k <= l
      BY <1>1, <2>1
    <3>2. c[k] = a[k]
      BY <1>5, <3>1
    <3>3. c[k].passed
      BY <1>4, <1>6, <3>1 DEF all_passed
    <3> QED
      BY <3>2, <3>3
  <2> QED
    BY <1>1, <2>1 DEF all_passed
<1>7. ASSUME all_passed(c) PROVE all_passed(b)
  <2>1. ASSUME NEW k \in 1..m PROVE b[k].passed
    <3>1. PICK i : i = l + k
      OBVIOUS
    <3>2. i \in 1 .. l + m /\ ~(i <= l) /\ i - l = k
      BY <1>1, <2>1, <3>1
    <3>3. c[i] = b[k]
      BY <1>5, <3>2
    <3>4. c[i].passed
      BY <1>4, <1>7, <3>2 DEF all_passed
    <3> QED
      BY <3>3, <3>4
  <2> QED
    BY <1>1, <2>1 DEF all_passed
<1>8. ASSUME all_passed(a), all_passed(b) PROVE all_passed(c)
  <2>1. ASSUME NEW i \in 1 .. l + m PROVE c[i].passed
    <3>1. CASE i <= l
      <4>1. i \in 1..l /\ c[i] = a[i]
        BY <1>5, <2>1, <3>1
      <4> QED
        BY <1>1, <1>8, <4>1 DEF all_passed
    <3>2. CASE ~(i <= l)
      <4>1. i - l \in 1..m /\ c[i] = b[i - l]
        BY <1>1, <1>5, <2>1, <3>2
      <4> QED
        BY <1>1, <1>8, <4>1 DEF all_passed
    <3> QED
      BY <3>1, <3>2
  <2> QED
    BY <1>4, <2>1 DEF all_passed
<1> QED
  BY <1>2, <1>3, <1>6, <1>7, <1>8

\* All thresholds are passed exactly when each number that is a limit is kept.
LEMMA ThresholdsAre ==
    ASSUME NEW r, NEW limits,
           NEW a \in BOOLEAN, a = \A us \in limits.p95_max : r.replay_p95_latency_us <= us,
           NEW b \in BOOLEAN, b = \A us \in limits.p99_max : r.replay_p99_latency_us <= us,
           NEW c \in BOOLEAN, c = \A pct \in limits.error_rate_max_pct :
                                  100 * r.total_errors <= pct * r.total_queries_replayed,
           NEW d \in BOOLEAN, d = \A n \in limits.regression_max_count : Len(r.regressions) <= n
    PROVE  /\ \E S : evaluate_thresholds(r, limits) \in Seq(S)
           /\ all_passed(evaluate_thresholds(r, limits)) <=> a /\ b /\ c /\ d
<1> DEFINE S == [name : {"p95_latency", "p99_latency", "error_rate", "regression_count"}, passed : BOOLEAN]
           C1 == Check("p95_latency", limits.p95_max, a)
           C2 == Check("p99_latency", limits.p99_max, b)
           C3 == Check("error_rate", limits.error_rate_max_pct, c)
           C4 == Check("regression_count", limits.regression_max_count, d)
<1>1. evaluate_thresholds(r, limits) = C1 \o C2 \o C3 \o C4
  BY DEF evaluate_thresholds
<1>2. C1 \in Seq(S) /\ (all_passed(C1) <=> a)
  <2>1. [name |-> "p95_latency", passed |-> a] \in S
    OBVIOUS
  <2>2. limits.p95_max = {} => a
    OBVIOUS
  <2> QED
    BY <2>1, <2>2, CheckIs
<1>3. C2 \in Seq(S) /\ (all_passed(C2) <=> b)
  <2>1. [name |-> "p99_latency", passed |-> b] \in S
    OBVIOUS
  <2>2. limits.p99_max = {} => b
    OBVIOUS
  <2> QED
    BY <2>1, <2>2, CheckIs
<1>4. C3 \in Seq(S) /\ (all_passed(C3) <=> c)
  <2>1. [name |-> "error_rate", passed |-> c] \in S
    OBVIOUS
  <2>2. limits.error_rate_max_pct = {} => c
    OBVIOUS
  <2> QED
    BY <2>1, <2>2, CheckIs
<1>5. C4 \in Seq(S) /\ (all_passed(C4) <=> d)
  <2>1. [name |-> "regression_count", passed |-> d] \in S
    OBVIOUS
  <2>2. limits.regression_max_count = {} => d
    OBVIOUS
  <2> QED
    BY <2>1, <2>2, CheckIs
<1> HIDE DEF S, C1, C2, C3, C4
<1>6. C1 \o C2 \in Seq(S) /\ (all_passed(C1 \o C2) <=> a /\ b)
  BY <1>2, <1>3, PassedJoined
<1>7. C1 \o C2 \o C3 \in Seq(S) /\ (all_passed(C1 \o C2 \o C3) <=> a /\ b /\ c)
  BY <1>4, <1>6, PassedJoined
<1>8. C1 \o C2 \o C3 \o C4 \in Seq(S) /\ (all_passed(C1 \o C2 \o C3 \o C4) <=> a /\ b /\ c /\ d)
  BY <1>5, <1>7, PassedJoined
<1> QED
  BY <1>1, <1>8

\* The XML has a failure for a check that is not passed.
LEMMA JunitFails ==
    ASSUME NEW S, NEW c \in Seq(S), ~all_passed(c)
    PROVE  junit(c).failures > 0
<1>1. PICK n \in Nat : n = Len(c) /\ DOMAIN c = 1..n
  OBVIOUS
<1>2. PICK K : K = {k \in 1..n : ~c[k].passed}
  OBVIOUS
<1>3. junit(c).failures = Cardinality(K)
  BY <1>1, <1>2 DEF junit, CountOf
<1>4. IsFiniteSet(1..n)
  BY ONLY n \in Nat, FS_Interval
<1>5. K \subseteq 1..n /\ K # {}
  BY <1>1, <1>2 DEF all_passed
<1>6. IsFiniteSet(K)
  BY <1>4, <1>5, FS_Subset
<1>7. Cardinality(K) \in Nat /\ Cardinality(K) # 0
  BY <1>5, <1>6, FS_CardinalityType, FS_EmptySet
<1> QED
  BY <1>3, <1>7

-----------------------------------------------------------------------------
(***************************************************************************)
(* The order of the changes.                                               *)
(***************************************************************************)
\* A factor other than 0 can be cancelled.
LEMMA TimesLess ==
    ASSUME NEW a \in Nat, NEW b \in Nat, NEW c \in Nat, c > 0
    PROVE  a * c < b * c <=> a < b
<1>1. ASSUME a < b PROVE a * c < b * c
  <2>1. PICK d \in Nat : b = a + d /\ d > 0
    <3>1. b - a \in Nat /\ b = a + (b - a) /\ b - a > 0
      BY <1>1
    <3> QED
      BY <3>1
  <2>2. b * c = a * c + d * c
    BY ONLY <2>1, a \in Nat, d \in Nat, c \in Nat
  <2>3. d * c > 0 /\ a * c \in Nat
    BY ONLY <2>1, d \in Nat, d > 0, c \in Nat, c > 0, a \in Nat
  <2> QED
    BY <2>2, <2>3
<1>2. ASSUME b <= a PROVE b * c <= a * c
  <2>1. PICK d \in Nat : a = b + d
    <3>1. a - b \in Nat /\ a = b + (a - b)
      BY <1>2
    <3> QED
      BY <3>1
  <2>2. a * c = b * c + d * c
    BY ONLY <2>1, b \in Nat, d \in Nat, c \in Nat
  <2>3. d * c \in Nat /\ b * c \in Nat
    BY ONLY d \in Nat, c \in Nat, b \in Nat
  <2> QED
    BY <2>2, <2>3
<1>3. a * c \in Nat /\ b * c \in Nat
  OBVIOUS
<1> QED
  BY <1>1, <1>2, <1>3

\* Fractions compared crosswise are ordered.
LEMMA CrossOrder ==
    ASSUME NEW x \in Nat, NEW y \in Nat, NEW z \in Nat,
           NEW p \in Nat, NEW q \in Nat, NEW r \in Nat, p > 0, q > 0, r > 0,
           x * q <= y * p, y * r <= z * q
    PROVE  /\ x * r <= z * p
           /\ x * q < y * p \/ y * r < z * q => x * r < z * p
<1>1. /\ x * q \in Nat /\ y * p \in Nat /\ y * r \in Nat /\ z * q \in Nat /\ x * r \in Nat /\ z * p \in Nat
  OBVIOUS
<1>2. (x * q) * r <= (y * p) * r /\ (x * q < y * p => (x * q) * r < (y * p) * r)
  <2>1. /\ (x * q) * r < (y * p) * r <=> x * q < y * p
        /\ (y * p) * r < (x * q) * r <=> y * p < x * q
    BY ONLY <1>1, r \in Nat, r > 0, TimesLess
  <2>2. (x * q) * r \in Nat /\ (y * p) * r \in Nat
    BY ONLY <1>1, r \in Nat
  <2> QED
    BY <1>1, <2>1, <2>2
<1>3. (y * r) * p <= (z * q) * p /\ (y * r < z * q => (y * r) * p < (z * q) * p)
  <2>1. /\ (y * r) * p < (z * q) * p <=> y * r < z * q
        /\ (z * q) * p < (y * r) * p <=> z * q < y * r
    BY ONLY <1>1, p \in Nat, p > 0, TimesLess
  <2>2. (y * r) * p \in Nat /\ (z * q) * p \in Nat
    BY ONLY <1>1, p \in Nat
  <2> QED
    BY <1>1, <2>1, <2>2
<1>4. /\ (x * q) * r = (x * r) * q
      /\ (y * p) * r = (y * r) * p
      /\ (z * q) * p = (z * p) * q
  BY ONLY x \in Nat, y \in Nat, z \in Nat, p \in Nat, q \in Nat, r \in Nat
<1>5. /\ (x * r) * q < (z * p) * q <=> x * r < z * p
      /\ (z * p) * q < (x * r) * q <=> z * p < x * r
  BY ONLY <1>1, q \in Nat, q > 0, TimesLess
<1>6. (x * r) * q \in Nat /\ (z * p) * q \in Nat /\ (y * r) * p \in Nat
  BY ONLY <1>1, p \in Nat, q \in Nat
<1>7. (x * r) * q <= (z * p) * q /\ (x * q < y * p \/ y * r < z * q => (x * r) * q < (z * p) * q)
  BY ONLY <1>2, <1>3, <1>4, <1>6
<1> QED
  BY ONLY <1>1, <1>5, <1>6, <1>7

\* Changes are from a time that is not 0.
Changes(S) == \A c \in S : c.old \in Nat /\ c.new \in Nat /\ c.old > 0

\* One change is worse than another when its factor is the larger one (the sort of compare/mod.rs).
LEMMA WorseIs ==
    ASSUME NEW S, Changes(S), NEW a \in S, NEW b \in S
    PROVE  Worse(a, b) <=> b.new * a.old < a.new * b.old
<1>1. PICK m \in Nat, n \in Nat, p \in Nat, q \in Nat : m = a.new /\ n = b.new /\ p = a.old /\ q = b.old
  BY DEF Changes
<1>2. (m - p) * q = m * q - p * q /\ (n - q) * p = n * p - p * q
  BY ONLY m \in Nat, n \in Nat, p \in Nat, q \in Nat
<1>3. m * q \in Nat /\ n * p \in Nat /\ p * q \in Nat
  OBVIOUS
<1>4. (m - p) * q > (n - q) * p <=> n * p < m * q
  BY ONLY <1>2, <1>3
<1> QED
  BY <1>1, <1>4 DEF Worse

\* Of three changes.
LEMMA WorseOrder ==
    ASSUME NEW S, Changes(S), NEW a \in S, NEW b \in S, NEW c \in S
    PROVE  /\ ~(Worse(a, b) /\ Worse(b, a))
           /\ ~Worse(b, a) /\ ~Worse(c, b) => ~Worse(c, a)
           /\ ~Worse(b, a) /\ Worse(b, c) => Worse(a, c)
           /\ Worse(a, b) /\ ~Worse(c, b) => Worse(a, c)
<1>1. PICK x \in Nat, y \in Nat, z \in Nat : x = a.new /\ y = b.new /\ z = c.new
  BY DEF Changes
<1>2. PICK p \in Nat, q \in Nat, r \in Nat : p = a.old /\ q = b.old /\ r = c.old
  BY DEF Changes
<1>3. p > 0 /\ q > 0 /\ r > 0
  BY <1>2 DEF Changes
<1>4. /\ Worse(a, b) <=> y * p < x * q
      /\ Worse(b, a) <=> x * q < y * p
      /\ Worse(b, c) <=> z * q < y * r
      /\ Worse(c, b) <=> y * r < z * q
      /\ Worse(a, c) <=> z * p < x * r
      /\ Worse(c, a) <=> x * r < z * p
  BY <1>1, <1>2, WorseIs
<1>5. /\ x * q \in Nat /\ y * p \in Nat /\ y * r \in Nat /\ z * q \in Nat /\ x * r \in Nat /\ z * p \in Nat
  OBVIOUS
<1>6. z * q <= y * r /\ y * p <= x * q =>
        /\ z * p <= x * r
        /\ z * q < y * r \/ y * p < x * q => z * p < x * r
  BY ONLY <1>3, CrossOrder, x \in Nat, y \in Nat, z \in Nat, p \in Nat, q \in Nat, r \in Nat
<1> QED
  BY ONLY <1>4, <1>5, <1>6

\* A list of changes ordered by Worse has the changes of the list.
LEMMA WorseSorted ==
    ASSUME NEW S, Changes(S), NEW n \in Nat, NEW s \in [1..n -> S]
    PROVE  Sort(s, Worse) \in [1..n -> S]
<1> DEFINE Of(k) == {j \in 1..n : j = k \/ Worse(s[j], s[k]) \/ (j < k /\ ~Worse(s[k], s[j]))}
           G == [k \in 1..n |-> Of(k)]
<1>1. \A j, k \in 1..n : j \in G[k] <=> j = k \/ Worse(s[j], s[k]) \/ (j < k /\ ~Worse(s[k], s[j]))
  OBVIOUS
<1>2. \A k \in 1..n : G[k] \subseteq 1..n /\ k \in G[k]
  OBVIOUS
<1>3. \A k \in 1..n : s[k] \in S
  OBVIOUS
<1>4. ASSUME NEW j \in 1..n, NEW k \in 1..n PROVE /\ j \in G[k] /\ k \in G[j] => j = k
                                                  /\ j \in G[k] \/ k \in G[j]
  <2>1. ~(Worse(s[j], s[k]) /\ Worse(s[k], s[j]))
    BY <1>3, WorseOrder
  <2>2. j < k \/ j = k \/ k < j
    OBVIOUS
  <2>3. ~(j < k /\ k < j)
    OBVIOUS
  <2>4. /\ j \in G[k] <=> j = k \/ Worse(s[j], s[k]) \/ (j < k /\ ~Worse(s[k], s[j]))
        /\ k \in G[j] <=> k = j \/ Worse(s[k], s[j]) \/ (k < j /\ ~Worse(s[j], s[k]))
    BY <1>1
  <2> QED
    BY ONLY <2>1, <2>2, <2>3, <2>4
<1>5. ASSUME NEW i \in 1..n, NEW j \in 1..n, NEW k \in 1..n, i \in G[j], j \in G[k] PROVE i \in G[k]
  <2>1. i = j \/ Worse(s[i], s[j]) \/ (i < j /\ ~Worse(s[j], s[i]))
    BY <1>1, <1>5
  <2>2. j = k \/ Worse(s[j], s[k]) \/ (j < k /\ ~Worse(s[k], s[j]))
    BY <1>1, <1>5
  <2>3. CASE i = j \/ j = k
    BY <1>5, <2>3
  <2>4. CASE i # j /\ j # k
    <3>1. /\ ~(Worse(s[i], s[j]) /\ Worse(s[j], s[i]))
          /\ ~(Worse(s[j], s[k]) /\ Worse(s[k], s[j]))
      BY <1>3, WorseOrder
    <3>2. /\ ~Worse(s[j], s[i]) /\ ~Worse(s[k], s[j]) => ~Worse(s[k], s[i])
          /\ ~Worse(s[j], s[i]) /\ Worse(s[j], s[k]) => Worse(s[i], s[k])
          /\ Worse(s[i], s[j]) /\ ~Worse(s[k], s[j]) => Worse(s[i], s[k])
      BY <1>3, WorseOrder
    <3>3. i < j /\ j < k => i < k
      OBVIOUS
    <3>4. Worse(s[i], s[k]) \/ (i < k /\ ~Worse(s[k], s[i]))
      BY ONLY <2>1, <2>2, <2>4, <3>1, <3>2, <3>3
    <3> QED
      BY <1>1, <3>4
  <2> QED
    BY <2>3, <2>4
<1> HIDE DEF G, Of
<1>6. Linear(G, n)
  BY <1>2, <1>4, <1>5 DEF Linear
<1>7. PICK At : Ranks(At, n, G)
  BY <1>6, Ranked
<1>8. Sort(s, Worse) = [m \in 1..n |-> s[At[m]]]
  <2>1. DOMAIN s = 1..n
    OBVIOUS
  <2> DEFINE Over(D) == [m \in D |-> s[CHOOSE k \in D : Cardinality({j \in D :
                  j = k \/ Worse(s[j], s[k]) \/ (j < k /\ ~Worse(s[k], s[j]))}) = m]]
  <2>2. Sort(s, Worse) = Over(DOMAIN s)
    BY DEF Sort
  <2> HIDE DEF Over
  <2>3. Sort(s, Worse) = Over(1..n)
    BY <2>1, <2>2
  <2>4. Over(1..n) = [m \in 1..n |-> s[CHOOSE k \in 1..n : Cardinality(Of(k)) = m]]
    BY DEF Over, Of
  <2>5. \A k \in 1..n : G[k] = Of(k)
    BY DEF G
  <2>6. \A m \in 1..n : (CHOOSE k \in 1..n : Cardinality(Of(k)) = m) = At[m]
    <3>1. \A m \in 1..n : At[m] = CHOOSE k \in 1..n : Cardinality(G[k]) = m
      BY <1>7 DEF Ranks
    <3> QED
      BY <2>5, <3>1
  <2> QED
    BY <2>3, <2>4, <2>6
<1>9. At \in [1..n -> 1..n]
  BY <1>7 DEF Ranks
<1> QED
  BY <1>3, <1>8, <1>9

-----------------------------------------------------------------------------
(***************************************************************************)
(* The comparison of variants and the class of a workload.                 *)
(***************************************************************************)
\* Of finitely many numbers the first smallest is one.
LEMMA FirstSmallest ==
    ASSUME NEW n \in Nat, n > 0, NEW f \in [1..n -> Nat]
    PROVE  \E w \in 1..n : \A v \in 1..n : f[w] < f[v] \/ (f[w] = f[v] /\ w <= v)
<1> DEFINE T == {f[k] : k \in 1..n}
<1>1. PICK m \in T : \A k \in T : m <= k
  <2>1. T \in SUBSET Nat /\ T # {}
    OBVIOUS
  <2> QED
    BY <2>1, LeastNumber
<1> DEFINE I == {k \in 1..n : f[k] = m}
<1>2. PICK w \in I : \A k \in I : w <= k
  <2>1. I \in SUBSET Nat /\ I # {}
    OBVIOUS
  <2> QED
    BY <2>1, LeastNumber
<1>3. ASSUME NEW v \in 1..n PROVE f[w] < f[v] \/ (f[w] = f[v] /\ w <= v)
  <2>1. m <= f[v] /\ f[w] = m /\ f[v] \in Nat /\ m \in Nat
    BY <1>1, <1>2
  <2>2. f[v] = m => w <= v
    BY <1>2
  <2> QED
    BY <2>1, <2>2
<1>4. w \in 1..n
  BY <1>2
<1> QED
  BY <1>3, <1>4

\* The average of what was measured is a number.
LEMMA AverageNat ==
    ASSUME NEW q \in Seq(Outcome)
    PROVE  avg(Latencies(q)) \in Nat
<1>1. PICK n \in Nat : n = Len(q) /\ DOMAIN q = 1..n /\ q \in [1..n -> Outcome]
  OBVIOUS
<1>2. PICK lat \in [1..n -> Nat] : Latencies(q) = Sorted(lat)
  <2>1. ASSUME NEW k \in 1..n PROVE q[k].replay_duration_us \in Nat
    <3>1. q[k] \in Outcome
      BY <1>1
    <3> QED
      BY <3>1 DEF Outcome
  <2>2. [k \in 1..n |-> q[k].replay_duration_us] \in [1..n -> Nat]
    BY <2>1
  <2>3. Latencies(q) = Sorted([k \in 1..n |-> q[k].replay_duration_us])
    BY <1>1 DEF Latencies, Each
  <2> QED
    BY <2>2, <2>3
<1>3. PICK s \in [1..n -> Nat] : s = Sorted(lat) /\ s \in Seq(Nat) /\ Len(s) = n
  <2>1. Sorted(lat) \in [1..n -> Nat] /\ Sorted(lat) \in Seq(Nat) /\ Len(Sorted(lat)) = n
    BY SortedType
  <2> QED
    BY <2>1
<1>4. CASE n = 0
  <2>1. s = << >>
    BY <1>3, <1>4, EmptySeq
  <2> QED
    BY <1>2, <1>3, <2>1 DEF avg
<1>5. CASE n > 0
  <2>1. PICK sum : Summing(sum, s, n) /\ SumOf(s) = sum[n]
    BY <1>3, SumGoes
  <2>2. PICK t \in Nat : t = SumOf(s)
    BY <2>1 DEF Summing
  <2>3. Total(s) = SumOf(s)
    BY DEF Total, SumOf
  <2>4. s # << >>
    BY <1>3, <1>5
  <2>5. avg(s) = (2 * t + n) \div (2 * n)
    BY <1>3, <2>2, <2>3, <2>4 DEF avg, Round
  <2>6. (2 * t + n) \div (2 * n) \in Nat
    BY <1>5, MeanNat
  <2> QED
    BY <1>2, <1>3, <2>5, <2>6
<1> QED
  BY <1>4, <1>5

\* A variant is its queries, and their average.
VariantType(x) == x.queries \in Seq(Outcome) /\ x.avg_latency_us \in Nat

\* What from_results makes of a result.
LEMMA VariantIs ==
    ASSUME NEW r \in ResultType
    PROVE  VariantType(from_results(r)) /\ from_results(r).queries = Executed(r)
<1>1. Executed(r) \in Seq(Outcome)
  BY ExecutedType
<1>2. from_results(r).queries = Executed(r) /\ from_results(r).avg_latency_us = avg(Latencies(Executed(r)))
  BY DEF from_results
<1> QED
  BY <1>1, <1>2, AverageNat DEF VariantType

\* No variant is faster than the winner.
LEMMA WinnerIs ==
    ASSUME NEW n \in Nat, n > 0, NEW variants, DOMAIN variants = 1..n, \A v \in 1..n : VariantType(variants[v]),
           NEW pct, NEW w, w = compute_ab_comparison(variants, pct).winner
    PROVE  w \in 1..n /\ \A v \in 1..n : variants[w].avg_latency_us <= variants[v].avg_latency_us
<1> DEFINE Wins(k) == \A v \in DOMAIN variants :
               \/ variants[k].avg_latency_us < variants[v].avg_latency_us
               \/ variants[k].avg_latency_us = variants[v].avg_latency_us /\ k <= v
<1>1. w = CHOOSE k \in DOMAIN variants : Wins(k)
  BY DEF compute_ab_comparison
<1>2. \E k \in DOMAIN variants : Wins(k)
  <2>1. PICK f : f = [k \in 1..n |-> variants[k].avg_latency_us]
    OBVIOUS
  <2>2. f \in [1..n -> Nat]
    BY <2>1 DEF VariantType
  <2>3. PICK k \in 1..n : \A v \in 1..n : f[k] < f[v] \/ (f[k] = f[v] /\ k <= v)
    BY <2>2, FirstSmallest
  <2> QED
    BY <2>1, <2>3
<1>3. w \in DOMAIN variants /\ Wins(w)
  <2> HIDE DEF Wins
  <2> QED
    BY <1>1, <1>2
<1>4. \A v \in 1..n : variants[v].avg_latency_us \in Nat
  BY DEF VariantType
<1> QED
  BY <1>3, <1>4

\* Changes of queries with one text.
SameText == {c \in [sql : STRING, base : STRING, variant : Nat, old : Nat, new : Nat] : c.sql = c.base /\ c.old > 0}

SameTexts(changes) == \A k \in DOMAIN changes : changes[k].sql = changes[k].base
\* n variants that ran the same texts.
VariantsAlike(variants, n) ==
    /\ DOMAIN variants = 1..n /\ Len(variants) = n
    /\ \A v \in 1..n : VariantType(variants[v]) /\ Alike(variants[v].queries, variants[1].queries)

\* When the variants ran the same texts, each regression is of one query.
LEMMA RegressionsAre ==
    ASSUME NEW n \in Nat, n > 0, NEW variants, VariantsAlike(variants, n),
           NEW pct, NEW r, r = compute_ab_comparison(variants, pct).regressions
    PROVE  SameTexts(r)
<1>0. /\ DOMAIN variants = 1..n /\ Len(variants) = n
      /\ \A v \in 1..n : VariantType(variants[v]) /\ Alike(variants[v].queries, variants[1].queries)
  BY DEF VariantsAlike
<1>1. PICK base \in Seq(Outcome) : base = variants[1].queries
  BY <1>0 DEF VariantType
<1>2. PICK m \in Nat : m = Len(base)
  OBVIOUS
<1> DEFINE pair(v, k) == [sql |-> variants[v].queries[k].sql, base |-> base[k].sql, variant |-> v,
                          old |-> base[k].replay_duration_us, new |-> variants[v].queries[k].replay_duration_us]
           upto(v) == IF Len(variants[v].queries) <= Len(base) THEN Len(variants[v].queries) ELSE Len(base)
           pairs(v) == [k \in 1..upto(v) |-> pair(v, k)]
           Fits(p) == p.old # 0 /\ Slower(p.old, p.new, pct)
           Changed(v) == Those(pairs(v), Fits)
<1>3. r = Sort(FlattenSeq([v \in 1..(n - 1) |-> Changed(v + 1)]), Worse)
  BY <1>0, <1>1 DEF compute_ab_comparison
<1>4. ASSUME NEW v \in 1..n PROVE Changed(v) \in Seq(SameText)
  <2>1. PICK q \in Seq(Outcome) : q = variants[v].queries
    BY <1>0 DEF VariantType
  <2>2. Len(q) = m /\ \A i \in 1..m : q[i].sql = base[i].sql
    BY <1>0, <1>1, <1>2, <2>1 DEF Alike
  <2>3. upto(v) = m
    BY <1>2, <2>1, <2>2
  <2> DEFINE T == [sql : STRING, base : STRING, variant : Nat, old : Nat, new : Nat]
  <2>4. ASSUME NEW k \in 1..m PROVE pair(v, k) \in T /\ pair(v, k).sql = pair(v, k).base
    <3>1. q[k] \in Outcome /\ base[k] \in Outcome
      BY <1>2, <2>2
    <3>2. /\ q[k].sql \in STRING /\ q[k].replay_duration_us \in Nat
          /\ base[k].sql \in STRING /\ base[k].replay_duration_us \in Nat
      BY <3>1 DEF Outcome
    <3> QED
      BY <2>1, <2>2, <3>2
  <2>5. PICK s : s = [k \in 1..m |-> pair(v, k)]
    OBVIOUS
  <2>6. s \in [1..m -> T] /\ \A k \in 1..m : s[k].sql = s[k].base
    BY <2>4, <2>5
  <2>7. pairs(v) = s
    BY <2>3, <2>5
  <2>8. PICK K : K = {k \in 1..m : Fits(s[k])}
    OBVIOUS
  <2>9. DOMAIN s = 1..m
    BY <2>6
  <2>10. Changed(v) = Chosen(s, K)
    <3> HIDE DEF pairs
    <3>1. Those(s, Fits) = FlattenSeq([k \in DOMAIN s |-> IF Fits(s[k]) THEN <<s[k]>> ELSE << >>])
      BY DEF Those
    <3>2. [k \in DOMAIN s |-> IF Fits(s[k]) THEN <<s[k]>> ELSE << >>]
            = [k \in DOMAIN s |-> IF k \in K THEN <<s[k]>> ELSE << >>]
      BY <2>8, <2>9
    <3> QED
      BY <2>7, <3>1, <3>2 DEF Chosen
  <2>11. PICK c : c = Chosen(s, K)
    OBVIOUS
  <2>12. Picks(c, s, K, T)
    <3>1. K \in SUBSET (1..m)
      BY <2>8
    <3> HIDE DEF T
    <3> QED
      BY <2>6, <2>11, <3>1, Choosing
  <2>13. ASSUME NEW i \in 1..Len(c) PROVE c[i] \in SameText
    <3>1. PICK k \in K : c[i] = s[k]
      BY <2>12 DEF Picks
    <3>2. k \in 1..m /\ s[k].old # 0
      BY <2>8, <3>1
    <3>3. s[k] \in T /\ s[k].sql = s[k].base /\ s[k].old \in Nat
      BY <2>6, <3>2
    <3> QED
      BY <3>1, <3>2, <3>3 DEF SameText
  <2>14. c \in Seq(T)
    BY <2>12 DEF Picks
  <2>15. c \in Seq(SameText)
    <3> HIDE DEF T
    <3>1. PICK h \in Nat : h = Len(c) /\ c \in [1..h -> T]
      BY ONLY <2>14
    <3>2. \A i \in 1..h : c[i] \in SameText
      BY <2>13, <3>1
    <3>3. c \in [1..h -> SameText]
      BY ONLY <3>1, <3>2
    <3> QED
      BY ONLY <3>3
  <2> QED
    BY <2>10, <2>11, <2>15
<1> HIDE DEF Changed
<1>5. PICK lists : lists = [v \in 1..(n - 1) |-> Changed(v + 1)]
  OBVIOUS
<1>6. lists \in Seq(Seq(SameText))
  <2>1. ASSUME NEW v \in 1..(n - 1) PROVE Changed(v + 1) \in Seq(SameText)
    <3>1. v + 1 \in 1..n
      OBVIOUS
    <3> QED
      BY <1>4, <3>1
  <2>2. n - 1 \in Nat
    OBVIOUS
  <2> QED
    BY <1>5, <2>1, <2>2
<1>7. PICK x \in Seq(SameText) : x = FlattenSeq(lists)
  BY <1>6, FlattenType
<1>8. PICK l \in Nat : l = Len(x) /\ x \in [1..l -> SameText]
  OBVIOUS
<1>9. Changes(SameText)
  BY DEF Changes, SameText
<1>10. Sort(x, Worse) \in [1..l -> SameText]
  BY <1>8, <1>9, WorseSorted
<1>11. r \in [1..l -> SameText]
  BY <1>3, <1>5, <1>7, <1>10
<1> QED
  BY <1>11 DEF SameText, SameTexts

\* No class is more frequent than that of the workload.
LEMMA ClassIs ==
    ASSUME NEW profile \in ProfileType
    PROVE  \A c \in Classes : CountOf(profile, LAMBDA s : classify_session(s) = c)
                               <= CountOf(profile, LAMBDA s : classify_session(s) = classify_workload(profile))
<1>1. PICK n \in Nat : n = Len(profile) /\ DOMAIN profile = 1..n
  BY DEF ProfileType
<1> DEFINE many(c) == CountOf(profile, LAMBDA s : classify_session(s) = c)
<1>2. ASSUME NEW c PROVE many(c) \in Nat
  <2>1. PICK K : K = {k \in 1..n : classify_session(profile[k]) = c}
    OBVIOUS
  <2>2. many(c) = Cardinality(K)
    BY <1>1, <2>1 DEF CountOf
  <2>3. IsFiniteSet(1..n)
    BY ONLY n \in Nat, FS_Interval
  <2>4. IsFiniteSet(K)
    BY <2>1, <2>3, FS_Subset
  <2> QED
    BY <2>2, <2>4, FS_CardinalityType
<1> HIDE DEF many
<1> DEFINE classes == <<"Analytical", "Transactional", "Mixed", "Bulk">>
           count == [k \in 1..4 |-> many(classes[k])]
           best == {k \in 1..4 : \A j \in 1..4 : count[j] <= count[k]}
<1>3. classify_workload(profile) = classes[CHOOSE k \in best : \A j \in best : j <= k]
  <2> DEFINE counts(D) == [k \in D |-> many(classes[k])]
             bests(D) == {k \in D : \A j \in D : counts(D)[j] <= counts(D)[k]}
             class(D) == classes[CHOOSE k \in bests(D) : \A j \in bests(D) : j <= k]
  <2>1. classify_workload(profile) = class(DOMAIN classes)
    BY DEF classify_workload, Each, many
  <2>2. DOMAIN classes = 1..4
    OBVIOUS
  <2>3. class(1..4) = classes[CHOOSE k \in best : \A j \in best : j <= k]
    OBVIOUS
  <2> HIDE DEF class, classes, best
  <2> QED
    BY <2>1, <2>2, <2>3
<1>4. \A k \in 1..4 : count[k] \in Nat
  BY <1>2
<1>5. best # {}
  <2>1. count[1] \in Nat /\ count[2] \in Nat /\ count[3] \in Nat /\ count[4] \in Nat
    BY <1>4
  <2> HIDE DEF count
  <2>2. \E k \in 1..4 : count[1] <= count[k] /\ count[2] <= count[k] /\ count[3] <= count[k] /\ count[4] <= count[k]
    BY <2>1
  <2> QED
    BY <2>2
<1>6. \E k \in best : \A j \in best : j <= k
  <2> HIDE DEF count
  <2> QED
    BY <1>5
<1>7. PICK k \in best : classify_workload(profile) = classes[k]
  <2> HIDE DEF best
  <2> QED
    BY <1>3, <1>6
<1>8. ASSUME NEW c \in Classes PROVE many(c) <= many(classify_workload(profile))
  <2>1. PICK j \in 1..4 : c = classes[j]
    BY DEF Classes
  <2>2. count[j] <= count[k]
    BY <1>7
  <2> QED
    BY <1>7, <2>1, <2>2
<1> QED
  BY <1>8 DEF many

-----------------------------------------------------------------------------
(***************************************************************************)
(* What a scaled replay runs is a profile.                                 *)
(***************************************************************************)
CapturedSession == [id : Nat, queries : Seq(QueryType)]

\* A copy of a session is one.
LEMMA CopyType ==
    ASSUME NEW session \in CapturedSession, NEW id \in Nat, NEW offset \in Nat
    PROVE  Copy(session, id, offset) \in CapturedSession
<1>1. PICK q \in Seq(QueryType) : q = session.queries
  BY DEF CapturedSession
<1>2. PICK n \in Nat : n = Len(q) /\ DOMAIN q = 1..n /\ q \in [1..n -> QueryType]
  OBVIOUS
<1>3. PICK r : r = [k \in 1..n |-> [q[k] EXCEPT !.start_offset_us = @ + offset]]
  OBVIOUS
<1>4. ASSUME NEW k \in 1..n PROVE [q[k] EXCEPT !.start_offset_us = @ + offset] \in QueryType
  <2>1. PICK x \in QueryType : x = q[k]
    BY <1>2
  <2>2. PICK d \in Nat : d = x.start_offset_us + offset
    BY DEF QueryType
  <2>3. [x EXCEPT !.start_offset_us = d] \in QueryType
    BY DEF QueryType
  <2> QED
    BY <2>1, <2>2, <2>3
<1>5. r \in Seq(QueryType)
  BY <1>3, <1>4
<1>6. Copy(session, id, offset) = [[session EXCEPT !.id = id] EXCEPT !.queries = r]
  BY <1>1, <1>2, <1>3 DEF Copy, Each, CapturedSession
<1> QED
  BY <1>5, <1>6 DEF CapturedSession

\* Scaled uniformly.
LEMMA UniformType ==
    ASSUME NEW profile \in Seq(CapturedSession), NEW scale \in Nat, NEW stagger \in Nat
    PROVE  scale_sessions(profile, scale, stagger) \in Seq(CapturedSession)
<1>1. PICK n \in Nat : n = Len(profile) /\ profile \in [1..n -> CapturedSession]
  OBVIOUS
<1>2. CASE scale <= 1
  BY <1>2 DEF scale_sessions
<1>3. CASE scale > 1
  <2> DEFINE e(k) == Copy(profile[((k - 1) % n) + 1], profile[((k - 1) % n) + 1].id + ((k - 1) \div n) * n,
                          ((k - 1) \div n) * stagger)
  <2>1. scale_sessions(profile, scale, stagger) = [k \in 1..(scale * n) |-> e(k)]
    BY <1>1, <1>3 DEF scale_sessions
  <2>2. PICK m \in Nat : m = scale * n
    BY ONLY scale \in Nat, n \in Nat
  <2>3. ASSUME NEW k \in 1..m PROVE e(k) \in CapturedSession
    <3>1. n > 0
      <4>1. CASE n = 0
        BY ONLY <2>2, <2>3, <4>1, scale \in Nat, k \in 1..m
      <4> QED
        BY <4>1
    <3>2. PICK j \in Nat : j = k - 1
      OBVIOUS
    <3>3. PICK c \in Nat : c = j \div n
      BY ONLY <3>1, j \in Nat, n \in Nat
    <3>4. PICK i \in 1..n : i = (j % n) + 1
      <4>1. j % n \in 0..(n - 1)
        BY ONLY <3>1, j \in Nat, n \in Nat
      <4> QED
        BY <4>1
    <3>5. profile[i] \in CapturedSession /\ profile[i].id \in Nat
      <4>1. profile[i] \in CapturedSession
        BY <1>1
      <4> QED
        BY <4>1 DEF CapturedSession
    <3>6. profile[i].id + c * n \in Nat /\ c * stagger \in Nat
      <4>1. c * n \in Nat /\ c * stagger \in Nat
        BY ONLY c \in Nat, n \in Nat, stagger \in Nat
      <4> QED
        BY <3>5, <4>1
    <3>7. Copy(profile[i], profile[i].id + c * n, c * stagger) \in CapturedSession
      BY <3>5, <3>6, CopyType
    <3> QED
      BY <3>2, <3>3, <3>4, <3>7
  <2> HIDE DEF e
  <2> QED
    BY <2>1, <2>2, <2>3
<1> QED
  BY <1>2, <1>3

-----------------------------------------------------------------------------
(***************************************************************************)
(* Where the members of a set are in a sequence.                           *)
(***************************************************************************)
\* at gives each member of D a place in seq of its own, and there is its value.
Files(at, seq, D, val) ==
    /\ at \in [D -> 1..Len(seq)]
    /\ \A i \in 1..Len(seq) : \E d \in D : at[d] = i
    /\ \A d, e \in D : at[d] = at[e] => d = e
    /\ \A d \in D : seq[at[d]] = val[d]

Filed(seq, D, val) == \E at : Files(at, seq, D, val)

\* Of two sequences joined.
LEMMA FiledJoin ==
    ASSUME NEW S, NEW a \in Seq(S), NEW b \in Seq(S), NEW D, NEW E, NEW val,
           D \cap E = {}, Filed(a, D, val), Filed(b, E, val)
    PROVE  Filed(a \o b, D \cup E, val)
<1>1. PICK x : Files(x, a, D, val)
  BY DEF Filed
<1>2. PICK y : Files(y, b, E, val)
  BY DEF Filed
<1>3. PICK h \in Nat : h = Len(a)
  OBVIOUS
<1>4. PICK l \in Nat : l = Len(b)
  OBVIOUS
<1>5. PICK c : c = a \o b
  OBVIOUS
<1>6. /\ Len(c) = h + l
      /\ \A i \in 1..h : c[i] = a[i]
      /\ \A i \in 1..l : c[h + i] = b[i]
  BY <1>3, <1>4, <1>5
<1>7. PICK at : at = [d \in D \cup E |-> IF d \in D THEN x[d] ELSE h + y[d]]
  OBVIOUS
<1>8. ASSUME NEW d \in D PROVE at[d] = x[d] /\ x[d] \in 1..h /\ a[x[d]] = val[d]
  BY <1>1, <1>3, <1>7 DEF Files
<1>9. ASSUME NEW d \in E PROVE at[d] = h + y[d] /\ y[d] \in 1..l /\ b[y[d]] = val[d]
  BY <1>2, <1>4, <1>7 DEF Files
<1>10. at \in [D \cup E -> 1..Len(c)]
  <2>1. ASSUME NEW d \in D \cup E PROVE at[d] \in 1..Len(c)
    BY <1>6, <1>8, <1>9
  <2>2. at = [d \in D \cup E |-> at[d]]
    BY <1>7
  <2> QED
    BY ONLY <2>1, <2>2
<1>11. ASSUME NEW i \in 1..Len(c) PROVE \E d \in D \cup E : at[d] = i
  <2>1. CASE i \in 1..h
    <3>1. PICK d \in D : x[d] = i
      BY <1>1, <1>3, <2>1 DEF Files
    <3> QED
      BY <1>8, <3>1
  <2>2. CASE i \notin 1..h
    <3>0. i \in 1..(h + l)
      BY <1>6
    <3>1. PICK j \in 1..l : i = h + j
      <4>1. i - h \in 1..l /\ i = h + (i - h)
        BY ONLY <3>0, <2>2, h \in Nat, l \in Nat
      <4> QED
        BY ONLY <4>1
    <3>2. PICK d \in E : y[d] = j
      BY <1>2, <1>4 DEF Files
    <3> QED
      BY <1>9, <3>1, <3>2
  <2> QED
    BY <2>1, <2>2
<1>12. ASSUME NEW d \in D \cup E, NEW e \in D \cup E, at[d] = at[e] PROVE d = e
  <2>1. CASE d \in D /\ e \in D
    BY <1>1, <1>8, <1>12, <2>1 DEF Files
  <2>2. CASE d \in E /\ e \in E
    <3>1. y[d] = y[e]
      BY <1>9, <1>12, <2>2
    <3> QED
      BY <1>2, <2>2, <3>1 DEF Files
  <2>3. ASSUME NEW p \in D, NEW q \in E PROVE at[p] # at[q]
    BY <1>8, <1>9
  <2> QED
    BY <1>12, <2>1, <2>2, <2>3
<1>13. ASSUME NEW d \in D \cup E PROVE c[at[d]] = val[d]
  BY <1>6, <1>8, <1>9
<1>14. Files(at, c, D \cup E, val)
  BY <1>10, <1>11, <1>12, <1>13 DEF Files
<1> QED
  BY <1>5, <1>14 DEF Filed

\* Of sequences joined, each with the members that are sent to it.
LEMMA FiledFlatten ==
    ASSUME NEW S, NEW n \in Nat, NEW seqs \in [1..n -> Seq(S)], NEW D, NEW g \in [D -> 1..n], NEW val,
           \A i \in 1..n : Filed(seqs[i], {d \in D : g[d] = i}, val)
    PROVE  Filed(FlattenSeq(seqs), D, val)
<1>1. seqs \in Seq(Seq(S)) /\ Len(seqs) = n
  OBVIOUS
<1>2. PICK cat : Joined(cat, seqs, S) /\ FlattenSeq(seqs) = cat[n]
  BY <1>1, FlattenGoes
<1> DEFINE U(k) == {d \in D : g[d] \in 1..k}
           T == {k \in 0..n : Filed(cat[k], U(k), val)}
<1>3. 0 \in T
  <2>1. U(0) = {} /\ cat[0] = << >>
    BY <1>2 DEF Joined
  <2>2. Files([d \in {} |-> 0], << >>, {}, val)
    BY DEF Files
  <2>3. Filed(<< >>, {}, val)
    BY <2>2 DEF Filed
  <2> HIDE DEF U
  <2>4. Filed(cat[0], U(0), val)
    BY <2>1, <2>3, Zenon
  <2> QED
    BY <2>4
<1>4. ASSUME NEW k \in 1..n, k - 1 \in T PROVE k \in T
  <2>1. PICK j \in 0..n : j = k - 1
    OBVIOUS
  <2>2. cat[k] = cat[j] \o seqs[k] /\ cat[j] \in Seq(S)
    BY <1>1, <1>2, <2>1 DEF Joined
  <2>3. Filed(cat[j], U(j), val)
    BY <1>4, <2>1
  <2>4. PICK E : E = {d \in D : g[d] = k}
    OBVIOUS
  <2>5. seqs[k] \in Seq(S) /\ Filed(seqs[k], E, val)
    BY <2>4
  <2>6. U(k) = U(j) \cup E
    BY <2>1, <2>4
  <2>7. U(j) \cap E = {}
    BY <2>1, <2>4
  <2> HIDE DEF U
  <2>8. Filed(cat[j] \o seqs[k], U(j) \cup E, val)
    BY <2>2, <2>3, <2>5, <2>7, FiledJoin
  <2>9. Filed(cat[k], U(k), val)
    BY <2>2, <2>6, <2>8, Zenon
  <2> QED
    BY <2>9
<1>5. n \in T
  <2> HIDE DEF U, T
  <2>1. \A k \in 1..n : k - 1 \in T => k \in T
    BY <1>4
  <2>2. \A k \in 0..n : k \in T
    BY ONLY <1>3, <2>1, n \in Nat, Climb
  <2> QED
    BY <2>2
<1>6. U(n) = D
  OBVIOUS
<1> HIDE DEF U
<1> QED
  BY <1>2, <1>5, <1>6

\* Of one member, and of none.
LEMMA FiledFew ==
    ASSUME NEW val
    PROVE  /\ Filed(<< >>, {}, val)
           /\ \A d : Filed(<<val[d]>>, {d}, val)
<1>1. Files([d \in {} |-> 0], << >>, {}, val)
  BY DEF Files
<1>2. ASSUME NEW d PROVE Filed(<<val[d]>>, {d}, val)
  <2>1. Files([e \in {d} |-> 1], <<val[d]>>, {d}, val)
    BY DEF Files
  <2> QED
    BY <2>1 DEF Filed
<1>3. Filed(<< >>, {}, val)
  BY <1>1 DEF Filed
<1> QED
  BY <1>2, <1>3

\* Chosen members are filed by the places they had.
LEMMA ChosenFiled ==
    ASSUME NEW S, NEW n \in Nat, NEW s \in [1..n -> S], NEW K \in SUBSET (1..n)
    PROVE  Filed(Chosen(s, K), K, s)
<1>1. PICK seqs : seqs = [k \in 1..n |-> IF k \in K THEN <<s[k]>> ELSE << >>]
  OBVIOUS
<1>2. seqs \in [1..n -> Seq(S)]
  <2>1. \A k \in 1..n : (IF k \in K THEN <<s[k]>> ELSE << >>) \in Seq(S)
    OBVIOUS
  <2> QED
    BY <1>1, <2>1
<1>3. PICK g : g = [k \in K |-> k]
  OBVIOUS
<1>4. g \in [K -> 1..n]
  BY <1>3
<1>5. ASSUME NEW k \in 1..n PROVE Filed(seqs[k], {d \in K : g[d] = k}, s)
  <2>1. CASE k \in K
    <3>1. seqs[k] = <<s[k]>> /\ {d \in K : g[d] = k} = {k}
      BY <1>1, <1>3, <2>1
    <3>2. Filed(<<s[k]>>, {k}, s)
      BY FiledFew
    <3> QED
      BY <3>1, <3>2, Zenon
  <2>2. CASE k \notin K
    <3>1. seqs[k] = << >> /\ {d \in K : g[d] = k} = {}
      BY <1>1, <1>3, <2>2
    <3>2. Filed(<< >>, {}, s)
      BY FiledFew
    <3> QED
      BY <3>1, <3>2, Zenon
  <2> QED
    BY <2>1, <2>2
<1>6. Filed(FlattenSeq(seqs), K, s)
  BY <1>2, <1>4, <1>5, FiledFlatten
<1>7. Chosen(s, K) = FlattenSeq(seqs)
  <2>1. DOMAIN s = 1..n
    OBVIOUS
  <2> QED
    BY <1>1, <2>1 DEF Chosen
<1> QED
  BY <1>6, <1>7

\* The places of the members of B.
Spots(at, B, n) == {i \in 1..n : \E d \in B : at[d] = i}

\* Counted by their places.
LEMMA FiledCount ==
    ASSUME NEW seq, Len(seq) \in Nat, NEW D, NEW val, NEW at, Files(at, seq, D, val), NEW B \in SUBSET D
    PROVE  /\ IsFiniteSet(B)
           /\ Cardinality(Spots(at, B, Len(seq))) = Cardinality(B)
<1>1. PICK C : C = Spots(at, B, Len(seq)) /\ C = {i \in 1..Len(seq) : \E d \in B : at[d] = i}
  BY DEF Spots
<1>2. IsFiniteSet(C)
  <2>1. C \in SUBSET (1..Len(seq))
    BY <1>1
  <2>2. IsFiniteSet(1..Len(seq))
    BY ONLY Len(seq) \in Nat, FS_Interval
  <2> QED
    BY <2>1, <2>2, FS_Subset
<1>3. PICK f : f = [i \in C |-> CHOOSE d \in B : at[d] = i]
  OBVIOUS
<1>4. ASSUME NEW i \in C PROVE f[i] \in B /\ at[f[i]] = i
  BY <1>1, <1>3
<1>5. ASSUME NEW d \in B PROVE at[d] \in C /\ f[at[d]] = d
  <2>1. at[d] \in C
    BY <1>1 DEF Files
  <2>2. at[f[at[d]]] = at[d] /\ f[at[d]] \in B
    BY <1>4, <2>1
  <2> QED
    BY <2>1, <2>2 DEF Files
<1>6. f \in [C -> B]
  <2>1. f = [i \in C |-> f[i]]
    BY <1>3
  <2> QED
    BY ONLY <1>4, <2>1
<1>7. f \in Bijection(C, B)
  <2>1. \A i, j \in C : f[i] = f[j] => i = j
    BY <1>4
  <2>2. \A d \in B : \E i \in C : f[i] = d
    BY <1>5
  <2> QED
    BY <1>6, <2>1, <2>2 DEF Bijection, Injection, Surjection, IsInjective
<1>8. ExistsBijection(C, B)
  BY <1>7 DEF ExistsBijection
<1> QED
  BY <1>1, <1>2, <1>8, FS_Bijection

\* Each place is sent to one of its own, and what follows does not begin earlier.
ByOffset(At, s, n) ==
    /\ At \in [1..n -> 1..n]
    /\ \A k \in 1..n : \E m \in 1..n : At[m] = k
    /\ \A j, k \in 1..n : At[j] = At[k] => j = k
    /\ \A j, k \in 1..n : j <= k => FirstOffset(s[At[j]]) <= FirstOffset(s[At[k]])

\* Sessions are ordered by their first queries.
LEMMA OffsetOrder ==
    ASSUME NEW n \in Nat, NEW s \in [1..n -> CapturedSession]
    PROVE  \E At : ByOffset(At, s, n) /\ SortByKey(s, FirstOffset) = [m \in 1..n |-> s[At[m]]]
<1>1. PICK f : f = [k \in 1..n |-> FirstOffset(s[k])]
  OBVIOUS
<1>2. ASSUME NEW k \in 1..n PROVE f[k] \in Nat
  <2>1. PICK q \in Seq(QueryType) : q = s[k].queries
    <3>1. s[k] \in CapturedSession
      OBVIOUS
    <3> QED
      BY <3>1 DEF CapturedSession
  <2>2. q = << >> \/ q[1] \in QueryType
    OBVIOUS
  <2> QED
    BY <1>1, <2>1, <2>2 DEF FirstOffset, QueryType
<1> DEFINE Of(k) == {j \in 1..n : j = k \/ FirstOffset(s[j]) < FirstOffset(s[k])
                                     \/ (j < k /\ ~(FirstOffset(s[k]) < FirstOffset(s[j])))}
           G == [k \in 1..n |-> Of(k)]
<1>3. Linear(G, n)
  <2>1. \A j, k \in 1..n : j \in G[k] <=> j = k \/ f[j] < f[k] \/ (j < k /\ ~(f[k] < f[j]))
    BY <1>1
  <2>2. \A k \in 1..n : G[k] \subseteq 1..n
    OBVIOUS
  <2> HIDE DEF G
  <2>3. \A k \in 1..n : G[k] \subseteq 1..n /\ k \in G[k]
    BY <2>1, <2>2
  <2>4. \A j, k \in 1..n : j \in G[k] /\ k \in G[j] => j = k
    BY <1>2, <2>1
  <2>5. \A j, k \in 1..n : j \in G[k] \/ k \in G[j]
    BY <1>2, <2>1
  <2>6. ASSUME NEW i \in 1..n, NEW j \in 1..n, NEW k \in 1..n, i \in G[j], j \in G[k] PROVE i \in G[k]
    <3>1. f[i] \in Nat /\ f[j] \in Nat /\ f[k] \in Nat
      BY <1>2
    <3>2. i = j \/ f[i] < f[j] \/ (i < j /\ ~(f[j] < f[i]))
      BY <2>1, <2>6
    <3>3. j = k \/ f[j] < f[k] \/ (j < k /\ ~(f[k] < f[j]))
      BY <2>1, <2>6
    <3>4. i = k \/ f[i] < f[k] \/ (i < k /\ ~(f[k] < f[i]))
      BY ONLY <3>1, <3>2, <3>3, i \in 1..n, j \in 1..n, k \in 1..n, n \in Nat
    <3> QED
      BY <2>1, <3>4
  <2> QED
    BY <2>3, <2>4, <2>5, <2>6 DEF Linear
<1>4. PICK At : Ranks(At, n, G)
  BY <1>3, Ranked
<1>5. SortByKey(s, FirstOffset) = [m \in 1..n |-> s[CHOOSE k \in 1..n : Cardinality(Of(k)) = m]]
  <2> DEFINE Over(D) == [m \in D |-> s[CHOOSE k \in D : Cardinality({j \in D :
                  j = k \/ FirstOffset(s[j]) < FirstOffset(s[k]) \/ (j < k /\ ~(FirstOffset(s[k]) < FirstOffset(s[j])))}) = m]]
  <2>1. DOMAIN s = 1..n
    OBVIOUS
  <2>2. SortByKey(s, FirstOffset) = Over(DOMAIN s)
    BY DEF SortByKey, Sort
  <2>3. Over(DOMAIN s) = Over(1..n)
    <3> HIDE DEF Over
    <3> QED
      BY <2>1
  <2> QED
    BY <2>2, <2>3
<1>6. \A m \in 1..n : At[m] = CHOOSE k \in 1..n : Cardinality(Of(k)) = m
  <2>1. \A k \in 1..n : G[k] = Of(k)
    OBVIOUS
  <2>2. \A m \in 1..n : (CHOOSE k \in 1..n : Cardinality(G[k]) = m) = CHOOSE k \in 1..n : Cardinality(Of(k)) = m
    BY <2>1
  <2> QED
    BY <1>4, <2>2 DEF Ranks
<1>7. ASSUME NEW j \in 1..n, NEW k \in 1..n, j <= k PROVE FirstOffset(s[At[j]]) <= FirstOffset(s[At[k]])
  <2>1. At[j] \in G[At[k]] /\ At[j] \in 1..n /\ At[k] \in 1..n
    BY <1>4, <1>7 DEF Ranks
  <2>2. \A x, y \in 1..n : x \in G[y] => x = y \/ f[x] < f[y] \/ ~(f[y] < f[x])
    BY <1>1
  <2> HIDE DEF G
  <2>3. f[At[j]] <= f[At[k]]
    BY <1>2, <2>1, <2>2
  <2> QED
    BY <1>1, <2>1, <2>3
<1> HIDE DEF Of, G
<1>8. SortByKey(s, FirstOffset) = [m \in 1..n |-> s[At[m]]]
  BY <1>5, <1>6
<1>9. ByOffset(At, s, n)
  BY <1>4, <1>7 DEF Ranks, ByOffset
<1> QED
  BY <1>8, <1>9


\* Sorted, a session is filed as it was.
LEMMA FiledSorted ==
    ASSUME NEW n \in Nat, NEW s \in [1..n -> CapturedSession], NEW D, NEW val, Filed(s, D, val)
    PROVE  Filed(SortByKey(s, FirstOffset), D, val)
<1>1. PICK x : Files(x, s, D, val)
  BY DEF Filed
<1>2. PICK At : ByOffset(At, s, n) /\ SortByKey(s, FirstOffset) = [m \in 1..n |-> s[At[m]]]
  BY OffsetOrder
<1>3. PICK t : t = SortByKey(s, FirstOffset)
  OBVIOUS
<1>4. Len(t) = n /\ Len(s) = n /\ \A m \in 1..n : t[m] = s[At[m]]
  BY <1>2, <1>3
<1>5. PICK at : at = [d \in D |-> CHOOSE m \in 1..n : At[m] = x[d]]
  OBVIOUS
<1>6. ASSUME NEW d \in D PROVE at[d] \in 1..n /\ At[at[d]] = x[d]
  <2>1. x[d] \in 1..n
    BY <1>1, <1>4 DEF Files
  <2>2. \E m \in 1..n : At[m] = x[d]
    BY <1>2, <2>1 DEF ByOffset
  <2> QED
    BY <1>5, <2>2
<1>7. at \in [D -> 1..n]
  <2>1. at = [d \in D |-> at[d]]
    BY <1>5
  <2> QED
    BY ONLY <1>6, <2>1
<1>8. ASSUME NEW i \in 1..n PROVE \E d \in D : at[d] = i
  <2>1. At[i] \in 1..n
    BY <1>2 DEF ByOffset
  <2>2. PICK d \in D : x[d] = At[i]
    BY <1>1, <1>4, <2>1 DEF Files
  <2>3. at[d] = i
    BY <1>2, <1>6, <2>2 DEF ByOffset
  <2> QED
    BY <2>3
<1>9. ASSUME NEW d \in D, NEW e \in D, at[d] = at[e] PROVE d = e
  <2>1. x[d] = x[e]
    BY <1>6, <1>9
  <2> QED
    BY <1>1, <2>1 DEF Files
<1>10. ASSUME NEW d \in D PROVE t[at[d]] = val[d]
  BY <1>1, <1>4, <1>6 DEF Files
<1>11. Files(at, t, D, val)
  BY <1>4, <1>7, <1>8, <1>9, <1>10 DEF Files
<1> QED
  BY <1>3, <1>11 DEF Filed

\* h gives each member of E one of D, which has its value.
Renames(h, E, D, v, val) ==
    /\ h \in [E -> D]
    /\ \A d \in D : \E e \in E : h[e] = d
    /\ \A e, f \in E : h[e] = h[f] => e = f
    /\ \A e \in E : v[e] = val[h[e]]

\* Under other names.
LEMMA Refiled ==
    ASSUME NEW seq, NEW D, NEW val, Filed(seq, D, val), NEW E, NEW v, NEW h, Renames(h, E, D, v, val)
    PROVE  Filed(seq, E, v)
<1>1. PICK x : Files(x, seq, D, val)
  BY DEF Filed
<1>2. PICK at : at = [e \in E |-> x[h[e]]]
  OBVIOUS
<1>3. ASSUME NEW e \in E PROVE h[e] \in D /\ at[e] = x[h[e]] /\ at[e] \in 1..Len(seq) /\ seq[at[e]] = v[e]
  BY <1>1, <1>2 DEF Files, Renames
<1>4. at \in [E -> 1..Len(seq)]
  <2>1. at = [e \in E |-> at[e]]
    BY <1>2
  <2> QED
    BY ONLY <1>3, <2>1
<1>5. ASSUME NEW i \in 1..Len(seq) PROVE \E e \in E : at[e] = i
  <2>1. PICK d \in D : x[d] = i
    BY <1>1 DEF Files
  <2>2. PICK e \in E : h[e] = d
    BY DEF Renames
  <2> QED
    BY <1>3, <2>1, <2>2
<1>6. ASSUME NEW e \in E, NEW f \in E, at[e] = at[f] PROVE e = f
  <2>1. h[e] = h[f]
    BY <1>1, <1>3, <1>6 DEF Files
  <2> QED
    BY <2>1 DEF Renames
<1>7. Files(at, seq, E, v)
  BY <1>3, <1>4, <1>5, <1>6 DEF Files
<1> QED
  BY <1>7 DEF Filed

\* There are as many pairs with one member fixed as there are others.
LEMMA PairsCount ==
    ASSUME NEW x, NEW B, IsFiniteSet(B)
    PROVE  /\ IsFiniteSet({x} \X B) /\ Cardinality({x} \X B) = Cardinality(B)
           /\ IsFiniteSet(B \X {x}) /\ Cardinality(B \X {x}) = Cardinality(B)
<1>1. PICK P : P = {<<x, k>> : k \in B}
  OBVIOUS
<1>2. PICK Q : Q = {<<k, x>> : k \in B}
  OBVIOUS
<1>3. ExistsBijection(B, P)
  <2>1. [k \in B |-> <<x, k>>] \in Bijection(B, P)
    BY <1>1 DEF Bijection, Injection, Surjection, IsInjective
  <2> QED
    BY <2>1 DEF ExistsBijection
<1>4. ExistsBijection(B, Q)
  <2>1. [k \in B |-> <<k, x>>] \in Bijection(B, Q)
    BY <1>2 DEF Bijection, Injection, Surjection, IsInjective
  <2> QED
    BY <2>1 DEF ExistsBijection
<1>5. P = {x} \X B /\ Q = B \X {x}
  BY <1>1, <1>2
<1> QED
  BY <1>3, <1>4, <1>5, FS_Bijection

\* No id is above the largest.
LEMMA LargestId ==
    ASSUME NEW profile \in Seq(CapturedSession)
    PROVE  MaxId(profile) \in Nat /\ \A s \in 1..Len(profile) : profile[s].id <= MaxId(profile)
<1>1. PICK n \in Nat : n = Len(profile) /\ DOMAIN profile = 1..n /\ profile \in [1..n -> CapturedSession]
  OBVIOUS
<1>2. PICK f : f = [k \in 1..n |-> profile[k].id]
  OBVIOUS
<1>3. f \in [1..n -> Nat]
  <2>1. ASSUME NEW k \in 1..n PROVE profile[k].id \in Nat
    <3>1. profile[k] \in CapturedSession
      BY <1>1
    <3> QED
      BY <3>1 DEF CapturedSession
  <2> QED
    BY <1>2, <2>1
<1> DEFINE S == {f[k] : k \in 1..n}
<1>4. \E m \in {0} \cup S : \A k \in 1..n : f[k] <= m
  <2>1. CASE n = 0
    BY <2>1
  <2>2. CASE n > 0
    <3>1. (1..n) \in SUBSET (1..n) /\ 1..n # {}
      BY <2>2
    <3>2. Largest(S, 0) \in S /\ \A k \in 1..n : f[k] <= Largest(S, 0)
      BY <1>3, <3>1, LargestOf
    <3> QED
      BY <3>2
  <2>3. n = 0 \/ n > 0
    BY ONLY n \in Nat
  <2> HIDE DEF S
  <2> QED
    BY <2>1, <2>2, <2>3, Zenon
<1>5. MaxId(profile) = CHOOSE m \in {0} \cup S : \A k \in 1..n : f[k] <= m
  <2>1. {profile[s].id : s \in DOMAIN profile} = S
    BY <1>1, <1>2
  <2>2. \A m : (\A s \in DOMAIN profile : profile[s].id <= m) <=> \A k \in 1..n : f[k] <= m
    BY <1>1, <1>2
  <2>3. MaxId(profile) = CHOOSE m \in {0} \cup {profile[s].id : s \in DOMAIN profile} :
                             \A s \in DOMAIN profile : profile[s].id <= m
    BY DEF MaxId
  <2> HIDE DEF S
  <2> QED
    BY <2>1, <2>2, <2>3
<1>6. MaxId(profile) \in {0} \cup S /\ \A k \in 1..n : f[k] <= MaxId(profile)
  <2> HIDE DEF S
  <2> QED
    BY <1>4, <1>5
<1>7. \A k \in 1..n : profile[k].id <= MaxId(profile)
  BY <1>2, <1>6
<1> QED
  BY <1>1, <1>3, <1>6, <1>7

\* Every session has one of the four classes.
LEMMA ClassType ==
    ASSUME NEW session
    PROVE  classify_session(session) \in Classes
BY DEF classify_session, Classes

\* An order of the classes of a profile is a sequence of classes.
LEMMA OrderType ==
    ASSUME NEW profile \in Seq(CapturedSession), NEW order \in SetToSeqs({classify_session(profile[s]) : s \in DOMAIN profile})
    PROVE  order \in Seq(Classes)
<1>1. PICK n \in Nat : n = Len(profile) /\ DOMAIN profile = 1..n
  OBVIOUS
<1>2. PICK S : S = {classify_session(profile[s]) : s \in 1..n}
  OBVIOUS
<1>3. S \subseteq Classes
  BY <1>2, ClassType
<1>4. IsFiniteSet(Classes)
  <2>1. IsFiniteSet({}) /\ Classes = ((({} \cup {"Analytical"}) \cup {"Transactional"}) \cup {"Mixed"}) \cup {"Bulk"}
    BY FS_EmptySet DEF Classes
  <2> QED
    BY <2>1, FS_AddElement
<1>5. Cardinality(S) \in Nat
  BY <1>3, <1>4, FS_Subset, FS_CardinalityType
<1>6. order \in [1..Cardinality(S) -> S]
  BY <1>1, <1>2 DEF SetToSeqs
<1> QED
  BY <1>3, <1>5, <1>6

-----------------------------------------------------------------------------
(***************************************************************************)
(* The steps of scale_sessions_by_class.                                   *)
(***************************************************************************)
OfClass(profile, c) == {k \in 1..Len(profile) : classify_session(profile[k]) = c}
Sharing(profile, c) == Chosen(profile, OfClass(profile, c))
Firsts(profile, scales, order) ==
    FlattenSeq([i \in 1..Len(order) |-> IF scales[order[i]] = 0 THEN << >> ELSE Sharing(profile, order[i])])
Turns(profile, scales, c) ==
    IF Sharing(profile, c) = << >> \/ scales[c] <= 1 THEN << >> ELSE [k \in 1..(scales[c] - 1) |-> c]
Rounds(profile, scales, order) == FlattenSeq([i \in 1..Len(order) |-> Turns(profile, scales, order[i])])
Twins(profile, rounds, stagger) ==
    FlattenSeq([r \in DOMAIN rounds |-> Each(Sharing(profile, rounds[r]), LAMBDA s : Copy(s, 0, r * stagger))])
Renumbered(profile, twins) == [k \in DOMAIN twins |-> [twins[k] EXCEPT !.id = MaxId(profile) + k]]

RoundsOf(rounds, c) == {r \in 1..Len(rounds) : rounds[r] = c}

\* Each class of a session is in the order once.
Orders(order, profile) ==
    /\ order \in Seq(Classes)
    /\ \A i, j \in 1..Len(order) : order[i] = order[j] => i = j
    /\ \A k \in 1..Len(profile) : \E i \in 1..Len(order) : order[i] = classify_session(profile[k])

\* What scale_sessions_by_class computes, step by step.
LEMMA ByClassIs ==
    ASSUME NEW profile \in Seq(CapturedSession), NEW scales \in [Classes -> Nat], NEW stagger \in Nat,
           NEW order \in Seq(Classes)
    PROVE  scale_sessions_by_class(profile, scales, stagger, order)
             = SortByKey(Firsts(profile, scales, order) \o
                         Renumbered(profile, Twins(profile, Rounds(profile, scales, order), stagger)), FirstOffset)
<1>1. PICK n \in Nat : n = Len(profile) /\ DOMAIN profile = 1..n
  OBVIOUS
<1>2. PICK m \in Nat : m = Len(order) /\ DOMAIN order = 1..m
  OBVIOUS
<1> DEFINE members(c) == Those(profile, LAMBDA s : classify_session(s) = c)
<1>3. ASSUME NEW c PROVE members(c) = Sharing(profile, c)
  <2>1. PICK K : K = OfClass(profile, c)
    OBVIOUS
  <2>2. [k \in DOMAIN profile |-> IF classify_session(profile[k]) = c THEN <<profile[k]>> ELSE << >>]
          = [k \in DOMAIN profile |-> IF k \in K THEN <<profile[k]>> ELSE << >>]
    BY <1>1, <2>1 DEF OfClass
  <2>3. members(c)
          = FlattenSeq([k \in DOMAIN profile |-> IF classify_session(profile[k]) = c THEN <<profile[k]>> ELSE << >>])
    BY DEF Those
  <2> QED
    BY <2>1, <2>2, <2>3 DEF Chosen, Sharing
<1> DEFINE f(D) == [i \in D |-> IF scales[order[i]] = 0 THEN << >> ELSE members(order[i])]
           g(D) == [i \in D |-> IF members(order[i]) = << >> \/ scales[order[i]] <= 1 THEN << >>
                                ELSE [k \in 1..(scales[order[i]] - 1) |-> order[i]]]
           h(rounds) == [r \in DOMAIN rounds |-> Each(members(rounds[r]), LAMBDA s : Copy(s, 0, r * stagger))]
           z(twins) == [k \in DOMAIN twins |-> [twins[k] EXCEPT !.id = MaxId(profile) + k]]
           ends(D) == SortByKey(FlattenSeq(f(D)) \o z(FlattenSeq(h(FlattenSeq(g(D))))), FirstOffset)
<1>4. scale_sessions_by_class(profile, scales, stagger, order) = ends(DOMAIN order)
  BY DEF scale_sessions_by_class, Each
<1> HIDE DEF members
<1>5. f(1..m) = [i \in 1..m |-> IF scales[order[i]] = 0 THEN << >> ELSE Sharing(profile, order[i])]
  BY <1>3
<1>6. g(1..m) = [i \in 1..m |-> Turns(profile, scales, order[i])]
  BY <1>3 DEF Turns
<1>7. ASSUME NEW rounds
      PROVE  h(rounds) = [r \in DOMAIN rounds |-> Each(Sharing(profile, rounds[r]), LAMBDA s : Copy(s, 0, r * stagger))]
  BY <1>3
<1>8. FlattenSeq(f(1..m)) = Firsts(profile, scales, order)
  BY <1>2, <1>5 DEF Firsts
<1>9. FlattenSeq(g(1..m)) = Rounds(profile, scales, order)
  BY <1>2, <1>6 DEF Rounds
<1>10. \A rounds : FlattenSeq(h(rounds)) = Twins(profile, rounds, stagger)
  BY <1>7 DEF Twins
<1>11. \A twins : z(twins) = Renumbered(profile, twins)
  BY DEF Renumbered
<1> HIDE DEF f, g, h, z
<1>12. ends(1..m) = SortByKey(Firsts(profile, scales, order) \o
                         Renumbered(profile, Twins(profile, Rounds(profile, scales, order), stagger)), FirstOffset)
  BY <1>8, <1>9, <1>10, <1>11
<1>13. ends(DOMAIN order) = ends(1..m)
  <2> HIDE DEF ends
  <2> QED
    BY <1>2
<1> HIDE DEF ends
<1> QED
  BY <1>4, <1>12, <1>13

\* The sessions of a class.
LEMMA SharingAre ==
    ASSUME NEW profile \in Seq(CapturedSession), NEW c
    PROVE  /\ Sharing(profile, c) \in Seq(CapturedSession)
           /\ Filed(Sharing(profile, c), OfClass(profile, c), profile)
           /\ Sharing(profile, c) = << >> <=> OfClass(profile, c) = {}
<1>1. PICK n \in Nat : n = Len(profile) /\ profile \in [1..n -> CapturedSession]
  OBVIOUS
<1>2. PICK K : K = OfClass(profile, c) /\ K \in SUBSET (1..n)
  BY <1>1 DEF OfClass
<1>3. PICK s : s = Sharing(profile, c)
  OBVIOUS
<1>4. s = Chosen(profile, K)
  BY <1>2, <1>3 DEF Sharing
<1>5. s \in Seq(CapturedSession)
  <2>1. Picks(Chosen(profile, K), profile, K, CapturedSession)
    BY <1>1, <1>2, Choosing
  <2> QED
    BY <1>4, <2>1 DEF Picks
<1>6. Filed(s, K, profile)
  BY <1>1, <1>2, <1>4, ChosenFiled
<1>7. s = << >> <=> K = {}
  <2>1. PICK at : Files(at, s, K, profile)
    BY <1>6 DEF Filed
  <2>2. \A d \in K : at[d] \in 1..Len(s)
    BY <2>1 DEF Files
  <2>3. \A i \in 1..Len(s) : \E d \in K : at[d] = i
    BY <2>1 DEF Files
  <2>4. s = << >> => K = {}
    BY <2>2
  <2>5. s # << >> => 1 \in 1..Len(s)
    BY <1>5
  <2> QED
    BY <2>3, <2>4, <2>5
<1> QED
  BY <1>2, <1>3, <1>5, <1>6, <1>7

\* The captured sessions come first, but for those whose class is to run 0 times.
LEMMA FirstsFiled ==
    ASSUME NEW profile \in Seq(CapturedSession), NEW scales \in [Classes -> Nat], NEW order, Orders(order, profile),
           NEW K, K = {s \in 1..Len(profile) : scales[classify_session(profile[s])] # 0}
    PROVE  /\ Firsts(profile, scales, order) \in Seq(CapturedSession)
           /\ Filed(Firsts(profile, scales, order), K, profile)
<1>1. PICK n \in Nat : n = Len(profile)
  OBVIOUS
<1>2. PICK m \in Nat : m = Len(order) /\ \A i \in 1..m : order[i] \in Classes
  BY DEF Orders
<1>3. PICK seqs : seqs = [i \in 1..m |-> IF scales[order[i]] = 0 THEN << >> ELSE Sharing(profile, order[i])]
  OBVIOUS
<1>4. seqs \in [1..m -> Seq(CapturedSession)]
  <2>1. ASSUME NEW i \in 1..m PROVE seqs[i] \in Seq(CapturedSession)
    <3>1. Sharing(profile, order[i]) \in Seq(CapturedSession)
      BY SharingAre
    <3>2. << >> \in Seq(CapturedSession)
      OBVIOUS
    <3> QED
      BY <1>3, <3>1, <3>2
  <2>2. seqs = [i \in 1..m |-> seqs[i]]
    BY <1>3
  <2> QED
    BY ONLY <2>1, <2>2
<1>5. PICK g : g = [s \in K |-> CHOOSE i \in 1..m : order[i] = classify_session(profile[s])]
  OBVIOUS
<1>6. ASSUME NEW s \in K PROVE g[s] \in 1..m /\ order[g[s]] = classify_session(profile[s])
  <2>1. \E i \in 1..m : order[i] = classify_session(profile[s])
    BY <1>2 DEF Orders
  <2> QED
    BY <1>5, <2>1
<1>7. g \in [K -> 1..m]
  <2>1. g = [s \in K |-> g[s]]
    BY <1>5
  <2> QED
    BY ONLY <1>6, <2>1
<1>8. ASSUME NEW i \in 1..m PROVE Filed(seqs[i], {s \in K : g[s] = i}, profile)
  <2>1. \A s \in K : g[s] = i <=> classify_session(profile[s]) = order[i]
    BY <1>2, <1>6 DEF Orders
  <2>2. CASE scales[order[i]] = 0
    <3>1. {s \in K : g[s] = i} = {} /\ seqs[i] = << >>
      BY <1>3, <2>1, <2>2
    <3>2. Filed(<< >>, {}, profile)
      BY FiledFew
    <3> QED
      BY <3>1, <3>2, Zenon
  <2>3. CASE scales[order[i]] # 0
    <3>1. {s \in K : g[s] = i} = OfClass(profile, order[i])
      BY <2>1, <2>3 DEF OfClass
    <3>2. seqs[i] = Sharing(profile, order[i])
      BY <1>3, <2>3
    <3>3. Filed(Sharing(profile, order[i]), OfClass(profile, order[i]), profile)
      BY SharingAre
    <3> QED
      BY <3>1, <3>2, <3>3, Zenon
  <2> QED
    BY <2>2, <2>3
<1>9. Filed(FlattenSeq(seqs), K, profile)
  BY <1>4, <1>7, <1>8, FiledFlatten
<1>10. seqs \in Seq(Seq(CapturedSession))
  BY <1>4
<1>11. FlattenSeq(seqs) \in Seq(CapturedSession)
  BY <1>10, FlattenType
<1>12. Firsts(profile, scales, order) = FlattenSeq(seqs)
  BY <1>2, <1>3 DEF Firsts
<1> QED
  BY <1>9, <1>11, <1>12

\* Each class that has sessions gets a round for every copy after the first.
LEMMA RoundsAre ==
    ASSUME NEW profile \in Seq(CapturedSession), NEW scales \in [Classes -> Nat], NEW order, Orders(order, profile)
    PROVE  /\ Rounds(profile, scales, order) \in Seq(Classes)
           /\ \A s \in 1..Len(profile) :
                 Cardinality(RoundsOf(Rounds(profile, scales, order), classify_session(profile[s])))
                   = IF scales[classify_session(profile[s])] <= 1 THEN 0 ELSE scales[classify_session(profile[s])] - 1
<1>1. PICK m \in Nat : m = Len(order) /\ \A i \in 1..m : order[i] \in Classes /\ scales[order[i]] \in Nat
  <2>1. order \in Seq(Classes)
    BY DEF Orders
  <2>2. \A i \in 1..Len(order) : order[i] \in Classes /\ scales[order[i]] \in Nat
    BY ONLY <2>1, scales \in [Classes -> Nat]
  <2> QED
    BY <2>1, <2>2
<1>2. PICK many : many = [i \in 1..m |-> IF Sharing(profile, order[i]) = << >> \/ scales[order[i]] <= 1 THEN 0
                                         ELSE scales[order[i]] - 1]
  OBVIOUS
<1>3. \A i \in 1..m : many[i] \in Nat
  BY <1>1, <1>2
<1>4. PICK seqs : seqs = [i \in 1..m |-> Turns(profile, scales, order[i])]
  OBVIOUS
<1>5. ASSUME NEW i \in 1..m
      PROVE  /\ seqs[i] \in Seq(Classes) /\ Len(seqs[i]) = many[i]
             /\ \A k \in 1..many[i] : seqs[i][k] = order[i]
  <2>1. CASE Sharing(profile, order[i]) = << >> \/ scales[order[i]] <= 1
    <3>1. seqs[i] = << >> /\ many[i] = 0
      BY <1>2, <1>4, <2>1 DEF Turns
    <3>2. << >> \in Seq(Classes) /\ Len(<< >>) = 0
      OBVIOUS
    <3> QED
      BY <3>1, <3>2
  <2>2. CASE ~(Sharing(profile, order[i]) = << >> \/ scales[order[i]] <= 1)
    <3>1. PICK h \in Nat : h = scales[order[i]] - 1 /\ h = many[i]
      BY <1>1, <1>2, <2>2
    <3>2. PICK c \in Classes : c = order[i]
      BY <1>1
    <3>3. seqs[i] = [k \in 1..h |-> c]
      BY <1>4, <2>2, <3>1, <3>2 DEF Turns
    <3>4. PICK x : x = [k \in 1..h |-> c]
      OBVIOUS
    <3>5. x \in Seq(Classes) /\ Len(x) = h /\ \A k \in 1..h : x[k] = c
      BY ONLY <3>4, h \in Nat, c \in Classes
    <3> QED
      BY ONLY <3>1, <3>2, <3>3, <3>4, <3>5
  <2> QED
    BY <2>1, <2>2
<1>6. seqs \in [1..m -> Seq(Classes)] /\ seqs \in Seq(Seq(Classes))
  <2>1. seqs = [i \in 1..m |-> seqs[i]]
    BY <1>4
  <2>2. seqs \in [1..m -> Seq(Classes)]
    BY ONLY <1>5, <2>1
  <2> QED
    BY ONLY <2>2, m \in Nat
<1>7. PICK rounds : rounds = FlattenSeq(seqs)
  OBVIOUS
<1>8. rounds = Rounds(profile, scales, order)
  BY <1>1, <1>4, <1>7 DEF Rounds
<1>9. rounds \in Seq(Classes)
  BY <1>6, <1>7, FlattenType
<1> DEFINE Of(i) == {<<i, k>> : k \in 1..many[i]}
<1>10. PICK D : D = UNION {Of(i) : i \in 1..m}
  OBVIOUS
<1>11. \A d \in D : d[1] \in 1..m /\ d \in Of(d[1])
  BY <1>10
<1>12. ASSUME NEW i \in 1..m PROVE {d \in D : d[1] = i} = Of(i)
  BY <1>10, <1>11
<1>13. PICK g : g = [d \in D |-> d[1]]
  OBVIOUS
<1>14. PICK val : val = [d \in D |-> order[d[1]]]
  OBVIOUS
<1>15. ASSUME NEW i \in 1..m PROVE Filed(seqs[i], {d \in D : g[d] = i}, val)
  <2>1. {d \in D : g[d] = i} = Of(i)
    <3>1. {d \in D : g[d] = i} = {d \in D : d[1] = i}
      BY <1>13
    <3> QED
      BY <1>12, <3>1
  <2>2. PICK at : at = [d \in Of(i) |-> d[2]]
    OBVIOUS
  <2>3. ASSUME NEW d \in Of(i) PROVE at[d] \in 1..many[i] /\ d = <<i, at[d]>> /\ val[d] = order[i]
    <3>1. PICK k \in 1..many[i] : d = <<i, k>>
      OBVIOUS
    <3>2. d \in D
      BY <1>10
    <3>3. val[d] = order[d[1]]
      BY <1>14, <3>2
    <3> QED
      BY <2>2, <3>1, <3>3
  <2>4. ASSUME NEW k \in 1..many[i] PROVE <<i, k>> \in Of(i) /\ at[<<i, k>>] = k
    BY <2>2
  <2>5. at \in [Of(i) -> 1..many[i]]
    <3>1. at = [d \in Of(i) |-> at[d]]
      BY <2>2
    <3> HIDE DEF Of
    <3> QED
      BY ONLY <2>3, <3>1
  <2> HIDE DEF Of
  <2>6. Files(at, seqs[i], Of(i), val)
    BY <1>5, <2>3, <2>4, <2>5 DEF Files
  <2>7. Filed(seqs[i], Of(i), val)
    BY <2>6 DEF Filed
  <2> QED
    BY <2>1, <2>7, Zenon
<1>16. g \in [D -> 1..m]
  BY <1>11, <1>13
<1>17. Filed(rounds, D, val)
  BY <1>6, <1>7, <1>15, <1>16, FiledFlatten
<1>18. PICK at : Files(at, rounds, D, val)
  BY <1>17 DEF Filed
<1>19. ASSUME NEW s \in 1..Len(profile), NEW c, c = classify_session(profile[s])
       PROVE  Cardinality(RoundsOf(rounds, c)) = IF scales[c] <= 1 THEN 0 ELSE scales[c] - 1
  <2>1. PICK i \in 1..m : order[i] = c
    BY <1>1, <1>19 DEF Orders
  <2>2. many[i] = IF scales[c] <= 1 THEN 0 ELSE scales[c] - 1
    <3>1. s \in OfClass(profile, c)
      BY <1>19 DEF OfClass
    <3>2. Sharing(profile, c) # << >>
      BY <3>1, SharingAre
    <3> QED
      BY <1>2, <2>1, <3>2
  <2>3. \A d \in D : val[d] = c <=> d[1] = i
    <3>1. \A d \in D : val[d] = order[d[1]] /\ d[1] \in 1..m
      BY <1>11, <1>14
    <3>2. \A j \in 1..m : order[j] = order[i] => j = i
      BY <1>1 DEF Orders
    <3> QED
      BY <2>1, <3>1, <3>2
  <2>4. PICK B : B = {d \in D : d[1] = i}
    OBVIOUS
  <2>5. RoundsOf(rounds, c) = Spots(at, B, Len(rounds))
    <3>1. \A d \in D : at[d] \in 1..Len(rounds) /\ rounds[at[d]] = val[d]
      BY <1>18 DEF Files
    <3>2. \A r \in 1..Len(rounds) : \E d \in D : at[d] = r
      BY <1>18 DEF Files
    <3> QED
      BY <2>3, <2>4, <3>1, <3>2 DEF Spots, RoundsOf
  <2>6. Cardinality(Spots(at, B, Len(rounds))) = Cardinality(B)
    <3>1. B \in SUBSET D /\ Len(rounds) \in Nat
      BY <1>9, <2>4
    <3> QED
      BY <1>18, <3>1, FiledCount
  <2>7. Cardinality(B) = many[i]
    <3>1. B = {<<i, k>> : k \in 1..many[i]}
      BY <1>12, <2>4
    <3>2. PICK h \in Nat : h = many[i]
      BY <1>3
    <3>3. PICK H : H = 1..h /\ IsFiniteSet(H) /\ Cardinality(H) = h
      BY ONLY h \in Nat, FS_Interval
    <3>4. B = {i} \X H
      BY <3>1, <3>2, <3>3
    <3>5. Cardinality({i} \X H) = Cardinality(H)
      BY <3>3, PairsCount
    <3> QED
      BY <3>2, <3>3, <3>4, <3>5
  <2> QED
    BY <2>2, <2>5, <2>6, <2>7
<1> QED
  BY <1>8, <1>9, <1>19

\* Every class of the profile has its place in the order the groups are in.
LEMMA OrderIs ==
    ASSUME NEW profile \in Seq(CapturedSession), NEW order \in SetToSeqs({classify_session(profile[s]) : s \in DOMAIN profile})
    PROVE  Orders(order, profile)
<1>1. PICK n \in Nat : n = Len(profile) /\ DOMAIN profile = 1..n
  OBVIOUS
<1>2. PICK S : S = {classify_session(profile[s]) : s \in 1..n}
  OBVIOUS
<1>3. S \subseteq Classes
  BY <1>2, ClassType
<1>4. IsFiniteSet(S)
  <2>1. IsFiniteSet({}) /\ Classes = ((({} \cup {"Analytical"}) \cup {"Transactional"}) \cup {"Mixed"}) \cup {"Bulk"}
    BY FS_EmptySet DEF Classes
  <2>2. IsFiniteSet(Classes)
    BY <2>1, FS_AddElement
  <2> QED
    BY <1>3, <2>2, FS_Subset
<1>5. PICK m \in Nat : m = Cardinality(S)
  BY <1>4, FS_CardinalityType
<1>6. order \in [1..m -> S] /\ \A i, j \in 1..m : i # j => order[i] # order[j]
  BY <1>1, <1>2, <1>5 DEF SetToSeqs
<1>7. order \in Injection(1..m, S)
  BY <1>6 DEF Injection, IsInjective
<1>8. Cardinality(1..m) = m
  <2>1. 1 \in Int /\ m \in Int
    OBVIOUS
  <2> QED
    BY <2>1, FS_Interval
<1>9. order \in Surjection(1..m, S)
  BY <1>4, <1>5, <1>7, <1>8, FS_Injection
<1>10. \A c \in S : \E i \in 1..m : order[i] = c
  BY <1>9 DEF Surjection
<1>11. order \in Seq(Classes)
  BY OrderType
<1>12. Len(order) = m
  BY <1>6
<1> QED
  BY <1>1, <1>2, <1>6, <1>10, <1>11, <1>12 DEF Orders

\* A round and a session of its class.
Slots(rounds, profile) ==
    {d \in (1..Len(rounds)) \X (1..Len(profile)) : rounds[d[1]] = classify_session(profile[d[2]])}

\* The further copies: of every session of a round's class one in that round.
LEMMA TwinsFiled ==
    ASSUME NEW profile \in Seq(CapturedSession), NEW rounds \in Seq(Classes), NEW stagger \in Nat,
           NEW D, D = Slots(rounds, profile), NEW val, \A d \in D : val[d] = Copy(profile[d[2]], 0, d[1] * stagger)
    PROVE  /\ Twins(profile, rounds, stagger) \in Seq(CapturedSession)
           /\ Filed(Twins(profile, rounds, stagger), D, val)
<1>1. PICK n \in Nat : n = Len(profile) /\ profile \in [1..n -> CapturedSession]
  OBVIOUS
<1>2. PICK l \in Nat : l = Len(rounds) /\ DOMAIN rounds = 1..l
  OBVIOUS
<1> DEFINE twin(r) == Each(Sharing(profile, rounds[r]), LAMBDA s : Copy(s, 0, r * stagger))
<1>3. PICK seqs : seqs = [r \in 1..l |-> twin(r)]
  OBVIOUS
<1>4. ASSUME NEW r \in 1..l
      PROVE  seqs[r] \in Seq(CapturedSession) /\ Filed(seqs[r], {d \in D : d[1] = r}, val)
  <2>1. PICK x \in Seq(CapturedSession) : x = Sharing(profile, rounds[r])
    BY SharingAre
  <2>2. PICK h \in Nat : h = Len(x) /\ DOMAIN x = 1..h /\ x \in [1..h -> CapturedSession]
    OBVIOUS
  <2>3. PICK off \in Nat : off = r * stagger
    <3>1. r * stagger \in Nat
      BY ONLY r \in 1..l, l \in Nat, stagger \in Nat
    <3> QED
      BY <3>1
  <2>4. seqs[r] = [k \in 1..h |-> Copy(x[k], 0, off)]
    BY <1>3, <2>1, <2>2, <2>3 DEF Each
  <2>5. PICK z : z = [k \in 1..h |-> Copy(x[k], 0, off)]
    OBVIOUS
  <2>6. ASSUME NEW k \in 1..h PROVE z[k] \in CapturedSession
    <3>1. x[k] \in CapturedSession
      BY <2>2
    <3>2. Copy(x[k], 0, off) \in CapturedSession
      BY <3>1, CopyType
    <3> QED
      BY <2>5, <3>2
  <2>7. z \in Seq(CapturedSession) /\ Len(z) = h
    <3>1. z = [k \in 1..h |-> z[k]]
      BY <2>5
    <3>2. z \in [1..h -> CapturedSession]
      BY ONLY <2>6, <3>1
    <3> QED
      BY ONLY <3>2, h \in Nat
  <2>8. PICK K : K = OfClass(profile, rounds[r])
    OBVIOUS
  <2>9. Filed(x, K, profile)
    BY <2>1, <2>8, SharingAre
  <2>10. PICK at : Files(at, x, K, profile)
    BY <2>9 DEF Filed
  <2>11. PICK v : v = [k \in K |-> Copy(profile[k], 0, off)]
    OBVIOUS
  <2>12. Files(at, z, K, v)
    <3>1. at \in [K -> 1..h]
      BY <2>2, <2>10 DEF Files
    <3>2. ASSUME NEW k \in K PROVE z[at[k]] = v[k]
      <4>1. at[k] \in 1..h /\ x[at[k]] = profile[k]
        BY <2>10, <3>1 DEF Files
      <4> QED
        BY <2>5, <2>11, <4>1
    <3> QED
      BY <2>2, <2>7, <2>10, <3>1, <3>2 DEF Files
  <2>13. Filed(z, K, v)
    BY <2>12 DEF Filed
  <2>14. PICK E : E = {d \in D : d[1] = r}
    OBVIOUS
  <2>15. PICK f : f = [d \in E |-> d[2]]
    OBVIOUS
  <2>16. ASSUME NEW d \in E PROVE f[d] = d[2] /\ d = <<r, d[2]>> /\ d[2] \in K /\ val[d] = v[f[d]]
    <3>1. d \in (1..l) \X (1..n) /\ d[1] = r /\ rounds[r] = classify_session(profile[d[2]]) /\ d \in D
      BY <1>1, <1>2, <2>14 DEF Slots
    <3>2. d[2] \in 1..n /\ d = <<r, d[2]>>
      BY <3>1
    <3>3. d[2] \in K
      BY <1>1, <2>8, <3>1, <3>2 DEF OfClass
    <3>4. val[d] = Copy(profile[d[2]], 0, off)
      BY <2>3, <3>1
    <3> QED
      BY <2>11, <2>15, <3>2, <3>3, <3>4
  <2>17. f \in [E -> K]
    BY <2>15, <2>16
  <2>18. \A k \in K : \E d \in E : f[d] = k
    <3>1. ASSUME NEW k \in K PROVE <<r, k>> \in E
      <4>1. k \in 1..n /\ classify_session(profile[k]) = rounds[r]
        BY <1>1, <2>8 DEF OfClass
      <4> QED
        BY <1>1, <1>2, <2>14, <4>1 DEF Slots
    <3>2. \A k \in K : f[<<r, k>>] = k
      BY <2>15, <3>1
    <3> QED
      BY <3>1, <3>2
  <2>19. \A d, e \in E : f[d] = f[e] => d = e
    BY <2>16
  <2>20. \A d \in E : val[d] = v[f[d]]
    BY <2>16
  <2>21. Filed(z, E, val)
    <3>1. Renames(f, E, K, val, v)
      BY ONLY <2>17, <2>18, <2>19, <2>20 DEF Renames
    <3> QED
      BY ONLY <2>13, <3>1, Refiled
  <2>22. seqs[r] = z
    BY <2>4, <2>5
  <2> QED
    BY <2>7, <2>14, <2>21, <2>22
<1>5. seqs \in [1..l -> Seq(CapturedSession)]
  <2>1. seqs = [r \in 1..l |-> seqs[r]]
    BY <1>3
  <2> QED
    BY ONLY <1>4, <2>1
<1>6. PICK g : g = [d \in D |-> d[1]]
  OBVIOUS
<1>7. g \in [D -> 1..l]
  BY <1>2, <1>6 DEF Slots
<1>8. ASSUME NEW r \in 1..l PROVE Filed(seqs[r], {d \in D : g[d] = r}, val)
  <2>1. {d \in D : g[d] = r} = {d \in D : d[1] = r}
    BY <1>6
  <2> QED
    BY <1>4, <2>1
<1>9. Filed(FlattenSeq(seqs), D, val)
  <2>1. \A r \in 1..l : Filed(seqs[r], {d \in D : g[d] = r}, val)
    BY <1>8
  <2> QED
    BY ONLY <1>5, <1>7, <2>1, l \in Nat, FiledFlatten
<1>10. seqs \in Seq(Seq(CapturedSession))
  BY <1>5
<1>11. FlattenSeq(seqs) \in Seq(CapturedSession)
  BY <1>10, FlattenType
<1>12. Twins(profile, rounds, stagger) = FlattenSeq(seqs)
  BY <1>2, <1>3 DEF Twins
<1> QED
  BY <1>9, <1>11, <1>12

\* They are numbered by their places, from the largest id on.
LEMMA RenumberedFiled ==
    ASSUME NEW profile \in Seq(CapturedSession), NEW twins \in Seq(CapturedSession), NEW D, NEW val, NEW at,
           Files(at, twins, D, val), NEW v, \A d \in D : v[d] = [val[d] EXCEPT !.id = MaxId(profile) + at[d]]
    PROVE  /\ Renumbered(profile, twins) \in Seq(CapturedSession)
           /\ Filed(Renumbered(profile, twins), D, v)
<1>1. PICK h \in Nat : h = Len(twins) /\ DOMAIN twins = 1..h /\ twins \in [1..h -> CapturedSession]
  OBVIOUS
<1>2. PICK b \in Nat : b = MaxId(profile)
  BY LargestId
<1>3. PICK z : z = [k \in 1..h |-> [twins[k] EXCEPT !.id = b + k]]
  OBVIOUS
<1>4. ASSUME NEW k \in 1..h PROVE z[k] \in CapturedSession
  <2>1. PICK x \in CapturedSession : x = twins[k]
    BY <1>1
  <2>2. PICK i \in Nat : i = b + k
    OBVIOUS
  <2>3. [x EXCEPT !.id = i] \in CapturedSession
    BY DEF CapturedSession
  <2> QED
    BY <1>3, <2>1, <2>2, <2>3
<1>5. z \in Seq(CapturedSession) /\ Len(z) = h
  <2>1. z = [k \in 1..h |-> z[k]]
    BY <1>3
  <2>2. z \in [1..h -> CapturedSession]
    BY ONLY <1>4, <2>1
  <2> QED
    BY ONLY <2>2, h \in Nat
<1>6. Renumbered(profile, twins) = z
  BY <1>1, <1>2, <1>3 DEF Renumbered
<1>7. at \in [D -> 1..h]
  BY <1>1 DEF Files
<1>8. ASSUME NEW d \in D PROVE z[at[d]] = v[d]
  <2>1. at[d] \in 1..h /\ twins[at[d]] = val[d]
    BY <1>7 DEF Files
  <2>2. z[at[d]] = [twins[at[d]] EXCEPT !.id = b + at[d]]
    BY <1>3, <2>1
  <2> QED
    BY <1>2, <2>1, <2>2
<1>9. Files(at, z, D, v)
  BY <1>1, <1>5, <1>7, <1>8 DEF Files
<1> QED
  BY <1>5, <1>6, <1>9 DEF Filed

-----------------------------------------------------------------------------
(***************************************************************************)
(* How often a session is replayed, and when.                              *)
(***************************************************************************)
IsCopy(x, session, delay) ==
    /\ Text(x) = Text(session)
    /\ session.queries # << >> => FirstOffset(x) = FirstOffset(session) + delay

\* seq holds each session of the profile as often as many says; d is copy d[1] of session d[2].
Replicates(at, seq, D, profile, stagger, many) ==
    /\ at \in [D -> 1..Len(seq)]
    /\ \A i \in 1..Len(seq) : \E d \in D : at[d] = i
    /\ \A d, e \in D : at[d] = at[e] => d = e
    /\ D \subseteq Nat \X (1..Len(profile))
    /\ \A d \in D : IsCopy(seq[at[d]], profile[d[2]], d[1] * stagger)
    /\ \A s \in 1..Len(profile) : Cardinality({d \in D : d[2] = s}) = many[s]

\* No two have the same id.
IdsApart(seq) == \A j, k \in 1..Len(seq) : j # k => seq[j].id # seq[k].id

Renumber(session, i) == [session EXCEPT !.id = i]

\* A copy has the texts of the session and begins later by the delay.
LEMMA CopyIs ==
    ASSUME NEW session \in CapturedSession, NEW id \in Nat, NEW offset \in Nat, NEW i \in Nat
    PROVE  /\ IsCopy(Copy(session, id, offset), session, offset) /\ Copy(session, id, offset).id = id
           /\ IsCopy(Renumber(Copy(session, id, offset), i), session, offset)
           /\ Renumber(Copy(session, id, offset), i).id = i
           /\ IsCopy(session, session, 0)
<1>1. PICK q \in Seq(QueryType) : q = session.queries
  BY DEF CapturedSession
<1>2. PICK n \in Nat : n = Len(q) /\ DOMAIN q = 1..n /\ q \in [1..n -> QueryType]
  OBVIOUS
<1>3. PICK r : r = [k \in 1..n |-> [q[k] EXCEPT !.start_offset_us = @ + offset]]
  OBVIOUS
<1>4. Copy(session, id, offset) = [[session EXCEPT !.id = id] EXCEPT !.queries = r]
  BY <1>1, <1>2, <1>3 DEF Copy, Each, CapturedSession
<1>5. PICK c : c = Copy(session, id, offset)
  OBVIOUS
<1>6. c.id = id /\ c.queries = r /\ Renumber(c, i).id = i /\ Renumber(c, i).queries = r
  BY <1>4, <1>5 DEF CapturedSession, Renumber
<1>7. ASSUME NEW k \in 1..n PROVE r[k].sql = q[k].sql /\ r[k].start_offset_us = q[k].start_offset_us + offset
  <2>1. PICK x \in QueryType : x = q[k]
    BY <1>2
  <2>2. r[k] = [x EXCEPT !.start_offset_us = @ + offset]
    BY <1>3, <2>1
  <2> QED
    BY <2>1, <2>2 DEF QueryType
<1>8. DOMAIN r = 1..n /\ (r = << >> <=> n = 0) /\ (q = << >> <=> n = 0)
  <2>1. DOMAIN r = 1..n /\ r = [k \in 1..n |-> r[k]]
    BY <1>3
  <2>2. r = << >> <=> n = 0
    BY ONLY <2>1, n \in Nat
  <2>3. q = << >> <=> n = 0
    BY <1>2
  <2> QED
    BY <2>1, <2>2, <2>3
<1>9. ASSUME NEW x, x.queries = r PROVE IsCopy(x, session, offset)
  <2>1. Text(x) = [k \in 1..n |-> r[k].sql]
    BY <1>8, <1>9 DEF Text, Each
  <2>2. Text(session) = [k \in 1..n |-> q[k].sql]
    BY <1>1, <1>2 DEF Text, Each
  <2>3. [k \in 1..n |-> r[k].sql] = [k \in 1..n |-> q[k].sql]
    BY <1>7
  <2>4. ASSUME q # << >> PROVE FirstOffset(x) = FirstOffset(session) + offset
    <3>1. 1 \in 1..n /\ r # << >>
      BY <1>8, <2>4
    <3>2. FirstOffset(x) = r[1].start_offset_us /\ FirstOffset(session) = q[1].start_offset_us
      BY <1>1, <1>9, <2>4, <3>1 DEF FirstOffset
    <3> QED
      BY <1>7, <3>1, <3>2
  <2> QED
    BY <1>1, <2>1, <2>2, <2>3, <2>4 DEF IsCopy
<1>10. IsCopy(session, session, 0)
  <2>1. ASSUME q # << >> PROVE FirstOffset(session) \in Nat
    <3>1. q[1] \in QueryType
      BY <1>2, <1>8, <2>1
    <3> QED
      BY <1>1, <2>1, <3>1 DEF FirstOffset, QueryType
  <2> QED
    BY <1>1, <2>1 DEF IsCopy
<1> QED
  BY <1>5, <1>6, <1>9, <1>10

\* A new id changes nothing else.
LEMMA RenumberedCopy ==
    ASSUME NEW session \in CapturedSession, NEW id \in Nat, NEW offset \in Nat, NEW i \in Nat
    PROVE  IsCopy(Renumber(Copy(session, id, offset), i), session, offset)
BY CopyIs

\* And it is the id.
LEMMA RenumberedId ==
    ASSUME NEW session \in CapturedSession, NEW id \in Nat, NEW offset \in Nat, NEW i \in Nat
    PROVE  Renumber(Copy(session, id, offset), i).id = i
BY CopyIs

\* Scaled by class, a session is there once, and once more in each round of its class.
LEMMA ByClassReplicates ==
    ASSUME NEW profile \in Seq(CapturedSession), NEW scales \in [Classes -> Nat], NEW stagger \in Nat,
           NEW order, Orders(order, profile),
           NEW many, many = [s \in 1..Len(profile) |-> scales[classify_session(profile[s])]],
           NEW scaled, scaled = scale_sessions_by_class(profile, scales, stagger, order)
    PROVE  /\ scaled \in Seq(CapturedSession)
           /\ \E at, D : Replicates(at, scaled, D, profile, stagger, many)
           /\ IdsApart(profile) => IdsApart(scaled)
           /\ \A j, k \in 1..Len(scaled) : j < k => FirstOffset(scaled[j]) <= FirstOffset(scaled[k])
<1>1. PICK n \in Nat : n = Len(profile) /\ \A s \in 1..n : profile[s] \in CapturedSession /\ profile[s].id \in Nat
  <2>1. ASSUME NEW s \in 1..Len(profile) PROVE profile[s] \in CapturedSession /\ profile[s].id \in Nat
    <3>1. profile[s] \in CapturedSession
      OBVIOUS
    <3> QED
      BY <3>1 DEF CapturedSession
  <2> QED
    BY <2>1
<1>2. PICK cls : cls = [s \in 1..n |-> classify_session(profile[s])]
  OBVIOUS
<1>3. ASSUME NEW s \in 1..n
      PROVE  cls[s] = classify_session(profile[s]) /\ cls[s] \in Classes /\ scales[cls[s]] \in Nat /\ many[s] = scales[cls[s]]
  BY <1>1, <1>2, ClassType
<1>4. PICK rounds \in Seq(Classes) : rounds = Rounds(profile, scales, order)
  BY RoundsAre
<1>5. PICK l \in Nat : l = Len(rounds)
  BY <1>4
<1>6. PICK K : K = {s \in 1..n : scales[cls[s]] # 0}
  OBVIOUS
<1>7. PICK firsts \in Seq(CapturedSession) : firsts = Firsts(profile, scales, order) /\ Filed(firsts, K, profile)
  <2>1. K = {s \in 1..Len(profile) : scales[classify_session(profile[s])] # 0}
    BY <1>1, <1>3, <1>6
  <2> QED
    BY <2>1, FirstsFiled
<1>8. PICK E : E = {d \in (1..l) \X (1..n) : rounds[d[1]] = cls[d[2]]}
  OBVIOUS
<1>9. PICK w : w = [d \in E |-> Copy(profile[d[2]], 0, d[1] * stagger)]
  OBVIOUS
<1>10. PICK twins \in Seq(CapturedSession) : twins = Twins(profile, rounds, stagger) /\ Filed(twins, E, w)
  <2>1. E = Slots(rounds, profile)
    BY <1>1, <1>3, <1>5, <1>8 DEF Slots
  <2>2. \A d \in E : w[d] = Copy(profile[d[2]], 0, d[1] * stagger)
    BY <1>9
  <2>3. /\ Twins(profile, rounds, stagger) \in Seq(CapturedSession)
        /\ Filed(Twins(profile, rounds, stagger), E, w)
    BY ONLY <2>1, <2>2, profile \in Seq(CapturedSession), rounds \in Seq(Classes), stagger \in Nat, TwinsFiled
  <2> QED
    BY <2>3
<1>11. PICK x : Files(x, twins, E, w)
  BY <1>10 DEF Filed
<1>12. PICK b \in Nat : b = MaxId(profile)
  BY LargestId
<1>13. PICK C : C = {0} \X K
  OBVIOUS
<1>14. PICK val : val = [d \in C \cup E |-> IF d \in C THEN profile[d[2]] ELSE [w[d] EXCEPT !.id = b + x[d]]]
  OBVIOUS
<1>15. ASSUME NEW d \in C
       PROVE  d[1] = 0 /\ d[2] \in K /\ d = <<0, d[2]>> /\ val[d] = profile[d[2]] /\ d \notin E
  BY <1>8, <1>13, <1>14
<1>16. ASSUME NEW d \in E
       PROVE  d[1] \in 1..l /\ d[2] \in 1..n /\ d = <<d[1], d[2]>> /\ val[d] = [w[d] EXCEPT !.id = b + x[d]] /\ d \notin C
  BY <1>8, <1>13, <1>14
<1>17. Filed(firsts, C, val)
  <2>1. PICK f : f = [d \in C |-> d[2]]
    OBVIOUS
  <2>2. f \in [C -> K]
    BY <1>15, <2>1
  <2>3. \A s \in K : \E d \in C : f[d] = s
    <3>1. \A s \in K : <<0, s>> \in C /\ f[<<0, s>>] = s
      BY <1>13, <2>1
    <3> QED
      BY <3>1
  <2>4. \A d, e \in C : f[d] = f[e] => d = e
    BY <1>15, <2>1
  <2>5. \A d \in C : val[d] = profile[f[d]]
    BY <1>15, <2>1
  <2>6. Filed(firsts, K, profile)
    BY <1>7
  <2> QED
    <3>1. Renames(f, C, K, val, profile)
      BY ONLY <2>2, <2>3, <2>4, <2>5 DEF Renames
    <3> QED
      BY ONLY <2>6, <3>1, Refiled
<1>18. PICK numbered \in Seq(CapturedSession) : numbered = Renumbered(profile, twins) /\ Filed(numbered, E, val)
  <2>1. \A d \in E : val[d] = [w[d] EXCEPT !.id = MaxId(profile) + x[d]]
    BY <1>12, <1>16
  <2>2. Renumbered(profile, twins) \in Seq(CapturedSession) /\ Filed(Renumbered(profile, twins), E, val)
    BY ONLY <1>11, <2>1, profile \in Seq(CapturedSession), twins \in Seq(CapturedSession), RenumberedFiled
  <2> QED
    BY <2>2
<1>19. PICK D : D = C \cup E
  OBVIOUS
<1>20. PICK y \in Seq(CapturedSession) : y = firsts \o numbered /\ Filed(y, D, val)
  <2>1. C \cap E = {}
    BY <1>15
  <2>2. Filed(firsts \o numbered, C \cup E, val)
    BY <1>17, <1>18, <2>1, FiledJoin
  <2>3. firsts \o numbered \in Seq(CapturedSession)
    BY ONLY firsts \in Seq(CapturedSession), numbered \in Seq(CapturedSession), ConcatProperties
  <2> QED
    BY <1>19, <2>2, <2>3
<1>21. scaled = SortByKey(y, FirstOffset)
  <2>1. order \in Seq(Classes)
    BY DEF Orders
  <2>2. scale_sessions_by_class(profile, scales, stagger, order)
             = SortByKey(Firsts(profile, scales, order) \o
                         Renumbered(profile, Twins(profile, Rounds(profile, scales, order), stagger)), FirstOffset)
    BY ONLY <2>1, profile \in Seq(CapturedSession), scales \in [Classes -> Nat], stagger \in Nat, ByClassIs
  <2> QED
    BY <1>4, <1>7, <1>10, <1>18, <1>20, <2>2
<1>22. PICK h \in Nat : h = Len(y) /\ y \in [1..h -> CapturedSession]
  OBVIOUS
<1>23. PICK At : ByOffset(At, y, h) /\ scaled = [m \in 1..h |-> y[At[m]]]
  <2>1. y \in [1..h -> CapturedSession]
    BY <1>22
  <2>2. PICK At : ByOffset(At, y, h) /\ SortByKey(y, FirstOffset) = [m \in 1..h |-> y[At[m]]]
    BY ONLY <2>1, h \in Nat, OffsetOrder
  <2> QED
    BY <1>21, <2>2
<1>24. scaled \in [1..h -> CapturedSession] /\ scaled \in Seq(CapturedSession) /\ Len(scaled) = h
  <2>1. \A m \in 1..h : At[m] \in 1..h
    BY <1>23 DEF ByOffset
  <2>2. scaled \in [1..h -> CapturedSession]
    BY <1>22, <1>23, <2>1
  <2> QED
    BY ONLY <2>2, h \in Nat
<1>25. PICK at : Files(at, scaled, D, val)
  <2>1. Filed(scaled, D, val)
    BY <1>20, <1>21, <1>22, FiledSorted
  <2> QED
    BY <2>1 DEF Filed
<1>26. \A j, k \in 1..h : j < k => FirstOffset(scaled[j]) <= FirstOffset(scaled[k])
  BY <1>23 DEF ByOffset
<1>27. ASSUME NEW d \in D
       PROVE  /\ d[1] \in Nat /\ d[2] \in 1..n /\ d = <<d[1], d[2]>>
              /\ IsCopy(val[d], profile[d[2]], d[1] * stagger)
              /\ d \in C => val[d].id = profile[d[2]].id
              /\ d \in E => val[d].id = b + x[d] /\ x[d] \in 1..Len(twins)
  <2>1. CASE d \in C
    <3>1. d[1] = 0 /\ d[2] \in 1..n /\ d = <<0, d[2]>> /\ val[d] = profile[d[2]] /\ d \notin E
      BY <1>6, <1>15, <2>1
    <3>2. IsCopy(profile[d[2]], profile[d[2]], 0)
      BY <1>1, <3>1, CopyIs
    <3>3. 0 * stagger = 0
      BY ONLY stagger \in Nat
    <3> QED
      BY <3>1, <3>2, <3>3
  <2>2. CASE d \in E
    <3>1. d[1] \in 1..l /\ d[2] \in 1..n /\ d = <<d[1], d[2]>> /\ val[d] = [w[d] EXCEPT !.id = b + x[d]] /\ d \notin C
      BY <1>16, <2>2
    <3>2. PICK r \in 1..l : r = d[1]
      BY <3>1
    <3>3. PICK off \in Nat : off = r * stagger
      <4>1. r * stagger \in Nat
        BY ONLY r \in 1..l, l \in Nat, stagger \in Nat
      <4> QED
        BY <4>1
    <3>4. x[d] \in 1..Len(twins)
      BY <1>11, <2>2 DEF Files
    <3>5. PICK i \in Nat : i = b + x[d]
      BY <3>4
    <3>6. w[d] = Copy(profile[d[2]], 0, off)
      BY <1>9, <2>2, <3>2, <3>3
    <3>7. IsCopy(val[d], profile[d[2]], off) /\ val[d].id = i
      <4>1. PICK s \in CapturedSession : s = profile[d[2]]
        BY <1>1, <3>1
      <4>2. IsCopy(Renumber(Copy(s, 0, off), i), s, off) /\ Renumber(Copy(s, 0, off), i).id = i
        <5>1. PICK z \in Nat : z = 0
          OBVIOUS
        <5>2. IsCopy(Renumber(Copy(s, z, off), i), s, off)
          BY ONLY s \in CapturedSession, z \in Nat, off \in Nat, i \in Nat, RenumberedCopy
        <5>3. Renumber(Copy(s, z, off), i).id = i
          BY ONLY s \in CapturedSession, z \in Nat, off \in Nat, i \in Nat, RenumberedId
        <5> QED
          BY ONLY <5>1, <5>2, <5>3
      <4>3. val[d] = Renumber(Copy(s, 0, off), i)
        BY <3>1, <3>5, <3>6, <4>1 DEF Renumber
      <4> QED
        BY <4>1, <4>2, <4>3
    <3> QED
      BY <3>1, <3>2, <3>3, <3>4, <3>5, <3>7
  <2> QED
    BY <1>19, <2>1, <2>2
<1>28. ASSUME NEW s \in 1..n PROVE Cardinality({d \in D : d[2] = s}) = many[s]
  <2>1. PICK c : c = cls[s]
    OBVIOUS
  <2>2. PICK R : R = RoundsOf(rounds, c) /\ R = {r \in 1..l : rounds[r] = c}
    BY <1>5 DEF RoundsOf
  <2>3. IsFiniteSet(R) /\ 0 \notin R
    <3>1. PICK L : L = 1..l /\ IsFiniteSet(L)
      BY ONLY l \in Nat, FS_Interval
    <3>2. R \in SUBSET L /\ 0 \notin R
      BY <2>2, <3>1
    <3> QED
      BY ONLY <3>1, <3>2, FS_Subset
  <2>4. Cardinality(R) = IF scales[c] <= 1 THEN 0 ELSE scales[c] - 1
    <3>1. c = classify_session(profile[s]) /\ s \in 1..Len(profile)
      BY <1>1, <1>3, <2>1
    <3>2. Cardinality(RoundsOf(Rounds(profile, scales, order), classify_session(profile[s])))
             = IF scales[classify_session(profile[s])] <= 1 THEN 0 ELSE scales[classify_session(profile[s])] - 1
      BY ONLY <3>1, profile \in Seq(CapturedSession), scales \in [Classes -> Nat], Orders(order, profile), RoundsAre
    <3> QED
      BY <1>4, <2>2, <3>1, <3>2
  <2>5. PICK Q : Q = IF scales[c] = 0 THEN R ELSE R \cup {0}
    OBVIOUS
  <2>6. IsFiniteSet(Q) /\ Cardinality(Q) = scales[c]
    <3>1. scales[c] \in Nat
      BY <1>3, <2>1
    <3>2. IsFiniteSet(R \cup {0}) /\ Cardinality(R \cup {0}) = Cardinality(R) + 1
      BY <2>3, FS_AddElement
    <3> QED
      BY <2>3, <2>4, <2>5, <3>1, <3>2
  <2>7. {d \in D : d[2] = s} = Q \X {s}
    <3>1. ASSUME NEW d \in D, d[2] = s PROVE d \in Q \X {s}
      <4>1. d = <<d[1], s>>
        BY <1>27, <3>1
      <4>2. CASE d \in C
        <5>1. d[1] = 0 /\ s \in K
          BY <1>15, <3>1, <4>2
        <5>2. scales[c] # 0
          BY <1>6, <2>1, <5>1
        <5> QED
          BY <2>5, <4>1, <5>1, <5>2
      <4>3. CASE d \in E
        <5>1. d[1] \in 1..l /\ rounds[d[1]] = c
          BY <1>8, <2>1, <3>1, <4>3
        <5> QED
          BY <2>2, <2>5, <4>1, <5>1
      <4> QED
        BY <1>19, <4>2, <4>3
    <3>2. ASSUME NEW r \in Q PROVE <<r, s>> \in D
      <4>1. CASE r \in R
        <5>1. <<r, s>> \in E
          BY <1>8, <2>1, <2>2, <4>1
        <5> QED
          BY <1>19, <5>1
      <4>2. CASE r = 0 /\ r \notin R
        <5>1. s \in K
          BY <1>6, <2>1, <2>5, <4>2
        <5>2. <<0, s>> \in C
          BY <1>13, <5>1
        <5> QED
          BY <1>19, <4>2, <5>2
      <4> QED
        BY <2>5, <4>1, <4>2
    <3> QED
      BY <3>1, <3>2
  <2>8. Cardinality(Q \X {s}) = Cardinality(Q)
    BY <2>6, PairsCount
  <2> QED
    BY <1>3, <2>1, <2>6, <2>7, <2>8
<1>29. Replicates(at, scaled, D, profile, stagger, many)
  <2>1. \A d \in D : scaled[at[d]] = val[d]
    BY <1>25 DEF Files
  <2>2. \A d \in D : IsCopy(scaled[at[d]], profile[d[2]], d[1] * stagger)
    BY <1>27, <2>1
  <2>3. D \subseteq Nat \X (1..Len(profile))
    BY <1>1, <1>27
  <2> QED
    BY <1>1, <1>25, <1>28, <2>2, <2>3 DEF Replicates, Files
<1>30. ASSUME IdsApart(profile) PROVE IdsApart(scaled)
  <2>1. ASSUME NEW d \in D, NEW e \in D, val[d].id = val[e].id PROVE d = e
    <3>1. \A s \in 1..n : profile[s].id <= b
      BY <1>1, <1>12, LargestId
    <3>2. CASE d \in C /\ e \in C
      <4>1. PICK s \in 1..n : s = d[2] /\ val[d].id = profile[s].id
        BY <1>27, <3>2
      <4>2. PICK t \in 1..n : t = e[2] /\ val[e].id = profile[t].id
        BY <1>27, <3>2
      <4>3. s = t
        BY <1>1, <1>30, <2>1, <4>1, <4>2 DEF IdsApart
      <4> QED
        BY <1>15, <3>2, <4>1, <4>2, <4>3
    <3>3. CASE d \in E /\ e \in E
      <4>1. x[d] = x[e]
        <5>1. val[d].id = b + x[d] /\ x[d] \in 1..Len(twins)
          BY <1>27, <3>3
        <5>2. val[e].id = b + x[e] /\ x[e] \in 1..Len(twins)
          BY <1>27, <3>3
        <5>3. b + x[d] = b + x[e]
          BY ONLY <2>1, <5>1, <5>2
        <5>4. x[d] \in Int /\ x[e] \in Int
          BY ONLY <5>1, <5>2
        <5> QED
          BY ONLY <5>3, <5>4, b \in Nat
      <4> QED
        BY <1>11, <3>3, <4>1 DEF Files
    <3>4. ASSUME NEW u \in C, NEW v \in E PROVE val[u].id # val[v].id
      <4>1. u \in D /\ v \in D
        BY <1>19
      <4>2. PICK s \in 1..n : val[u].id = profile[s].id
        BY <1>27, <4>1
      <4>3. val[u].id <= b /\ val[u].id \in Nat
        BY <1>1, <3>1, <4>2
      <4>4. PICK k \in Nat : k > 0 /\ val[v].id = b + k
        <5>1. val[v].id = b + x[v] /\ x[v] \in 1..Len(twins)
          BY <1>27, <4>1
        <5>2. x[v] \in Nat /\ x[v] > 0
          BY ONLY <5>1
        <5> QED
          BY ONLY <5>1, <5>2
      <4> QED
        BY <4>3, <4>4
    <3> QED
      BY <1>19, <2>1, <3>2, <3>3, <3>4
  <2>2. ASSUME NEW j \in 1..h, NEW k \in 1..h, scaled[j].id = scaled[k].id PROVE j = k
    <3>1. PICK d \in D : at[d] = j
      BY <1>24, <1>25 DEF Files
    <3>2. PICK e \in D : at[e] = k
      BY <1>24, <1>25 DEF Files
    <3>3. scaled[j] = val[d] /\ scaled[k] = val[e]
      BY <1>25, <3>1, <3>2 DEF Files
    <3>4. d = e
      BY <2>1, <2>2, <3>3
    <3> QED
      BY <3>1, <3>2, <3>4
  <2> QED
    BY <1>24, <2>2 DEF IdsApart
<1> QED
  BY <1>24, <1>26, <1>29, <1>30

\* A place in a row of copies of n sessions is one place in one copy.
LEMMA PlaceParts ==
    ASSUME NEW n \in Nat, n > 0, NEW j \in Nat
    PROVE  /\ j \div n \in Nat /\ (j % n) + 1 \in 1..n
           /\ j = (j \div n) * n + (j % n)
OBVIOUS

\* There is no other.
LEMMA PlaceOne ==
    ASSUME NEW n \in Nat, NEW b \in Nat, NEW c \in Nat, NEW i \in 1..n, NEW k \in 1..n, b * n + i = c * n + k
    PROVE  b = c /\ i = k
<1>1. ASSUME NEW x \in Nat, NEW y \in Nat, x < y PROVE x * n + n <= y * n
  <2>1. PICK e \in Nat : y = x + 1 + e
    BY ONLY x \in Nat, y \in Nat, x < y
  <2>2. (x + 1 + e) * n = x * n + n + e * n
    BY ONLY x \in Nat, e \in Nat, n \in Nat
  <2>3. e * n \in Nat /\ x * n \in Nat
    BY ONLY x \in Nat, e \in Nat, n \in Nat
  <2> QED
    BY <2>1, <2>2, <2>3
<1>2. b * n \in Nat /\ c * n \in Nat
  BY ONLY b \in Nat, c \in Nat, n \in Nat
<1>3. ~(b < c)
  <2>1. ASSUME b * n + n <= c * n PROVE FALSE
    BY ONLY <1>2, <2>1, b * n + i = c * n + k, i \in 1..n, k \in 1..n, n \in Nat
  <2> QED
    BY <1>1, <2>1
<1>4. ~(c < b)
  <2>1. ASSUME c * n + n <= b * n PROVE FALSE
    BY ONLY <1>2, <2>1, b * n + i = c * n + k, i \in 1..n, k \in 1..n, n \in Nat
  <2> QED
    BY <1>1, <2>1
<1>5. b = c
  BY <1>3, <1>4
<1>6. b * n + i = b * n + k
  BY <1>5
<1>7. i = k
  BY ONLY <1>2, <1>6, i \in 1..n, k \in 1..n, n \in Nat
<1> QED
  BY <1>5, <1>7

\* Copy c of session i is within the row.
LEMMA PlaceWithin ==
    ASSUME NEW n \in Nat, NEW scale \in Nat, NEW c \in 0..(scale - 1), NEW i \in 1..n
    PROVE  c * n + i \in 1..(scale * n)
<1>1. PICK e \in Nat : scale = c + 1 + e
  BY ONLY c \in 0..(scale - 1), scale \in Nat
<1>2. (c + 1 + e) * n = c * n + n + e * n
  BY ONLY c \in 0..(scale - 1), scale \in Nat, e \in Nat, n \in Nat
<1>3. c * n \in Nat /\ e * n \in Nat
  BY ONLY c \in 0..(scale - 1), scale \in Nat, e \in Nat, n \in Nat
<1> QED
  BY <1>1, <1>2, <1>3

\* And the row ends with the last copy.
LEMMA PlaceBelow ==
    ASSUME NEW n \in Nat, n > 0, NEW scale \in Nat, NEW k \in 1..(scale * n)
    PROVE  (k - 1) \div n \in 0..(scale - 1)
<1>1. PICK j \in Nat : j = k - 1 /\ j < scale * n
  <2>1. scale * n \in Nat
    BY ONLY scale \in Nat, n \in Nat
  <2> QED
    BY ONLY <2>1, k \in 1..(scale * n)
<1>2. PICK c \in Nat : c = j \div n
  BY PlaceParts
<1>3. PICK r \in Nat : j = c * n + r
  BY <1>2, PlaceParts
<1>4. ~(scale <= c)
  <2>1. ASSUME scale <= c PROVE FALSE
    <3>1. PICK e \in Nat : c = scale + e
      BY ONLY <2>1, scale \in Nat, c \in Nat
    <3>2. (scale + e) * n = scale * n + e * n
      BY ONLY scale \in Nat, e \in Nat, n \in Nat
    <3>3. scale * n \in Nat /\ e * n \in Nat
      BY ONLY scale \in Nat, e \in Nat, n \in Nat
    <3> QED
      BY <1>1, <1>3, <3>1, <3>2, <3>3
  <2> QED
    BY <2>1
<1> QED
  BY <1>1, <1>2, <1>4

\* Every session as often, by a scale of 0 once.
Uniformly(profile, scale) == [s \in 1..Len(profile) |-> IF scale = 0 THEN 1 ELSE scale]

\* Not scaled, every session is its only copy.
LEMMA OnceReplicates ==
    ASSUME NEW profile \in Seq(CapturedSession), NEW scale \in Nat, scale <= 1, NEW stagger \in Nat
    PROVE  \E at, D : Replicates(at, profile, D, profile, stagger, Uniformly(profile, scale))
<1>1. PICK n \in Nat : n = Len(profile) /\ profile \in [1..n -> CapturedSession]
  OBVIOUS
<1>2. PICK D : D = {0} \X (1..n)
  OBVIOUS
<1>3. PICK at : at = [d \in D |-> d[2]]
  OBVIOUS
<1>4. ASSUME NEW d \in D PROVE d[1] = 0 /\ d[2] \in 1..n /\ d = <<0, d[2]>> /\ at[d] = d[2]
  BY <1>2, <1>3
<1>5. ASSUME NEW s \in 1..n PROVE <<0, s>> \in D /\ at[<<0, s>>] = s
  BY <1>2, <1>3
<1>6. at \in [D -> 1..n]
  BY <1>3, <1>4
<1>7. \A i \in 1..n : \E d \in D : at[d] = i
  BY <1>5
<1>8. \A d, e \in D : at[d] = at[e] => d = e
  BY <1>4
<1>9. D \subseteq Nat \X (1..n)
  BY <1>2
<1>10. ASSUME NEW d \in D PROVE IsCopy(profile[at[d]], profile[d[2]], d[1] * stagger)
  <2>1. IsCopy(profile[d[2]], profile[d[2]], 0)
    BY <1>1, <1>4, CopyIs
  <2>2. 0 * stagger = 0
    BY ONLY stagger \in Nat
  <2> QED
    BY <1>4, <2>1, <2>2
<1>11. ASSUME NEW s \in 1..n PROVE Cardinality({d \in D : d[2] = s}) = Uniformly(profile, scale)[s]
  <2>1. {d \in D : d[2] = s} = {<<0, s>>}
    BY <1>4, <1>5
  <2>2. Cardinality({<<0, s>>}) = 1
    BY FS_Singleton
  <2>3. Uniformly(profile, scale)[s] = 1
    BY <1>1 DEF Uniformly
  <2> QED
    BY <2>1, <2>2, <2>3
<1> QED
  <2>1. Replicates(at, profile, D, profile, stagger, Uniformly(profile, scale))
    BY <1>1, <1>6, <1>7, <1>8, <1>9, <1>10, <1>11 DEF Replicates
  <2> QED
    BY <2>1

\* Scaled uniformly, it is there once in each row.
LEMMA UniformReplicates ==
    ASSUME NEW profile \in Seq(CapturedSession), NEW scale \in Nat, NEW stagger \in Nat,
           NEW scaled, scaled = scale_sessions(profile, scale, stagger)
    PROVE  /\ \E at, D : Replicates(at, scaled, D, profile, stagger, Uniformly(profile, scale))
           /\ IdsApart(profile) /\ (\A s \in 1..Len(profile) : profile[s].id \in 1..Len(profile)) => IdsApart(scaled)
<1>1. PICK n \in Nat : n = Len(profile) /\ \A s \in 1..n : profile[s] \in CapturedSession /\ profile[s].id \in Nat
  <2>1. ASSUME NEW s \in 1..Len(profile) PROVE profile[s] \in CapturedSession /\ profile[s].id \in Nat
    <3>1. profile[s] \in CapturedSession
      OBVIOUS
    <3> QED
      BY <3>1 DEF CapturedSession
  <2> QED
    BY <2>1
<1>2. CASE scale <= 1
  <2>1. scaled = profile
    BY <1>2 DEF scale_sessions
  <2> QED
    BY <1>2, <2>1, OnceReplicates
<1>3. CASE scale > 1
  <2> DEFINE e(k) == Copy(profile[((k - 1) % n) + 1], profile[((k - 1) % n) + 1].id + ((k - 1) \div n) * n,
                          ((k - 1) \div n) * stagger)
  <2>1. scaled = [k \in 1..(scale * n) |-> e(k)]
    BY <1>1, <1>3 DEF scale_sessions
  <2>2. PICK m \in Nat : m = scale * n
    BY ONLY scale \in Nat, n \in Nat
  <2>3. PICK D : D = (0..(scale - 1)) \X (1..n)
    OBVIOUS
  <2>4. PICK at : at = [d \in D |-> d[1] * n + d[2]]
    OBVIOUS
  <2>5. PICK row : row = 0..(scale - 1)
    OBVIOUS
  <2>6. ASSUME NEW d \in D
        PROVE  /\ d[1] \in row /\ d[1] \in Nat /\ d[2] \in 1..n /\ d = <<d[1], d[2]>>
               /\ at[d] = d[1] * n + d[2] /\ at[d] \in 1..m
    <3>1. d[1] \in 0..(scale - 1) /\ d[2] \in 1..n /\ d = <<d[1], d[2]>> /\ at[d] = d[1] * n + d[2]
      BY <2>3, <2>4
    <3>2. d[1] * n + d[2] \in 1..(scale * n)
      BY ONLY <3>1, n \in Nat, scale \in Nat, PlaceWithin
    <3> QED
      BY <2>2, <2>5, <3>1, <3>2
  <2>7. ASSUME NEW d \in D
        PROVE  /\ d[1] * stagger \in Nat /\ profile[d[2]].id + d[1] * n \in Nat
               /\ scaled[at[d]] = Copy(profile[d[2]], profile[d[2]].id + d[1] * n, d[1] * stagger)
    <3>1. PICK c \in Nat : c = d[1]
      BY <2>6
    <3>2. PICK i \in 1..n : i = d[2]
      BY <2>6
    <3>3. PICK k \in 1..m : k = at[d] /\ k = c * n + i
      BY <2>6, <3>1, <3>2
    <3>4. (k - 1) \div n = c /\ ((k - 1) % n) + 1 = i
      <4>1. PICK j \in Nat : j = k - 1 /\ n > 0
        BY ONLY k \in 1..m, i \in 1..n, n \in Nat, m \in Nat
      <4>2. PICK b \in Nat : b = j \div n
        BY <4>1, PlaceParts
      <4>3. PICK r \in 1..n : r = (j % n) + 1
        BY <4>1, PlaceParts
      <4>4. j = (j \div n) * n + (j % n) /\ (j % n) \in Int
        BY <4>1, PlaceParts
      <4>5. b * n + r = c * n + i
        <5>1. b * n \in Nat /\ c * n \in Nat
          BY ONLY b \in Nat, c \in Nat, n \in Nat
        <5> QED
          BY <3>3, <4>1, <4>2, <4>3, <4>4, <5>1
      <4>6. b = c /\ r = i
        BY ONLY <4>5, b \in Nat, c \in Nat, r \in 1..n, i \in 1..n, n \in Nat, PlaceOne
      <4> QED
        BY <4>1, <4>2, <4>3, <4>6
    <3>5. scaled[k] = e(k)
      BY <2>1, <2>2
    <3>6. e(k) = Copy(profile[i], profile[i].id + c * n, c * stagger)
      BY <3>4
    <3>7. c * stagger \in Nat /\ c * n \in Nat
      BY ONLY c \in Nat, n \in Nat, stagger \in Nat
    <3>8. profile[i].id + c * n \in Nat
      BY <1>1, <3>7
    <3> HIDE DEF e
    <3> QED
      BY <3>1, <3>2, <3>3, <3>5, <3>6, <3>7, <3>8
  <2> HIDE DEF e
  <2>8. Len(scaled) = m
    BY <2>1, <2>2
  <2>9. at \in [D -> 1..m]
    BY <2>4, <2>6
  <2>10. ASSUME NEW k \in 1..m PROVE \E d \in D : at[d] = k
    <3>1. n > 0
      <4>1. CASE n = 0
        BY ONLY <2>2, <4>1, scale \in Nat, k \in 1..m
      <4> QED
        BY <4>1
    <3>2. PICK j \in Nat : j = k - 1
      OBVIOUS
    <3>3. PICK c : c = j \div n /\ c \in 0..(scale - 1) /\ c \in Nat
      <4>1. k \in 1..(scale * n)
        BY <2>2
      <4>2. (k - 1) \div n \in 0..(scale - 1)
        BY ONLY <3>1, <4>1, n \in Nat, scale \in Nat, PlaceBelow
      <4> QED
        BY <3>2, <4>2
    <3>4. PICK i \in 1..n : i = (j % n) + 1
      BY <3>1, PlaceParts
    <3>5. j = (j \div n) * n + (j % n) /\ (j % n) \in Int
      BY <3>1, PlaceParts
    <3>6. k = c * n + i
      <4>1. c * n \in Nat
        BY ONLY <3>3, n \in Nat
      <4> QED
        BY <3>2, <3>3, <3>4, <3>5, <4>1
    <3>7. <<c, i>> \in D
      BY <2>3, <3>3
    <3> QED
      BY <2>6, <3>6, <3>7
  <2>11. ASSUME NEW c \in D, NEW d \in D, at[c] = at[d] PROVE c = d
    <3>1. PICK b \in Nat : b = c[1]
      BY <2>6
    <3>2. PICK i \in 1..n : i = c[2]
      BY <2>6
    <3>3. PICK r \in Nat : r = d[1]
      BY <2>6
    <3>4. PICK k \in 1..n : k = d[2]
      BY <2>6
    <3>5. b * n + i = r * n + k
      BY <2>6, <2>11, <3>1, <3>2, <3>3, <3>4
    <3>6. b = r /\ i = k
      BY ONLY <3>5, b \in Nat, r \in Nat, i \in 1..n, k \in 1..n, n \in Nat, PlaceOne
    <3> QED
      BY <2>6, <3>1, <3>2, <3>3, <3>4, <3>6
  <2>12. ASSUME NEW d \in D
         PROVE  /\ IsCopy(scaled[at[d]], profile[d[2]], d[1] * stagger)
                /\ scaled[at[d]].id = profile[d[2]].id + d[1] * n
    <3>1. PICK s \in CapturedSession : s = profile[d[2]]
      BY <1>1, <2>6
    <3>2. PICK id \in Nat : id = profile[d[2]].id + d[1] * n
      BY <2>7
    <3>3. PICK off \in Nat : off = d[1] * stagger
      BY <2>7
    <3>4. scaled[at[d]] = Copy(s, id, off)
      BY <2>7, <3>1, <3>2, <3>3
    <3>5. \A z \in Nat : IsCopy(Copy(s, id, off), s, off) /\ Copy(s, id, off).id = id
      BY CopyIs
    <3>6. IsCopy(Copy(s, id, off), s, off) /\ Copy(s, id, off).id = id
      BY <3>5
    <3> QED
      BY <3>1, <3>2, <3>3, <3>4, <3>6
  <2>13. ASSUME NEW s \in 1..n PROVE Cardinality({d \in D : d[2] = s}) = scale
    <3>1. {d \in D : d[2] = s} = row \X {s}
      BY <2>3, <2>5
    <3>2. IsFiniteSet(row) /\ Cardinality(row) = scale
      <4>1. scale - 1 \in Int /\ 0 \in Int
        BY ONLY scale \in Nat
      <4>2. IsFiniteSet(0..(scale - 1)) /\ Cardinality(0..(scale - 1)) = IF 0 > scale - 1 THEN 0 ELSE (scale - 1) - 0 + 1
        BY ONLY <4>1, FS_Interval
      <4> QED
        BY <1>3, <2>5, <4>2
    <3>3. Cardinality(row \X {s}) = Cardinality(row)
      BY <3>2, PairsCount
    <3> QED
      BY <3>1, <3>2, <3>3
  <2>14. Replicates(at, scaled, D, profile, stagger, Uniformly(profile, scale))
    <3>1. \A s \in 1..n : Uniformly(profile, scale)[s] = scale
      BY <1>1, <1>3 DEF Uniformly
    <3>2. D \subseteq Nat \X (1..n)
      BY <2>6
    <3> QED
      BY <1>1, <2>8, <2>9, <2>10, <2>11, <2>12, <2>13, <3>1, <3>2 DEF Replicates
  <2>15. ASSUME IdsApart(profile), \A s \in 1..n : profile[s].id \in 1..n PROVE IdsApart(scaled)
    <3>1. ASSUME NEW j \in 1..m, NEW k \in 1..m, scaled[j].id = scaled[k].id PROVE j = k
      <4>1. PICK c \in D : at[c] = j
        BY <2>10
      <4>2. PICK d \in D : at[d] = k
        BY <2>10
      <4>3. PICK b \in Nat : b = c[1]
        BY <2>6
      <4>4. PICK r \in Nat : r = d[1]
        BY <2>6
      <4>5. PICK s \in 1..n : s = c[2]
        BY <2>6
      <4>6. PICK t \in 1..n : t = d[2]
        BY <2>6
      <4>7. PICK x \in 1..n : x = profile[s].id
        BY <2>15
      <4>8. PICK y \in 1..n : y = profile[t].id
        BY <2>15
      <4>9. b * n + x = r * n + y
        <5>1. scaled[j].id = x + b * n
          BY <2>12, <4>1, <4>3, <4>5, <4>7
        <5>2. scaled[k].id = y + r * n
          BY <2>12, <4>2, <4>4, <4>6, <4>8
        <5>3. b * n \in Nat /\ r * n \in Nat
          BY ONLY b \in Nat, r \in Nat, n \in Nat
        <5>4. x + b * n = y + r * n
          BY <3>1, <5>1, <5>2
        <5> QED
          BY ONLY <5>3, <5>4, x \in 1..n, y \in 1..n, n \in Nat
      <4>10. b = r /\ x = y
        BY ONLY <4>9, b \in Nat, r \in Nat, x \in 1..n, y \in 1..n, n \in Nat, PlaceOne
      <4>11. s = t
        BY <1>1, <2>15, <4>7, <4>8, <4>10 DEF IdsApart
      <4>12. c = d
        BY <2>6, <4>3, <4>4, <4>5, <4>6, <4>10, <4>11
      <4> QED
        BY <4>1, <4>2, <4>12
    <3> QED
      BY <2>8, <3>1 DEF IdsApart
  <2> QED
    BY <1>1, <2>14, <2>15
<1> QED
  BY <1>2, <1>3

\* The sessions with the texts of this one.
Like(seq, session) == {k \in 1..Len(seq) : Text(seq[k]) = Text(session)}
\* The texts tell the sessions.
Telling(profile) == \A s, t \in 1..Len(profile) : s # t => Text(profile[s]) # Text(profile[t])

\* Where each session has its own texts, they tell its copies, and the delays tell those apart.
LEMMA LikeCount ==
    ASSUME NEW profile \in Seq(CapturedSession), Telling(profile), NEW stagger \in Nat, NEW many,
           NEW seq, Len(seq) \in Nat, NEW at, NEW D, Replicates(at, seq, D, profile, stagger, many),
           NEW s \in 1..Len(profile)
    PROVE  /\ Cardinality(Like(seq, profile[s])) = many[s]
           /\ stagger > 0 /\ profile[s].queries # << >> =>
                 \A j, k \in Like(seq, profile[s]) : j # k => FirstOffset(seq[j]) # FirstOffset(seq[k])
<1>1. PICK h \in Nat : h = Len(seq)
  OBVIOUS
<1>2. PICK n \in Nat : n = Len(profile)
  OBVIOUS
<1>3. PICK val : val = [d \in D |-> seq[at[d]]]
  OBVIOUS
<1>4. Files(at, seq, D, val)
  BY <1>3 DEF Replicates, Files
<1>5. PICK B : B = {d \in D : d[2] = s}
  OBVIOUS
<1>6. ASSUME NEW d \in D
      PROVE  /\ at[d] \in 1..h /\ d[1] \in Nat /\ d[2] \in 1..n /\ d = <<d[1], d[2]>>
             /\ Text(seq[at[d]]) = Text(profile[d[2]])
             /\ profile[d[2]].queries # << >> => FirstOffset(seq[at[d]]) = FirstOffset(profile[d[2]]) + d[1] * stagger
  <2>1. at[d] \in 1..h
    BY <1>1 DEF Replicates
  <2>2. d \in Nat \X (1..n)
    BY <1>2 DEF Replicates
  <2>3. IsCopy(seq[at[d]], profile[d[2]], d[1] * stagger)
    BY DEF Replicates
  <2> QED
    BY <2>1, <2>2, <2>3 DEF IsCopy
<1>7. ASSUME NEW i \in 1..h PROVE Text(seq[i]) = Text(profile[s]) <=> \E d \in B : at[d] = i
  <2>1. PICK d \in D : at[d] = i
    BY <1>1 DEF Replicates
  <2>2. Text(seq[i]) = Text(profile[s]) => d[2] = s
    BY <1>2, <1>6, <2>1 DEF Telling
  <2>3. ASSUME NEW e \in B, at[e] = i PROVE Text(seq[i]) = Text(profile[s])
    BY <1>5, <1>6, <2>3
  <2> QED
    BY <1>5, <2>1, <2>2, <2>3
<1>8. Like(seq, profile[s]) = Spots(at, B, h)
  BY <1>1, <1>7 DEF Like, Spots
<1>9. Cardinality(Like(seq, profile[s])) = many[s]
  <2>1. B \in SUBSET D
    BY <1>5
  <2>2. Cardinality(Spots(at, B, Len(seq))) = Cardinality(B)
    BY ONLY <1>4, <2>1, Len(seq) \in Nat, FiledCount
  <2>3. Cardinality(B) = many[s]
    BY <1>5 DEF Replicates
  <2> QED
    BY <1>1, <1>8, <2>2, <2>3
<1>10. ASSUME stagger > 0, profile[s].queries # << >>, NEW j \in Like(seq, profile[s]), NEW k \in Like(seq, profile[s]), j # k
       PROVE  FirstOffset(seq[j]) # FirstOffset(seq[k])
  <2>1. PICK d \in B : at[d] = j
    BY <1>8 DEF Spots
  <2>2. PICK e \in B : at[e] = k
    BY <1>8 DEF Spots
  <2>3. PICK o \in Nat : o = FirstOffset(profile[s])
    <3>1. profile[s] \in CapturedSession
      OBVIOUS
    <3>2. PICK q \in Seq(QueryType) : q = profile[s].queries
      BY <3>1 DEF CapturedSession
    <3>3. q[1] \in QueryType
      BY <1>10, <3>2
    <3> QED
      BY <1>10, <3>2, <3>3 DEF FirstOffset, QueryType
  <2>4. d \in D /\ d[2] = s /\ e \in D /\ e[2] = s
    BY <1>5
  <2>5. PICK x \in Nat : x = d[1]
    BY <1>6, <2>4
  <2>6. PICK y \in Nat : y = e[1]
    BY <1>6, <2>4
  <2>7. x # y
    BY <1>6, <1>10, <2>1, <2>2, <2>4, <2>5, <2>6
  <2>8. x * stagger # y * stagger
    <3>1. x \in Int /\ y \in Int
      OBVIOUS
    <3> QED
      BY ONLY <2>7, <3>1, stagger \in Nat, <1>10, TimesDiffer
  <2>9. x * stagger \in Nat /\ y * stagger \in Nat
    BY ONLY x \in Nat, y \in Nat, stagger \in Nat
  <2>10. FirstOffset(seq[j]) = o + x * stagger
    BY <1>6, <1>10, <2>1, <2>3, <2>4, <2>5
  <2>11. FirstOffset(seq[k]) = o + y * stagger
    BY <1>6, <1>10, <2>2, <2>3, <2>4, <2>6
  <2>12. o + x * stagger # o + y * stagger
    BY ONLY <2>8, <2>9, o \in Nat
  <2> QED
    BY <2>10, <2>11, <2>12
<1> QED
  BY <1>9, <1>10

-----------------------------------------------------------------------------
(***************************************************************************)
(* The invariant of the commands.                                          *)
(***************************************************************************)
\* What result v says is what one way of replaying the workload returns.
Happened(v) ==
    \E ways \in [DOMAIN replayed -> Ways] :
        /\ results[v] = ResultsOf(replayed, ways, config.read_only)
        /\ refused[v] = Len(replayed) - Len(Returned(replayed, ways))

Comparing == Single \/ config.command = "compare"
Varying == config.command = "ab" \/ (config.command = "run" /\ HasVariants)

\* The report is of the results there are, and the checks are of the report.
ReportRight ==
    /\ Comparing =>
          Len(results) = 1 /\ report = compute_comparison(replayed, results[1], config.threshold_pct)
    /\ Single =>
          checks = IF config.has_thresholds THEN evaluate_thresholds(report, config.thresholds) ELSE << >>
    /\ Varying => report = compute_ab_comparison(Each(results, from_results), config.threshold_pct)
    /\ config.command = "inspect" => report = [class |-> classify_workload(config.profile)]

ResultsInv ==
    /\ config \in Configs
    /\ replayed \in ProfileType
    /\ results \in Seq(ResultType) /\ refused \in Seq(Int)
    /\ Len(refused) = Len(results)
    /\ \A v \in DOMAIN results : Happened(v)
    /\ Varying \/ Len(results) <= 1

Early == {"config", "capture", "provision", "port", "wait", "restore", "replay", "inspect"}
\* Which command reaches a stage, and what there is when it does.
StageInv ==
    /\ stage \in Early \cup {"replayed", "variants", "report", "teardown", "exit"}
    /\ stage \in Early => results = << >>
    /\ stage \in Early \cup {"replayed", "variants"} => report = << >>
    /\ stage \in {"provision", "port", "wait", "restore", "teardown"} => Single
    /\ stage = "inspect" => config.command = "inspect"
    /\ stage = "replay" => Single \/ config.command = "replay"
    /\ stage = "replayed" => Comparing \/ config.command = "replay"
    /\ stage = "variants" => Varying /\ (results # << >> => replayed = config.profile)
    /\ stage = "teardown" => files = Asked
    /\ stage # "exit" => exit_code = None

VerdictInv ==
    /\ ResultsInv
    /\ StageInv
    /\ stage \in {"report", "teardown"} \/ (stage = "exit" /\ report # << >>) => ReportRight
    /\ Single /\ exit_code \in {0, 1} =>
          ReportRight /\ files = Asked /\ (exit_code = 0 <=> all_passed(checks))
    /\ config.command = "compare" /\ stage = "exit" /\ report # << >> /\ ~config.json =>
          exit_code = evaluate_outcome(report, config.fail_on_regression, config.fail_on_error)

\* What is assumed of a configuration.
LEMMA ConfigIs ==
    ASSUME config \in Configs
    PROVE  /\ config.command \in {"run", "replay", "ab", "compare", "inspect"}
           /\ config.profile \in ProfileType /\ config.threshold_pct \in Nat
           /\ config.variants \in Nat /\ config.scale \in Nat /\ config.stagger_us \in Nat
           /\ config.class_scales = << >> \/ config.class_scales \in [Classes -> Nat]
           /\ {config.has_thresholds, config.json, config.fail_on_regression, config.fail_on_error} \subseteq BOOLEAN
           /\ {config.thresholds.p95_max, config.thresholds.p99_max, config.thresholds.error_rate_max_pct,
               config.thresholds.regression_max_count} \subseteq SUBSET Nat
<1>1. /\ config.command \in {"run", "replay", "ab", "compare", "inspect"}
      /\ config.threshold_pct \in Nat
      /\ config.variants \in Nat /\ config.scale \in Nat /\ config.stagger_us \in Nat
      /\ config.class_scales = << >> \/ config.class_scales \in [Classes -> Nat]
  BY PipelineAssumption
<1>2. /\ {config.has_thresholds, config.json, config.fail_on_regression, config.fail_on_error} \subseteq BOOLEAN
      /\ {config.thresholds.p95_max, config.thresholds.p99_max, config.thresholds.error_rate_max_pct,
          config.thresholds.regression_max_count} \subseteq SUBSET Nat
  BY PipelineAssumption
<1>3. config.profile \in ProfileType
  BY PipelineAssumption, Zenon DEF ProfileType, QueryType
<1> QED
  BY <1>1, <1>2, <1>3

\* The commands.
LEMMA CommandIs ==
    ASSUME config \in Configs
    PROVE  /\ Single \/ Varying \/ config.command \in {"replay", "compare", "inspect"}
           /\ ~(Single /\ Varying)
           /\ Single => config.command = "run"
           /\ Varying => config.command \in {"run", "ab"}
BY ConfigIs DEF Single, Varying

\* It holds when a command starts.
LEMMA VerdictInit == PipelineInit => VerdictInv
<1> SUFFICES ASSUME PipelineInit PROVE VerdictInv
  OBVIOUS
<1>1. config \in Configs /\ stage = "config" /\ replayed = << >> /\ results = << >> /\ refused = << >> /\ report = << >>
      /\ exit_code = None
  BY DEF PipelineInit
<1>2. ResultsInv
  <2>1. replayed \in ProfileType /\ results \in Seq(ResultType) /\ refused \in Seq(Int)
    BY <1>1 DEF ProfileType
  <2>2. Len(results) = 0 /\ Len(refused) = 0 /\ DOMAIN results = {}
    BY <1>1
  <2> QED
    BY <1>1, <2>1, <2>2 DEF ResultsInv
<1>3. StageInv
  BY <1>1 DEF StageInv, Early
<1> QED
  BY <1>1, <1>2, <1>3 DEF VerdictInv, None

\* What a step must keep for the results and the report to be right.
SameRun == UNCHANGED <<config, replayed, results, refused>>

\* The results stay those of the workload when neither changes.
LEMMA SameResults ==
    ASSUME ResultsInv, SameRun
    PROVE  ResultsInv'
BY DEF ResultsInv, SameRun, Happened, Varying, HasVariants

\* The report stays that of the results when neither changes.
LEMMA SameReport ==
    ASSUME ReportRight, SameRun, UNCHANGED <<report, checks>>
    PROVE  ReportRight'
BY DEF ReportRight, SameRun, Comparing, Varying, Single, HasVariants

\* What a command is asked does not change.
LEMMA SameConfig ==
    ASSUME config' = config
    PROVE  /\ Single' <=> Single
           /\ Varying' <=> Varying
           /\ Comparing' <=> Comparing
           /\ Asked' = Asked
BY DEF Single, Varying, Comparing, HasVariants, Asked

\* The code of an error is not that of a verdict.
LEMMA FailCode ==
    ASSUME NEW words, Fail(words), Single
    PROVE  stage' = "exit" /\ exit_code' \notin {0, 1}
<1>1. config.command = "run"
  BY DEF Single
<1>2. stage' = "exit" /\ exit_code' = classify_error(words)
  BY <1>1 DEF Fail, Exit
<1>3. classify_error(words) \in {2, 3, 4, 5}
  BY DEF classify_error
<1> QED
  BY <1>2, <1>3

\* A command that ends early has no verdict.
LEMMA Ends ==
    ASSUME VerdictInv, SameRun, UNCHANGED <<report, checks>>, stage # "exit", stage' = "exit",
           Single => exit_code' \notin {0, 1},
           ~(config.command = "compare" /\ ~config.json /\ stage \in {"report", "teardown"})
    PROVE  VerdictInv'
<1>1. ResultsInv' /\ config' = config /\ report' = report
  BY SameResults DEF VerdictInv, SameRun
<1>2. StageInv'
  BY <1>1 DEF StageInv, Early, VerdictInv
<1>3. stage \in {"report", "teardown"} \/ report = << >>
  BY DEF VerdictInv, StageInv
<1>4. report' # << >> => ReportRight'
  BY <1>1, <1>3, SameReport DEF VerdictInv
<1>5. ~(Single /\ exit_code \in {0, 1})'
  BY <1>1, SameConfig
<1>6. ~(config.command = "compare" /\ stage = "exit" /\ report # << >> /\ ~config.json)'
  BY <1>1, <1>3
<1> QED
  BY <1>1, <1>2, <1>4, <1>5, <1>6 DEF VerdictInv

\* A command that goes on before there is a result.
LEMMA Goes ==
    ASSUME VerdictInv, SameRun, UNCHANGED <<report, checks, exit_code>>, stage \in Early,
           stage' \in Early \cup {"replayed", "variants"},
           stage' \in {"provision", "port", "wait", "restore"} => Single,
           stage' = "inspect" => config.command = "inspect",
           stage' = "replay" => Single \/ config.command = "replay",
           stage' = "replayed" => Comparing \/ config.command = "replay",
           stage' = "variants" => Varying
    PROVE  VerdictInv'
<1>1. ResultsInv' /\ config' = config /\ report' = report /\ results' = results /\ exit_code' = exit_code
  BY SameResults DEF VerdictInv, SameRun
<1>2. results = << >> /\ report = << >> /\ exit_code = None
  BY DEF VerdictInv, StageInv, Early
<1>3. (Single' <=> Single) /\ (Varying' <=> Varying) /\ (Comparing' <=> Comparing)
  BY <1>1, SameConfig
<1>4. stage' \notin {"report", "teardown", "exit"}
  BY DEF Early
<1>5. StageInv'
  BY <1>1, <1>2, <1>3, <1>4 DEF StageInv
<1> QED
  BY <1>1, <1>2, <1>4, <1>5 DEF VerdictInv, None

\* The results of one more replay.
LEMMA OneMore ==
    ASSUME VerdictInv, config' = config, replayed' \in ProfileType, results = << >> \/ replayed' = replayed,
           Varying \/ results = << >>,
           NEW ways \in [DOMAIN replayed' -> Ways], Replay(replayed', ways)
    PROVE  ResultsInv' /\ results' # << >>
<1>1. PICK n \in Nat : n = Len(results) /\ DOMAIN results = 1..n /\ n = Len(refused)
  BY DEF VerdictInv, ResultsInv
<1>2. PICK r : r = ResultsOf(replayed', ways, config.read_only)
  OBVIOUS
<1>3. PICK d : d = Len(replayed') - Len(Returned(replayed', ways))
  OBVIOUS
<1>4. results' = Append(results, r) /\ refused' = Append(refused, d)
  BY <1>2, <1>3 DEF Replay, Each, ResultsOf
<1>5. r \in ResultType
  BY <1>2, ResultsAre
<1>6. d \in Int
  <2>1. PICK m \in Nat : m = Len(replayed')
    BY DEF ProfileType
  <2>2. PICK x : x = Returned(replayed', ways)
    OBVIOUS
  <2>3. Len(x) \in Nat
    BY <2>1, <2>2, ReturnedAre
  <2> QED
    BY <1>3, <2>1, <2>2, <2>3
<1>7. results \in Seq(ResultType) /\ refused \in Seq(Int)
  BY DEF VerdictInv, ResultsInv
<1>8. /\ results' \in Seq(ResultType) /\ Len(results') = n + 1
      /\ \A v \in 1..n : results'[v] = results[v]
      /\ results'[n + 1] = r
  BY <1>1, <1>4, <1>5, <1>7
<1>9. /\ refused' \in Seq(Int) /\ Len(refused') = n + 1
      /\ \A v \in 1..n : refused'[v] = refused[v]
      /\ refused'[n + 1] = d
  BY <1>1, <1>4, <1>6, <1>7
<1>10. DOMAIN results' = 1..(n + 1)
  BY <1>8
<1>11. ASSUME NEW v \in 1..(n + 1) PROVE Happened(v)'
  <2>1. CASE v = n + 1
    BY <1>2, <1>3, <1>8, <1>9, <2>1 DEF Happened
  <2>2. CASE v # n + 1
    <3>1. v \in 1..n
      BY <2>2
    <3>2. Happened(v)
      BY <1>1, <3>1 DEF VerdictInv, ResultsInv
    <3>3. replayed' = replayed
      BY <1>1, <3>1
    <3>4. results'[v] = results[v] /\ refused'[v] = refused[v]
      BY <1>8, <1>9, <3>1
    <3> QED
      BY <3>2, <3>3, <3>4 DEF Happened
  <2> QED
    BY <2>1, <2>2
<1>12. Varying' \/ Len(results') <= 1
  BY <1>1, <1>8, SameConfig
<1>13. config \in Configs
  BY DEF VerdictInv, ResultsInv
<1>14. \A v \in DOMAIN results' : Happened(v)'
  BY <1>10, <1>11
<1>15. results' # << >>
  BY <1>8
<1>16. Len(refused') = Len(results')
  BY <1>8, <1>9
<1> QED
  BY <1>8, <1>9, <1>12, <1>13, <1>14, <1>15, <1>16 DEF ResultsInv

\* The stage of a command that is still to exit.
LEMMA Running ==
    ASSUME VerdictInv, stage # "exit"
    PROVE  config \in Configs /\ exit_code = None
BY DEF VerdictInv, ResultsInv, StageInv

\* An error ends a command without a verdict.
LEMMA FailEnds ==
    ASSUME VerdictInv, SameRun, UNCHANGED <<report, checks>>, NEW words, Fail(words), stage # "exit",
           ~(config.command = "compare" /\ ~config.json /\ stage \in {"report", "teardown"})
    PROVE  VerdictInv'
<1>1. stage' = "exit"
  BY DEF Fail, Exit
<1>2. Single => exit_code' \notin {0, 1}
  BY FailCode
<1> QED
  BY <1>1, <1>2, Ends

\* The steps that read the configuration and the workload keep it.
LEMMA ConfigVerdict == VerdictInv /\ (LoadConfig \/ LoadOrCapture \/ CaptureFails) => VerdictInv'
<1> SUFFICES ASSUME VerdictInv, LoadConfig \/ LoadOrCapture \/ CaptureFails PROVE VerdictInv'
  OBVIOUS
<1>1. SameRun /\ UNCHANGED <<report, checks>>
  BY DEF LoadConfig, LoadOrCapture, CaptureFails, SameRun
<1>2. stage \in {"config", "capture"}
  BY DEF LoadConfig, LoadOrCapture, CaptureFails
<1>3. CASE LoadConfig
  <2>1. CASE To("capture")
    BY <1>1, <1>3, <2>1, Goes DEF LoadConfig, To, Early
  <2>2. CASE Exit(2)
    BY <1>1, <1>2, <2>2, Ends DEF Exit
  <2> QED
    BY <1>3, <2>1, <2>2 DEF LoadConfig
<1>4. CASE LoadOrCapture
  <2>1. config.command \in {"run", "replay", "ab", "compare", "inspect"}
    BY <1>2, Running, ConfigIs
  <2>2. /\ config.command = "compare" => stage' = "replayed"
        /\ config.command = "inspect" => stage' = "inspect"
        /\ config.command = "ab" \/ (config.command = "run" /\ HasVariants) => stage' = "variants"
        /\ config.command = "run" /\ ~HasVariants => stage' = "provision"
        /\ config.command = "replay" => stage' = "replay"
    BY <1>4 DEF LoadOrCapture, To
  <2>3. UNCHANGED exit_code
    BY <1>4 DEF LoadOrCapture, To
  <2>4. stage \in Early
    BY <1>2 DEF Early
  <2>5. CASE config.command = "compare"
    BY <1>1, <2>2, <2>3, <2>4, <2>5, Goes DEF Comparing
  <2>6. CASE config.command = "inspect"
    BY <1>1, <2>2, <2>3, <2>4, <2>6, Goes DEF Early
  <2>7. CASE config.command = "ab" \/ (config.command = "run" /\ HasVariants)
    BY <1>1, <2>2, <2>3, <2>4, <2>7, Goes DEF Varying
  <2>8. CASE config.command = "run" /\ ~HasVariants
    BY <1>1, <2>2, <2>3, <2>4, <2>8, Goes DEF Early, Single
  <2>9. CASE config.command = "replay"
    BY <1>1, <2>2, <2>3, <2>4, <2>9, Goes DEF Early
  <2> QED
    BY <2>1, <2>5, <2>6, <2>7, <2>8, <2>9
<1>5. CASE CaptureFails
  <2>1. PICK words : Fail(words)
    BY <1>5 DEF CaptureFails
  <2> QED
    BY <1>1, <1>2, <2>1, FailEnds
<1> QED
  BY <1>3, <1>4, <1>5

\* The steps of provision_target keep it.
LEMMA ProvisionVerdict ==
    VerdictInv /\ (UseTarget \/ DockerFails \/ DockerRun \/ MappedPort \/ WaitForPg \/ NeverReady \/ RestoreBackup)
        => VerdictInv'
<1> SUFFICES ASSUME VerdictInv,
                    UseTarget \/ DockerFails \/ DockerRun \/ MappedPort \/ WaitForPg \/ NeverReady \/ RestoreBackup
             PROVE  VerdictInv'
  OBVIOUS
<1>1. SameRun /\ UNCHANGED <<report, checks>>
  BY DEF UseTarget, DockerFails, DockerRun, MappedPort, WaitForPg, NeverReady, RestoreBackup, Provisioning, SameRun
<1>2. stage \in {"provision", "port", "wait", "restore"}
  BY DEF UseTarget, DockerFails, DockerRun, Docker, MappedPort, WaitForPg, NeverReady, RestoreBackup
<1>3. Single
  BY <1>2 DEF VerdictInv, StageInv
<1>4. \/ \E words : Fail(words)
      \/ UNCHANGED exit_code /\ stage' \in {"port", "wait", "restore", "replay"}
  BY DEF UseTarget, DockerFails, DockerRun, MappedPort, WaitForPg, NeverReady, RestoreBackup, Provisioning, To
<1>5. CASE \E words : Fail(words)
  <2>1. PICK words : Fail(words)
    BY <1>5
  <2> QED
    BY <1>1, <1>2, <2>1, FailEnds
<1>6. CASE UNCHANGED exit_code /\ stage' \in {"port", "wait", "restore", "replay"}
  <2>1. stage \in Early /\ stage' \in Early \cup {"replayed", "variants"}
    BY <1>2, <1>6 DEF Early
  <2> QED
    BY <1>1, <1>3, <1>6, <2>1, Goes
<1> QED
  BY <1>4, <1>5, <1>6

\* A workload that is scaled is a workload.
LEMMA ScaledType ==
    ASSUME config \in Configs, NEW scaled, Scaled(scaled)
    PROVE  scaled \in ProfileType
<1>1. ProfileType = Seq(CapturedSession)
  BY DEF ProfileType, CapturedSession
<1>2. /\ config.profile \in Seq(CapturedSession) /\ config.scale \in Nat /\ config.stagger_us \in Nat
      /\ config.class_scales = << >> \/ config.class_scales \in [Classes -> Nat]
  BY <1>1, ConfigIs
<1>3. CASE config.class_scales # << >>
  <2>1. PICK order \in SetToSeqs({classify_session(config.profile[s]) : s \in DOMAIN config.profile}) :
               scaled = scale_sessions_by_class(config.profile, config.class_scales, config.stagger_us, order)
    BY <1>3 DEF Scaled
  <2>2. PICK profile \in Seq(CapturedSession) : profile = config.profile
    BY <1>2
  <2>3. PICK scales \in [Classes -> Nat] : scales = config.class_scales
    BY <1>2, <1>3
  <2>4. PICK stagger \in Nat : stagger = config.stagger_us
    BY <1>2
  <2>5. Orders(order, profile)
    BY <2>1, <2>2, OrderIs
  <2>6. PICK many : many = [s \in 1..Len(profile) |-> scales[classify_session(profile[s])]]
    OBVIOUS
  <2>7. scaled = scale_sessions_by_class(profile, scales, stagger, order)
    BY <2>1, <2>2, <2>3, <2>4
  <2>8. scaled \in Seq(CapturedSession)
    BY ONLY <2>5, <2>6, <2>7, profile \in Seq(CapturedSession), scales \in [Classes -> Nat], stagger \in Nat,
            ByClassReplicates
  <2> QED
    BY <1>1, <2>8
<1>4. CASE config.class_scales = << >>
  <2>1. scaled = scale_sessions(config.profile, config.scale, config.stagger_us)
    BY <1>4 DEF Scaled
  <2> QED
    BY <1>1, <1>2, <2>1, UniformType
<1> QED
  BY <1>3, <1>4

\* A replay, of the target, of a variant or read from a file, keeps it.
LEMMA ReplayVerdict == VerdictInv /\ (RunReplay \/ RunVariant \/ ReadResults) => VerdictInv'
<1> SUFFICES ASSUME VerdictInv, RunReplay \/ RunVariant \/ ReadResults PROVE VerdictInv'
  OBVIOUS
<1>1. config' = config /\ UNCHANGED <<report, checks, exit_code>> /\ stage \in {"replay", "variants", "replayed"}
  BY DEF RunReplay, RunVariant, ReadResults, To
<1>2. config \in Configs /\ exit_code = None /\ report = << >>
  BY <1>1, Running DEF VerdictInv, StageInv, Early
<1>3. /\ stage \in Early => results = << >>
      /\ stage = "replay" => Single \/ config.command = "replay"
      /\ stage = "replayed" => Comparing \/ config.command = "replay"
      /\ stage = "variants" => Varying /\ (results # << >> => replayed = config.profile)
  BY DEF VerdictInv, StageInv
<1>4. PICK ways \in [DOMAIN replayed' -> Ways] : Replay(replayed', ways)
  BY DEF RunReplay, RunVariant, ReadResults
<1>5. replayed' \in ProfileType
  <2>1. CASE RunReplay
    BY <1>2, <2>1, ScaledType DEF RunReplay
  <2>2. CASE RunVariant \/ ReadResults
    BY <1>2, <2>2, ConfigIs DEF RunVariant, ReadResults
  <2> QED
    BY <2>1, <2>2
<1>6. (results = << >> \/ replayed' = replayed) /\ (Varying \/ results = << >>)
  BY <1>3 DEF RunReplay, RunVariant, ReadResults, Early
<1>7. ResultsInv' /\ results' # << >>
  BY <1>1, <1>4, <1>5, <1>6, OneMore
<1>8. /\ stage' \in {"variants", "replayed"}
      /\ stage' = "replayed" => Comparing \/ config.command = "replay"
      /\ stage' = "variants" => Varying /\ replayed' = config.profile
  <2>1. CASE RunReplay
    BY <1>3, <2>1 DEF RunReplay, To, Comparing
  <2>2. CASE RunVariant
    BY <1>3, <2>2 DEF RunVariant, To
  <2>3. CASE ReadResults
    BY <1>3, <2>3 DEF ReadResults, To
  <2> QED
    BY <2>1, <2>2, <2>3
<1>9. (Comparing' <=> Comparing) /\ (Varying' <=> Varying)
  BY <1>1, SameConfig
<1>10. StageInv'
  BY <1>1, <1>2, <1>8, <1>9 DEF StageInv, Early
<1> QED
  BY <1>1, <1>2, <1>7, <1>8, <1>10 DEF VerdictInv, None

\* A replay that fails keeps it.
LEMMA ReplayFailsVerdict == VerdictInv /\ ReplayFails => VerdictInv'
<1> SUFFICES ASSUME VerdictInv, ReplayFails PROVE VerdictInv'
  OBVIOUS
<1>1. SameRun /\ UNCHANGED <<report, checks>> /\ Fail({}) /\ stage \in {"replay", "variants"}
  BY DEF ReplayFails, SameRun
<1> QED
  BY <1>1, FailEnds

\* The two comparisons make the report it speaks of.
LEMMA CompareVerdictStep == VerdictInv /\ (Compare \/ CompareVariants) => VerdictInv'
<1> SUFFICES ASSUME VerdictInv, Compare \/ CompareVariants PROVE VerdictInv'
  OBVIOUS
<1>1. SameRun /\ UNCHANGED exit_code /\ stage' = "report" /\ stage \in {"replayed", "variants"}
  BY DEF Compare, CompareVariants, SameRun, To
<1>2. config \in Configs /\ exit_code = None
  BY <1>1, Running
<1>3. config' = config /\ ResultsInv'
  BY <1>1, SameResults DEF VerdictInv, SameRun
<1>4. (Single' <=> Single) /\ (Comparing' <=> Comparing) /\ (Varying' <=> Varying)
  BY <1>3, SameConfig
<1>5. StageInv'
  BY <1>1, <1>2, <1>3 DEF StageInv, Early
<1>6. ReportRight'
  <2>1. CASE Compare
    <3>1. /\ config.command \in {"run", "compare"} /\ results # << >>
          /\ report' = compute_comparison(replayed, results[1], config.threshold_pct)
          /\ checks' = IF config.command = "run" /\ config.has_thresholds
                       THEN evaluate_thresholds(report', config.thresholds) ELSE << >>
          /\ stage = "replayed"
      BY <2>1 DEF Compare
    <3>2. Comparing
      BY <3>1 DEF VerdictInv, StageInv
    <3>3. ~Varying
      BY <3>2 DEF Comparing, Single, Varying
    <3>4. Len(results) = 1
      <4>1. Len(results) <= 1 /\ results \in Seq(ResultType)
        BY <3>3 DEF VerdictInv, ResultsInv
      <4>2. Len(results) # 0
        BY <3>1, <4>1, EmptySeq
      <4>3. PICK n \in Nat : n = Len(results)
        BY ONLY <4>1
      <4> QED
        BY ONLY <4>1, <4>2, <4>3
    <3>5. config'.command # "inspect" /\ (Single => config.command = "run")
      BY <1>3, <3>1 DEF Single
    <3>6. replayed' = replayed /\ results' = results
      BY <1>1 DEF SameRun
    <3> QED
      BY <1>3, <1>4, <3>1, <3>3, <3>4, <3>5, <3>6 DEF ReportRight
  <2>2. CASE CompareVariants
    <3>1. /\ report' = compute_ab_comparison(Each(results, from_results), config.threshold_pct)
          /\ stage = "variants"
      BY <2>2 DEF CompareVariants
    <3>2. Varying
      BY <3>1 DEF VerdictInv, StageInv
    <3>3. ~Comparing /\ ~Single /\ config.command # "inspect"
      BY <3>2 DEF Comparing, Single, Varying
    <3>4. replayed' = replayed /\ results' = results
      BY <1>1 DEF SameRun
    <3>5. Each(results', from_results) = Each(results, from_results)
      BY <3>4
    <3> QED
      BY <1>3, <1>4, <3>1, <3>3, <3>4, <3>5 DEF ReportRight
  <2> QED
    BY <2>1, <2>2
<1> QED
  BY <1>1, <1>2, <1>3, <1>5, <1>6 DEF VerdictInv, None

\* replay and inspect end with a report of their own.
LEMMA WriteVerdict == VerdictInv /\ (WriteResults \/ Inspect) => VerdictInv'
<1> SUFFICES ASSUME VerdictInv, WriteResults \/ Inspect PROVE VerdictInv'
  OBVIOUS
<1>1. SameRun /\ checks' = checks /\ exit_code' = 0 /\ stage' = "exit" /\ stage \in {"replayed", "inspect"}
  BY DEF WriteResults, Inspect, SameRun, Exit
<1>2. config.command \in {"replay", "inspect"}
  BY DEF WriteResults, Inspect, VerdictInv, StageInv
<1>3. config' = config /\ ResultsInv'
  BY <1>1, SameResults DEF VerdictInv, SameRun
<1>4. ~Single /\ ~Comparing /\ ~Varying
  BY <1>2 DEF Single, Comparing, Varying
<1>5. ~Single' /\ ~Comparing' /\ ~Varying'
  BY <1>3, <1>4, SameConfig
<1>6. StageInv'
  BY <1>1 DEF StageInv, Early
<1>7. config.command = "inspect" => report' = [class |-> classify_workload(config.profile)]
  BY DEF WriteResults, Inspect
<1>8. ReportRight'
  BY <1>3, <1>5, <1>7 DEF ReportRight
<1> QED
  BY <1>1, <1>2, <1>3, <1>5, <1>6, <1>8 DEF VerdictInv

\* Writing the reports keeps it; compare exits with its outcome.
LEMMA ReportsVerdict == VerdictInv /\ WriteReports => VerdictInv'
<1> SUFFICES ASSUME VerdictInv, WriteReports PROVE VerdictInv'
  OBVIOUS
<1>1. SameRun /\ UNCHANGED <<report, checks>> /\ files' = Asked /\ stage = "report"
  BY DEF WriteReports, SameRun
<1>2. config' = config /\ ResultsInv'
  BY <1>1, SameResults DEF VerdictInv, SameRun
<1>3. (Single' <=> Single) /\ Asked' = Asked
  BY <1>2, SameConfig
<1>4. ReportRight'
  BY <1>1, SameReport DEF VerdictInv
<1>5. exit_code = None
  BY <1>1, Running
<1>6. CASE Single
  <2>1. stage' = "teardown" /\ exit_code' = exit_code
    BY <1>6 DEF WriteReports, To
  <2>2. StageInv'
    BY <1>1, <1>3, <1>5, <1>6, <2>1 DEF StageInv, Early
  <2> QED
    BY <1>2, <1>4, <1>5, <2>1, <2>2 DEF VerdictInv, None
<1>7. CASE ~Single
  <2>1. stage' = "exit" /\ (config.command = "compare" =>
               exit_code' = evaluate_outcome(report, config.fail_on_regression, config.fail_on_error))
    BY <1>7 DEF WriteReports, Exit
  <2>2. StageInv'
    BY <2>1 DEF StageInv, Early
  <2>3. config.command = "compare" =>
               exit_code' = evaluate_outcome(report', config'.fail_on_regression, config'.fail_on_error)
    BY <1>1, <1>2, <2>1
  <2> QED
    BY <1>2, <1>3, <1>4, <1>7, <2>1, <2>2, <2>3 DEF VerdictInv
<1> QED
  BY <1>6, <1>7

\* A report that cannot be written keeps it.
LEMMA WriteFailsVerdict == VerdictInv /\ WriteFails => VerdictInv'
<1> SUFFICES ASSUME VerdictInv, WriteFails PROVE VerdictInv'
  OBVIOUS
<1>1. SameRun /\ UNCHANGED <<report, checks>> /\ Fail({}) /\ stage = "report" /\ Asked # {}
  BY DEF WriteFails, SameRun
<1>2. ~(config.command = "compare" /\ ~config.json)
  BY <1>1 DEF Asked, Single
<1> QED
  BY <1>1, <1>2, FailEnds

\* run exits with 0 exactly when the checks are passed.
LEMMA TeardownVerdict == VerdictInv /\ Teardown => VerdictInv'
<1> SUFFICES ASSUME VerdictInv, Teardown PROVE VerdictInv'
  OBVIOUS
<1>1. /\ SameRun /\ UNCHANGED <<report, checks, files>> /\ stage = "teardown" /\ stage' = "exit"
      /\ exit_code' = IF all_passed(checks) THEN 0 ELSE 1
  BY DEF Teardown, SameRun, Exit
<1>2. config' = config /\ ResultsInv' /\ checks' = checks /\ files' = files
  BY <1>1, SameResults DEF VerdictInv, SameRun
<1>3. (Single' <=> Single) /\ Asked' = Asked
  BY <1>2, SameConfig
<1>4. Single /\ files = Asked
  BY <1>1 DEF VerdictInv, StageInv
<1>5. ReportRight'
  BY <1>1, SameReport DEF VerdictInv
<1>6. StageInv'
  BY <1>1 DEF StageInv, Early
<1>7. config'.command # "compare"
  BY <1>2, <1>4 DEF Single
<1>8. exit_code' = 0 <=> all_passed(checks')
  BY <1>1, <1>2
<1> QED
  BY <1>1, <1>2, <1>3, <1>4, <1>5, <1>6, <1>7, <1>8 DEF VerdictInv

\* Every step keeps it.
LEMMA VerdictStep == VerdictInv /\ [PipelineNext]_pipelineVars => VerdictInv'
<1> SUFFICES ASSUME VerdictInv, [PipelineNext]_pipelineVars PROVE VerdictInv'
  OBVIOUS
<1>1. CASE LoadConfig \/ LoadOrCapture \/ CaptureFails
  BY <1>1, ConfigVerdict
<1>2. CASE UseTarget \/ DockerFails \/ DockerRun \/ MappedPort \/ WaitForPg \/ NeverReady \/ RestoreBackup
  BY <1>2, ProvisionVerdict
<1>3. CASE RunReplay \/ RunVariant \/ ReadResults
  BY <1>3, ReplayVerdict
<1>4. CASE ReplayFails
  BY <1>4, ReplayFailsVerdict
<1>5. CASE Compare \/ CompareVariants
  BY <1>5, CompareVerdictStep
<1>6. CASE WriteResults \/ Inspect
  BY <1>6, WriteVerdict
<1>7. CASE WriteReports
  BY <1>7, ReportsVerdict
<1>8. CASE WriteFails
  BY <1>8, WriteFailsVerdict
<1>9. CASE Teardown
  BY <1>9, TeardownVerdict
<1>10. CASE UNCHANGED pipelineVars
  <2>1. /\ SameRun /\ UNCHANGED <<report, checks, files, stage, exit_code>>
    BY <1>10 DEF pipelineVars, SameRun
  <2>2. ResultsInv' /\ config' = config
    BY <2>1, SameResults DEF VerdictInv, SameRun
  <2>3. ReportRight => ReportRight'
    BY <2>1, SameReport
  <2>4. (Single' <=> Single) /\ (Varying' <=> Varying) /\ (Comparing' <=> Comparing) /\ Asked' = Asked
    BY <2>2, SameConfig
  <2>5. StageInv'
    BY <2>1, <2>2, <2>4 DEF VerdictInv, StageInv, SameRun
  <2> QED
    BY <2>1, <2>2, <2>3, <2>4, <2>5 DEF VerdictInv
<1> QED
  BY <1>1, <1>2, <1>3, <1>4, <1>5, <1>6, <1>7, <1>8, <1>9, <1>10 DEF PipelineNext, PipelineEnds

-----------------------------------------------------------------------------
(***************************************************************************)
(* The verdicts.                                                           *)
(***************************************************************************)
\* When there is a report the command has come to it.
LEMMA Reported ==
    ASSUME VerdictInv, report # << >>
    PROVE  ReportRight
BY DEF VerdictInv, StageInv

\* The queries of the first result, counted as the report counts them.
LEMMA ReportCounts ==
    ASSUME VerdictInv, ReportRight, Comparing
    PROVE  /\ Len(results) = 1 /\ Ran \in Seq(Outcome)
           /\ report.total_errors = Errors(Ran) /\ report.total_queries_replayed = Len(Ran)
           /\ Regressed \in Nat /\ Len(report.regressions) = Regressed
           /\ report.regressions = << >> <=> Regressed = 0
           /\ \A us \in Nat : /\ report.replay_p95_latency_us <= us <=> 20 * SlowerThan(us) < Len(Ran) + 9
                              /\ report.replay_p99_latency_us <= us <=> 100 * SlowerThan(us) < Len(Ran) + 49
<1>1. Len(results) = 1 /\ report = compute_comparison(replayed, results[1], config.threshold_pct)
  BY DEF ReportRight
<1>2. results[1] \in ResultType
  <2>1. results \in Seq(ResultType)
    BY DEF VerdictInv, ResultsInv
  <2>2. 1 \in 1..Len(results)
    BY <1>1
  <2> QED
    BY <2>1, <2>2, ElementOfSeq, Zenon
<1>3. PICK q \in Seq(Outcome) : q = Ran /\ q = Executed(results[1])
  BY <1>2, ExecutedType DEF Ran
<1>4. PICK n \in Nat : n = Len(q) /\ DOMAIN q = 1..n
  OBVIOUS
<1>5. PICK lat : lat = TimesOf(q, n)
  OBVIOUS
<1>6. PICK K : K = SlowerOf(q, n, config.threshold_pct)
  OBVIOUS
<1>7. /\ lat \in [1..n -> Nat]
      /\ report.total_errors = Errors(q)
      /\ report.total_queries_replayed = n
      /\ report.replay_p95_latency_us = percentile(Sorted(lat), 95)
      /\ report.replay_p99_latency_us = percentile(Sorted(lat), 99)
      /\ Cardinality(K) \in Nat /\ Len(report.regressions) = Cardinality(K)
      /\ report.regressions = << >> <=> Cardinality(K) = 0
  BY <1>1, <1>3, <1>4, <1>5, <1>6, ReportIs
<1>8. Regressed = Cardinality(K)
  BY <1>3, <1>4, <1>6 DEF Regressed, CountOf, SlowerOf
<1>9. ASSUME NEW us \in Nat
      PROVE  /\ report.replay_p95_latency_us <= us <=> 20 * SlowerThan(us) < n + 9
             /\ report.replay_p99_latency_us <= us <=> 100 * SlowerThan(us) < n + 49
  <2>1. PICK c : c = Exceeding(lat, n, us)
    OBVIOUS
  <2>2. SlowerThan(us) = c
    <3>1. {k \in 1..n : q[k].replay_duration_us > us} = {k \in 1..n : lat[k] > us}
      BY <1>5 DEF TimesOf
    <3>2. SlowerThan(us) = Cardinality({k \in 1..n : q[k].replay_duration_us > us})
      BY <1>3, <1>4 DEF SlowerThan, CountOf
    <3> QED
      BY <2>1, <3>1, <3>2 DEF Exceeding
  <2>3. /\ percentile(Sorted(lat), 95) <= us <=> 20 * c < n + 9
        /\ percentile(Sorted(lat), 99) <= us <=> 100 * c < n + 49
    <3>1. lat \in [1..n -> Nat]
      BY <1>7
    <3> QED
      BY ONLY <2>1, <3>1, n \in Nat, us \in Nat, PercentilesWithin
  <2> QED
    BY <1>7, <2>2, <2>3
<1> QED
  BY <1>1, <1>3, <1>4, <1>7, <1>8, <1>9

\* The checks are passed exactly when every limit holds.
LEMMA ChecksAre ==
    ASSUME VerdictInv, ReportRight, Single
    PROVE  /\ all_passed(checks) <=> (config.has_thresholds => LimitsHold)
           /\ \E S : checks \in Seq(S)
<1>1. CASE ~config.has_thresholds
  <2>1. checks = << >>
    BY <1>1 DEF ReportRight
  <2> QED
    BY <1>1, <2>1 DEF all_passed
<1>2. CASE config.has_thresholds
  <2>1. checks = evaluate_thresholds(report, config.thresholds)
    BY <1>2 DEF ReportRight
  <2>2. Comparing
    BY DEF Comparing
  <2>3. /\ report.total_errors = Errors(Ran) /\ report.total_queries_replayed = Len(Ran)
        /\ Len(report.regressions) = Regressed
        /\ \A us \in Nat : /\ report.replay_p95_latency_us <= us <=> 20 * SlowerThan(us) < Len(Ran) + 9
                           /\ report.replay_p99_latency_us <= us <=> 100 * SlowerThan(us) < Len(Ran) + 49
    BY <2>2, ReportCounts
  <2>4. /\ config.thresholds.p95_max \subseteq Nat /\ config.thresholds.p99_max \subseteq Nat
    BY ConfigIs DEF VerdictInv, ResultsInv
  <2>5. PICK a \in BOOLEAN : a = \A us \in config.thresholds.p95_max : report.replay_p95_latency_us <= us
    OBVIOUS
  <2>6. PICK b \in BOOLEAN : b = \A us \in config.thresholds.p99_max : report.replay_p99_latency_us <= us
    OBVIOUS
  <2>7. PICK c \in BOOLEAN : c = \A pct \in config.thresholds.error_rate_max_pct :
                                    100 * report.total_errors <= pct * report.total_queries_replayed
    OBVIOUS
  <2>8. PICK d \in BOOLEAN : d = \A n \in config.thresholds.regression_max_count : Len(report.regressions) <= n
    OBVIOUS
  <2>9. /\ \E S : checks \in Seq(S)
        /\ all_passed(checks) <=> a /\ b /\ c /\ d
    BY <2>1, <2>5, <2>6, <2>7, <2>8, ThresholdsAre
  <2>10. a <=> \A us \in config.thresholds.p95_max : 20 * SlowerThan(us) < Len(Ran) + 9
    BY <2>3, <2>4, <2>5
  <2>11. b <=> \A us \in config.thresholds.p99_max : 100 * SlowerThan(us) < Len(Ran) + 49
    BY <2>3, <2>4, <2>6
  <2>12. c <=> \A pct \in config.thresholds.error_rate_max_pct : 100 * Errors(Ran) <= pct * Len(Ran)
    BY <2>3, <2>7
  <2>13. d <=> \A n \in config.thresholds.regression_max_count : Regressed <= n
    BY <2>3, <2>8
  <2>14. LimitsHold <=> a /\ b /\ c /\ d
    BY <2>10, <2>11, <2>12, <2>13, Zenon DEF LimitsHold
  <2> QED
    BY <1>2, <2>9, <2>14
<1> QED
  BY <1>1, <1>2

\* A result and what was refused make up the workload.
LEMMA HappenedCounts ==
    ASSUME VerdictInv, NEW v \in DOMAIN results
    PROVE  /\ Len(results[v]) + refused[v] = Len(replayed)
           /\ \E ways : /\ results[v] = ResultsOf(replayed, ways, config.read_only)
                        /\ refused[v] = 0 => Len(Returned(replayed, ways)) = Len(replayed)
<1>1. PICK ways : /\ results[v] = ResultsOf(replayed, ways, config.read_only)
                  /\ refused[v] = Len(replayed) - Len(Returned(replayed, ways))
  BY DEF VerdictInv, ResultsInv, Happened
<1>2. replayed \in ProfileType
  BY DEF VerdictInv, ResultsInv
<1>3. PICK n \in Nat : n = Len(replayed)
  BY <1>2 DEF ProfileType
<1>4. PICK m \in Nat : m = Len(Returned(replayed, ways))
  <2>1. PICK r : r = Returned(replayed, ways)
    OBVIOUS
  <2>2. Len(r) \in Nat
    BY <1>2, <1>3, <2>1, ReturnedAre
  <2> QED
    BY <2>1, <2>2
<1>5. Len(results[v]) = m
  BY <1>1, <1>2, <1>4, ResultsAre
<1>6. refused[v] = n - m
  BY <1>1, <1>3, <1>4
<1>7. m + (n - m) = n /\ (n - m = 0 => m = n)
  BY ONLY n \in Nat, m \in Nat
<1> QED
  BY <1>1, <1>3, <1>4, <1>5, <1>6, <1>7

\* The verdict of run.
LEMMA RunRight == VerdictInv => RunVerdict
<1> SUFFICES ASSUME VerdictInv, Single, exit_code \in {0, 1}, refused[1] = 0
             PROVE  /\ Len(results[1]) = Len(replayed)
                    /\ exit_code = 0 <=> (config.has_thresholds => LimitsHold)
                    /\ files = Asked
                    /\ exit_code = 1 => junit(checks).failures > 0
  BY DEF RunVerdict, ReplaySucceeded
<1>1. ReportRight /\ files = Asked /\ (exit_code = 0 <=> all_passed(checks))
  BY DEF VerdictInv
<1>2. Comparing
  BY DEF Comparing
<1>3. Len(results) = 1
  BY <1>1, <1>2, ReportCounts
<1>4. 1 \in DOMAIN results
  <2>1. results \in Seq(ResultType)
    BY DEF VerdictInv, ResultsInv
  <2> QED
    BY ONLY <1>3, <2>1
<1>5. Len(results[1]) = Len(replayed)
  BY <1>4, HappenedCounts
<1>6. /\ all_passed(checks) <=> (config.has_thresholds => LimitsHold)
      /\ \E S : checks \in Seq(S)
  BY <1>1, ChecksAre
<1>7. exit_code = 1 => junit(checks).failures > 0
  <2>1. PICK S : checks \in Seq(S)
    BY <1>6
  <2>2. exit_code = 1 => ~all_passed(checks)
    BY <1>1
  <2> QED
    BY <2>1, <2>2, JunitFails
<1> QED
  BY <1>1, <1>5, <1>6, <1>7

\* The verdict of compare.
LEMMA CompareRight == VerdictInv => CompareVerdict
<1> SUFFICES ASSUME VerdictInv, config.command = "compare", report # << >>, stage = "exit", ~config.json
             PROVE  /\ exit_code = 2 <=> config.fail_on_error /\ Errors(Ran) > 0
                    /\ exit_code = 1 => config.fail_on_regression /\ Regressed > 0
                    /\ exit_code = 0 => ~config.fail_on_regression \/ Regressed = 0
  BY DEF CompareVerdict
<1>1. exit_code = evaluate_outcome(report, config.fail_on_regression, config.fail_on_error)
  BY DEF VerdictInv
<1>2. Comparing /\ ReportRight
  BY Reported DEF Comparing
<1>3. /\ report.total_errors = Errors(Ran)
      /\ Regressed \in Nat
      /\ report.regressions = << >> <=> Regressed = 0
  BY <1>2, ReportCounts
<1>4. config.fail_on_error \in BOOLEAN /\ config.fail_on_regression \in BOOLEAN
  BY ConfigIs DEF VerdictInv, ResultsInv
<1>5. exit_code = 2 <=> config.fail_on_error /\ Errors(Ran) > 0
  BY <1>1, <1>3, <1>4 DEF evaluate_outcome
<1>6. exit_code = 1 => config.fail_on_regression /\ Regressed > 0
  BY <1>1, <1>3, <1>4 DEF evaluate_outcome
<1>7. exit_code = 0 => ~config.fail_on_regression \/ Regressed = 0
  BY <1>1, <1>3, <1>4 DEF evaluate_outcome
<1> QED
  BY <1>5, <1>6, <1>7

\* The verdict on variants.
LEMMA VariantsRight == VerdictInv => VariantsVerdict
<1> SUFFICES ASSUME VerdictInv, Len(results) > 1, report # << >>
             PROVE  /\ \A v \in DOMAIN results :
                          from_results(results[report.winner]).avg_latency_us <= from_results(results[v]).avg_latency_us
                    /\ (\A v \in DOMAIN refused : refused[v] = 0) =>
                           \A k \in DOMAIN report.regressions : report.regressions[k].sql = report.regressions[k].base
  BY DEF VariantsVerdict
<1>1. results \in Seq(ResultType) /\ refused \in Seq(Int) /\ Len(refused) = Len(results) /\ replayed \in ProfileType
  BY DEF VerdictInv, ResultsInv
<1>2. PICK n \in Nat : n > 1 /\ n = Len(results) /\ DOMAIN results = 1..n /\ DOMAIN refused = 1..n
  BY <1>1
<1>3. Varying
  BY <1>2 DEF VerdictInv, ResultsInv
<1>4. PICK x : x = [v \in 1..n |-> from_results(results[v])]
  OBVIOUS
<1>5. report = compute_ab_comparison(x, config.threshold_pct)
  <2>1. Each(results, from_results) = x
    BY <1>2, <1>4 DEF Each
  <2>2. ReportRight
    BY Reported
  <2> QED
    BY <1>3, <2>1, <2>2 DEF ReportRight
<1>6. ASSUME NEW v \in 1..n
      PROVE  /\ results[v] \in ResultType
             /\ VariantType(x[v]) /\ x[v].queries = Executed(results[v])
  <2>1. results[v] \in ResultType
    BY <1>1, <1>2, ElementOfSeq, Zenon
  <2> QED
    BY <1>4, <2>1, VariantIs
<1>7. DOMAIN x = 1..n /\ Len(x) = n
  BY <1>4
<1>8. report.winner \in 1..n /\ \A v \in 1..n : x[report.winner].avg_latency_us <= x[v].avg_latency_us
  <2>1. PICK w : w = compute_ab_comparison(x, config.threshold_pct).winner
    OBVIOUS
  <2>2. (\A v \in 1..n : VariantType(x[v])) /\ n > 0
    BY <1>2, <1>6
  <2>3. w \in 1..n /\ \A v \in 1..n : x[w].avg_latency_us <= x[v].avg_latency_us
    BY ONLY <1>7, <2>1, <2>2, n \in Nat, WinnerIs
  <2> QED
    BY <1>5, <2>1, <2>3
<1>9. ASSUME \A v \in DOMAIN refused : refused[v] = 0
      PROVE  \A k \in DOMAIN report.regressions : report.regressions[k].sql = report.regressions[k].base
  <2>1. ASSUME NEW v \in 1..n PROVE Alike(x[v].queries, x[1].queries)
    <3>1. 1 \in 1..n
      BY <1>2
    <3>2. PICK ways : /\ results[v] = ResultsOf(replayed, ways, config.read_only)
                      /\ Len(Returned(replayed, ways)) = Len(replayed)
      BY <1>2, <1>9, HappenedCounts
    <3>3. PICK others : /\ results[1] = ResultsOf(replayed, others, config.read_only)
                        /\ Len(Returned(replayed, others)) = Len(replayed)
      BY <1>2, <1>9, <3>1, HappenedCounts
    <3>4. Alike(Executed(results[v]), Executed(results[1]))
      BY <1>1, <3>2, <3>3, ResultsAlike
    <3> QED
      BY <1>6, <3>1, <3>4
  <2>2. PICK r : r = compute_ab_comparison(x, config.threshold_pct).regressions
    OBVIOUS
  <2>3. \A v \in 1..n : VariantType(x[v]) /\ Alike(x[v].queries, x[1].queries)
    BY <1>6, <2>1
  <2>4. n > 0
    BY <1>2
  <2>5. VariantsAlike(x, n)
    BY <1>7, <2>3 DEF VariantsAlike
  <2>6. SameTexts(r)
    BY ONLY <2>2, <2>4, <2>5, n \in Nat, RegressionsAre
  <2> QED
    BY <1>5, <2>2, <2>6 DEF SameTexts
<1> QED
  BY <1>2, <1>4, <1>8, <1>9

\* The verdict of inspect.
LEMMA InspectRight == VerdictInv => InspectVerdict
<1> SUFFICES ASSUME VerdictInv, config.command = "inspect", report # << >>
             PROVE  \A c \in Classes : Having(c) <= Having(report.class)
  BY DEF InspectVerdict
<1>1. report.class = classify_workload(config.profile)
  BY Reported DEF ReportRight
<1>2. config.profile \in ProfileType
  BY ConfigIs DEF VerdictInv, ResultsInv
<1>3. \A c \in Classes : Having(c) <= Having(classify_workload(config.profile))
  BY <1>2, ClassIs DEF Having
<1> QED
  BY <1>1, <1>3

\* The exit code of a run whose replay succeeded, and of compare, says what happened to the queries
\* that were executed, for any configuration and any workload (run_pipeline, evaluate_thresholds, evaluate_outcome, compute_ab_comparison,
\* classify_workload).
THEOREM VerdictCorrect == PipelineSpec => []VerdictTrue
<1>1. VerdictInv => VerdictTrue
  BY RunRight, CompareRight, VariantsRight, InspectRight DEF VerdictTrue
<1> QED
  BY <1>1, VerdictInit, VerdictStep, PTL DEF PipelineSpec

-----------------------------------------------------------------------------
(***************************************************************************)
(* How often a session of a scaled replay is replayed, and when.           *)
(***************************************************************************)
\* How often each session is asked for.
AsOften == [s \in 1..Len(config.profile) |-> HowOften(s)]

\* What is scaled has as many copies as are asked for.
LEMMA ScaledIs ==
    ASSUME config \in Configs, Distinct(config.profile), NEW scaled, Scaled(scaled)
    PROVE  /\ \E at, D : Replicates(at, scaled, D, config.profile, config.stagger_us, AsOften)
           /\ config.class_scales # << >> \/ Numbered => IdsApart(scaled)
           /\ config.class_scales # << >> =>
                 \A j, k \in 1..Len(scaled) : j < k => FirstOffset(scaled[j]) <= FirstOffset(scaled[k])
<1>1. ProfileType = Seq(CapturedSession)
  BY DEF ProfileType, CapturedSession
<1>2. /\ config.profile \in Seq(CapturedSession) /\ config.scale \in Nat /\ config.stagger_us \in Nat
      /\ config.class_scales = << >> \/ config.class_scales \in [Classes -> Nat]
  BY <1>1, ConfigIs
<1>3. PICK profile \in Seq(CapturedSession) : profile = config.profile
  BY <1>2
<1>4. PICK stagger \in Nat : stagger = config.stagger_us
  BY <1>2
<1>5. DOMAIN profile = 1..Len(profile)
  OBVIOUS
<1>6. IdsApart(profile)
  BY <1>3, <1>5 DEF Distinct, IdsApart
<1>7. CASE config.class_scales # << >>
  <2>1. PICK scales \in [Classes -> Nat] : scales = config.class_scales
    BY <1>2, <1>7
  <2>2. PICK order \in SetToSeqs({classify_session(profile[s]) : s \in DOMAIN profile}) :
               scaled = scale_sessions_by_class(profile, scales, stagger, order)
    BY <1>3, <1>4, <1>7, <2>1 DEF Scaled
  <2>3. Orders(order, profile)
    BY <2>2, OrderIs
  <2>4. PICK many : many = [s \in 1..Len(profile) |-> scales[classify_session(profile[s])]]
    OBVIOUS
  <2>5. AsOften = many
    BY <1>3, <1>7, <2>1, <2>4 DEF AsOften, HowOften
  <2>6. /\ \E at, D : Replicates(at, scaled, D, profile, stagger, many)
        /\ IdsApart(profile) => IdsApart(scaled)
        /\ \A j, k \in 1..Len(scaled) : j < k => FirstOffset(scaled[j]) <= FirstOffset(scaled[k])
    BY ONLY <2>2, <2>3, <2>4, profile \in Seq(CapturedSession), scales \in [Classes -> Nat], stagger \in Nat,
            ByClassReplicates
  <2> QED
    BY <1>3, <1>4, <1>6, <2>5, <2>6
<1>8. CASE config.class_scales = << >>
  <2>1. PICK scale \in Nat : scale = config.scale
    BY <1>2
  <2>2. scaled = scale_sessions(profile, scale, stagger)
    BY <1>3, <1>4, <1>8, <2>1 DEF Scaled
  <2>3. AsOften = Uniformly(profile, scale)
    BY <1>3, <1>8, <2>1 DEF AsOften, HowOften, Uniformly
  <2>4. /\ \E at, D : Replicates(at, scaled, D, profile, stagger, Uniformly(profile, scale))
        /\ IdsApart(profile) /\ (\A s \in 1..Len(profile) : profile[s].id \in 1..Len(profile)) => IdsApart(scaled)
    BY ONLY <2>2, profile \in Seq(CapturedSession), scale \in Nat, stagger \in Nat, UniformReplicates
  <2>5. Numbered => \A s \in 1..Len(profile) : profile[s].id \in 1..Len(profile)
    BY <1>3, <1>5 DEF Numbered
  <2> QED
    BY <1>3, <1>4, <1>6, <1>8, <2>3, <2>4, <2>5
<1> QED
  BY <1>7, <1>8

\* What is replayed of a run without variants is what is scaled.
ScaledInv == VerdictInv /\ (WasScaled => Scaled(replayed))

\* It holds when a command starts.
LEMMA ScaledInit == PipelineInit => ScaledInv
BY VerdictInit DEF PipelineInit, ScaledInv, WasScaled

\* Only a replay of the target changes what is replayed.
LEMMA ScaledStep == ScaledInv /\ [PipelineNext]_pipelineVars => ScaledInv'
<1> SUFFICES ASSUME ScaledInv, [PipelineNext]_pipelineVars, WasScaled' PROVE Scaled(replayed)'
  BY VerdictStep DEF ScaledInv
<1>1. ASSUME UNCHANGED <<config, replayed>> PROVE Scaled(replayed)'
  BY <1>1 DEF ScaledInv, WasScaled, HasVariants, Scaled
<1>2. CASE RunReplay
  BY <1>2 DEF RunReplay, Scaled
<1>3. CASE RunVariant \/ ReadResults
  <2>1. config' = config
    BY <1>3 DEF RunVariant, ReadResults
  <2>2. config.command \in {"run", "replay"} /\ ~HasVariants
    BY <2>1 DEF WasScaled, HasVariants
  <2>3. ~Varying
    BY <2>2 DEF Varying
  <2> QED
    BY <1>3, <2>2, <2>3 DEF RunVariant, ReadResults, ScaledInv, VerdictInv, StageInv
<1>4. CASE LoadConfig \/ LoadOrCapture \/ CaptureFails \/ UseTarget \/ DockerFails \/ DockerRun \/ MappedPort
           \/ WaitForPg \/ NeverReady \/ RestoreBackup
  BY <1>1, <1>4 DEF LoadConfig, LoadOrCapture, CaptureFails, UseTarget, DockerFails, DockerRun, MappedPort,
        WaitForPg, NeverReady, RestoreBackup, Provisioning
<1>5. CASE ReplayFails \/ Compare \/ CompareVariants \/ WriteResults \/ Inspect \/ WriteReports \/ WriteFails \/ Teardown
           \/ UNCHANGED pipelineVars
  BY <1>1, <1>5 DEF ReplayFails, Compare, CompareVariants, WriteResults, Inspect, WriteReports, WriteFails, Teardown,
        pipelineVars
<1> QED
  BY <1>2, <1>3, <1>4, <1>5 DEF PipelineNext, PipelineEnds

\* So every session is replayed as often as is asked, each time at another time.
LEMMA ScaledHolds == ScaledInv => ScaledRight
<1> SUFFICES ASSUME ScaledInv, WasScaled, Distinct(config.profile) PROVE ScaledRight
  BY DEF ScaledRight
<1>1. config \in Configs /\ replayed \in ProfileType /\ Scaled(replayed)
  BY DEF ScaledInv, VerdictInv, ResultsInv
<1>2. /\ config.profile \in Seq(CapturedSession) /\ replayed \in Seq(CapturedSession) /\ config.stagger_us \in Nat
  <2>1. ProfileType = Seq(CapturedSession)
    BY DEF ProfileType, CapturedSession
  <2> QED
    BY <1>1, <2>1, ConfigIs
<1>3. PICK profile \in Seq(CapturedSession) : profile = config.profile
  BY <1>2
<1>4. PICK seq \in Seq(CapturedSession) : seq = replayed
  BY <1>2
<1>5. PICK stagger \in Nat : stagger = config.stagger_us
  BY <1>2
<1>6. DOMAIN profile = 1..Len(profile) /\ DOMAIN seq = 1..Len(seq) /\ Len(seq) \in Nat
  OBVIOUS
<1>7. /\ \E at, D : Replicates(at, seq, D, profile, stagger, AsOften)
      /\ config.class_scales # << >> \/ Numbered => IdsApart(seq)
      /\ config.class_scales # << >> =>
            \A j, k \in 1..Len(seq) : j < k => FirstOffset(seq[j]) <= FirstOffset(seq[k])
  BY <1>1, <1>3, <1>4, <1>5, ScaledIs
<1>8. PICK at, D : Replicates(at, seq, D, profile, stagger, AsOften)
  BY <1>7
<1>9. Telling(profile)
  BY <1>3, <1>6 DEF Distinct, Telling
<1>10. ASSUME NEW s \in 1..Len(profile)
       PROVE  /\ Cardinality(CopiesOf(s)) = HowOften(s)
              /\ config.stagger_us > 0 /\ config.profile[s].queries # << >> =>
                    \A j, k \in CopiesOf(s) : j # k => FirstOffset(replayed[j]) # FirstOffset(replayed[k])
  <2>1. CopiesOf(s) = Like(seq, profile[s])
    BY <1>3, <1>4, <1>6 DEF CopiesOf, Like
  <2>2. AsOften[s] = HowOften(s)
    BY <1>3 DEF AsOften
  <2>3. /\ Cardinality(Like(seq, profile[s])) = AsOften[s]
        /\ stagger > 0 /\ profile[s].queries # << >> =>
              \A j, k \in Like(seq, profile[s]) : j # k => FirstOffset(seq[j]) # FirstOffset(seq[k])
    <3>1. PICK many : many = AsOften
      OBVIOUS
    <3>2. Len(seq) \in Nat /\ s \in 1..Len(profile)
      BY <1>3, <1>6
    <3>3. Replicates(at, seq, D, profile, stagger, many)
      BY ONLY <1>8, <3>1
    <3>4. /\ Cardinality(Like(seq, profile[s])) = many[s]
          /\ stagger > 0 /\ profile[s].queries # << >> =>
                \A j, k \in Like(seq, profile[s]) : j # k => FirstOffset(seq[j]) # FirstOffset(seq[k])
      BY ONLY <1>9, <3>2, <3>3, profile \in Seq(CapturedSession), stagger \in Nat, LikeCount
    <3> QED
      BY <3>1, <3>4
  <2> QED
    BY <1>3, <1>4, <1>5, <2>1, <2>2, <2>3
<1>11. config.class_scales # << >> \/ Numbered =>
           \A j, k \in DOMAIN replayed : j # k => replayed[j].id # replayed[k].id
  BY <1>4, <1>6, <1>7 DEF IdsApart
<1> QED
  BY <1>3, <1>4, <1>6, <1>7, <1>10, <1>11 DEF ScaledRight

\* A scaled replay runs each session as often as its class asks, at different times and in order
\* (scale_sessions, scale_sessions_by_class), whatever the profile, the scales and the stagger.
THEOREM ScaledCorrect == PipelineSpec => []ScaledRight
<1>1. PipelineSpec => []ScaledInv
  BY ScaledInit, ScaledStep, PTL DEF PipelineSpec
<1> QED
  BY <1>1, ScaledHolds, PTL
=============================================================================
