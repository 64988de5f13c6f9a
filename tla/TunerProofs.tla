----------------------------- MODULE TunerProofs -----------------------------
(***************************************************************************)
(* Theorems about Tuner, for any parameters, advice and requests.          *)
(***************************************************************************)
EXTENDS Tuner, WellFoundedInduction, TLAPS

-----------------------------------------------------------------------------
(***************************************************************************)
(* Types.  Work that a phase left behind would be done by the next one, so *)
(* the invariant says which phases have any.                               *)
(***************************************************************************)
Applying == tuning \in {"apply", "reload", "schema"}
\* The schema change whose statements are executed is the first recommendation left.
SchemaInHand == tuning = "schema" => \A k \in todo : First(k) => recommendations[k].type = "schema"
TypeInv ==
    /\ TunerTypeOK
    /\ SchemaInHand
    /\ ~Applying => todo = {}
    /\ tuning # "rollback" => undo = {}

\* What a recommendation is made of.
LEMMA Parts ==
    ASSUME NEW rec \in Recommendations
    PROVE  /\ rec.type \in {"config", "index", "rewrite", "schema"}
           /\ rec.type = "config" => rec.name \in Params /\ rec.current \in Values /\ rec.recommended \in Values
           /\ rec.type = "index" => rec.name \in Indexes /\ rec.also \subseteq Indexes /\ rec.named \in BOOLEAN
           /\ rec.type = "schema" => rec.parts \in Seq(SchemaParts)
BY DEF Recommendations, ConfigChanges, CreateIndexes, QueryRewrites, SchemaChanges

\* What a statement of a schema change is made of.
LEMMA StatementParts ==
    ASSUME NEW s \in SchemaParts
    PROVE  /\ s.does \in {"create", "drop", "set", "maintain", "other"}
           /\ s.does \in {"create", "drop"} => s.name \in Indexes
           /\ s.does = "set" => s.name \in Params /\ s.value \in Values
BY DEF SchemaParts

\* A request says what the target is like at first.
LEMMA RequestParts ==
    ASSUME request \in Requests
    PROVE  /\ request.max \in Nat /\ request.faults \in Nat
           /\ request.settings \in [Params -> Values] /\ request.indexes \subseteq Indexes
           /\ request.apply \in BOOLEAN /\ request.force \in BOOLEAN /\ request.production \in BOOLEAN
           /\ request.writes \in BOOLEAN /\ request.read_only \in BOOLEAN
BY TunerAssumption

LEMMA TypeInit == TunerInit => TypeInv
<1> SUFFICES ASSUME TunerInit PROVE TypeInv
  OBVIOUS
<1> USE DEF TunerInit
<1>1. request \in Requests
  OBVIOUS
<1>2. /\ iteration \in 0..request.max
      /\ context \in [Params -> Values] /\ before \in [Params -> Values]
      /\ settings \in [Params -> Values] /\ live \in [Params -> Values]
      /\ indexes \subseteq Indexes /\ had \subseteq Indexes /\ rows \in BOOLEAN /\ faults \in Nat
  <2>1. /\ request.max \in Nat /\ request.faults \in Nat
        /\ request.settings \in [Params -> Values] /\ request.indexes \subseteq Indexes
    BY <1>1, RequestParts
  <2>2. /\ iteration = 0 /\ settings = request.settings /\ live = request.settings /\ indexes = request.indexes
        /\ rows = FALSE /\ context = live /\ before = settings /\ had = indexes /\ faults = request.faults
    OBVIOUS
  <2>3. iteration \in 0..request.max
    BY <2>1, <2>2
  <2> QED
    BY <2>1, <2>2, <2>3
<1>3. /\ recommendations \in Seq(Recommendations) /\ applied \in Seq(Changes) /\ all_changes \in Seq(Changes)
      /\ regressed \in Seq(BOOLEAN) /\ stmt \in Execution
  BY DEF NoStatement, Execution
<1> QED
  BY <1>1, <1>2, <1>3 DEF TypeInv, TunerTypeOK, SchemaInHand, Applying

\* A statement changes how many more may fail, never by less than one.
LEMMA OutcomeType ==
    ASSUME NEW o, Outcome(o), faults \in Nat
    PROVE  faults' \in Nat
BY DEF Outcome

\* An index that is created is one of Indexes.
LEMMA CreatesType ==
    ASSUME NEW index, NEW also, NEW o, index.name \in Indexes, also \subseteq Indexes, Creates(index, also, o),
           indexes \subseteq Indexes, faults \in Nat
    PROVE  indexes' \subseteq Indexes /\ faults' \in Nat
<1>1. CASE UNCHANGED <<indexes, faults>>
  BY <1>1
<1>2. CASE ~UNCHANGED <<indexes, faults>>
  <2>1. /\ Outcome(o)
        /\ \E name \in IF index.named THEN {index.name} ELSE Indexes \ (indexes \cup also) :
              indexes' = IF ExecutedSql(o) THEN (indexes \cup also) \cup {name} ELSE indexes
    BY <1>2 DEF Creates
  <2>2. faults' \in Nat
    BY <2>1, OutcomeType
  <2>3. PICK name \in IF index.named THEN {index.name} ELSE Indexes \ (indexes \cup also) :
              indexes' = IF ExecutedSql(o) THEN (indexes \cup also) \cup {name} ELSE indexes
    BY <2>1
  <2>4. name \in Indexes
    BY <2>3
  <2> QED
    BY <2>2, <2>3, <2>4
<1> QED
  BY <1>1, <1>2

\* A statement that creates indexes disturbs no others, and finds its name free.
LEMMA CreatesOnly ==
    ASSUME NEW index, NEW also, NEW o, Creates(index, also, o), index.named, NEW n
    PROVE  /\ n # index.name /\ n \notin also => (n \in indexes' <=> n \in indexes)
           /\ n = index.name /\ o = "ok" /\ ~index.unless_exists => n \notin indexes
<1>1. CASE o = "refused" /\ UNCHANGED <<indexes, faults>>
  BY <1>1
<1>2. CASE ~(o = "refused" /\ UNCHANGED <<indexes, faults>>)
  <2>1. /\ ~(index.named /\ index.name \in (IF index.unless_exists THEN also ELSE indexes \cup also))
        /\ \E name \in {index.name} : indexes' = IF ExecutedSql(o) THEN (indexes \cup also) \cup {name} ELSE indexes
    BY <1>2 DEF Creates
  <2> QED
    BY <2>1
<1> QED
  BY <1>1, <1>2

\* What a statement of a schema change does.
LEMMA ExecutesType ==
    ASSUME NEW part \in SchemaParts, NEW o, Executes(part, o), TunerTypeOK
    PROVE  /\ indexes' \subseteq Indexes /\ faults' \in Nat /\ settings' \in [Params -> Values]
           /\ \A p \in Params : settings'[p] # settings[p] => part.does = "set" /\ part.name = p
           /\ \A n : ~Touches(part, n) => (n \in indexes' <=> n \in indexes)
<1>0. indexes \subseteq Indexes /\ faults \in Nat /\ settings \in [Params -> Values]
  BY DEF TunerTypeOK
<1>1. CASE part.does = "create"
  <2>1. Creates(part, {}, o) /\ UNCHANGED settings
    BY <1>1 DEF Executes
  <2>2. part.name \in Indexes /\ {} \subseteq Indexes
    BY <1>1, StatementParts
  <2>3. indexes' \subseteq Indexes /\ faults' \in Nat
    BY <1>0, <2>1, <2>2, CreatesType
  <2>4. ASSUME NEW n, ~Touches(part, n) PROVE n \in indexes' <=> n \in indexes
    <3>1. part.named /\ n # part.name /\ n \notin {}
      BY <1>1, <2>4 DEF Touches
    <3> QED
      BY <2>1, <3>1, CreatesOnly
  <2> QED
    BY <1>0, <2>1, <2>3, <2>4
<1>2. CASE part.does = "drop"
  <2>1. UNCHANGED settings /\ (indexes' = indexes \/ indexes' = indexes \ {part.name})
    BY <1>2 DEF Executes
  <2>2. faults' \in Nat
    BY <1>0, <1>2, OutcomeType DEF Executes
  <2> QED
    BY <1>0, <1>2, <2>1, <2>2 DEF Touches
<1>3. CASE part.does = "set"
  <2>1. Outcome(o) /\ UNCHANGED indexes
        /\ settings' = IF ExecutedSql(o) THEN [settings EXCEPT ![part.name] = part.value] ELSE settings
    BY <1>3 DEF Executes
  <2>2. part.name \in Params /\ part.value \in Values
    BY <1>3, StatementParts
  <2>3. faults' \in Nat
    BY <1>0, <2>1, OutcomeType
  <2> QED
    BY <1>0, <1>3, <2>1, <2>2, <2>3
<1>4. CASE part.does \in {"maintain", "other"}
  <2>1. UNCHANGED <<settings, indexes>>
    BY <1>4 DEF Executes
  <2>2. faults' \in Nat
    BY <1>0, <1>4, OutcomeType DEF Executes
  <2> QED
    BY <1>0, <2>1, <2>2
<1> QED
  BY <1>1, <1>2, <1>3, <1>4, StatementParts

\* A change is recorded at the end of both lists.
LEMMA AppliedType ==
    ASSUME TunerTypeOK, NEW k \in DOMAIN recommendations, NEW success \in BOOLEAN, NEW rollback_sql \in BOOLEAN,
           Applied(k, success, rollback_sql)
    PROVE  /\ applied' \in Seq(Changes) /\ all_changes' \in Seq(Changes)
           /\ DOMAIN applied \subseteq DOMAIN applied'
<1> DEFINE change == [rec |-> recommendations[k], success |-> success, rollback |-> rollback_sql]
<1>1. recommendations[k] \in Recommendations
  BY DEF TunerTypeOK
<1>2. change \in Changes
  BY <1>1 DEF Changes
<1>3. applied' = Append(applied, change) /\ all_changes' = Append(all_changes, change)
  BY DEF Applied
<1>4. applied \in Seq(Changes) /\ all_changes \in Seq(Changes)
  BY DEF TunerTypeOK
<1> HIDE DEF change
<1> QED
  BY <1>2, <1>3, <1>4

\* A replay changes nothing of the target but its rows.
LEMMA ReplaysType ==
    ASSUME NEW next, TunerReplays(next)
    PROVE  rows' \in BOOLEAN /\ tuning' = next /\ UNCHANGED <<settings, live, indexes>>
<1>1. rows' = (rows \/ (request.writes /\ ~request.read_only))
  BY DEF TunerReplays
<1>2. (rows \/ (request.writes /\ ~request.read_only)) \in BOOLEAN
  BY Zenon
<1> QED
  BY <1>1, <1>2 DEF TunerReplays

LEMMA Longer ==
    ASSUME NEW S, NEW s \in Seq(S), NEW x \in S
    PROVE  Append(s, x) \in Seq(S)
OBVIOUS

LEMMA ReloadedType ==
    ASSUME TunerTypeOK
    PROVE  Reloaded \in [Params -> Values]
BY DEF TunerTypeOK, Reloaded

LEMMA TypeStep == TypeInv /\ [TunerNext]_tunerVars => TypeInv'
<1> SUFFICES ASSUME TypeInv, [TunerNext]_tunerVars PROVE TypeInv'
  OBVIOUS
<1> USE DEF TypeInv, TunerTypeOK, SchemaInHand, Applying, advice, changes, rollback, target
<1>0. ASSUME Abandon, todo = {}, undo = {} PROVE TypeInv'
  BY <1>0 DEF Abandon
<1>1. CASE CheckHostname
  <2>1. CASE Abandon
    BY <1>0, <1>1, <2>1 DEF CheckHostname
  <2>2. CASE ~Abandon
    <3>1. /\ tuning = "check" /\ tuning' = "warmup"
          /\ UNCHANGED <<request, iteration, advice, todo, stmt, changes, rollback, regressed, target, faults>>
      BY <1>1, <2>2, Zenon DEF CheckHostname
    <3> QED
      BY <3>1
  <2> QED
    BY <2>1, <2>2
<1>2. CASE Baseline
  <2>1. rows' \in BOOLEAN /\ tuning' \in {"measure", "iterate"} /\ UNCHANGED <<settings, live, indexes>>
    BY <1>2, ReplaysType DEF Baseline
  <2> QED
    BY <1>2, <2>1 DEF Baseline
<1>3. CASE BaselineFails
  BY <1>0, <1>3 DEF BaselineFails
<1>4. CASE CollectContext
  <2>1. iteration' \in 0..request'.max
    <3>1. request.max \in Nat
      BY RequestParts
    <3> QED
      BY <1>4, <3>1 DEF CollectContext
  <2>2. recommendations' = << >> /\ applied' = << >> /\ kept' = {} /\ todo' = {} /\ undo' = {}
    BY <1>4 DEF CollectContext
  <2>3. recommendations' \in Seq(Recommendations) /\ applied' \in Seq(Changes)
    BY <2>2
  <2> QED
    BY <1>4, <2>1, <2>2, <2>3 DEF CollectContext
<1>5. CASE CollectFails
  BY <1>0, <1>5 DEF CollectFails
<1>6. CASE MaxIterations
  BY <1>6 DEF MaxIterations
<1>7. CASE Recommend
  <2>1. recommendations' \in Seq(Recommendations)
    BY <1>7, TunerAssumption DEF Recommend
  <2>2. todo' = {} \/ todo' \subseteq DOMAIN recommendations'
    BY <1>7 DEF Recommend, safe
  <2>3. regressed' \in Seq(BOOLEAN)
    <3>1. regressed' = regressed \/ regressed' = Append(regressed, FALSE)
      BY <1>7 DEF Recommend
    <3>2. regressed \in Seq(BOOLEAN) /\ FALSE \in BOOLEAN
      OBVIOUS
    <3>3. Append(regressed, FALSE) \in Seq(BOOLEAN)
      BY <3>2, Longer
    <3> QED
      BY <3>1, <3>2, <3>3
  <2>4. tuning' \in {"report", "apply"} /\ (tuning' = "report" => todo' = {})
    BY <1>7 DEF Recommend
  <2> QED
    BY <1>7, <2>1, <2>2, <2>3, <2>4 DEF Recommend
<1>8. CASE AlterSystem
  <2>1. PICK k \in todo : \E o \in {"ok", "refused", "lost"} :
           LET rec == recommendations[k] IN
           /\ First(k) /\ rec.type = "config" /\ Outcome(o)
           /\ settings' = IF ExecutedSql(o) THEN [settings EXCEPT ![rec.name] = rec.recommended] ELSE settings
           /\ IF o = "ok"
              THEN tuning' = "reload" /\ UNCHANGED <<todo, changes>>
              ELSE todo' = todo \ {k} /\ Applied(k, FALSE, FALSE) /\ UNCHANGED tuning
    BY <1>8 DEF AlterSystem
  <2>2. PICK o \in {"ok", "refused", "lost"} :
           LET rec == recommendations[k] IN
           /\ First(k) /\ rec.type = "config" /\ Outcome(o)
           /\ settings' = IF ExecutedSql(o) THEN [settings EXCEPT ![rec.name] = rec.recommended] ELSE settings
           /\ IF o = "ok"
              THEN tuning' = "reload" /\ UNCHANGED <<todo, changes>>
              ELSE todo' = todo \ {k} /\ Applied(k, FALSE, FALSE) /\ UNCHANGED tuning
    BY <2>1
  <2>3. k \in DOMAIN recommendations /\ recommendations[k] \in Recommendations
    OBVIOUS
  <2>4. recommendations[k].recommended \in Values
    BY <2>2, <2>3, Parts
  <2>5. settings' \in [Params -> Values]
    BY <2>2, <2>4
  <2>6. faults' \in Nat
    BY <2>2, OutcomeType
  <2>7. applied' \in Seq(Changes) /\ all_changes' \in Seq(Changes) /\ DOMAIN applied \subseteq DOMAIN applied'
    BY <2>2, <2>3, AppliedType
  <2>8. tuning' \in {"apply", "reload"} /\ todo' \subseteq todo
    BY <1>8, <2>2 DEF AlterSystem
  <2> QED
    BY <1>8, <2>5, <2>6, <2>7, <2>8 DEF AlterSystem
<1>9. CASE ReloadConf
  <2>1. PICK k \in todo : \E o \in {"ok", "refused", "lost"} :
           /\ First(k) /\ Outcome(o)
           /\ live' = IF ExecutedSql(o) THEN Reloaded ELSE live
           /\ Applied(k, o = "ok", TRUE)
           /\ todo' = todo \ {k}
    BY <1>9 DEF ReloadConf
  <2>2. PICK o \in {"ok", "refused", "lost"} :
           /\ First(k) /\ Outcome(o)
           /\ live' = IF ExecutedSql(o) THEN Reloaded ELSE live
           /\ Applied(k, o = "ok", TRUE)
           /\ todo' = todo \ {k}
    BY <2>1
  <2>3. live' \in [Params -> Values] /\ faults' \in Nat
    BY <2>2, ReloadedType, OutcomeType
  <2>4. applied' \in Seq(Changes) /\ all_changes' \in Seq(Changes) /\ DOMAIN applied \subseteq DOMAIN applied'
    <3>1. k \in DOMAIN recommendations /\ (o = "ok") \in BOOLEAN
      OBVIOUS
    <3> QED
      BY <2>2, <3>1, AppliedType
  <2> QED
    BY <1>9, <2>2, <2>3, <2>4 DEF ReloadConf
<1>10. CASE CreateIndex
  <2>1. PICK k \in todo : \E o \in {"ok", "refused", "lost"} :
           /\ First(k) /\ recommendations[k].type = "index"
           /\ Creates(recommendations[k], recommendations[k].also, o)
           /\ Applied(k, o = "ok", o = "ok" /\ recommendations[k].named)
           /\ todo' = todo \ {k}
    BY <1>10 DEF CreateIndex
  <2>2. PICK o \in {"ok", "refused", "lost"} :
           /\ First(k) /\ recommendations[k].type = "index"
           /\ Creates(recommendations[k], recommendations[k].also, o)
           /\ Applied(k, o = "ok", o = "ok" /\ recommendations[k].named)
           /\ todo' = todo \ {k}
    BY <2>1
  <2>3. recommendations[k].name \in Indexes /\ recommendations[k].also \subseteq Indexes
    BY <2>2, Parts
  <2>4. indexes' \subseteq Indexes /\ faults' \in Nat
    BY <2>2, <2>3, CreatesType
  <2>5. applied' \in Seq(Changes) /\ all_changes' \in Seq(Changes) /\ DOMAIN applied \subseteq DOMAIN applied'
    <3>1. k \in DOMAIN recommendations /\ (o = "ok") \in BOOLEAN /\ (o = "ok" /\ recommendations[k].named) \in BOOLEAN
      OBVIOUS
    <3> QED
      BY <2>2, <3>1, AppliedType
  <2> QED
    BY <1>10, <2>2, <2>4, <2>5 DEF CreateIndex
<1>11. CASE QueryRewrite
  <2>1. PICK k \in todo : Applied(k, TRUE, FALSE) /\ todo' = todo \ {k}
    BY <1>11 DEF QueryRewrite
  <2>2. applied' \in Seq(Changes) /\ all_changes' \in Seq(Changes) /\ DOMAIN applied \subseteq DOMAIN applied'
    BY <2>1, AppliedType
  <2> QED
    BY <1>11, <2>1, <2>2 DEF QueryRewrite
<1>12. CASE BeginSchema
  <2>1. stmt' \in Execution
    BY <1>12 DEF BeginSchema, NoStatement, Execution
  <2>2. PICK k \in todo : First(k) /\ recommendations[k].type = "schema"
    BY <1>12 DEF BeginSchema
  <2>3. \A j \in todo : First(j) => j = k
    BY <2>2 DEF First
  <2>4. UNCHANGED <<recommendations, todo>>
    BY <1>12 DEF BeginSchema
  <2>5. SchemaInHand'
    BY <2>2, <2>3, <2>4 DEF First
  <2> QED
    BY <1>12, <2>1, <2>5 DEF BeginSchema
<1>13. CASE SchemaStatement
  <2>1. PICK k \in todo : \E o \in {"ok", "refused", "lost"} :
           LET parts == recommendations[k].parts IN
           /\ First(k) /\ stmt.done < Len(parts)
           /\ Executes(parts[stmt.done + 1], o)
           /\ stmt' = [done |-> stmt.done + 1, failed |-> stmt.failed \/ o # "ok"]
    BY <1>13 DEF SchemaStatement
  <2>2. PICK o \in {"ok", "refused", "lost"} :
           LET parts == recommendations[k].parts IN
           /\ First(k) /\ stmt.done < Len(parts)
           /\ Executes(parts[stmt.done + 1], o)
           /\ stmt' = [done |-> stmt.done + 1, failed |-> stmt.failed \/ o # "ok"]
    BY <2>1
  <2>3. recommendations[k].type = "schema"
    BY <1>13, <2>2 DEF SchemaStatement, SchemaInHand
  <2>4. recommendations[k].parts \in Seq(SchemaParts) /\ stmt.done \in Nat /\ stmt.failed \in BOOLEAN
    BY <2>3, Parts DEF Execution
  <2>5. recommendations[k].parts[stmt.done + 1] \in SchemaParts
    BY <2>2, <2>4
  <2>6. indexes' \subseteq Indexes /\ faults' \in Nat /\ settings' \in [Params -> Values]
    BY <2>2, <2>5, ExecutesType
  <2>7. stmt' \in Execution
    <3>1. (stmt.failed \/ o # "ok") \in BOOLEAN
      OBVIOUS
    <3> QED
      BY <2>2, <2>4, <3>1 DEF Execution
  <2>8. SchemaInHand'
    BY <1>13 DEF SchemaStatement, SchemaInHand, First
  <2> QED
    BY <1>13, <2>6, <2>7, <2>8 DEF SchemaStatement
<1>14. CASE SchemaChange
  <2>1. PICK k \in todo : Applied(k, ~stmt.failed, FALSE) /\ todo' = todo \ {k}
    BY <1>14 DEF SchemaChange
  <2>2. applied' \in Seq(Changes) /\ all_changes' \in Seq(Changes) /\ DOMAIN applied \subseteq DOMAIN applied'
    <3>1. k \in DOMAIN recommendations /\ (~stmt.failed) \in BOOLEAN
      OBVIOUS
    <3> QED
      BY <2>1, <3>1, AppliedType
  <2>3. stmt' \in Execution
    BY <1>14 DEF SchemaChange, NoStatement, Execution
  <2> QED
    BY <1>14, <2>1, <2>2, <2>3 DEF SchemaChange
<1>15. CASE NoSuccess
  BY <1>15 DEF NoSuccess
<1>16. CASE ReplayAfter
  <2>1. PICK worse \in BOOLEAN :
          /\ TunerReplays(IF worse THEN "rollback" ELSE "iterate")
          /\ regressed' = Append(regressed, worse)
          /\ undo' = IF worse THEN to_undo ELSE {}
    BY <1>16 DEF ReplayAfter
  <2>2. rows' \in BOOLEAN /\ tuning' = (IF worse THEN "rollback" ELSE "iterate") /\ UNCHANGED <<settings, live, indexes>>
    BY <2>1, ReplaysType
  <2>3. undo' \subseteq DOMAIN applied /\ (tuning' # "rollback" => undo' = {})
    BY <2>1, <2>2 DEF to_undo, succeeded
  <2>4. regressed' \in Seq(BOOLEAN)
    BY <2>1, Longer
  <2> QED
    BY <1>16, <2>2, <2>3, <2>4 DEF ReplayAfter
<1>17. CASE ReplayAfterFails
  BY <1>0, <1>17 DEF ReplayAfterFails
<1>18. CASE Restore
  <2>1. PICK k \in undo : \E o \in {"ok", "refused", "lost"} :
        LET rec == applied[k].rec IN
        /\ NextUndo(k) /\ Outcome(o)
        /\ undo' = undo \ {k}
        /\ kept' = IF o = "ok" THEN kept ELSE kept \cup {k}
        /\ IF rec.type = "config"
           THEN /\ settings' = IF ExecutedSql(o) THEN [settings EXCEPT ![rec.name] = rec.current] ELSE settings
                /\ needs_reload' = (needs_reload \/ o = "ok")
                /\ UNCHANGED indexes
           ELSE /\ indexes' = IF ExecutedSql(o) THEN indexes \ {rec.name} ELSE indexes
                /\ UNCHANGED <<settings, needs_reload>>
    BY <1>18 DEF Restore
  <2>2. PICK o \in {"ok", "refused", "lost"} :
        LET rec == applied[k].rec IN
        /\ NextUndo(k) /\ Outcome(o)
        /\ undo' = undo \ {k}
        /\ kept' = IF o = "ok" THEN kept ELSE kept \cup {k}
        /\ IF rec.type = "config"
           THEN /\ settings' = IF ExecutedSql(o) THEN [settings EXCEPT ![rec.name] = rec.current] ELSE settings
                /\ needs_reload' = (needs_reload \/ o = "ok")
                /\ UNCHANGED indexes
           ELSE /\ indexes' = IF ExecutedSql(o) THEN indexes \ {rec.name} ELSE indexes
                /\ UNCHANGED <<settings, needs_reload>>
    BY <2>1
  <2>3. applied[k].rec \in Recommendations
    <3>1. applied \in Seq(Changes) /\ k \in DOMAIN applied
      OBVIOUS
    <3>2. applied[k] \in Changes
      BY <3>1
    <3> QED
      BY <3>2 DEF Changes
  <2>4. settings' \in [Params -> Values]
    BY <2>2, <2>3, Parts
  <2>5. indexes' \subseteq Indexes /\ faults' \in Nat
    BY <2>2, OutcomeType
  <2>6. needs_reload' \in BOOLEAN
    BY <2>2
  <2>7. undo' \subseteq DOMAIN applied /\ kept' \subseteq DOMAIN applied
    BY <2>2
  <2>8. tuning = "rollback" /\ UNCHANGED tuning
    BY <1>18 DEF Restore
  <2> QED
    BY <1>18, <2>4, <2>5, <2>6, <2>7, <2>8 DEF Restore
<1>19. CASE RestoreReload
  <2>1. live' \in [Params -> Values] /\ faults' \in Nat
    BY <1>19, ReloadedType, OutcomeType DEF RestoreReload
  <2>2. tuning' \in {"rollback", "report"} /\ todo' = {} /\ undo' = {}
    BY <1>19 DEF RestoreReload
  <2> QED
    BY <1>19, <2>1, <2>2 DEF RestoreReload
<1>20. CASE TunerEnds \/ UNCHANGED tunerVars
  <2>1. UNCHANGED tunerVars
    BY <1>20 DEF TunerEnds
  <2>2. UNCHANGED <<tuning, todo, recommendations>>
    BY <2>1 DEF tunerVars
  <2>3. SchemaInHand'
    BY <2>2 DEF First
  <2> HIDE DEF SchemaInHand
  <2> QED
    BY <2>1, <2>3 DEF tunerVars
<1> QED
  BY <1>1, <1>2, <1>3, <1>4, <1>5, <1>6, <1>7, <1>8, <1>9, <1>10, <1>11, <1>12, <1>13, <1>14, <1>15,
     <1>16, <1>17, <1>18, <1>19, <1>20 DEF TunerNext

\* The tuner's state stays what its types say, whatever the advisor returns and
\* whichever statements fail (tuner/mod.rs 29-355, apply.rs).
THEOREM TypeCorrect == TunerSpec => []TunerTypeOK
<1>1. TunerInit => TypeInv
  BY TypeInit
<1>2. TypeInv /\ [TunerNext]_tunerVars => TypeInv'
  BY TypeStep
<1>3. TypeInv => TunerTypeOK
  BY DEF TypeInv
<1> QED
  BY <1>1, <1>2, <1>3, PTL DEF TunerSpec

-----------------------------------------------------------------------------
(***************************************************************************)
(* What the run changes.  Accounted is not inductive: that a parameter of  *)
(* the list is safe and that the run may write at all is decided long      *)
(* before ALTER SYSTEM, and what a rollback writes was recorded long       *)
(* before.                                                                 *)
(***************************************************************************)
Differs(p) == settings[p] # request.settings[p] \/ live[p] # request.settings[p]
\* The parameter whose ALTER SYSTEM was executed and whose reload comes next.
Pending(p) == tuning = "reload" /\ \E k \in todo : First(k) /\ recommendations[k].type = "config" /\ recommendations[k].name = p

Permitted ==
    /\ tuning \notin {"check", "error"} => (request.production => request.force)
    /\ Applying \/ tuning = "rollback" => request.apply
Listed == \A k \in todo : recommendations[k].type = "config" => recommendations[k].name \in SafeParams
Recorded == \A k \in DOMAIN applied : applied[k].rec.type = "config" =>
                applied[k].rec.name \in SafeParams /\ Named(applied[k].rec.name)
ReloadOfConfig == tuning = "reload" => \E k \in todo : First(k) /\ recommendations[k].type = "config"
Explained == \A p \in Params : Differs(p) =>
                 May /\ (Unlisted(p) \/ (p \in SafeParams /\ (Named(p) \/ Pending(p))))
\* What explains a parameter goes on doing so.
NamedStays == \A p : (Named(p) => Named(p)') /\ (Unlisted(p) => Unlisted(p)')

AccountInv == Permitted /\ Listed /\ Recorded /\ ReloadOfConfig /\ Explained

LEMMA AccountInit == TunerInit => AccountInv
BY DEF TunerInit, AccountInv, Permitted, Listed, Recorded, ReloadOfConfig, Explained, Differs, Applying

\* A change of a parameter is named once it is recorded, and stays so.
LEMMA NamedApplied ==
    ASSUME TunerTypeOK, NEW k \in DOMAIN recommendations, NEW success \in BOOLEAN, NEW rollback_sql \in BOOLEAN,
           Applied(k, success, rollback_sql), Recorded,
           recommendations[k].type = "config" => recommendations[k].name \in SafeParams
    PROVE  /\ Recorded'
           /\ \A p : Named(p) => Named(p)'
           /\ recommendations[k].type = "config" => \A p : p = recommendations[k].name => Named(p)'
           /\ tuning # "schema" \/ First(k) => NamedStays
<1> DEFINE change == [rec |-> recommendations[k], success |-> success, rollback |-> rollback_sql]
<1>1. applied' = Append(applied, change) /\ all_changes' = Append(all_changes, change)
  BY DEF Applied
<1>2. applied \in Seq(Changes) /\ all_changes \in Seq(Changes)
  BY DEF TunerTypeOK
<1>3. change.rec = recommendations[k]
  OBVIOUS
<1> HIDE DEF change
<1>4. /\ DOMAIN applied' = DOMAIN applied \cup {Len(applied) + 1}
      /\ \A j \in DOMAIN applied : applied'[j] = applied[j]
      /\ applied'[Len(applied) + 1] = change
  BY <1>1, <1>2
<1>5. /\ DOMAIN all_changes' = DOMAIN all_changes \cup {Len(all_changes) + 1}
      /\ \A j \in DOMAIN all_changes : all_changes'[j] = all_changes[j]
      /\ all_changes'[Len(all_changes) + 1] = change
  BY <1>1, <1>2
<1>6. \A p : Named(p) => Named(p)'
  BY <1>5 DEF Named
<1>7. recommendations[k].type = "config" => \A p : p = recommendations[k].name => Named(p)'
  <2>1. Len(all_changes) + 1 \in DOMAIN all_changes'
    BY <1>5
  <2>2. all_changes'[Len(all_changes) + 1].rec = recommendations[k]
    BY <1>3, <1>5
  <2> QED
    BY <2>1, <2>2 DEF Named
<1>9. ASSUME tuning # "schema" \/ First(k) PROVE NamedStays
  <2> SUFFICES ASSUME NEW p, Unlisted(p) PROVE Unlisted(p)'
    BY <1>6 DEF NamedStays
  <2>1. CASE \E j \in DOMAIN all_changes : Sets(all_changes[j].rec, p)
    BY <1>5, <2>1 DEF Unlisted, Sets
  <2>2. CASE tuning = "schema" /\ \E j \in todo : First(j) /\ Sets(recommendations[j], p)
    <3>1. Sets(recommendations[k], p)
      <4>1. todo \subseteq Nat /\ k \in Nat
        BY DEF TunerTypeOK
      <4> QED
        BY <1>9, <2>2, <4>1 DEF First
    <3>2. Len(all_changes) + 1 \in DOMAIN all_changes' /\ all_changes'[Len(all_changes) + 1].rec = recommendations[k]
      BY <1>3, <1>5
    <3>3. Sets(all_changes'[Len(all_changes) + 1].rec, p)
      BY <3>1, <3>2
    <3>4. \E j \in DOMAIN all_changes' : Sets(all_changes'[j].rec, p)
      BY <3>2, <3>3
    <3> QED
      BY <3>4 DEF Unlisted, Sets
  <2> QED
    BY <2>1, <2>2 DEF Unlisted
<1>8. Recorded'
  <2> SUFFICES ASSUME NEW j \in DOMAIN applied', applied'[j].rec.type = "config"
               PROVE  applied'[j].rec.name \in SafeParams /\ \A p : p = applied'[j].rec.name => Named(p)'
    BY DEF Recorded
  <2>1. CASE j \in DOMAIN applied
    <3>1. applied[j].rec.type = "config" /\ applied'[j].rec.name = applied[j].rec.name
      BY <1>4, <2>1
    <3>2. applied[j].rec.name \in SafeParams /\ Named(applied[j].rec.name)
      BY <2>1, <3>1 DEF Recorded
    <3> QED
      BY <1>6, <3>1, <3>2
  <2>2. CASE j = Len(applied) + 1
    <3>1. applied'[j].rec = recommendations[k]
      BY <1>3, <1>4, <2>2
    <3> QED
      BY <1>7, <3>1
  <2> QED
    BY <1>4, <2>1, <2>2
<1> QED
  BY <1>6, <1>7, <1>8, <1>9

\* A step that touches neither the written nor the running settings.
LEMMA Untouched ==
    ASSUME AccountInv, UNCHANGED <<request, settings, live, recommendations>>,
           NamedStays, Recorded', Permitted', todo' \subseteq todo,
           tuning # "reload", tuning' # "reload"
    PROVE  AccountInv'
<1>1. Listed'
  BY DEF AccountInv, Listed
<1>2. Explained'
  BY DEF AccountInv, Explained, Differs, May, Pending, NamedStays
<1>3. ReloadOfConfig'
  BY DEF ReloadOfConfig
<1> QED
  BY <1>1, <1>2, <1>3 DEF AccountInv

\* A step that records nothing either.
LEMMA Silent ==
    ASSUME AccountInv, UNCHANGED <<request, settings, live, recommendations, applied, all_changes>>,
           Permitted', todo' \subseteq todo, tuning # "reload", tuning' # "reload",
           tuning = "schema" => tuning' = "schema" /\ UNCHANGED todo
    PROVE  AccountInv'
<1>1. NamedStays
  BY DEF NamedStays, Named, Unlisted, First, Sets
<1>2. Recorded'
  BY DEF Named, Recorded, AccountInv
<1> QED
  BY <1>1, <1>2, Untouched

LEMMA AccountStep == TypeInv /\ AccountInv /\ [TunerNext]_tunerVars => AccountInv'
<1> SUFFICES ASSUME TypeInv, AccountInv, [TunerNext]_tunerVars PROVE AccountInv'
  OBVIOUS
<1>T. TunerTypeOK
  BY DEF TypeInv
<1>P. Permitted /\ Listed /\ Recorded /\ ReloadOfConfig /\ Explained
  BY DEF AccountInv
<1> USE DEF advice, changes, rollback, target
<1>0. ASSUME Abandon, tuning \notin {"reload", "schema"} PROVE AccountInv'
  <2>1. Permitted'
    BY <1>0 DEF Abandon, Permitted, Applying
  <2> QED
    BY <1>0, <2>1, Silent DEF Abandon
<1>1. CASE CheckHostname
  <2>1. CASE Abandon
    BY <1>0, <1>1, <2>1 DEF CheckHostname
  <2>2. CASE ~Abandon
    <3>1. /\ tuning = "check" /\ tuning' = "warmup" /\ (request.production => request.force)
          /\ UNCHANGED <<request, iteration, advice, todo, stmt, changes, rollback, regressed, target, faults>>
      BY <1>1, <2>2, Zenon DEF CheckHostname
    <3>2. Permitted'
      BY <3>1 DEF Permitted, Applying
    <3> QED
      BY <3>1, <3>2, Silent
  <2> QED
    BY <2>1, <2>2
<1>2. CASE Baseline
  <2>1. tuning \in {"warmup", "measure"} /\ tuning' \in {"measure", "iterate"} /\ UNCHANGED <<settings, live>>
    BY <1>2 DEF Baseline, TunerReplays
  <2>2. UNCHANGED <<request, iteration, advice, todo, stmt, changes, rollback, regressed, faults>>
    BY <1>2 DEF Baseline
  <2>3. Permitted'
    BY <1>P, <2>1, <2>2 DEF Permitted, Applying
  <2> QED
    BY <2>1, <2>2, <2>3, Silent
<1>3. CASE BaselineFails
  BY <1>0, <1>3 DEF BaselineFails
<1>4. CASE CollectContext
  <2>1. /\ recommendations' = << >> /\ applied' = << >> /\ todo' = todo /\ todo = {}
        /\ tuning = "iterate" /\ tuning' = "recommend" /\ UNCHANGED <<request, all_changes, settings, live>>
    BY <1>4 DEF CollectContext, TypeInv, Applying
  <2>2. Permitted' /\ Listed' /\ Recorded' /\ ReloadOfConfig'
    BY <1>P, <2>1 DEF Permitted, Listed, Recorded, ReloadOfConfig, Applying
  <2>3. Explained'
    BY <1>P, <2>1 DEF Explained, Differs, May, Named, Pending, Unlisted
  <2> QED
    BY <2>2, <2>3 DEF AccountInv
<1>5. CASE CollectFails
  BY <1>0, <1>5 DEF CollectFails
<1>6. CASE MaxIterations
  <2>1. Permitted'
    BY <1>P, <1>6 DEF MaxIterations, Permitted, Applying
  <2> QED
    BY <1>6, <2>1, Silent DEF MaxIterations
<1>7. CASE Recommend
  <2>1. /\ tuning = "recommend" /\ tuning' \in {"report", "apply"} /\ UNCHANGED <<request, changes, settings, live>>
        /\ tuning' = "report" => todo' = todo
        /\ tuning' = "apply" => todo' = safe /\ request.apply
    BY <1>7 DEF Recommend
  <2>2. todo = {}
    BY <2>1 DEF TypeInv, Applying
  <2>3. Listed'
    BY <2>1, <2>2 DEF Listed, safe, Safe
  <2>4. Permitted' /\ Recorded' /\ ReloadOfConfig'
    BY <1>P, <2>1 DEF Permitted, Recorded, ReloadOfConfig, Applying, Named
  <2>5. Explained'
    BY <1>P, <2>1 DEF Explained, Differs, May, Named, Pending, Unlisted
  <2> QED
    BY <2>3, <2>4, <2>5 DEF AccountInv
<1>8. CASE AlterSystem
  <2>1. PICK k \in todo : \E o \in {"ok", "refused", "lost"} :
           LET rec == recommendations[k] IN
           /\ First(k) /\ rec.type = "config" /\ Outcome(o)
           /\ settings' = IF ExecutedSql(o) THEN [settings EXCEPT ![rec.name] = rec.recommended] ELSE settings
           /\ IF o = "ok"
              THEN tuning' = "reload" /\ UNCHANGED <<todo, changes>>
              ELSE todo' = todo \ {k} /\ Applied(k, FALSE, FALSE) /\ UNCHANGED tuning
    BY <1>8 DEF AlterSystem
  <2>2. PICK o \in {"ok", "refused", "lost"} :
           LET rec == recommendations[k] IN
           /\ First(k) /\ rec.type = "config" /\ Outcome(o)
           /\ settings' = IF ExecutedSql(o) THEN [settings EXCEPT ![rec.name] = rec.recommended] ELSE settings
           /\ IF o = "ok"
              THEN tuning' = "reload" /\ UNCHANGED <<todo, changes>>
              ELSE todo' = todo \ {k} /\ Applied(k, FALSE, FALSE) /\ UNCHANGED tuning
    BY <2>1
  <2>3. tuning = "apply" /\ UNCHANGED <<request, recommendations, live>>
    BY <1>8 DEF AlterSystem
  <2>4. k \in DOMAIN recommendations /\ settings \in [Params -> Values]
    BY <1>T DEF TunerTypeOK
  <2>5. recommendations[k].name \in SafeParams /\ May
    BY <1>P, <2>2, <2>3 DEF Listed, Permitted, Applying, May
  <2>6. \A p \in Params : settings'[p] # settings[p] => p = recommendations[k].name
    BY <2>2, <2>4
  <2>7. CASE o = "ok"
    <3>1. tuning' = "reload" /\ UNCHANGED <<todo, changes>>
      BY <2>2, <2>7
    <3>2. Permitted' /\ Listed' /\ Recorded'
      BY <1>P, <2>3, <3>1 DEF Permitted, Listed, Recorded, Applying, Named
    <3>3. First(k)' /\ Pending(recommendations[k].name)' /\ ReloadOfConfig'
      BY <2>2, <2>3, <3>1 DEF First, Pending, ReloadOfConfig
    <3>4. Explained'
      BY <1>P, <2>3, <2>5, <2>6, <3>1, <3>3 DEF Explained, Differs, May, Named, Pending, Unlisted
    <3> QED
      BY <3>2, <3>3, <3>4 DEF AccountInv
  <2>8. CASE o # "ok"
    <3>1. todo' = todo \ {k} /\ Applied(k, FALSE, FALSE) /\ UNCHANGED tuning
      BY <2>2, <2>8
    <3>2. /\ Recorded' /\ NamedStays
          /\ \A p : p = recommendations[k].name => Named(p)'
      BY <1>P, <1>T, <2>2, <2>3, <2>4, <2>5, <3>1, NamedApplied
    <3>3. Permitted' /\ Listed' /\ ReloadOfConfig'
      BY <1>P, <2>3, <3>1 DEF Permitted, Listed, ReloadOfConfig, Applying
    <3>4. Explained'
      BY <1>P, <2>3, <2>5, <2>6, <3>1, <3>2 DEF Explained, Differs, May, Pending, NamedStays
    <3> QED
      BY <3>2, <3>3, <3>4 DEF AccountInv
  <2> QED
    BY <2>7, <2>8
<1>9. CASE ReloadConf
  <2>1. PICK k \in todo : \E o \in {"ok", "refused", "lost"} :
           /\ First(k) /\ Outcome(o)
           /\ live' = IF ExecutedSql(o) THEN Reloaded ELSE live
           /\ Applied(k, o = "ok", TRUE)
           /\ todo' = todo \ {k}
    BY <1>9 DEF ReloadConf
  <2>2. PICK o \in {"ok", "refused", "lost"} :
           /\ First(k) /\ Outcome(o)
           /\ live' = IF ExecutedSql(o) THEN Reloaded ELSE live
           /\ Applied(k, o = "ok", TRUE)
           /\ todo' = todo \ {k}
    BY <2>1
  <2>3. tuning = "reload" /\ tuning' = "apply" /\ UNCHANGED <<request, recommendations, settings>>
    BY <1>9 DEF ReloadConf
  <2>4. k \in DOMAIN recommendations /\ (o = "ok") \in BOOLEAN /\ TRUE \in BOOLEAN
    BY <1>T DEF TunerTypeOK
  <2>5. recommendations[k].type = "config" => recommendations[k].name \in SafeParams
    BY <1>P DEF Listed
  <2>6. /\ Recorded' /\ NamedStays
        /\ recommendations[k].type = "config" => \A p : p = recommendations[k].name => Named(p)'
    BY <1>P, <1>T, <2>2, <2>4, <2>5, NamedApplied
  <2>7. \A p : Pending(p) => Named(p)'
    <3>1. todo \subseteq Nat
      BY <1>T DEF TunerTypeOK
    <3>2. \A j \in todo : First(j) => j = k
      BY <2>2, <3>1 DEF First
    <3> TAKE p
    <3> HAVE Pending(p)
    <3>3. PICK j \in todo : First(j) /\ recommendations[j].type = "config" /\ recommendations[j].name = p
      BY DEF Pending
    <3>4. j = k
      BY <3>2, <3>3
    <3> QED
      BY <2>6, <3>3, <3>4
  <2>8. \A p \in Params : Differs(p)' => Differs(p)
    BY <2>2, <2>3 DEF Differs, Reloaded
  <2>9. Permitted' /\ Listed' /\ ReloadOfConfig'
    BY <1>P, <2>2, <2>3 DEF Permitted, Listed, ReloadOfConfig, Applying
  <2>10. Explained'
    BY <1>P, <2>3, <2>6, <2>7, <2>8 DEF Explained, May, NamedStays
  <2> QED
    BY <2>6, <2>9, <2>10 DEF AccountInv
<1>10. ASSUME NEW k \in todo, First(k), NEW success \in BOOLEAN, NEW rollback_sql \in BOOLEAN, Applied(k, success, rollback_sql),
              todo' = todo \ {k}, tuning \in {"apply", "schema"}, tuning' = "apply",
              UNCHANGED <<request, settings, live, recommendations>>
       PROVE  AccountInv'
  <2>1. k \in DOMAIN recommendations /\ (recommendations[k].type = "config" => recommendations[k].name \in SafeParams)
    BY <1>P, <1>T DEF TunerTypeOK, Listed
  <2>2. Recorded' /\ NamedStays
    BY <1>P, <1>T, <1>10, <2>1, NamedApplied
  <2>3. Permitted'
    BY <1>P, <1>10 DEF Permitted, Applying
  <2> QED
    BY <1>10, <2>2, <2>3, Untouched
<1>11. CASE CreateIndex
  <2>1. PICK k \in todo : \E o \in {"ok", "refused", "lost"} :
           First(k) /\ Applied(k, o = "ok", o = "ok" /\ recommendations[k].named) /\ todo' = todo \ {k}
    BY <1>11 DEF CreateIndex
  <2>2. PICK o \in {"ok", "refused", "lost"} :
           First(k) /\ Applied(k, o = "ok", o = "ok" /\ recommendations[k].named) /\ todo' = todo \ {k}
    BY <2>1
  <2>3. (o = "ok") \in BOOLEAN /\ (o = "ok" /\ recommendations[k].named) \in BOOLEAN
    OBVIOUS
  <2>4. tuning = "apply" /\ tuning' = "apply" /\ UNCHANGED <<request, settings, live, recommendations>>
    BY <1>11 DEF CreateIndex
  <2> QED
    BY <1>10, <2>2, <2>3, <2>4
<1>12. CASE QueryRewrite
  <2>1. PICK k \in todo : First(k) /\ Applied(k, TRUE, FALSE) /\ todo' = todo \ {k}
    BY <1>12 DEF QueryRewrite
  <2>2. tuning = "apply" /\ tuning' = "apply" /\ UNCHANGED <<request, settings, live, recommendations>>
    BY <1>12 DEF QueryRewrite
  <2> QED
    BY <1>10, <2>1, <2>2
<1>13. CASE BeginSchema
  <2>1. /\ tuning = "apply" /\ tuning' = "schema"
        /\ UNCHANGED <<request, settings, live, recommendations, applied, all_changes, todo>>
    BY <1>13 DEF BeginSchema
  <2>2. Permitted'
    BY <1>P, <2>1 DEF Permitted, Applying
  <2> QED
    BY <2>1, <2>2, Silent
<1>21. CASE SchemaStatement
  <2>1. PICK k \in todo : \E o \in {"ok", "refused", "lost"} :
           /\ First(k) /\ stmt.done < Len(recommendations[k].parts)
           /\ Executes(recommendations[k].parts[stmt.done + 1], o)
    BY <1>21 DEF SchemaStatement
  <2>2. PICK o \in {"ok", "refused", "lost"} :
           /\ First(k) /\ stmt.done < Len(recommendations[k].parts)
           /\ Executes(recommendations[k].parts[stmt.done + 1], o)
    BY <2>1
  <2>3. /\ tuning = "schema" /\ tuning' = "schema"
        /\ UNCHANGED <<request, live, recommendations, applied, all_changes, todo>>
    BY <1>21 DEF SchemaStatement
  <2>4. recommendations[k].type = "schema"
    BY <2>2, <2>3 DEF TypeInv, SchemaInHand
  <2>5. k \in DOMAIN recommendations /\ recommendations[k] \in Recommendations /\ stmt.done \in Nat
    BY <1>T DEF TunerTypeOK, Execution
  <2>6. recommendations[k].parts \in Seq(SchemaParts)
    BY <2>4, <2>5, Parts
  <2>7. stmt.done + 1 \in DOMAIN recommendations[k].parts /\ recommendations[k].parts[stmt.done + 1] \in SchemaParts
    BY <2>2, <2>5, <2>6
  <2>8. \A p \in Params : settings'[p] # settings[p] => Sets(recommendations[k], p)
    BY <1>T, <2>2, <2>4, <2>7, ExecutesType DEF Sets
  <2>9. NamedStays /\ \A p : Sets(recommendations[k], p) => Unlisted(p)'
    BY <2>2, <2>3 DEF NamedStays, Named, Unlisted, First, Sets
  <2>10. Permitted' /\ Listed' /\ Recorded' /\ ReloadOfConfig'
    BY <1>P, <2>3 DEF Permitted, Listed, Recorded, ReloadOfConfig, Applying, Named
  <2>11. May /\ May'
    BY <1>P, <2>3 DEF Permitted, Applying, May
  <2>12. Explained'
    BY <1>P, <2>3, <2>8, <2>9, <2>11 DEF Explained, Differs, NamedStays, Pending
  <2> QED
    BY <2>10, <2>12 DEF AccountInv
<1>14. CASE SchemaChange
  <2>1. PICK k \in todo : First(k) /\ Applied(k, ~stmt.failed, FALSE) /\ todo' = todo \ {k}
    BY <1>14 DEF SchemaChange
  <2>2. (~stmt.failed) \in BOOLEAN
    OBVIOUS
  <2>3. tuning = "schema" /\ tuning' = "apply" /\ UNCHANGED <<request, settings, live, recommendations>>
    BY <1>14 DEF SchemaChange
  <2> QED
    BY <1>10, <2>1, <2>2, <2>3
<1>15. CASE NoSuccess
  <2>1. Permitted'
    BY <1>P, <1>15 DEF NoSuccess, Permitted, Applying
  <2> QED
    BY <1>15, <2>1, Silent DEF NoSuccess
<1>16. CASE ReplayAfter
  <2>1. /\ tuning = "apply" /\ tuning' \in {"rollback", "iterate"}
        /\ UNCHANGED <<request, settings, live, recommendations, applied, all_changes, todo>>
    BY <1>16 DEF ReplayAfter, TunerReplays
  <2>2. Permitted'
    BY <1>P, <2>1 DEF Permitted, Applying
  <2> QED
    BY <2>1, <2>2, Silent
<1>17. CASE ReplayAfterFails
  BY <1>0, <1>17 DEF ReplayAfterFails
<1>18. CASE Restore
  <2>1. PICK k \in undo : \E o \in {"ok", "refused", "lost"} :
        LET rec == applied[k].rec IN
        /\ IF rec.type = "config"
           THEN settings' = IF ExecutedSql(o) THEN [settings EXCEPT ![rec.name] = rec.current] ELSE settings
           ELSE UNCHANGED <<settings, needs_reload>>
    BY <1>18 DEF Restore
  <2>2. /\ tuning = "rollback" /\ tuning' = "rollback"
        /\ UNCHANGED <<request, live, recommendations, applied, all_changes, todo>>
    BY <1>18 DEF Restore
  <2>3. k \in DOMAIN applied /\ settings \in [Params -> Values]
    BY <1>T DEF TunerTypeOK
  <2>4. \A p \in Params : settings'[p] # settings[p] => applied[k].rec.type = "config" /\ p = applied[k].rec.name
    BY <2>1, <2>3
  <2>5. applied[k].rec.type = "config" => May /\ applied[k].rec.name \in SafeParams /\ Named(applied[k].rec.name)
    BY <1>P, <2>2, <2>3 DEF Recorded, Permitted, May
  <2>6. Explained'
    BY <1>P, <2>2, <2>4, <2>5 DEF Explained, Differs, May, Named, Pending, Unlisted
  <2>7. Permitted' /\ Listed' /\ Recorded' /\ ReloadOfConfig'
    BY <1>P, <2>2 DEF Permitted, Listed, Recorded, ReloadOfConfig, Applying, Named
  <2> QED
    BY <2>6, <2>7 DEF AccountInv
<1>19. CASE RestoreReload
  <2>1. /\ tuning = "rollback" /\ tuning' \in {"rollback", "report"}
        /\ UNCHANGED <<request, settings, recommendations, applied, all_changes, todo>>
    BY <1>19 DEF RestoreReload
  <2>2. live' = live \/ live' = Reloaded
    BY <1>19 DEF RestoreReload
  <2>3. \A p \in Params : Differs(p)' => Differs(p)
    BY <2>1, <2>2 DEF Differs, Reloaded
  <2>4. Explained'
    BY <1>P, <2>1, <2>3 DEF Explained, May, Named, Pending, Unlisted
  <2>5. Permitted' /\ Listed' /\ Recorded' /\ ReloadOfConfig'
    BY <1>P, <2>1 DEF Permitted, Listed, Recorded, ReloadOfConfig, Applying, Named
  <2> QED
    BY <2>4, <2>5 DEF AccountInv
<1>20. CASE TunerEnds \/ UNCHANGED tunerVars
  <2>1. UNCHANGED tunerVars
    BY <1>20 DEF TunerEnds
  <2> QED
    BY <1>P, <2>1 DEF tunerVars, AccountInv, Permitted, Listed, Recorded, ReloadOfConfig, Explained, Applying, Named,
                      Differs, May, Pending, First, Unlisted, Sets
<1> QED
  BY <1>1, <1>2, <1>3, <1>4, <1>5, <1>6, <1>7, <1>8, <1>9, <1>11, <1>12, <1>13, <1>14, <1>15,
     <1>16, <1>17, <1>18, <1>19, <1>20, <1>21 DEF TunerNext

\* Whatever the advisor recommends and whichever statements fail with their
\* effect done or not, a setting of the target that is not as the run found it
\* was permitted, and is on the allowlist and among the recorded changes, or is
\* set by a statement behind the first of a schema change's text, which nothing
\* checks (tuner/mod.rs 29-355, apply.rs 13-183, safety.rs 93-176).
THEOREM AccountedCorrect == TunerSpec => []Accounted
<1>1. TunerInit => TypeInv /\ AccountInv
  BY TypeInit, AccountInit
<1>2. TypeInv /\ AccountInv /\ [TunerNext]_tunerVars => (TypeInv /\ AccountInv)'
  BY TypeStep, AccountStep
<1>3. AccountInv => Accounted
  BY DEF AccountInv, Explained, Differs, Pending, Altering, Accounted
<1> QED
  BY <1>1, <1>2, <1>3, PTL DEF TunerSpec

-----------------------------------------------------------------------------
(***************************************************************************)
(* After a regression.  rollback_all knows only the list of changes: that  *)
(* the last parameter it writes back is the value the run found needs the  *)
(* list to hold, for each parameter, its first recommendation first.       *)
(***************************************************************************)
ConfigOn(p) == {k \in DOMAIN applied : applied[k].rec.type = "config" /\ applied[k].rec.name = p}
Undoing == tuning = "rollback" \/ (tuning = "report" /\ GotSlower)
IsLeast(k, S) == k \in S /\ \A j \in S : k <= j

\* Nothing is applied before the advice is there.
FreshInv == tuning = "recommend" => applied = << >> /\ settings = before /\ indexes = had
\* A recommendation that is not waiting any more has left a change.
Covered ==
    \A i \in DOMAIN recommendations \ todo :
        recommendations[i].type = "config" /\ recommendations[i].name \in SafeParams =>
            ConfigOn(recommendations[i].name) # {}
\* A schema change, recorded or in hand, sets the parameter.
BySchema(p) == SetBySchema(p) \/ (tuning = "schema" /\ \E k \in todo : First(k) /\ Sets(recommendations[k], p))
\* A parameter without a change is as it was.
AsBefore == \A p \in Params : ConfigOn(p) = {} /\ ~Pending(p) /\ ~BySchema(p) => settings[p] = before[p]
\* An index that a recorded change named, and one that the schema change in hand may create or drop.
MadeOf(n) == \E k \in DOMAIN applied : applied[k].rec.type = "index" /\ applied[k].rec.name = n
IndexInHand(n) ==
    /\ tuning = "schema"
    /\ \E k \in todo : First(k) /\ \E i \in DOMAIN recommendations[k].parts : Touches(recommendations[k].parts[i], n)
\* An index that a change created was not there, any other is there if it was.
IndexesKept ==
    \A n \in Indexes : \/ IndexExcused(n) \/ IndexInHand(n)
                      \/ IF MadeOf(n) THEN n \notin had ELSE n \in indexes <=> n \in had
\* The first change of a parameter names the value that the advisor was shown.
FirstHonest ==
    Honest => \A p \in Params : \A k \in DOMAIN applied :
                  IsLeast(k, ConfigOn(p)) => applied[k].rec.current = context[p]
\* What has a rollback statement once it succeeded.
HasRollback(rec) == rec.type = "config" \/ (rec.type = "index" /\ rec.named)
Revertible == \A k \in succeeded : applied[k].rollback <=> HasRollback(applied[k].rec)
\* What is taken back comes after what is not yet.
LastFirst == \A k \in to_undo \ undo, j \in undo : j < k
\* A parameter has the value before the first change of it that was taken back.
Restored ==
    \A p \in Params :
        /\ ConfigOn(p) = {} /\ ~SetBySchema(p) => settings[p] = before[p]
        /\ ~FailedOn(p) /\ ~SetBySchema(p) => \A k \in DOMAIN applied :
                               IsLeast(k, ConfigOn(p) \ undo) => settings[p] = applied[k].rec.current
Dropped ==
    \A k \in to_undo \ (undo \cup kept) :
        applied[k].rec.type = "index" => applied[k].rec.name \notin indexes

SlowInv == GotSlower => Undoing
ListInv == Applying \/ Undoing => FirstHonest /\ Revertible /\ IndexesKept
ApplyInv == Applying => Covered /\ AsBefore
UndoInv == Undoing => undo \subseteq to_undo /\ LastFirst /\ Restored /\ Dropped
RegressInv == SlowInv /\ FreshInv /\ ListInv /\ ApplyInv /\ UndoInv

\* A set of numbers that is not empty has a least one.
LEMMA LeastNumber ==
    ASSUME NEW T \in SUBSET Nat, T # {}
    PROVE  \E m \in T : IsLeast(m, T)
<1>1. PICK m \in T : \A k \in T : <<k, m>> \notin OpToRel(<, Nat)
  BY WFMin, NatLessThanWellFounded, Zenon
<1>2. \A k \in T : ~(k < m)
  BY <1>1, Zenon DEF OpToRel
<1> QED
  BY <1>2 DEF IsLeast

LEMMA RegressInit == TunerInit => RegressInv
BY DEF TunerInit, RegressInv, SlowInv, FreshInv, ListInv, ApplyInv, UndoInv, GotSlower, Applying, Undoing

\* Where a change is recorded: at a new place, the others stay.
LEMMA AppliedAt ==
    ASSUME TunerTypeOK, NEW k \in DOMAIN recommendations, NEW success \in BOOLEAN, NEW rollback_sql \in BOOLEAN,
           Applied(k, success, rollback_sql)
    PROVE  \E n \in Nat :
              /\ DOMAIN applied' = DOMAIN applied \cup {n}
              /\ \A j \in DOMAIN applied : j \in Nat /\ j < n /\ applied'[j] = applied[j]
              /\ applied'[n].rec = recommendations[k]
              /\ applied'[n].success = success /\ applied'[n].rollback = rollback_sql
<1> DEFINE change == [rec |-> recommendations[k], success |-> success, rollback |-> rollback_sql]
<1>1. change.rec = recommendations[k] /\ change.success = success /\ change.rollback = rollback_sql
  OBVIOUS
<1>2. applied' = Append(applied, change)
  BY DEF Applied
<1>3. applied \in Seq(Changes)
  BY DEF TunerTypeOK
<1> HIDE DEF change
<1>4. /\ DOMAIN applied' = DOMAIN applied \cup {Len(applied) + 1}
      /\ \A j \in DOMAIN applied : j \in Nat /\ j < Len(applied) + 1 /\ applied'[j] = applied[j]
      /\ applied'[Len(applied) + 1] = change
  BY <1>2, <1>3
<1>5. Len(applied) + 1 \in Nat
  BY <1>3
<1> QED
  BY <1>1, <1>4, <1>5

\* The recommendation whose turn it is becomes a change: what is first of a parameter stays first,
\* and the one that begins a parameter's list was honest about the value shown.
LEMMA Recording ==
    ASSUME TypeInv, AccountInv, ListInv, ApplyInv, Applying,
           NEW k \in todo, First(k), NEW success \in BOOLEAN, NEW rollback_sql \in BOOLEAN,
           Applied(k, success, rollback_sql), todo' = todo \ {k}, UNCHANGED <<recommendations, context>>,
           success => (rollback_sql <=> HasRollback(recommendations[k]))
    PROVE  /\ Covered' /\ FirstHonest' /\ Revertible'
           /\ \A p \in Params : ConfigOn(p)' = {} =>
                  ConfigOn(p) = {} /\ ~(recommendations[k].type = "config" /\ recommendations[k].name = p)
           /\ \A p : ~SetBySchema(p)' => ~SetBySchema(p) /\ ~Sets(recommendations[k], p)
<1>T. /\ k \in DOMAIN recommendations /\ recommendations \in Seq(Recommendations)
      /\ todo \subseteq DOMAIN recommendations /\ TunerTypeOK
  BY DEF TypeInv, TunerTypeOK
<1>L. Covered /\ FirstHonest /\ Revertible /\ Listed
  BY DEF ApplyInv, ListInv, AccountInv
<1>1. PICK n \in Nat :
         /\ DOMAIN applied' = DOMAIN applied \cup {n}
         /\ \A j \in DOMAIN applied : j \in Nat /\ j < n /\ applied'[j] = applied[j]
         /\ applied'[n].rec = recommendations[k]
         /\ applied'[n].success = success /\ applied'[n].rollback = rollback_sql
  <2>1. k \in DOMAIN recommendations /\ success \in BOOLEAN /\ rollback_sql \in BOOLEAN /\ TunerTypeOK
    BY <1>T
  <2>2. Applied(k, success, rollback_sql)
    OBVIOUS
  <2> QED
    BY ONLY <2>1, <2>2, AppliedAt
<1> DEFINE changed == IF recommendations[k].type = "config" THEN {recommendations[k].name} ELSE {}
<1>2. \A p : ConfigOn(p)' = ConfigOn(p) \cup (IF p \in changed THEN {n} ELSE {})
  BY <1>1 DEF ConfigOn
<1>3. Covered'
  <2> SUFFICES ASSUME NEW i \in DOMAIN recommendations \ todo', recommendations[i].type = "config",
                      recommendations[i].name \in SafeParams
               PROVE  ConfigOn(recommendations[i].name)' # {}
    BY DEF Covered
  <2>1. CASE i = k
    <3>1. recommendations[i].name \in changed
      BY <2>1
    <3>2. \A p : p \in changed => ConfigOn(p)' # {}
      BY <1>2
    <3> QED
      BY <3>1, <3>2
  <2>2. CASE i # k
    <3>1. ConfigOn(recommendations[i].name) # {}
      BY <1>L, <2>2 DEF Covered
    <3>2. \A p : ConfigOn(p) # {} => ConfigOn(p)' # {}
      BY <1>2
    <3> QED
      BY <3>1, <3>2
  <2> QED
    BY <2>1, <2>2
<1>4. FirstHonest'
  <2> SUFFICES ASSUME Honest', NEW p \in Params, NEW m \in DOMAIN applied', IsLeast(m, ConfigOn(p))'
               PROVE  applied'[m].rec.current = context[p]
    BY DEF FirstHonest
  <2>1. Honest
    BY DEF Honest
  <2>2. CASE m \in DOMAIN applied
    <3>1. m \in ConfigOn(p)' /\ \A j \in ConfigOn(p)' : m <= j
      BY DEF IsLeast
    <3>2. m \in ConfigOn(p)
      BY <1>1, <2>2, <3>1 DEF ConfigOn
    <3>3. IsLeast(m, ConfigOn(p))
      BY <1>2, <3>1, <3>2 DEF IsLeast
    <3>4. applied[m].rec.current = context[p]
      BY <1>L, <2>1, <2>2, <3>3 DEF FirstHonest
    <3> QED
      BY <1>1, <2>2, <3>4
  <2>3. CASE m = n
    <3>1. m \in ConfigOn(p)' /\ \A j \in ConfigOn(p)' : m <= j
      BY DEF IsLeast
    <3>2. recommendations[k].type = "config" /\ recommendations[k].name = p
      BY <1>1, <2>3, <3>1 DEF ConfigOn
    <3>3. ConfigOn(p) = {}
      <4>1. \A j \in ConfigOn(p) : j < n /\ j \in Nat /\ n <= j
        BY <1>1, <1>2, <2>3, <3>1 DEF ConfigOn
      <4> QED
        BY <4>1
    <3>4. recommendations[k].current = context[p]
      <4> SUFFICES ASSUME recommendations[k].current # context[p] PROVE FALSE
        OBVIOUS
      <4>1. PICK i \in DOMAIN recommendations :
               /\ i < k /\ recommendations[i].type = "config"
               /\ recommendations[i].name = recommendations[k].name
        BY <1>T, <2>1, <3>2 DEF Honest
      <4>2. i \notin todo
        <5>1. k \in Nat /\ i \in Nat
          BY <1>T
        <5>2. i \in todo => k <= i
          BY DEF First
        <5> QED
          BY <4>1, <5>1, <5>2
      <4>3. recommendations[k].name \in SafeParams
        BY <1>L, <3>2 DEF Listed
      <4>4. ConfigOn(recommendations[i].name) # {}
        BY <1>L, <4>1, <4>2, <4>3 DEF Covered
      <4> QED
        BY <3>2, <3>3, <4>1, <4>4
    <3> QED
      BY <1>1, <2>3, <3>4
  <2> QED
    BY <1>1, <2>2, <2>3
<1>5. Revertible'
  <2> SUFFICES ASSUME NEW m \in DOMAIN applied', applied'[m].success
               PROVE  applied'[m].rollback <=> HasRollback(applied'[m].rec)
    BY DEF Revertible, succeeded
  <2>1. CASE m \in DOMAIN applied
    BY <1>1, <1>L, <2>1 DEF Revertible, succeeded
  <2>2. CASE m = n
    <3>1. success
      BY <1>1, <2>2
    <3>2. rollback_sql <=> HasRollback(recommendations[k])
      BY <3>1
    <3> QED
      BY <1>1, <2>2, <3>2
  <2> QED
    BY <1>1, <2>1, <2>2
<1>6. \A p : ConfigOn(p)' = {} => ConfigOn(p) = {} /\ p \notin changed
  BY <1>2
<1>7. \A p : ~SetBySchema(p)' => ~SetBySchema(p) /\ ~Sets(recommendations[k], p)
  BY <1>1 DEF SetBySchema, Sets
<1> QED
  BY <1>3, <1>4, <1>5, <1>6, <1>7

\* The last verdict decides whether the workload got slower.
LEMMA Verdict ==
    ASSUME TunerTypeOK, NEW worse \in BOOLEAN, regressed' = Append(regressed, worse)
    PROVE  GotSlower' = worse
<1>1. regressed \in Seq(BOOLEAN)
  BY DEF TunerTypeOK
<1>2. regressed' # << >> /\ regressed'[Len(regressed')] = worse
  BY <1>1
<1> QED
  BY <1>2, Zenon DEF GotSlower

\* Nothing is applied and nothing is taken back.
LEMMA Settled ==
    ASSUME ~GotSlower', tuning' \notin {"recommend", "apply", "reload", "schema", "rollback"}
    PROVE  RegressInv'
BY DEF RegressInv, SlowInv, FreshInv, ListInv, ApplyInv, UndoInv, Applying, Undoing

LEMMA StillApplying ==
    ASSUME RegressInv, Applying, Applying', UNCHANGED regressed,
           Covered', FirstHonest', Revertible', IndexesKept', AsBefore'
    PROVE  RegressInv'
<1>1. ~GotSlower
  BY DEF RegressInv, SlowInv, Applying, Undoing
<1>2. ~GotSlower'
  BY <1>1 DEF GotSlower
<1> QED
  BY <1>2 DEF RegressInv, SlowInv, FreshInv, ListInv, ApplyInv, UndoInv, Applying, Undoing

\* One change more, and its parameter, if it has one, is not said to be as before any more.
LEMMA StepRecording ==
    ASSUME TypeInv, AccountInv, RegressInv, Applying,
           NEW k \in todo, First(k), NEW success \in BOOLEAN, NEW rollback_sql \in BOOLEAN,
           Applied(k, success, rollback_sql), todo' = todo \ {k}, tuning' = "apply",
           UNCHANGED <<recommendations, context, before, regressed>>,
           success => (rollback_sql <=> HasRollback(recommendations[k])), IndexesKept',
           \A p \in Params : settings'[p] # settings[p] \/ Pending(p) =>
               recommendations[k].type = "config" /\ recommendations[k].name = p
    PROVE  RegressInv'
<1>1. ListInv /\ ApplyInv
  BY DEF RegressInv
<1>2. /\ Covered' /\ FirstHonest' /\ Revertible'
      /\ \A p \in Params : ConfigOn(p)' = {} =>
             ConfigOn(p) = {} /\ ~(recommendations[k].type = "config" /\ recommendations[k].name = p)
      /\ \A p : ~SetBySchema(p)' => ~SetBySchema(p) /\ ~Sets(recommendations[k], p)
  BY <1>1, Recording
<1>3. \A p : BySchema(p) => SetBySchema(p) \/ Sets(recommendations[k], p)
  <2>1. todo \subseteq Nat
    BY DEF TypeInv, TunerTypeOK
  <2>2. \A j \in todo : First(j) => j = k
    BY <2>1 DEF First
  <2> QED
    BY <2>2 DEF BySchema
<1>4. \A p : ~BySchema(p)' => ~SetBySchema(p)'
  BY DEF BySchema
<1>5. AsBefore'
  BY <1>1, <1>2, <1>3, <1>4 DEF AsBefore, ApplyInv
<1>6. Applying'
  BY DEF Applying
<1> QED
  BY <1>2, <1>5, <1>6, StillApplying

\* What a change more excuses, and names.
LEMMA IndexRecording ==
    ASSUME TypeInv, NEW k \in todo, First(k), NEW success \in BOOLEAN, NEW rollback_sql \in BOOLEAN,
           Applied(k, success, rollback_sql), UNCHANGED <<kept, had>>
    PROVE  /\ \A n : IndexExcused(n) \/ (IndexInHand(n) /\ recommendations[k].type = "schema") => IndexExcused(n)'
           /\ \A n : MadeOf(n)' <=> MadeOf(n) \/ (recommendations[k].type = "index" /\ recommendations[k].name = n)
           /\ recommendations[k].type = "index" =>
                  \A n : ( \/ ~recommendations[k].named \/ n \in recommendations[k].also
                          \/ /\ n = recommendations[k].name
                             /\ (recommendations[k].unless_exists /\ n \in had) \/ ~success )
                        => IndexExcused(n)'
<1>T. k \in DOMAIN recommendations /\ TunerTypeOK /\ todo \subseteq Nat
  BY DEF TypeInv, TunerTypeOK
<1>1. PICK m \in Nat :
         /\ DOMAIN applied' = DOMAIN applied \cup {m}
         /\ \A j \in DOMAIN applied : j \in Nat /\ j < m /\ applied'[j] = applied[j]
         /\ applied'[m].rec = recommendations[k]
         /\ applied'[m].success = success /\ applied'[m].rollback = rollback_sql
  <2>1. k \in DOMAIN recommendations /\ success \in BOOLEAN /\ rollback_sql \in BOOLEAN /\ TunerTypeOK
    BY <1>T
  <2>2. Applied(k, success, rollback_sql)
    OBVIOUS
  <2> QED
    BY ONLY <2>1, <2>2, AppliedAt
<1>2. m \in DOMAIN applied' /\ applied'[m].rec = recommendations[k] /\ applied'[m].success = success
  BY <1>1
<1>3. ASSUME NEW n, IndexExcused(n) PROVE IndexExcused(n)'
  BY <1>1, <1>3 DEF IndexExcused, Touches
<1>4. ASSUME NEW n, IndexInHand(n), recommendations[k].type = "schema" PROVE IndexExcused(n)'
  <2>1. PICK j \in todo : First(j) /\ \E i \in DOMAIN recommendations[j].parts : Touches(recommendations[j].parts[i], n)
    BY <1>4 DEF IndexInHand
  <2>2. j = k
    BY <1>T, <2>1 DEF First
  <2> QED
    BY <1>2, <1>4, <2>1, <2>2 DEF IndexExcused, Touches
<1>5. \A n : MadeOf(n)' <=> MadeOf(n) \/ (recommendations[k].type = "index" /\ recommendations[k].name = n)
  BY <1>1 DEF MadeOf
<1>6. ASSUME NEW n, recommendations[k].type = "index",
             \/ ~recommendations[k].named \/ n \in recommendations[k].also
             \/ /\ n = recommendations[k].name
                /\ (recommendations[k].unless_exists /\ n \in had) \/ ~success
      PROVE  IndexExcused(n)'
  BY <1>2, <1>6 DEF IndexExcused
<1> QED
  BY <1>3, <1>4, <1>5, <1>6

\* A change that is not an index leaves the indexes as they were, or they are excused with it.
LEMMA IndexUntouched ==
    ASSUME TypeInv, IndexesKept, NEW k \in todo, First(k), NEW success \in BOOLEAN, NEW rollback_sql \in BOOLEAN,
           Applied(k, success, rollback_sql), UNCHANGED <<kept, had, indexes>>, recommendations[k].type # "index",
           tuning = "schema" => recommendations[k].type = "schema"
    PROVE  IndexesKept'
<1>1. /\ \A n : IndexExcused(n) \/ (IndexInHand(n) /\ recommendations[k].type = "schema") => IndexExcused(n)'
      /\ \A n : MadeOf(n)' <=> MadeOf(n) \/ (recommendations[k].type = "index" /\ recommendations[k].name = n)
  BY IndexRecording
<1>2. \A n : IndexInHand(n) => recommendations[k].type = "schema"
  BY DEF IndexInHand
<1> QED
  BY <1>1, <1>2 DEF IndexesKept

LEMMA RegressApply ==
    ASSUME TypeInv, AccountInv, RegressInv,
           AlterSystem \/ ReloadConf \/ CreateIndex \/ QueryRewrite \/ BeginSchema \/ SchemaStatement \/ SchemaChange
    PROVE  RegressInv'
<1>T. /\ todo \subseteq DOMAIN recommendations /\ recommendations \in Seq(Recommendations)
      /\ todo \subseteq Nat /\ settings \in [Params -> Values]
  <2>1. todo \subseteq DOMAIN recommendations /\ recommendations \in Seq(Recommendations) /\ settings \in [Params -> Values]
    BY DEF TypeInv, TunerTypeOK
  <2> QED
    BY <2>1
<1>A. /\ Applying /\ ListInv /\ ApplyInv /\ SchemaInHand
      /\ Applying => AsBefore /\ Covered /\ FirstHonest /\ Revertible /\ IndexesKept
  BY DEF TypeInv, RegressInv, ListInv, ApplyInv, Applying, AlterSystem, ReloadConf, CreateIndex, QueryRewrite, BeginSchema,
         SchemaStatement, SchemaChange
<1>F. \A j, k \in todo : First(j) /\ First(k) => j = k
  BY <1>T DEF First
<1> USE DEF advice, changes, rollback, target
<1>1. CASE AlterSystem
  <2>1. PICK k \in todo : \E o \in {"ok", "refused", "lost"} :
           LET rec == recommendations[k] IN
           /\ First(k) /\ rec.type = "config" /\ Outcome(o)
           /\ settings' = IF ExecutedSql(o) THEN [settings EXCEPT ![rec.name] = rec.recommended] ELSE settings
           /\ IF o = "ok"
              THEN tuning' = "reload" /\ UNCHANGED <<todo, changes>>
              ELSE todo' = todo \ {k} /\ Applied(k, FALSE, FALSE) /\ UNCHANGED tuning
    BY <1>1 DEF AlterSystem
  <2>2. PICK o \in {"ok", "refused", "lost"} :
           LET rec == recommendations[k] IN
           /\ First(k) /\ rec.type = "config" /\ Outcome(o)
           /\ settings' = IF ExecutedSql(o) THEN [settings EXCEPT ![rec.name] = rec.recommended] ELSE settings
           /\ IF o = "ok"
              THEN tuning' = "reload" /\ UNCHANGED <<todo, changes>>
              ELSE todo' = todo \ {k} /\ Applied(k, FALSE, FALSE) /\ UNCHANGED tuning
    BY <2>1
  <2>3. tuning = "apply" /\ UNCHANGED <<recommendations, context, before, had, regressed, indexes, kept>>
    BY <1>1 DEF AlterSystem
  <2>4. \A p \in Params : settings'[p] # settings[p] => recommendations[k].type = "config" /\ recommendations[k].name = p
    BY <1>T, <2>2
  <2>5. CASE o = "ok"
    <3>1. tuning' = "reload" /\ UNCHANGED <<todo, applied, all_changes>>
      BY <2>2, <2>5
    <3>2. Covered' /\ FirstHonest' /\ Revertible'
      BY <1>A, <2>3, <3>1 DEF Covered, FirstHonest, Honest, Revertible, ConfigOn, IsLeast, succeeded
    <3>3. \A p : recommendations[k].name = p => Pending(p)'
      BY <2>2, <2>3, <3>1 DEF Pending, First
    <3>4. \A p : ~Pending(p) /\ ConfigOn(p)' = ConfigOn(p)
      BY <2>3, <3>1 DEF Pending, ConfigOn
    <3>5. AsBefore'
      BY <1>A, <2>3, <2>4, <3>1, <3>3, <3>4 DEF AsBefore, BySchema, SetBySchema, Sets
    <3>6. Applying'
      BY <3>1 DEF Applying
    <3>7. IndexesKept'
      BY <1>A, <2>3, <3>1 DEF IndexesKept, IndexExcused, IndexInHand, MadeOf, Touches
    <3> QED
      BY <1>A, <2>3, <3>2, <3>5, <3>6, <3>7, StillApplying
  <2>6. CASE o # "ok"
    <3>1. todo' = todo \ {k} /\ Applied(k, FALSE, FALSE) /\ tuning' = "apply" /\ First(k)
      BY <2>2, <2>3, <2>6
    <3>2. \A p : ~Pending(p)
      BY <2>3 DEF Pending
    <3>3. FALSE => (FALSE <=> HasRollback(recommendations[k]))
      OBVIOUS
    <3>4. recommendations[k].type # "index" /\ FALSE \in BOOLEAN
      BY <2>2
    <3>5. IndexesKept'
      BY <1>A, <2>3, <3>1, <3>4, IndexUntouched
    <3> QED
      BY <1>A, <2>3, <2>4, <3>1, <3>2, <3>3, <3>4, <3>5, StepRecording
  <2> QED
    BY <2>5, <2>6
<1>2. CASE ReloadConf
  <2>1. PICK k \in todo : \E o \in {"ok", "refused", "lost"} :
           First(k) /\ Applied(k, o = "ok", TRUE) /\ todo' = todo \ {k}
    BY <1>2 DEF ReloadConf
  <2>2. PICK o \in {"ok", "refused", "lost"} : First(k) /\ Applied(k, o = "ok", TRUE) /\ todo' = todo \ {k}
    BY <2>1
  <2>3. /\ tuning = "reload" /\ tuning' = "apply"
        /\ UNCHANGED <<recommendations, context, before, had, regressed, settings, indexes, kept>>
    BY <1>2 DEF ReloadConf
  <2>4. (o = "ok") \in BOOLEAN /\ TRUE \in BOOLEAN
    OBVIOUS
  <2>5. \A p : Pending(p) => recommendations[k].type = "config" /\ recommendations[k].name = p
    BY <1>F, <2>2 DEF Pending
  <2>6. recommendations[k].type = "config"
    BY <1>F, <2>2, <2>3 DEF AccountInv, ReloadOfConfig
  <2>7. IndexesKept'
    BY <1>A, <2>2, <2>3, <2>4, <2>6, IndexUntouched
  <2>8. o = "ok" => (TRUE <=> HasRollback(recommendations[k]))
    BY <2>6 DEF HasRollback
  <2> QED
    BY <1>A, <2>2, <2>3, <2>4, <2>5, <2>7, <2>8, StepRecording
<1>3. CASE CreateIndex
  <2>1. PICK k \in todo : \E o \in {"ok", "refused", "lost"} :
           /\ First(k) /\ recommendations[k].type = "index"
           /\ Creates(recommendations[k], recommendations[k].also, o)
           /\ Applied(k, o = "ok", o = "ok" /\ recommendations[k].named)
           /\ todo' = todo \ {k}
    BY <1>3 DEF CreateIndex
  <2>2. PICK o \in {"ok", "refused", "lost"} :
           /\ First(k) /\ recommendations[k].type = "index"
           /\ Creates(recommendations[k], recommendations[k].also, o)
           /\ Applied(k, o = "ok", o = "ok" /\ recommendations[k].named)
           /\ todo' = todo \ {k}
    BY <2>1
  <2>3. /\ tuning = "apply" /\ tuning' = "apply"
        /\ UNCHANGED <<recommendations, context, before, had, regressed, settings, kept>>
    BY <1>3 DEF CreateIndex
  <2>4. /\ (o = "ok") \in BOOLEAN /\ (o = "ok" /\ recommendations[k].named) \in BOOLEAN
        /\ recommendations[k].type # "config"
    BY <2>2
  <2>5. \A p : ~Pending(p)
    BY <2>3 DEF Pending
  <2>6. o = "ok" => ((o = "ok" /\ recommendations[k].named) <=> HasRollback(recommendations[k]))
    BY <2>2, <2>4 DEF HasRollback
  <2>7. /\ \A n : IndexExcused(n) \/ (IndexInHand(n) /\ recommendations[k].type = "schema") => IndexExcused(n)'
        /\ \A n : MadeOf(n)' <=> MadeOf(n) \/ (recommendations[k].type = "index" /\ recommendations[k].name = n)
        /\ recommendations[k].type = "index" =>
               \A n : ( \/ ~recommendations[k].named \/ n \in recommendations[k].also
                       \/ /\ n = recommendations[k].name
                          /\ (recommendations[k].unless_exists /\ n \in had) \/ ~(o = "ok") )
                     => IndexExcused(n)'
    BY <2>2, <2>3, <2>4, IndexRecording
  <2>8. IndexesKept'
    <3> SUFFICES ASSUME NEW n \in Indexes, ~IndexExcused(n)'
                 PROVE  /\ MadeOf(n)' => n \notin had
                        /\ ~MadeOf(n)' => (n \in indexes' <=> n \in had)
      BY <2>3 DEF IndexesKept
    <3>1. ~IndexInHand(n) /\ ~IndexExcused(n)
      BY <2>3, <2>7 DEF IndexInHand
    <3>2. (MadeOf(n) => n \notin had) /\ (~MadeOf(n) => (n \in indexes <=> n \in had))
      BY <1>A, <3>1 DEF IndexesKept
    <3>3. recommendations[k].named /\ n \notin recommendations[k].also
      BY <2>2, <2>7
    <3>4. CASE n # recommendations[k].name
      <4>1. n \in indexes' <=> n \in indexes
        BY <2>2, <3>3, <3>4, CreatesOnly
      <4>2. MadeOf(n)' <=> MadeOf(n)
        BY <2>7, <3>4
      <4> QED
        BY <3>2, <4>1, <4>2
    <3>5. CASE n = recommendations[k].name
      <4>1. o = "ok" /\ (recommendations[k].unless_exists => n \notin had)
        BY <2>2, <2>7, <3>5
      <4>2. ~recommendations[k].unless_exists => n \notin indexes
        BY <2>2, <3>3, <3>5, <4>1, CreatesOnly
      <4>3. n \notin had
        BY <3>2, <4>1, <4>2
      <4>4. MadeOf(n)'
        BY <2>2, <2>7, <3>5
      <4> QED
        BY <4>3, <4>4
    <3> QED
      BY <3>4, <3>5
  <2> QED
    BY <1>A, <2>2, <2>3, <2>4, <2>5, <2>6, <2>8, StepRecording
<1>4. CASE QueryRewrite
  <2>1. PICK k \in todo :
           First(k) /\ recommendations[k].type = "rewrite" /\ Applied(k, TRUE, FALSE) /\ todo' = todo \ {k}
    BY <1>4 DEF QueryRewrite
  <2>2. /\ tuning = "apply" /\ tuning' = "apply"
        /\ UNCHANGED <<recommendations, context, before, had, regressed, settings, indexes, kept>>
    BY <1>4 DEF QueryRewrite
  <2>3. recommendations[k].type # "config" /\ \A p : ~Pending(p)
    BY <2>1, <2>2 DEF Pending
  <2>4. ~HasRollback(recommendations[k]) /\ recommendations[k].type # "index" /\ TRUE \in BOOLEAN /\ FALSE \in BOOLEAN
    BY <2>1 DEF HasRollback
  <2>5. IndexesKept'
    BY <1>A, <2>1, <2>2, <2>4, IndexUntouched
  <2> QED
    BY <1>A, <2>1, <2>2, <2>3, <2>4, <2>5, StepRecording
<1>5. CASE BeginSchema
  <2>1. PICK k \in todo : First(k) /\ recommendations[k].type = "schema"
    BY <1>5 DEF BeginSchema
  <2>2. tuning = "apply" /\ tuning' = "schema"
        /\ UNCHANGED <<recommendations, context, before, had, regressed, settings, indexes, todo, applied, kept>>
    BY <1>5 DEF BeginSchema
  <2>3. Covered' /\ FirstHonest' /\ Revertible'
    BY <1>A, <2>2 DEF Covered, FirstHonest, Honest, Revertible, ConfigOn, IsLeast, succeeded
  <2>4. AsBefore'
    BY <1>A, <2>2 DEF AsBefore, ConfigOn, Pending, BySchema, SetBySchema, Sets
  <2>5. IndexesKept'
    BY <1>A, <2>2 DEF IndexesKept, IndexExcused, IndexInHand, MadeOf, Touches
  <2> QED
    BY <1>A, <2>2, <2>3, <2>4, <2>5, StillApplying DEF Applying
<1>6. CASE SchemaStatement
  <2>1. PICK k \in todo : \E o \in {"ok", "refused", "lost"} :
           /\ First(k) /\ stmt.done < Len(recommendations[k].parts)
           /\ Executes(recommendations[k].parts[stmt.done + 1], o)
    BY <1>6 DEF SchemaStatement
  <2>2. PICK o \in {"ok", "refused", "lost"} :
           /\ First(k) /\ stmt.done < Len(recommendations[k].parts)
           /\ Executes(recommendations[k].parts[stmt.done + 1], o)
    BY <2>1
  <2>3. tuning = "schema" /\ tuning' = "schema"
        /\ UNCHANGED <<recommendations, context, before, had, regressed, todo, applied, kept>>
    BY <1>6 DEF SchemaStatement
  <2>4. recommendations[k].type = "schema"
    BY <1>A, <2>2, <2>3 DEF SchemaInHand
  <2>5. k \in DOMAIN recommendations /\ recommendations[k] \in Recommendations /\ stmt.done \in Nat /\ TunerTypeOK
    BY <1>T DEF TypeInv, TunerTypeOK, Execution
  <2>6. recommendations[k].parts \in Seq(SchemaParts)
    BY <2>4, <2>5, Parts
  <2>7. stmt.done + 1 \in DOMAIN recommendations[k].parts /\ recommendations[k].parts[stmt.done + 1] \in SchemaParts
    BY <2>2, <2>5, <2>6
  <2>8. /\ \A p \in Params : settings'[p] # settings[p] => Sets(recommendations[k], p)
        /\ \A n : ~(n \in indexes' <=> n \in indexes) => Touches(recommendations[k].parts[stmt.done + 1], n)
    BY <2>2, <2>4, <2>5, <2>7, ExecutesType DEF Sets
  <2>9. Covered' /\ FirstHonest' /\ Revertible'
    BY <1>A, <2>3 DEF Covered, FirstHonest, Honest, Revertible, ConfigOn, IsLeast, succeeded
  <2>10. AsBefore'
    <3>1. \A p : ConfigOn(p)' = ConfigOn(p) /\ ~Pending(p)
      BY <2>3 DEF ConfigOn, Pending
    <3>2. \A p : ~BySchema(p)' => ~BySchema(p) /\ ~Sets(recommendations[k], p)
      BY <2>2, <2>3 DEF BySchema, SetBySchema, Sets, First
    <3> QED
      BY <1>A, <2>3, <2>8, <3>1, <3>2 DEF AsBefore
  <2>11. IndexesKept'
    <3>1. \A n : (IndexExcused(n)' <=> IndexExcused(n)) /\ (MadeOf(n)' <=> MadeOf(n))
      BY <2>3 DEF IndexExcused, MadeOf, Touches
    <3>2. \A n : (IndexInHand(n) => IndexInHand(n)')
      BY <2>3 DEF IndexInHand, First, Touches
    <3>3. \A n : ~(n \in indexes' <=> n \in indexes) => IndexInHand(n)'
      BY <2>2, <2>3, <2>7, <2>8 DEF IndexInHand, First, Touches
    <3> QED
      BY <1>A, <2>3, <3>1, <3>2, <3>3 DEF IndexesKept
  <2> QED
    BY <1>A, <2>3, <2>9, <2>10, <2>11, StillApplying DEF Applying
<1>7. CASE SchemaChange
  <2>1. PICK k \in todo : First(k) /\ Applied(k, ~stmt.failed, FALSE) /\ todo' = todo \ {k}
    BY <1>7 DEF SchemaChange
  <2>2. /\ tuning = "schema" /\ tuning' = "apply"
        /\ UNCHANGED <<recommendations, context, before, had, regressed, settings, indexes, kept>>
    BY <1>7 DEF SchemaChange
  <2>3. (~stmt.failed) \in BOOLEAN /\ FALSE \in BOOLEAN
    OBVIOUS
  <2>4. recommendations[k].type = "schema" /\ \A p : ~Pending(p)
    BY <1>A, <2>1, <2>2 DEF SchemaInHand, Pending
  <2>5. ~HasRollback(recommendations[k]) /\ recommendations[k].type # "index"
    BY <2>4 DEF HasRollback
  <2>6. IndexesKept'
    BY <1>A, <2>1, <2>2, <2>3, <2>4, <2>5, IndexUntouched
  <2> QED
    BY <1>A, <2>1, <2>2, <2>3, <2>4, <2>5, <2>6, StepRecording
<1> QED
  BY <1>1, <1>2, <1>3, <1>4, <1>5, <1>6, <1>7

\* The next change from the end is taken back.
LEMMA RegressRestore == ASSUME TypeInv, RegressInv, Restore PROVE RegressInv'
<1>1. PICK k \in undo : \E o \in {"ok", "refused", "lost"} :
        LET rec == applied[k].rec IN
        /\ NextUndo(k) /\ Outcome(o)
        /\ undo' = undo \ {k}
        /\ kept' = IF o = "ok" THEN kept ELSE kept \cup {k}
        /\ IF rec.type = "config"
           THEN /\ settings' = IF ExecutedSql(o) THEN [settings EXCEPT ![rec.name] = rec.current] ELSE settings
                /\ needs_reload' = (needs_reload \/ o = "ok")
                /\ UNCHANGED indexes
           ELSE /\ indexes' = IF ExecutedSql(o) THEN indexes \ {rec.name} ELSE indexes
                /\ UNCHANGED <<settings, needs_reload>>
  BY DEF Restore
<1>2. PICK o \in {"ok", "refused", "lost"} :
        LET rec == applied[k].rec IN
        /\ NextUndo(k) /\ Outcome(o)
        /\ undo' = undo \ {k}
        /\ kept' = IF o = "ok" THEN kept ELSE kept \cup {k}
        /\ IF rec.type = "config"
           THEN /\ settings' = IF ExecutedSql(o) THEN [settings EXCEPT ![rec.name] = rec.current] ELSE settings
                /\ needs_reload' = (needs_reload \/ o = "ok")
                /\ UNCHANGED indexes
           ELSE /\ indexes' = IF ExecutedSql(o) THEN indexes \ {rec.name} ELSE indexes
                /\ UNCHANGED <<settings, needs_reload>>
  BY <1>1
<1>3. /\ tuning = "rollback" /\ tuning' = "rollback"
      /\ UNCHANGED <<recommendations, context, before, had, todo, applied, regressed>>
  BY DEF Restore, advice, changes
<1>4. FirstHonest /\ Revertible /\ IndexesKept /\ undo \subseteq to_undo /\ LastFirst /\ Restored /\ Dropped
  BY <1>3 DEF RegressInv, ListInv, UndoInv, Undoing
<1>5. /\ DOMAIN applied \subseteq Nat /\ k \in DOMAIN applied /\ k \in Nat /\ settings \in [Params -> Values]
      /\ undo \subseteq Nat
  BY DEF TypeInv, TunerTypeOK
<1>6. \A p : ConfigOn(p)' = ConfigOn(p) /\ ConfigOn(p) \subseteq DOMAIN applied
  BY <1>3 DEF ConfigOn
<1>7. to_undo' = to_undo /\ to_undo \subseteq DOMAIN applied
  BY <1>3 DEF to_undo, succeeded
<1>8. FirstHonest' /\ Revertible'
  BY <1>3, <1>4 DEF FirstHonest, Honest, Revertible, ConfigOn, IsLeast, succeeded
<1>16. IndexesKept'
  <2>1. \A n : (IndexExcused(n) => IndexExcused(n)') /\ (MadeOf(n)' <=> MadeOf(n)) /\ ~IndexInHand(n)
    <3>1. kept \subseteq kept'
      BY <1>2
    <3> QED
      BY <1>3, <3>1 DEF IndexExcused, MadeOf, IndexInHand, Touches
  <2>2. ASSUME NEW n, ~(n \in indexes' <=> n \in indexes) PROVE MadeOf(n) \/ IndexExcused(n)
    <3>1. applied[k].rec.type # "config" /\ n = applied[k].rec.name
      BY <1>2, <2>2
    <3>2. applied[k].rec.type = "index"
      BY <1>4, <3>1 DEF to_undo, Revertible, HasRollback
    <3> QED
      BY <1>5, <3>1, <3>2 DEF MadeOf
  <2> QED
    BY <1>3, <1>4, <2>1, <2>2 DEF IndexesKept
<1>9. undo' \subseteq to_undo'
  BY <1>2, <1>4, <1>7
<1>10. LastFirst'
  <2> SUFFICES ASSUME NEW i \in to_undo \ undo', NEW j \in undo' PROVE j < i
    BY <1>7 DEF LastFirst
  <2>1. j \in undo /\ j # k /\ j <= k
    BY <1>2 DEF NextUndo
  <2>2. CASE i = k
    BY <1>5, <2>1, <2>2
  <2>3. CASE i # k
    BY <1>2, <1>4, <2>1, <2>3 DEF LastFirst
  <2> QED
    BY <2>2, <2>3
<1>11. \A p : ~FailedOn(p)' => ~FailedOn(p) /\ (k \in ConfigOn(p) => o = "ok")
  BY <1>2, <1>3, <1>5 DEF FailedOn, ConfigOn
<1>12. \A p \in Params : settings'[p] # settings[p] => k \in ConfigOn(p)
  BY <1>2, <1>5 DEF ConfigOn
<1>17. \A p : SetBySchema(p)' <=> SetBySchema(p)
  BY <1>3 DEF SetBySchema, Sets
<1>13. Restored'
  <2>1. ASSUME NEW p \in Params, ConfigOn(p)' = {}, ~SetBySchema(p) PROVE settings'[p] = before'[p]
    BY <1>3, <1>4, <1>6, <1>12, <2>1 DEF Restored
  <2>2. ASSUME NEW p \in Params, ~FailedOn(p)', ~SetBySchema(p), NEW m \in DOMAIN applied, IsLeast(m, ConfigOn(p) \ undo')
        PROVE  settings'[p] = applied[m].rec.current
    <3>1. ~FailedOn(p) /\ (k \in ConfigOn(p) => o = "ok")
      BY <1>11, <2>2
    <3>2. m \in ConfigOn(p) /\ m \notin undo' /\ \A j \in ConfigOn(p) \ undo' : m <= j
      BY <2>2 DEF IsLeast
    <3>3. CASE k \in ConfigOn(p)
      <4>1. m \in to_undo
        BY <1>4, <3>1, <3>2 DEF FailedOn, ConfigOn, to_undo, succeeded, Revertible, HasRollback
      <4>2. m <= k
        BY <1>2, <3>2, <3>3
      <4>3. m = k
        <5>1. m \in undo \/ k < m
          BY <1>4, <4>1 DEF LastFirst
        <5> QED
          BY <1>2, <1>5, <3>2, <4>2, <5>1
      <4>4. o = "ok" /\ applied[k].rec.type = "config" /\ applied[k].rec.name = p
        BY <3>1, <3>3 DEF ConfigOn
      <4>5. settings' = [settings EXCEPT ![applied[k].rec.name] = applied[k].rec.current]
        BY <1>2, <4>4 DEF ExecutedSql
      <4> QED
        BY <1>5, <4>3, <4>4, <4>5
    <3>4. CASE k \notin ConfigOn(p)
      <4>1. ConfigOn(p) \ undo' = ConfigOn(p) \ undo
        BY <1>2, <3>4
      <4>2. settings[p] = applied[m].rec.current
        BY <1>4, <2>2, <3>1, <4>1 DEF Restored
      <4> QED
        BY <1>12, <3>4, <4>2
    <3> QED
      BY <3>3, <3>4
  <2>3. \A p \in Params : ConfigOn(p)' = {} /\ ~SetBySchema(p)' => settings'[p] = before'[p]
    BY <1>17, <2>1
  <2>4. \A p \in Params : ~FailedOn(p)' /\ ~SetBySchema(p)' => \A m \in DOMAIN applied' :
           IsLeast(m, ConfigOn(p) \ undo)' => settings'[p] = applied'[m].rec.current
    BY <1>3, <1>6, <1>17, <2>2 DEF IsLeast
  <2> QED
    BY <2>3, <2>4 DEF Restored
<1>14. Dropped'
  <2> SUFFICES ASSUME NEW m \in to_undo \ (undo' \cup kept'), applied[m].rec.type = "index"
               PROVE  applied[m].rec.name \notin indexes'
    BY <1>3, <1>7 DEF Dropped
  <2>1. CASE m = k
    BY <1>2, <2>1 DEF ExecutedSql
  <2>2. CASE m # k
    <3>1. m \in to_undo \ (undo \cup kept)
      BY <1>2, <2>2
    <3>2. applied[m].rec.name \notin indexes
      BY <1>4, <3>1 DEF Dropped
    <3> QED
      BY <1>2, <3>2
  <2> QED
    BY <2>1, <2>2
<1>15. SlowInv' /\ FreshInv' /\ (Applying' => FALSE)
  BY <1>3 DEF SlowInv, FreshInv, Undoing, Applying
<1> QED
  BY <1>8, <1>9, <1>10, <1>13, <1>14, <1>15, <1>16 DEF RegressInv, ListInv, ApplyInv, UndoInv

LEMMA RegressStep == TypeInv /\ AccountInv /\ RegressInv /\ [TunerNext]_tunerVars => RegressInv'
<1> SUFFICES ASSUME TypeInv, AccountInv, RegressInv, [TunerNext]_tunerVars PROVE RegressInv'
  OBVIOUS
<1>T. TunerTypeOK
  BY DEF TypeInv
<1> USE DEF advice, changes, rollback, target
<1>0. ~Undoing /\ UNCHANGED regressed => ~GotSlower'
  BY DEF RegressInv, SlowInv, GotSlower
<1>1. CASE CheckHostname \/ Baseline \/ BaselineFails \/ CollectFails \/ MaxIterations \/ ReplayAfterFails
  <2>1. ~Undoing /\ UNCHANGED regressed /\ tuning' \in {"error", "warmup", "measure", "iterate", "report"}
    BY <1>1, Zenon DEF CheckHostname, Baseline, TunerReplays, BaselineFails, CollectFails, MaxIterations, ReplayAfterFails,
                Abandon, Undoing
  <2> QED
    BY <1>0, <2>1, Settled
<1>2. CASE CollectContext
  <2>1. /\ tuning = "iterate" /\ tuning' = "recommend" /\ applied' = << >> /\ before' = settings /\ had' = indexes
        /\ UNCHANGED <<regressed, settings, indexes>>
    BY <1>2 DEF CollectContext
  <2>2. ~GotSlower'
    BY <1>0, <2>1 DEF Undoing
  <2> QED
    BY <2>1, <2>2 DEF RegressInv, SlowInv, FreshInv, ListInv, ApplyInv, UndoInv, Applying, Undoing
<1>3. CASE Recommend
  <2>1. /\ tuning = "recommend" /\ UNCHANGED <<context, before, had, applied, settings, indexes>>
        /\ applied = << >> /\ settings = before /\ indexes = had
    BY <1>3 DEF Recommend, RegressInv, FreshInv
  <2>2. CASE safe = {} \/ ~request.apply
    <3>1. tuning' = "report" /\ (UNCHANGED regressed \/ regressed' = Append(regressed, FALSE))
      BY <1>3, <2>2 DEF Recommend
    <3>2. ~GotSlower'
      BY <1>T, <1>0, <2>1, <3>1, Verdict DEF Undoing
    <3> QED
      BY <3>1, <3>2, Settled
  <2>3. CASE ~(safe = {} \/ ~request.apply)
    <3>1. tuning' = "apply" /\ todo' = safe /\ UNCHANGED regressed
      BY <1>3, <2>3 DEF Recommend
    <3>2. ~GotSlower'
      BY <1>0, <2>1, <3>1 DEF Undoing
    <3>3. Covered'
      BY <3>1 DEF Covered, safe, Safe
    <3>4. \A p : ConfigOn(p)' = {}
      BY <2>1 DEF ConfigOn
    <3>5. FirstHonest' /\ Revertible'
      BY <2>1, <3>4 DEF FirstHonest, IsLeast, Revertible, succeeded
    <3>6. AsBefore'
      BY <2>1, <3>1 DEF AsBefore
    <3>7. IndexesKept'
      <4>1. \A n : ~MadeOf(n)'
        BY <2>1 DEF MadeOf
      <4> QED
        BY <2>1, <4>1 DEF IndexesKept
    <3> QED
      BY <3>1, <3>2, <3>3, <3>5, <3>6, <3>7 DEF RegressInv, SlowInv, FreshInv, ListInv, ApplyInv, UndoInv, Applying, Undoing
  <2> QED
    BY <2>2, <2>3
<1>4. CASE AlterSystem \/ ReloadConf \/ CreateIndex \/ QueryRewrite \/ BeginSchema \/ SchemaStatement \/ SchemaChange
  BY <1>4, RegressApply
<1>5. CASE NoSuccess
  <2>1. tuning' = "report" /\ regressed' = Append(regressed, FALSE)
    BY <1>5 DEF NoSuccess
  <2> QED
    BY <1>T, <2>1, Verdict, Settled
<1>6. CASE ReplayAfter
  <2>1. PICK worse \in BOOLEAN :
          /\ TunerReplays(IF worse THEN "rollback" ELSE "iterate")
          /\ regressed' = Append(regressed, worse)
          /\ undo' = IF worse THEN to_undo ELSE {}
    BY <1>6 DEF ReplayAfter
  <2>2. GotSlower' = worse
    BY <1>T, <2>1, Verdict
  <2>3. CASE ~worse
    <3>1. tuning' = "iterate"
      BY <2>1, <2>3 DEF TunerReplays
    <3> QED
      BY <2>2, <2>3, <3>1, Settled
  <2>4. CASE worse
    <3>1. /\ tuning = "apply" /\ tuning' = "rollback" /\ undo' = to_undo
          /\ UNCHANGED <<recommendations, context, before, had, todo, applied, settings, indexes, kept>>
      BY <1>6, <2>1, <2>4 DEF ReplayAfter, TunerReplays
    <3>2. FirstHonest /\ Revertible /\ AsBefore /\ IndexesKept
      BY <3>1 DEF RegressInv, ListInv, ApplyInv, Applying
    <3>3. FirstHonest' /\ Revertible'
      BY <3>1, <3>2 DEF FirstHonest, Honest, Revertible, ConfigOn, IsLeast, succeeded
    <3>9. IndexesKept'
      BY <3>1, <3>2 DEF IndexesKept, IndexExcused, IndexInHand, MadeOf, Touches
    <3>10. \A p : ~SetBySchema(p)' => ~BySchema(p)
      BY <3>1 DEF BySchema, SetBySchema, Sets
    <3>4. to_undo' = undo'
      BY <3>1 DEF to_undo, succeeded
    <3>5. undo' \subseteq to_undo' /\ LastFirst' /\ Dropped'
      BY <3>4 DEF LastFirst, Dropped
    <3>6. \A p : ConfigOn(p)' = ConfigOn(p) /\ ~Pending(p)
      BY <3>1 DEF ConfigOn, Pending
    <3>7. \A p : ~FailedOn(p)' => ConfigOn(p)' \ undo' = {}
      BY <3>1, <3>2 DEF FailedOn, ConfigOn, to_undo, succeeded, Revertible, HasRollback
    <3>8. Restored'
      BY <3>1, <3>2, <3>6, <3>7, <3>10 DEF Restored, AsBefore, IsLeast
    <3> QED
      BY <3>1, <3>3, <3>5, <3>8, <3>9 DEF RegressInv, SlowInv, FreshInv, ListInv, ApplyInv, UndoInv, Applying, Undoing
  <2> QED
    BY <2>3, <2>4
<1>7. CASE Restore
  BY <1>7, RegressRestore
<1>8. CASE RestoreReload
  <2>1. /\ tuning = "rollback" /\ tuning' \in {"rollback", "report"}
        /\ UNCHANGED <<recommendations, context, before, had, todo, applied, settings, indexes, undo, kept, regressed>>
    BY <1>8 DEF RestoreReload
  <2>2. FirstHonest /\ Revertible /\ IndexesKept /\ undo \subseteq to_undo /\ LastFirst /\ Restored /\ Dropped
    BY <2>1 DEF RegressInv, ListInv, UndoInv, Undoing
  <2>3. FirstHonest' /\ Revertible'
    BY <2>1, <2>2 DEF FirstHonest, Honest, Revertible, ConfigOn, IsLeast, succeeded
  <2>4. undo' \subseteq to_undo' /\ LastFirst' /\ Dropped'
    BY <2>1, <2>2 DEF LastFirst, Dropped, to_undo, succeeded
  <2>5. Restored'
    BY <2>1, <2>2 DEF Restored, ConfigOn, FailedOn, IsLeast, SetBySchema, Sets
  <2>7. IndexesKept'
    BY <2>1, <2>2 DEF IndexesKept, IndexExcused, IndexInHand, MadeOf, Touches
  <2>6. SlowInv'
    BY <2>1 DEF SlowInv, Undoing, GotSlower
  <2> QED
    BY <2>1, <2>3, <2>4, <2>5, <2>6, <2>7 DEF RegressInv, FreshInv, ListInv, ApplyInv, UndoInv, Applying
<1>9. CASE TunerEnds \/ UNCHANGED tunerVars
  <2>1. UNCHANGED tunerVars
    BY <1>9 DEF TunerEnds
  <2> QED
    BY <2>1 DEF tunerVars, RegressInv, SlowInv, FreshInv, ListInv, ApplyInv, UndoInv, Applying, Undoing, GotSlower, FirstHonest,
                Honest, Revertible, Covered, AsBefore, LastFirst, IndexesKept, IndexExcused, IndexInHand, MadeOf,
                Touches, BySchema, SetBySchema, Sets, Restored, Dropped, ConfigOn, IsLeast,
                Pending, First, FailedOn, to_undo, succeeded
<1> QED
  BY <1>1, <1>2, <1>3, <1>4, <1>5, <1>6, <1>7, <1>8, <1>9 DEF TunerNext

\* After an iteration that made the workload slower, whatever was recommended
\* and whichever statements failed: every parameter is back at the value it had
\* or the one the advisor was shown, and the indexes are those that were there,
\* save those whose change or rollback is reported as failed, and what the code
\* never takes back: schema changes, indexes without a name or behind the first
\* of a text, an index that IF NOT EXISTS found there.  Only the reverse order
\* gives this when a list names a parameter twice (tuner/apply.rs 141-183,
\* mod.rs 281-325).
THEOREM RegressionCorrect == TunerSpec => []RegressionUndone
<1>1. TypeInv /\ RegressInv => RegressionUndone
  <2> SUFFICES ASSUME TypeInv, RegressInv, tuning = "report", GotSlower, Honest
               PROVE  /\ \A p \in Params : settings[p] \in {before[p], context[p]} \/ FailedOn(p) \/ SetBySchema(p)
                      /\ \A n \in Indexes : (n \in indexes <=> n \in had) \/ IndexExcused(n)
    BY DEF RegressionUndone
  <2>1. undo = {} /\ DOMAIN applied \subseteq Nat /\ kept \subseteq DOMAIN applied
    BY DEF TypeInv, TunerTypeOK
  <2>2. FirstHonest /\ Revertible /\ IndexesKept /\ Restored /\ Dropped
    BY DEF RegressInv, ListInv, UndoInv, Undoing
  <2>3. ASSUME NEW p \in Params, ~FailedOn(p), ~SetBySchema(p) PROVE settings[p] \in {before[p], context[p]}
    <3>1. CASE ConfigOn(p) = {}
      BY <2>2, <2>3, <3>1 DEF Restored
    <3>2. CASE ConfigOn(p) # {}
      <4>1. ConfigOn(p) \in SUBSET Nat /\ ConfigOn(p) \subseteq DOMAIN applied /\ ConfigOn(p) \ undo = ConfigOn(p)
        BY <2>1 DEF ConfigOn
      <4>2. PICK m \in ConfigOn(p) : IsLeast(m, ConfigOn(p))
        BY <3>2, <4>1, LeastNumber
      <4>3. settings[p] = applied[m].rec.current
        BY <2>2, <2>3, <4>1, <4>2 DEF Restored
      <4>4. applied[m].rec.current = context[p]
        BY <2>2, <4>1, <4>2 DEF FirstHonest
      <4> QED
        BY <4>3, <4>4
    <3> QED
      BY <3>1, <3>2
  <2>4. ASSUME NEW n \in Indexes, ~IndexExcused(n) PROVE n \in indexes <=> n \in had
    <3>1. ~IndexInHand(n)
      BY DEF IndexInHand
    <3>2. CASE ~MadeOf(n)
      BY <2>2, <2>4, <3>1, <3>2 DEF IndexesKept
    <3>3. CASE MadeOf(n)
      <4>1. n \notin had
        BY <2>2, <2>4, <3>1, <3>3 DEF IndexesKept
      <4>2. PICK k \in DOMAIN applied : applied[k].rec.type = "index" /\ applied[k].rec.name = n
        BY <3>3 DEF MadeOf
      <4>3. applied[k].rec.named /\ applied[k].success /\ k \notin kept
        BY <2>4, <4>2 DEF IndexExcused
      <4>4. k \in to_undo
        BY <2>2, <4>2, <4>3 DEF to_undo, succeeded, Revertible, HasRollback
      <4>5. n \notin indexes
        BY <2>1, <2>2, <4>2, <4>3, <4>4 DEF Dropped
      <4> QED
        BY <4>1, <4>5
    <3> QED
      BY <3>2, <3>3
  <2> QED
    BY <2>3, <2>4
<1>2. TunerInit => TypeInv /\ AccountInv /\ RegressInv
  BY TypeInit, AccountInit, RegressInit
<1>3. TypeInv /\ AccountInv /\ RegressInv /\ [TunerNext]_tunerVars => (TypeInv /\ AccountInv /\ RegressInv)'
  BY TypeStep, AccountStep, RegressStep
<1> QED
  BY <1>1, <1>2, <1>3, PTL DEF TunerSpec
=============================================================================
