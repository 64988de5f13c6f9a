-------------------------------- MODULE Tuner --------------------------------
(***************************************************************************)
(* tuner/: the loop that asks a model for advice, applies it to the        *)
(* target, replays the workload and takes back what made it slower.        *)
(*                                                                         *)
(* The target keeps two values of a parameter: settings is what ALTER      *)
(* SYSTEM wrote, live what the server runs with since its last reload      *)
(* (for some parameters since its last restart).  One step is one SQL      *)
(* statement, which is done, refused, or done with its answer lost.        *)
(***************************************************************************)
EXTENDS Naturals, Sequences, FiniteSets

CONSTANTS
    Params,          \* configuration parameters of the target
    SafeParams,      \* SAFE_CONFIG_PARAMS
    RestartParams,   \* those a reload does not change
    Values,          \* values of a parameter
    Indexes,         \* names of indexes
    Replies,         \* the lists of recommendations the advisor may return
    Requests         \* [apply, force, read_only, production, writes, max, settings, indexes, faults]

ConfigChanges == [type : {"config"}, name : Params, current : Values, recommended : Values]
\* sql is CREATE INDEX (named or not, with IF NOT EXISTS or not) and may go on to create others, or it
\* begins with something else and is not allowed.
CreateIndexes == [type : {"index"}, name : Indexes, named : BOOLEAN, unless_exists : BOOLEAN,
                  also : SUBSET Indexes, allowed : BOOLEAN]
QueryRewrites == [type : {"rewrite"}]
\* A statement of a schema change: CREATE INDEX, DROP INDEX, ALTER SYSTEM SET, ANALYZE or REINDEX, any other.
SchemaParts ==
    [does : {"create"}, name : Indexes, named : BOOLEAN, unless_exists : BOOLEAN]
        \cup [does : {"drop"}, name : Indexes] \cup [does : {"set"}, name : Params, value : Values]
        \cup [does : {"maintain", "other"}]
SchemaChanges == [type : {"schema"}, parts : Seq(SchemaParts)]
Recommendations == ConfigChanges \cup CreateIndexes \cup QueryRewrites \cup SchemaChanges

ASSUME TunerAssumption ==
    /\ SafeParams \subseteq Params /\ RestartParams \subseteq Params
    /\ Replies \subseteq Seq(Recommendations)
    /\ Requests \subseteq [apply : BOOLEAN, force : BOOLEAN, read_only : BOOLEAN, production : BOOLEAN,
                           writes : BOOLEAN, max : Nat, settings : [Params -> Values],
                           indexes : SUBSET Indexes, faults : Nat]

VARIABLES
    request,        \* the TuningConfig
    tuning,         \* where the run is
    iteration,
    context,        \* the settings collect_context read
    recommendations,
    todo,           \* positions of recommendations still to apply
    stmt,           \* how many statements of a schema change are executed, and whether one failed
    applied,        \* changes of this iteration
    all_changes,
    undo,           \* positions of applied still to roll back
    kept,           \* positions whose rollback failed
    needs_reload,
    regressed,      \* of each finished iteration: did p95 get worse by more than 5%
    settings, live, indexes, rows,   \* the target; rows: a replay wrote to it
    before, had,    \* settings and indexes when the context was read
    faults          \* how many more statements may fail

target == <<settings, live, indexes, rows>>
advice == <<context, before, had, recommendations>>
changes == <<applied, all_changes>>
rollback == <<undo, kept, needs_reload>>
tunerVars == <<request, tuning, iteration, advice, todo, stmt, changes, rollback, regressed, target, faults>>

NoStatement == [done |-> 0, failed |-> FALSE]

TunerInit ==
    /\ request \in Requests
    /\ tuning = "check" /\ iteration = 0
    /\ settings = request.settings /\ live = request.settings
    /\ indexes = request.indexes /\ rows = FALSE
    /\ context = live /\ before = settings /\ had = indexes /\ recommendations = << >>
    /\ todo = {} /\ stmt = NoStatement /\ applied = << >> /\ all_changes = << >>
    /\ undo = {} /\ kept = {} /\ needs_reload = FALSE /\ regressed = << >>
    /\ faults = request.faults

-----------------------------------------------------------------------------
\* An early return with an error: no report, whatever was changed stays.
Abandon ==
    /\ tuning' = "error"
    /\ UNCHANGED <<request, iteration, advice, todo, stmt, changes, rollback, regressed, target, faults>>

\* A name that looks like production stops the run; reading the profile, the provider's name and
\* the connection may fail too.
CheckHostname ==
    /\ tuning = "check"
    /\ \/ /\ request.production => request.force
          /\ tuning' = "warmup"
          /\ UNCHANGED <<request, iteration, advice, todo, stmt, changes, rollback, regressed, target, faults>>
       \/ Abandon

\* run_replay: against a target that takes writes it leaves them there.
TunerReplays(next) ==
    /\ tuning' = next
    /\ rows' = (rows \/ (request.writes /\ ~request.read_only))
    /\ UNCHANGED <<settings, live, indexes>>

\* The baseline is replayed twice, before anything else, also in a dry run.
Baseline ==
    /\ \/ tuning = "warmup" /\ TunerReplays("measure")
       \/ tuning = "measure" /\ TunerReplays("iterate")
    /\ UNCHANGED <<request, iteration, advice, todo, stmt, changes, rollback, regressed, faults>>

BaselineFails == tuning \in {"warmup", "measure"} /\ Abandon

-----------------------------------------------------------------------------
CollectContext ==
    /\ tuning = "iterate" /\ iteration < request.max
    /\ iteration' = iteration + 1
    /\ context' = live /\ before' = settings /\ had' = indexes
    /\ recommendations' = << >> /\ applied' = << >> /\ kept' = {}
    /\ tuning' = "recommend"
    /\ UNCHANGED <<request, todo, stmt, all_changes, undo, needs_reload, regressed, target, faults>>

MaxIterations ==
    /\ tuning = "iterate" /\ iteration = request.max
    /\ tuning' = "report"
    /\ UNCHANGED <<request, iteration, advice, todo, stmt, changes, rollback, regressed, target, faults>>

CollectFails ==
    /\ tuning = "recommend" \/ (tuning = "iterate" /\ iteration < request.max)
    /\ Abandon

\* validate_recommendations: an allowed parameter, SQL that begins with CREATE INDEX, ANALYZE or
\* REINDEX whatever follows, any rewrite.
Safe(rec) ==
    CASE rec.type = "config" -> rec.name \in SafeParams
      [] rec.type = "index" -> rec.allowed
      [] rec.type = "schema" -> rec.parts # << >> /\ rec.parts[1].does \in {"create", "maintain"}
      [] OTHER -> TRUE

\* Mutant: what was validated is not what is applied.
safe_any == DOMAIN recommendations'
safe == {k \in DOMAIN recommendations' : Safe(recommendations'[k])}

\* Nothing recommended, nothing safe or a dry run end the loop.
Recommend ==
    /\ tuning = "recommend"
    /\ recommendations' \in Replies
    /\ IF safe = {} \/ ~request.apply
       THEN /\ tuning' = "report" /\ UNCHANGED todo
            /\ regressed' = IF recommendations' = << >> THEN regressed ELSE Append(regressed, FALSE)
       ELSE tuning' = "apply" /\ todo' = safe /\ UNCHANGED regressed
    /\ UNCHANGED <<request, iteration, context, before, had, stmt, changes, rollback, target, faults>>

-----------------------------------------------------------------------------
\* Outcomes of a statement; those that fail are bounded by faults.
Outcome(o) ==
    \/ o = "ok" /\ UNCHANGED faults
    \/ o \in {"refused", "lost"} /\ faults > 0 /\ faults' = faults - 1
ExecutedSql(o) == o \in {"ok", "lost"}

\* pg_reload_conf: what was written takes effect, except what needs a restart.
Reloaded == [p \in Params |-> IF p \in RestartParams THEN live[p] ELSE settings[p]]

Applied(k, success, rollback_sql) ==
    LET change == [rec |-> recommendations[k], success |-> success, rollback |-> rollback_sql]
    IN  applied' = Append(applied, change) /\ all_changes' = Append(all_changes, change)

First(k) == k \in todo /\ \A j \in todo : k <= j

\* ALTER SYSTEM SET; an error ends the change and leaves nothing to roll back.
AlterSystem ==
    /\ tuning = "apply"
    /\ \E k \in todo, o \in {"ok", "refused", "lost"} :
        LET rec == recommendations[k] IN
        /\ First(k) /\ rec.type = "config" /\ Outcome(o)
        /\ settings' = IF ExecutedSql(o) THEN [settings EXCEPT ![rec.name] = rec.recommended] ELSE settings
        /\ IF o = "ok"
           THEN tuning' = "reload" /\ UNCHANGED <<todo, changes>>
           ELSE todo' = todo \ {k} /\ Applied(k, FALSE, FALSE) /\ UNCHANGED tuning
    /\ UNCHANGED <<request, iteration, advice, stmt, rollback, regressed, live, indexes, rows>>

\* The change counts as a success only when the reload does too.
ReloadConf ==
    /\ tuning = "reload"
    /\ \E k \in todo, o \in {"ok", "refused", "lost"} :
        /\ First(k) /\ Outcome(o)
        /\ live' = IF ExecutedSql(o) THEN Reloaded ELSE live
        /\ Applied(k, o = "ok", TRUE)
        /\ todo' = todo \ {k}
    /\ tuning' = "apply"
    /\ UNCHANGED <<request, iteration, advice, stmt, rollback, regressed, settings, indexes, rows>>

\* CREATE INDEX of a name that exists fails by itself, with IF NOT EXISTS it does nothing.  The server
\* finds a name for an index that has none.  All of a text is done or none of it.
Creates(index, also, o) ==
    LET busy == indexes \cup also IN
    IF \/ also \cap indexes # {}
       \/ index.named /\ index.name \in (IF index.unless_exists THEN also ELSE busy)
       \/ ~index.named /\ busy = Indexes
    THEN o = "refused" /\ UNCHANGED <<indexes, faults>>
    ELSE /\ Outcome(o)
         /\ \E name \in IF index.named THEN {index.name} ELSE Indexes \ busy :
               indexes' = IF ExecutedSql(o) THEN busy \cup {name} ELSE indexes

\* Only a name gives a rollback.
CreateIndex ==
    /\ tuning = "apply"
    /\ \E k \in todo, o \in {"ok", "refused", "lost"} :
        LET rec == recommendations[k] IN
        /\ First(k) /\ rec.type = "index"
        /\ Creates(rec, rec.also, o)
        /\ Applied(k, o = "ok", o = "ok" /\ rec.named)
        /\ todo' = todo \ {k}
    /\ UNCHANGED <<request, tuning, iteration, advice, stmt, rollback, regressed, settings, live, rows>>

\* Informational only.
QueryRewrite ==
    /\ tuning = "apply"
    /\ \E k \in todo :
        /\ First(k) /\ recommendations[k].type = "rewrite"
        /\ Applied(k, TRUE, FALSE)
        /\ todo' = todo \ {k}
    /\ UNCHANGED <<request, tuning, iteration, advice, stmt, rollback, regressed, target, faults>>

\* The SQL is split on semicolons and every statement executed, also after one that failed.
BeginSchema ==
    /\ tuning = "apply"
    /\ \E k \in todo : First(k) /\ recommendations[k].type = "schema"
    /\ stmt' = NoStatement /\ tuning' = "schema"
    /\ UNCHANGED <<request, iteration, advice, todo, changes, rollback, regressed, target, faults>>

\* What one of them does to the target; another one may be anything.
Executes(part, o) ==
    \/ part.does = "create" /\ Creates(part, {}, o) /\ UNCHANGED settings
    \/ /\ part.does = "drop" /\ UNCHANGED settings
       /\ IF part.name \in indexes
          THEN Outcome(o) /\ indexes' = IF ExecutedSql(o) THEN indexes \ {part.name} ELSE indexes
          ELSE o = "refused" /\ UNCHANGED <<indexes, faults>>
    \/ /\ part.does = "set" /\ Outcome(o) /\ UNCHANGED indexes
       /\ settings' = IF ExecutedSql(o) THEN [settings EXCEPT ![part.name] = part.value] ELSE settings
    \/ part.does = "maintain" /\ Outcome(o) /\ UNCHANGED <<settings, indexes>>
    \/ part.does = "other" /\ UNCHANGED <<settings, indexes, faults>>

SchemaStatement ==
    /\ tuning = "schema"
    /\ \E k \in todo, o \in {"ok", "refused", "lost"} :
        LET parts == recommendations[k].parts IN
        /\ First(k) /\ stmt.done < Len(parts)
        /\ Executes(parts[stmt.done + 1], o)
        /\ stmt' = [done |-> stmt.done + 1, failed |-> stmt.failed \/ o # "ok"]
    /\ UNCHANGED <<request, tuning, iteration, advice, todo, changes, rollback, regressed, live, rows>>

SchemaChange ==
    /\ tuning = "schema"
    /\ \E k \in todo :
        /\ First(k) /\ stmt.done = Len(recommendations[k].parts)
        /\ Applied(k, ~stmt.failed, FALSE)
        /\ todo' = todo \ {k}
    /\ stmt' = NoStatement /\ tuning' = "apply"
    /\ UNCHANGED <<request, iteration, advice, rollback, regressed, target, faults>>

-----------------------------------------------------------------------------
succeeded == {k \in DOMAIN applied : applied[k].success}

NoSuccess ==
    /\ tuning = "apply" /\ todo = {} /\ succeeded = {}
    /\ tuning' = "report" /\ regressed' = Append(regressed, FALSE)
    /\ UNCHANGED <<request, iteration, advice, todo, stmt, changes, rollback, target, faults>>

\* What rollback_all takes back: a success that has a rollback statement.
to_undo == {k \in succeeded : applied[k].rollback}

\* The workload again; p95 worse than the baseline by more than 5% starts the rollback.
ReplayAfter ==
    /\ tuning = "apply" /\ todo = {} /\ succeeded # {}
    /\ \E worse \in BOOLEAN :
        /\ TunerReplays(IF worse THEN "rollback" ELSE "iterate")
        /\ regressed' = Append(regressed, worse)
        /\ undo' = IF worse THEN to_undo ELSE {}
    /\ UNCHANGED <<request, iteration, advice, todo, stmt, changes, kept, needs_reload, faults>>

ReplayAfterFails == tuning = "apply" /\ todo = {} /\ succeeded # {} /\ Abandon

\* Mutant: the first change first.
NextUndo_forward(k) == k \in undo /\ \A j \in undo : k <= j
\* The last change first.
NextUndo(k) == k \in undo /\ \A j \in undo : j <= k

\* The value before is the one the advisor named.
Restore ==
    /\ tuning = "rollback"
    /\ \E k \in undo, o \in {"ok", "refused", "lost"} :
        LET rec == applied[k].rec IN
        /\ NextUndo(k) /\ Outcome(o)
        /\ undo' = undo \ {k}
        /\ kept' = IF o = "ok" THEN kept ELSE kept \cup {k}
        /\ IF rec.type = "config"
           THEN /\ settings' = IF ExecutedSql(o) THEN [settings EXCEPT ![rec.name] = rec.current] ELSE settings
                /\ needs_reload' = (needs_reload \/ o = "ok")
                /\ UNCHANGED indexes
           ELSE /\ indexes' = IF ExecutedSql(o) THEN indexes \ {rec.name} ELSE indexes
                /\ UNCHANGED <<settings, needs_reload>>
    /\ UNCHANGED <<request, tuning, iteration, advice, todo, stmt, changes, regressed, live, rows>>

\* One reload by rollback_all, when it set a parameter, and one after it, always; the results of
\* both are ignored.
RestoreReload ==
    /\ tuning = "rollback" /\ undo = {}
    /\ \E o \in {"ok", "refused", "lost"} :
        /\ Outcome(o)
        /\ live' = IF ExecutedSql(o) THEN Reloaded ELSE live
    /\ needs_reload' = FALSE
    /\ tuning' = IF needs_reload THEN "rollback" ELSE "report"
    /\ UNCHANGED <<request, iteration, advice, todo, stmt, changes, undo, kept, regressed, settings, indexes, rows>>

TunerEnds == tuning \in {"report", "error"} /\ UNCHANGED tunerVars

TunerNext ==
    \/ CheckHostname \/ Baseline \/ BaselineFails
    \/ CollectContext \/ CollectFails \/ MaxIterations \/ Recommend
    \/ AlterSystem \/ ReloadConf \/ CreateIndex \/ QueryRewrite
    \/ BeginSchema \/ SchemaStatement \/ SchemaChange
    \/ NoSuccess \/ ReplayAfter \/ ReplayAfterFails \/ Restore \/ RestoreReload
    \/ TunerEnds

TunerSpec == TunerInit /\ [][TunerNext]_tunerVars

-----------------------------------------------------------------------------
(***************************************************************************)
(* Properties.                                                             *)
(***************************************************************************)
Execution == [done : Nat, failed : BOOLEAN]
Changes == [rec : Recommendations, success : BOOLEAN, rollback : BOOLEAN]

TunerTypeOK ==
    /\ request \in Requests
    /\ tuning \in {"check", "warmup", "measure", "iterate", "recommend", "apply", "reload", "schema",
                   "rollback", "report", "error"}
    /\ iteration \in 0..request.max
    /\ context \in [Params -> Values] /\ before \in [Params -> Values] /\ had \subseteq Indexes
    /\ recommendations \in Seq(Recommendations) /\ todo \subseteq DOMAIN recommendations
    /\ stmt \in Execution
    /\ applied \in Seq(Changes) /\ all_changes \in Seq(Changes)
    /\ undo \subseteq DOMAIN applied /\ kept \subseteq DOMAIN applied /\ needs_reload \in BOOLEAN
    /\ regressed \in Seq(BOOLEAN)
    /\ settings \in [Params -> Values] /\ live \in [Params -> Values]
    /\ indexes \subseteq Indexes /\ rows \in BOOLEAN /\ faults \in Nat

May == request.apply /\ (request.production => request.force)
Named(p) == \E k \in DOMAIN all_changes : all_changes[k].rec.type = "config" /\ all_changes[k].rec.name = p
\* ALTER SYSTEM was executed, its change is recorded with the reload.
Altering(p) == tuning = "reload" /\ \E k \in todo : recommendations[k].type = "config" /\ recommendations[k].name = p

\* A schema change writes a parameter, in a statement behind the first; and such a change was executed.
Sets(rec, p) == rec.type = "schema" /\ \E i \in DOMAIN rec.parts : rec.parts[i].does = "set" /\ rec.parts[i].name = p
Unlisted(p) ==
    \/ \E k \in DOMAIN all_changes : Sets(all_changes[k].rec, p)
    \/ tuning = "schema" /\ \E k \in todo : First(k) /\ Sets(recommendations[k], p)

\* A parameter of the target that is not as the run found it was asked for with apply on a target
\* whose name is not production's (or with force), is one the allowlist names, and is among the
\* changes the run accounts for: also when statements fail with their effect done, when a rollback
\* goes wrong and when the run is abandoned (mod.rs, apply_all, rollback_all).  It leaves room for
\* what docs/tuning.md:97-99 rules out and the code does: of "ANALYZE; ALTER SYSTEM SET ..." only
\* the beginning is looked at (safety.rs:105-120), and all of it is executed (apply.rs:85-99).
Accounted ==
    \A p \in Params : settings[p] # request.settings[p] \/ live[p] # request.settings[p] =>
        May /\ (Unlisted(p) \/ (p \in SafeParams /\ (Named(p) \/ Altering(p))))

\* The advisor named the value it was shown, or the one an earlier recommendation of the list sets.
Honest ==
    \A k \in DOMAIN recommendations : recommendations[k].type = "config" =>
        \/ recommendations[k].current = context[recommendations[k].name]
        \/ \E j \in DOMAIN recommendations :
              /\ j < k /\ recommendations[j].type = "config"
              /\ recommendations[j].name = recommendations[k].name
              /\ recommendations[j].recommended = recommendations[k].current

FailedOn(p) == \E k \in DOMAIN applied :
    /\ applied[k].rec.type = "config" /\ applied[k].rec.name = p
    /\ ~applied[k].success \/ k \in kept
GotSlower == regressed # << >> /\ regressed[Len(regressed)]

\* Schema changes are not undone.
SetBySchema(p) == \E k \in DOMAIN applied : Sets(applied[k].rec, p)
\* A statement creates or drops an index, or may.
Touches(s, n) == s.does \in {"create", "drop"} /\ (s.name = n \/ (s.does = "create" /\ ~s.named))
IndexExcused(n) == \E k \in DOMAIN applied :
    LET rec == applied[k].rec IN
    \/ rec.type = "schema" /\ \E i \in DOMAIN rec.parts : Touches(rec.parts[i], n)
    \/ rec.type = "index" /\ (~rec.named \/ n \in rec.also)
    \/ rec.type = "index" /\ rec.name = n /\ ((rec.unless_exists /\ n \in had) \/ ~applied[k].success \/ k \in kept)

\* After a regression the iteration is undone: every parameter is written back to the value it had
\* when the context was read, or to the one the server ran with then, and the indexes are the ones
\* that were there, unless the report names a failed change or a failed rollback.  This needs the
\* reverse order of rollback_all when one list changes a parameter twice.  docs/tuning.md:119-124
\* promises it of every index.  The code does not undo a schema change (docs/tuning.md:75 says so),
\* an index that has no name in the text or is not the text's first (apply.rs:56-65), and takes back
\* IF NOT EXISTS by dropping the index also when it was there before: these are left out.
RegressionUndone ==
    tuning = "report" /\ GotSlower /\ Honest =>
        /\ \A p \in Params : settings[p] \in {before[p], context[p]} \/ FailedOn(p) \/ SetBySchema(p)
        /\ \A n \in Indexes : (n \in indexes <=> n \in had) \/ IndexExcused(n)

\* docs/tuning.md: without apply the target is not modified.
DryRunHarmless ==
    ~request.apply => settings = request.settings /\ indexes = request.indexes /\ ~rows
=============================================================================
