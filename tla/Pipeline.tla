------------------------------ MODULE Pipeline ------------------------------
(***************************************************************************)
(* pg-retest run, replay, ab, compare, inspect (main.rs, pipeline/mod.rs,        *)
(* config/mod.rs, provision/mod.rs): a workload is read or captured, a     *)
(* target provisioned, the scaled workload replayed, what happened         *)
(* compared with what was captured, and the verdict becomes the exit code. *)
(*                                                                         *)
(* An error is the set of those words of its message classify_error looks  *)
(* for.  The environment (files, docker, the target) fails when it likes.  *)
(***************************************************************************)
EXTENDS Comparison

CONSTANTS
    Configs,       \* what the commands are asked, see PipelineAssumption
    ReadyAttempts  \* how often wait_for_pg asks

ASSUME PipelineAssumption ==
    /\ ReadyAttempts \in Nat \ {0}
    /\ \A c \in Configs :
        /\ c.command \in {"run", "replay", "ab", "compare", "inspect"}
        /\ c.capture \in {"missing", "workload", "log", "unknown"}
        /\ c.provision \in {"missing", "connection", "docker", "other"}
        /\ {c.target, c.read_only, c.mask_values, c.restore, c.has_thresholds, c.json, c.junit,
            c.fail_on_regression, c.fail_on_error} \subseteq BOOLEAN
        /\ c.variants \in Nat /\ c.scale \in Nat /\ c.stagger_us \in Nat
        /\ c.class_scales = << >> \/ c.class_scales \in [Classes -> Nat]
        /\ c.profile \in Seq([id : Nat, queries : Seq([sql : STRING, kind : STRING, start_offset_us : Nat,
                                                      duration_us : Nat, transaction_id : Nat])])
        /\ c.threshold_pct \in Nat
        /\ {c.thresholds.p95_max, c.thresholds.p99_max, c.thresholds.error_rate_max_pct,
            c.thresholds.regression_max_count} \subseteq SUBSET Nat

VARIABLES
    config,     \* PipelineConfig, or the arguments of the command
    stage,      \* where the command is
    attempts,   \* of wait_for_pg
    container,  \* "none", "up" or "removed"
    restored,   \* of the backup: "none", "some" or "all"
    masked,     \* was the workload masked
    replayed,   \* replay_profile
    results,    \* of each variant, or of the target, what run_replay returned
    refused,    \* of each, how many sessions it dropped with a warning
    report, checks, files, exit_code

pipelineVars == <<config, stage, attempts, container, restored, masked, replayed, results, refused,
                  report, checks, files, exit_code>>

None == -1

PipelineInit ==
    /\ config \in Configs /\ stage = "config"
    /\ attempts = 0 /\ container = "none" /\ restored = "none" /\ masked = FALSE
    /\ replayed = << >> /\ results = << >> /\ refused = << >>
    /\ report = << >> /\ checks = << >> /\ files = {} /\ exit_code = None

To(next) == stage' = next /\ UNCHANGED exit_code
Exit(code) == stage' = "exit" /\ exit_code' = code

\* run_pipeline: the first word that matches decides.
classify_error(words) ==
    CASE words \cap {"Config", "parse", "TOML"} # {} -> 2
      [] words \cap {"Config", "parse", "TOML"} = {} /\ "Capture error" \in words -> 3
      [] words \cap {"Config", "parse", "TOML", "Capture error"} = {}
            /\ words \cap {"Provision error", "Docker", "container"} # {} -> 4
      [] OTHER -> 5
\* The other commands return the error from main.
Fail(words) == Exit(IF config.command = "run" THEN classify_error(words) ELSE 1)

-----------------------------------------------------------------------------
\* validate_config: something to capture, and somewhere to replay.
HasVariants == config.variants >= 2
Valid == /\ config.capture # "missing"
         /\ HasVariants \/ config.target \/ config.provision \in {"connection", "docker"}

LoadConfig ==
    /\ stage = "config"
    /\ \/ (config.command = "run" => Valid) /\ To("capture")
       \/ config.command = "run" /\ Exit(2)
    /\ UNCHANGED <<config, attempts, container, restored, masked, replayed, results, refused, report, checks, files>>

\* A workload file is taken as it is; values are masked only in what was captured from a log.
LoadOrCapture ==
    /\ stage = "capture" /\ config.capture # "unknown"
    /\ masked' = (config.capture = "log" /\ config.mask_values)
    /\ To(CASE config.command = "compare" -> "replayed"
            [] config.command = "inspect" -> "inspect"
            [] config.command = "ab" \/ (config.command = "run" /\ HasVariants) -> "variants"
            [] config.command = "run" /\ ~HasVariants -> "provision"
            [] OTHER -> "replay")
    /\ UNCHANGED <<config, attempts, container, restored, replayed, results, refused, report, checks, files>>

\* An unreadable file or an unknown source; the file list of RDS may not parse.
CaptureFails ==
    /\ stage = "capture"
    /\ \/ Fail({"Capture error"})
       \/ config.capture = "log" /\ Fail({"Capture error", "parse"})
    /\ UNCHANGED <<config, attempts, container, restored, masked, replayed, results, refused, report, checks, files>>

-----------------------------------------------------------------------------
(* provision_target; everything docker says may be an error. *)
Provisioning(words) ==
    /\ Fail({"Provision error"} \cup words)
    /\ UNCHANGED <<config, attempts, container, restored, masked, replayed, results, refused, report, checks, files>>

\* [replay].target wins over [provision], connection_string over docker.
UseTarget ==
    /\ stage = "provision" /\ (config.target \/ config.provision = "connection")
    /\ To("replay")
    /\ UNCHANGED <<config, attempts, container, restored, masked, replayed, results, refused, report, checks, files>>

Docker == stage = "provision" /\ ~config.target /\ config.provision = "docker"
DockerFails == Docker /\ (Provisioning({"Docker"}) \/ Provisioning({}))

DockerRun ==
    /\ Docker /\ container' = "up"
    /\ To("port")
    /\ UNCHANGED <<config, attempts, restored, masked, replayed, results, refused, report, checks, files>>

\* What docker port prints may not be a port.
MappedPort ==
    /\ stage = "port"
    /\ \/ /\ To("wait")
          /\ UNCHANGED <<config, attempts, container, restored, masked, replayed, results, refused, report, checks, files>>
       \/ Provisioning({"container"}) \/ Provisioning({"parse"})

WaitForPg ==
    /\ stage = "wait" /\ attempts < ReadyAttempts
    /\ attempts' = attempts + 1
    /\ \/ To("wait")
       \/ To(IF config.restore THEN "restore" ELSE "replay")
    /\ UNCHANGED <<config, container, restored, masked, replayed, results, refused, report, checks, files>>
NeverReady == stage = "wait" /\ attempts = ReadyAttempts /\ Provisioning({})

\* Only a failure psql calls FATAL or "could not" counts: statements of the backup may fail.
RestoreBackup ==
    /\ stage = "restore"
    /\ \/ /\ restored' \in {"some", "all"}
          /\ To("replay")
          /\ UNCHANGED <<config, attempts, container, masked, replayed, results, refused, report, checks, files>>
       \/ Provisioning({}) \/ Provisioning({"container"})

-----------------------------------------------------------------------------
\* By class when any class is named, else uniformly.
Scaled(scaled) ==
    IF config.class_scales # << >>
    THEN \E order \in SetToSeqs({classify_session(config.profile[s]) : s \in DOMAIN config.profile}) :
            scaled = scale_sessions_by_class(config.profile, config.class_scales, config.stagger_us, order)
    ELSE scaled = scale_sessions(config.profile, config.scale, config.stagger_us)

Replays(query, read_only) == read_only => query.kind = "Select"

\* A session is replayed as fast, slower, with an error in its last query, or not at all.
Ways == {"same", "slow", "error", "refused"}
QueryResults(session, way, read_only) ==
    LET queries == Those(session.queries, LAMBDA q : Replays(q, read_only)) IN
    [k \in DOMAIN queries |->
        [sql |-> queries[k].sql, original_duration_us |-> queries[k].duration_us,
         replay_duration_us |-> IF way = "slow" THEN 2 * queries[k].duration_us + 1 ELSE queries[k].duration_us,
         success |-> ~(way = "error" /\ k = Len(queries))]]

\* run_replay: a session that returned an error is a warning, its results are not in the list.
Returned(profile, ways) == Those([s \in DOMAIN profile |-> s], LAMBDA s : ways[s] # "refused")
Replay(profile, ways) ==
    /\ results' = Append(results, Each(Returned(profile, ways), LAMBDA s :
                    [session_id |-> profile[s].id, query_results |-> QueryResults(profile[s], ways[s], config.read_only)]))
    /\ refused' = Append(refused, Len(profile) - Len(Returned(profile, ways)))

RunReplay ==
    /\ stage = "replay"
    /\ Scaled(replayed')
    /\ \E ways \in [DOMAIN replayed' -> Ways] : Replay(replayed', ways)
    /\ To("replayed")
    /\ UNCHANGED <<config, attempts, container, restored, masked, report, checks, files>>

\* Variants are not provisioned and not scaled.
RunVariant ==
    /\ stage = "variants" /\ Len(results) < config.variants
    /\ replayed' = config.profile
    /\ \E ways \in [DOMAIN replayed' -> Ways] : Replay(replayed', ways)
    /\ To("variants")
    /\ UNCHANGED <<config, attempts, container, restored, masked, report, checks, files>>

\* A session's task panicked, or there is no runtime.
ReplayFails ==
    /\ stage \in {"replay", "variants"} /\ Len(results) < 1 + config.variants
    /\ Fail({})
    /\ UNCHANGED <<config, attempts, container, restored, masked, replayed, results, refused, report, checks, files>>

-----------------------------------------------------------------------------
\* compare reads what an earlier replay of the profile wrote.
ReadResults ==
    /\ stage = "replayed" /\ config.command = "compare" /\ results = << >>
    /\ replayed' = config.profile
    /\ \E ways \in [DOMAIN replayed' -> Ways] : Replay(replayed', ways)
    /\ To("replayed")
    /\ UNCHANGED <<config, attempts, container, restored, masked, report, checks, files>>

Compare ==
    /\ stage = "replayed" /\ config.command \in {"run", "compare"} /\ results # << >>
    /\ report' = compute_comparison(replayed, results[1], config.threshold_pct)
    /\ checks' = IF config.command = "run" /\ config.has_thresholds
                 THEN evaluate_thresholds(report', config.thresholds) ELSE << >>
    /\ To("report")
    /\ UNCHANGED <<config, attempts, container, restored, masked, replayed, results, refused, files>>

CompareVariants ==
    /\ stage = "variants" /\ Len(results) = config.variants
    /\ report' = compute_ab_comparison(Each(results, from_results), config.threshold_pct)
    /\ To("report")
    /\ UNCHANGED <<config, attempts, container, restored, masked, replayed, results, refused, checks, files>>

\* cmd_replay: the scale report looks at --scale only.
WriteResults ==
    /\ stage = "replayed" /\ config.command = "replay"
    /\ report' = IF config.scale > 1 THEN compute_scale_report(results[1]) ELSE << >>
    /\ files' = {"results"}
    /\ Exit(0)
    /\ UNCHANGED <<config, attempts, container, restored, masked, replayed, results, refused, checks>>

Inspect ==
    /\ stage = "inspect"
    /\ report' = [class |-> classify_workload(config.profile)]
    /\ Exit(0)
    /\ UNCHANGED <<config, attempts, container, restored, masked, replayed, results, refused, checks, files>>

Single == config.command = "run" /\ ~HasVariants
Asked == (IF config.json THEN {"json"} ELSE {}) \cup (IF config.junit /\ Single THEN {"junit"} ELSE {})
WriteReports ==
    /\ stage = "report"
    /\ files' = Asked
    /\ IF Single THEN To("teardown")
       ELSE Exit(IF config.command = "compare"
                 THEN evaluate_outcome(report, config.fail_on_regression, config.fail_on_error) ELSE 0)
    /\ UNCHANGED <<config, attempts, container, restored, masked, replayed, results, refused, report, checks>>

\* The first report may have been written.
WriteFails ==
    /\ stage = "report" /\ Asked # {}
    /\ files' \in {{}} \cup (IF "junit" \in Asked THEN {Asked \ {"junit"}} ELSE {})
    /\ Fail({})
    /\ UNCHANGED <<config, attempts, container, restored, masked, replayed, results, refused, report, checks>>

\* docker rm -f; that it failed is a warning.
Teardown ==
    /\ stage = "teardown"
    /\ container' \in {container, IF container = "up" THEN "removed" ELSE container}
    /\ Exit(IF all_passed(checks) THEN 0 ELSE 1)
    /\ UNCHANGED <<config, attempts, restored, masked, replayed, results, refused, report, checks, files>>

PipelineEnds == stage = "exit" /\ UNCHANGED pipelineVars

PipelineNext ==
    \/ LoadConfig \/ LoadOrCapture \/ CaptureFails
    \/ UseTarget \/ DockerFails \/ DockerRun \/ MappedPort \/ WaitForPg \/ NeverReady \/ RestoreBackup
    \/ RunReplay \/ RunVariant \/ ReplayFails \/ ReadResults
    \/ Compare \/ CompareVariants \/ WriteResults \/ Inspect \/ WriteReports \/ WriteFails \/ Teardown
    \/ PipelineEnds

PipelineSpec == PipelineInit /\ [][PipelineNext]_pipelineVars

-----------------------------------------------------------------------------
(***************************************************************************)
(* Properties.                                                             *)
(***************************************************************************)
Ran == Executed(results[1])
SlowerThan(us) == CountOf(Ran, LAMBDA q : q.replay_duration_us > us)
\* By more than the threshold (compare/mod.rs:76, docs/compare.md:145; docs/pipeline.md:206 has it "at least").
Regressed == CountOf(Ran, LAMBDA q :
    q.original_duration_us > 0 /\ Slower(q.original_duration_us, q.replay_duration_us, config.threshold_pct))
\* What the limits mean, without a percentile: at most that share of the queries, to the next one, is slower.
LimitsHold ==
    /\ \A us \in config.thresholds.p95_max : 20 * SlowerThan(us) < Len(Ran) + 9
    /\ \A us \in config.thresholds.p99_max : 100 * SlowerThan(us) < Len(Ran) + 49
    /\ \A pct \in config.thresholds.error_rate_max_pct : 100 * Errors(Ran) <= pct * Len(Ran)
    /\ \A n \in config.thresholds.regression_max_count : Regressed <= n

\* Every session was replayed, and a query that failed is one a limit speaks of.
ReplaySucceeded ==
    refused[1] = 0 /\ (Errors(Ran) > 0 => config.has_thresholds /\ config.thresholds.error_rate_max_pct # {})
RunVerdict ==
    Single /\ exit_code \in {0, 1} /\ ReplaySucceeded =>
        /\ Len(results[1]) = Len(replayed)
        /\ exit_code = 0 <=> (config.has_thresholds => LimitsHold)
        /\ files = Asked
        /\ exit_code = 1 => junit(checks).failures > 0

CompareVerdict ==
    config.command = "compare" /\ report # << >> /\ stage = "exit" /\ ~config.json =>
        /\ exit_code = 2 <=> config.fail_on_error /\ Errors(Ran) > 0
        /\ exit_code = 1 => config.fail_on_regression /\ Regressed > 0
        /\ exit_code = 0 => ~config.fail_on_regression \/ Regressed = 0

\* When no session was refused, positions are the same query.
VariantsVerdict ==
    Len(results) > 1 /\ report # << >> =>
        /\ \A v \in DOMAIN results : from_results(results[report.winner]).avg_latency_us <= from_results(results[v]).avg_latency_us
        /\ (\A v \in DOMAIN refused : refused[v] = 0) =>
               \A k \in DOMAIN report.regressions : report.regressions[k].sql = report.regressions[k].base

Having(c) == CountOf(config.profile, LAMBDA s : classify_session(s) = c)
InspectVerdict ==
    config.command = "inspect" /\ report # << >> => \A c \in Classes : Having(c) <= Having(report.class)

\* The exit code says what happened to the queries that were executed: 0 exactly when every limit of
\* the configuration holds of them (pipeline/mod.rs, threshold.rs), compare's 2 before its 1
\* (evaluate_outcome), no variant is faster than the winner (ab.rs), nor any class more
\* frequent than the workload's (classify_workload); the reports asked for are there.  It says nothing
\* of a run whose replay did not succeed: docs/pipeline.md:210, 503 and 508 give it exit code 5 when
\* connections are refused or queries fail, but a session that fails is only a warning
\* (session.rs:240-253) and its queries are missing from what is judged, so that the code exits with
\* 0, or with 1 for a limit of the other sessions, also when every session was refused.
VerdictTrue == RunVerdict /\ CompareVerdict /\ VariantsVerdict /\ InspectVerdict

Text(session) == Each(session.queries, LAMBDA q : q.sql)
Distinct(profile) == \A s, t \in DOMAIN profile :
    s # t => profile[s].id # profile[t].id /\ Text(profile[s]) # Text(profile[t])
CopiesOf(s) == {k \in DOMAIN replayed : Text(replayed[k]) = Text(config.profile[s])}
WasScaled == config.command \in {"run", "replay"} /\ ~HasVariants /\ replayed # << >>
HowOften(s) ==
    IF config.class_scales # << >> THEN config.class_scales[classify_session(config.profile[s])]
    ELSE IF config.scale = 0 THEN 1 ELSE config.scale
Numbered == {config.profile[s].id : s \in DOMAIN config.profile} = DOMAIN config.profile

\* A scaled replay runs each captured session as often as its class asks, a class of 0 never, no two
\* at one stagger; scaled by class, in the order of the first queries and under ids of their own.
\* Scaled uniformly it says so of the ids only when the captured ones are 1 to n: docs/replay.md 130
\* has each copy get unique ids, but scaling.rs 18 gives id + copy * n, so 1 and 3 collide at a scale of 2.
ScaledRight ==
    WasScaled /\ Distinct(config.profile) =>
        /\ \A s \in DOMAIN config.profile :
              /\ Cardinality(CopiesOf(s)) = HowOften(s)
              /\ config.stagger_us > 0 /\ config.profile[s].queries # << >> =>
                    \A j, k \in CopiesOf(s) : j # k => FirstOffset(replayed[j]) # FirstOffset(replayed[k])
        /\ config.class_scales # << >> \/ Numbered =>
              \A j, k \in DOMAIN replayed : j # k => replayed[j].id # replayed[k].id
        /\ config.class_scales # << >> =>
              \A j, k \in DOMAIN replayed : j < k => FirstOffset(replayed[j]) <= FirstOffset(replayed[k])
=============================================================================
