----------------------------- MODULE Comparison -----------------------------
(***************************************************************************)
(* compare/: the report on a replay, its thresholds, the outcome and the   *)
(* comparison of variants.  Results are a sequence, one element for each   *)
(* session that was replayed, of [session_id, query_results]; a query      *)
(* result is [sql, original_duration_us, replay_duration_us, success].     *)
(* An optional number is a set of at most one.                             *)
(***************************************************************************)
EXTENDS Integers, Scaling

Round(part, whole) == (2 * part + whole) \div (2 * whole)
Sorted(numbers) == SortByKey(numbers, LAMBDA n : n)
avg(numbers) == IF numbers = << >> THEN 0 ELSE Round(Total(numbers), Len(numbers))

\* Mutant: the rank is cut off instead of rounded.
percentile_floor(sorted, pct) ==
    IF sorted = << >> THEN 0 ELSE sorted[((pct * (Len(sorted) - 1)) \div 100) + 1]
percentile(sorted, pct) ==
    IF sorted = << >> THEN 0 ELSE sorted[Round(pct * (Len(sorted) - 1), 100) + 1]

Executed(results) == FlattenSeq(Each(results, LAMBDA r : r.query_results))
Latencies(queries) == Sorted(Each(queries, LAMBDA q : q.replay_duration_us))
Errors(queries) == CountOf(queries, LAMBDA q : ~q.success)
\* Change from old to new exceeds pct percent.
Slower(old, new, pct) == 100 * (new - old) > pct * old

\* Of two changes from a positive time, is the first the worse one?
Worse(a, b) == (a.new - a.old) * b.old > (b.new - b.old) * a.old

compute_comparison(source, results, threshold_pct) ==
    LET before == Sorted(FlattenSeq(Each(source, LAMBDA s : Each(s.queries, LAMBDA q : q.duration_us))))
        executed == Executed(results)
        after == Latencies(executed)
        regressed == Those(executed, LAMBDA q :
            /\ q.original_duration_us > 0
            /\ Slower(q.original_duration_us, q.replay_duration_us, threshold_pct))
    IN  [total_queries_source |-> Len(before), total_queries_replayed |-> Len(after),
         total_errors |-> Errors(executed),
         source_avg_latency_us |-> avg(before), replay_avg_latency_us |-> avg(after),
         source_p95_latency_us |-> percentile(before, 95), replay_p95_latency_us |-> percentile(after, 95),
         replay_p99_latency_us |-> percentile(after, 99),
         regressions |-> Sort(Each(regressed, LAMBDA q :
            [sql |-> q.sql, old |-> q.original_duration_us, new |-> q.replay_duration_us]), Worse)]

\* Errors before regressions: 2, 1 or 0.
evaluate_outcome(report, fail_on_regression, fail_on_error) ==
    CASE fail_on_error /\ report.total_errors > 0 -> 2
      [] ~(fail_on_error /\ report.total_errors > 0) /\ fail_on_regression /\ report.regressions # << >> -> 1
      [] OTHER -> 0

\* The checks that are configured, in order; limits are in microseconds, percent and regressions.
Check(name, limits, passed) == IF limits = {} THEN << >> ELSE <<[name |-> name, passed |-> passed]>>
evaluate_thresholds(report, config) ==
       Check("p95_latency", config.p95_max, \A us \in config.p95_max : report.replay_p95_latency_us <= us)
    \o Check("p99_latency", config.p99_max, \A us \in config.p99_max : report.replay_p99_latency_us <= us)
    \o Check("error_rate", config.error_rate_max_pct, \A pct \in config.error_rate_max_pct :
          100 * report.total_errors <= pct * report.total_queries_replayed)
    \o Check("regression_count", config.regression_max_count, \A n \in config.regression_max_count :
          Len(report.regressions) <= n)
all_passed(checks) == \A k \in DOMAIN checks : checks[k].passed
\* What write_junit_xml says.
junit(checks) == [tests |-> Len(checks), failures |-> CountOf(checks, LAMBDA c : ~c.passed)]

-----------------------------------------------------------------------------
from_results(results) ==
    LET executed == Executed(results) IN
    [queries |-> executed, avg_latency_us |-> avg(Latencies(executed)),
     p95_latency_us |-> percentile(Latencies(executed), 95), total_errors |-> Errors(executed)]

\* Query k of a variant with query k of the baseline, whatever they are.
compute_ab_comparison(variants, threshold_pct) ==
    LET base == variants[1].queries
        Changed(v, P(_, _)) ==
            LET queries == variants[v].queries
                pairs == [k \in 1..(IF Len(queries) <= Len(base) THEN Len(queries) ELSE Len(base)) |->
                            [sql |-> queries[k].sql, base |-> base[k].sql, variant |-> v,
                             old |-> base[k].replay_duration_us, new |-> queries[k].replay_duration_us]]
            IN  Those(pairs, LAMBDA p : p.old # 0 /\ P(p.old, p.new))
        All(P(_, _)) == FlattenSeq([v \in 1..(Len(variants) - 1) |-> Changed(v + 1, P)])
    IN  [regressions |-> Sort(All(LAMBDA o, n : Slower(o, n, threshold_pct)), Worse),
         improvements |-> Sort(All(LAMBDA o, n : 100 * (n - o) < 0 - threshold_pct * o), LAMBDA a, b : Worse(b, a)),
         \* The lowest average, the first of equal ones: also one that ran nothing.
         winner |-> CHOOSE w \in DOMAIN variants : \A v \in DOMAIN variants :
             \/ variants[w].avg_latency_us < variants[v].avg_latency_us
             \/ variants[w].avg_latency_us = variants[v].avg_latency_us /\ w <= v]

compute_scale_report(results) ==
    LET executed == Executed(results) IN
    [total_sessions |-> Len(results), total_queries |-> Len(executed),
     avg_latency_us |-> avg(Latencies(executed)), error_count |-> Errors(executed)]
=============================================================================
