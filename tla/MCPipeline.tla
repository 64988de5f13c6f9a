----------------------------- MODULE MCPipeline -----------------------------
(* Instances of Pipeline for TLC.                                           *)
EXTENDS Pipeline, TLC

Query(sql, kind, offset, duration) ==
    [sql |-> sql, kind |-> kind, start_offset_us |-> offset, duration_us |-> duration, transaction_id |-> 0]
Bulk == [id |-> 7, queries |-> <<Query("insert", "Insert", 5, 100), Query("update", "Update", 9, 200)>>]
Analytical == [id |-> 3, queries |-> <<Query("report", "Select", 0, 20000)>>]
Transactional ==
    [id |-> 4, queries |-> [k \in 1..9 |-> CASE k % 3 = 1 -> Query("begin", "Begin", k, 10)
                                            [] k % 3 = 2 -> Query("write", IF k = 8 THEN "Select" ELSE "Update", k, 100)
                                            [] OTHER -> Query("commit", "Commit", k, 10)]]
Empty == [id |-> 1, queries |-> << >>]
Plain(id) == [id |-> id, queries |-> <<Query(IF id = 1 THEN "select" ELSE "select2", "Select", id, 100), Query("other", "Other", id + 1, 0)>>]

Limits(p95, p99, rate, count) ==
    [p95_max |-> p95, p99_max |-> p99, error_rate_max_pct |-> rate, regression_max_count |-> count]
NoLimits == Limits({}, {}, {}, {})
AllLimits == Limits({20000}, {40001}, {25}, {1})

Asks(command, profile, options) ==
    options @@ [command |-> command, profile |-> profile, capture |-> "workload", provision |-> "missing",
                target |-> TRUE, read_only |-> FALSE, mask_values |-> FALSE, restore |-> FALSE,
                has_thresholds |-> FALSE, thresholds |-> NoLimits, threshold_pct |-> 20, json |-> FALSE,
                junit |-> FALSE, variants |-> 0, scale |-> 1, stagger_us |-> 10, class_scales |-> << >>,
                fail_on_regression |-> FALSE, fail_on_error |-> FALSE]

Scales(a, t, m, b) ==
    [c \in Classes |-> CASE c = "Analytical" -> a [] c = "Transactional" -> t [] c = "Mixed" -> m [] OTHER -> b]

Runs ==
    { Asks("run", <<Bulk, Analytical>>,
           [capture |-> "log", mask_values |-> TRUE, target |-> FALSE, provision |-> "docker", restore |-> TRUE,
            has_thresholds |-> TRUE, thresholds |-> AllLimits, json |-> TRUE, junit |-> TRUE,
            class_scales |-> Scales(2, 1, 1, 0)]),
      Asks("run", <<Bulk, Transactional, Empty, Analytical>>, [class_scales |-> Scales(1, 2, 1, 1)]),
      Asks("run", <<Analytical, Bulk, Plain(2)>>, [has_thresholds |-> TRUE, thresholds |-> AllLimits]),
      Asks("run", <<Plain(1), Plain(2)>>,
           [has_thresholds |-> TRUE, thresholds |-> Limits({100}, {}, {0}, {}), scale |-> 2, read_only |-> TRUE]),
      Asks("run", << >>, [has_thresholds |-> TRUE, thresholds |-> AllLimits]),
      Asks("run", <<Plain(1)>>, [target |-> FALSE, provision |-> "connection", capture |-> "unknown"]),
      Asks("run", <<Plain(1)>>, [target |-> FALSE, provision |-> "other"]),
      Asks("run", <<Plain(1), Analytical>>, [variants |-> 2, json |-> TRUE]) }
Others ==
    { Asks("replay", <<Plain(1), Plain(2)>>, [scale |-> 2, has_thresholds |-> FALSE]),
      Asks("replay", <<Bulk, Plain(2)>>, [scale |-> 0]),
      Asks("inspect", <<Bulk, Plain(2), Transactional, Plain(1)>>, << >>),
      Asks("ab", <<Plain(1), Bulk>>, [variants |-> 2]),
      Asks("compare", <<Plain(1), Bulk>>, [fail_on_regression |-> TRUE, fail_on_error |-> TRUE]),
      Asks("compare", <<Plain(1), Bulk>>, [fail_on_regression |-> TRUE, json |-> TRUE]) }
AllConfigs == Runs \cup Others
=============================================================================
