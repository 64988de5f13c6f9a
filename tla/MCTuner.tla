------------------------------- MODULE MCTuner -------------------------------
(* Instances of Tuner for TLC.                                               *)
EXTENDS Tuner

CONSTANTS work_mem, shared_buffers, data_directory, idx, idx_2

Config(name, current, recommended) ==
    [type |-> "config", name |-> name, current |-> current, recommended |-> recommended]
Index(named, unless_exists, also) ==
    [type |-> "index", name |-> idx, named |-> named, unless_exists |-> unless_exists, also |-> also, allowed |-> TRUE]
Schema(parts) == [type |-> "schema", parts |-> parts]
Create == [does |-> "create", name |-> idx, named |-> TRUE, unless_exists |-> FALSE]
Statement(does) == [does |-> does]

\* Nothing, one of each kind, a parameter changed twice in one list, from the value shown or from the
\* one before, indexes without a name, that may exist or come with another, texts of several statements.
Advice ==
    { << >>,
      <<Config(data_directory, 1, 2)>>,
      <<Config(work_mem, 1, 2), Config(work_mem, 2, 3)>>,
      <<Config(work_mem, 1, 3), Index(TRUE, FALSE, {}), Config(work_mem, 1, 2)>>,
      <<Config(work_mem, 2, 3), Config(shared_buffers, 1, 2)>>,
      <<Config(data_directory, 1, 3), [type |-> "rewrite"], Config(shared_buffers, 1, 3)>>,
      <<Schema(<<Create, Create>>), Schema(<<Statement("other"), Create>>), [type |-> "rewrite"]>>,
      <<Schema(<<Statement("maintain"), [does |-> "set", name |-> data_directory, value |-> 2]>>), Index(TRUE, TRUE, {})>>,
      <<Schema(<<Create, Statement("other"), [does |-> "drop", name |-> idx]>>), Index(FALSE, FALSE, {})>>,
      <<Index(TRUE, FALSE, {idx_2})>> }

Tuned(apply, force, production, read_only, max, existing, failing) ==
    [apply |-> apply, force |-> force, read_only |-> read_only, production |-> production, writes |-> TRUE,
     max |-> max, settings |-> [p \in Params |-> 1], indexes |-> existing, faults |-> failing]

TuningRequests ==
    { Tuned(TRUE, FALSE, FALSE, FALSE, 2, {}, 2),
      Tuned(TRUE, TRUE, TRUE, TRUE, 1, {idx}, 1),
      Tuned(TRUE, FALSE, TRUE, FALSE, 1, {}, 0),
      Tuned(FALSE, FALSE, FALSE, FALSE, 1, {}, 0) }
=============================================================================
