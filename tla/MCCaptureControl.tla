-------------------------- MODULE MCCaptureControl --------------------------
(* Instances of CaptureControl for TLC. *)
EXTENDS CaptureControl

CONSTANTS s1, s2

Setup(cs, queries, returning, errors, limit, timed, requested, ops, faulty, restarts) ==
    [clients |-> cs, queries |-> queries, returning |-> returning, errors |-> errors,
     max_queries |-> limit, timed |-> timed, commands |-> requested,
     operations |-> ops, anytime |-> FALSE, faults |-> faulty, crashes |-> restarts]

Plain == Setup({s1, s2}, 2, {1, 2}, FALSE, 0, FALSE, 3, {}, {}, 0)
\* Two captures, enough queries for both to reach the limit, one at a time.
Limited == Setup({s1}, 4, {}, FALSE, 2, FALSE, 2, {}, {}, 0)
Timed == Setup({s1}, 2, {}, TRUE, 0, TRUE, 2, {}, {}, 0)
Crashing == Setup({s1}, 2, {}, FALSE, 0, FALSE, 3, {"recover", "discard"}, {"read", "clear"}, 1)
Failing == Setup({s1}, 2, {}, FALSE, 0, FALSE, 3, {"recover"}, {"write", "insert"}, 0)

AllSetups == {Plain, Limited, Timed, Crashing, Failing}
=============================================================================
