------------------------------ MODULE MCReplay ------------------------------
(* Instances of Replay for TLC. *)
EXTENDS Replay, SequencesExt

Plain(stmt) == [stmt |-> stmt, returns |-> None, uses |-> None]
Returning(c) == [stmt |-> "write", returns |-> c, uses |-> None]
Using(c) == [stmt |-> "write", returns |-> None, uses |-> c]

Plains(stmts) == [i \in DOMAIN stmts |-> Plain(stmts[i])]

Setup(scripts, mode, limit, weak_begin, breaks) ==
    [script |-> scripts, read_only |-> mode, max_connections |-> limit,
     begin_fails |-> weak_begin, unreliable |-> breaks]

\* Every script of up to four statements, as one session.
Single ==
    {Setup(<<Plains(q)>>, FALSE, None, FALSE, FALSE) :
        q \in BoundedSeq({"begin", "commit", "rollback", "write", "select"}, 4)}

\* Statements that from_sql takes for others.
Misreadings ==
    {Setup(<<Plains(q)>>, FALSE, None, FALSE, FALSE) :
        q \in {<<"hidden_begin", "write", "write", "commit">>,
               <<"begin", "savepoint", "write", "rollback_work_to", "write", "commit">>,
               <<"begin", "write", "commit_chain", "write", "commit">>,
               <<"begin", "write", "prepare", "write">>,
               <<"hidden_begin", "savepoint", "write", "rollback_to", "write", "prepare">>}}

Savepoints ==
    {Setup(<<Plains(<<"begin", "write", "savepoint", "write", "rollback_to", "write", end>>)>>,
           FALSE, None, FALSE, breaks) : end \in {"commit", "rollback"}, breaks \in BOOLEAN}

ReadOnly ==
    {Setup(<<Plains(<<"begin", "write", "select", "commit", "select">>)>>,
           TRUE, None, FALSE, TRUE)}

\* Three sessions share the permits, the transaction ids and the id map.
Shared ==
    {Setup(<< <<Returning(2), Using(2), Using(1)>>,
              <<Plain("begin"), Returning(1), Using(1), Using(2), Plain("commit")>>,
              <<Plain("begin"), Plain("write"), Plain("commit")>> >>,
           FALSE, limit, FALSE, FALSE) : limit \in {None, 1, 2}}

Unreliable ==
    {Setup(<< Plains(<<"begin", "write", "commit">>),
              Plains(<<"write">>) >>, FALSE, 1, FALSE, TRUE)}

\* A failed BEGIN turns a transaction of one write into an autocommit.
WeakBegin == {Setup(<<Plains(<<"begin", "write", "commit">>)>>, FALSE, None, TRUE, FALSE)}

AllSetups ==
    Single \cup Misreadings \cup Savepoints \cup ReadOnly \cup Shared \cup Unreliable
        \cup WeakBegin

ASSUME Sensible ==
    /\ \A u \in AllSetups : Distinct(u)
    /\ \A u \in Misreadings : ~Legible(u)
    /\ \A u \in AllSetups \ (Single \cup Misreadings) : Regular(u)
=============================================================================
