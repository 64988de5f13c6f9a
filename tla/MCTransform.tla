----------------------------- MODULE MCTransform -----------------------------
(* Instances of Transform for TLC.                                          *)
EXTENDS Transform
Q(tables, start, txn) == [tables |-> tables, start |-> start, txn |-> txn]
TableSets == {{}, {1}, {1, 2}, {2, 3}}
MCWorkloads ==
    {<<[id |-> 3, queries |-> <<Q(a, 0, 1), Q(b, 2, 1)>>], [id |-> 7, queries |-> <<Q(c, 0, 0)>>]>> : a, b \in TableSets, c \in {{2}, {1, 2}}}
    \cup {<<[id |-> 1, queries |-> <<Q({1, 2}, 0, 0), Q({3, 4}, 1, 0), Q({1, 4}, 5, 0), Q({2}, 9, 0)>>]>>}
Groups == {<<[tables |-> {1}, query_indices |-> {0, 2}], [tables |-> {2, 3}, query_indices |-> {1}]>>,
           <<[tables |-> {1, 2}, query_indices |-> {0}], [tables |-> {2}, query_indices |-> {0, 1, 9}]>>}
RemoveGroup(g) == [type |-> "remove", group |-> g]
InjectAfter(g, tables) == [type |-> "inject", group |-> g, tables |-> tables]
Scale(g, f) == [type |-> "scale", group |-> g, factor |-> f, stagger |-> 7]
NewSession == [type |-> "inject_session", length |-> 2, repeat |-> 2, interval |-> 3]
MCPlans == {[groups |-> g, transforms |-> t] : g \in Groups, t \in
    {<<>>, <<RemoveGroup(1)>>, <<Scale(1, 3)>>, <<InjectAfter(2, {3}), Scale(2, 4), RemoveGroup(3)>>,
     <<RemoveGroup(2), InjectAfter(1, {2}), InjectAfter(1, {}), NewSession, Scale(1, 2)>>, <<Scale(1, 2), Scale(2, 0), NewSession>>}}
=============================================================================
