------------------------------ MODULE MCSqlText ------------------------------
(* Instances of SqlText for TLC.                                            *)
EXTENDS SqlText, TLC

\* Every text of a few characters of one theme.
Upto(chars, n) == UNION {[1..k -> chars] : k \in 0..n}
MCTexts ==
    Upto({"'", "\"", "a", "-"}, 4) \cup Upto({"/", "*", "'", "\n"}, 4)
    \cup {<<"/", "*">> \o t : t \in Upto({"*", "/", "-"}, 4)} \cup {<<"-", "-">> \o t : t \in Upto({"\n", "-", "'"}, 3)}
    \cup Upto({"$", "a", "'"}, 5) \cup {<<"$">> \o t : t \in Upto({"$", "1"}, 3)}
    \cup {<<c>> \o t : c \in {"=", "a", "1"}, t \in Upto({"1", "-", ".", "e", " "}, 3)}
    \cup Upto({"w", "l", "f", "1", "=", "a"}, 2)
    \cup {<<c, " ">> \o t : c \in {"l", "f", "w"}, t \in Upto({"a", "1", "'", "=", " "}, 4)}
\* An id that came back different, as a number and as a word no number may become.
MCIdMaps == {<<"1">> :> <<"2">>, <<"1">> :> <<"a">>}

\* INSERTs as pg_query accepts them: a literal, what may follow it, and a
\* literal of two lines.
Tails == {<<>>, <<";">>, <<" ">>, <<"\n">>, <<"-", "-", "a">>, <<"/", "*", "*", "/">>, <<" ", "a">>}
MCStatements ==
    {[text |-> <<"i", "'", "a", "'">> \o t \o u, schema |-> "", table |-> "t"] : t \in Tails \ {<<";">>}, u \in Tails}
    \cup {[text |-> <<"i", "'", "a", "\n">> \o t \o <<"'">>, schema |-> "p", table |-> "t"] : t \in Upto({"a", "-"}, 3)}
MCPk == <<[schema |-> "p", table |-> "t"], [schema |-> "q", table |-> "t"]>>
=============================================================================
