------------------------------ MODULE MCRelay ------------------------------
(* Instances of Relay for TLC: a few statements and the scripts of clients
   that use them. *)
EXTENDS Relay

MCStmts == {"sel", "upd", "ins", "ret", "alt", "cpy", "emp", "two"}
MCKind == [sel |-> "select", upd |-> "write", ins |-> "insert", ret |-> "returning",
           alt |-> "returning", cpy |-> "copy", emp |-> "empty", two |-> "several"]

\* "ret" and "alt" are prepared under one name, and "alt" declares its types.
MCNames == {"n1", "n2"}
MCName == [s \in MCStmts |-> IF s \in {"ret", "alt"} THEN "n1" ELSE "n2"]
MCDeclared == {"alt"}

Query(s) == << Msg("Q", s) >>
Prepare(s) == << Msg("P", s), Msg("D", s), Msg("S", s) >>
Execute(s) == << Msg("B", s), Msg("Ex", s), Msg("S", s) >>
Extended(s) == << Msg("P", s), Msg("B", s), Msg("D", s), Msg("Ex", s), Msg("S", s) >>
CopyData(s) == << Msg("c", s) >>

Setup(requests, win, errs, impl, flips) ==
    [script |-> requests, window |-> win, errors |-> errs, correlate |-> TRUE,
     implicit |-> impl, stealth |-> TRUE, toggles |-> flips]

Simple == Setup(<<Query("ret"), Query("sel"), Query("upd"), Query("ret")>>,
                1, TRUE, FALSE, 0)
Prepared == Setup(<<Prepare("ret"), Prepare("sel"), Execute("ret")>>, 1, TRUE, FALSE, 0)
Toggled == Setup(<<Extended("ret"), Query("sel")>>, 2, FALSE, FALSE, 2)
Injected == Setup(<<Query("ins"), Query("sel")>>, 2, TRUE, TRUE, 0)
Copy == Setup(<<Query("cpy"), CopyData("cpy")>>, 1, FALSE, FALSE, 0)
Insert == Setup(<<Query("ins")>>, 1, FALSE, TRUE, 0)

\* A name parsed again, without and with declared types, and an empty query.
Reparsed == Setup(<<Prepare("ret"), Extended("alt"), Extended("emp")>>,
                  1, TRUE, FALSE, 0)
Unpaired == Setup(<<Query("emp"), Query("two"), Query("ret"), Query("sel")>>,
                  1, TRUE, FALSE, 0)

Discarded == Setup(<<Extended("ret"), Extended("sel")>>, 1, TRUE, FALSE, 0)

AllSetups == {Simple, Prepared, Toggled, Injected, Copy, Discarded, Reparsed, Unpaired}
InsertSetup == {Insert}
=============================================================================
