---------------------------- MODULE ReplayProofs ----------------------------
(***************************************************************************)
(* Theorems about Replay, for any workload and any options.                *)
(***************************************************************************)
EXTENDS Replay, Integers, FiniteSetTheorems, WellFoundedInduction, TLAPS

-----------------------------------------------------------------------------
(***************************************************************************)
(* Scripts and transaction ids.                                            *)
(***************************************************************************)
Captureds == [stmt : Stmts, returns : Ids, uses : Ids]

\* Sessions and queries are numbered from 1.
LEMMA Scripts ==
    ASSUME setup \in Setups
    PROVE  /\ Len(setup.script) \in Nat /\ Sessions = 1..Len(setup.script)
           /\ \A s \in Sessions :
                /\ Script(s) \in Seq(Captureds)
                /\ Len(Script(s)) \in Nat /\ DOMAIN Script(s) = 1..Len(Script(s))
                /\ \A i \in DOMAIN Script(s) : Script(s)[i] \in Captureds
<1>1. setup.script \in Seq(Seq(Captureds))
  BY ReplayAssumption DEF Captureds
<1> QED
  BY <1>1 DEF Sessions, Script

\* There are finitely many sessions and queries.
LEMMA Finite ==
    ASSUME setup \in Setups
    PROVE  IsFiniteSet(Sessions) /\ IsFiniteSet(Queries)
<1> DEFINE Of(s) == {<<s, i>> : i \in DOMAIN Script(s)}
           AllOf == {Of(s) : s \in Sessions}
           f == [s \in Sessions |-> Of(s)]
<1>1. IsFiniteSet(Sessions)
  BY Scripts, FS_Interval
<1>2. \A s \in Sessions : IsFiniteSet(Of(s))
  <2> TAKE s \in Sessions
  <2>1. IsFiniteSet(DOMAIN Script(s)) /\ IsFiniteSet({s})
    <3>1. DOMAIN Script(s) = 1..Len(Script(s)) /\ Len(Script(s)) \in Nat
      BY Scripts
    <3>2. IsFiniteSet(1..Len(Script(s)))
      BY <3>1, FS_Interval
    <3>3. IsFiniteSet({s})
      BY FS_Singleton, Zenon
    <3> QED
      BY <3>1, <3>2, <3>3
  <2>2. IsFiniteSet({s} \X DOMAIN Script(s))
    BY <2>1, FS_Product
  <2>3. Of(s) \subseteq {s} \X DOMAIN Script(s)
    OBVIOUS
  <2> QED
    BY <2>2, <2>3, FS_Subset
<1>3. f \in Surjection(Sessions, AllOf)
  BY DEF Surjection
<1>4. IsFiniteSet(AllOf)
  BY <1>1, <1>3, FS_Surjection
<1>5. IsFiniteSet(UNION AllOf)
  BY <1>2, <1>4, FS_UNION
<1> QED
  BY <1>1, <1>5 DEF Queries

\* A transaction id is a number, so never None.
LEMMA TxnId ==
    ASSUME setup \in Setups, NEW s, NEW n
    PROVE  CurrentTxn(s, n) # None <=> OpenBegin(s, n) # {}
<1>1. \A b : txn_id(s, b) \in Nat
  <2> TAKE b
  <2> DEFINE Q == {q \in Queries :
                     Kind(q[1], q[2]) = "begin" /\ (q[1] < s \/ (q[1] = s /\ q[2] <= b))}
  <2>1. IsFiniteSet(Q)
    BY Finite, FS_Subset
  <2> QED
    BY <2>1, FS_CardinalityType DEF txn_id
<1> QED
  BY <1>1, ReplayAssumption DEF CurrentTxn

\* BEGIN opens a transaction, and what is not transaction control leaves it open.
LEMMA OpenBeginStep ==
    ASSUME setup \in Setups, NEW s \in Sessions, NEW n \in DOMAIN Script(s)
    PROVE  /\ Kind(s, n) = "begin" => OpenBegin(s, n) # {}
           /\ ~is_transaction_control(Kind(s, n)) /\ OpenBegin(s, n - 1) # {}
                => OpenBegin(s, n) # {}
<1>1. n \in Nat \ {0}
  BY Scripts
<1>2. ASSUME Kind(s, n) = "begin" PROVE n \in OpenBegin(s, n)
  BY <1>1, <1>2 DEF OpenBegin
<1>3. ASSUME ~is_transaction_control(Kind(s, n)), NEW b \in OpenBegin(s, n - 1)
      PROVE b \in OpenBegin(s, n)
  BY <1>1, <1>3 DEF OpenBegin
<1> QED
  BY <1>2, <1>3

-----------------------------------------------------------------------------
(***************************************************************************)
(* Types.                                                                  *)
(***************************************************************************)
Labels == {"queued", "connecting", "running", "answered", "rolling_back", "done",
           "failed"}
Statuses == {"ok", "error", "aborted", "lost"}
Servers == [txn : {"none", "open", "aborted", "lost"}, work : SUBSET Nat,
            saved : SUBSET Nat, committed : SUBSET Nat]
Errors == Statuses \cup {"none", "skipped"}
Results == [query : Nat, success : BOOLEAN, error : Errors]
TxnIds(s) == {transaction_id(s, i) : i \in DOMAIN Script(s)}

Shapes ==
    /\ pc \in [Sessions -> Labels] /\ pos \in [Sessions -> Nat]
    /\ DOMAIN failed = Sessions /\ DOMAIN outcome = Sessions
    /\ conn \in [Sessions -> Servers]
    /\ results \in [Sessions -> Seq(Results)]

\* A query is under way exactly while there is one at pos.
SessionInv(s) ==
    /\ pos[s] \in 1..(Len(Script(s)) + 1)
    /\ pc[s] \in {"answered", "rolling_back"} =>
          pos[s] \in DOMAIN Script(s) /\ outcome[s].status \in Statuses
    /\ failed[s] \in {None} \cup TxnIds(s)
    /\ \A i \in DOMAIN results[s] : results[s][i].query < pos[s]

TypeInv ==
    /\ setup \in Setups /\ Shapes
    /\ joined \in 0..Len(setup.script)
    /\ \A s \in Sessions : SessionInv(s)

\* A statement that succeeds leaves the server in a state.
LEMMA SucceedType ==
    ASSUME NEW c \in Servers, NEW i \in Nat, NEW stmt
    PROVE  Succeed(c, i, stmt) \in Servers
<1>1. End(c) \in Servers
  BY DEF End, Servers
<1>2. CASE stmt \in {"begin", "hidden_begin", "commit", "commit_chain", "rollback", "prepare",
                     "savepoint", "rollback_to", "rollback_work_to"}
  BY ZenonT(60), <1>1, <1>2 DEF End, Succeed, Servers
<1>3. CASE stmt \notin {"begin", "hidden_begin", "commit", "commit_chain", "rollback", "prepare",
                        "savepoint", "rollback_to", "rollback_work_to"}
  BY <1>3 DEF Succeed, Servers
<1> QED
  BY <1>2, <1>3

\* What the server makes of a statement.
LEMMA AnswersType ==
    ASSUME NEW c \in Servers, NEW i \in Nat, NEW stmt, NEW a \in Answers(c, i, stmt)
    PROVE  a[1] \in Servers /\ a[2] \in Statuses
<1>1. ASSUME NEW d \in Servers PROVE End(d) \in Servers
  BY DEF End, Servers
<1>2. Succeed(c, i, stmt) \in Servers
  BY SucceedType
<1>3. Fail(c, stmt) \in Servers
  BY <1>1 DEF Fail, Servers
<1>4. ASSUME NEW d \in {c, Succeed(c, i, stmt)}
      PROVE  [End(d) EXCEPT !.txn = "lost"] \in Servers
  BY <1>1, <1>2 DEF Servers
<1>5. ASSUME NEW b \in Aborted(c, stmt) PROVE b[1] \in Servers /\ b[2] \in {"ok", "aborted"}
  <2>1. End(c) \in Servers /\ [End(c) EXCEPT !.txn = "open"] \in Servers
        /\ [c EXCEPT !.txn = "open", !.work = c.saved] \in Servers
    BY <1>1 DEF Servers
  <2>2. b \in {<<End(c), "ok">>, <<[End(c) EXCEPT !.txn = "open"], "ok">>, <<c, "aborted">>,
              <<[c EXCEPT !.txn = "open", !.work = c.saved], "ok">>}
    BY <1>5, Zenon DEF Aborted
  <2> QED
    BY <2>1, <2>2
<1> QED
  BY <1>1, <1>2, <1>3, <1>4, <1>5 DEF Answers, Statuses

\* The options and the workload do not change, nor what is derived from them.
LEMMA Fixed ==
    ASSUME UNCHANGED setup
    PROVE  /\ Sessions' = Sessions /\ Unlimited' = Unlimited
           /\ \A s : /\ Script(s)' = Script(s) /\ TxnIds(s)' = TxnIds(s)
                    /\ \A n : OpenBegin(s, n)' = OpenBegin(s, n)
BY DEF Sessions, Unlimited, Script, TxnIds, transaction_id, CurrentTxn, OpenBegin, txn_id,
       Queries, Kind

\* Everybody is queued.
LEMMA TypeInit == Init => TypeInv
<1> SUFFICES ASSUME Init PROVE TypeInv
  OBVIOUS
<1>1. setup \in Setups
  BY DEF Init
<1>2. Connection \in Servers
  BY DEF Connection, Servers
<1>3. <<>> \in Seq(Results) /\ DOMAIN <<>> = {}
  OBVIOUS
<1>4. pc \in [Sessions -> Labels] /\ pos \in [Sessions -> Nat]
      /\ DOMAIN failed = Sessions /\ DOMAIN outcome = Sessions
  BY DEF Init, Labels
<1>5. conn \in [Sessions -> Servers] /\ results \in [Sessions -> Seq(Results)]
  BY <1>2, <1>3 DEF Init
<1>6. joined \in 0..Len(setup.script)
  BY <1>1, Scripts DEF Init
<1>7. ASSUME NEW s \in Sessions
      PROVE  /\ pos[s] \in 1..(Len(Script(s)) + 1)
             /\ pc[s] \notin {"answered", "rolling_back"} /\ failed[s] = None
             /\ \A i \in DOMAIN results[s] : results[s][i].query < pos[s]
  BY <1>1, <1>3, Scripts DEF Init
<1> QED
  BY <1>1, <1>4, <1>5, <1>6, <1>7 DEF TypeInv, Shapes, SessionInv

\* What Record does for the types.
Passed(s) ==
    /\ pos' = [pos EXCEPT ![s] = @ + 1] /\ pos' \in [Sessions -> Nat]
    /\ pos'[s] \in 1..(Len(Script(s)) + 1)
    /\ results' \in [Sessions -> Seq(Results)]
    /\ \A r \in Sessions \ {s} : results'[r] = results[r]
    /\ \A i \in DOMAIN results'[s] : results'[s][i].query < pos'[s]

\* A recorded result is of the query passed, and has the error given.
LEMMA Recorded ==
    ASSUME TypeInv, NEW s \in Sessions, pos[s] \in DOMAIN Script(s),
           NEW success \in BOOLEAN, NEW error \in Errors,
           Record(s, success, error)
    PROVE  /\ Passed(s)
           /\ \A i \in DOMAIN results'[s] :
                \/ i \in DOMAIN results[s] /\ results'[s][i] = results[s][i]
                \/ results'[s][i].error = error
<1> DEFINE new == [query |-> pos[s], success |-> success, error |-> error]
<1>1. setup \in Setups /\ pos[s] \in Nat /\ results[s] \in Seq(Results)
      /\ new \in Results /\ \A i \in DOMAIN results[s] : results[s][i].query < pos[s]
  BY DEF TypeInv, Shapes, SessionInv, Results
<1>2. pos' = [pos EXCEPT ![s] = @ + 1] /\ pos' \in [Sessions -> Nat]
      /\ pos'[s] = pos[s] + 1 /\ pos'[s] \in 1..(Len(Script(s)) + 1)
  BY <1>1, Scripts DEF TypeInv, Shapes, Record
<1>3. results' = [results EXCEPT ![s] = Append(results[s], new)]
  BY DEF Record
<1>4. Append(results[s], new) \in Seq(Results)
  BY <1>1
<1>5. results' \in [Sessions -> Seq(Results)] /\ results'[s] = Append(results[s], new)
      /\ \A r \in Sessions \ {s} : results'[r] = results[r]
  BY <1>3, <1>4 DEF TypeInv, Shapes
<1>6. ASSUME NEW i \in DOMAIN results'[s]
      PROVE  /\ results'[s][i].query < pos'[s]
             /\ \/ i \in DOMAIN results[s] /\ results'[s][i] = results[s][i]
                \/ results'[s][i].error = error
  <2>1. i \in 1..(Len(results[s]) + 1) /\ Len(results[s]) \in Nat
    BY <1>1, <1>5, <1>6
  <2>2. CASE i = Len(results[s]) + 1
    <3>1. results'[s][i] = new
      BY <1>1, <1>5, <2>2
    <3> QED
      BY <1>1, <1>2, <3>1
  <2>3. CASE i \in 1..Len(results[s])
    <3>1. i \in DOMAIN results[s] /\ results'[s][i] = results[s][i]
          /\ results[s][i] \in Results
      BY <1>1, <1>5, <2>3
    <3>2. results[s][i].query \in Nat /\ results[s][i].query < pos[s]
      BY <1>1, <3>1 DEF Results
    <3> QED
      BY <1>1, <1>2, <3>1, <3>2
  <2> QED
    BY <2>1, <2>2, <2>3
<1> QED
  BY <1>2, <1>5, <1>6 DEF Passed

\* A step of session s that leaves the others alone has only s to look after.
LEMMA Advance ==
    ASSUME TypeInv, UNCHANGED <<setup, joined>>, Shapes', NEW s \in Sessions, SessionInv(s)',
           \A r \in Sessions \ {s} :
              UNCHANGED <<pc[r], pos[r], failed[r], outcome[r], results[r]>>
    PROVE  TypeInv'
<1>1. Sessions' = Sessions /\ \A r : Script(r)' = Script(r) /\ TxnIds(r)' = TxnIds(r)
  BY Fixed
<1>2. ASSUME NEW r \in Sessions \ {s} PROVE SessionInv(r)'
  BY <1>1, <1>2 DEF TypeInv, SessionInv
<1> QED
  BY <1>1, <1>2 DEF TypeInv

\* Each step of a session keeps the types.
LEMMA TypeStep == TypeInv /\ [Next]_vars => TypeInv'
<1> SUFFICES ASSUME TypeInv, [Next]_vars PROVE TypeInv'
  OBVIOUS
<1>1. setup \in Setups /\ setup' = setup
  BY DEF TypeInv, Next, Session, Acquire, Connect, LeaveOut, Skip, Execute, Answered,
         ReceiveOk, ReceiveError, ReceiveErrorInTxn, RolledBack, Finish, Join, vars
<1>2. /\ Sessions' = Sessions
      /\ \A s : Script(s)' = Script(s) /\ TxnIds(s)' = TxnIds(s)
  BY <1>1, Fixed
<1>3. \A s \in Sessions : DOMAIN Script(s) = 1..Len(Script(s)) /\ Len(Script(s)) \in Nat
  BY <1>1, Scripts
<1> USE <1>1, <1>2, <1>3 DEF Goto, ids
<1>4. ASSUME NEW s \in Sessions, Acquire(s) PROVE TypeInv'
  <2>1. Shapes'
    BY <1>4 DEF Acquire, TypeInv, Shapes, Labels
  <2>2. SessionInv(s)'
    BY <1>4 DEF Acquire, TypeInv, Shapes, SessionInv
  <2>3. UNCHANGED joined /\ \A r \in Sessions \ {s} :
           UNCHANGED <<pc[r], pos[r], failed[r], outcome[r], results[r]>>
    BY <1>4 DEF Acquire, TypeInv, Shapes
  <2> QED
    BY <2>1, <2>2, <2>3, Advance
<1>5. ASSUME NEW s \in Sessions, Connect(s) PROVE TypeInv'
  <2>1. Shapes'
    BY <1>5 DEF Connect, TypeInv, Shapes, Labels
  <2>2. SessionInv(s)'
    BY <1>5 DEF Connect, TypeInv, Shapes, SessionInv
  <2>3. UNCHANGED joined /\ \A r \in Sessions \ {s} :
           UNCHANGED <<pc[r], pos[r], failed[r], outcome[r], results[r]>>
    BY <1>5 DEF Connect, TypeInv, Shapes
  <2> QED
    BY <2>1, <2>2, <2>3, Advance
<1>6. ASSUME NEW s \in Sessions, LeaveOut(s) PROVE TypeInv'
  <2>0. \A i \in DOMAIN results[s] : results[s][i].query \in Nat
    <3>1. results[s] \in Seq(Results)
      BY DEF TypeInv, Shapes
    <3>2. \A i \in DOMAIN results[s] : results[s][i] \in Results
      BY <3>1
    <3> QED
      BY <3>2 DEF Results
  <2>1. Shapes'
    BY <1>6 DEF LeaveOut, AtQuery, TypeInv, Shapes, Labels
  <2>2. SessionInv(s)'
    BY <1>6, <2>0 DEF LeaveOut, AtQuery, TypeInv, Shapes, SessionInv
  <2>3. UNCHANGED joined /\ \A r \in Sessions \ {s} :
           UNCHANGED <<pc[r], pos[r], failed[r], outcome[r], results[r]>>
    BY <1>6 DEF LeaveOut, AtQuery, TypeInv, Shapes
  <2> QED
    BY <2>1, <2>2, <2>3, Advance
<1>7. ASSUME NEW s \in Sessions, Skip(s) PROVE TypeInv'
  <2>1. pos[s] \in DOMAIN Script(s)
    BY <1>7 DEF Skip, AtQuery, TypeInv, SessionInv
  <2>2. Record(s, FALSE, "skipped") /\ "skipped" \in Errors
    BY <1>7 DEF Skip, skipped_success, Errors
  <2>3. Passed(s)
    BY <2>1, <2>2, Recorded
  <2>4. Shapes'
    BY <1>7, <2>1, <2>3 DEF Skip, AtQuery, Passed, TypeInv, Shapes, Labels
  <2>5. SessionInv(s)'
    BY <1>7, <2>1, <2>3 DEF Skip, AtQuery, Passed, TypeInv, Shapes, SessionInv
  <2>6. UNCHANGED joined /\ \A r \in Sessions \ {s} :
           UNCHANGED <<pc[r], pos[r], failed[r], outcome[r], results[r]>>
    BY <1>7, <2>1, <2>3 DEF Skip, AtQuery, Passed, TypeInv, Shapes
  <2> QED
    BY <2>4, <2>5, <2>6, Advance
<1>8. ASSUME NEW s \in Sessions, Execute(s) PROVE TypeInv'
  <2>1. pos[s] \in DOMAIN Script(s)
    BY <1>8 DEF Execute, AtQuery, TypeInv, SessionInv
  <2>2. PICK a \in Answers(conn[s], pos[s], Query(s).stmt) :
            /\ conn' = [conn EXCEPT ![s] = a[1]]
            /\ DOMAIN outcome' = Sessions
            /\ outcome'[s].status = a[2]
            /\ \A r \in Sessions \ {s} : outcome'[r] = outcome[r]
    <3>1. PICK a \in Answers(conn[s], pos[s], Query(s).stmt) :
            /\ conn' = [conn EXCEPT ![s] = a[1]]
            /\ \E row : outcome' = [outcome EXCEPT ![s] = [status |-> a[2], row |-> row]]
      BY <1>8 DEF Execute
    <3>2. PICK row : outcome' = [outcome EXCEPT ![s] = [status |-> a[2], row |-> row]]
      BY <3>1
    <3>3. DOMAIN outcome = Sessions
      BY DEF TypeInv, Shapes
    <3> QED
      BY <3>1, <3>2, <3>3
  <2>3. a[1] \in Servers /\ a[2] \in Statuses
    BY <2>1, AnswersType DEF TypeInv, Shapes
  <2>4. Shapes'
    BY <1>8, <2>1, <2>2, <2>3 DEF Execute, AtQuery, TypeInv, Shapes, Labels
  <2>5. SessionInv(s)'
    BY <1>8, <2>1, <2>2, <2>3 DEF Execute, AtQuery, TypeInv, Shapes, SessionInv
  <2>6. UNCHANGED joined /\ \A r \in Sessions \ {s} :
           UNCHANGED <<pc[r], pos[r], failed[r], outcome[r], results[r]>>
    BY <1>8, <2>1, <2>2, <2>3 DEF Execute, AtQuery, TypeInv, Shapes
  <2> QED
    BY <2>4, <2>5, <2>6, Advance
<1>9. ASSUME NEW s \in Sessions, ReceiveOk(s) PROVE TypeInv'
  <2>1. pos[s] \in DOMAIN Script(s)
    BY <1>9 DEF ReceiveOk, Answered, TypeInv, SessionInv
  <2>2. Record(s, TRUE, "none") /\ "none" \in Errors
    BY <1>9 DEF ReceiveOk, Errors
  <2>3. Passed(s)
    BY <2>1, <2>2, Recorded
  <2>4. Shapes'
    BY <1>9, <2>1, <2>3 DEF ReceiveOk, Answered, Passed, TypeInv, Shapes, Labels
  <2>5. SessionInv(s)'
    BY <1>9, <2>1, <2>3 DEF ReceiveOk, Answered, Passed, TypeInv, Shapes, SessionInv
  <2>6. UNCHANGED joined /\ \A r \in Sessions \ {s} :
           UNCHANGED <<pc[r], pos[r], failed[r], outcome[r], results[r]>>
    BY <1>9, <2>1, <2>3 DEF ReceiveOk, Answered, Passed, TypeInv, Shapes
  <2> QED
    BY <2>4, <2>5, <2>6, Advance
<1>10. ASSUME NEW s \in Sessions, ReceiveError(s) PROVE TypeInv'
  <2>1. pos[s] \in DOMAIN Script(s) /\ outcome[s].status \in Statuses
    BY <1>10 DEF ReceiveError, Answered, TypeInv, SessionInv
  <2>2. Record(s, FALSE, outcome[s].status) /\ outcome[s].status \in Errors
    BY <1>10, <2>1 DEF ReceiveError, Errors
  <2>3. Passed(s)
    BY <2>1, <2>2, Recorded
  <2>4. Shapes'
    BY <1>10, <2>1, <2>3 DEF ReceiveError, Answered, Passed, TypeInv, Shapes, Labels
  <2>5. SessionInv(s)'
    BY <1>10, <2>1, <2>3 DEF ReceiveError, Answered, Passed, TypeInv, Shapes, SessionInv
  <2>6. UNCHANGED joined /\ \A r \in Sessions \ {s} :
           UNCHANGED <<pc[r], pos[r], failed[r], outcome[r], results[r]>>
    BY <1>10, <2>1, <2>3 DEF ReceiveError, Answered, Passed, TypeInv, Shapes
  <2> QED
    BY <2>4, <2>5, <2>6, Advance
<1>11. ASSUME NEW s \in Sessions, ReceiveErrorInTxn(s) PROVE TypeInv'
  <2>1. Shapes'
    BY ZenonT(60), <1>11 DEF ReceiveErrorInTxn, TypeInv, Shapes, Labels, Servers, End
  <2>2. SessionInv(s)'
    BY <1>11 DEF ReceiveErrorInTxn, TypeInv, Shapes, SessionInv
  <2>3. UNCHANGED joined /\ \A r \in Sessions \ {s} :
           UNCHANGED <<pc[r], pos[r], failed[r], outcome[r], results[r]>>
    BY <1>11 DEF ReceiveErrorInTxn, TypeInv, Shapes
  <2> QED
    BY <2>1, <2>2, <2>3, Advance
<1>12. ASSUME NEW s \in Sessions, RolledBack(s) PROVE TypeInv'
  <2>1. pos[s] \in DOMAIN Script(s) /\ outcome[s].status \in Statuses
    BY <1>12 DEF RolledBack, TypeInv, SessionInv
  <2>2. outcome[s].status \in Errors
    BY <2>1 DEF Errors
  <2>3. Record(s, FALSE, outcome[s].status)
    BY <1>12 DEF RolledBack
  <2>4. Passed(s) /\ transaction_id(s, pos[s]) \in TxnIds(s)
    BY <2>1, <2>2, <2>3, Recorded DEF TxnIds
  <2>5. Shapes'
    BY <1>12, <2>1, <2>4 DEF RolledBack, Passed, TypeInv, Shapes, Labels
  <2>6. SessionInv(s)'
    BY <1>12, <2>1, <2>4 DEF RolledBack, Passed, TypeInv, Shapes, SessionInv
  <2>7. UNCHANGED joined /\ \A r \in Sessions \ {s} :
           UNCHANGED <<pc[r], pos[r], failed[r], outcome[r], results[r]>>
    BY <1>12, <2>1, <2>4 DEF RolledBack, Passed, TypeInv, Shapes
  <2> QED
    BY <2>5, <2>6, <2>7, Advance
<1>13. ASSUME NEW s \in Sessions, Finish(s) PROVE TypeInv'
  <2>1. Shapes'
    BY ZenonT(40), <1>13 DEF Finish, TypeInv, Shapes, Labels, Servers, End
  <2>2. SessionInv(s)'
    BY <1>13 DEF Finish, TypeInv, Shapes, SessionInv
  <2>3. UNCHANGED joined /\ \A r \in Sessions \ {s} :
           UNCHANGED <<pc[r], pos[r], failed[r], outcome[r], results[r]>>
    BY <1>13 DEF Finish, TypeInv, Shapes
  <2> QED
    BY <2>1, <2>2, <2>3, Advance
<1>14. CASE Join \/ UNCHANGED vars
  <2>1. Shapes' /\ joined' \in 0..Len(setup.script)
    BY <1>14, Scripts DEF Join, vars, task, TypeInv, Shapes
  <2>2. \A s \in Sessions : SessionInv(s)'
    BY <1>14 DEF Join, vars, task, TypeInv, SessionInv
  <2> QED
    BY <2>1, <2>2 DEF TypeInv
<1> QED
  BY <1>4, <1>5, <1>6, <1>7, <1>8, <1>9, <1>10, <1>11, <1>12, <1>13, <1>14
     DEF Next, Session

-----------------------------------------------------------------------------
(***************************************************************************)
(* Permits.                                                                *)
(***************************************************************************)
Connected == {s \in Sessions : pc[s] \notin {"queued", "done", "failed"}}

\* Every permit is free or with a session that is connected.
LimitInv ==
    IF Unlimited THEN permits = None
    ELSE permits \in Nat /\ permits + Cardinality(Connected) = setup.max_connections

\* Sessions can be counted.
LEMMA Countable ==
    ASSUME TypeInv
    PROVE  IsFiniteSet(Connected) /\ Cardinality(Connected) \in Nat
<1>1. Connected \subseteq Sessions
  BY DEF Connected
<1> QED
  BY <1>1, Finite, FS_Subset, FS_CardinalityType DEF TypeInv

\* All permits are free.
LEMMA LimitInit == Init => LimitInv
<1> SUFFICES ASSUME Init PROVE LimitInv
  OBVIOUS
<1>1. Connected = {}
  BY DEF Init, Connected
<1>2. setup.max_connections \in Nat \cup {None}
  BY ReplayAssumption DEF Init
<1> QED
  BY <1>1, <1>2, FS_EmptySet DEF Init, LimitInv, Unlimited

\* A session takes its permit before it connects and drops it when it ends.
LEMMA LimitStep == TypeInv /\ LimitInv /\ [Next]_vars => LimitInv'
<1> SUFFICES ASSUME TypeInv, LimitInv, [Next]_vars PROVE LimitInv'
  OBVIOUS
<1>1. setup' = setup
  BY DEF Next, Session, Acquire, Connect, LeaveOut, Skip, Execute, Answered, ReceiveOk,
         ReceiveError, ReceiveErrorInTxn, RolledBack, Finish, Join, vars
<1>2. Sessions' = Sessions /\ Unlimited' = Unlimited
  BY <1>1, Fixed
<1>3. setup.max_connections \in Nat \cup {None}
  BY ReplayAssumption DEF TypeInv
<1> USE <1>1, <1>2
<1>4. ASSUME NEW s \in Sessions, Acquire(s) PROVE LimitInv'
  <2>1. s \notin Connected /\ Connected' = Connected \cup {s}
    BY <1>4 DEF Acquire, Goto, Connected, TypeInv, Shapes
  <2>2. Cardinality(Connected') = Cardinality(Connected) + 1
    BY <2>1, Countable, FS_AddElement
  <2> QED
    BY <1>3, <1>4, <2>2, Countable DEF Acquire, has_permit, LimitInv
<1>5. ASSUME NEW s \in Sessions,
             Finish(s) \/ (Connect(s) /\ permits' = permits_returned /\ pc'[s] = "failed")
      PROVE  LimitInv'
  <2>1. s \in Connected /\ Connected' = Connected \ {s}
    BY <1>5 DEF Finish, Connect, Goto, Connected, TypeInv, Shapes
  <2>2. Cardinality(Connected') = Cardinality(Connected) - 1
    BY <2>1, Countable, FS_RemoveElement
  <2>3. permits' = permits_returned
    BY <1>5 DEF Finish
  <2> QED
    BY <1>3, <2>2, <2>3, Countable DEF permits_returned, LimitInv
<1>6. ASSUME UNCHANGED permits, Connected' = Connected PROVE LimitInv'
  BY <1>6 DEF LimitInv
<1>7. ASSUME NEW s \in Sessions, Session(s), ~Acquire(s), ~Finish(s) PROVE LimitInv'
  <2>1. CASE Connect(s) /\ permits' = permits_returned /\ pc'[s] = "failed"
    BY <1>5, <2>1
  <2>2. CASE Connect(s) /\ ~(permits' = permits_returned /\ pc'[s] = "failed")
    <3>1. UNCHANGED permits /\ pc[s] = "connecting" /\ pc' = [pc EXCEPT ![s] = "running"]
      BY <2>2 DEF Connect, Goto, TypeInv, Shapes
    <3> QED
      BY <3>1, <1>6 DEF Connected, TypeInv, Shapes
  <2>3. CASE ~Connect(s)
    <3>1. /\ UNCHANGED permits
          /\ \/ UNCHANGED pc
             \/ /\ pc[s] \in {"running", "answered", "rolling_back"}
                /\ \E p \in {"running", "answered", "rolling_back"} :
                      pc' = [pc EXCEPT ![s] = p]
      BY <1>7, <2>3 DEF Session, LeaveOut, Skip, Execute, Answered, ReceiveOk,
             ReceiveError, ReceiveErrorInTxn, RolledBack, Goto, AtQuery
    <3>2. Connected' = Connected
      BY <3>1 DEF Connected, TypeInv, Shapes
    <3> QED
      BY <1>6, <3>1, <3>2
  <2> QED
    BY <2>1, <2>2, <2>3
<1>8. CASE Join \/ UNCHANGED vars
  BY <1>6, <1>8 DEF Join, vars, task, Connected
<1> QED
  BY <1>4, <1>5, <1>7, <1>8 DEF Next

\* The type invariant of Replay holds of every replay.
THEOREM TypeCorrect == Spec => []TypeOK
<1>1. TypeInv /\ LimitInv => TypeOK
  <2> SUFFICES ASSUME TypeInv, LimitInv PROVE TypeOK
    OBVIOUS
  <2>1. permits \in IF Unlimited THEN {None} ELSE 0..setup.max_connections
    BY Countable, ReplayAssumption DEF LimitInv, TypeInv, Unlimited
  <2>2. Cardinality(Sessions) = Len(setup.script)
    <3>1. Sessions = 1..Len(setup.script) /\ Len(setup.script) \in Nat
      BY Scripts DEF TypeInv
    <3>2. Cardinality(1..Len(setup.script)) =
            IF 1 > Len(setup.script) THEN 0 ELSE Len(setup.script) - 1 + 1
      BY SMTT(30), <3>1, FS_Interval
    <3> QED
      BY <3>1, <3>2
  <2> QED
    BY <2>1, <2>2
       DEF TypeOK, TypeInv, Shapes, SessionInv, Labels, Servers, TxnIds
<1> QED
  BY <1>1, TypeInit, TypeStep, LimitInit, LimitStep, PTL DEF Spec

\* Never are more sessions connected than --max-connections, whatever fails
\* (session.rs 206, 225-228).
THEOREM LimitCorrect == Spec => []ConnectionLimit
<1>1. TypeInv /\ LimitInv => ConnectionLimit
  BY Countable DEF LimitInv, ConnectionLimit, Connected
<1> QED
  BY <1>1, TypeInit, TypeStep, LimitInit, LimitStep, PTL DEF Spec

-----------------------------------------------------------------------------
(***************************************************************************)
(* Cascades.  Where BEGIN cannot fail, the engine's idea of what is open   *)
(* (OpenBegin) covers the server's, so whatever aborts a transaction is    *)
(* rolled back before anything else is sent.                               *)
(***************************************************************************)
Idle(s) == conn[s].txn \in {"none", "lost"}

CascadeInv(s) ==
    /\ setup.read_only => Idle(s)
    /\ failed[s] # None => Idle(s) /\ pc[s] # "answered"
    /\ pc[s] = "rolling_back" => Idle(s) /\ outcome[s].status # "aborted"
    /\ pc[s] \notin {"answered", "rolling_back"} => conn[s].txn # "aborted"
    /\ pc[s] \in {"queued", "connecting", "running"} /\ conn[s].txn = "open" =>
          OpenBegin(s, pos[s] - 1) # {}
    /\ pc[s] = "answered" =>
          /\ outcome[s].status # "aborted"
          /\ conn[s].txn = "open" => OpenBegin(s, pos[s]) # {}
          /\ conn[s].txn = "aborted" =>
                /\ outcome[s].status = "error" /\ OpenBegin(s, pos[s]) # {}
                /\ ~is_transaction_control(Kind(s, pos[s]))
    /\ \A i \in DOMAIN results[s] : results[s][i].error # "aborted"

NoCascadeInv == ~setup.begin_fails /\ Legible(setup) => \A s \in Sessions : CascadeInv(s)

\* What the answers to a statement that is not sent into an aborted transaction
\* can be.
LEMMA AnswersTxn ==
    ASSUME NEW c \in Servers, c.txn # "aborted", NEW i \in Nat, NEW stmt \in WellRead,
           ~setup.begin_fails, NEW a \in Answers(c, i, stmt)
    PROVE  /\ a[2] # "aborted"
           /\ a[1].txn = "open" =>
                 stmt = "begin" \/ (c.txn = "open" /\ stmt \notin {"commit", "rollback"})
           /\ a[1].txn = "aborted" =>
                 /\ a[2] = "error" /\ c.txn = "open"
                 /\ stmt \notin {"begin", "commit", "rollback"}
<1>1. \A d \in Servers : End(d) \in Servers /\ End(d).txn = "none"
  BY DEF End, Servers
<1>2. /\ Succeed(c, i, stmt) \in Servers /\ Succeed(c, i, stmt).txn # "aborted"
      /\ Succeed(c, i, stmt).txn = "open" =>
           stmt = "begin" \/ (c.txn = "open" /\ stmt \notin {"commit", "rollback"})
  <2> USE DEF Succeed, Servers, Writes
  <2>1. CASE stmt = "commit"
    <3>1. End(c) \in Servers /\ End(c).txn = "none"
      BY <1>1
    <3>2. Succeed(c, i, stmt) = [End(c) EXCEPT !.committed = End(c).committed \cup c.work]
      BY <2>1, <3>1 DEF End
    <3> QED
      BY <2>1, <3>1, <3>2
  <2>2. CASE stmt = "rollback"
    BY <1>1, <2>2 DEF End
  <2>4. CASE stmt \in {"begin", "savepoint", "rollback_to"}
    BY <2>4
  <2>3. CASE stmt \notin {"begin", "commit", "rollback", "savepoint", "rollback_to"}
    BY <2>3 DEF WellRead
  <2> QED
    BY <2>1, <2>2, <2>3, <2>4
<1>3. Fail(c, stmt).txn \in {"none", "aborted"}
      /\ (Fail(c, stmt).txn = "aborted" => stmt # "commit" /\ c.txn # "none")
  BY <1>1 DEF Fail, Servers
<1>4. \A d \in {c, Succeed(c, i, stmt)} : [End(d) EXCEPT !.txn = "lost"].txn = "lost"
  BY <1>1, <1>2 DEF Servers
<1>5. CASE c.txn = "lost"
  BY <1>5 DEF Answers
<1>6. CASE c.txn \in {"none", "open"} /\ a = <<Succeed(c, i, stmt), "ok">>
  BY <1>2, <1>6
<1>7. CASE c.txn \in {"none", "open"} /\ CanFail(c, stmt) /\ a = <<Fail(c, stmt), "error">>
  BY <1>3, <1>7 DEF CanFail
<1>8. CASE \E d \in {c, Succeed(c, i, stmt)} : a = <<[End(d) EXCEPT !.txn = "lost"], "lost">>
  <2>1. PICK d \in {c, Succeed(c, i, stmt)} : a = <<[End(d) EXCEPT !.txn = "lost"], "lost">>
    BY <1>8
  <2>2. a[1].txn = "lost" /\ a[2] = "lost"
    BY <1>4, <2>1
  <2> QED
    BY <2>2
<1> QED
  BY <1>5, <1>6, <1>7, <1>8 DEF Answers, Servers

\* What fails inside a transaction is rolled back.
LEMMA MustRollback ==
    ASSUME TypeInv, NEW s \in Sessions, OpenBegin(s, pos[s]) # {},
           ~is_transaction_control(Kind(s, pos[s]))
    PROVE  must_rollback(s)
<1>1. transaction_id(s, pos[s]) = CurrentTxn(s, pos[s])
  BY DEF transaction_id, is_transaction_control
<1> QED
  BY <1>1, TxnId DEF TypeInv, must_rollback

\* The script does not change under a session that moves on.
LEMMA Opens ==
    ASSUME UNCHANGED setup, NEW s
    PROVE  /\ OpenBegin(s, pos[s])' = OpenBegin(s, pos'[s])
           /\ OpenBegin(s, pos[s] - 1)' = OpenBegin(s, pos'[s] - 1)
           /\ Kind(s, pos[s])' = Kind(s, pos'[s])
BY DEF OpenBegin, Kind, Script

\* A step of session s has only s to look after.
LEMMA CascadeAdvance ==
    ASSUME TypeInv, NoCascadeInv, UNCHANGED setup, NEW s \in Sessions,
           ~setup.begin_fails /\ Legible(setup) => CascadeInv(s)',
           \A r \in Sessions \ {s} :
              UNCHANGED <<pc[r], pos[r], failed[r], outcome[r], results[r], conn[r]>>
    PROVE  NoCascadeInv'
<1>1. Sessions' = Sessions
  BY Fixed
<1>2. ASSUME NEW r \in Sessions \ {s}, ~setup.begin_fails, Legible(setup) PROVE CascadeInv(r)'
  BY <1>2, Opens DEF NoCascadeInv, CascadeInv, Idle
<1> QED
  BY <1>1, <1>2 DEF NoCascadeInv

\* Nothing was sent.
LEMMA CascadeInit == Init => NoCascadeInv
BY DEF Init, NoCascadeInv, CascadeInv, Idle, Connection

\* Whatever a statement is answered, an aborted transaction is not left behind.
LEMMA CascadeStep == TypeInv /\ NoCascadeInv /\ [Next]_vars => NoCascadeInv'
<1> SUFFICES ASSUME TypeInv, NoCascadeInv, [Next]_vars PROVE NoCascadeInv'
  OBVIOUS
<1>1. setup \in Setups /\ setup' = setup
  BY DEF TypeInv, Next, Session, Acquire, Connect, LeaveOut, Skip, Execute, Answered,
         ReceiveOk, ReceiveError, ReceiveErrorInTxn, RolledBack, Finish, Join, vars
<1>2. \A s \in Sessions : DOMAIN Script(s) = 1..Len(Script(s)) /\ Len(Script(s)) \in Nat
  BY <1>1, Scripts
<1>3. SUFFICES ASSUME ~setup.begin_fails, Legible(setup) PROVE NoCascadeInv'
  BY <1>1 DEF NoCascadeInv
<1>4. \A s \in Sessions : CascadeInv(s)
  BY <1>3 DEF NoCascadeInv
<1> USE <1>1 DEF Goto, ids
<1>5. ASSUME NEW s \in Sessions, Acquire(s) PROVE NoCascadeInv'
  <2>1. CascadeInv(s)'
    BY <1>4, <1>5, Opens DEF Acquire, CascadeInv, Idle, TypeInv, Shapes
  <2>2. \A r \in Sessions \ {s} :
           UNCHANGED <<pc[r], pos[r], failed[r], outcome[r], results[r], conn[r]>>
    BY <1>5 DEF Acquire, TypeInv, Shapes
  <2> QED
    BY <2>1, <2>2, CascadeAdvance
<1>6. ASSUME NEW s \in Sessions, Connect(s) PROVE NoCascadeInv'
  <2>1. CascadeInv(s)'
    BY <1>4, <1>6, Opens DEF Connect, CascadeInv, Idle, TypeInv, Shapes
  <2>2. \A r \in Sessions \ {s} :
           UNCHANGED <<pc[r], pos[r], failed[r], outcome[r], results[r], conn[r]>>
    BY <1>6 DEF Connect, TypeInv, Shapes
  <2> QED
    BY <2>1, <2>2, CascadeAdvance
<1>7. ASSUME NEW s \in Sessions, LeaveOut(s) PROVE NoCascadeInv'
  <2>1. Idle(s)
    BY <1>4, <1>7 DEF LeaveOut, should_replay, CascadeInv
  <2>2. CascadeInv(s)'
    BY <1>4, <1>7, Opens, <2>1 DEF LeaveOut, AtQuery, CascadeInv, Idle, TypeInv, Shapes
  <2>3. \A r \in Sessions \ {s} :
           UNCHANGED <<pc[r], pos[r], failed[r], outcome[r], results[r], conn[r]>>
    BY <1>7, <2>1 DEF LeaveOut, AtQuery, TypeInv, Shapes
  <2> QED
    BY <2>2, <2>3, CascadeAdvance
<1>8. ASSUME NEW s \in Sessions, Skip(s) PROVE NoCascadeInv'
  <2>1. pos[s] \in DOMAIN Script(s) /\ failed[s] # None
    BY <1>2, <1>8 DEF Skip, AtQuery, in_failed_txn, TypeInv, SessionInv
  <2>2. Record(s, FALSE, "skipped") /\ "skipped" \in Errors
    BY <1>8 DEF Skip, skipped_success, Errors
  <2>3. Passed(s) /\ \A i \in DOMAIN results'[s] :
                       \/ i \in DOMAIN results[s] /\ results'[s][i] = results[s][i]
                       \/ results'[s][i].error = "skipped"
    BY <2>1, <2>2, Recorded
  <2>4. /\ pc[s] = "running" /\ pc' = pc /\ conn' = conn /\ outcome' = outcome
        /\ failed'[s] \in {None, failed[s]}
        /\ \A r \in Sessions \ {s} : failed'[r] = failed[r]
    BY <1>8 DEF Skip, AtQuery, TypeInv, Shapes
  <2>5. Idle(s)
    BY <1>4, <2>1, <2>4 DEF CascadeInv
  <2>6. \A i \in DOMAIN results'[s] : results'[s][i].error # "aborted"
    BY <1>4, <2>3 DEF CascadeInv
  <2>7. CascadeInv(s)'
    BY <1>4, <2>4, <2>5, <2>6 DEF CascadeInv, Idle
  <2>8. \A r \in Sessions \ {s} :
           UNCHANGED <<pc[r], pos[r], failed[r], outcome[r], results[r], conn[r]>>
    BY <2>3, <2>4 DEF Passed, TypeInv, Shapes
  <2> QED
    BY <2>7, <2>8, CascadeAdvance
<1>9. ASSUME NEW s \in Sessions, Execute(s) PROVE NoCascadeInv'
  <2> DEFINE stmt == Query(s).stmt
  <2>1. pos[s] \in DOMAIN Script(s) /\ pc[s] = "running" /\ should_replay(Kind(s, pos[s]))
    BY <1>2, <1>9 DEF Execute, AtQuery, TypeInv, SessionInv
  <2>2. stmt \in WellRead /\ Kind(s, pos[s]) = from_sql(stmt)
    BY <1>3, <2>1 DEF Query, Kind, Legible, Sessions, Script
  <2>3. conn[s] \in Servers /\ conn[s].txn # "aborted" /\ pos[s] \in Nat
    BY <1>4, <2>1 DEF CascadeInv, TypeInv, Shapes
  <2>4. PICK a \in Answers(conn[s], pos[s], stmt) :
            /\ conn' = [conn EXCEPT ![s] = a[1]]
            /\ \E row : outcome' = [outcome EXCEPT ![s] = [status |-> a[2], row |-> row]]
    BY <1>9 DEF Execute
  <2>5. conn'[s] = a[1] /\ outcome'[s].status = a[2]
        /\ \A r \in Sessions \ {s} : outcome'[r] = outcome[r] /\ conn'[r] = conn[r]
    <3>1. PICK row : outcome' = [outcome EXCEPT ![s] = [status |-> a[2], row |-> row]]
      BY <2>4
    <3> QED
      BY <2>4, <3>1 DEF TypeInv, Shapes
  <2>6. /\ a[1] \in Servers /\ a[2] # "aborted"
        /\ a[1].txn = "open" =>
              stmt = "begin" \/ (conn[s].txn = "open" /\ stmt \notin {"commit", "rollback"})
        /\ a[1].txn = "aborted" =>
              /\ a[2] = "error" /\ conn[s].txn = "open"
              /\ stmt \notin {"begin", "commit", "rollback"}
    BY <1>3, <2>2, <2>3, AnswersType, AnswersTxn
  <2>7. /\ pc' = [pc EXCEPT ![s] = "answered"] /\ pc'[s] = "answered" /\ pos' = pos
        /\ failed'[s] = None /\ results' = results
        /\ \A r \in Sessions \ {s} : failed'[r] = failed[r]
    BY <1>9 DEF Execute, TypeInv, Shapes
  <2>8. /\ stmt = "begin" => Kind(s, pos[s]) = "begin"
        /\ stmt \notin {"begin", "commit", "rollback"} =>
              ~is_transaction_control(Kind(s, pos[s]))
        /\ Kind(s, pos[s]) = "select" => stmt \in {"select", "with_write"}
    BY <2>2 DEF WellRead, from_sql, first_word, is_transaction_control
  <2>9. conn[s].txn = "open" => OpenBegin(s, pos[s] - 1) # {}
    BY <1>4, <2>1 DEF CascadeInv
  <2>10. a[1].txn \in {"open", "aborted"} => OpenBegin(s, pos[s]) # {}
    <3>1. CASE stmt = "begin"
      BY <2>1, <2>8, <3>1, OpenBeginStep
    <3>2. CASE a[1].txn \in {"open", "aborted"} /\ stmt # "begin"
      <4>1. conn[s].txn = "open" /\ stmt \notin {"begin", "commit", "rollback"}
        BY <2>6, <3>2
      <4> QED
        BY <2>1, <2>8, <2>9, <4>1, OpenBeginStep
    <3> QED
      BY <3>1, <3>2
  <2>11. setup.read_only => a[1].txn \in {"none", "lost"}
    <3>1. setup.read_only => conn[s].txn # "open" /\ stmt # "begin"
      BY <1>4, <2>1, <2>8 DEF CascadeInv, Idle, should_replay
    <3> QED
      BY <2>6, <3>1 DEF Servers
  <2>12. OpenBegin(s, pos[s])' = OpenBegin(s, pos[s]) /\ Kind(s, pos[s])' = Kind(s, pos[s])
    BY <2>7, Opens
  <2>13. \A i \in DOMAIN results[s] : results[s][i].error # "aborted"
    BY <1>4 DEF CascadeInv
  <2>14. CascadeInv(s)'
    BY <2>5, <2>6, <2>7, <2>8, <2>10, <2>11, <2>12, <2>13
       DEF CascadeInv, Idle, is_transaction_control
  <2> QED
    BY <2>5, <2>7, <2>14, CascadeAdvance DEF TypeInv, Shapes
<1>10. ASSUME NEW s \in Sessions, ReceiveOk(s) PROVE NoCascadeInv'
  <2>1. pos[s] \in DOMAIN Script(s)
    BY <1>10 DEF ReceiveOk, Answered, TypeInv, SessionInv
  <2>2. Record(s, TRUE, "none") /\ "none" \in Errors
    BY <1>10 DEF ReceiveOk, Errors
  <2>3. Passed(s) /\ \A i \in DOMAIN results'[s] :
                       \/ i \in DOMAIN results[s] /\ results'[s][i] = results[s][i]
                       \/ results'[s][i].error = "none"
    BY <2>1, <2>2, Recorded
  <2>4. OpenBegin(s, pos'[s] - 1) = OpenBegin(s, pos[s])
    BY <2>3 DEF Passed, TypeInv, Shapes
  <2>5. CascadeInv(s)'
    BY ZenonT(40), <1>4, <1>10, Opens, <2>1, <2>3, <2>4 DEF ReceiveOk, Answered, Passed, CascadeInv, Idle, TypeInv, Shapes
  <2>6. \A r \in Sessions \ {s} :
           UNCHANGED <<pc[r], pos[r], failed[r], outcome[r], results[r], conn[r]>>
    BY <1>10, <2>1, <2>3, <2>4 DEF ReceiveOk, Answered, Passed, TypeInv, Shapes
  <2> QED
    BY <2>5, <2>6, CascadeAdvance
<1>11. ASSUME NEW s \in Sessions, ReceiveError(s) PROVE NoCascadeInv'
  <2>1. pos[s] \in DOMAIN Script(s) /\ outcome[s].status \in Statuses
        /\ outcome[s].status # "aborted" /\ conn[s].txn # "aborted"
    BY <1>4, <1>11, MustRollback
       DEF ReceiveError, Answered, TypeInv, SessionInv, CascadeInv
  <2>2. Record(s, FALSE, outcome[s].status) /\ outcome[s].status \in Errors
    BY <1>11, <2>1 DEF ReceiveError, Errors
  <2>3. Passed(s) /\ \A i \in DOMAIN results'[s] :
                       \/ i \in DOMAIN results[s] /\ results'[s][i] = results[s][i]
                       \/ results'[s][i].error = outcome[s].status
    BY <2>1, <2>2, Recorded
  <2>4. OpenBegin(s, pos'[s] - 1) = OpenBegin(s, pos[s])
    BY <2>3 DEF Passed, TypeInv, Shapes
  <2>5. CascadeInv(s)'
    BY ZenonT(40), <1>4, <1>11, Opens, <2>1, <2>3, <2>4 DEF ReceiveError, Answered, Passed, CascadeInv, Idle, TypeInv, Shapes
  <2>6. \A r \in Sessions \ {s} :
           UNCHANGED <<pc[r], pos[r], failed[r], outcome[r], results[r], conn[r]>>
    BY <1>11, <2>1, <2>3, <2>4 DEF ReceiveError, Answered, Passed, TypeInv, Shapes
  <2> QED
    BY <2>5, <2>6, CascadeAdvance
<1>12. ASSUME NEW s \in Sessions, ReceiveErrorInTxn(s) PROVE NoCascadeInv'
  <2>1. conn'[s] = IF conn[s].txn = "lost" THEN conn[s] ELSE End(conn[s])
    BY <1>12 DEF ReceiveErrorInTxn, TypeInv, Shapes
  <2>2. conn'[s].txn \in {"none", "lost"}
    BY <2>1 DEF End, TypeInv, Shapes, Servers
  <2>3. CascadeInv(s)'
    BY <1>4, <1>12, Opens, <2>2 DEF ReceiveErrorInTxn, CascadeInv, Idle, TypeInv, Shapes
  <2>4. \A r \in Sessions \ {s} :
           UNCHANGED <<pc[r], pos[r], failed[r], outcome[r], results[r], conn[r]>>
    BY <1>12, <2>2 DEF ReceiveErrorInTxn, TypeInv, Shapes
  <2> QED
    BY <2>3, <2>4, CascadeAdvance
<1>13. ASSUME NEW s \in Sessions, RolledBack(s) PROVE NoCascadeInv'
  <2>1. pos[s] \in DOMAIN Script(s) /\ outcome[s].status \in Statuses
        /\ outcome[s].status # "aborted" /\ conn[s].txn \in {"none", "lost"}
    BY <1>4, <1>13 DEF RolledBack, TypeInv, SessionInv, CascadeInv, Idle
  <2>2. Record(s, FALSE, outcome[s].status) /\ outcome[s].status \in Errors
    BY <1>13, <2>1 DEF RolledBack, Errors
  <2>3. Passed(s) /\ \A i \in DOMAIN results'[s] :
                       \/ i \in DOMAIN results[s] /\ results'[s][i] = results[s][i]
                       \/ results'[s][i].error = outcome[s].status
    BY <2>1, <2>2, Recorded
  <2>4. CascadeInv(s)'
    BY ZenonT(40), <1>4, <1>13, Opens, <2>1, <2>3 DEF RolledBack, Passed, CascadeInv, Idle, TypeInv, Shapes
  <2>5. \A r \in Sessions \ {s} :
           UNCHANGED <<pc[r], pos[r], failed[r], outcome[r], results[r], conn[r]>>
    BY <1>13, <2>1, <2>3 DEF RolledBack, Passed, TypeInv, Shapes
  <2> QED
    BY <2>4, <2>5, CascadeAdvance
<1>14. ASSUME NEW s \in Sessions, Finish(s) PROVE NoCascadeInv'
  <2>1. conn'[s] = End(conn[s])
    BY <1>14 DEF Finish, TypeInv, Shapes
  <2>2. conn'[s].txn = "none"
    BY <2>1 DEF End, TypeInv, Shapes, Servers
  <2>3. CascadeInv(s)'
    BY <1>4, <1>14, Opens, <2>2 DEF Finish, CascadeInv, Idle, TypeInv, Shapes
  <2>4. \A r \in Sessions \ {s} :
           UNCHANGED <<pc[r], pos[r], failed[r], outcome[r], results[r], conn[r]>>
    BY <1>14, <2>2 DEF Finish, TypeInv, Shapes
  <2> QED
    BY <2>3, <2>4, CascadeAdvance
<1>15. CASE Join \/ UNCHANGED vars
  <2>1. Sessions' = Sessions /\ UNCHANGED <<pc, pos, failed, outcome, results, conn>>
    BY <1>15, Fixed DEF Join, vars, task
  <2>2. ASSUME NEW s \in Sessions PROVE CascadeInv(s)'
    BY <1>4, <2>1, Opens DEF CascadeInv, Idle
  <2> QED
    BY <2>1, <2>2 DEF NoCascadeInv
<1> QED
  BY <1>5, <1>6, <1>7, <1>8, <1>9, <1>10, <1>11, <1>12, <1>13, <1>14, <1>15
     DEF Next, Session

\* Where BEGIN does not fail, no statement is ever sent into a transaction that
\* the server has aborted, for any workload whose statements from_sql reads for
\* what they are (session.rs 45-75, 155-163).
THEOREM CascadeCorrect == Spec => [](~setup.begin_fails => NoCascade)
<1>1. NoCascadeInv => (~setup.begin_fails => NoCascade)
  BY DEF NoCascadeInv, CascadeInv, NoCascade
<1> QED
  BY <1>1, TypeInit, TypeStep, CascadeInit, CascadeStep, PTL DEF Spec

-----------------------------------------------------------------------------
(***************************************************************************)
(* Ids.  The map has an entry for a captured id only when the query that   *)
(* returned it was answered, so that with distinct ids nobody overwrites   *)
(* what a session relies on; an id without an entry came back unchanged.   *)
(***************************************************************************)
Returns(s, i, c) == i \in DOMAIN Script(s) /\ Script(s)[i].returns = c /\ c # None

\* The query that returned c to s was answered, and the map translates c ...
Translated(s, c) ==
    IF c \in DOMAIN id_map THEN id_map[c] = given[s][c] ELSE given[s][c] = c

\* ... or it is the one whose answer is on the way.
OnItsWay(s, i, c) ==
    /\ i = pos[s] /\ pc[s] = "answered"
    /\ outcome[s].status = "ok" /\ outcome[s].row = given[s][c] /\ outcome[s].row # None

GivenInv(s) ==
    \A c \in DOMAIN given[s] :
        \E i \in Nat : /\ Returns(s, i, c)
                       /\ (i < pos[s] /\ Translated(s, c)) \/ OnItsWay(s, i, c)

\* A row that is on its way answers the query that asked for it.
RowInv(s) ==
    pc[s] = "answered" /\ outcome[s].row # None =>
        Query(s).returns # None /\ Query(s).returns \in DOMAIN given[s]

UsedInv(s) ==
    pc[s] = "answered" /\ Query(s).uses \in EarlierIds(s) =>
        used[s] = given[s][Query(s).uses]

MapInv == \A c \in DOMAIN id_map : \E s \in Sessions, i \in Nat : Returns(s, i, c) /\ i < pos[s]

IdShapes ==
    DOMAIN given = Sessions /\ DOMAIN used = Sessions /\ next_id \in Nat

IdInv == IdShapes /\ MapInv /\ \A s \in Sessions : GivenInv(s) /\ RowInv(s) /\ UsedInv(s)

\* With distinct ids, an id tells the query.
LEMMA OneQuery ==
    ASSUME \A u \in Setups : Distinct(u), setup \in Setups,
           NEW s \in Sessions, NEW r \in Sessions, NEW i, NEW j, NEW c,
           Returns(s, i, c), Returns(r, j, c)
    PROVE  s = r /\ i = j
BY DEF Distinct, Returns, Script, Sessions

LEMMA IdInit == Init => IdInv
<1> SUFFICES ASSUME Init PROVE IdInv
  OBVIOUS
<1>1. DOMAIN <<>> = {}
  OBVIOUS
<1>2. given = [s \in Sessions |-> <<>>] /\ DOMAIN used = Sessions /\ next_id = 1 /\ id_map = <<>>
      /\ \A s \in Sessions : pc[s] = "queued"
  BY DEF Init
<1>3. IdShapes
  BY <1>2 DEF IdShapes
<1>4. MapInv /\ \A s \in Sessions : GivenInv(s) /\ RowInv(s) /\ UsedInv(s)
  BY <1>1, <1>2 DEF MapInv, GivenInv, RowInv, UsedInv
<1> QED
  BY <1>3, <1>4 DEF IdInv

\* A session that goes on leaves alone what others hold.
LEMMA OthersKept ==
    ASSUME IdInv, setup \in Setups, UNCHANGED <<setup, id_map>>, NEW r \in Sessions,
           UNCHANGED <<pc[r], pos[r], outcome[r], used[r], given[r]>>
    PROVE  GivenInv(r)' /\ RowInv(r)' /\ UsedInv(r)'
<1>1. \A s : Script(s)' = Script(s)
  BY Fixed
<1> QED
  BY <1>1
     DEF IdInv, GivenInv, RowInv, UsedInv, Returns, Translated, OnItsWay, Query, EarlierIds

\* An entry stays explained as sessions go on.
LEMMA MapKept ==
    ASSUME TypeInv, IdInv, UNCHANGED <<setup, id_map>>,
           \A r \in Sessions : pos'[r] \in Nat /\ pos[r] <= pos'[r]
    PROVE  MapInv'
<1>1. Sessions' = Sessions /\ \A s : Script(s)' = Script(s)
  BY Fixed
<1>2. \A r \in Sessions : pos[r] \in Nat
  BY DEF TypeInv, Shapes
<1>3. \A r \in Sessions, i \in Nat : i < pos[r] => i < pos'[r]
  BY <1>2
<1> QED
  BY <1>1, <1>3 DEF IdInv, MapInv, Returns

\* A step of s that neither gives nor registers an id, and leaves no answer behind.
LEMMA IdAdvance ==
    ASSUME TypeInv, IdInv, UNCHANGED <<setup, ids>>, NEW s \in Sessions, DOMAIN used' = Sessions,
           pos'[s] \in Nat, pos[s] <= pos'[s], pc'[s] # "answered",
           pc[s] = "answered" => outcome[s].status # "ok",
           \A r \in Sessions \ {s} : UNCHANGED <<pc[r], pos[r], outcome[r], used[r]>>
    PROVE  IdInv'
<1>0. setup \in Setups /\ UNCHANGED <<id_map, given, next_id>>
  BY DEF TypeInv, ids
<1>1. Sessions' = Sessions /\ \A r : Script(r)' = Script(r)
  BY <1>0, Fixed
<1>2. \A r \in Sessions : pos[r] \in Nat
  BY DEF TypeInv, Shapes
<1>3. IdShapes'
  BY <1>0, <1>1 DEF IdInv, IdShapes
<1>4. MapInv'
  <2>1. \A r \in Sessions : pos'[r] \in Nat /\ pos[r] <= pos'[r]
    BY <1>2
  <2> QED
    BY <1>0, <2>1, MapKept
<1>5. ASSUME NEW r \in Sessions \ {s} PROVE GivenInv(r)' /\ RowInv(r)' /\ UsedInv(r)'
  BY <1>0, <1>5, OthersKept
<1>6. GivenInv(s)'
  <2>1. \A i \in Nat : i < pos[s] => i < pos'[s]
    BY <1>2
  <2> QED
    BY <1>0, <1>1, <2>1 DEF IdInv, GivenInv, Returns, Translated, OnItsWay
<1>7. RowInv(s)' /\ UsedInv(s)'
  BY DEF RowInv, UsedInv
<1> QED
  BY <1>1, <1>3, <1>4, <1>5, <1>6, <1>7 DEF IdInv

\* A query is sent with what the map has for its id.
LEMMA IdExecute ==
    ASSUME \A u \in Setups : Distinct(u), TypeInv, IdInv, NEW s \in Sessions, Execute(s)
    PROVE  IdInv'
<1> DEFINE c == Query(s).returns
           d == Query(s).uses
<1>0. setup \in Setups /\ UNCHANGED <<setup, id_map, pos>>
      /\ pc[s] = "running" /\ pos[s] \in DOMAIN Script(s)
  BY DEF TypeInv, SessionInv, Execute, AtQuery
<1>1. Sessions' = Sessions /\ \A r : Script(r)' = Script(r)
  BY <1>0, Fixed
<1>2. pos[s] \in Nat /\ Query(s)' = Query(s) /\ next_id \in Nat /\ next_id # None
  BY <1>0, <1>1, ReplayAssumption DEF TypeInv, Shapes, Query, IdInv, IdShapes
<1>3. pc'[s] = "answered" /\ \A r \in Sessions \ {s} : UNCHANGED <<pc[r], pos[r], outcome[r], used[r], given[r]>>
  <2>1. pc' = [pc EXCEPT ![s] = "answered"] /\ DOMAIN pc = Sessions
    BY DEF Execute, Goto, TypeInv, Shapes
  <2>2. used' = [used EXCEPT ![s] = substitute(d)]
    BY DEF Execute
  <2>3. \A r \in Sessions \ {s} : outcome'[r] = outcome[r] /\ given'[r] = given[r]
    BY DEF Execute, TypeInv, Shapes, IdInv, IdShapes
  <2> QED
    BY <1>0, <2>1, <2>2, <2>3 DEF IdInv, IdShapes
<1>4. used'[s] = substitute(d) /\ DOMAIN used' = Sessions
  BY DEF Execute, IdInv, IdShapes
<1>5. ASSUME NEW r \in Sessions \ {s} PROVE GivenInv(r)' /\ RowInv(r)' /\ UsedInv(r)'
  BY <1>0, <1>3, <1>5, OthersKept
<1>6. MapInv'
  <2>1. \A r \in Sessions : pos'[r] \in Nat /\ pos[r] <= pos'[r]
    BY <1>0 DEF TypeInv, Shapes
  <2> QED
    BY <1>0, <2>1, MapKept
\* What the session was given before is in the map by now.
<1>7. \A e \in DOMAIN given[s] : Translated(s, e) /\ \E i \in Nat : Returns(s, i, e) /\ i < pos[s]
  BY <1>0 DEF IdInv, GivenInv, OnItsWay
<1>8. \A e \in DOMAIN given[s] : substitute(e) = given[s][e]
  BY <1>7 DEF Translated, substitute
<1>9. CASE UNCHANGED <<given, next_id>> /\ outcome'[s].row = None
  <2>1. IdShapes'
    BY <1>1, <1>4, <1>9 DEF IdInv, IdShapes
  <2>2. GivenInv(s)'
    BY <1>0, <1>1, <1>7, <1>9 DEF GivenInv, Returns, Translated
  <2>3. RowInv(s)' /\ UsedInv(s)'
    BY <1>2, <1>4, <1>8, <1>9 DEF RowInv, UsedInv, EarlierIds
  <2> QED
    BY <1>1, <1>5, <1>6, <2>1, <2>2, <2>3 DEF IdInv
<1>10. CASE /\ c # None /\ outcome'[s] = [status |-> "ok", row |-> next_id]
            /\ given' = [given EXCEPT ![s] = Inserted(@, c, next_id)] /\ next_id' = next_id + 1
  <2>1. /\ given'[s] = Inserted(given[s], c, next_id) /\ DOMAIN given' = Sessions
        /\ next_id + 1 \in Nat
    BY <1>2, <1>10 DEF IdInv, IdShapes
  <2>2. /\ DOMAIN given'[s] = DOMAIN given[s] \cup {c} /\ given'[s][c] = next_id
        /\ \A x \in DOMAIN given[s] : x # c => given'[s][x] = given[s][x]
    BY <2>1 DEF Inserted
  <2>3. IdShapes'
    BY <1>1, <1>4, <1>10, <2>1 DEF IdShapes
  <2>4. Returns(s, pos[s], c)
    BY <1>0, <1>10 DEF Returns, Query
  <2>5. c \notin DOMAIN given[s]
    BY <1>0, <1>2, <1>7, <2>4, OneQuery
  <2>6. ASSUME NEW e \in DOMAIN given'[s]
        PROVE  \E i \in Nat : /\ Returns(s, i, e)'
                              /\ (i < pos'[s] /\ Translated(s, e)') \/ OnItsWay(s, i, e)'
    <3>1. CASE e = c
      <4>1. PICK i \in Nat : i = pos[s]
        BY <1>2
      <4>2. Returns(s, i, e)' /\ OnItsWay(s, i, e)'
        BY <1>0, <1>1, <1>2, <1>3, <1>10, <2>2, <2>4, <3>1, <4>1 DEF Returns, OnItsWay
      <4> QED
        BY <4>2
    <3>2. CASE e # c
      <4>1. e \in DOMAIN given[s] /\ given'[s][e] = given[s][e]
        BY <2>2, <2>6, <3>2
      <4>2. PICK i \in Nat : Returns(s, i, e) /\ i < pos[s]
        BY <1>7, <4>1
      <4>3. Returns(s, i, e)' /\ i < pos'[s] /\ Translated(s, e)'
        BY <1>0, <1>1, <1>7, <4>1, <4>2 DEF Returns, Translated
      <4> QED
        BY <4>3
    <3> QED
      BY <3>1, <3>2
  <2>7. GivenInv(s)'
    BY <2>6 DEF GivenInv
  <2>8. RowInv(s)'
    BY <1>2, <1>10, <2>2 DEF RowInv
  <2>9. UsedInv(s)'
    BY <1>2, <1>4, <1>8, <2>2 DEF UsedInv, EarlierIds
  <2> QED
    BY <1>1, <1>5, <1>6, <2>3, <2>7, <2>8, <2>9 DEF IdInv
<1> QED
  <2>1. \/ UNCHANGED <<given, next_id>> /\ outcome'[s].row = None
        \/ /\ c # None /\ outcome'[s] = [status |-> "ok", row |-> next_id]
           /\ given' = [given EXCEPT ![s] = Inserted(@, c, next_id)] /\ next_id' = next_id + 1
    BY DEF Execute, TypeInv, Shapes
  <2> QED
    BY <1>9, <1>10, <2>1

\* The answer of a query is registered under its own id, which nobody else has.
LEMMA IdReceive ==
    ASSUME \A u \in Setups : Distinct(u), TypeInv, IdInv, NEW s \in Sessions, ReceiveOk(s)
    PROVE  IdInv'
<1> DEFINE c == Query(s).returns
           d == outcome[s].row
<1>0. setup \in Setups /\ UNCHANGED <<setup, given, next_id>>
      /\ pc[s] = "answered" /\ outcome[s].status = "ok" /\ pos[s] \in DOMAIN Script(s)
  BY DEF TypeInv, SessionInv, ReceiveOk, Answered
<1>1. Sessions' = Sessions /\ \A r : Script(r)' = Script(r)
  BY <1>0, Fixed
<1>2. pos[s] \in Nat /\ pos'[s] = pos[s] + 1 /\ pc'[s] = "running" /\ DOMAIN used' = Sessions
  BY DEF ReceiveOk, Answered, Goto, Record, TypeInv, Shapes, IdInv, IdShapes
<1>3. \A r \in Sessions \ {s} : UNCHANGED <<pc[r], pos[r], outcome[r], used[r], given[r]>>
  BY <1>0 DEF ReceiveOk, Answered, Goto, Record, TypeInv, Shapes, IdInv, IdShapes
<1>4. IdShapes'
  BY <1>0, <1>1, <1>2 DEF IdInv, IdShapes
<1>5. \A r \in Sessions, i \in Nat : i < pos[r] => i < pos'[r]
  <2>1. \A r \in Sessions : pos[r] \in Nat /\ (pos'[r] = pos[r] \/ pos'[r] = pos[r] + 1)
    BY <1>2, <1>3 DEF TypeInv, Shapes
  <2> QED
    BY <2>1
<1>6. RowInv(s)' /\ UsedInv(s)'
  BY <1>2 DEF RowInv, UsedInv
<1>7. ASSUME NEW r \in Sessions \ {s} PROVE RowInv(r)' /\ UsedInv(r)'
  BY <1>0, <1>1, <1>3, <1>7 DEF IdInv, RowInv, UsedInv, EarlierIds, Query
<1>8. CASE d \in {None, c} /\ UNCHANGED id_map
  <2>1. MapInv'
    BY <1>1, <1>5, <1>8 DEF IdInv, MapInv, Returns
  <2>2. ASSUME NEW r \in Sessions \ {s} PROVE GivenInv(r)'
    BY <1>0, <1>3, <1>8, <2>2, OthersKept
  <2>3. GivenInv(s)'
    <3> SUFFICES ASSUME NEW e \in DOMAIN given[s]
                 PROVE  \E i \in Nat : Returns(s, i, e)' /\ i < pos'[s] /\ Translated(s, e)'
      BY <1>0 DEF GivenInv
    <3>1. PICK i \in Nat : /\ Returns(s, i, e)
                           /\ (i < pos[s] /\ Translated(s, e)) \/ OnItsWay(s, i, e)
      BY DEF IdInv, GivenInv
    <3>2. CASE OnItsWay(s, i, e)
      \* The id came back unchanged, and is not in the map.
      <4>1. e = c /\ i = pos[s] /\ given[s][e] = c
        BY <1>8, <3>1, <3>2 DEF OnItsWay, Returns, Query
      <4>2. e \notin DOMAIN id_map
        <5>1. ASSUME NEW r \in Sessions, NEW j \in Nat, Returns(r, j, e), j < pos[r] PROVE FALSE
          BY <1>0, <3>1, <4>1, <5>1, OneQuery
        <5> QED
          BY <5>1 DEF IdInv, MapInv
      <4> QED
        BY <1>0, <1>1, <1>2, <1>8, <3>1, <4>1, <4>2 DEF Returns, Translated
    <3>3. CASE i < pos[s] /\ Translated(s, e)
      BY <1>0, <1>1, <1>5, <1>8, <3>1, <3>3 DEF Returns, Translated
    <3> QED
      BY <3>1, <3>2, <3>3
  <2> QED
    BY <1>1, <1>4, <1>6, <1>7, <2>1, <2>2, <2>3 DEF IdInv
<1>9. CASE d \notin {None, c} /\ id_map' = Inserted(id_map, c, d)
  <2>1. c # None /\ c \in DOMAIN given[s] /\ Returns(s, pos[s], c)
    BY <1>0, <1>9 DEF IdInv, RowInv, Returns, Query
  <2>2. /\ DOMAIN id_map' = DOMAIN id_map \cup {c} /\ id_map'[c] = d
        /\ \A x \in DOMAIN id_map : x # c => id_map'[x] = id_map[x]
    BY <1>9 DEF Inserted
  <2>3. MapInv'
    <3>1. PICK i, x : i \in Nat /\ i = pos[s] /\ x = c
      BY <1>2
    <3>2. Returns(s, i, x)' /\ i < pos'[s]
      BY <1>1, <1>2, <2>1, <3>1 DEF Returns
    <3>3. \A e \in DOMAIN id_map : \E r \in Sessions, j \in Nat : Returns(r, j, e)' /\ j < pos'[r]
      BY <1>1, <1>5 DEF IdInv, MapInv, Returns
    <3> QED
      BY <1>1, <1>2, <2>2, <3>1, <3>2, <3>3 DEF MapInv
  \* Whoever else holds an id, holds another one.
  <2>4. ASSUME NEW r \in Sessions, NEW i \in Nat, NEW e, Returns(r, i, e), r # s \/ i # pos[s]
        PROVE  e # c
    BY <1>0, <2>1, <2>4, OneQuery
  <2>5. ASSUME NEW r \in Sessions, NEW e, e # c, Translated(r, e) PROVE Translated(r, e)'
    BY <1>0, <2>2, <2>5 DEF Translated
  <2>6. ASSUME NEW r \in Sessions \ {s} PROVE GivenInv(r)'
    <3> SUFFICES ASSUME NEW e \in DOMAIN given[r]
                 PROVE  \E i \in Nat : /\ Returns(r, i, e)'
                                       /\ (i < pos'[r] /\ Translated(r, e)') \/ OnItsWay(r, i, e)'
      BY <1>0 DEF GivenInv
    <3>1. PICK i \in Nat : /\ Returns(r, i, e)
                           /\ (i < pos[r] /\ Translated(r, e)) \/ OnItsWay(r, i, e)
      BY DEF IdInv, GivenInv
    <3>2. e # c
      BY <2>4, <2>6, <3>1
    <3>3. Translated(r, e) => Translated(r, e)'
      BY <2>5, <3>2
    <3> QED
      BY <1>0, <1>1, <1>3, <1>5, <3>1, <3>3 DEF Returns, OnItsWay
  <2>7. GivenInv(s)'
    <3> SUFFICES ASSUME NEW e \in DOMAIN given[s]
                 PROVE  \E i \in Nat : Returns(s, i, e)' /\ i < pos'[s] /\ Translated(s, e)'
      BY <1>0 DEF GivenInv
    <3>1. PICK i \in Nat : /\ Returns(s, i, e)
                           /\ (i < pos[s] /\ Translated(s, e)) \/ OnItsWay(s, i, e)
      BY DEF IdInv, GivenInv
    <3>2. CASE OnItsWay(s, i, e)
      <4>1. e = c /\ i = pos[s] /\ given[s][e] = d
        BY <3>1, <3>2 DEF OnItsWay, Returns, Query
      <4> QED
        BY <1>0, <1>1, <1>2, <2>2, <3>1, <4>1 DEF Returns, Translated
    <3>3. CASE i < pos[s] /\ Translated(s, e)
      <4>1. e # c
        BY <1>2, <2>4, <3>1, <3>3
      <4>2. Translated(s, e)'
        BY <2>5, <3>3, <4>1
      <4> QED
        BY <1>1, <1>5, <3>1, <3>3, <4>2 DEF Returns
    <3> QED
      BY <3>1, <3>2, <3>3
  <2> QED
    BY <1>1, <1>4, <1>6, <1>7, <2>3, <2>6, <2>7 DEF IdInv
<1> QED
  <2>1. \/ d \in {None, c} /\ UNCHANGED id_map
        \/ d \notin {None, c} /\ id_map' = Inserted(id_map, c, d)
    BY DEF ReceiveOk, Register, register
  <2> QED
    BY <1>8, <1>9, <2>1

LEMMA IdStep ==
    ASSUME \A u \in Setups : Distinct(u)
    PROVE  TypeInv /\ IdInv /\ [Next]_vars => IdInv'
<1> SUFFICES ASSUME TypeInv, IdInv, [Next]_vars PROVE IdInv'
  OBVIOUS
<1> USE DEF Goto, ids
<1>0. DOMAIN used = Sessions /\ DOMAIN outcome = Sessions /\ pc \in [Sessions -> Labels] /\ pos \in [Sessions -> Nat]
  BY DEF IdInv, IdShapes, TypeInv, Shapes
<1>1. ASSUME NEW s \in Sessions,
             Acquire(s) \/ Connect(s) \/ ReceiveErrorInTxn(s) \/ Finish(s)
      PROVE  IdInv'
  <2>1. /\ UNCHANGED <<setup, ids, used, pos, outcome>> /\ pc'[s] # "answered"
        /\ pc[s] = "answered" => outcome[s].status # "ok"
        /\ \A r \in Sessions \ {s} : pc'[r] = pc[r]
    BY <1>0, <1>1 DEF Acquire, Connect, ReceiveErrorInTxn, Finish
  <2>2. pos'[s] \in Nat /\ pos[s] <= pos'[s]
    BY <1>0, <2>1
  <2> QED
    BY <1>0, <2>1, <2>2, IdAdvance
<1>2. ASSUME NEW s \in Sessions, LeaveOut(s) \/ Skip(s) \/ ReceiveError(s) \/ RolledBack(s)
      PROVE  IdInv'
  <2>1. /\ UNCHANGED <<setup, ids>> /\ pc'[s] # "answered" /\ DOMAIN used' = Sessions
        /\ pc[s] = "answered" => outcome[s].status # "ok"
        /\ \A r \in Sessions \ {s} : UNCHANGED <<pc[r], outcome[r], used[r]>>
    BY <1>0, <1>2 DEF LeaveOut, Skip, ReceiveError, RolledBack, Answered, AtQuery
  <2>2. pos' = [pos EXCEPT ![s] = @ + 1]
    BY <1>2 DEF LeaveOut, Skip, ReceiveError, RolledBack, Record
  <2>3. /\ pos'[s] \in Nat /\ pos[s] <= pos'[s]
        /\ \A r \in Sessions \ {s} : pos'[r] = pos[r]
    BY <1>0, <2>2
  <2> QED
    BY <2>1, <2>3, IdAdvance
<1>3. ASSUME NEW s \in Sessions, Execute(s) PROVE IdInv'
  BY <1>3, IdExecute
<1>4. ASSUME NEW s \in Sessions, ReceiveOk(s) PROVE IdInv'
  BY <1>4, IdReceive
<1>5. CASE Join \/ UNCHANGED vars
  <2>1. UNCHANGED <<setup, pc, pos, outcome, used, ids>>
    BY <1>5 DEF Join, task, vars
  <2>2. setup \in Setups /\ Sessions' = Sessions
    BY <2>1, Fixed DEF TypeInv
  <2>3. \A r \in Sessions : pos'[r] \in Nat /\ pos[r] <= pos'[r]
    BY <1>0, <2>1
  <2>4. MapInv'
    BY <2>1, <2>3, MapKept
  <2>5. \A r \in Sessions : GivenInv(r)' /\ RowInv(r)' /\ UsedInv(r)'
    BY <2>1, <2>2, OthersKept
  <2> QED
    BY <2>1, <2>2, <2>4, <2>5 DEF IdInv, IdShapes
<1> QED
  BY <1>1, <1>2, <1>3, <1>4, <1>5 DEF Next, Session

\* If no two queries were captured with the same id, then, whatever the
\* sessions register in the shared map between a RETURNING and its use, however
\* statements fail and whatever ids the target gives (also the captured ids of
\* others), a query is sent with the id its own session got (session.rs 89-125,
\* correlate/map.rs 32-63).
THEOREM OwnIdsCorrect ==
    ASSUME \A u \in Setups : Distinct(u)
    PROVE  Spec => []OwnIdsMapped
<1>1. Init => TypeInv /\ IdInv
  BY TypeInit, IdInit
<1>2. TypeInv /\ IdInv /\ [Next]_vars => (TypeInv /\ IdInv)'
  BY TypeStep, IdStep
<1>3. IdInv => OwnIdsMapped
  BY DEF IdInv, UsedInv, OwnIdsMapped
<1> QED
  BY <1>1, <1>2, <1>3, PTL DEF Spec

-----------------------------------------------------------------------------
(***************************************************************************)
(* Functions defined by recursion.  What holds of a number and is carried  *)
(* from each to the next holds of all that follow (Climb).                 *)
(***************************************************************************)
\* A set of numbers has a least one.
LEMMA LeastNumber ==
    ASSUME NEW T \in SUBSET Nat, T # {}
    PROVE  \E m \in T : \A k \in T : m <= k
<1>1. PICK m \in T : \A k \in T : <<k, m>> \notin OpToRel(<, Nat)
  BY WFMin, NatLessThanWellFounded, Zenon
<1>2. \A k \in T : ~(k < m)
  BY <1>1, Zenon DEF OpToRel
<1> QED
  BY <1>2

\* A number after others that all have what is carried from each to the next.
LEMMA Climb ==
    ASSUME NEW m \in Nat, NEW n \in Nat, NEW T \in SUBSET (m..n), m \in T,
           \A k \in (m + 1)..n : k - 1 \in T => k \in T
    PROVE  T = m..n
<1> DEFINE F == {k \in m..n : k \notin T}
<1>1. SUFFICES ASSUME F # {} PROVE FALSE
  OBVIOUS
<1>2. PICK k \in F : \A j \in F : k <= j
  <2>1. F \in SUBSET Nat
    OBVIOUS
  <2> QED
    BY <1>1, <2>1, LeastNumber
<1>3. k # m /\ k \in (m + 1)..n /\ k - 1 \in m..n /\ ~(k <= k - 1)
  OBVIOUS
<1>4. k - 1 \in T
  BY <1>2, <1>3
<1> QED
  BY <1>3, <1>4

\* f starts with c and goes on by the functions of F.
Iterates(f, c, F, n) == f = [i \in 0..n |-> IF i = 0 THEN c ELSE F[i][f[i - 1]]]

\* What the definition of such a function says of its values.
LEMMA IteratesStep ==
    ASSUME NEW S, NEW c \in S, NEW n \in Nat, NEW F \in [1..n -> [S -> S]],
           NEW f, Iterates(f, c, F, n)
    PROVE  /\ f[0] = c /\ f \in [0..n -> S]
           /\ \A i \in 1..n : f[i] = F[i][f[i - 1]]
<1> DEFINE e(h, i) == IF i = 0 THEN c ELSE F[i][h[i - 1]]
<1>1. f = [i \in 0..n |-> e(f, i)]
  BY Zenon DEF Iterates
<1> HIDE DEF e
<1>2. \A i \in 0..n : f[i] = e(f, i)
  BY <1>1
<1>3. f[0] = c /\ \A i \in 1..n : i \in 0..n /\ i # 0 /\ f[i] = e(f, i)
  <2>1. 0 \in 0..n /\ \A i \in 1..n : i \in 0..n /\ i # 0
    OBVIOUS
  <2> QED
    BY <1>2, <2>1 DEF e
<1>4. \A i \in 1..n : f[i] = F[i][f[i - 1]]
  BY <1>3 DEF e
<1> DEFINE T == {i \in 0..n : f[i] \in S}
<1>5. T = 0..n
  <2>1. 0 \in T
    BY <1>3
  <2>2. \A k \in 1..n : k - 1 \in T => k \in T
    BY <1>4
  <2> HIDE DEF T
  <2>3. T \in SUBSET (0..n)
    BY DEF T
  <2>4. \A k \in (0 + 1)..n : k - 1 \in T => k \in T
    BY <2>2
  <2> QED
    BY <2>1, <2>3, <2>4, Climb
<1>6. f \in [0..n -> S]
  <2>1. \A i \in 0..n : f[i] \in S
    BY <1>5
  <2>2. f = [i \in 0..n |-> f[i]]
    BY <1>1
  <2> QED
    BY <2>1, <2>2
<1> QED
  BY <1>3, <1>4, <1>6

\* There is one for every length: else a shortest without.
LEMMA IteratesExist ==
    ASSUME NEW S, NEW c \in S, NEW n \in Nat, NEW F \in [1..n -> [S -> S]]
    PROVE  \E f : Iterates(f, c, F, n)
<1> DEFINE T == {m \in 0..n : \E f : Iterates(f, c, F, m)}
<1>1. 0 \in T
  <2>1. Iterates([i \in 0..0 |-> c], c, F, 0)
    BY DEF Iterates
  <2> QED
    BY <2>1
<1>2. ASSUME NEW k \in 1..n, k - 1 \in T PROVE k \in T
  <2>1. PICK f : Iterates(f, c, F, k - 1)
    BY <1>2
  <2> DEFINE g == [i \in 0..k |-> IF i = k THEN F[k][f[k - 1]] ELSE f[i]]
  <2>2. \A i \in 0..(k - 1) : f[i] = IF i = 0 THEN c ELSE F[i][f[i - 1]]
    <3> DEFINE e(h, i) == IF i = 0 THEN c ELSE F[i][h[i - 1]]
    <3>1. f = [i \in 0..(k - 1) |-> e(f, i)]
      BY <2>1, Zenon DEF Iterates
    <3> HIDE DEF e
    <3>2. \A i \in 0..(k - 1) : f[i] = e(f, i)
      BY <3>1
    <3> QED
      BY <3>2 DEF e
  <2>3. \A i \in 0..k : g[i] = IF i = 0 THEN c ELSE F[i][g[i - 1]]
    <3> TAKE i \in 0..k
    <3>1. CASE i = k
      BY <3>1
    <3>2. CASE i # k
      <4>1. i \in 0..(k - 1) /\ g[i] = f[i] /\ (i # 0 => i - 1 \in 0..k /\ i - 1 # k /\ g[i - 1] = f[i - 1])
        BY <3>2
      <4> QED
        BY <2>2, <4>1
    <3> QED
      BY <3>1, <3>2
  <2>4. Iterates(g, c, F, k)
    <3> DEFINE e(h, i) == IF i = 0 THEN c ELSE F[i][h[i - 1]]
    <3>1. g = [i \in 0..k |-> g[i]]
      OBVIOUS
    <3>2. \A i \in 0..k : g[i] = e(g, i)
      BY <2>3
    <3> HIDE DEF g, e
    <3>3. g = [i \in 0..k |-> e(g, i)]
      BY <3>1, <3>2
    <3> QED
      BY <3>3, Zenon DEF Iterates, e
  <2> QED
    BY <2>4
<1>3. T = 0..n
  <2> HIDE DEF T
  <2>1. T \in SUBSET (0..n) /\ \A k \in (0 + 1)..n : k - 1 \in T => k \in T
    BY <1>2 DEF T
  <2> QED
    BY <1>1, <2>1, Climb
<1>4. n \in T
  <2>1. n \in 0..n
    OBVIOUS
  <2> QED
    BY <1>3, <2>1, Zenon
<1> QED
  BY <1>4

\* Captured is what its definition says.
LEMMA CapturedIs ==
    ASSUME setup \in Setups, NEW s \in Sessions
    PROVE  /\ Captured(s) \in [0..Len(Script(s)) -> Servers] /\ Captured(s)[0] = Connection
           /\ \A i \in 1..Len(Script(s)) :
                 Captured(s)[i] = Succeed(Captured(s)[i - 1], i, Script(s)[i].stmt)
<1> DEFINE n == Len(Script(s))
           F == [i \in 1..n |-> [c \in Servers |-> Succeed(c, i, Script(s)[i].stmt)]]
           By(f) == f = [i \in 0..n |-> IF i = 0 THEN Connection
                                        ELSE Succeed(f[i - 1], i, Script(s)[i].stmt)]
           f == CHOOSE h : By(h)
<1>1. n \in Nat
  BY Scripts
<1>2. Connection \in Servers
  BY DEF Connection, Servers
<1>3. F \in [1..n -> [Servers -> Servers]]
  BY <1>1, SucceedType
<1>4. PICK g : Iterates(g, Connection, F, n)
  <2> HIDE DEF F
  <2> QED
    BY <1>1, <1>2, <1>3, IteratesExist
<1>5. g \in [0..n -> Servers] /\ g[0] = Connection /\ \A i \in 1..n : g[i] = F[i][g[i - 1]]
  <2> HIDE DEF F
  <2> QED
    BY <1>1, <1>2, <1>3, <1>4, IteratesStep
<1>6. \A i \in 1..n : g[i] = Succeed(g[i - 1], i, Script(s)[i].stmt)
  <2>1. \A i \in 1..n : \A c \in Servers : F[i][c] = Succeed(c, i, Script(s)[i].stmt)
    OBVIOUS
  <2>2. \A i \in 1..n : g[i - 1] \in Servers
    BY <1>1, <1>5
  <2> HIDE DEF F, n
  <2> QED
    BY <1>5, <2>1, <2>2
<1>7. By(g)
  <2> DEFINE e(i) == IF i = 0 THEN Connection ELSE Succeed(g[i - 1], i, Script(s)[i].stmt)
  <2>1. g = [i \in 0..n |-> g[i]]
    BY <1>5
  <2>2. \A i \in 0..n : g[i] = e(i)
    BY <1>1, <1>5, <1>6
  <2> HIDE DEF e, n
  <2>3. g = [i \in 0..n |-> e(i)]
    BY <2>1, <2>2
  <2> QED
    BY <2>3, Zenon DEF e, n
<1>8. By(f)
  BY <1>7, Zenon
<1>9. Captured(s) = f
  BY Zenon DEF Captured
<1>10. f[0] = Connection /\ \A i \in 1..n : f[i] = Succeed(f[i - 1], i, Script(s)[i].stmt)
  <2> DEFINE e(h, i) == IF i = 0 THEN Connection ELSE Succeed(h[i - 1], i, Script(s)[i].stmt)
  <2>1. f = [i \in 0..n |-> e(f, i)]
    BY <1>8, Zenon
  <2> HIDE DEF e, f
  <2>2. \A i \in 0..n : f[i] = e(f, i)
    BY <2>1
  <2> QED
    BY <1>1, <2>2 DEF e
<1>11. f \in [0..n -> Servers]
  <2> DEFINE T == {i \in 0..n : f[i] \in Servers}
  <2> HIDE DEF f, n
  <2>1. 0 \in T
    BY <1>1, <1>2, <1>10
  <2>2. \A k \in (0 + 1)..n : k - 1 \in T => k \in T
    BY <1>1, <1>10, SucceedType
  <2>3. T = 0..n
    <3>1. T \in SUBSET (0..n)
      OBVIOUS
    <3> HIDE DEF T
    <3> QED
      BY <1>1, <2>1, <2>2, <3>1, Climb
  <2>4. \A i \in 0..n : f[i] \in Servers
    BY <2>3
  <2>5. f = [i \in 0..n |-> f[i]]
    BY <1>8 DEF f
  <2> QED
    BY <2>4, <2>5
<1> QED
  BY <1>9, <1>10, <1>11

\* Block is what its definition says.
LEMMA BlockIs ==
    ASSUME setup \in Setups, NEW s \in Sessions
    PROVE  /\ Block(s) \in [0..Len(Script(s)) -> Nat] /\ Block(s)[0] = 0
           /\ \A i \in 1..Len(Script(s)) :
                 Block(s)[i] = IF Captured(s)[i - 1].txn = "open" THEN Block(s)[i - 1]
                               ELSE IF Captured(s)[i].txn = "open" THEN i ELSE 0
<1> DEFINE n == Len(Script(s))
           Next1(b, i) == IF Captured(s)[i - 1].txn = "open" THEN b
                          ELSE IF Captured(s)[i].txn = "open" THEN i ELSE 0
           F == [i \in 1..n |-> [b \in Nat |-> Next1(b, i)]]
           By(f) == f = [i \in 0..n |-> IF i = 0 THEN 0
                                        ELSE IF Captured(s)[i - 1].txn = "open" THEN f[i - 1]
                                        ELSE IF Captured(s)[i].txn = "open" THEN i ELSE 0]
           f == CHOOSE h : By(h)
<1>1. n \in Nat
  BY Scripts
<1>2. \A i \in 1..n : \A b \in Nat : Next1(b, i) \in Nat
  BY <1>1
<1>3. F \in [1..n -> [Nat -> Nat]]
  <2> HIDE DEF Next1
  <2> QED
    BY <1>2
<1>4. PICK S : S = Nat
  OBVIOUS
<1>5. PICK z \in S : z = 0
  BY <1>4
<1>6. PICK g : g \in [0..n -> Nat] /\ g[0] = z /\ \A i \in 1..n : g[i] = F[i][g[i - 1]]
  <2>1. F \in [1..n -> [S -> S]]
    BY <1>3, <1>4
  <2> HIDE DEF F
  <2>2. PICK g : Iterates(g, z, F, n)
    BY <1>1, <2>1, IteratesExist
  <2>3. g \in [0..n -> S] /\ g[0] = z /\ \A i \in 1..n : g[i] = F[i][g[i - 1]]
    BY <1>1, <2>1, <2>2, IteratesStep
  <2> QED
    BY <1>4, <2>3
<1>7. \A i \in 1..n : g[i] = Next1(g[i - 1], i)
  <2> HIDE DEF Next1
  <2>1. \A i \in 1..n : \A b \in Nat : F[i][b] = Next1(b, i)
    OBVIOUS
  <2>2. \A i \in 1..n : g[i - 1] \in Nat
    BY <1>1, <1>6
  <2> HIDE DEF F, n
  <2> QED
    BY <1>6, <2>1, <2>2
<1>8. By(g)
  <2> DEFINE e(i) == IF i = 0 THEN 0 ELSE Next1(g[i - 1], i)
  <2>1. g = [i \in 0..n |-> g[i]]
    BY <1>6
  <2>2. \A i \in 0..n : g[i] = e(i)
    <3> HIDE DEF Next1
    <3> QED
      BY <1>1, <1>5, <1>6, <1>7
  <2> HIDE DEF e, n
  <2>3. g = [i \in 0..n |-> e(i)]
    BY <2>1, <2>2
  <2> QED
    BY <2>3, Zenon DEF e, n
<1>9. By(f)
  BY <1>8, Zenon
<1>10. Block(s) = f
  BY Zenon DEF Block
<1>11. f[0] = 0 /\ \A i \in 1..n : f[i] = Next1(f[i - 1], i)
  <2> DEFINE e(h, i) == IF i = 0 THEN 0 ELSE Next1(h[i - 1], i)
  <2>1. f = [i \in 0..n |-> e(f, i)]
    BY <1>9, Zenon
  <2> HIDE DEF e, f
  <2>2. \A i \in 0..n : f[i] = e(f, i)
    BY <2>1
  <2> HIDE DEF Next1
  <2> QED
    BY <1>1, <2>2 DEF e
<1>12. f \in [0..n -> Nat]
  <2> DEFINE T == {i \in 0..n : f[i] \in Nat}
  <2> HIDE DEF f, n, Next1
  <2>1. 0 \in T
    BY <1>1, <1>11
  <2>2. \A k \in (0 + 1)..n : k - 1 \in T => k \in T
    BY <1>1, <1>2, <1>11
  <2>3. T = 0..n
    <3>1. T \in SUBSET (0..n)
      OBVIOUS
    <3> HIDE DEF T
    <3> QED
      BY <1>1, <2>1, <2>2, <3>1, Climb
  <2>4. \A i \in 0..n : f[i] \in Nat
    BY <2>3
  <2>5. f = [i \in 0..n |-> f[i]]
    BY <1>9 DEF f
  <2> QED
    BY <2>4, <2>5
<1> QED
  BY <1>10, <1>11, <1>12

-----------------------------------------------------------------------------
(***************************************************************************)
(* What was captured.                                                      *)
(***************************************************************************)
Txn(s, b) == {i \in DOMAIN Script(s) : Block(s)[i] = b}

\* How a session's script moves the transaction that is open.
LEMMA OpenBeginMoves ==
    ASSUME setup \in Setups, NEW s \in Sessions, NEW n \in DOMAIN Script(s)
    PROVE  /\ Kind(s, n) = "begin" => OpenBegin(s, n) = {n}
           /\ Kind(s, n) \in {"commit", "rollback"} => OpenBegin(s, n) = {}
           /\ ~is_transaction_control(Kind(s, n)) => OpenBegin(s, n) = OpenBegin(s, n - 1)
<1>1. n \in Nat \ {0}
  BY Scripts
<1>2. CASE Kind(s, n) = "begin"
  <2>1. \A b \in 1..n : b # n => ~(\A i \in (b + 1)..n : ~is_transaction_control(Kind(s, i)))
    <3>1. \A b \in 1..n : b # n => n \in (b + 1)..n
      BY <1>1
    <3> QED
      BY <1>2, <3>1 DEF is_transaction_control
  <2>2. n \in 1..n /\ (n + 1)..n = {}
    BY <1>1
  <2> QED
    BY <1>2, <2>1, <2>2 DEF OpenBegin, is_transaction_control
<1>3. CASE Kind(s, n) \in {"commit", "rollback"}
  <2>1. \A b \in 1..n : b # n => n \in (b + 1)..n
    BY <1>1
  <2> QED
    BY <1>3, <2>1 DEF OpenBegin, is_transaction_control
<1>4. CASE ~is_transaction_control(Kind(s, n))
  <2>1. Kind(s, n) # "begin"
    BY <1>4 DEF is_transaction_control
  <2>2. ASSUME NEW b \in 1..n, b # n
        PROVE  (\A i \in (b + 1)..n : ~is_transaction_control(Kind(s, i)))
                  <=> (\A i \in (b + 1)..(n - 1) : ~is_transaction_control(Kind(s, i)))
    <3>1. \A i : i \in (b + 1)..n <=> i \in (b + 1)..(n - 1) \/ i = n
      BY <1>1, <2>2
    <3> QED
      BY <1>4, <3>1
  <2>3. \A b : b \in 1..(n - 1) <=> b \in 1..n /\ b # n
    BY <1>1
  <2>4. \A b : b \in OpenBegin(s, n) <=> b \in OpenBegin(s, n - 1)
    BY <2>1, <2>2, <2>3, Zenon DEF OpenBegin
  <2>5. OpenBegin(s, n) = OpenBegin(s, n - 1)
    BY <2>4
  <2> QED
    BY <1>4, <2>5 DEF is_transaction_control
<1> QED
  BY <1>2, <1>3, <1>4 DEF is_transaction_control

\* What a statement that succeeds does to the transaction, part by part.
Same(c, d) == d.txn = c.txn /\ d.work = c.work /\ d.saved = c.saved

Moved(c, i, stmt, d) ==
    /\ stmt = "begin" => d.txn = "open" /\ d.work = c.work /\ d.saved = c.saved
    /\ stmt \in {"commit", "rollback"} => d.txn = "none" /\ d.work = {} /\ d.saved = {}
    /\ stmt = "savepoint" => d.txn = c.txn /\ d.work = c.work /\ d.saved = c.work
    /\ stmt = "rollback_to" => d.txn = c.txn /\ d.work = c.saved /\ d.saved = c.saved
    /\ stmt = "select" => Same(c, d)
    /\ Writes(stmt) /\ c.txn = "open" =>
          d.txn = c.txn /\ d.work = c.work \cup {i} /\ d.saved = c.saved
    /\ Writes(stmt) /\ c.txn # "open" => Same(c, d)
    /\ d.committed = IF stmt = "commit" THEN c.committed \cup c.work
                     ELSE IF Writes(stmt) /\ c.txn = "none" THEN c.committed \cup {i}
                     ELSE c.committed

\* Succeed does that.
LEMMA SucceedParts ==
    ASSUME NEW c \in Servers, NEW i \in Nat, NEW stmt \in WellRead, NEW d, d = Succeed(c, i, stmt)
    PROVE  Moved(c, i, stmt, d)
<1> USE DEF Servers, Same, Writes, Moved
<1>1. CASE stmt = "commit"
  <2>1. /\ End(c) \in Servers /\ End(c).txn = "none" /\ End(c).work = {} /\ End(c).saved = {}
        /\ End(c).committed = c.committed
    BY DEF End
  <2>2. d = [End(c) EXCEPT !.committed = End(c).committed \cup c.work]
    BY <1>1, <2>1 DEF Succeed, End
  <2> QED
    BY <1>1, <2>1, <2>2
<1>2. CASE stmt = "rollback"
  <2>1. d = End(c)
    BY <1>2 DEF Succeed
  <2> QED
    BY <1>2, <2>1 DEF End
<1>3. CASE stmt \in {"begin", "savepoint", "rollback_to"}
  BY <1>3 DEF Succeed
<1>4. CASE stmt \in {"write", "with_write", "select"}
  BY <1>4 DEF Succeed
<1> QED
  BY <1>1, <1>2, <1>3, <1>4 DEF WellRead

\* Transaction control by its first word is transaction control.
LEMMA KindIs ==
    ASSUME setup \in Setups, Regular(setup), NEW s \in Sessions, NEW n \in DOMAIN Script(s)
    PROVE  /\ Script(s)[n].stmt \in WellRead
           /\ Kind(s, n) = "begin" <=> Script(s)[n].stmt = "begin"
           /\ Kind(s, n) \in {"commit", "rollback"} <=> Script(s)[n].stmt \in {"commit", "rollback"}
           /\ is_transaction_control(Kind(s, n)) <=> Script(s)[n].stmt \in {"begin", "commit", "rollback"}
<1>1. Script(s)[n].stmt \in WellRead
  BY DEF Regular, Legible, Sessions, Script
<1> QED
  BY <1>1 DEF Kind, from_sql, first_word, is_transaction_control, WellRead

\* Each captured query moved the transaction as a statement that succeeds does.
LEMMA Steps ==
    ASSUME setup \in Setups, Regular(setup), NEW s \in Sessions, NEW m \in DOMAIN Script(s)
    PROVE  Moved(Captured(s)[m - 1], m, Script(s)[m].stmt, Captured(s)[m])
<1>1. m \in Nat /\ m - 1 \in 0..Len(Script(s)) /\ m \in 1..Len(Script(s))
  BY Scripts
<1>2. Captured(s)[m - 1] \in Servers
      /\ Captured(s)[m] = Succeed(Captured(s)[m - 1], m, Script(s)[m].stmt)
  BY <1>1, CapturedIs
<1>3. Script(s)[m].stmt \in WellRead
  BY KindIs
<1> QED
  BY <1>1, <1>2, <1>3, SucceedParts

\* No query belongs to a transaction that begins after it.
LEMMA BlockBound ==
    ASSUME setup \in Setups, NEW s \in Sessions
    PROVE  /\ \A n \in 0..Len(Script(s)) : Block(s)[n] \in 0..n
           /\ \A b \in Nat : \A i \in Txn(s, b) : b <= i
<1> DEFINE L == Len(Script(s))
           T == {n \in 0..L : Block(s)[n] \in 0..n}
<1>1. L \in Nat /\ DOMAIN Script(s) = 1..L
  BY Scripts
<1>2. 0 \in T
  BY <1>1, BlockIs
<1>3. ASSUME NEW k \in (0 + 1)..L, k - 1 \in T PROVE k \in T
  <2>1. k \in 1..L /\ k \in 0..L /\ Block(s)[k - 1] \in 0..(k - 1)
    BY <1>1, <1>3
  <2>2. Block(s)[k] \in {Block(s)[k - 1], k, 0}
    BY <2>1, BlockIs
  <2> QED
    BY <1>1, <2>1, <2>2
<1>4. T = 0..L
  <2>1. T \in SUBSET (0..L)
    OBVIOUS
  <2> HIDE DEF T
  <2> QED
    BY <1>1, <1>2, <1>3, <2>1, Climb
<1>5. \A n \in 0..L : Block(s)[n] \in 0..n
  BY <1>4
<1>6. \A b \in Nat : \A i \in Txn(s, b) : b <= i
  BY <1>1, <1>5 DEF Txn
<1> QED
  BY <1>5, <1>6

\* What was captured after n queries: the transaction that is open is that of
\* the engine, and none of it is committed.
Steady(s, n) ==
    LET c == Captured(s)[n] IN
    /\ c.txn \in {"none", "open"} /\ (c.committed \cup c.work \cup c.saved) \subseteq 1..n
    /\ c.txn = "none" => OpenBegin(s, n) = {} /\ c.work = {} /\ c.saved = {}
    /\ c.txn = "open" =>
          /\ OpenBegin(s, n) = {Block(s)[n]} /\ Block(s)[n] \in 1..n
          /\ c.work \subseteq Txn(s, Block(s)[n]) /\ c.saved \subseteq Txn(s, Block(s)[n])
          /\ c.committed \cap Txn(s, Block(s)[n]) = {}

\* One query further.
LEMMA SteadyStep ==
    ASSUME setup \in Setups, Regular(setup), NEW s \in Sessions, NEW n \in DOMAIN Script(s),
           Steady(s, n - 1)
    PROVE  Steady(s, n)
<1> DEFINE c == Captured(s)[n - 1]
           d == Captured(s)[n]
           stmt == Script(s)[n].stmt
           b == Block(s)[n - 1]
<1>1. n \in 1..Len(Script(s)) /\ n \in Nat /\ n - 1 \in Nat /\ n - 1 \in 0..Len(Script(s))
      /\ n \in 0..Len(Script(s)) /\ DOMAIN Script(s) = 1..Len(Script(s))
  BY Scripts
<1>3. stmt \in WellRead
  BY KindIs
<1>2. Moved(c, n, stmt, d)
  BY Steps
<1>4. Block(s)[n] = IF c.txn = "open" THEN b ELSE IF d.txn = "open" THEN n ELSE 0
  BY <1>1, BlockIs
<1>5. c.txn \in {"none", "open"} /\ c.committed \subseteq 1..(n - 1)
      /\ c.committed \subseteq 1..n /\ c.work \subseteq 1..n /\ c.saved \subseteq 1..n
  BY <1>1 DEF Steady
<1>6. CASE c.txn = "none"
  <2>1. OpenBegin(s, n - 1) = {} /\ c.work = {} /\ c.saved = {}
    BY <1>6 DEF Steady
  <2>2. CASE stmt = "begin"
    <3>1. d.txn = "open" /\ d.work = {} /\ d.saved = {} /\ d.committed = c.committed
      BY <1>2, <2>1, <2>2 DEF Moved, Writes
    <3>2. Block(s)[n] = n /\ OpenBegin(s, n) = {n}
      BY <1>4, <1>6, <2>2, <3>1, KindIs, OpenBeginMoves
    <3>3. c.committed \cap Txn(s, n) = {}
      <4>1. \A i \in Txn(s, n) : i \in Nat /\ n <= i
        BY <1>1, BlockBound DEF Txn
      <4> QED
        BY <1>1, <1>5, <4>1
    <3> QED
      BY <1>1, <1>5, <3>1, <3>2, <3>3 DEF Steady
  <2>3. CASE stmt # "begin"
    <3>1. d.txn = "none" /\ d.work = {} /\ d.saved = {} /\ d.committed \subseteq c.committed \cup {n}
      BY <1>3, <1>2, <1>6, <2>1, <2>3 DEF Moved, Writes, Same, WellRead
    <3>2. OpenBegin(s, n) = {}
      BY <2>1, <2>3, KindIs, OpenBeginMoves DEF is_transaction_control
    <3> QED
      BY <1>1, <1>5, <3>1, <3>2 DEF Steady
  <2> QED
    BY <2>2, <2>3
<1>7. CASE c.txn = "open"
  <2>1. /\ OpenBegin(s, n - 1) = {b} /\ b \in 1..(n - 1)
        /\ c.work \subseteq Txn(s, b) /\ c.saved \subseteq Txn(s, b) /\ c.committed \cap Txn(s, b) = {}
    BY <1>7 DEF Steady
  <2>2. Block(s)[n] = b /\ n \in Txn(s, b)
    BY <1>4, <1>7 DEF Txn
  <2>3. stmt # "begin"
    <3>1. SUFFICES ASSUME stmt = "begin" PROVE FALSE
      OBVIOUS
    <3>2. b \in DOMAIN Script(s) /\ b < n /\ Kind(s, b) = "begin"
          /\ \A i \in (b + 1)..(n - 1) : ~is_transaction_control(Kind(s, i))
      BY <1>1, <2>1 DEF OpenBegin
    <3>3. Script(s)[b].stmt = "begin"
      BY <3>2, KindIs
    <3>4. PICK k \in (b + 1)..(n - 1) : Script(s)[k].stmt \in {"commit", "rollback"}
      BY <3>1, <3>2, <3>3 DEF Regular, Flat, Sessions, Script
    <3>5. k \in DOMAIN Script(s)
      BY <1>1, <2>1
    <3> QED
      BY <3>2, <3>4, <3>5, KindIs
  <2>4. CASE stmt \in {"commit", "rollback"}
    <3>1. d.txn = "none" /\ d.work = {} /\ d.saved = {} /\ d.committed \subseteq c.committed \cup c.work
      BY <1>2, <2>4 DEF Moved, Writes
    <3>2. OpenBegin(s, n) = {}
      BY <2>4, KindIs, OpenBeginMoves
    <3> QED
      BY <1>1, <1>5, <3>1, <3>2 DEF Steady
  <2>5. CASE stmt \notin {"begin", "commit", "rollback"}
    <3>1. d.txn = "open" /\ d.committed = c.committed
          /\ d.work \subseteq Txn(s, b) /\ d.saved \subseteq Txn(s, b)
          /\ d.work \subseteq 1..n /\ d.saved \subseteq 1..n
      BY <1>1, <1>3, <1>5, <1>7, <1>2, <2>1, <2>2, <2>5 DEF Moved, Writes, Same, WellRead
    <3>2. OpenBegin(s, n) = {b}
      BY <2>1, <2>5, KindIs, OpenBeginMoves
    <3> QED
      BY <1>1, <1>5, <2>1, <2>2, <3>1, <3>2 DEF Steady
  <2> QED
    BY <2>3, <2>4, <2>5
<1> QED
  BY <1>5, <1>6, <1>7

\* So after every query.
LEMMA AlwaysSteady ==
    ASSUME setup \in Setups, Regular(setup), NEW s \in Sessions
    PROVE  \A n \in 0..Len(Script(s)) : Steady(s, n)
<1> DEFINE L == Len(Script(s))
           T == {n \in 0..L : Steady(s, n)}
<1>1. L \in Nat /\ DOMAIN Script(s) = 1..L
  BY Scripts
<1>2. 0 \in T
  <2>1. Captured(s)[0] = Connection /\ OpenBegin(s, 0) = {}
    BY CapturedIs DEF OpenBegin
  <2> QED
    BY <1>1, <2>1 DEF Steady, Connection
<1>3. ASSUME NEW k \in (0 + 1)..L, k - 1 \in T PROVE k \in T
  <2>1. k \in DOMAIN Script(s) /\ k \in 0..L /\ Steady(s, k - 1)
    BY <1>1, <1>3
  <2>2. Steady(s, k)
    BY <2>1, SteadyStep
  <2> QED
    BY <2>1, <2>2
<1>4. T = 0..L
  <2>1. T \in SUBSET (0..L)
    OBVIOUS
  <2> HIDE DEF T
  <2> QED
    BY <1>1, <1>2, <1>3, <2>1, Climb
<1> QED
  BY <1>4

\* The BEGIN that assign_transaction_ids has in mind is that of the transaction
\* that the query was captured in.
LEMMA BlockBegins ==
    ASSUME setup \in Setups, Regular(setup), NEW s \in Sessions, NEW n \in DOMAIN Script(s)
    PROVE  OpenBegin(s, IF Kind(s, n) \in {"commit", "rollback"} THEN n - 1 ELSE n)
              = IF Block(s)[n] = 0 THEN {} ELSE {Block(s)[n]}
<1> DEFINE c == Captured(s)[n - 1]
           d == Captured(s)[n]
           stmt == Script(s)[n].stmt
<1>1. n \in 1..Len(Script(s)) /\ n \in Nat /\ n - 1 \in 0..Len(Script(s)) /\ n \in 0..Len(Script(s))
  BY Scripts
<1>2. Steady(s, n - 1) /\ Steady(s, n)
  BY <1>1, AlwaysSteady
<1>3. Moved(c, n, stmt, d)
  BY Steps
<1>4. Block(s)[n] = IF c.txn = "open" THEN Block(s)[n - 1] ELSE IF d.txn = "open" THEN n ELSE 0
  BY <1>1, BlockIs
<1>5. c.txn \in {"none", "open"} /\ d.txn \in {"none", "open"}
  BY <1>2 DEF Steady
<1>6. CASE stmt \in {"commit", "rollback"}
  <2>1. d.txn = "none" /\ Kind(s, n) \in {"commit", "rollback"}
    BY <1>3, <1>6, KindIs DEF Moved
  <2>2. OpenBegin(s, n - 1) = IF c.txn = "open" THEN {Block(s)[n - 1]} ELSE {}
    BY <1>2, <1>5 DEF Steady
  <2>3. c.txn = "open" => Block(s)[n - 1] # 0
    BY <1>1, <1>2 DEF Steady
  <2> QED
    BY <1>4, <1>5, <2>1, <2>2, <2>3
<1>7. CASE stmt \notin {"commit", "rollback"}
  <2>1. Kind(s, n) \notin {"commit", "rollback"}
    BY <1>7, KindIs
  <2>2. c.txn = "open" => d.txn = "open"
    BY <1>3, <1>7, KindIs DEF Moved, Same, Writes, WellRead
  <2>3. OpenBegin(s, n) = IF d.txn = "open" THEN {Block(s)[n]} ELSE {}
    BY <1>2, <1>5 DEF Steady
  <2>4. d.txn = "open" => Block(s)[n] # 0
    BY <1>1, <1>2 DEF Steady
  <2> QED
    BY <1>4, <1>5, <2>1, <2>2, <2>3, <2>4
<1> QED
  BY <1>6, <1>7

\* Its number is that of no other BEGIN.
LEMMA TxnIdOne ==
    ASSUME setup \in Setups, NEW s \in Sessions, NEW r \in Sessions,
           NEW b \in DOMAIN Script(s), NEW d \in DOMAIN Script(r),
           Kind(s, b) = "begin", Kind(r, d) = "begin", txn_id(s, b) = txn_id(r, d)
    PROVE  s = r /\ b = d
<1> DEFINE To(t, e) == {q \in Queries :
                         Kind(q[1], q[2]) = "begin" /\ (q[1] < t \/ (q[1] = t /\ q[2] <= e))}
<1>1. s \in Nat /\ r \in Nat /\ b \in Nat /\ d \in Nat
      /\ \A q \in Queries : q[1] \in Nat /\ q[2] \in Nat
  <2>1. Sessions \subseteq Nat /\ \A t \in Sessions : DOMAIN Script(t) \subseteq Nat
    BY Scripts
  <2> QED
    BY <2>1 DEF Queries
<1>2. <<s, b>> \in To(s, b) /\ <<r, d>> \in To(r, d)
  <2>1. <<s, b>> \in Queries /\ <<r, d>> \in Queries
    BY DEF Queries
  <2> QED
    BY <1>1, <2>1
<1>3. Cardinality(To(s, b)) = Cardinality(To(r, d))
  BY DEF txn_id
<1>4. IsFiniteSet(To(s, b)) /\ IsFiniteSet(To(r, d))
  BY Finite, FS_Subset
<1>5. To(s, b) \subseteq To(r, d) \/ To(r, d) \subseteq To(s, b)
  BY <1>1
<1>6. To(s, b) = To(r, d)
  <2> HIDE DEF To
  <2> QED
    BY <1>3, <1>4, <1>5, FS_Subset
<1> QED
  BY <1>1, <1>2, <1>6

\* The transaction id of a query is the number of the BEGIN it was captured after.
LEMMA TransactionIdIs ==
    ASSUME setup \in Setups, Regular(setup), NEW s \in Sessions, NEW n \in DOMAIN Script(s)
    PROVE  /\ transaction_id(s, n) # None <=> Block(s)[n] # 0
           /\ Block(s)[n] # 0 =>
                /\ Block(s)[n] \in DOMAIN Script(s) /\ Kind(s, Block(s)[n]) = "begin"
                /\ transaction_id(s, n) = txn_id(s, Block(s)[n])
<1> DEFINE m == IF Kind(s, n) \in {"commit", "rollback"} THEN n - 1 ELSE n
           b == Block(s)[n]
<1>1. transaction_id(s, n) = CurrentTxn(s, m)
  BY DEF transaction_id
<1>2. OpenBegin(s, m) = IF b = 0 THEN {} ELSE {b}
  BY BlockBegins
<1>3. CurrentTxn(s, m) # None <=> OpenBegin(s, m) # {}
  BY TxnId
<1>4. b # 0 => b \in DOMAIN Script(s) /\ Kind(s, b) = "begin"
  <2>1. n \in 1..Len(Script(s)) /\ Len(Script(s)) \in Nat /\ DOMAIN Script(s) = 1..Len(Script(s))
    BY Scripts
  <2>2. \A e \in OpenBegin(s, m) : e \in 1..m /\ Kind(s, e) = "begin"
    BY DEF OpenBegin
  <2>3. b # 0 => b \in 1..m /\ Kind(s, b) = "begin"
    <3> HIDE DEF m, b
    <3> QED
      BY <1>2, <2>2
  <2>4. \A e \in 1..m : e \in DOMAIN Script(s)
    BY <2>1
  <2> QED
    BY <2>3, <2>4
<1>5. b # 0 => CurrentTxn(s, m) = txn_id(s, b)
  BY <1>2 DEF CurrentTxn
<1> QED
  BY <1>1, <1>2, <1>3, <1>4, <1>5

\* Transaction ids are right where no session sends BEGIN in a transaction and
\* from_sql reads each statement for what it is (assign_transaction_ids,
\* profile/mod.rs 148-170).
THEOREM TxnIdsCorrect ==
    Spec => []TxnIdsRight
<1>1. setup \in Setups => TxnIdsRight
  <2> SUFFICES ASSUME setup \in Setups, Regular(setup), NEW s \in Sessions, NEW r \in Sessions,
                      NEW i \in DOMAIN Script(s), NEW j \in DOMAIN Script(r)
               PROVE  /\ transaction_id(s, i) = None <=> Block(s)[i] = 0
                      /\ transaction_id(s, i) # None =>
                           (transaction_id(s, i) = transaction_id(r, j)
                              <=> s = r /\ Block(s)[i] = Block(r)[j])
    BY DEF TxnIdsRight
  <2>1. Regular(setup)
    OBVIOUS
  <2>2. transaction_id(s, i) # None <=> Block(s)[i] # 0
    BY <2>1, TransactionIdIs
  <2>3. transaction_id(r, j) # None <=> Block(r)[j] # 0
    BY <2>1, TransactionIdIs
  <2>4. CASE Block(s)[i] = 0 \/ Block(r)[j] = 0
    BY <2>2, <2>3, <2>4
  <2>5. CASE Block(s)[i] # 0 /\ Block(r)[j] # 0
    <3>1. /\ Block(s)[i] \in DOMAIN Script(s) /\ Kind(s, Block(s)[i]) = "begin"
          /\ transaction_id(s, i) = txn_id(s, Block(s)[i])
      BY <2>1, <2>5, TransactionIdIs
    <3>2. /\ Block(r)[j] \in DOMAIN Script(r) /\ Kind(r, Block(r)[j]) = "begin"
          /\ transaction_id(r, j) = txn_id(r, Block(r)[j])
      BY <2>1, <2>5, TransactionIdIs
    <3>3. transaction_id(s, i) = transaction_id(r, j) => s = r /\ Block(s)[i] = Block(r)[j]
      BY <3>1, <3>2, TxnIdOne
    <3> QED
      BY <2>2, <2>5, <3>1, <3>2, <3>3
  <2> QED
    BY <2>4, <2>5
<1>2. TypeInv => TxnIdsRight
  BY <1>1 DEF TypeInv
<1> QED
  BY <1>2, TypeInit, TypeStep, PTL DEF Spec

\* What was captured does not change.
LEMMA CapturedFixed ==
    ASSUME UNCHANGED setup, NEW s
    PROVE  /\ Captured(s)' = Captured(s) /\ Block(s)' = Block(s)
           /\ \A b : Txn(s, b)' = Txn(s, b)
<1>1. Script(s)' = Script(s)
  BY Fixed
<1>2. Captured(s)' = Captured(s)
  BY <1>1 DEF Captured
<1>3. Block(s)' = Block(s)
  BY <1>1, <1>2 DEF Block
<1> QED
  BY <1>1, <1>2, <1>3 DEF Txn

Commits(s, k) == Script(s)[k].stmt = "commit" /\ Captured(s)[k - 1].txn = "open"

\* A transaction ends with its commit.
LEMMA OtherBlock ==
    ASSUME setup \in Setups, Regular(setup), NEW s \in Sessions, NEW n \in DOMAIN Script(s), Commits(s, n),
           NEW m \in DOMAIN Script(s), n < m, Captured(s)[m - 1].txn = "open"
    PROVE  Block(s)[m - 1] # Block(s)[n - 1]
<1> DEFINE b == Block(s)[n - 1]
<1>1. SUFFICES ASSUME Block(s)[m - 1] = b PROVE FALSE
  OBVIOUS
<1>2. n \in Nat /\ m \in Nat /\ n - 1 \in 0..Len(Script(s)) /\ m - 1 \in 0..Len(Script(s))
  BY Scripts
<1>3. b \in 1..(n - 1) /\ OpenBegin(s, m - 1) = {b}
  BY <1>1, <1>2, AlwaysSteady DEF Steady, Commits
<1>4. n \in (b + 1)..(m - 1)
  BY <1>2, <1>3
<1>5. is_transaction_control(Kind(s, n))
  BY KindIs DEF Commits
<1> QED
  BY <1>3, <1>4, <1>5 DEF OpenBegin

\* A commit commits what was captured of its transaction, and nothing later
\* changes that.
LEMMA Closed ==
    ASSUME setup \in Setups, Regular(setup), NEW s \in Sessions, NEW n \in DOMAIN Script(s),
           Script(s)[n].stmt = "commit", Captured(s)[n - 1].txn = "open"
    PROVE  Captured(s)[Len(Script(s))].committed \cap Txn(s, Block(s)[n - 1])
              = Captured(s)[n - 1].work
<1> DEFINE L == Len(Script(s))
           c == Captured(s)[n - 1]
           b == Block(s)[n - 1]
           T == {m \in n..L : Captured(s)[m].committed \cap Txn(s, b) = c.work}
<1>1. L \in Nat /\ DOMAIN Script(s) = 1..L /\ n \in Nat /\ n \in n..L
      /\ n - 1 \in 0..L
  BY Scripts
<1>2. /\ b \in 1..(n - 1) /\ c.work \subseteq Txn(s, b) /\ c.committed \cap Txn(s, b) = {}
  BY <1>1, AlwaysSteady DEF Steady
<1>3. \A m \in 1..L : Moved(Captured(s)[m - 1], m, Script(s)[m].stmt, Captured(s)[m])
  BY <1>1, Steps
<1>4. n \in T
  <2>1. Captured(s)[n].committed = c.committed \cup c.work
    BY <1>1, <1>3 DEF Moved
  <2> QED
    BY <1>1, <1>2, <2>1
<1>5. ASSUME NEW m \in (n + 1)..L, m - 1 \in T PROVE m \in T
  <2> DEFINE e == Captured(s)[m - 1]
             d == Captured(s)[m]
             stmt == Script(s)[m].stmt
  <2>1. m \in 1..L /\ m \in n..L /\ m - 1 \in 0..L /\ m \in DOMAIN Script(s) /\ m - 1 \in Nat
    BY <1>1
  <2>2. e.committed \cap Txn(s, b) = c.work
    BY <1>5
  <2>3. Steady(s, m - 1) /\ Moved(e, m, stmt, d)
    BY <1>3, <2>1, AlwaysSteady
  <2>4. e.txn = "open" => Block(s)[m - 1] # b
    <3>1. Commits(s, n) /\ n < m
      BY <1>1 DEF Commits
    <3> QED
      BY <2>1, <3>1, OtherBlock
  <2>5. e.work \cap Txn(s, b) = {}
    <3>1. CASE e.txn = "open"
      <4>1. e.work \subseteq Txn(s, Block(s)[m - 1])
        BY <2>3, <3>1 DEF Steady
      <4> QED
        BY <2>4, <3>1, <4>1 DEF Txn
    <3>2. CASE e.txn = "none"
      BY <2>3, <3>2 DEF Steady
    <3> QED
      BY <2>3, <3>1, <3>2 DEF Steady
  <2>6. Writes(stmt) /\ e.txn = "none" => m \notin Txn(s, b)
    <3>1. SUFFICES ASSUME Writes(stmt), e.txn = "none" PROVE Block(s)[m] # b
      BY DEF Txn
    <3>2. d.txn = "none"
      BY <2>3, <3>1 DEF Moved, Same
    <3>3. Block(s)[m] = 0
      BY <2>1, <3>1, <3>2, BlockIs
    <3> QED
      BY <1>2, <3>3
  <2>7. d.committed \cap Txn(s, b) = c.work
    BY <2>2, <2>3, <2>5, <2>6 DEF Moved
  <2> QED
    BY <2>1, <2>7
<1>6. T = n..L
  <2>1. T \in SUBSET (n..L)
    OBVIOUS
  <2> HIDE DEF T
  <2> QED
    BY <1>1, <1>4, <1>5, <2>1, Climb
<1>7. L \in n..L
  BY <1>1
<1> QED
  BY <1>6, <1>7

-----------------------------------------------------------------------------
(***************************************************************************)
(* All or nothing.                                                         *)
(***************************************************************************)

\* What session s may have committed after n queries: all of a captured
\* transaction or nothing, and nothing of the one that was open then.
Kept(s, n, C) ==
    /\ C \subseteq 1..n
    /\ \A b \in DOMAIN Script(s) :
          C \cap Txn(s, b) \in {{}, Captured(s)[Len(Script(s))].committed \cap Txn(s, b)}
    /\ Captured(s)[n].txn = "open" => C \cap Txn(s, Block(s)[n]) = {}

\* The connection c is in the transaction that was captured, as far as it was.
Like(s, n, c) ==
    /\ c.txn = "none" => Captured(s)[n].txn = "none" /\ c.work = {} /\ c.saved = {}
    /\ c.txn = "open" => Same(Captured(s)[n], c)

\* A connection that is in order has what was captured in its transaction.
LEMMA Alike ==
    ASSUME setup \in Setups, Regular(setup), NEW s \in Sessions, NEW n \in 0..Len(Script(s)),
           NEW c, c.txn \in {"none", "open"}, Like(s, n, c)
    PROVE  Same(Captured(s)[n], c)
<1>1. CASE c.txn = "open"
  BY <1>1 DEF Like
<1>2. CASE c.txn = "none"
  <2>1. Captured(s)[n].txn = "none" /\ c.work = {} /\ c.saved = {}
    BY <1>2 DEF Like
  <2>2. Steady(s, n)
    BY AlwaysSteady
  <2> QED
    BY <1>2, <2>1, <2>2 DEF Steady, Same
<1> QED
  BY <1>1, <1>2

\* A query that commits nothing.
LEMMA KeptStep ==
    ASSUME setup \in Setups, Regular(setup), NEW s \in Sessions, NEW n \in DOMAIN Script(s),
           NEW C, Kept(s, n - 1, C)
    PROVE  Kept(s, n, C)
<1>1. n \in Nat /\ n - 1 \in Nat /\ n \in 1..Len(Script(s)) /\ n - 1 \in 0..Len(Script(s))
      /\ n \in 0..Len(Script(s)) /\ DOMAIN Script(s) \subseteq Nat
  BY Scripts
<1>2. C \subseteq 1..(n - 1) /\ C \subseteq 1..n
  BY <1>1 DEF Kept
<1>3. ASSUME Captured(s)[n].txn = "open" PROVE C \cap Txn(s, Block(s)[n]) = {}
  <2>1. CASE Captured(s)[n - 1].txn = "open"
    <3>1. Block(s)[n] = Block(s)[n - 1]
      BY <1>1, <2>1, BlockIs
    <3> QED
      BY <2>1, <3>1 DEF Kept
  <2>2. CASE Captured(s)[n - 1].txn # "open"
    <3>1. Block(s)[n] = n
      BY <1>1, <1>3, <2>2, BlockIs
    <3>2. \A i \in Txn(s, n) : i \in Nat /\ n <= i
      BY <1>1, BlockBound DEF Txn
    <3> QED
      BY <1>1, <1>2, <3>1, <3>2
  <2> QED
    BY <2>1, <2>2
<1> QED
  BY <1>2, <1>3 DEF Kept

\* A write outside a transaction commits itself.
LEMMA KeptAlone ==
    ASSUME setup \in Setups, Regular(setup), NEW s \in Sessions, NEW n \in DOMAIN Script(s),
           NEW C, Kept(s, n - 1, C), Captured(s)[n - 1].txn = "none", Writes(Script(s)[n].stmt)
    PROVE  Kept(s, n, C \cup {n})
<1>1. n \in Nat /\ n - 1 \in Nat /\ n \in 1..Len(Script(s)) /\ n - 1 \in 0..Len(Script(s))
      /\ DOMAIN Script(s) = 1..Len(Script(s))
  BY Scripts
<1>2. C \cup {n} \subseteq 1..n
  BY <1>1 DEF Kept
<1>3. Captured(s)[n].txn = "none"
  <2>1. Moved(Captured(s)[n - 1], n, Script(s)[n].stmt, Captured(s)[n])
    BY Steps
  <2> QED
    BY <2>1 DEF Moved, Same
<1>4. Block(s)[n] = 0
  BY <1>1, <1>3, BlockIs
<1>5. \A b \in DOMAIN Script(s) : (C \cup {n}) \cap Txn(s, b) = C \cap Txn(s, b)
  BY <1>1, <1>4 DEF Txn
<1> QED
  BY <1>2, <1>3, <1>5 DEF Kept

\* A commit commits all of its transaction.
LEMMA KeptCommit ==
    ASSUME setup \in Setups, Regular(setup), NEW s \in Sessions, NEW n \in DOMAIN Script(s),
           NEW C, Kept(s, n - 1, C), Captured(s)[n - 1].txn = "open", Script(s)[n].stmt = "commit"
    PROVE  Kept(s, n, C \cup Captured(s)[n - 1].work)
<1> DEFINE W == Captured(s)[n - 1].work
           e == Block(s)[n - 1]
<1>1. n \in Nat /\ n - 1 \in Nat /\ n - 1 \in 0..Len(Script(s)) /\ DOMAIN Script(s) = 1..Len(Script(s))
  BY Scripts
<1>2. W \subseteq 1..(n - 1) /\ W \subseteq Txn(s, e)
  BY <1>1, AlwaysSteady DEF Steady
<1>3. C \cup W \subseteq 1..n
  <2>1. C \subseteq 1..(n - 1)
    BY DEF Kept
  <2>2. C \cup W \subseteq 1..(n - 1)
    BY <1>2, <2>1
  <2>3. \A i \in 1..(n - 1) : i \in 1..n
    BY <1>1
  <2> HIDE DEF W
  <2> QED
    BY <2>2, <2>3
<1>4. Captured(s)[n].txn = "none"
  <2>1. Moved(Captured(s)[n - 1], n, Script(s)[n].stmt, Captured(s)[n])
    BY Steps
  <2> QED
    BY <2>1 DEF Moved
<1>5. C \cap Txn(s, e) = {}
  BY DEF Kept
<1>6. ASSUME NEW b \in DOMAIN Script(s)
      PROVE  (C \cup W) \cap Txn(s, b) \in {{}, Captured(s)[Len(Script(s))].committed \cap Txn(s, b)}
  <2>1. CASE b = e
    <3>1. (C \cup W) \cap Txn(s, b) = W
      BY <1>2, <1>5, <2>1
    <3>2. Captured(s)[Len(Script(s))].committed \cap Txn(s, b) = W
      BY <2>1, Closed
    <3> QED
      BY <3>1, <3>2
  <2>2. CASE b # e
    <3>1. (C \cup W) \cap Txn(s, b) = C \cap Txn(s, b)
      BY <1>2, <2>2 DEF Txn
    <3> QED
      BY <3>1 DEF Kept
  <2> QED
    BY <2>1, <2>2
<1> QED
  BY <1>3, <1>4, <1>6 DEF Kept

\* A statement that succeeds does on the connection what it did when captured.
LEMMA LikeStep ==
    ASSUME setup \in Setups, Regular(setup), NEW s \in Sessions, NEW n \in DOMAIN Script(s),
           NEW c \in Servers, c.txn \in {"none", "open"}, Like(s, n - 1, c), Kept(s, n - 1, c.committed),
           NEW d, d = Succeed(c, n, Script(s)[n].stmt)
    PROVE  /\ d.txn \in {"none", "open"} /\ Like(s, n, d) /\ Kept(s, n, d.committed)
<1> DEFINE e == Captured(s)[n - 1]
           f == Captured(s)[n]
           stmt == Script(s)[n].stmt
<1>1. n \in Nat /\ n - 1 \in 0..Len(Script(s))
  BY Scripts
<1>2. stmt \in WellRead /\ Moved(e, n, stmt, f)
  BY KindIs, Steps
<1>3. Moved(c, n, stmt, d)
  BY <1>1, <1>2, SucceedParts
<1>4. e.txn = c.txn /\ e.work = c.work /\ e.saved = c.saved
  BY <1>1, Alike DEF Same
<1>5. f.txn = d.txn /\ f.work = d.work /\ f.saved = d.saved /\ d.txn \in {"none", "open"}
  <2> HIDE DEF e, f, stmt
  <2>1. CASE stmt \in {"begin", "commit", "rollback", "savepoint", "rollback_to"}
    BY <1>2, <1>3, <1>4, <2>1 DEF Moved
  <2>2. CASE stmt \in {"write", "with_write", "select"}
    BY <1>2, <1>3, <1>4, <2>2 DEF Moved, Writes, Same
  <2> QED
    BY <1>2, <2>1, <2>2 DEF WellRead
<1>6. Like(s, n, d)
  <2>1. f.txn = "none" => f.work = {} /\ f.saved = {}
    <3>1. Steady(s, n)
      <4>1. n \in 0..Len(Script(s))
        BY Scripts
      <4> QED
        BY <4>1, AlwaysSteady
    <3> QED
      BY <3>1 DEF Steady
  <2> QED
    BY <1>5, <2>1 DEF Like, Same
<1>7. Kept(s, n, d.committed)
  <2>1. CASE stmt = "commit" /\ c.txn = "open"
    <3>1. d.committed = c.committed \cup e.work
      BY <1>3, <1>4, <2>1 DEF Moved
    <3>2. Kept(s, n, c.committed \cup e.work)
      BY <1>4, <2>1, KeptCommit
    <3> QED
      BY <3>1, <3>2
  <2>2. CASE Writes(stmt) /\ c.txn = "none"
    <3>1. d.committed = c.committed \cup {n}
      BY <1>3, <2>2 DEF Moved, Writes
    <3>2. Kept(s, n, c.committed \cup {n})
      BY <1>4, <2>2, KeptAlone
    <3> QED
      BY <3>1, <3>2
  <2>3. CASE ~(stmt = "commit" /\ c.txn = "open") /\ ~(Writes(stmt) /\ c.txn = "none")
    <3>1. stmt = "commit" => c.work = {}
      BY <2>3 DEF Like
    <3>2. d.committed = c.committed
      BY <1>3, <2>3, <3>1 DEF Moved
    <3> QED
      BY <3>2, KeptStep
  <2> QED
    BY <2>1, <2>2, <2>3
<1> QED
  BY <1>5, <1>6, <1>7

\* Whatever the server answers, all of a transaction is committed or nothing,
\* and a connection that is in order is where the captured one was.
LEMMA AnswerStep ==
    ASSUME setup \in Setups, Regular(setup), ~setup.begin_fails,
           NEW s \in Sessions, NEW n \in DOMAIN Script(s),
           NEW c \in Servers, c.txn # "aborted", Kept(s, n - 1, c.committed),
           c.txn \in {"none", "open"} => Like(s, n - 1, c),
           NEW a \in Answers(c, n, Script(s)[n].stmt)
    PROVE  /\ Kept(s, n, a[1].committed)
           /\ a[1].txn \in {"none", "open"} => Like(s, n, a[1])
<1> DEFINE stmt == Script(s)[n].stmt
           d == Succeed(c, n, stmt)
<1>1. n \in Nat /\ n - 1 \in 0..Len(Script(s)) /\ stmt \in WellRead
  BY Scripts, KindIs
<1>2. /\ \A x \in Servers : End(x) \in Servers /\ End(x).txn = "none" /\ End(x).work = {}
                           /\ End(x).saved = {} /\ End(x).committed = x.committed
  BY DEF End, Servers
<1>3. CASE c.txn = "lost"
  <2>1. a[1] = c
    BY <1>3 DEF Answers
  <2> QED
    BY <1>3, <2>1, KeptStep
<1>4. CASE c.txn \in {"none", "open"}
  <2>1. d \in Servers /\ d.txn \in {"none", "open"} /\ Like(s, n, d) /\ Kept(s, n, d.committed)
    BY <1>1, <1>4, LikeStep, SucceedType
  <2>2. Kept(s, n, c.committed)
    BY KeptStep
  <2>3. CASE a = <<d, "ok">>
    <3>1. a[1] = d
      BY <2>3
    <3> QED
      BY <2>1, <3>1 DEF Like
  <2>4. CASE CanFail(c, stmt) /\ a = <<Fail(c, stmt), "error">>
    <3>1. a[1] = Fail(c, stmt)
      BY <2>4
    <3>2. CASE stmt = "commit"
      <4>1. a[1] = End(c)
        BY <3>1, <3>2 DEF Fail
      <4>2. Captured(s)[n].txn = "none"
        BY <3>2, Steps DEF Moved
      <4> QED
        BY <1>2, <2>2, <4>1, <4>2 DEF Like
    <3>3. CASE stmt # "commit" /\ c.txn = "none"
      <4>1. a[1] = End(c)
        BY <3>1, <3>3 DEF Fail
      <4>2. Captured(s)[n - 1].txn = "none" /\ stmt \notin {"begin", "rollback"}
        BY <1>4, <2>4, <3>3 DEF Like, CanFail
      <4>3. Captured(s)[n].txn = "none"
        <5>1. Moved(Captured(s)[n - 1], n, stmt, Captured(s)[n])
          BY Steps
        <5> QED
          BY <1>1, <3>3, <4>2, <5>1 DEF Moved, Writes, Same, WellRead
      <4> QED
        BY <1>2, <2>2, <4>1, <4>3 DEF Like
    <3>4. CASE stmt # "commit" /\ c.txn = "open"
      <4>1. a[1] = [c EXCEPT !.txn = "aborted", !.work = {}]
        BY <1>1, <3>1, <3>4 DEF Fail, WellRead
      <4>2. a[1].txn = "aborted" /\ a[1].committed = c.committed
        BY <1>2, <4>1 DEF Servers
      <4> QED
        BY <2>2, <4>2
    <3> QED
      BY <1>4, <3>2, <3>3, <3>4
  <2>5. CASE \E x \in {c, d} : a = <<[End(x) EXCEPT !.txn = "lost"], "lost">>
    <3>1. PICK x \in {c, d} : a = <<[End(x) EXCEPT !.txn = "lost"], "lost">>
      BY <2>5
    <3>2. x \in Servers /\ Kept(s, n, x.committed)
      BY <2>1, <2>2
    <3>3. a[1].txn = "lost" /\ a[1].committed = x.committed
      <4>1. a[1] = [End(x) EXCEPT !.txn = "lost"]
        BY <3>1
      <4> QED
        BY <1>2, <3>2, <4>1 DEF Servers
    <3> QED
      BY <3>2, <3>3
  <2> QED
    BY <1>4, <2>3, <2>4, <2>5 DEF Answers
<1> QED
  BY <1>3, <1>4 DEF Servers

\* A session's task at label p and query i, with failed_txn_id f and connection c:
\* while nothing has failed the connection is where the captured one was, and
\* what has failed is the transaction that was open then.
Atomic(s, p, i, f, c) ==
    LET n == IF p \in {"answered", "rolling_back"} THEN i ELSE i - 1 IN
    /\ Kept(s, n, c.committed)
    /\ c.txn = "none" => c.work = {} /\ c.saved = {}
    /\ f = None /\ p \in {"queued", "connecting", "running", "answered"} /\ c.txn \in {"none", "open"}
          => Like(s, n, c)
    /\ p \in {"queued", "connecting", "answered", "rolling_back"} => f = None
    /\ p = "running" /\ f # None => Captured(s)[n].txn = "open" /\ f = CurrentTxn(s, n)
    /\ p = "rolling_back" =>
          transaction_id(s, i) # None /\ ~is_transaction_control(Kind(s, i))

AtomicInv ==
    Regular(setup) /\ ~setup.begin_fails /\ ~setup.read_only =>
        \A s \in Sessions : Atomic(s, pc[s], pos[s], failed[s], conn[s])

\* It speaks of the workload, which does not change.
LEMMA AtomicFixed ==
    ASSUME UNCHANGED setup, NEW s, NEW p, p = pc'[s], NEW i, i = pos'[s],
           NEW f, f = failed'[s], NEW c, c = conn'[s], Atomic(s, p, i, f, c)
    PROVE  Atomic(s, pc[s], pos[s], failed[s], conn[s])'
<1>1. /\ Script(s)' = Script(s) /\ Captured(s)' = Captured(s) /\ Block(s)' = Block(s)
      /\ \A b : Txn(s, b)' = Txn(s, b)
  BY Fixed, CapturedFixed
<1>2. ASSUME NEW n, NEW C, Kept(s, n, C) PROVE Kept(s, n, C)'
  BY <1>1, <1>2 DEF Kept
<1>3. ASSUME NEW n, Like(s, n, c) PROVE Like(s, n, c)'
  BY <1>1, <1>3 DEF Like, Same
<1>4. \A n : CurrentTxn(s, n)' = CurrentTxn(s, n) /\ transaction_id(s, n)' = transaction_id(s, n)
            /\ Kind(s, n)' = Kind(s, n)
  BY DEF CurrentTxn, transaction_id, OpenBegin, txn_id, Queries, Kind, Script, Sessions
<1>5. Atomic(s, p, i, f, c)'
  BY <1>1, <1>2, <1>3, <1>4 DEF Atomic
<1> QED
  BY <1>5

\* A step of session s has only s to look after.
LEMMA AtomicAdvance ==
    ASSUME AtomicInv, UNCHANGED setup, NEW s \in Sessions,
           NEW p, p = pc'[s], NEW i, i = pos'[s], NEW f, f = failed'[s], NEW c, c = conn'[s],
           Regular(setup) /\ ~setup.begin_fails /\ ~setup.read_only => Atomic(s, p, i, f, c),
           \A r \in Sessions \ {s} : UNCHANGED <<pc[r], pos[r], failed[r], conn[r]>>
    PROVE  AtomicInv'
<1>1. Sessions' = Sessions
  BY Fixed
<1>2. SUFFICES ASSUME Regular(setup), ~setup.begin_fails, ~setup.read_only, NEW r \in Sessions
               PROVE  Atomic(r, pc[r], pos[r], failed[r], conn[r])'
  BY <1>1 DEF AtomicInv
<1>3. CASE r = s
  BY <1>2, <1>3, AtomicFixed
<1>4. CASE r # s
  <2>1. Atomic(r, pc[r], pos[r], failed[r], conn[r])
    BY <1>2 DEF AtomicInv
  <2>2. PICK p2 : p2 = pc[r]
    OBVIOUS
  <2>3. PICK i2 : i2 = pos[r]
    OBVIOUS
  <2>4. PICK f2 : f2 = failed[r]
    OBVIOUS
  <2>5. PICK c2 : c2 = conn[r]
    OBVIOUS
  <2>6. p2 = pc'[r] /\ i2 = pos'[r] /\ f2 = failed'[r] /\ c2 = conn'[r]
    BY <1>2, <1>4, <2>2, <2>3, <2>4, <2>5
  <2>7. Atomic(r, p2, i2, f2, c2)
    BY <2>1, <2>2, <2>3, <2>4, <2>5
  <2> QED
    BY <2>6, <2>7, AtomicFixed
<1> QED
  BY <1>3, <1>4

\* Nothing is done yet.
LEMMA AtomicInit == Init => AtomicInv
<1> SUFFICES ASSUME Init, NEW s \in Sessions
             PROVE  Atomic(s, pc[s], pos[s], failed[s], conn[s])
  BY DEF AtomicInv
<1>1. setup \in Setups /\ pc[s] = "queued" /\ pos[s] = 1 /\ failed[s] = None /\ conn[s] = Connection
  BY DEF Init
<1>2. Captured(s)[0] = Connection
  BY <1>1, CapturedIs
<1>3. Kept(s, 0, {}) /\ Like(s, 0, Connection)
  BY <1>2 DEF Kept, Like, Connection
<1>4. Atomic(s, "queued", 1, None, Connection)
  BY <1>3 DEF Atomic, Connection
<1> QED
  BY <1>1, <1>4

\* A query in the transaction that is open and failed is skipped.
LEMMA SkipsAll ==
    ASSUME setup \in Setups, Regular(setup), NEW s \in Sessions, NEW n \in DOMAIN Script(s),
           Captured(s)[n - 1].txn = "open"
    PROVE  /\ transaction_id(s, n) = CurrentTxn(s, n - 1)
           /\ Kind(s, n) \notin {"commit", "rollback"} =>
                 Captured(s)[n].txn = "open" /\ CurrentTxn(s, n) = CurrentTxn(s, n - 1)
           /\ Kind(s, n) \in {"commit", "rollback"} => Captured(s)[n].txn = "none"
<1>1. n \in Nat /\ n \in 1..Len(Script(s)) /\ n - 1 \in 0..Len(Script(s)) /\ n \in 0..Len(Script(s))
  BY Scripts
<1>2. Steady(s, n - 1) /\ Steady(s, n)
  BY <1>1, AlwaysSteady
<1>3. Moved(Captured(s)[n - 1], n, Script(s)[n].stmt, Captured(s)[n]) /\ Script(s)[n].stmt \in WellRead
  BY Steps, KindIs
<1>4. CASE Kind(s, n) \in {"commit", "rollback"}
  <2>1. Captured(s)[n].txn = "none"
    BY <1>3, <1>4, KindIs DEF Moved
  <2> QED
    BY <1>4, <2>1 DEF transaction_id
<1>5. CASE Kind(s, n) \notin {"commit", "rollback"}
  <2>1. Captured(s)[n].txn = "open"
    <3>1. Script(s)[n].stmt \notin {"commit", "rollback"}
      BY <1>5, KindIs
    <3> QED
      BY <1>3, <3>1 DEF Moved, Same, Writes, WellRead
  <2>2. Block(s)[n] = Block(s)[n - 1]
    BY <1>1, BlockIs
  <2>3. OpenBegin(s, n) = OpenBegin(s, n - 1)
    BY <1>2, <2>1, <2>2 DEF Steady
  <2>4. CurrentTxn(s, n) = CurrentTxn(s, n - 1)
    BY <2>3 DEF CurrentTxn
  <2> QED
    BY <1>5, <2>1, <2>4 DEF transaction_id
<1> QED
  BY <1>4, <1>5

\* When a statement is sent, nothing has failed in its transaction.
LEMMA NothingFailed ==
    ASSUME setup \in Setups, Regular(setup), NEW s \in Sessions,
           CascadeInv(s), Atomic(s, pc[s], pos[s], failed[s], conn[s]),
           pc[s] = "running", pos[s] \in DOMAIN Script(s), ~in_failed_txn(s)
    PROVE  /\ Kept(s, pos[s] - 1, conn[s].committed)
           /\ conn[s].txn \in {"none", "open"} => Like(s, pos[s] - 1, conn[s])
           /\ conn[s].txn # "aborted"
<1>1. failed[s] = None
  <2>1. SUFFICES ASSUME failed[s] # None PROVE FALSE
    OBVIOUS
  <2>2. Captured(s)[pos[s] - 1].txn = "open" /\ failed[s] = CurrentTxn(s, pos[s] - 1)
    BY <2>1 DEF Atomic
  <2> QED
    BY <2>1, <2>2, SkipsAll DEF in_failed_txn
<1> QED
  BY <1>1 DEF Atomic, CascadeInv

\* Each step keeps it: no query fails alone in its transaction.
LEMMA AtomicStep ==
    ASSUME TypeInv, NoCascadeInv, AtomicInv, [Next]_vars
    PROVE  AtomicInv'
<1>1. setup \in Setups /\ setup' = setup
  BY DEF TypeInv, Next, Session, Acquire, Connect, LeaveOut, Skip, Execute, Answered,
         ReceiveOk, ReceiveError, ReceiveErrorInTxn, RolledBack, Finish, Join, vars
<1>2. SUFFICES ASSUME Regular(setup), ~setup.begin_fails, ~setup.read_only PROVE AtomicInv'
  BY <1>1 DEF AtomicInv
<1>3. \A s \in Sessions : CascadeInv(s) /\ Atomic(s, pc[s], pos[s], failed[s], conn[s])
  BY <1>2 DEF NoCascadeInv, AtomicInv, Regular
<1>4. \A s \in Sessions : DOMAIN Script(s) = 1..Len(Script(s)) /\ Len(Script(s)) \in Nat
  BY <1>1, Scripts
<1>5. \A s \in Sessions : pos[s] \in Nat /\ conn[s] \in Servers /\ (pos[s] + 1) - 1 = pos[s]
  BY DEF TypeInv, Shapes
<1>6. \A c \in Servers : End(c).txn = "none" /\ End(c).work = {} /\ End(c).saved = {}
                        /\ End(c).committed = c.committed
  BY DEF End, Servers
<1> USE <1>1 DEF Goto
<1>7. ASSUME NEW s \in Sessions, Acquire(s) PROVE AtomicInv'
  <2>1. /\ pc[s] = "queued" /\ pc'[s] = "connecting"
        /\ pos' = pos /\ failed' = failed /\ conn' = conn
        /\ \A r \in Sessions \ {s} : pc'[r] = pc[r]
    BY <1>7 DEF Acquire, TypeInv, Shapes
  <2>2. Atomic(s, "connecting", pos[s], failed[s], conn[s])
    BY <1>3, <2>1 DEF Atomic
  <2> QED
    BY <2>1, <2>2, AtomicAdvance
<1>8. ASSUME NEW s \in Sessions, Connect(s) PROVE AtomicInv'
  <2>1. /\ pc[s] = "connecting" /\ pc'[s] \in {"running", "failed"}
        /\ pos' = pos /\ failed' = failed /\ conn' = conn
        /\ \A r \in Sessions \ {s} : pc'[r] = pc[r]
    BY <1>8 DEF Connect, TypeInv, Shapes
  <2>2. \A p \in {"running", "failed"} : Atomic(s, p, pos[s], failed[s], conn[s])
    BY <1>3, <2>1 DEF Atomic
  <2> QED
    BY <2>1, <2>2, AtomicAdvance
<1>9. ASSUME NEW s \in Sessions, LeaveOut(s) PROVE AtomicInv'
  BY <1>2, <1>9 DEF LeaveOut, should_replay
<1>10. ASSUME NEW s \in Sessions, Skip(s) PROVE AtomicInv'
  <2>1. /\ pc[s] = "running" /\ pos[s] \in DOMAIN Script(s) /\ failed[s] # None
        /\ pc' = pc /\ conn' = conn /\ pos'[s] = pos[s] + 1
        /\ failed'[s] = IF Kind(s, pos[s]) \in {"commit", "rollback"} THEN None ELSE failed[s]
        /\ \A r \in Sessions \ {s} : pos'[r] = pos[r] /\ failed'[r] = failed[r]
    BY <1>4, <1>10 DEF Skip, AtQuery, Record, in_failed_txn, ends_failed_txn, TypeInv, Shapes, SessionInv
  <2>2. /\ Captured(s)[pos[s] - 1].txn = "open" /\ failed[s] = CurrentTxn(s, pos[s] - 1)
        /\ Kept(s, pos[s] - 1, conn[s].committed)
        /\ conn[s].txn = "none" => conn[s].work = {} /\ conn[s].saved = {}
    BY <1>3, <2>1 DEF Atomic
  <2>3. Kept(s, pos[s], conn[s].committed) /\ conn[s].txn # "open"
    BY <1>2, <1>3, <2>1, <2>2, KeptStep DEF CascadeInv, Idle
  <2>4. CASE Kind(s, pos[s]) \in {"commit", "rollback"}
    <3>1. Captured(s)[pos[s]].txn = "none"
      BY <1>2, <2>1, <2>2, <2>4, SkipsAll
    <3>2. Like(s, pos[s], conn[s])
      BY <2>2, <2>3, <3>1 DEF Like
    <3>3. Atomic(s, "running", pos[s] + 1, None, conn[s])
      BY <1>5, <2>2, <2>3, <3>2 DEF Atomic
    <3> QED
      BY <2>1, <2>4, <3>3, AtomicAdvance
  <2>5. CASE Kind(s, pos[s]) \notin {"commit", "rollback"}
    <3>1. Captured(s)[pos[s]].txn = "open" /\ failed[s] = CurrentTxn(s, pos[s])
      BY <1>2, <2>1, <2>2, <2>5, SkipsAll
    <3>2. Atomic(s, "running", pos[s] + 1, failed[s], conn[s])
      BY <1>5, <2>1, <2>2, <2>3, <3>1 DEF Atomic
    <3> QED
      BY <2>1, <2>5, <3>2, AtomicAdvance
  <2> QED
    BY <2>4, <2>5
<1>11. ASSUME NEW s \in Sessions, Execute(s) PROVE AtomicInv'
  <2>1. pc[s] = "running" /\ pos[s] \in DOMAIN Script(s) /\ ~in_failed_txn(s)
    BY <1>4, <1>11 DEF Execute, AtQuery, TypeInv, SessionInv
  <2>2. /\ Kept(s, pos[s] - 1, conn[s].committed)
        /\ conn[s].txn \in {"none", "open"} => Like(s, pos[s] - 1, conn[s])
        /\ conn[s].txn # "aborted"
    BY <1>2, <1>3, <2>1, NothingFailed
  <2>4. PICK a \in Answers(conn[s], pos[s], Script(s)[pos[s]].stmt) : conn' = [conn EXCEPT ![s] = a[1]]
    BY <1>11 DEF Execute, Query
  <2>5. /\ Kept(s, pos[s], a[1].committed)
        /\ a[1].txn \in {"none", "open"} => Like(s, pos[s], a[1])
    BY <1>2, <1>5, <2>1, <2>2, AnswerStep
  <2>6. Atomic(s, "answered", pos[s], None, a[1])
    BY <2>5 DEF Atomic, Like
  <2>7. /\ pc'[s] = "answered" /\ pos' = pos /\ failed'[s] = None /\ conn'[s] = a[1]
        /\ \A r \in Sessions \ {s} : pc'[r] = pc[r] /\ failed'[r] = failed[r] /\ conn'[r] = conn[r]
    BY <1>11, <2>4 DEF Execute, TypeInv, Shapes
  <2> QED
    BY <2>6, <2>7, AtomicAdvance
<1>12. ASSUME NEW s \in Sessions, ReceiveOk(s) \/ ReceiveError(s) PROVE AtomicInv'
  <2>1. /\ pc[s] = "answered" /\ pc'[s] = "running" /\ failed' = failed /\ conn' = conn
        /\ pos'[s] = pos[s] + 1
        /\ \A r \in Sessions \ {s} : pc'[r] = pc[r] /\ pos'[r] = pos[r]
    BY <1>12 DEF ReceiveOk, ReceiveError, Answered, Record, TypeInv, Shapes
  <2>2. failed[s] = None
    BY <1>3, <2>1 DEF Atomic
  <2>3. Atomic(s, "running", pos[s] + 1, failed[s], conn[s])
    BY <1>3, <1>5, <2>1, <2>2 DEF Atomic
  <2> QED
    BY <2>1, <2>3, AtomicAdvance
<1>13. ASSUME NEW s \in Sessions, ReceiveErrorInTxn(s) PROVE AtomicInv'
  <2>1. /\ pc[s] = "answered" /\ pc'[s] = "rolling_back" /\ failed' = failed /\ pos' = pos
        /\ must_rollback(s) /\ \A r \in Sessions \ {s} : pc'[r] = pc[r] /\ conn'[r] = conn[r]
        /\ conn'[s] = IF conn[s].txn = "lost" THEN conn[s] ELSE End(conn[s])
    BY <1>13 DEF ReceiveErrorInTxn, TypeInv, Shapes
  <2>2. Kept(s, pos[s], conn[s].committed) /\ failed[s] = None
    BY <1>3, <2>1 DEF Atomic
  <2>3. PICK c : c = conn'[s]
    OBVIOUS
  <2>4. c.committed = conn[s].committed /\ (c.txn = "none" => c.work = {} /\ c.saved = {})
    BY <1>5, <1>6, <2>1, <2>3
  <2>5. Atomic(s, "rolling_back", pos[s], failed[s], c)
    BY <2>1, <2>2, <2>4 DEF Atomic, must_rollback
  <2> QED
    BY <2>1, <2>3, <2>5, AtomicAdvance
<1>14. ASSUME NEW s \in Sessions, RolledBack(s) PROVE AtomicInv'
  <2>1. /\ pc[s] = "rolling_back" /\ pc'[s] = "running" /\ pos'[s] = pos[s] + 1 /\ conn' = conn
        /\ failed'[s] = transaction_id(s, pos[s]) /\ pos[s] \in DOMAIN Script(s)
        /\ \A r \in Sessions \ {s} : pc'[r] = pc[r] /\ pos'[r] = pos[r] /\ failed'[r] = failed[r]
    BY <1>14 DEF RolledBack, Record, TypeInv, Shapes, SessionInv
  <2>2. /\ Kept(s, pos[s], conn[s].committed)
        /\ conn[s].txn = "none" => conn[s].work = {} /\ conn[s].saved = {}
        /\ transaction_id(s, pos[s]) # None /\ ~is_transaction_control(Kind(s, pos[s]))
    BY <1>3, <2>1 DEF Atomic
  <2>3. transaction_id(s, pos[s]) = CurrentTxn(s, pos[s])
    BY <2>2 DEF transaction_id, is_transaction_control
  <2>4. Captured(s)[pos[s]].txn = "open"
    <3>1. OpenBegin(s, pos[s]) # {}
      BY <2>2, <2>3 DEF CurrentTxn
    <3>2. Steady(s, pos[s])
      BY <1>2, <1>4, <2>1, AlwaysSteady
    <3> QED
      BY <3>1, <3>2 DEF Steady
  <2>5. Atomic(s, "running", pos[s] + 1, transaction_id(s, pos[s]), conn[s])
    BY <1>5, <2>2, <2>3, <2>4 DEF Atomic
  <2> QED
    BY <2>1, <2>5, AtomicAdvance
<1>15. ASSUME NEW s \in Sessions, Finish(s) PROVE AtomicInv'
  <2>1. /\ pc[s] = "running" /\ pc'[s] = "done" /\ failed' = failed /\ pos' = pos
        /\ conn'[s] = End(conn[s])
        /\ \A r \in Sessions \ {s} : pc'[r] = pc[r] /\ conn'[r] = conn[r]
    BY <1>15 DEF Finish, TypeInv, Shapes
  <2>2. Kept(s, pos[s] - 1, conn[s].committed)
    BY <1>3, <2>1 DEF Atomic
  <2>3. Atomic(s, "done", pos[s], failed[s], End(conn[s]))
    BY <1>5, <1>6, <2>2 DEF Atomic
  <2> QED
    BY <2>1, <2>3, AtomicAdvance
<1>16. CASE Join \/ UNCHANGED vars
  <2>1. Sessions' = Sessions /\ UNCHANGED <<setup, pc, pos, failed, conn>>
    BY <1>16, Fixed DEF Join, vars, task
  <2>2. ASSUME NEW s \in Sessions PROVE AtomicInv'
    <3>1. Atomic(s, pc[s], pos[s], failed[s], conn[s])
      BY <1>3
    <3> QED
      BY <2>1, <3>1, AtomicAdvance
  <2>3. CASE Sessions = {}
    BY <2>1, <2>3 DEF AtomicInv
  <2> QED
    BY <2>2, <2>3
<1> QED
  BY <1>7, <1>8, <1>9, <1>10, <1>11, <1>12, <1>13, <1>14, <1>15, <1>16 DEF Next, Session

\* Of every captured transaction that committed, the target has committed all
\* or nothing, for any Regular workload, whatever fails and
\* wherever the connections break, unless BEGIN itself fails or the replay is
\* read-only (session.rs 45-75, 144-163).
THEOREM AllOrNothingCorrect ==
    Spec => [](~setup.begin_fails /\ ~setup.read_only => AllOrNothing)
<1>1. AtomicInv => (~setup.begin_fails /\ ~setup.read_only => AllOrNothing)
  BY DEF AtomicInv, Atomic, Kept, AllOrNothing, Txn
<1> QED
  BY <1>1, TypeInit, TypeStep, CascadeInit, CascadeStep, AtomicInit, AtomicStep, PTL DEF Spec

-----------------------------------------------------------------------------
(***************************************************************************)
(* The report.                                                             *)
(***************************************************************************)
Successes(q) == {q[k].query : k \in {j \in DOMAIN q : q[j].success}}

\* A task at label p and query i has the results q.
Reports(s, p, i, q) ==
    /\ \A j, k \in DOMAIN q : j < k => q[j].query < q[k].query
    /\ {q[k].query : k \in DOMAIN q} = {j \in DOMAIN Script(s) : j < i /\ should_replay(Kind(s, j))}
    /\ p \in {"answered", "rolling_back"} => should_replay(Kind(s, i))
    /\ p = "done" => i = Len(Script(s)) + 1

ReportsInv == \A s \in Sessions : Reports(s, pc[s], pos[s], results[s])

\* It speaks of the workload, which does not change.
LEMMA ReportsAdvance ==
    ASSUME ReportsInv, UNCHANGED setup, NEW s \in Sessions,
           NEW p, p = pc'[s], NEW i, i = pos'[s], NEW q, q = results'[s], Reports(s, p, i, q),
           \A r \in Sessions \ {s} : UNCHANGED <<pc[r], pos[r], results[r]>>
    PROVE  ReportsInv'
<1>1. /\ Sessions' = Sessions /\ \A r : Script(r)' = Script(r)
      /\ \A r, n : should_replay(Kind(r, n))' = should_replay(Kind(r, n))
  BY Fixed DEF should_replay, Kind
<1>2. ASSUME NEW r, NEW p2, NEW i2, NEW q2, Reports(r, p2, i2, q2) PROVE Reports(r, p2, i2, q2)'
  BY <1>1, <1>2 DEF Reports
<1>3. Reports(s, pc[s], pos[s], results[s])'
  <2>1. Reports(s, p, i, q)'
    BY <1>2
  <2> QED
    BY <2>1
<1>4. ASSUME NEW r \in Sessions \ {s} PROVE Reports(r, pc[r], pos[r], results[r])'
  <2>1. PICK p2 : p2 = pc[r]
    OBVIOUS
  <2>2. PICK i2 : i2 = pos[r]
    OBVIOUS
  <2>3. PICK q2 : q2 = results[r]
    OBVIOUS
  <2>4. p2 = pc'[r] /\ i2 = pos'[r] /\ q2 = results'[r]
    BY <1>4, <2>1, <2>2, <2>3
  <2>5. Reports(r, p2, i2, q2)
    BY <2>1, <2>2, <2>3 DEF ReportsInv
  <2>6. Reports(r, p2, i2, q2)'
    BY <1>2, <2>5
  <2> QED
    BY <2>4, <2>6
<1> QED
  BY <1>1, <1>3, <1>4 DEF ReportsInv

\* What Record does to the report: one result more, for the query passed.
LEMMA Reported ==
    ASSUME TypeInv, NEW s \in Sessions, pos[s] \in DOMAIN Script(s),
           NEW success \in BOOLEAN, NEW error \in Errors, Record(s, success, error)
    PROVE  /\ DOMAIN results'[s] = DOMAIN results[s] \cup {Len(results[s]) + 1}
           /\ \A k \in DOMAIN results[s] :
                 k \in 1..Len(results[s]) /\ results'[s][k] = results[s][k]
           /\ results'[s][Len(results[s]) + 1].query = pos[s]
           /\ results'[s][Len(results[s]) + 1].success = success
           /\ Len(results[s]) \in Nat /\ pos[s] \in Nat /\ pos'[s] = pos[s] + 1
           /\ \A r \in Sessions \ {s} : results'[r] = results[r] /\ pos'[r] = pos[r]
<1> DEFINE new == [query |-> pos[s], success |-> success, error |-> error]
<1>1. PICK q \in Seq(Results) : q = results[s]
  BY DEF TypeInv, Shapes
<1>2. pos[s] \in Nat /\ new \in Results /\ new.query = pos[s] /\ new.success = success
  BY DEF TypeInv, Shapes, Results
<1>3. results' = [results EXCEPT ![s] = Append(q, new)] /\ pos' = [pos EXCEPT ![s] = @ + 1]
  BY <1>1 DEF Record
<1>4. results'[s] = Append(q, new) /\ pos'[s] = pos[s] + 1
      /\ \A r \in Sessions \ {s} : results'[r] = results[r] /\ pos'[r] = pos[r]
  BY <1>3 DEF TypeInv, Shapes
<1> HIDE DEF new
<1>5. /\ DOMAIN Append(q, new) = 1..(Len(q) + 1) /\ DOMAIN q = 1..Len(q) /\ Len(q) \in Nat
      /\ \A k \in 1..Len(q) : Append(q, new)[k] = q[k]
      /\ Append(q, new)[Len(q) + 1] = new
  BY <1>2
<1> QED
  BY <1>1, <1>2, <1>4, <1>5

\* A query that is recorded is reported.
LEMMA ReportsRecord ==
    ASSUME TypeInv, ReportsInv, UNCHANGED setup, NEW s \in Sessions, pos[s] \in DOMAIN Script(s),
           NEW success \in BOOLEAN, NEW error \in Errors, Record(s, success, error),
           should_replay(Kind(s, pos[s])), pc'[s] = "running",
           \A r \in Sessions \ {s} : pc'[r] = pc[r]
    PROVE  ReportsInv'
<1> DEFINE q == results[s]
           n == Len(q) + 1
<1>1. PICK q2 : q2 = results'[s]
  OBVIOUS
<1>2. /\ DOMAIN q2 = DOMAIN q \cup {n} /\ Len(q) \in Nat /\ pos[s] \in Nat /\ pos'[s] = pos[s] + 1
      /\ \A k \in DOMAIN q : k \in 1..Len(q) /\ q2[k] = q[k]
      /\ q2[n].query = pos[s]
      /\ \A r \in Sessions \ {s} : results'[r] = results[r] /\ pos'[r] = pos[r]
  BY <1>1, Reported
<1>3. /\ \A j, k \in DOMAIN q : j < k => q[j].query < q[k].query
      /\ {q[k].query : k \in DOMAIN q} = {j \in DOMAIN Script(s) : j < pos[s] /\ should_replay(Kind(s, j))}
  BY DEF ReportsInv, Reports
<1>4. \A k \in DOMAIN q : q[k].query < pos[s]
  BY <1>3
<1>5. \A j, k \in DOMAIN q2 : j < k => q2[j].query < q2[k].query
  <2> TAKE j, k \in DOMAIN q2
  <2>1. CASE j \in DOMAIN q /\ k \in DOMAIN q
    BY <1>2, <1>3, <2>1
  <2>2. CASE j \in DOMAIN q /\ k = n
    BY <1>2, <1>4, <2>2
  <2>3. CASE j = n
    BY <1>2, <2>3
  <2> QED
    BY <1>2, <2>1, <2>2, <2>3
<1>6. {q2[k].query : k \in DOMAIN q2} = {q[k].query : k \in DOMAIN q} \cup {pos[s]}
  BY <1>2
<1>7. \A j \in DOMAIN Script(s) : j \in Nat
  BY Scripts DEF TypeInv
<1>8. {q2[k].query : k \in DOMAIN q2}
         = {j \in DOMAIN Script(s) : j < pos[s] + 1 /\ should_replay(Kind(s, j))}
  <2> HIDE DEF q
  <2>1. \A j \in DOMAIN Script(s) : j < pos[s] + 1 <=> j < pos[s] \/ j = pos[s]
    BY <1>2, <1>7
  <2> QED
    BY <1>3, <1>6, <2>1
<1>9. Reports(s, "running", pos[s] + 1, q2)
  BY <1>5, <1>8 DEF Reports
<1> QED
  BY <1>1, <1>2, <1>9, ReportsAdvance

\* Nothing is reported yet.
LEMMA ReportsInit == Init => ReportsInv
<1> SUFFICES ASSUME Init, NEW s \in Sessions PROVE Reports(s, pc[s], pos[s], results[s])
  BY DEF ReportsInv
<1>1. setup \in Setups /\ pc[s] = "queued" /\ pos[s] = 1 /\ results[s] = <<>>
  BY DEF Init
<1>2. DOMAIN results[s] = {}
  BY <1>1
<1>3. \A j \in DOMAIN Script(s) : ~(j < 1)
  BY <1>1, Scripts
<1> QED
  BY <1>1, <1>2, <1>3 DEF Reports

\* Each step keeps it: what is passed and not left out is reported.
LEMMA ReportsStep == TypeInv /\ ReportsInv /\ [Next]_vars => ReportsInv'
<1> SUFFICES ASSUME TypeInv, ReportsInv, [Next]_vars PROVE ReportsInv'
  OBVIOUS
<1>1. setup \in Setups /\ setup' = setup
  BY DEF TypeInv, Next, Session, Acquire, Connect, LeaveOut, Skip, Execute, Answered,
         ReceiveOk, ReceiveError, ReceiveErrorInTxn, RolledBack, Finish, Join, vars
<1>2. \A s \in Sessions : DOMAIN Script(s) = 1..Len(Script(s)) /\ Len(Script(s)) \in Nat
  BY <1>1, Scripts
<1>3. \A s \in Sessions : pos[s] \in 1..(Len(Script(s)) + 1) /\ pos[s] \in Nat
                          /\ Reports(s, pc[s], pos[s], results[s])
  BY DEF TypeInv, Shapes, SessionInv, ReportsInv
<1> USE <1>1 DEF Goto
<1>4. ASSUME NEW s \in Sessions, NEW p, p = pc'[s], p \in {"connecting", "running", "failed"},
             UNCHANGED <<pos, results>>, \A r \in Sessions \ {s} : pc'[r] = pc[r]
      PROVE  ReportsInv'
  <2>1. Reports(s, p, pos[s], results[s])
    BY <1>3, <1>4 DEF Reports
  <2> QED
    BY <1>4, <2>1, ReportsAdvance
<1>5. ASSUME NEW s \in Sessions, Acquire(s) \/ Connect(s) PROVE ReportsInv'
  <2>1. /\ pc'[s] \in {"connecting", "running", "failed"} /\ UNCHANGED <<pos, results>>
        /\ \A r \in Sessions \ {s} : pc'[r] = pc[r]
    BY <1>5 DEF Acquire, Connect, TypeInv, Shapes
  <2> QED
    BY <1>4, <2>1
<1>6. ASSUME NEW s \in Sessions, LeaveOut(s) PROVE ReportsInv'
  <2>1. /\ pc[s] = "running" /\ pos[s] \in DOMAIN Script(s) /\ ~should_replay(Kind(s, pos[s]))
        /\ pos'[s] = pos[s] + 1 /\ UNCHANGED <<pc, results>>
        /\ \A r \in Sessions \ {s} : pos'[r] = pos[r]
    BY <1>2, <1>3, <1>6 DEF LeaveOut, AtQuery, TypeInv, Shapes
  <2>2. \A j \in DOMAIN Script(s) : j < pos[s] + 1 /\ should_replay(Kind(s, j))
                                      <=> j < pos[s] /\ should_replay(Kind(s, j))
    <3>1. \A j \in DOMAIN Script(s) : j < pos[s] + 1 <=> j < pos[s] \/ j = pos[s]
      BY <1>2, <1>3
    <3> QED
      BY <2>1, <3>1
  <2>3. Reports(s, "running", pos[s] + 1, results[s])
    BY <1>3, <2>2 DEF Reports
  <2> QED
    BY <2>1, <2>3, ReportsAdvance
<1>7. ASSUME NEW s \in Sessions, Skip(s) PROVE ReportsInv'
  <2>1. /\ pc'[s] = "running" /\ pos[s] \in DOMAIN Script(s) /\ should_replay(Kind(s, pos[s]))
        /\ Record(s, FALSE, "skipped") /\ \A r \in Sessions \ {s} : pc'[r] = pc[r]
    <3>1. Record(s, FALSE, "skipped") /\ pc' = pc
      BY <1>7 DEF Skip, skipped_success
    <3>2. pc[s] = "running" /\ pos[s] \in DOMAIN Script(s)
      BY <1>2, <1>3, <1>7 DEF Skip, AtQuery
    <3> QED
      BY <1>7, <3>1, <3>2 DEF Skip
  <2>2. "skipped" \in Errors
    BY DEF Errors
  <2> QED
    BY <2>1, <2>2, ReportsRecord
<1>8. ASSUME NEW s \in Sessions, Execute(s) PROVE ReportsInv'
  <2>1. /\ pc'[s] = "answered" /\ should_replay(Kind(s, pos[s])) /\ UNCHANGED <<pos, results>>
        /\ \A r \in Sessions \ {s} : pc'[r] = pc[r]
    BY <1>8 DEF Execute, TypeInv, Shapes
  <2>2. Reports(s, "answered", pos[s], results[s])
    BY <1>3, <2>1 DEF Reports
  <2> QED
    BY <2>1, <2>2, ReportsAdvance
<1>9. ASSUME NEW s \in Sessions, ReceiveOk(s) \/ ReceiveError(s) \/ RolledBack(s)
      PROVE ReportsInv'
  <2>1. /\ pc[s] \in {"answered", "rolling_back"} /\ pc'[s] = "running"
        /\ \A r \in Sessions \ {s} : pc'[r] = pc[r]
    BY <1>9 DEF ReceiveOk, ReceiveError, RolledBack, Answered, TypeInv, Shapes
  <2>2. pos[s] \in DOMAIN Script(s) /\ should_replay(Kind(s, pos[s])) /\ outcome[s].status \in Errors
    BY <1>3, <2>1 DEF Reports, TypeInv, SessionInv, Errors
  <2>3. Record(s, TRUE, "none") \/ Record(s, FALSE, outcome[s].status)
    BY <1>9 DEF ReceiveOk, ReceiveError, RolledBack
  <2>4. "none" \in Errors
    BY DEF Errors
  <2> QED
    BY <2>1, <2>2, <2>3, <2>4, ReportsRecord
<1>10. ASSUME NEW s \in Sessions, ReceiveErrorInTxn(s) PROVE ReportsInv'
  <2>1. /\ pc[s] = "answered" /\ pc'[s] = "rolling_back" /\ UNCHANGED <<pos, results>>
        /\ \A r \in Sessions \ {s} : pc'[r] = pc[r]
    BY <1>10 DEF ReceiveErrorInTxn, TypeInv, Shapes
  <2>2. Reports(s, "rolling_back", pos[s], results[s])
    BY <1>3, <2>1 DEF Reports
  <2> QED
    BY <2>1, <2>2, ReportsAdvance
<1>11. ASSUME NEW s \in Sessions, Finish(s) PROVE ReportsInv'
  <2>1. /\ pc'[s] = "done" /\ pos[s] > Len(Script(s)) /\ UNCHANGED <<pos, results>>
        /\ \A r \in Sessions \ {s} : pc'[r] = pc[r]
    BY <1>11 DEF Finish, TypeInv, Shapes
  <2>2. pos[s] = Len(Script(s)) + 1
    BY <1>2, <1>3, <2>1
  <2>3. Reports(s, "done", pos[s], results[s])
    BY <1>3, <2>2 DEF Reports
  <2> QED
    BY <2>1, <2>3, ReportsAdvance
<1>12. CASE Join \/ UNCHANGED vars
  <2>1. Sessions' = Sessions /\ UNCHANGED <<setup, pc, pos, results>>
    BY <1>12, Fixed DEF Join, vars, task
  <2>2. ASSUME NEW s \in Sessions PROVE ReportsInv'
    <3>1. Reports(s, pc[s], pos[s], results[s])
      BY <1>3
    <3> QED
      BY <2>1, <3>1, ReportsAdvance
  <2>3. CASE Sessions = {}
    BY <2>1, <2>3 DEF ReportsInv
  <2> QED
    BY <2>2, <2>3
<1> QED
  BY <1>5, <1>6, <1>7, <1>8, <1>9, <1>10, <1>11, <1>12 DEF Next, Session

\* What session s reports to have succeeded, by the queries.
LEMMA SucceededIs ==
    ASSUME NEW s, NEW i
    PROVE  Succeeded(s, i) <=> i \in Successes(results[s])
BY DEF Succeeded, Successes

\* At its end a session has reported each query that was to be replayed.
LEMMA AllReported ==
    ASSUME setup \in Setups, ReportsInv, NEW s \in Sessions, pc[s] = "done"
    PROVE  Complete(s)
<1>1. Reports(s, "done", Len(Script(s)) + 1, results[s])
  BY DEF ReportsInv, Reports
<1>2. \A j \in DOMAIN Script(s) : j < Len(Script(s)) + 1
  BY Scripts
<1> QED
  BY <1>1, <1>2 DEF Reports, Complete

-----------------------------------------------------------------------------
(***************************************************************************)
(* The report tells the truth.                                             *)
(***************************************************************************)
\* What commits what was captured.
Settles(s, i) ==
    \/ i \in DOMAIN Script(s) /\ Writes(Script(s)[i].stmt) /\ Captured(s)[i - 1].txn = "none"
    \/ \E k \in DOMAIN Script(s) : Commits(s, k) /\ i \in Captured(s)[k - 1].work

LEMMA Origin ==
    ASSUME setup \in Setups, Regular(setup), NEW s \in Sessions,
           NEW i \in Captured(s)[Len(Script(s))].committed
    PROVE  Settles(s, i)
<1> DEFINE L == Len(Script(s))
           T == {n \in 0..L : \A j \in Captured(s)[n].committed : Settles(s, j)}
<1>1. L \in Nat /\ DOMAIN Script(s) = 1..L
  BY Scripts
<1>2. 0 \in T
  BY <1>1, CapturedIs DEF Connection
<1>3. ASSUME NEW k \in (0 + 1)..L, k - 1 \in T PROVE k \in T
  <2> DEFINE c == Captured(s)[k - 1]
             d == Captured(s)[k]
  <2>1. k \in DOMAIN Script(s) /\ k \in 0..L /\ k - 1 \in 0..L
    BY <1>1
  <2>2. \A j \in c.committed : Settles(s, j)
    BY <1>3
  <2>3. c.txn \in {"none", "open"} /\ (c.txn = "none" => c.work = {})
    BY <2>1, AlwaysSteady DEF Steady
  <2>4. d.committed = IF Script(s)[k].stmt = "commit" THEN c.committed \cup c.work
                      ELSE IF Writes(Script(s)[k].stmt) /\ c.txn = "none" THEN c.committed \cup {k}
                      ELSE c.committed
    BY <2>1, Steps DEF Moved
  <2>5. ASSUME NEW j \in d.committed, j \notin c.committed PROVE Settles(s, j)
    <3>1. CASE Script(s)[k].stmt = "commit"
      <4>1. j \in c.work /\ c.txn = "open"
        BY <2>3, <2>4, <2>5, <3>1
      <4> QED
        BY <2>1, <3>1, <4>1 DEF Settles, Commits
    <3>2. CASE Script(s)[k].stmt # "commit"
      <4>1. j = k /\ Writes(Script(s)[k].stmt) /\ c.txn = "none"
        BY <2>4, <2>5, <3>2
      <4> QED
        BY <2>1, <4>1 DEF Settles
    <3> QED
      BY <3>1, <3>2
  <2> QED
    BY <2>1, <2>2, <2>5
<1>4. T = 0..L
  <2>1. T \in SUBSET (0..L)
    OBVIOUS
  <2> HIDE DEF T
  <2> QED
    BY <1>1, <1>2, <1>3, <2>1, Climb
<1>5. L \in T
  BY <1>1, <1>4
<1> QED
  BY <1>5

\* With K said to have succeeded among the first n queries, and C committed:
\* of what was captured outside of transactions, C has what is in K; ...
AloneTold(s, n, C, K) ==
    \A i \in Captured(s)[Len(Script(s))].committed :
        i \in 1..n /\ Block(s)[i] = 0 => (i \in C <=> i \in K)

\* ... of a transaction C has what its commit committed, if that is in K, and
\* then all of the transaction is; ...
CommitTold(s, n, C, K) ==
    \A k \in 1..n : Commits(s, k) =>
        /\ \A i \in Captured(s)[k - 1].work : i \in C <=> k \in K
        /\ k \in K => \A i \in Txn(s, Block(s)[k]) : i <= k => i \in K

\* ... and all of the transaction that is open on c is in K so far.
OpenTold(s, n, c, K) ==
    Captured(s)[n].txn = "open" /\ c.txn = "open" =>
        \A i \in Txn(s, Block(s)[n]) : i <= n => i \in K

Told(s, n, c, K) ==
    AloneTold(s, n, c.committed, K) /\ CommitTold(s, n, c.committed, K) /\ OpenTold(s, n, c, K)

\* A query that does not succeed.
LEMMA ToldFails ==
    ASSUME setup \in Setups, Regular(setup), NEW s \in Sessions, NEW n \in DOMAIN Script(s),
           NEW c, Kept(s, n - 1, c.committed), NEW K, K \subseteq 1..(n - 1), Told(s, n - 1, c, K),
           NEW d, d.committed = c.committed, d.txn # "open"
    PROVE  Told(s, n, d, K)
<1> DEFINE C == c.committed
<1>1. n \in Nat /\ n - 1 \in Nat /\ n - 1 \in 0..Len(Script(s))
  BY Scripts
<1>2. n \notin C /\ n \notin K /\ \A k \in 1..n : k # n => k \in 1..(n - 1)
  <2>1. C \subseteq 1..(n - 1)
    BY DEF Kept
  <2> QED
    BY <1>1, <2>1
<1>3. AloneTold(s, n, C, K)
  BY <1>2 DEF AloneTold, Told
<1>4. ASSUME NEW k \in 1..n, Commits(s, k)
      PROVE  /\ \A i \in Captured(s)[k - 1].work : i \in C <=> k \in K
             /\ k \in K => \A i \in Txn(s, Block(s)[k]) : i <= k => i \in K
  <2>1. CASE k = n
    <3>1. Captured(s)[n - 1].work \subseteq Txn(s, Block(s)[n - 1])
      BY <1>1, <1>4, <2>1, AlwaysSteady DEF Steady, Commits
    <3>2. C \cap Txn(s, Block(s)[n - 1]) = {}
      BY <1>4, <2>1 DEF Kept, Commits
    <3> QED
      BY <1>2, <2>1, <3>1, <3>2
  <2>2. CASE k # n
    BY <1>2, <1>4, <2>2 DEF CommitTold, Told
  <2> QED
    BY <2>1, <2>2
<1> QED
  BY <1>3, <1>4 DEF Told, CommitTold, OpenTold

\* A query is in the transaction that is open before it.
LEMMA InBlock ==
    ASSUME setup \in Setups, Regular(setup), NEW s \in Sessions, NEW n \in DOMAIN Script(s)
    PROVE  IF Captured(s)[n - 1].txn = "open"
             THEN Block(s)[n] = Block(s)[n - 1] /\ Block(s)[n] \in 1..(n - 1)
             ELSE Captured(s)[n - 1].txn = "none" /\ Block(s)[n] \in {0, n}
<1>1. n \in 1..Len(Script(s)) /\ n - 1 \in 0..Len(Script(s))
  BY Scripts
<1>2. Block(s)[n] = IF Captured(s)[n - 1].txn = "open" THEN Block(s)[n - 1]
                    ELSE IF Captured(s)[n].txn = "open" THEN n ELSE 0
  BY <1>1, BlockIs
<1>3. Steady(s, n - 1)
  BY <1>1, AlwaysSteady
<1> QED
  BY <1>2, <1>3 DEF Steady

\* What a query commits: all of its transaction, or itself.
LEMMA NewlyCommitted ==
    ASSUME setup \in Setups, Regular(setup), NEW s \in Sessions, NEW n \in DOMAIN Script(s),
           NEW c \in Servers, Same(Captured(s)[n - 1], c),
           NEW d, d = Succeed(c, n, Script(s)[n].stmt), NEW i
    PROVE  i \in d.committed <=>
              \/ i \in c.committed
              \/ Commits(s, n) /\ i \in Captured(s)[n - 1].work
              \/ Writes(Script(s)[n].stmt) /\ Captured(s)[n - 1].txn = "none" /\ i = n
<1>1. n \in Nat /\ n - 1 \in 0..Len(Script(s)) /\ Script(s)[n].stmt \in WellRead
  BY Scripts, KindIs
<1>2. Moved(c, n, Script(s)[n].stmt, d)
  BY <1>1, SucceedParts
<1>3. c.txn = Captured(s)[n - 1].txn /\ c.work = Captured(s)[n - 1].work
  BY DEF Same
<1>4. Captured(s)[n - 1].txn # "open" => Captured(s)[n - 1].work = {}
  BY <1>1, AlwaysSteady DEF Steady
<1> QED
  BY <1>2, <1>3, <1>4 DEF Moved, Commits, Writes

\* A query that succeeds.
LEMMA ToldSucceeds ==
    ASSUME setup \in Setups, Regular(setup), NEW s \in Sessions, NEW n \in DOMAIN Script(s),
           NEW c \in Servers, c.txn \in {"none", "open"}, Like(s, n - 1, c),
           Kept(s, n - 1, c.committed), NEW K, K \subseteq 1..(n - 1), Told(s, n - 1, c, K),
           NEW d, d = Succeed(c, n, Script(s)[n].stmt)
    PROVE  Told(s, n, d, K \cup {n})
<1> DEFINE C == c.committed
           D == d.committed
           e == Captured(s)[n - 1]
           N == K \cup {n}
<1>1. n \in Nat /\ n - 1 \in Nat /\ n - 1 \in 0..Len(Script(s)) /\ \A k \in 1..n : k # n => k \in 1..(n - 1)
  BY Scripts
<1>2. Same(e, c) /\ Steady(s, n - 1) /\ n \notin C /\ n \notin K
  <2>1. C \subseteq 1..(n - 1)
    BY DEF Kept
  <2>2. n \notin 1..(n - 1)
    BY <1>1
  <2> QED
    BY <1>1, <2>1, <2>2, Alike, AlwaysSteady
<1>3. \A i : i \in D <=> \/ i \in C
                         \/ Commits(s, n) /\ i \in e.work
                         \/ Writes(Script(s)[n].stmt) /\ e.txn = "none" /\ i = n
  BY <1>2, NewlyCommitted
<1>4. e.txn = "open" => e.work \subseteq Txn(s, Block(s)[n - 1]) /\ Block(s)[n - 1] \in 1..(n - 1)
  BY <1>2 DEF Steady
<1>5. ASSUME NEW i \in Captured(s)[Len(Script(s))].committed, i \in 1..n, Block(s)[i] = 0
      PROVE  i \in D <=> i \in N
  <2>1. ~(Commits(s, n) /\ i \in e.work)
    BY <1>1, <1>4, <1>5 DEF Commits, Txn
  <2>2. CASE i # n
    <3>1. i \in C <=> i \in K
      BY <1>1, <1>5, <2>2 DEF Told, AloneTold
    <3> QED
      BY <1>3, <2>1, <2>2, <3>1
  <2>3. CASE i = n
    <3>1. Settles(s, n)
      BY <1>5, <2>3, Origin
    <3>2. ~\E k \in DOMAIN Script(s) : Commits(s, k) /\ n \in Captured(s)[k - 1].work
      <4>1. SUFFICES ASSUME NEW k \in DOMAIN Script(s), Commits(s, k), n \in Captured(s)[k - 1].work
                     PROVE FALSE
        OBVIOUS
      <4>2. k - 1 \in 0..Len(Script(s))
        BY Scripts
      <4>3. Block(s)[n] \in 1..(k - 1)
        BY <4>1, <4>2, AlwaysSteady DEF Steady, Commits, Txn
      <4> QED
        BY <1>5, <2>3, <4>3
    <3> QED
      BY <1>3, <2>3, <3>1, <3>2 DEF Settles
  <2> QED
    BY <2>2, <2>3
<1>6. ASSUME Captured(s)[n].txn = "open", d.txn = "open", NEW i \in Txn(s, Block(s)[n]), i <= n
      PROVE  i \in N
  <2>1. i \in 1..n
    BY <1>1, <1>6, Scripts DEF Txn
  <2>2. CASE e.txn = "open"
    <3>1. Block(s)[n] = Block(s)[n - 1] /\ c.txn = "open"
      BY <1>2, <2>2, InBlock DEF Same
    <3>2. i # n => i \in K
      BY <1>1, <1>6, <2>1, <2>2, <3>1 DEF Told, OpenTold
    <3> QED
      BY <3>2
  <2>3. CASE e.txn # "open"
    <3>1. Block(s)[n] = n
      BY <1>1, <1>6, <2>3, BlockIs, Scripts
    <3>2. n <= i
      BY <1>1, <1>6, <3>1, BlockBound
    <3> QED
      BY <1>1, <1>6, <2>1, <3>2
  <2> QED
    BY <2>2, <2>3
<1>7. ASSUME NEW k \in 1..n, Commits(s, k)
      PROVE  /\ \A i \in Captured(s)[k - 1].work : i \in D <=> k \in N
             /\ k \in N => \A i \in Txn(s, Block(s)[k]) : i <= k => i \in N
  <2>1. CASE k = n
    <3>1. \A i \in e.work : i \in D
      BY <1>3, <1>7, <2>1
    <3>2. c.txn = "open" /\ Block(s)[n] = Block(s)[n - 1] /\ e.txn = "open"
      BY <1>2, <1>7, <2>1, InBlock DEF Commits, Same
    <3>3. ASSUME NEW i \in Txn(s, Block(s)[n]), i <= n PROVE i \in N
      <4>1. i \in 1..n
        BY <1>1, <3>3, Scripts DEF Txn
      <4>2. i # n => i \in K
        BY <1>1, <3>2, <3>3, <4>1 DEF Told, OpenTold
      <4> QED
        BY <4>2
    <3> QED
      BY <2>1, <3>1, <3>3
  <2>2. CASE k # n
    <3>1. /\ \A i \in Captured(s)[k - 1].work : i \in C <=> k \in K
          /\ k \in K => \A i \in Txn(s, Block(s)[k]) : i <= k => i \in K
      BY <1>1, <1>7, <2>2 DEF Told, CommitTold
    <3>2. k \in DOMAIN Script(s) /\ k < n /\ k - 1 \in 0..Len(Script(s)) /\ k \in Nat
      BY <1>1, <1>7, <2>2, Scripts
    <3>3. Captured(s)[k - 1].work \subseteq Txn(s, Block(s)[k - 1])
          /\ Captured(s)[k - 1].work \subseteq 1..(k - 1)
      BY <1>7, <3>2, AlwaysSteady DEF Steady, Commits
    <3>4. \A i \in Captured(s)[k - 1].work : i # n /\ ~(Commits(s, n) /\ i \in e.work)
      <4>1. Commits(s, n) => Block(s)[n - 1] # Block(s)[k - 1]
        BY <1>7, <3>2, OtherBlock DEF Commits
      <4>2. \A i \in 1..(k - 1) : i # n
        BY <1>1, <3>2
      <4> QED
        BY <1>4, <3>3, <4>1, <4>2 DEF Commits, Txn
    <3> QED
      BY <1>3, <2>2, <3>1, <3>4
  <2> QED
    BY <2>1, <2>2
<1> QED
  BY <1>5, <1>6, <1>7 DEF Told, AloneTold, CommitTold, OpenTold

\* Whatever a server that is reached answers is reported as it is.
LEMMA ToldAnswer ==
    ASSUME setup \in Setups, Regular(setup), ~setup.unreliable, NEW s \in Sessions,
           NEW n \in DOMAIN Script(s), NEW c \in Servers, c.txn \in {"none", "open"},
           Like(s, n - 1, c), Kept(s, n - 1, c.committed),
           NEW K, K \subseteq 1..(n - 1), Told(s, n - 1, c, K),
           NEW a \in Answers(c, n, Script(s)[n].stmt)
    PROVE  /\ Told(s, n, a[1], K \cup (IF a[2] = "ok" THEN {n} ELSE {}))
           /\ a[1].txn # "lost"
<1> DEFINE stmt == Script(s)[n].stmt
           d == Succeed(c, n, stmt)
<1>1. n \in Nat /\ n - 1 \in 0..Len(Script(s)) /\ stmt \in WellRead
  BY Scripts, KindIs
<1>2. a = <<d, "ok">> \/ a = <<Fail(c, stmt), "error">>
  BY DEF Answers
<1>3. CASE a = <<d, "ok">>
  <2>1. Told(s, n, d, K \cup {n})
    BY ToldSucceeds
  <2>2. d.txn # "lost"
    BY LikeStep
  <2> QED
    BY <1>3, <2>1, <2>2
<1>4. CASE a = <<Fail(c, stmt), "error">>
  <2>1. End(c) \in Servers /\ End(c).txn = "none" /\ End(c).committed = c.committed
    BY DEF End, Servers
  <2>2. Fail(c, stmt).txn \in {"none", "aborted"} /\ Fail(c, stmt).committed = c.committed
    BY <2>1 DEF Fail, Servers
  <2>3. Told(s, n, Fail(c, stmt), K)
    BY <2>2, ToldFails
  <2>4. K \cup {} = K
    OBVIOUS
  <2> QED
    BY <1>4, <2>2, <2>3, <2>4
<1> QED
  BY <1>2, <1>3, <1>4

\* A connection that ends its transaction.
LEMMA ToldEnd ==
    ASSUME NEW s, NEW n, NEW c, NEW K, Told(s, n, c, K),
           NEW d, d.committed = c.committed, d.txn # "open"
    PROVE  Told(s, n, d, K)
BY DEF Told, OpenTold

\* A task at label p and query i, with connection c, an answer of status st
\* and the results q: the answer it is about to record counts as recorded.
Truth(s, p, i, c, st, q) ==
    /\ c.txn # "lost"
    /\ Told(s, IF p \in {"answered", "rolling_back"} THEN i ELSE i - 1, c,
            Successes(q) \cup (IF p = "answered" /\ st = "ok" THEN {i} ELSE {}))

TruthInv ==
    Regular(setup) /\ ~setup.begin_fails /\ ~setup.read_only /\ ~setup.unreliable =>
        \A s \in Sessions : Truth(s, pc[s], pos[s], conn[s], outcome[s].status, results[s])

\* It speaks of the workload, which does not change.
LEMMA TruthAdvance ==
    ASSUME TruthInv, UNCHANGED setup, NEW s \in Sessions,
           NEW p, p = pc'[s], NEW i, i = pos'[s], NEW c, c = conn'[s],
           NEW st, st = outcome'[s].status, NEW q, q = results'[s],
           Regular(setup) /\ ~setup.begin_fails /\ ~setup.read_only /\ ~setup.unreliable =>
              Truth(s, p, i, c, st, q),
           \A r \in Sessions \ {s} : UNCHANGED <<pc[r], pos[r], conn[r], outcome[r], results[r]>>
    PROVE  TruthInv'
<1>1. Sessions' = Sessions
  BY Fixed
<1>2. ASSUME NEW r, NEW p2, NEW i2, NEW c2, NEW st2, NEW q2, Truth(r, p2, i2, c2, st2, q2)
      PROVE  Truth(r, p2, i2, c2, st2, q2)'
  <2>1. /\ Script(r)' = Script(r) /\ Captured(r)' = Captured(r) /\ Block(r)' = Block(r)
        /\ \A b : Txn(r, b)' = Txn(r, b)
    BY Fixed, CapturedFixed
  <2>2. ASSUME NEW n, NEW K, Told(r, n, c2, K) PROVE Told(r, n, c2, K)'
    BY <2>1, <2>2 DEF Told, AloneTold, CommitTold, OpenTold, Commits
  <2> QED
    BY <1>2, <2>2 DEF Truth, Successes
<1>3. SUFFICES ASSUME Regular(setup), ~setup.begin_fails, ~setup.read_only, ~setup.unreliable,
                      NEW r \in Sessions
               PROVE  Truth(r, pc[r], pos[r], conn[r], outcome[r].status, results[r])'
  BY <1>1 DEF TruthInv
<1>4. CASE r = s
  <2>1. Truth(s, p, i, c, st, q)'
    BY <1>2, <1>3
  <2> QED
    BY <1>4, <2>1
<1>5. CASE r # s
  <2>1. PICK p2 : p2 = pc[r]
    OBVIOUS
  <2>2. PICK i2 : i2 = pos[r]
    OBVIOUS
  <2>3. PICK c2 : c2 = conn[r]
    OBVIOUS
  <2>4. PICK st2 : st2 = outcome[r].status
    OBVIOUS
  <2>5. PICK q2 : q2 = results[r]
    OBVIOUS
  <2>6. p2 = pc'[r] /\ i2 = pos'[r] /\ c2 = conn'[r] /\ st2 = outcome'[r].status /\ q2 = results'[r]
    BY <1>3, <1>5, <2>1, <2>2, <2>3, <2>4, <2>5
  <2>7. Truth(r, p2, i2, c2, st2, q2)
    BY <1>3, <2>1, <2>2, <2>3, <2>4, <2>5 DEF TruthInv
  <2>8. Truth(r, p2, i2, c2, st2, q2)'
    BY <1>2, <2>7
  <2> QED
    BY <2>6, <2>8
<1> QED
  BY <1>4, <1>5

\* Nothing is done yet.
LEMMA TruthInit == Init => TruthInv
<1> SUFFICES ASSUME Init, NEW s \in Sessions
             PROVE  Truth(s, pc[s], pos[s], conn[s], outcome[s].status, results[s])
  BY DEF TruthInv
<1>1. setup \in Setups /\ pc[s] = "queued" /\ pos[s] = 1 /\ conn[s] = Connection
  BY DEF Init
<1>2. \A K : Told(s, 0, Connection, K)
  BY DEF Told, AloneTold, CommitTold, OpenTold, Connection
<1> QED
  BY <1>1, <1>2 DEF Truth, Connection

\* What Record does to what has succeeded.
LEMMA SuccessesRecord ==
    ASSUME TypeInv, NEW s \in Sessions, pos[s] \in DOMAIN Script(s),
           NEW success \in BOOLEAN, NEW error \in Errors, Record(s, success, error)
    PROVE  Successes(results'[s]) = Successes(results[s]) \cup (IF success THEN {pos[s]} ELSE {})
<1> DEFINE q == results[s]
           n == Len(q) + 1
<1>1. PICK q2 : q2 = results'[s]
  OBVIOUS
<1>2. /\ DOMAIN q2 = DOMAIN q \cup {n} /\ \A k \in DOMAIN q : q2[k] = q[k] /\ k # n
      /\ q2[n].query = pos[s] /\ q2[n].success = success
  <2>1. /\ DOMAIN q2 = DOMAIN q \cup {n} /\ Len(q) \in Nat
        /\ \A k \in DOMAIN q : k \in 1..Len(q) /\ q2[k] = q[k]
        /\ q2[n].query = pos[s] /\ q2[n].success = success
    BY <1>1, Reported
  <2> QED
    BY <2>1
<1> HIDE DEF q, n
<1>3. Successes(q2) = Successes(q) \cup (IF success THEN {pos[s]} ELSE {})
  BY <1>2 DEF Successes
<1> QED
  BY <1>1, <1>3 DEF q

\* Each step keeps it: what the server commits and what the engine writes down
\* agree.
LEMMA TruthStep ==
    ASSUME TypeInv, NoCascadeInv, AtomicInv, ReportsInv, TruthInv, [Next]_vars
    PROVE  TruthInv'
<1>1. setup \in Setups /\ setup' = setup
  BY DEF TypeInv, Next, Session, Acquire, Connect, LeaveOut, Skip, Execute, Answered,
         ReceiveOk, ReceiveError, ReceiveErrorInTxn, RolledBack, Finish, Join, vars
<1>2. SUFFICES ASSUME Regular(setup), ~setup.begin_fails, ~setup.read_only, ~setup.unreliable
               PROVE  TruthInv'
  BY <1>1 DEF TruthInv
<1>3. \A s \in Sessions : /\ CascadeInv(s) /\ Atomic(s, pc[s], pos[s], failed[s], conn[s])
                          /\ Truth(s, pc[s], pos[s], conn[s], outcome[s].status, results[s])
  BY <1>2 DEF NoCascadeInv, AtomicInv, TruthInv, Regular
<1>4. \A s \in Sessions : DOMAIN Script(s) = 1..Len(Script(s)) /\ Len(Script(s)) \in Nat
  BY <1>1, Scripts
<1>5. \A s \in Sessions : /\ pos[s] \in Nat /\ conn[s] \in Servers /\ (pos[s] + 1) - 1 = pos[s]
                          /\ Successes(results[s]) \subseteq 1..(pos[s] - 1)
  <2>1. ASSUME NEW s \in Sessions PROVE Successes(results[s]) \subseteq 1..(pos[s] - 1)
    <3>1. \A j \in Successes(results[s]) : j \in DOMAIN Script(s) /\ j < pos[s]
      BY DEF ReportsInv, Reports, Successes
    <3>2. pos[s] \in Nat
      BY DEF TypeInv, Shapes
    <3> QED
      BY <1>4, <3>1, <3>2
  <2> QED
    BY <2>1 DEF TypeInv, Shapes
<1>6. \A c \in Servers : End(c).txn = "none" /\ End(c).committed = c.committed
  BY DEF End, Servers
<1> USE <1>1 DEF Goto
<1>7. ASSUME NEW s \in Sessions, Acquire(s) \/ Connect(s) PROVE TruthInv'
  <2>1. /\ pc[s] \in {"queued", "connecting"} /\ pc'[s] \in {"connecting", "running", "failed"}
        /\ UNCHANGED <<pos, conn, outcome, results>>
        /\ \A r \in Sessions \ {s} : pc'[r] = pc[r]
    BY <1>7 DEF Acquire, Connect, TypeInv, Shapes
  <2>2. ASSUME NEW p \in {"connecting", "running", "failed"}
        PROVE  Truth(s, p, pos[s], conn[s], outcome[s].status, results[s])
    BY <1>3, <2>1 DEF Truth
  <2> QED
    BY <2>1, <2>2, TruthAdvance
<1>8. ASSUME NEW s \in Sessions, LeaveOut(s) PROVE TruthInv'
  BY <1>2, <1>8 DEF LeaveOut, should_replay
<1>9. ASSUME NEW s \in Sessions, Skip(s) PROVE TruthInv'
  <2>1. /\ pc[s] = "running" /\ pos[s] \in DOMAIN Script(s) /\ failed[s] # None
        /\ pc' = pc /\ conn' = conn /\ outcome' = outcome /\ Record(s, FALSE, "skipped")
    <3>1. Record(s, FALSE, "skipped") /\ pc' = pc /\ conn' = conn /\ outcome' = outcome
      BY <1>9 DEF Skip, skipped_success
    <3>2. pc[s] = "running" /\ failed[s] # None /\ pos[s] <= Len(Script(s))
      BY <1>9 DEF Skip, AtQuery, in_failed_txn
    <3>3. pos[s] \in 1..(Len(Script(s)) + 1)
      BY DEF TypeInv, SessionInv
    <3>4. pos[s] \in DOMAIN Script(s)
      BY <1>4, <3>2, <3>3
    <3> QED
      BY <3>1, <3>2, <3>4
  <2>2. "skipped" \in Errors
    BY DEF Errors
  <2>3. Successes(results'[s]) = Successes(results[s])
    BY <2>1, <2>2, SuccessesRecord
  <2>4. pos'[s] = pos[s] + 1 /\ \A r \in Sessions \ {s} : pos'[r] = pos[r] /\ results'[r] = results[r]
    BY <2>1, <2>2, Reported
  <2>5. Kept(s, pos[s] - 1, conn[s].committed) /\ conn[s].txn # "open"
    BY <1>3, <2>1 DEF Atomic, CascadeInv, Idle
  <2>6. Told(s, pos[s] - 1, conn[s], Successes(results[s])) /\ conn[s].txn # "lost"
    BY <1>3, <2>1 DEF Truth
  <2>7. Told(s, pos[s], conn[s], Successes(results[s]))
    BY <1>2, <1>5, <2>1, <2>5, <2>6, ToldFails
  <2>8. PICK q : q = results'[s]
    OBVIOUS
  <2>9. Truth(s, "running", pos[s] + 1, conn[s], outcome[s].status, q)
    BY <1>5, <2>3, <2>6, <2>7, <2>8 DEF Truth
  <2> QED
    BY <2>1, <2>4, <2>8, <2>9, TruthAdvance
<1>10. ASSUME NEW s \in Sessions, Execute(s) PROVE TruthInv'
  <2>1. pc[s] = "running" /\ pos[s] \in DOMAIN Script(s) /\ ~in_failed_txn(s)
    BY <1>4, <1>10 DEF Execute, AtQuery, TypeInv, SessionInv
  <2>2. /\ Kept(s, pos[s] - 1, conn[s].committed) /\ conn[s].txn # "aborted"
        /\ conn[s].txn \in {"none", "open"} => Like(s, pos[s] - 1, conn[s])
    BY <1>2, <1>3, <2>1, NothingFailed
  <2>3. Told(s, pos[s] - 1, conn[s], Successes(results[s])) /\ conn[s].txn # "lost"
    BY <1>3, <2>1 DEF Truth
  <2>4. conn[s].txn \in {"none", "open"}
    BY <1>5, <2>2, <2>3 DEF Servers
  <2>5. PICK a \in Answers(conn[s], pos[s], Script(s)[pos[s]].stmt) :
               conn' = [conn EXCEPT ![s] = a[1]] /\ outcome'[s].status = a[2]
               /\ \A r \in Sessions \ {s} : outcome'[r] = outcome[r]
    <3>1. PICK a \in Answers(conn[s], pos[s], Script(s)[pos[s]].stmt) :
                 /\ conn' = [conn EXCEPT ![s] = a[1]]
                 /\ \E row : outcome' = [outcome EXCEPT ![s] = [status |-> a[2], row |-> row]]
      <4>1. PICK a \in Answers(conn[s], pos[s], Script(s)[pos[s]].stmt) :
                   /\ conn' = [conn EXCEPT ![s] = a[1]]
                   /\ IF a[2] = "ok" /\ Query(s).returns # None
                        THEN outcome' = [outcome EXCEPT ![s] = [status |-> "ok", row |-> next_id]]
                        ELSE outcome' = [outcome EXCEPT ![s] = [status |-> a[2], row |-> None]]
        BY <1>10 DEF Execute, Query
      <4> QED
        BY <4>1
    <3>2. PICK row : outcome' = [outcome EXCEPT ![s] = [status |-> a[2], row |-> row]]
      BY <3>1
    <3>3. outcome'[s].status = a[2] /\ \A r \in Sessions \ {s} : outcome'[r] = outcome[r]
      BY <3>2 DEF TypeInv, Shapes
    <3> QED
      BY <3>1, <3>3
  <2>6. /\ Told(s, pos[s], a[1], Successes(results[s]) \cup (IF a[2] = "ok" THEN {pos[s]} ELSE {}))
        /\ a[1].txn # "lost"
    BY <1>2, <1>5, <2>1, <2>2, <2>3, <2>4, ToldAnswer
  <2>7. Truth(s, "answered", pos[s], a[1], a[2], results[s])
    BY <2>6 DEF Truth
  <2>8. /\ pc'[s] = "answered" /\ UNCHANGED <<pos, results>> /\ conn'[s] = a[1]
        /\ \A r \in Sessions \ {s} : pc'[r] = pc[r] /\ conn'[r] = conn[r]
    BY <1>10, <2>5 DEF Execute, TypeInv, Shapes
  <2> QED
    BY <2>5, <2>7, <2>8, TruthAdvance
<1>11. ASSUME NEW s \in Sessions, NEW success \in BOOLEAN, Record(s, success, IF success THEN "none" ELSE outcome[s].status),
              pc[s] \in {"answered", "rolling_back"}, conn' = conn, pc'[s] = "running",
              success <=> pc[s] = "answered" /\ outcome[s].status = "ok",
              \A r \in Sessions \ {s} : pc'[r] = pc[r] /\ outcome'[r] = outcome[r]
       PROVE  TruthInv'
  <2>1. pos[s] \in DOMAIN Script(s) /\ (IF success THEN "none" ELSE outcome[s].status) \in Errors
    BY <1>4, <1>11 DEF TypeInv, SessionInv, Errors
  <2>2. Successes(results'[s]) = Successes(results[s]) \cup (IF success THEN {pos[s]} ELSE {})
    BY <1>11, <2>1, SuccessesRecord
  <2>3. pos'[s] = pos[s] + 1 /\ \A r \in Sessions \ {s} : pos'[r] = pos[r] /\ results'[r] = results[r]
    BY <1>11, <2>1, Reported
  <2>4. /\ Told(s, pos[s], conn[s], Successes(results[s]) \cup (IF success THEN {pos[s]} ELSE {}))
        /\ conn[s].txn # "lost"
    BY <1>3, <1>11 DEF Truth
  <2>5. PICK q : q = results'[s]
    OBVIOUS
  <2>6. PICK st : st = outcome'[s].status
    OBVIOUS
  <2>7. Truth(s, "running", pos[s] + 1, conn[s], st, q)
    <3>1. Successes(q) \cup {} = Successes(q)
      OBVIOUS
    <3> QED
      BY <1>5, <2>2, <2>4, <2>5, <3>1 DEF Truth
  <2> QED
    BY <1>11, <2>3, <2>5, <2>6, <2>7, TruthAdvance
<1>12. ASSUME NEW s \in Sessions, ReceiveOk(s) PROVE TruthInv'
  <2>1. /\ pc[s] = "answered" /\ pc'[s] = "running" /\ conn' = conn /\ outcome[s].status = "ok"
        /\ \A r \in Sessions \ {s} : pc'[r] = pc[r] /\ outcome'[r] = outcome[r]
    BY <1>12 DEF ReceiveOk, Answered, TypeInv, Shapes
  <2>2. Record(s, TRUE, "none")
    BY <1>12 DEF ReceiveOk
  <2> QED
    BY <1>11, <2>1, <2>2
<1>13. ASSUME NEW s \in Sessions, ReceiveError(s) \/ RolledBack(s) PROVE TruthInv'
  <2>1. /\ pc[s] \in {"answered", "rolling_back"} /\ pc'[s] = "running" /\ conn' = conn
        /\ ~(pc[s] = "answered" /\ outcome[s].status = "ok")
        /\ \A r \in Sessions \ {s} : pc'[r] = pc[r] /\ outcome'[r] = outcome[r]
    BY <1>13 DEF ReceiveError, RolledBack, Answered, TypeInv, Shapes
  <2>2. Record(s, FALSE, outcome[s].status)
    BY <1>13 DEF ReceiveError, RolledBack
  <2> QED
    BY <1>11, <2>1, <2>2
<1>14. ASSUME NEW s \in Sessions, ReceiveErrorInTxn(s) PROVE TruthInv'
  <2>1. /\ pc[s] = "answered" /\ pc'[s] = "rolling_back" /\ outcome[s].status # "ok"
        /\ UNCHANGED <<pos, outcome, results>>
        /\ \A r \in Sessions \ {s} : pc'[r] = pc[r] /\ conn'[r] = conn[r]
        /\ conn'[s] = IF conn[s].txn = "lost" THEN conn[s] ELSE End(conn[s])
    BY <1>14 DEF ReceiveErrorInTxn, TypeInv, Shapes
  <2>2. Told(s, pos[s], conn[s], Successes(results[s])) /\ conn[s].txn # "lost"
    <3>1. Successes(results[s]) \cup {} = Successes(results[s])
      OBVIOUS
    <3> QED
      BY <1>3, <2>1, <3>1 DEF Truth
  <2>3. PICK c : c = conn'[s]
    OBVIOUS
  <2>4. c.committed = conn[s].committed /\ c.txn = "none"
    BY <1>5, <1>6, <2>1, <2>2, <2>3
  <2>5. Told(s, pos[s], c, Successes(results[s]))
    BY <2>2, <2>4, ToldEnd
  <2>6. Truth(s, "rolling_back", pos[s], c, outcome[s].status, results[s])
    BY <2>4, <2>5 DEF Truth
  <2> QED
    BY <2>1, <2>3, <2>6, TruthAdvance
<1>15. ASSUME NEW s \in Sessions, Finish(s) PROVE TruthInv'
  <2>1. /\ pc[s] = "running" /\ pc'[s] = "done" /\ UNCHANGED <<pos, outcome, results>>
        /\ conn'[s] = End(conn[s])
        /\ \A r \in Sessions \ {s} : pc'[r] = pc[r] /\ conn'[r] = conn[r]
    BY <1>15 DEF Finish, TypeInv, Shapes
  <2>2. Told(s, pos[s] - 1, conn[s], Successes(results[s]))
    BY <1>3, <2>1 DEF Truth
  <2>3. End(conn[s]).committed = conn[s].committed /\ End(conn[s]).txn = "none"
    BY <1>5, <1>6
  <2>4. Told(s, pos[s] - 1, End(conn[s]), Successes(results[s]))
    BY <2>2, <2>3, ToldEnd
  <2>5. Truth(s, "done", pos[s], End(conn[s]), outcome[s].status, results[s])
    BY <2>3, <2>4 DEF Truth
  <2> QED
    BY <2>1, <2>5, TruthAdvance
<1>16. CASE Join \/ UNCHANGED vars
  <2>1. Sessions' = Sessions /\ UNCHANGED <<setup, pc, pos, conn, outcome, results>>
    BY <1>16, Fixed DEF Join, vars, task
  <2>2. ASSUME NEW s \in Sessions PROVE TruthInv'
    <3>1. Truth(s, pc[s], pos[s], conn[s], outcome[s].status, results[s])
      BY <1>3
    <3> QED
      BY <2>1, <3>1, TruthAdvance
  <2>3. CASE Sessions = {}
    BY <2>1, <2>3 DEF TruthInv
  <2> QED
    BY <2>2, <2>3
<1> QED
  BY <1>7, <1>8, <1>9, <1>10, <1>12, <1>13, <1>14, <1>15, <1>16 DEF Next, Session

\* What is reported of a session at its end is what it has committed.
LEMMA Truthful ==
    ASSUME setup \in Setups, Regular(setup), NEW s \in Sessions, NEW L, L = Len(Script(s)),
           NEW c, NEW K, Told(s, L, c, K), NEW i \in Captured(s)[L].committed
    PROVE  i \in c.committed <=>
              /\ i \in K
              /\ Block(s)[i] # 0 =>
                   \E k \in DOMAIN Script(s) :
                      Block(s)[k] = Block(s)[i] /\ Script(s)[k].stmt = "commit" /\ k \in K
<1>1. DOMAIN Script(s) = 1..L /\ L \in Nat
  BY Scripts
<1>2. Steady(s, L)
  BY <1>1, AlwaysSteady
<1>3. i \in 1..L /\ Settles(s, i)
  BY <1>2, Origin DEF Steady
<1>4. CASE Block(s)[i] = 0
  BY <1>3, <1>4 DEF Told, AloneTold
<1>5. CASE Block(s)[i] # 0
  <2>1. PICK k \in DOMAIN Script(s) : Commits(s, k) /\ i \in Captured(s)[k - 1].work
    <3>1. SUFFICES ASSUME Writes(Script(s)[i].stmt), Captured(s)[i - 1].txn = "none" PROVE FALSE
      BY <1>3 DEF Settles
    <3>2. Captured(s)[i].txn = "none"
      BY <1>1, <1>3, <3>1, Steps DEF Moved, Same
    <3>3. Block(s)[i] = 0
      BY <1>1, <1>3, <3>1, <3>2, BlockIs
    <3> QED
      BY <1>5, <3>3
  <2>2. i \in Txn(s, Block(s)[k - 1]) /\ Block(s)[k] = Block(s)[k - 1] /\ i \in 1..(k - 1)
    <3>1. k - 1 \in 0..L
      BY <1>1
    <3>2. Captured(s)[k - 1].work \subseteq Txn(s, Block(s)[k - 1])
          /\ Captured(s)[k - 1].work \subseteq 1..(k - 1)
      BY <2>1, <3>1, AlwaysSteady DEF Steady, Commits
    <3> QED
      BY <2>1, <3>2, InBlock DEF Commits
  <2>3. Block(s)[i] = Block(s)[k] /\ i \in Txn(s, Block(s)[k]) /\ i <= k
    BY <1>1, <2>2 DEF Txn
  <2>4. (i \in c.committed <=> k \in K) /\ (k \in K => i \in K)
    BY <1>1, <2>1, <2>3 DEF Told, CommitTold
  <2>5. ASSUME NEW j \in DOMAIN Script(s), Block(s)[j] = Block(s)[i], Script(s)[j].stmt = "commit"
        PROVE  j = k
    <3>1. Captured(s)[j - 1].txn = "open"
      <4>1. SUFFICES ASSUME Captured(s)[j - 1].txn # "open" PROVE FALSE
        OBVIOUS
      <4>2. Captured(s)[j].txn = "none"
        BY <2>5, Steps DEF Moved
      <4>3. Block(s)[j] = 0
        BY <1>1, <4>1, <4>2, BlockIs
      <4> QED
        BY <1>5, <2>5, <4>3
    <3>2. Block(s)[j - 1] = Block(s)[k - 1]
      BY <2>2, <2>3, <2>5, <3>1, InBlock
    <3>3. ~(j < k) /\ ~(k < j)
      BY <2>1, <2>5, <3>1, <3>2, OtherBlock DEF Commits
    <3> QED
      BY <1>1, <3>3
  <2>6. (\E j \in DOMAIN Script(s) :
            Block(s)[j] = Block(s)[i] /\ Script(s)[j].stmt = "commit" /\ j \in K) <=> k \in K
    BY <2>1, <2>3, <2>5 DEF Commits
  <2> QED
    BY <1>5, <2>4, <2>6
<1> QED
  BY <1>4, <1>5

\* The report of a replay is complete, and where every connection holds it
\* says what the target has committed, for any Regular workload,
\* whatever statements fail, unless BEGIN itself fails or the replay is
\* read-only (session.rs 51-80, 144-179).
THEOREM ReportCorrect ==
    Spec => [](~setup.begin_fails /\ ~setup.read_only => ReportTrue)
<1>1. TypeInv /\ ReportsInv /\ TruthInv => (~setup.begin_fails /\ ~setup.read_only => ReportTrue)
  <2> SUFFICES ASSUME TypeInv, ReportsInv, TruthInv, ~setup.begin_fails, ~setup.read_only,
                      NEW s \in Sessions, pc[s] = "done"
               PROVE  /\ Complete(s)
                      /\ Regular(setup) /\ ~setup.unreliable =>
                           \A i \in Captured(s)[Len(Script(s))].committed :
                              i \in conn[s].committed <=>
                                /\ Succeeded(s, i)
                                /\ Block(s)[i] # 0 =>
                                     \E k \in DOMAIN Script(s) :
                                        /\ Block(s)[k] = Block(s)[i]
                                        /\ Script(s)[k].stmt = "commit" /\ Succeeded(s, k)
    BY DEF ReportTrue
  <2>1. setup \in Setups
    BY DEF TypeInv
  <2>2. Complete(s)
    BY <2>1, AllReported
  <2>3. ASSUME Regular(setup), ~setup.unreliable
        PROVE  Told(s, Len(Script(s)), conn[s], Successes(results[s]))
    <3>1. Truth(s, "done", pos[s], conn[s], outcome[s].status, results[s])
      BY <2>3 DEF TruthInv
    <3>2. pos[s] - 1 = Len(Script(s))
      BY <2>1, Scripts DEF ReportsInv, Reports
    <3>3. Successes(results[s]) \cup {} = Successes(results[s])
      OBVIOUS
    <3> QED
      BY <3>1, <3>2, <3>3 DEF Truth
  <2> QED
    BY <2>1, <2>2, <2>3, SucceededIs, Truthful
<1> QED
  BY <1>1, TypeInit, TypeStep, CascadeInit, CascadeStep, AtomicInit, AtomicStep, ReportsInit, ReportsStep,
     TruthInit, TruthStep, PTL DEF Spec

\* At its end a session has reported each query that was to be replayed once
\* and in order, for every workload and whatever fails.
THEOREM CompleteCorrect ==
    Spec => [](\A s \in Sessions : pc[s] = "done" => Complete(s))
<1>1. TypeInv /\ ReportsInv => \A s \in Sessions : pc[s] = "done" => Complete(s)
  BY AllReported DEF TypeInv
<1> QED
  BY <1>1, TypeInit, TypeStep, ReportsInit, ReportsStep, PTL DEF Spec
=============================================================================
