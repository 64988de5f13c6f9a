----------------------------- MODULE Collector -----------------------------
(***************************************************************************)
(* What run_collector (src/proxy/capture.rs) does to the state of one      *)
(* session with one CaptureEvent.  SQL text is a statement identifier, and *)
(* the rows of a RETURNING clause are a sequence of whatever identifies    *)
(* them; timestamps are left out.                                          *)
(***************************************************************************)
EXTENDS Naturals, Sequences

CONSTANT NoSql   \* pending_sql is None

QueryStart(sql) == [type |-> "QueryStart", sql |-> sql]
QueryComplete == [type |-> "QueryComplete"]
QueryError == [type |-> "QueryError"]
QueryReturning(rows) == [type |-> "QueryReturning", rows |-> rows]
SessionEnd == [type |-> "SessionEnd"]

\* SessionStart, or the entry a late-joining session gets from QueryStart.
NewSession == [queries |-> <<>>, pending_sql |-> NoSql]

\* pending_sql.take(), then push: nothing happens when nothing is pending.
Finish(st, is_error) ==
    IF st.pending_sql = NoSql THEN st
    ELSE [queries |-> Append(st.queries,
                       [sql |-> st.pending_sql, is_error |-> is_error,
                        response_values |-> <<>>]),
          pending_sql |-> NoSql]

\* Attach to the most recent query for this session.
Attach(st, rows) ==
    IF st.queries = <<>> THEN st
    ELSE [st EXCEPT !.queries[Len(st.queries)].response_values = rows]

Collect(st, e) ==
    CASE e.type = "QueryStart"     -> [st EXCEPT !.pending_sql = e.sql]
      [] e.type = "QueryComplete"  -> Finish(st, FALSE)
      [] e.type = "QueryError"     -> Finish(st, TRUE)
      [] e.type = "QueryReturning" -> Attach(st, e.rows)
      [] e.type = "SessionEnd"     -> st
=============================================================================
