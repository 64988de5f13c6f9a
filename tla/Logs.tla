-------------------------------- MODULE Logs --------------------------------
(***************************************************************************)
(* pg-retest capture (main.rs cmd_capture, capture/): a log or an extract  *)
(* of a server becomes a profile, one parser per kind of source and one    *)
(* way to group what it found into sessions.                               *)
(*                                                                         *)
(* A statement is a sequence of tokens: BEGIN, COMMIT and ROLLBACK, other  *)
(* words, literals, and placeholders -1, -2, ... of prepared statements.   *)
(* A time that cannot be read is 0; some parsers put the clock for it.     *)
(***************************************************************************)
EXTENDS Integers, Scaling

CONSTANTS
    Captures,     \* what is captured, see LogsAssumption
    Begin, Commit, Rollback, \* tokens that begin a statement of that kind
    Literals,     \* tokens that are literals
    Untranslated, \* tokens of statements the dialect transform skips
    Clock         \* Utc::now, later than any time in a log

CsvSources == {"pg-csv", "rds"}
ServerSources == {"mssql-trace", "mssql-xevents"}
Extracts == {"oracle-awr", "mssql-querystore"}
Sources == CsvSources \cup ServerSources \cup Extracts \cup {"mysql-slow", "oracle-trace"}

ASSUME LogsAssumption ==
    /\ Literals \subseteq Nat /\ Untranslated \subseteq Nat
    /\ \A c \in Captures : c.source \in Sources /\ c.mask \in BOOLEAN /\ c.log_files \in Seq(Int \X Seq(Seq(Nat) \X BOOLEAN))

VARIABLES
    capture,     \* the arguments, and the lines of the log
    reading,     \* where the capture is
    portion, retried, \* of the download: the page asked for, and whether it failed before
    downloaded,  \* numbers of the lines of the temporary file
    at,          \* the next line
    parser,      \* what the parser remembers between lines
    entries,     \* the statements found: [session, time, duration, sql]
    captured     \* the profile, or << >>

logVars == <<capture, reading, portion, retried, downloaded, at, parser, entries, captured>>

NoParser == [time |-> 0, thread |-> 0, query_time |-> 0, sql |-> << >>, in_query |-> FALSE,
             cursors |-> << >>, binds |-> << >>, offset |-> 0]

LogsInit ==
    /\ capture \in Captures
    /\ reading = IF capture.source = "rds" THEN "list" ELSE "lines"
    /\ portion = 1 /\ retried = FALSE
    /\ downloaded = IF capture.source = "rds" THEN << >> ELSE [k \in DOMAIN capture.lines |-> k]
    /\ at = 1 /\ parser = NoParser /\ entries = << >> /\ captured = << >>

CaptureAborts ==
    /\ reading' = "error"
    /\ UNCHANGED <<capture, portion, retried, downloaded, at, parser, entries, captured>>

-----------------------------------------------------------------------------
(* rds: the latest file, page by page, each page asked for twice at most.  *)

\* max_by_key: of equal times the last.
select_latest_log_file ==
    CHOOSE f \in DOMAIN capture.log_files : \A g \in DOMAIN capture.log_files :
        \/ capture.log_files[g][1] < capture.log_files[f][1]
        \/ capture.log_files[g][1] = capture.log_files[f][1] /\ g <= f
Pages == capture.log_files[select_latest_log_file][2]

ListFiles ==
    /\ reading = "list"
    /\ \/ /\ capture.log_files # << >> /\ reading' = "download"
          /\ UNCHANGED <<capture, portion, retried, downloaded, at, parser, entries, captured>>
       \/ CaptureAborts

\* Data is pending when there is another page; an answer without a marker ends the download.
DownloadPortion ==
    /\ reading = "download"
    /\ downloaded' = downloaded \o Pages[portion][1]
    /\ retried' = FALSE
    /\ IF portion < Len(Pages) /\ Pages[portion][2]
       THEN portion' = portion + 1 /\ UNCHANGED reading
       ELSE reading' = "lines" /\ UNCHANGED portion
    /\ UNCHANGED <<capture, at, parser, entries, captured>>

PortionFails ==
    /\ reading = "download"
    /\ IF retried THEN CaptureAborts
       ELSE retried' = TRUE /\ UNCHANGED <<capture, reading, portion, downloaded, at, parser, entries, captured>>

-----------------------------------------------------------------------------
Line == capture.lines[downloaded[at]]
Reads(sources, type) ==
    /\ reading = "lines" /\ at <= Len(downloaded) /\ capture.source \in sources
    /\ Line.type = type
    /\ at' = at + 1
    /\ UNCHANGED <<capture, reading, portion, retried, downloaded, captured>>
Found(session, time, duration, sql) ==
    entries' = Append(entries, [session |-> session, time |-> time, duration |-> duration, sql |-> sql])

\* What is written for a placeholder; str::replace takes every occurrence.
Replaced(sql, k, value) ==
    FlattenSeq(Each(sql, LAMBDA token : IF token = -k THEN value ELSE <<token>>))
\* The highest number first, so that $1 is not found in $10.
inline_parameters(sql, params) ==
    FoldLeft(LAMBDA text, k : Replaced(text, k, params[k]), sql, Reverse([k \in DOMAIN params |-> k]))

\* Mutant: bind is logged too, with the same statement.
executed_or_bound == {"statement", "execute", "bind"}
executed == {"statement", "execute"}

\* A line that logs a duration; parse and bind of a prepared statement have one of their own.
CsvRecord ==
    /\ Reads(CsvSources, "csv")
    /\ IF Line.severity = "LOG" /\ Line.keyword \in executed /\ Line.sql # << >>
       THEN Found(Line.session, IF Line.time = 0 THEN Clock ELSE Line.time, Line.duration,
                  inline_parameters(Line.sql, Line.params))
       ELSE UNCHANGED entries
    /\ UNCHANGED parser

-----------------------------------------------------------------------------
(* mysql-slow: comment lines say whose the SQL lines that follow are.      *)
Flush ==
    IF parser.in_query /\ parser.sql # << >>
    THEN Found(parser.thread, IF parser.time = 0 THEN Clock ELSE parser.time, parser.query_time, parser.sql)
    ELSE UNCHANGED entries
Flushed == IF parser.in_query /\ parser.sql # << >> THEN [parser EXCEPT !.sql = << >>, !.in_query = FALSE] ELSE parser

\* An empty line, or one of the header the server writes when it starts.
MysqlHeader == Reads({"mysql-slow"}, "header") /\ Flush /\ parser' = Flushed
MysqlTime == Reads({"mysql-slow"}, "time") /\ Flush /\ parser' = [Flushed EXCEPT !.time = Line.time]
MysqlUser == Reads({"mysql-slow"}, "user") /\ parser' = [parser EXCEPT !.thread = Line.thread] /\ UNCHANGED entries
MysqlQueryTime ==
    Reads({"mysql-slow"}, "query_time") /\ parser' = [parser EXCEPT !.query_time = Line.duration] /\ UNCHANGED entries
MysqlSetTimestamp ==
    /\ Reads({"mysql-slow"}, "set_timestamp")
    /\ parser' = [parser EXCEPT !.time = IF @ = 0 THEN Line.time ELSE @, !.in_query = TRUE]
    /\ UNCHANGED entries
MysqlSql ==
    Reads({"mysql-slow"}, "sql") /\ parser' = [parser EXCEPT !.sql = @ \o Line.sql, !.in_query = TRUE] /\ UNCHANGED entries

-----------------------------------------------------------------------------
(* oracle-trace: a cursor is parsed, bound and executed.                   *)
Known(map, cursor) == cursor \in DOMAIN map
With(map, cursor, value) == [c \in DOMAIN map \cup {cursor} |-> IF c = cursor THEN value ELSE map[c]]

OracleParsing ==
    /\ Reads({"oracle-trace"}, "parsing")
    /\ parser' = [parser EXCEPT !.cursors = With(@, Line.cursor, [sql |-> Line.sql, dep |-> Line.dep])]
    /\ UNCHANGED entries
OracleBinds ==
    Reads({"oracle-trace"}, "binds") /\ parser' = [parser EXCEPT !.binds = With(@, Line.cursor, Line.values)] /\ UNCHANGED entries

\* The placeholders in their order take the values in theirs, surplus ones stay.
substitute_binds(sql, vals) ==
    LET nth(k) == Cardinality({j \in 1..k : sql[j] < 0}) IN
    [k \in DOMAIN sql |-> IF sql[k] < 0 /\ nth(k) <= Len(vals) THEN vals[nth(k)] ELSE sql[k]]

\* Only what a client executed, not what the server did for it.
OracleExec ==
    /\ Reads({"oracle-trace"}, "exec")
    /\ IF Known(parser.cursors, Line.cursor) /\ parser.cursors[Line.cursor].dep = 0 /\ parser.cursors[Line.cursor].sql # << >>
       THEN LET sql == parser.cursors[Line.cursor].sql IN
            Found(1, Line.time, Line.duration,
                  IF Known(parser.binds, Line.cursor) THEN substitute_binds(sql, parser.binds[Line.cursor]) ELSE sql)
       ELSE UNCHANGED entries
    /\ UNCHANGED parser

-----------------------------------------------------------------------------
(* SQL Server events, and the extracts without times or sessions.          *)
MssqlEvent ==
    /\ Reads(ServerSources, "event")
    /\ IF Line.completed /\ Line.sql # << >>
       THEN Found(Line.session, Line.time, Line.duration, Line.sql)
       ELSE UNCHANGED entries
    /\ UNCHANGED parser

\* One after the other, each as long as it takes and at least 1.
ExtractRow ==
    /\ Reads(Extracts, "row")
    /\ IF Line.sql = << >> THEN UNCHANGED <<entries, parser>>
       ELSE /\ Found(1, parser.offset, Line.duration, Line.sql)
            /\ parser' = [parser EXCEPT !.offset = @ + IF Line.duration = 0 THEN 1 ELSE Line.duration]

MalformedLine == reading = "lines" /\ at <= Len(downloaded) /\ Line.type = "malformed" /\ CaptureAborts

-----------------------------------------------------------------------------
from_sql(sql) ==
    CASE sql[1] = Begin -> "Begin" [] sql[1] = Commit -> "Commit" [] sql[1] = Rollback -> "Rollback" [] OTHER -> "Other"

\* A BEGIN takes the next id, which lasts to the COMMIT or ROLLBACK; 0 is None.
assign_transaction_ids(queries, next_txn_id) ==
    FoldLeft(LAMBDA acc, q :
        LET id == IF q.kind = "Begin" THEN acc.next ELSE acc.current IN
        [next |-> IF q.kind = "Begin" THEN acc.next + 1 ELSE acc.next,
         current |-> IF q.kind \in {"Commit", "Rollback"} THEN 0 ELSE id,
         queries |-> Append(acc.queries, [q EXCEPT !.transaction_id = id])],
        [next |-> next_txn_id, current |-> 0, queries |-> << >>], queries)

Transforms == capture.source = "mysql-slow"
Skipped(sql) == Transforms /\ \E k \in DOMAIN sql : sql[k] \in Untranslated

\* saturating_sub for Oracle, where 0 is a time; the other parsers sort first, a time that was not read being the least.
Offset(entry, first) ==
    IF entry.time <= first.time \/ (first.time = 0 /\ capture.source # "oracle-trace") THEN 0 ELSE entry.time - first.time
Queries(members) ==
    Each(SelectSeq(members, LAMBDA e : ~Skipped(e.sql)), LAMBDA e :
        [sql |-> e.sql, kind |-> from_sql(e.sql), duration_us |-> e.duration, transaction_id |-> 0,
         start_offset_us |-> IF capture.source \in Extracts THEN e.time ELSE Offset(e, members[1])])
InOrder(members) ==
    IF capture.source \in Extracts \cup {"oracle-trace"} THEN members ELSE SortByKey(members, LAMBDA e : e.time)
Members(key) == InOrder(SelectSeq(entries, LAMBDA e : e.session = key))

\* order: how the HashMap of sessions iterates, which also numbers transactions, and PostgreSQL's sessions.
SessionsFrom(order) ==
    FoldLeft(LAMBDA acc, key :
        LET assigned == assign_transaction_ids(Queries(Members(key)), acc.next)
            id == IF capture.source \in CsvSources THEN Len(acc.sessions) + 1 ELSE key
        IN  [next |-> assigned.next,
             sessions |-> IF assigned.queries = << >> THEN acc.sessions
                          ELSE Append(acc.sessions, [id |-> id, queries |-> assigned.queries])],
        [next |-> 1, sessions |-> << >>], order).sessions

SessionKeys == {entries[k].session : k \in DOMAIN entries}
Span == LET times == {entries[k].time : k \in DOMAIN entries} \ {0}
        IN  IF times = {} THEN 0
            ELSE (CHOOSE t \in times : \A u \in times : u <= t) - (CHOOSE t \in times : \A u \in times : t <= u)
Duration == IF capture.source \in Extracts THEN parser.offset
            ELSE IF capture.source = "oracle-trace"
                 THEN IF entries = << >> THEN 0
                      ELSE Offset(entries[Len(entries)], entries[1]) + entries[Len(entries)].duration
                 ELSE Span

MaskCapture(sql) == Each(sql, LAMBDA token : IF token \in Literals THEN 0 ELSE token)
Masked(sessions) ==
    IF ~capture.mask THEN sessions
    ELSE Each(sessions, LAMBDA s : [s EXCEPT !.queries = Each(@, LAMBDA q : [q EXCEPT !.sql = MaskCapture(q.sql)])])

\* At the end of the log the last query of mysql-slow is still to be flushed.
EndOfLog ==
    /\ reading = "lines" /\ at > Len(downloaded)
    /\ Flush /\ parser' = Flushed
    /\ reading' = "build"
    /\ UNCHANGED <<capture, portion, retried, downloaded, at, captured>>

BuildProfile ==
    /\ reading = "build"
    /\ \E order \in SetToSeqs(SessionKeys) :
        LET sessions == SortByKey(SessionsFrom(order), LAMBDA s : IF capture.source \in ServerSources THEN s.id ELSE FirstOffset(s))
        IN  captured' = [sessions |-> Masked(sessions), total_sessions |-> Len(sessions),
                         total_queries |-> Total(Each(sessions, LAMBDA s : Len(s.queries))),
                         capture_duration_us |-> Duration]
    /\ reading' = "done"
    /\ UNCHANGED <<capture, portion, retried, downloaded, at, parser, entries>>

LogsEnd == reading \in {"done", "error"} /\ UNCHANGED logVars

LogsNext ==
    \/ ListFiles \/ DownloadPortion \/ PortionFails
    \/ CsvRecord \/ MysqlHeader \/ MysqlTime \/ MysqlUser \/ MysqlQueryTime \/ MysqlSetTimestamp \/ MysqlSql
    \/ OracleParsing \/ OracleBinds \/ OracleExec \/ MssqlEvent \/ ExtractRow \/ MalformedLine
    \/ EndOfLog \/ BuildProfile
    \/ LogsEnd

LogsSpec == LogsInit /\ [][LogsNext]_logVars

-----------------------------------------------------------------------------
(***************************************************************************)
(* Properties.  capture.executed is what the clients of the server did:    *)
(* the log was printed from it, and printed regularly when capture.regular.*)
(***************************************************************************)
Did(key) == SortByKey(SelectSeq(capture.executed, LAMBDA e : e.session = key), LAMBDA e : e.time)
Kept(key) == SelectSeq(Did(key), LAMBDA e : ~Skipped(e.sql))
LogText(sql) == IF capture.mask THEN MaskCapture(sql) ELSE sql
SameAs(session, key) ==
    /\ Len(session.queries) = Len(Kept(key))
    /\ \A k \in DOMAIN session.queries :
        /\ session.queries[k].sql = LogText(Kept(key)[k].sql)
        /\ session.queries[k].duration_us = Kept(key)[k].duration
        /\ session.queries[k].start_offset_us = Kept(key)[k].time - Did(key)[1].time
Clients == {key \in {capture.executed[k].session : k \in DOMAIN capture.executed} : Kept(key) # << >>}
\* The BEGIN a query of the session comes after, with no end between.
Opener(session, k) ==
    {b \in 1..k : /\ session.queries[b].kind = "Begin"
                  /\ \A j \in b..(k - 1) : session.queries[j].kind \notin {"Commit", "Rollback"}
                  /\ \A j \in (b + 1)..k : session.queries[j].kind # "Begin"}
TransactionsRight(sessions) ==
    \A s, t \in DOMAIN sessions : \A j \in DOMAIN sessions[s].queries, k \in DOMAIN sessions[t].queries :
        LET a == sessions[s].queries[j].transaction_id
            b == sessions[t].queries[k].transaction_id
        IN  a = b /\ a # 0 <=> s = t /\ Opener(sessions[s], j) = Opener(sessions[t], k) /\ Opener(sessions[s], j) # {}

\* A capture contains what the clients executed, each statement once and with its parameters, in one
\* session for each of theirs (all in one for Oracle and the extracts), in order, at its time after the
\* session's first; only statements the dialect transform skips are missing.  Its transaction ids
\* are one per BEGIN block over all sessions.
CaptureRight ==
    reading = "done" /\ capture.regular =>
        /\ captured.total_sessions = Cardinality(Clients) /\ captured.total_sessions = Len(captured.sessions)
        /\ Cardinality({captured.sessions[s].id : s \in DOMAIN captured.sessions}) = captured.total_sessions
        /\ \A key \in Clients : \E s \in DOMAIN captured.sessions : SameAs(captured.sessions[s], key)
        /\ captured.total_queries = Len(FlattenSeq(Each(SetToSeq(Clients), Kept)))
        /\ TransactionsRight(captured.sessions)
=============================================================================
