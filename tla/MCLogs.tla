------------------------------- MODULE MCLogs -------------------------------
(* Instances of Logs for TLC: what two clients did, and how each kind of    *)
(* server logs it.                                                          *)
EXTENDS Logs

Did1(session, time, duration, sql) == [session |-> session, time |-> time, duration |-> duration, sql |-> sql]
Work == << Did1(7, 1, 5, <<1>>), Did1(9, 2, 3, <<4, 50>>), Did1(7, 3, 5, <<5, 51, 4, 51, 50>>), Did1(9, 3, 0, <<1, 4>>),
           Did1(7, 5, 2, <<2>>), Did1(9, 6, 1, <<60>>), Did1(9, 8, 1, <<3>>), Did1(7, 9, 1, <<1>>) >>
OneClient == Each(Work, LAMBDA e : [e EXCEPT !.session = 1])
LaidOut == [k \in 1..3 |-> [OneClient[k] EXCEPT !.time = 5 * (k - 1) - (IF k = 3 THEN 2 ELSE 0)]]

Capturing(source, lines, work, mask, regular) ==
    [source |-> source, lines |-> lines, executed |-> work, mask |-> mask, regular |-> regular, log_files |-> << >>]
Flat(work, Lines(_)) == FlattenSeq(Each(work, Lines))

Csv(e, severity, keyword, sql, params) ==
    [type |-> "csv", severity |-> severity, keyword |-> keyword, session |-> e.session, time |-> e.time,
     duration |-> e.duration, sql |-> sql, params |-> params]
\* A statement of more than three tokens was prepared.
LinesCsv(e) ==
    IF Len(e.sql) < 4 THEN <<Csv(e, "LOG", "statement", e.sql, << >>), Csv(e, "ERROR", "statement", e.sql, << >>)>>
    ELSE LET params == << <<51>>, <<50>> >>
             sql == <<e.sql[1], -1, e.sql[3], -1, -2>>
         IN  << Csv(e, "LOG", "parse", sql, << >>), Csv(e, "LOG", "bind", sql, params), Csv(e, "LOG", "execute", sql, params) >>
CsvLines == Flat(Work, LinesCsv)
Rds == [Capturing("rds", CsvLines, Work, FALSE, TRUE) EXCEPT !.log_files =
          << <<4, << >>>>, <<9, << <<[k \in 1..6 |-> k], TRUE>>, <<[k \in 1..(Len(CsvLines) - 6) |-> k + 6], FALSE>> >> >>,
             <<2, << >>>> >>]
Cut == [Rds EXCEPT !.regular = FALSE, !.log_files = << <<1, << << <<1>>, FALSE>>, << <<2>>, TRUE>> >> >> >>]
NoLog == [Rds EXCEPT !.regular = FALSE, !.log_files = << >>]

Header == [type |-> "header"]
Sql(tokens) == [type |-> "sql", sql |-> tokens]
Time(t) == [type |-> "time", time |-> t]
LinesMysql(e) ==
    << Time(e.time), [type |-> "user", thread |-> e.session], [type |-> "query_time", duration |-> e.duration],
       [type |-> "set_timestamp", time |-> e.time], Sql(<<e.sql[1]>>) >>
    \o (IF Len(e.sql) > 1 THEN <<Sql(Tail(e.sql))>> ELSE << >>)
    \o (IF e.time = 3 THEN <<Header>> ELSE << >>)

Exec(cursor, e) == [type |-> "exec", cursor |-> cursor, time |-> e.time, duration |-> e.duration]
Parsing(cursor, sql, dep) == [type |-> "parsing", cursor |-> cursor, sql |-> sql, dep |-> dep]
Binds(cursor, values) == [type |-> "binds", cursor |-> cursor, values |-> values]
\* The server runs statements of its own below the client's.
LinesOracle(e) ==
    << Parsing(4, <<4, 5>>, 1), Exec(4, e) >>
    \o IF Len(e.sql) = 2 THEN << Parsing(2, <<e.sql[1], -1>>, 0), Binds(2, <<e.sql[2]>>), Exec(2, e) >>
       ELSE << Parsing(3, e.sql, 0), Exec(3, e) >>

Event(e, completed) ==
    [type |-> "event", completed |-> completed, session |-> e.session, time |-> e.time, duration |-> e.duration, sql |-> e.sql]
LinesMssql(e) == <<Event(e, FALSE), Event(e, TRUE)>>
LinesRow(e) == <<[type |-> "row", duration |-> e.duration, sql |-> e.sql], [type |-> "row", duration |-> 4, sql |-> << >>]>>

Regular ==
    { Capturing("pg-csv", CsvLines, Work, TRUE, TRUE), Rds,
      Capturing("mysql-slow", <<Header>> \o Flat(Work, LinesMysql), Work, FALSE, TRUE),
      Capturing("oracle-trace", Flat(OneClient, LinesOracle), OneClient, FALSE, TRUE),
      Capturing("mssql-trace", Flat(Work, LinesMssql), Work, FALSE, TRUE),
      Capturing("mssql-xevents", Flat(Work, LinesMssql), Work, TRUE, TRUE),
      Capturing("oracle-awr", Flat(LaidOut, LinesRow), LaidOut, FALSE, TRUE),
      Capturing("mssql-querystore", << >>, << >>, FALSE, TRUE) }
\* An empty line in a query, no time of its own, times that cannot be read, a line that is not one.
Irregular ==
    { Cut, NoLog,
      Capturing("mysql-slow", <<Sql(<<4>>), Header, Sql(<<5>>), [type |-> "set_timestamp", time |-> 3], Sql(<<4>>),
                                [type |-> "user", thread |-> 9], Sql(<<5>>), Time(0), Sql(<<1>>)>>, << >>, FALSE, FALSE),
      Capturing("pg-csv", <<Csv(Did1(7, 0, 1, <<4>>), "LOG", "statement", <<4>>, << >>), [type |-> "malformed"]>>, << >>, FALSE, FALSE),
      Capturing("mssql-trace", <<Event(Did1(9, 4, 1, <<4>>), TRUE), Event(Did1(9, 0, 1, <<5>>), TRUE)>>, << >>, FALSE, FALSE),
      Capturing("oracle-trace", <<Exec(5, Did1(1, 1, 1, << >>))>>, << >>, FALSE, FALSE) }
AllCaptures == Regular \cup Irregular
=============================================================================
