------------------------------- MODULE Relay -------------------------------
(***************************************************************************)
(* One proxied session: the two relay tasks of src/proxy/connection.rs,    *)
(* relay_client_to_server (c2s) and relay_server_to_client (s2c), the      *)
(* state they share (CorrelateState, stmt_cache, stmt_oids,                *)
(* pending_describe, no_capture), the client, the PostgreSQL server, and   *)
(* what the collector makes of the events.                                 *)
(*                                                                         *)
(* One action is what a task does between two await points at which the    *)
(* other task can see a difference.  Messages are [type, stmt] records: the*)
(* letter of the protocol and the statement it belongs to ("Ex" is the     *)
(* client's Execute, "E" the server's ErrorResponse).  The collector reads *)
(* an unbounded FIFO channel with one writer order, so its state is        *)
(* advanced as the events are sent.                                        *)
(***************************************************************************)
EXTENDS Naturals, Sequences, FiniteSets, SequencesExt

CONSTANTS
    Stmts,        \* texts a client can send
    kind,         \* what each of them is
    Names, name,  \* prepared statements, and the one a Parse of a text defines
    Declared,     \* texts whose Parse declares parameter types
    Setups,       \* clients and proxy options to consider
    MaxRows,      \* MAX_RETURNING_ROWS
    None

\* "empty" is a text without a statement, "several" one with two of them, the
\* first with a RETURNING clause.
OneStatement == {"select", "write", "insert", "returning", "currval"}
Kinds == OneStatement \cup {"copy", "empty", "several"}

ASSUME KindAssumption == kind \in [Stmts -> Kinds]
ASSUME NameAssumption == name \in [Stmts -> Names] /\ Declared \subseteq Stmts
ASSUME RelayAssumption == MaxRows \in Nat \ {0} /\ None \notin Stmts \cup Names

ClientTypes == {"Q", "c", "P", "B", "D", "Ex", "S"}
ServerTypes == {"1", "2", "t", "n", "T", "D", "C", "I", "E", "G", "Z"}
ToServer == [type : ClientTypes, stmt : Stmts, injected : BOOLEAN]
FromServer == [type : ServerTypes, stmt : Stmts, injected : {FALSE}]

\* A simple query or the end of its data, or messages of the extended protocol
\* up to a Sync, where COPY and several statements in one text cannot occur.
Request(r) ==
    /\ r # <<>> /\ \A i \in DOMAIN r : ~r[i].injected
    /\ \/ Len(r) = 1 /\ r[1].type \in {"Q", "c"}
       \/ /\ r[Len(r)].type = "S"
          /\ \A i \in 1 .. Len(r) - 1 : r[i].type \in {"P", "B", "D", "Ex"} /\ kind[r[i].stmt] \notin {"copy", "several"}

ASSUME ScriptAssumption ==
    \A u \in Setups :
        /\ u.script \in Seq(Seq(ToServer)) /\ \A i \in DOMAIN u.script : Request(u.script[i])
        /\ {u.window, u.toggles} \subseteq Nat
        /\ {u.errors, u.correlate, u.implicit, u.stealth} \subseteq BOOLEAN

\* A setup is a record of
\*   script     the client's requests, each a sequence of messages,
\*   window     how many of them it sends without waiting for an answer,
\*   errors     may the server answer with an error?
\*   correlate  --id-mode correlate or full: CorrelateState exists,
\*   implicit   --id-capture-implicit,
\*   stealth    not --no-stealth,
\*   toggles    how often capture is switched off or on.
\* It is chosen in Init and never changes.
VARIABLES
    setup,
    script, outstanding, received,        \* client
    to_proxy, to_server,                  \* client -> c2s -> server
    skipping, served, replied,            \* server
    from_server,                          \* server -> s2c
    client_buf, to_client,                \* s2c's BufWriter, and the wire
    c2s, s2c,                             \* [pc, msg] of the two tasks
    returning_queue, pending_columns, pending_rows, suppress_response,
    stmt_cache, stmt_oids, pending_describe,
    no_capture, toggles,
    capture                               \* the collector's session state

clientVars == <<script, outstanding, received>>
serverVars == <<skipping, served, replied>>
correlateVars ==
    <<returning_queue, pending_columns, pending_rows, suppress_response>>
stmtVars == <<stmt_cache, stmt_oids, pending_describe>>
toggleVars == <<no_capture, toggles, setup>>
wires == <<to_proxy, to_server, from_server, client_buf, to_client>>
vars == <<clientVars, serverVars, wires, c2s, s2c, correlateVars, stmtVars,
          toggleVars, capture>>

C == INSTANCE Collector WITH NoSql <- None

Msg(t, s) == [type |-> t, stmt |-> s, injected |-> FALSE]

Idle == [pc |-> "read", msg |-> None]

Init ==
    /\ setup \in Setups
    /\ script = setup.script /\ outstanding = 0 /\ received = <<>>
    /\ to_proxy = <<>> /\ to_server = <<>>
    /\ skipping = FALSE /\ served = <<>> /\ replied = <<>>
    /\ from_server = <<>> /\ client_buf = <<>> /\ to_client = <<>>
    /\ c2s = Idle /\ s2c = Idle
    /\ returning_queue = <<>> /\ pending_columns = None /\ pending_rows = <<>>
    /\ suppress_response = FALSE
    /\ stmt_cache = [n \in Names |-> None] /\ stmt_oids = [n \in Names |-> None]
    /\ pending_describe = None
    /\ no_capture = FALSE /\ toggles = 0
    /\ capture = C!NewSession

Emit(e) == capture' = C!Collect(capture, e)

-----------------------------------------------------------------------------
(***************************************************************************)
(* The client sends its requests in order, at most `window` of them ahead of *)
(* the answers.  An answer ends with ReadyForQuery, or with CopyInResponse *)
(* when the client has to continue with the data.                          *)
(***************************************************************************)
ClientSend ==
    /\ script # <<>>
    /\ outstanding < setup.window
    /\ to_proxy' = to_proxy \o Head(script)
    /\ script' = Tail(script)
    /\ outstanding' = outstanding + 1
    /\ UNCHANGED <<received, to_server, from_server, client_buf, to_client,
                   serverVars, c2s, s2c, correlateVars, stmtVars, toggleVars, capture>>

ClientReceive ==
    /\ to_client # <<>>
    /\ received' = Append(received, Head(to_client))
    /\ to_client' = Tail(to_client)
    /\ outstanding' = IF Head(to_client).type \in {"Z", "G"}
                        THEN outstanding - 1 ELSE outstanding
    /\ UNCHANGED <<script, to_proxy, to_server, from_server, client_buf,
                   serverVars, c2s, s2c, correlateVars, stmtVars, toggleVars, capture>>

-----------------------------------------------------------------------------
(***************************************************************************)
(* The server answers messages in order; after an error in the extended    *)
(* protocol it discards messages until Sync.  A text without a statement   *)
(* gets an EmptyQueryResponse and no CommandComplete, one with several a   *)
(* CommandComplete for each, and it can fail in any of them.               *)
(***************************************************************************)
Rows(m) == \/ kind[m.stmt] \in {"select", "returning", "currval"}
           \/ kind[m.stmt] = "insert" /\ m.injected

Success(m) ==
    IF m.type \in {"Q", "Ex"} /\ kind[m.stmt] = "copy" THEN <<"G">> ELSE
    IF m.type \in {"Q", "Ex"} /\ kind[m.stmt] = "empty"
    THEN IF m.type = "Q" THEN <<"I", "Z">> ELSE <<"I">> ELSE
    IF m.type = "Q" /\ kind[m.stmt] = "several" THEN <<"T", "D", "C", "C", "Z">> ELSE
    CASE m.type = "Q" -> IF Rows(m) THEN <<"T", "D", "D", "C", "Z">> ELSE <<"C", "Z">>
      [] m.type = "c" -> <<"C", "Z">>
      [] m.type = "P" -> <<"1">>
      [] m.type = "B" -> <<"2">>
      [] m.type = "D" -> IF Rows(m) THEN <<"t", "T">> ELSE <<"t", "n">>
      [] m.type = "Ex" -> IF Rows(m) THEN <<"D", "D", "C">> ELSE <<"C">>
      [] m.type = "S" -> <<"Z">>

Failures(m) ==
    IF m.type \notin {"Q", "c"} THEN {<<"E">>}
    ELSE {<<"E", "Z">>} \cup
         (IF kind[m.stmt] = "several" THEN {<<"T", "D", "C", "E", "Z">>} ELSE {})

\* A COPY is executed with the end of its data.
Executing(m) == m.type = "c" \/ (m.type \in {"Q", "Ex"} /\ kind[m.stmt] # "copy")

\* What became of each statement, in the order they came.
Outcome(m, success, with_rows) ==
    served' = IF Executing(m)
              THEN Append(served, [stmt |-> m.stmt, ok |-> success, rows |-> with_rows])
              ELSE served

Answer(m, types, success) ==
    LET r == [i \in 1 .. Len(types) |-> Msg(types[i], m.stmt)] IN
    /\ from_server' = from_server \o r
    /\ replied' = replied \o r
    /\ Outcome(m, success, Contains(types, "D"))

Server ==
    /\ to_server # <<>>
    /\ LET m == Head(to_server) IN
         \/ /\ skipping /\ m.type # "S"
            /\ Outcome(m, FALSE, FALSE)
            /\ UNCHANGED <<skipping, replied, from_server>>
         \/ /\ ~skipping \/ m.type = "S"
            /\ Answer(m, Success(m), TRUE)
            /\ skipping' = FALSE
         \/ /\ setup.errors /\ ~skipping /\ m.type # "S" /\ Success(m) # <<"G">>
            /\ \E types \in Failures(m) : Answer(m, types, FALSE)
            /\ skipping' = (m.type \notin {"Q", "c"})
    /\ to_server' = Tail(to_server)
    /\ UNCHANGED <<clientVars, to_proxy, client_buf, to_client, c2s, s2c,
                   correlateVars, stmtVars, toggleVars, capture>>

-----------------------------------------------------------------------------
(***************************************************************************)
(* relay_client_to_server.                                                 *)
(***************************************************************************)
\* inject_returning rewrites a bare INSERT into a table whose key is known.
Injects(s) == setup.implicit /\ kind[s] = "insert"

\* has_returning, of the text as a whole, and currval/lastval when implicit
\* capture is on.
has_ret(s) == kind[s] \in {"returning", "several"} \/ (setup.implicit /\ kind[s] = "currval")

Push(b) == returning_queue' = IF setup.correlate THEN Append(returning_queue, b)
                              ELSE returning_queue

\* Without capture a message is forwarded all the same; the slip: dropping it.
untracked_dropped == "read"
untracked == "write"

\* Read a message and, unless no_capture, look at it: the flag is loaded once.
C2SRead ==
    /\ c2s.pc = "read" /\ to_proxy # <<>>
    /\ LET m == Head(to_proxy) IN
         c2s' = [msg |-> m,
                 pc |-> IF no_capture THEN untracked
                        ELSE IF m.type \notin {"Q", "P", "B", "D"} THEN "write"
                        ELSE IF m.type = "Q" /\ Injects(m.stmt) THEN "rewrite" ELSE m.type]
    /\ to_proxy' = Tail(to_proxy)
    /\ UNCHANGED <<clientVars, serverVars, to_server, from_server, client_buf,
                   to_client, s2c, correlateVars, stmtVars, toggleVars, capture>>

\* The rewritten INSERT is on the wire before anything is recorded about it.
C2SRewrite ==
    /\ c2s.pc = "rewrite"
    /\ to_server' = Append(to_server, [c2s.msg EXCEPT !.injected = TRUE])
    /\ c2s' = [c2s EXCEPT !.pc = "rewritten"]
    /\ UNCHANGED <<clientVars, serverVars, to_proxy, from_server, client_buf,
                   to_client, s2c, correlateVars, stmtVars, toggleVars, capture>>

C2SPushInjected ==
    /\ c2s.pc = "rewritten"
    /\ Push(TRUE)
    /\ c2s' = [c2s EXCEPT !.pc = "pushed"]
    /\ UNCHANGED <<clientVars, serverVars, wires, s2c, pending_columns,
                   pending_rows, suppress_response, stmtVars, toggleVars, capture>>

\* `continue`; the slip: without it the original INSERT is sent as well.
after_injection_falls_through == "write"
after_injection == "read"

C2SSuppress ==
    /\ c2s.pc = "pushed"
    /\ suppress_response' = (suppress_response \/ (setup.correlate /\ setup.stealth))
    /\ Emit(C!QueryStart(c2s.msg.stmt))
    /\ c2s' = [c2s EXCEPT !.pc = after_injection]
    /\ UNCHANGED <<clientVars, serverVars, wires, s2c, returning_queue,
                   pending_columns, pending_rows, stmtVars, toggleVars>>

\* A simple query that is not rewritten.
C2SQuery ==
    /\ c2s.pc = "Q"
    /\ Push(has_ret(c2s.msg.stmt))
    /\ Emit(C!QueryStart(c2s.msg.stmt))
    /\ c2s' = [c2s EXCEPT !.pc = "write"]
    /\ UNCHANGED <<clientVars, serverVars, wires, s2c, pending_columns,
                   pending_rows, suppress_response, stmtVars, toggleVars>>

\* Parse.  An INSERT that could be injected counts as RETURNING although the
\* extended protocol never rewrites it.  A name that is parsed again gets the
\* new text, but it keeps the types of the old one unless the client declares
\* some.
C2SParse ==
    /\ c2s.pc = "P"
    /\ LET s == c2s.msg.stmt IN
         /\ Push(has_ret(s) \/ Injects(s))
         /\ stmt_cache' = [stmt_cache EXCEPT ![name[s]] = s]
         /\ stmt_oids' = IF s \in Declared THEN [stmt_oids EXCEPT ![name[s]] = s]
                         ELSE stmt_oids
    /\ c2s' = [c2s EXCEPT !.pc = "write"]
    /\ UNCHANGED <<clientVars, serverVars, wires, s2c, pending_columns,
                   pending_rows, suppress_response, pending_describe,
                   toggleVars, capture>>

\* *pending = Some(name); the slip: keeping a name that is already there.
described_first(s) == IF pending_describe = None THEN name[s] ELSE pending_describe
described(s) == name[s]

C2SDescribe ==
    /\ c2s.pc = "D"
    /\ pending_describe' = described(c2s.msg.stmt)
    /\ c2s' = [c2s EXCEPT !.pc = "write"]
    /\ UNCHANGED <<clientVars, serverVars, wires, s2c, correlateVars,
                   stmt_cache, stmt_oids, toggleVars, capture>>

C2SBind ==
    /\ c2s.pc = "B"
    /\ LET cached == stmt_cache[name[c2s.msg.stmt]] IN
         IF cached # None THEN Emit(C!QueryStart(cached)) ELSE UNCHANGED capture
    /\ c2s' = [c2s EXCEPT !.pc = "write"]
    /\ UNCHANGED <<clientVars, serverVars, wires, s2c, correlateVars, stmtVars,
                   toggleVars>>

C2SWrite ==
    /\ c2s.pc = "write"
    /\ to_server' = Append(to_server, c2s.msg)
    /\ c2s' = Idle
    /\ UNCHANGED <<clientVars, serverVars, to_proxy, from_server, client_buf,
                   to_client, s2c, correlateVars, stmtVars, toggleVars, capture>>

-----------------------------------------------------------------------------
(***************************************************************************)
(* relay_server_to_client.                                                 *)
(***************************************************************************)
Due(q) == q # <<>> /\ Head(q)

\* pop_front; the slip: front.
peeked(q) == q
Rest(q) == IF q = <<>> THEN q ELSE Tail(q)

\* Read a message; without capture it goes straight to forwarding.
S2CRead ==
    /\ s2c.pc = "read" /\ from_server # <<>>
    /\ LET m == Head(from_server) IN
         s2c' = [msg |-> m,
                 pc |-> IF no_capture \/ m.type \notin {"t", "T", "D", "C", "E"}
                          THEN "forward" ELSE m.type]
    /\ from_server' = Tail(from_server)
    /\ UNCHANGED <<clientVars, serverVars, to_proxy, to_server, client_buf,
                   to_client, c2s, correlateVars, stmtVars, toggleVars, capture>>

\* ParameterDescription: the OIDs go to the statement described last.
S2CParameterDescription ==
    /\ s2c.pc = "t"
    /\ stmt_oids' = IF pending_describe = None THEN stmt_oids
                    ELSE [stmt_oids EXCEPT ![pending_describe] = s2c.msg.stmt]
    /\ pending_describe' = None
    /\ s2c' = [s2c EXCEPT !.pc = "forward"]
    /\ UNCHANGED <<clientVars, serverVars, wires, c2s, correlateVars, stmt_cache,
                   toggleVars, capture>>

S2CRowDescription ==
    /\ s2c.pc = "T"
    /\ IF Due(returning_queue)
         THEN pending_columns' = s2c.msg.stmt /\ pending_rows' = <<>>
         ELSE UNCHANGED <<pending_columns, pending_rows>>
    /\ s2c' = [s2c EXCEPT !.pc = "forward"]
    /\ UNCHANGED <<clientVars, serverVars, wires, c2s, returning_queue,
                   suppress_response, stmtVars, toggleVars, capture>>

\* rows.len() < MAX_RETURNING_ROWS; the slip: off by one.
has_space_inclusive(rows) == Len(rows) <= MaxRows
HasSpace(rows) == Len(rows) < MaxRows

S2CDataRow ==
    /\ s2c.pc = "D"
    /\ pending_rows' = IF pending_columns # None /\ HasSpace(pending_rows)
                         THEN Append(pending_rows, s2c.msg.stmt) ELSE pending_rows
    /\ s2c' = [s2c EXCEPT !.pc = "forward"]
    /\ UNCHANGED <<clientVars, serverVars, wires, c2s, returning_queue,
                   pending_columns, suppress_response, stmtVars, toggleVars, capture>>

S2CComplete ==
    /\ s2c.pc = "C"
    /\ Emit(C!QueryComplete)
    /\ s2c' = [s2c EXCEPT !.pc = "pop"]
    /\ UNCHANGED <<clientVars, serverVars, wires, c2s, correlateVars, stmtVars,
                   toggleVars>>

S2CPop ==
    /\ s2c.pc = "pop"
    /\ returning_queue' = Rest(returning_queue)
    /\ IF Due(returning_queue)
         THEN /\ pending_columns' = None /\ pending_rows' = <<>>
              /\ IF pending_rows # <<>> THEN Emit(C!QueryReturning(pending_rows))
                                        ELSE UNCHANGED capture
         ELSE UNCHANGED <<pending_columns, pending_rows, capture>>
    /\ s2c' = [s2c EXCEPT !.pc = "forward"]
    /\ UNCHANGED <<clientVars, serverVars, wires, c2s, suppress_response,
                   stmtVars, toggleVars>>

S2CError ==
    /\ s2c.pc = "E"
    /\ returning_queue' = Rest(returning_queue)
    /\ pending_columns' = None /\ pending_rows' = <<>>
    /\ suppress_response' = FALSE
    /\ Emit(C!QueryError)
    /\ s2c' = [s2c EXCEPT !.pc = "forward"]
    /\ UNCHANGED <<clientVars, serverVars, wires, c2s, stmtVars, toggleVars>>

\* The slip: hiding the CommandComplete as well.
suppressed_complete(t) == suppress_response /\ t \in {"T", "D", "C"}
Suppressed(t) == suppress_response /\ t \in {"T", "D"}

\* The buffer reaches the wire on ReadyForQuery only; the slip: on
\* CommandComplete.
flushes_complete(t) == t = "C"
Flushes(t) == t = "Z"

S2CForward ==
    /\ s2c.pc = "forward"
    /\ LET m == s2c.msg IN
       /\ suppress_response' = (suppress_response /\ m.type # "C")
       /\ IF Suppressed(m.type) THEN UNCHANGED <<client_buf, to_client>>
          ELSE IF Flushes(m.type)
          THEN /\ to_client' = to_client \o Append(client_buf, m)
               /\ client_buf' = <<>>
          ELSE client_buf' = Append(client_buf, m) /\ UNCHANGED to_client
    /\ s2c' = Idle
    /\ UNCHANGED <<clientVars, serverVars, to_proxy, to_server, from_server, c2s,
                   returning_queue, pending_columns, pending_rows, stmtVars,
                   toggleVars, capture>>

\* A BufWriter that fills up writes its contents out.
BufferFull ==
    /\ client_buf # <<>>
    /\ to_client' = to_client \o client_buf
    /\ client_buf' = <<>>
    /\ UNCHANGED <<clientVars, serverVars, to_proxy, to_server, from_server, c2s,
                   s2c, correlateVars, stmtVars, toggleVars, capture>>

-----------------------------------------------------------------------------
\* The web toggle or the control endpoint flips the flag at any time.
Toggle ==
    /\ toggles < setup.toggles
    /\ toggles' = toggles + 1
    /\ no_capture' = ~no_capture
    /\ UNCHANGED <<setup, clientVars, serverVars, wires, c2s, s2c, correlateVars,
                   stmtVars, capture>>

C2S == \/ C2SRead \/ C2SRewrite \/ C2SPushInjected \/ C2SSuppress \/ C2SQuery
       \/ C2SParse \/ C2SDescribe \/ C2SBind \/ C2SWrite

S2C == \/ S2CRead \/ S2CParameterDescription \/ S2CRowDescription \/ S2CDataRow
       \/ S2CComplete \/ S2CPop \/ S2CError \/ S2CForward

Next == ClientSend \/ ClientReceive \/ Server \/ C2S \/ S2C \/ BufferFull \/ Toggle

\* The client, the server and both tasks keep going; buffers need not fill up
\* and nobody has to toggle capture.
Fairness ==
    /\ WF_vars(ClientSend) /\ WF_vars(ClientReceive) /\ WF_vars(Server)
    /\ WF_vars(C2S) /\ WF_vars(S2C)

Spec == Init /\ [][Next]_vars /\ Fairness
-----------------------------------------------------------------------------
(***************************************************************************)
(* Properties.                                                             *)
(***************************************************************************)
Pcs == {"read", "rewrite", "rewritten", "pushed", "write", "Q", "P", "B", "D",
        "t", "T", "C", "E", "pop", "forward"}

\* The shared state keeps its shape; columns, rows and OIDs are named by the
\* text they came from.
TypeOK ==
    /\ outstanding \in 0 .. setup.window
    /\ c2s.pc \in Pcs /\ s2c.pc \in Pcs
    /\ returning_queue \in Seq(BOOLEAN)
    /\ pending_columns \in Stmts \cup {None}
    /\ pending_rows \in Seq(Stmts) /\ Len(pending_rows) <= MaxRows
    /\ {suppress_response, no_capture, skipping} \subseteq BOOLEAN
    /\ {stmt_cache, stmt_oids} \subseteq [Names -> Stmts \cup {None}]
    /\ pending_describe \in Names \cup {None}

\* Nothing is on its way in either direction.
Quiescent ==
    /\ c2s.pc = "read" /\ s2c.pc = "read"
    /\ to_proxy = <<>> /\ to_server = <<>> /\ from_server = <<>>
    /\ client_buf = <<>> /\ to_client = <<>>

ClientView == received \o to_client \o client_buf

Protocol(m) == m.type \notin {"T", "D"}

Hiding == setup.implicit /\ setup.stealth

Only(seq, which) ==
    FlattenSeq([i \in DOMAIN seq |-> IF seq[i] \in which THEN <<seq[i]>> ELSE <<>>])

\* "The proxy transparently relays all traffic" (README.md): the client reads
\* what the server wrote, in order, and in the end all of it.  When injected
\* rows are to be hidden this is said of the other messages only.
Transparent ==
    LET kept == {m \in FromServer : Hiding => Protocol(m)}
    IN  /\ IsPrefix(Only(ClientView, kept), Only(replied, kept))
        /\ Quiescent => Only(received, kept) = Only(replied, kept)

StmtsOf(seq) == [i \in DOMAIN seq |-> seq[i].stmt]

\* The messages of the requests the client has sent.
Sent == FlattenSeq(SubSeq(setup.script, 1, Len(setup.script) - Len(script)))

\* The server executes, or discards after an error, the statements the client
\* has sent, each once and in order, rewritten or not; and in the end all.
ExecutedOnce ==
    LET sent == StmtsOf(Only(Sent, {m \in ToServer : Executing(m)}))
    IN  /\ IsPrefix(StmtsOf(served), sent)
        /\ Quiescent => StmtsOf(served) = sent

\* A client that waits for every answer, and describes one statement at a time.
Waits ==
    /\ setup.window = 1 /\ setup.toggles = 0
    /\ \A i \in DOMAIN setup.script : \A j, k \in DOMAIN setup.script[i] :
          setup.script[i][j].type = "D" /\ setup.script[i][k].type = "D" => j = k

\* Simple queries of one statement each, nothing rewritten.  The code pushes one
\* flag per query and pops one per CommandComplete or error, so that any other
\* text breaks the pairing for the rest of the session: an empty query leaves its
\* flag in the queue, and a query of several statements takes the flags of the
\* queries after it (and only its first result ends its entry in the capture).
Plain ==
    /\ Waits /\ setup.correlate /\ ~setup.implicit
    /\ \A i \in DOMAIN setup.script :
          setup.script[i][1].type = "Q" /\ kind[setup.script[i][1].stmt] \in OneStatement

\* Then the captured session is what the server executed: the same statements
\* in the same order with the same outcomes, and the rows of a RETURNING clause
\* on the statement that has one (QueryComplete is sent before QueryReturning).
\* And for every client that waits for its answers the types of parameters are
\* filed under the name they belong to, the server's and the declared ones, also
\* after a Describe that failed; they are those of a text parsed under that name,
\* not always of the last one (C2SParse).
CapturedFaithful ==
  LET q == capture.queries IN
  /\ Waits => \A n \in Names : stmt_oids[n] \in {None} \cup {s \in Stmts : name[s] = n}
  /\ Plain =>
      /\ Len(q) <= Len(served)
      /\ \A i \in DOMAIN q :
            /\ q[i].sql = served[i].stmt
            /\ q[i].is_error = ~served[i].ok
            /\ \A j \in DOMAIN q[i].response_values :
                  q[i].response_values[j] = q[i].sql /\ has_ret(q[i].sql)
      /\ Quiescent =>
            /\ Len(q) = Len(served)
            /\ \A i \in DOMAIN q :
                  served[i].rows /\ has_ret(q[i].sql) => q[i].response_values # <<>>

\* Every request is answered and the client gets to the end of its script.  It
\* does not with COPY FROM STDIN: CopyInResponse stays in the write buffer, the
\* client waits for it and the server for the client.
Answered ==
    (\A i \in DOMAIN setup.script : \A k \in DOMAIN setup.script[i] : kind[setup.script[i][k].stmt] # "copy")
        => <>(script = <<>> /\ outstanding = 0)

\* "The client sees the same response as a bare INSERT (CommandComplete
\* only)" (ImplicitCaptureState): no row of an injected RETURNING reaches it.
StealthHolds ==
    \A i \in DOMAIN ClientView :
        kind[ClientView[i].stmt] = "insert" => Protocol(ClientView[i])
=============================================================================
