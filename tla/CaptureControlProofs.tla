-------------------------- MODULE CaptureControlProofs --------------------------
(***************************************************************************)
(* Theorems about CaptureControl, for any sessions, any size of a batch,   *)
(* any limits and any faults.                                              *)
(***************************************************************************)
EXTENDS CaptureControl, WellFoundedInduction, SequenceTheorems, TLAPS

-----------------------------------------------------------------------------
(***************************************************************************)
(* The control state.  What /status shows between two commands rests on    *)
(* what holds at every point of the command loop: where the target and the *)
(* collector are while a capture is started, closed, joined and written.   *)
(***************************************************************************)
ControlTypes ==
    /\ no_capture \in BOOLEAN /\ capturing \in BOOLEAN /\ exiting \in BOOLEAN
    /\ limit_triggered \in BOOLEAN
    /\ auto_stops \in Nat /\ next_capture \in Nat

Recording == no_capture => auto_stops > 0

Starting ==
    /\ main \in {"enabling", "started"} =>
          active = None /\ target # None /\ collector = target
    /\ main = "started" => Recording

Stopping ==
    /\ main \in {"closing", "joining", "reading", "clearing", "stopped"} =>
          active = None /\ no_capture
    /\ main = "closing" => target # None /\ collector = target
    /\ main \in {"joining", "reading", "clearing", "stopped"} => target = None
    /\ main \in {"reading", "clearing", "stopped"} => collector = None

StatusInv == Starting /\ Stopping /\ StatusTrue

ControlInv == ControlTypes /\ StatusInv

LEMMA ControlInit == Init => ControlInv
<1> SUFFICES ASSUME Init PROVE ControlInv
  OBVIOUS
<1>1. ControlTypes
  <2>1. auto_stops \in Nat /\ next_capture \in Nat
    BY DEF Init
  <2>2. QED
    BY <2>1, Zenon DEF Init, ControlTypes
<1>2. StatusInv
  BY Zenon DEF Init, StatusInv, Starting, Stopping, StatusTrue
<1>3. QED
  BY <1>1, <1>2 DEF ControlInv

\* What a step that leaves the command loop alone has to respect.
LEMMA StatusKept ==
  ASSUME StatusInv, UNCHANGED <<capturing, active, target, main, exiting, setup, collector>>,
         no_capture' = no_capture \/ (no_capture' = TRUE /\ auto_stops' > 0),
         auto_stops' = auto_stops \/ auto_stops' > 0
  PROVE  StatusInv'
BY DEF StatusInv, Starting, Stopping, StatusTrue, Recording

LEMMA ControlStep == ControlInv /\ [Next]_vars => ControlInv'
<1> SUFFICES ASSUME ControlInv, [Next]_vars PROVE ControlInv'
  OBVIOUS
<1> USE DEF ControlInv, flags, loop, clients, forwarder, collecting, ghosts, bounds, outside
<1>1. CASE UNCHANGED vars \/ Clients
  <2>1. UNCHANGED <<flags, loop, collector, setup, limit_triggered, next_capture>>
    BY <1>1 DEF vars, Clients, Connect, QueryStart, QueryEnd
  <2>2. QED
    BY <2>1, StatusKept DEF ControlTypes
<1>2. CASE Control \/ Recover
  <2>1. UNCHANGED <<flags, main, stopping, exiting, auto_stops, collector, setup,
                    limit_triggered, next_capture>>
    BY <1>2 DEF Control, RequestStart, RequestStop, Request, ListOrphans, Recover, RecoverOne, ClearOne
  <2>2. QED
    BY <2>1, StatusKept DEF ControlTypes
<1>3. CASE Forward
  <2>1. UNCHANGED <<capturing, active, target, main, exiting, setup, collector, next_capture>>
    BY <1>3 DEF Forward, FwdSessionStart, FwdOther, FwdCompletion, FwdSend, FwdReceive
  <2>2. \/ UNCHANGED <<no_capture, auto_stops, limit_triggered>>
        \/ limit_triggered' = TRUE /\ no_capture' = TRUE /\ auto_stops' = auto_stops + 1
    BY <1>3 DEF Forward, FwdSessionStart, FwdOther, FwdCompletion, FwdSend, auto_stop_sent
  <2>3. ControlTypes'
    <3>1. auto_stops' \in Nat
      BY <2>2 DEF ControlTypes
    <3>2. QED
      BY <2>1, <2>2, <3>1, Zenon DEF ControlTypes
  <2>4. auto_stops' = auto_stops \/ auto_stops' > 0
    BY <2>2 DEF ControlTypes
  <2>5. no_capture' = no_capture \/ (no_capture' = TRUE /\ auto_stops' > 0)
    BY <2>2 DEF ControlTypes
  <2>6. QED
    BY <2>1, <2>3, <2>4, <2>5, StatusKept
<1>4. CASE CollectStaged
  <2>1. UNCHANGED <<flags, loop, setup, limit_triggered, next_capture>>
    BY <1>4 DEF CollectStaged, CollectEvent, PeriodicFlush, CollectorEnds
  <2>2. \/ collector' = collector
        \/ collector # None /\ target # collector /\ collector' = None
    BY <1>4 DEF CollectStaged, CollectEvent, PeriodicFlush, CollectorEnds
  <2>3. QED
    BY <2>1, <2>2 DEF ControlTypes, StatusInv, Starting, Stopping, StatusTrue, Recording
<1>5. CASE RefuseStart
  <2>1. UNCHANGED <<flags, main, exiting, auto_stops, collector, setup, limit_triggered, next_capture>>
    BY <1>5 DEF RefuseStart, TakeCommand
  <2>2. QED
    BY <2>1, StatusKept DEF ControlTypes
<1>6. CASE Start
  <2>1. next_capture # None /\ next_capture + 1 \in Nat
    BY ControlAssumption DEF ControlTypes
  <2>2. QED
    BY <1>6, <2>1 DEF Start, TakeCommand, ControlTypes, StatusInv, Starting, Stopping, StatusTrue
<1>7. CASE Enable \/ Started
  <2>1. CASE Enable
    <3>1. ~no_capture' /\ no_capture' \in BOOLEAN
      BY <2>1 DEF Enable
    <3>2. QED
      BY <2>1, <3>1 DEF Enable, ControlTypes, StatusInv, Starting, Stopping, StatusTrue, Recording
  <2>2. CASE Started
    <3>1. capturing' /\ capturing' \in BOOLEAN
      BY <2>2 DEF Started
    <3>2. QED
      BY <2>2, <3>1 DEF Started, ControlTypes, StatusInv, Starting, Stopping, StatusTrue, Recording
  <2>3. QED
    BY <1>7, <2>1, <2>2
<1>8. CASE Stop
  <2>1. /\ UNCHANGED <<exiting, collector, setup, limit_triggered, next_capture>>
        /\ main = "loop" /\ auto_stops' \in Nat
    BY <1>8 DEF Stop, TakeCommand, TakeAutoStop, ControlTypes
  <2>2. BeginStop \/ NotCapturing
    BY <1>8 DEF Stop
  <2>3. CASE BeginStop
    BY <2>1, <2>3 DEF BeginStop, ControlTypes, StatusInv, Starting, Stopping, StatusTrue
  <2>4. CASE NotCapturing
    BY <2>1, <2>4 DEF NotCapturing, ControlTypes, StatusInv, Starting, Stopping, StatusTrue
  <2>5. QED
    BY <2>2, <2>3, <2>4
<1>9. CASE Shutdown
  BY <1>9 DEF Shutdown, BeginStop, ControlTypes, StatusInv, Starting, Stopping, StatusTrue
<1>10. CASE StopSteps
  BY <1>10
     DEF StopSteps, CloseTarget, no_target, Join, collector_ended, ReadFails, WriteProfile,
         ClearStaged, Stopped, BackToLoop, ControlTypes, StatusInv, Starting, Stopping, StatusTrue
<1>11. CASE Crash
  BY <1>11 DEF Crash, ControlTypes, StatusInv, Starting, Stopping, StatusTrue
<1>12. QED
  BY <1>1, <1>2, <1>3, <1>4, <1>5, <1>6, <1>7, <1>8, <1>9, <1>10, <1>11 DEF Next, MainLoop, Commands

\* Between two commands there is an active capture exactly when events have a
\* target and a collector runs on it, and what /status shows is so, whatever
\* limits, failed steps and crashes came before (mod.rs 537-700).
THEOREM StatusCorrect == Spec => []StatusTrue
<1>1. ControlInv => StatusTrue
  BY DEF ControlInv, StatusInv
<1>2. QED
  BY <1>1, ControlInit, ControlStep, PTL DEF Spec

-----------------------------------------------------------------------------
(***************************************************************************)
(* What a SELECT gives.  A function by recursion is what its definition    *)
(* says because partial solutions exist up to every length.                *)
(***************************************************************************)
\* A set of numbers that is not empty has a least one.
LEMMA LeastNumber ==
  ASSUME NEW T \in SUBSET Nat, T # {}
  PROVE  \E m \in T : \A k \in T : m <= k
<1>1. PICK m \in T : \A k \in T : <<k, m>> \notin OpToRel(<, Nat)
  BY WFMin, NatLessThanWellFounded, Zenon
<1>2. \A k \in T : ~(k < m)
  BY <1>1, Zenon DEF OpToRel
<1>3. QED
  BY <1>2

Steps(f, rows, which, m) ==
    f = [n \in 0..m |->
           IF n = 0 THEN <<>>
           ELSE IF rows[n] \in which THEN Append(f[n - 1], rows[n]) ELSE f[n - 1]]

LEMMA StepsExist ==
  ASSUME NEW rows, NEW which, NEW m \in Nat
  PROVE  \E f : Steps(f, rows, which, m)
<1> DEFINE T == {k \in Nat : ~ \E f : Steps(f, rows, which, k)}
<1>1. SUFFICES ASSUME T # {} PROVE FALSE
  OBVIOUS
<1>2. PICK k \in T : \A j \in T : k <= j
  <2>1. T \in SUBSET Nat
    OBVIOUS
  <2>2. QED
    BY <1>1, <2>1, LeastNumber
<1>3. k # 0
  <2>1. Steps([n \in 0..0 |-> <<>>], rows, which, 0)
    BY DEF Steps
  <2>2. QED
    BY <2>1
<1>4. PICK f : Steps(f, rows, which, k - 1)
  <2>1. k - 1 \in Nat /\ ~(k <= k - 1)
    BY <1>3
  <2>2. QED
    BY <1>2, <2>1
<1> DEFINE e == IF rows[k] \in which THEN Append(f[k - 1], rows[k]) ELSE f[k - 1]
           g == [n \in 0..k |-> IF n = k THEN e ELSE f[n]]
<1>5. \A n \in 0..k : g[n] = (IF n = 0 THEN <<>>
           ELSE IF rows[n] \in which THEN Append(g[n - 1], rows[n]) ELSE g[n - 1])
  <2> TAKE n \in 0..k
  <2>1. CASE n = k
    BY <2>1, <1>3
  <2>2. CASE n # k
    <3>1. n \in 0..(k - 1) /\ g[n] = f[n] /\ (n # 0 => n - 1 \in 0..k /\ n - 1 # k)
      BY <2>2
    <3>2. f[n] = IF n = 0 THEN <<>>
           ELSE IF rows[n] \in which THEN Append(f[n - 1], rows[n]) ELSE f[n - 1]
      BY <3>1, <1>4 DEF Steps
    <3>3. n # 0 => g[n - 1] = f[n - 1]
      BY <3>1
    <3>4. QED
      BY <3>1, <3>2, <3>3
  <2>3. QED
    BY <2>1, <2>2
<1>6. Steps(g, rows, which, k)
  <2> HIDE DEF e
  <2>1. g = [n \in 0..k |-> g[n]]
    OBVIOUS
  <2> HIDE DEF g
  <2>2. QED
    BY <1>5, <2>1 DEF Steps
<1>7. QED
  BY <1>6

\* Up to every row: a sequence of the rows so far that were asked for.
LEMMA StepsRight ==
  ASSUME NEW S, NEW rows \in Seq(S), NEW which, NEW f, Steps(f, rows, which, Len(rows)),
         NEW m \in 0..Len(rows)
  PROVE  /\ f[m] \in Seq(S)
         /\ \A i \in 1..Len(f[m]) : f[m][i] \in which /\ \E j \in 1..m : rows[j] = f[m][i]
         /\ \A j \in 1..m : rows[j] \in which => \E i \in 1..Len(f[m]) : f[m][i] = rows[j]
<1> DEFINE Right(k) ==
             /\ f[k] \in Seq(S)
             /\ \A i \in 1..Len(f[k]) : f[k][i] \in which /\ \E j \in 1..k : rows[j] = f[k][i]
             /\ \A j \in 1..k : rows[j] \in which => \E i \in 1..Len(f[k]) : f[k][i] = rows[j]
           T == {k \in 0..Len(rows) : ~Right(k)}
<1>1. SUFFICES ASSUME T # {} PROVE FALSE
  OBVIOUS
<1>2. PICK k \in T : \A j \in T : k <= j
  <2>1. T \in SUBSET Nat
    OBVIOUS
  <2>2. QED
    BY <1>1, <2>1, LeastNumber
<1>3. \A n \in 0..Len(rows) : f[n] =
        IF n = 0 THEN <<>>
        ELSE IF rows[n] \in which THEN Append(f[n - 1], rows[n]) ELSE f[n - 1]
  BY DEF Steps
<1>4. k # 0
  <2>1. f[0] = <<>>
    <3>1. 0 \in 0..Len(rows)
      OBVIOUS
    <3>2. QED
      BY <1>3, <3>1
  <2>2. f[0] \in Seq(S) /\ Len(f[0]) = 0
    BY <2>1
  <2>3. Right(0)
    BY <2>2
  <2>4. QED
    BY <2>3
<1>5. k \in 1..Len(rows) /\ k - 1 \in 0..Len(rows) /\ ~(k <= k - 1)
  BY <1>4
<1>6. Right(k - 1)
  BY <1>2, <1>5
<1> DEFINE g == f[k - 1]
<1>7. g \in Seq(S) /\ rows[k] \in S
  BY <1>5, <1>6
<1>8. f[k] = IF rows[k] \in which THEN Append(g, rows[k]) ELSE g
  BY <1>3, <1>4, <1>5
<1>9. /\ \A i \in 1..Len(g) : g[i] \in which /\ \E j \in 1..(k - 1) : rows[j] = g[i]
      /\ \A j \in 1..(k - 1) : rows[j] \in which => \E i \in 1..Len(g) : g[i] = rows[j]
  BY <1>6
<1> HIDE DEF g
<1>10. CASE rows[k] \in which
  <2>1. /\ f[k] = Append(g, rows[k]) /\ f[k] \in Seq(S) /\ Len(f[k]) = Len(g) + 1
        /\ f[k][Len(g) + 1] = rows[k] /\ \A i \in 1..Len(g) : f[k][i] = g[i]
    BY <1>7, <1>8, <1>10
  <2>2. ASSUME NEW i \in 1..Len(f[k]) PROVE f[k][i] \in which /\ \E j \in 1..k : rows[j] = f[k][i]
    <3>1. CASE i = Len(g) + 1
      BY <2>1, <3>1, <1>5, <1>10
    <3>2. CASE i \in 1..Len(g)
      <4>1. PICK j \in 1..(k - 1) : rows[j] = g[i]
        BY <3>2, <1>9
      <4>2. QED
        BY <2>1, <3>2, <4>1, <1>5, <1>9
    <3>3. QED
      BY <2>1, <3>1, <3>2, <1>7
  <2>3. ASSUME NEW j \in 1..k, rows[j] \in which PROVE \E i \in 1..Len(f[k]) : f[k][i] = rows[j]
    <3>1. CASE j = k
      BY <2>1, <3>1, <1>7
    <3>2. CASE j # k
      <4>1. PICK i \in 1..Len(g) : g[i] = rows[j]
        BY <2>3, <3>2, <1>5, <1>9
      <4>2. QED
        BY <2>1, <4>1, <1>7
    <3>3. QED
      BY <3>1, <3>2
  <2>4. QED
    BY <2>1, <2>2, <2>3
<1>11. CASE rows[k] \notin which
  <2>1. f[k] = g
    BY <1>8, <1>11
  <2>2. ASSUME NEW j \in 1..k, rows[j] \in which PROVE \E i \in 1..Len(g) : g[i] = rows[j]
    BY <2>2, <1>5, <1>9, <1>11
  <2>3. \A i \in 1..Len(g) : g[i] \in which /\ \E j \in 1..k : rows[j] = g[i]
    BY <1>5, <1>9
  <2>4. QED
    BY <2>1, <2>2, <2>3, <1>7
<1>12. QED
  BY <1>10, <1>11

\* A SELECT gives the rows asked for, and no others.
LEMMA SelectedRows ==
  ASSUME NEW S, NEW rows \in Seq(S), NEW which
  PROVE  /\ Selected(rows, which) \in Seq(S)
         /\ Range(Selected(rows, which)) = Range(rows) \cap which
<1> DEFINE f == CHOOSE h : Steps(h, rows, which, Len(rows))
           g == Selected(rows, which)
<1>1. Steps(f, rows, which, Len(rows))
  <2>1. Len(rows) \in Nat
    OBVIOUS
  <2>2. QED
    BY <2>1, StepsExist, Zenon
<1>2. g = f[Len(rows)]
  BY Zenon DEF Selected, Steps
<1> HIDE DEF f, g
<1>3. /\ g \in Seq(S)
      /\ \A i \in 1..Len(g) : g[i] \in which /\ \E j \in 1..Len(rows) : rows[j] = g[i]
      /\ \A j \in 1..Len(rows) : rows[j] \in which => \E i \in 1..Len(g) : g[i] = rows[j]
  <2>1. Len(rows) \in 0..Len(rows)
    OBVIOUS
  <2>2. QED
    BY <1>1, <1>2, <2>1, StepsRight
<1>4. DOMAIN g = 1..Len(g) /\ DOMAIN rows = 1..Len(rows)
  BY <1>3
<1>5. Range(g) = Range(rows) \cap which
  <2>1. \A r : r \in Range(g) <=> \E i \in 1..Len(g) : g[i] = r
    BY <1>4, Zenon DEF Range
  <2>2. \A r : r \in Range(rows) <=> \E i \in 1..Len(rows) : rows[i] = r
    BY <1>4, Zenon DEF Range
  <2>3. QED
    BY <1>3, <2>1, <2>2
<1>6. QED
  BY <1>3, <1>5 DEF g

-----------------------------------------------------------------------------
(***************************************************************************)
(* Types of the events on their way and of the rows they become.           *)
(***************************************************************************)
QueryEvents ==
    {Staged!QueryStart(q) : q \in Nat} \cup {Staged!QueryReturning(rows) : rows \in Seq(Nat)}
    \cup {Staged!QueryComplete, Staged!QueryError}

Messages == {Event(s, e) : s \in Sessions, e \in QueryEvents} \cup {Event(None, SessionStart)}

Lines == [capture : Nat, session : Sessions, sql : Nat, is_error : BOOLEAN,
          response_values : Seq(Nat)]

DataTypes ==
    /\ setup \in Setups
    /\ running \in [Sessions -> Nat] /\ next_query \in Nat
    /\ channel \in Seq(Messages) /\ held \in Messages \cup {None}
    /\ staging \in Seq(Messages) /\ pending \in [Sessions -> Nat]
    /\ collector \in Nat \cup {None}
    /\ batch \in Seq(Lines) /\ db \in Seq(Lines)

\* What the collector reads of an event.
LEMMA MessageFields ==
  ASSUME NEW m \in Messages
  PROVE  /\ m.event.type = "QueryStart" => m.session \in Sessions /\ m.event.sql \in Nat
         /\ m.event.type = "QueryReturning" => m.session \in Sessions /\ m.event.rows \in Seq(Nat)
         /\ m.event.type \in {"QueryComplete", "QueryError"} => m.session \in Sessions
<1>1. CASE m = Event(None, SessionStart)
  BY <1>1 DEF Event, SessionStart
<1>2. ASSUME NEW s \in Sessions, NEW e \in QueryEvents, m = Event(s, e)
      PROVE  /\ m.event.type = "QueryStart" => m.session \in Sessions /\ m.event.sql \in Nat
             /\ m.event.type = "QueryReturning" => m.session \in Sessions /\ m.event.rows \in Seq(Nat)
             /\ m.event.type \in {"QueryComplete", "QueryError"} => m.session \in Sessions
  <2>1. m.session = s /\ m.event = e
    BY <1>2 DEF Event
  <2>2. /\ e.type = "QueryStart" => e.sql \in Nat
        /\ e.type = "QueryReturning" => e.rows \in Seq(Nat)
    <3>1. ASSUME NEW q \in Nat, e = Staged!QueryStart(q) PROVE e.sql \in Nat /\ e.type = "QueryStart"
      BY <3>1 DEF Staged!QueryStart
    <3>2. ASSUME NEW rows \in Seq(Nat), e = Staged!QueryReturning(rows)
          PROVE e.rows \in Seq(Nat) /\ e.type = "QueryReturning"
      BY <3>2 DEF Staged!QueryReturning
    <3>3. Staged!QueryComplete.type = "QueryComplete" /\ Staged!QueryError.type = "QueryError"
      BY DEF Staged!QueryComplete, Staged!QueryError
    <3>4. QED
      BY <3>1, <3>2, <3>3 DEF QueryEvents
  <2>3. QED
    BY <2>1, <2>2
<1>3. QED
  BY <1>1, <1>2 DEF Messages

\* An event of a query.
LEMMA QueryMessages ==
  ASSUME NEW s \in Sessions
  PROVE  /\ \A q \in Nat : Event(s, Staged!QueryStart(q)) \in Messages
         /\ \A rows \in Seq(Nat) : Event(s, Staged!QueryReturning(rows)) \in Messages
         /\ Event(s, Staged!QueryComplete) \in Messages /\ Event(s, Staged!QueryError) \in Messages
BY DEF Messages, QueryEvents

\* All rows are of capture c.
Of(c, rows) == \A i \in 1..Len(rows) : rows[i].capture = c

\* A sequence is not changed outside its domain, and keeps its length inside.
LEMMA AttachedRows ==
  ASSUME NEW b \in Seq(Lines), NEW i, NEW values \in Seq(Nat), NEW c, Of(c, b)
  PROVE  LET a == [b EXCEPT ![i].response_values = values] IN a \in Seq(Lines) /\ Of(c, a)
<1> DEFINE a == [b EXCEPT ![i].response_values = values]
<1>1. CASE i \in 1..Len(b)
  <2> DEFINE r == [b[i] EXCEPT !.response_values = values]
  <2>1. b[i] \in Lines
    BY <1>1
  <2>2. r \in Lines /\ r.capture = b[i].capture
    BY <2>1 DEF Lines
  <2>3. a = [b EXCEPT ![i] = r]
    BY Zenon
  <2> HIDE DEF r, a
  <2>4. a \in Seq(Lines) /\ Len(a) = Len(b) /\ \A j \in 1..Len(b) : a[j] = IF j = i THEN r ELSE b[j]
    BY <1>1, <2>2, <2>3, ExceptSeq
  <2>5. Of(c, a)
    BY <1>1, <2>2, <2>4 DEF Of
  <2>6. QED
    BY <2>4, <2>5 DEF a
<1>2. CASE i \notin 1..Len(b)
  <2>1. DOMAIN b = 1..Len(b) /\ b = [j \in DOMAIN b |-> b[j]]
    OBVIOUS
  <2>2. a = [j \in DOMAIN b |-> IF i = j THEN [b[i] EXCEPT !.response_values = values] ELSE b[j]]
    BY Zenon
  <2>3. a = b
    BY <1>2, <2>1, <2>2
  <2>4. QED
    BY <2>3
<1>3. QED
  BY <1>1, <1>2

\* What the collector makes of an event.
LEMMA PushedRows ==
  ASSUME DataTypes, collector \in Nat, Of(collector, batch), NEW s \in Sessions, NEW e \in BOOLEAN
  PROVE  Push(s, e) \in Seq(Lines) /\ Of(collector, Push(s, e))
<1> DEFINE r == Row(s, pending[s], e)
<1>1. r \in Lines /\ r.capture = collector
  <2>1. <<>> \in Seq(Nat) /\ pending[s] \in Nat
    BY DEF DataTypes
  <2>2. QED
    BY <2>1 DEF Row, Lines
<1> HIDE DEF r
<1>2. batch \in Seq(Lines)
  BY DEF DataTypes
<1>3. Append(batch, r) \in Seq(Lines) /\ Of(collector, Append(batch, r))
  BY <1>1, <1>2 DEF Of
<1>4. QED
  BY <1>2, <1>3 DEF Push, r

\* The table only gets rows of the capture that is collected.
Grown ==
    \A i \in 1..Len(db') :
        \/ \E j \in 1..Len(db) : db[j] = db'[i]
        \/ collector \in Nat /\ db'[i].capture = collector

LEMMA Unread == UNCHANGED db => Grown
BY DEF Grown

LEMMA InsertedRows ==
  ASSUME DataTypes, collector \in Nat, NEW b \in Seq(Lines), Of(collector, b), Insert(b)
  PROVE  batch' = <<>> /\ db' \in Seq(Lines) /\ Grown
<1>1. batch' = <<>> /\ (db' = db \o b \/ db' = db)
  BY DEF Insert
<1>2. db \in Seq(Lines)
  BY DEF DataTypes
<1>3. CASE db' = db \o b
  <2>1. /\ db' \in Seq(Lines) /\ Len(db') = Len(db) + Len(b)
        /\ \A i \in 1..Len(db') : db'[i] = IF i <= Len(db) THEN db[i] ELSE b[i - Len(db)]
    BY <1>2, <1>3
  <2>2. ASSUME NEW i \in 1..Len(db')
        PROVE  (\E j \in 1..Len(db) : db[j] = db'[i]) \/ db'[i].capture = collector
    <3>1. CASE i <= Len(db)
      BY <2>1, <3>1, <1>2
    <3>2. CASE ~(i <= Len(db))
      <4>1. i - Len(db) \in 1..Len(b) /\ db'[i] = b[i - Len(db)]
        BY <2>1, <3>2, <1>2
      <4>2. QED
        BY <4>1 DEF Of
    <3>3. QED
      BY <3>1, <3>2
  <2>3. QED
    BY <1>1, <2>1, <2>2 DEF Grown
<1>4. CASE db' = db
  BY <1>1, <1>2, <1>4, Unread
<1>5. QED
  BY <1>1, <1>3, <1>4

LEMMA ClearedRows ==
  ASSUME DataTypes, NEW c, db' = Cleared(c)
  PROVE  /\ db' \in Seq(Lines)
         /\ \A i \in 1..Len(db') : \E j \in 1..Len(db) : db[j] = db'[i]
         /\ \A r \in Range(db) \ Range(db') : r.capture = c
<1>1. db \in Seq(Lines)
  BY DEF DataTypes
<1>2. db' \in Seq(Lines) /\ Range(db') = Range(db) \cap {r \in Range(db) : r.capture # c}
  BY <1>1, SelectedRows DEF Cleared
<1>3. DOMAIN db = 1..Len(db) /\ DOMAIN db' = 1..Len(db')
  BY <1>1, <1>2
<1>4. \A i \in 1..Len(db') : db'[i] \in Range(db')
  BY <1>3, Zenon DEF Range
<1>5. \A r \in Range(db) : \E j \in 1..Len(db) : db[j] = r
  BY <1>3, Zenon DEF Range
<1>6. QED
  BY <1>2, <1>4, <1>5

\* What the clients send.
LEMMA EmittedTypes ==
  ASSUME channel \in Seq(Messages), NEW events \in Seq(Messages), Emit(events)
  PROVE  channel' \in Seq(Messages)
BY DEF Emit

\* What is left in the batch, or inserted, after an event.
LEMMA CollectedRows ==
  ASSUME DataTypes, Of(collector, batch), CollectEvent
  PROVE  /\ \E b \in Seq(Lines) : /\ Of(collector, b)
                                  /\ (batch' = b /\ UNCHANGED db) \/ Insert(b)
         /\ staging' \in Seq(Messages) /\ pending' \in [Sessions -> Nat]
<1>0. collector \in Nat /\ batch \in Seq(Lines) /\ staging \in Seq(Messages) /\ staging # <<>>
  BY DEF CollectEvent, DataTypes
<1>1. PICK m, s, e : m = Head(staging) /\ s = m.session /\ e = m.event
  OBVIOUS
<1>2. m \in Messages /\ Tail(staging) \in Seq(Messages)
  BY <1>0, <1>1
<1> DEFINE after == CASE e.type = "QueryComplete"  -> Push(s, FALSE)
                      [] e.type = "QueryError"     -> Push(s, TRUE)
                      [] e.type = "QueryReturning" -> Attach(s, e.rows)
                      [] OTHER                     -> batch
           waiting == CASE e.type = "QueryStart" -> [pending EXCEPT ![s] = e.sql]
                        [] e.type \in {"QueryComplete", "QueryError"} -> [pending EXCEPT ![s] = NoSql]
                        [] OTHER -> pending
<1>3. after \in Seq(Lines) /\ Of(collector, after)
  <2>1. CASE e.type \in {"QueryComplete", "QueryError"}
    <3>1. s \in Sessions
      BY <1>1, <1>2, <2>1, MessageFields
    <3>2. /\ Push(s, FALSE) \in Seq(Lines) /\ Of(collector, Push(s, FALSE))
          /\ Push(s, TRUE) \in Seq(Lines) /\ Of(collector, Push(s, TRUE))
      BY <1>0, <3>1, PushedRows
    <3>3. QED
      BY <2>1, <3>2
  <2>2. CASE e.type = "QueryReturning"
    <3>1. e.rows \in Seq(Nat)
      BY <1>1, <1>2, <2>2, MessageFields
    <3>2. Attach(s, e.rows) \in Seq(Lines) /\ Of(collector, Attach(s, e.rows))
      BY <1>0, <3>1, AttachedRows DEF Attach
    <3>3. QED
      BY <2>2, <3>2
  <2>3. CASE e.type \notin {"QueryComplete", "QueryError", "QueryReturning"}
    BY <1>0, <2>3
  <2>4. QED
    BY <2>1, <2>2, <2>3
<1>4. waiting \in [Sessions -> Nat]
  <2>1. CASE e.type \in {"QueryStart", "QueryComplete", "QueryError"}
    <3>1. s \in Sessions /\ (e.type = "QueryStart" => e.sql \in Nat)
      BY <1>1, <1>2, <2>1, MessageFields
    <3>2. QED
      BY <2>1, <3>1 DEF DataTypes, NoSql
  <2>2. CASE e.type \notin {"QueryStart", "QueryComplete", "QueryError"}
    BY <2>2 DEF DataTypes
  <2>3. QED
    BY <2>1, <2>2
<1>5. /\ staging' = Tail(staging) /\ pending' = waiting
      /\ (batch' = after /\ UNCHANGED db) \/ Insert(after)
  BY <1>1 DEF CollectEvent
<1> HIDE DEF after, waiting
<1>6. Tail(staging) \in Seq(Messages)
  BY <1>2
<1>7. QED
  BY <1>3, <1>4, <1>5, <1>6

LEMMA RowsStep ==
  DataTypes /\ ControlInv /\ Of(collector, batch) /\ [Next]_vars
    => DataTypes' /\ Of(collector, batch)' /\ Grown
<1> SUFFICES ASSUME DataTypes, ControlInv, Of(collector, batch), [Next]_vars
             PROVE DataTypes' /\ Of(collector, batch)' /\ Grown
  OBVIOUS
<1> USE DEF flags, loop, clients, forwarder, collecting, ghosts, bounds, outside
<1>e. <<>> \in Seq(Messages) /\ <<>> \in Seq(Lines) /\ Idle \in [Sessions -> Nat]
      /\ \A c : Of(c, <<>>)
  BY DEF Idle, NoSql, Of
<1>k. ASSUME UNCHANGED <<collecting, db, setup>>, running' \in [Sessions -> Nat], next_query' \in Nat,
             channel' \in Seq(Messages), held' \in Messages \cup {None}
      PROVE  DataTypes' /\ Of(collector, batch)' /\ Grown
  BY <1>k, Unread DEF DataTypes, Of
<1>1. CASE Clients
  <2>1. CASE Connect
    <3>1. Event(None, SessionStart) \in Messages
      BY DEF Messages
    <3>2. channel' \in Seq(Messages) /\ next_query' \in Nat
      BY <2>1, <3>1 DEF Connect, DataTypes
    <3>3. QED
      BY <1>k, <2>1, <3>2 DEF Connect, DataTypes
  <2>2. ASSUME NEW s \in setup.clients, QueryStart(s) PROVE DataTypes' /\ Of(collector, batch)' /\ Grown
    <3>1. s \in Sessions
      BY ControlAssumption DEF DataTypes
    <3>2. <<Event(s, Staged!QueryStart(next_query))>> \in Seq(Messages)
      BY <3>1, QueryMessages DEF DataTypes
    <3>3. channel' \in Seq(Messages)
      BY <2>2, <3>2, EmittedTypes DEF QueryStart, DataTypes
    <3>4. running' \in [Sessions -> Nat] /\ next_query' \in Nat
      BY <2>2, <3>1 DEF QueryStart, DataTypes
    <3>5. QED
      BY <1>k, <2>2, <3>3, <3>4 DEF QueryStart, DataTypes
  <2>3. ASSUME NEW s \in setup.clients, QueryEnd(s) PROVE DataTypes' /\ Of(collector, batch)' /\ Grown
    <3>1. s \in Sessions /\ <<running[s]>> \in Seq(Nat)
      BY ControlAssumption DEF DataTypes
    <3>2. /\ Event(s, Staged!QueryComplete) \in Messages /\ Event(s, Staged!QueryError) \in Messages
          /\ Event(s, Staged!QueryReturning(<<running[s]>>)) \in Messages
      BY <3>1, QueryMessages
    <3> DEFINE done == <<Event(s, Staged!QueryComplete)>>
               answer == IF running[s] \in setup.returning
                         THEN <<Event(s, Staged!QueryReturning(<<running[s]>>))>> ELSE <<>>
               failed == <<Event(s, Staged!QueryError)>>
    <3>3. done \in Seq(Messages) /\ answer \in Seq(Messages) /\ failed \in Seq(Messages)
      BY <3>2
    <3>4. Emit(done \o answer) \/ Emit(failed)
      BY <2>3 DEF QueryEnd
    <3> HIDE DEF done, answer, failed
    <3>5. done \o answer \in Seq(Messages)
      BY <3>3
    <3>6. channel' \in Seq(Messages)
      BY <3>3, <3>4, <3>5, EmittedTypes DEF DataTypes
    <3>7. running' \in [Sessions -> Nat]
      BY <2>3 DEF QueryEnd, DataTypes, NoSql
    <3>8. QED
      BY <1>k, <2>3, <3>6, <3>7 DEF QueryEnd, DataTypes
  <2>4. QED
    BY <1>1, <2>1, <2>2, <2>3 DEF Clients
<1>2. CASE FwdReceive /\ UNCHANGED setup
  <2>1. channel' \in Seq(Messages) /\ held' \in Messages
    BY <1>2 DEF FwdReceive, DataTypes
  <2>2. QED
    BY <1>k, <1>2, <2>1 DEF FwdReceive, DataTypes
<1>3. CASE FwdSend
  <2>1. staging' \in Seq(Messages)
    <3>1. held \in Messages /\ staging \in Seq(Messages)
      BY <1>3 DEF FwdSend, DataTypes
    <3>2. staging' = staging \/ staging' = Append(staging, held)
      BY <1>3 DEF FwdSend
    <3>3. QED
      BY <3>1, <3>2
  <2>2. QED
    BY <1>3, <2>1, Unread DEF FwdSend, DataTypes, Of
<1>4. CASE CollectEvent
  <2>1. /\ staging' \in Seq(Messages) /\ pending' \in [Sessions -> Nat] /\ collector \in Nat
        /\ UNCHANGED <<setup, running, next_query, channel, held, collector>>
    BY <1>4, CollectedRows DEF CollectEvent, DataTypes
  <2>2. PICK b \in Seq(Lines) : /\ Of(collector, b)
                                /\ (batch' = b /\ UNCHANGED db) \/ Insert(b)
    BY <1>4, CollectedRows
  <2>3. batch' \in Seq(Lines) /\ Of(collector, batch') /\ db' \in Seq(Lines) /\ Grown
    <3>1. CASE batch' = b /\ UNCHANGED db
      BY <2>2, <3>1, Unread DEF DataTypes
    <3>2. CASE Insert(b)
      BY <2>1, <2>2, <3>2, <1>e, InsertedRows
    <3>3. QED
      BY <2>2, <3>1, <3>2
  <2>4. QED
    BY <2>1, <2>3 DEF DataTypes
<1>5. CASE PeriodicFlush \/ CollectorEnds
  <2>1. collector \in Nat /\ batch \in Seq(Lines) /\ Insert(batch)
    BY <1>5 DEF PeriodicFlush, CollectorEnds, DataTypes
  <2>2. batch' = <<>> /\ db' \in Seq(Lines) /\ Grown
    BY <2>1, InsertedRows
  <2>3. /\ UNCHANGED <<setup, running, next_query, channel, held, staging>>
        /\ collector' \in {collector, None} /\ pending' \in {pending, Idle}
    BY <1>5 DEF PeriodicFlush, CollectorEnds
  <2>4. QED
    BY <2>2, <2>3, <1>e DEF DataTypes
<1>6. CASE UNCHANGED <<collecting, db, setup, running, next_query, channel, held>>
  BY <1>k, <1>6 DEF DataTypes
<1>7. CASE Start
  BY <1>7, <1>e, Unread DEF Start, TakeCommand, DataTypes, ControlInv, ControlTypes
<1>8. ASSUME NEW c, db' = Cleared(c), UNCHANGED <<collecting, setup, clients, forwarder>>
      PROVE  DataTypes' /\ Of(collector, batch)' /\ Grown
  BY <1>8, ClearedRows DEF DataTypes, Grown, Of
<1>9. CASE Recover \/ ClearStaged
  <2>1. /\ UNCHANGED <<collecting, setup, clients, forwarder>>
        /\ db' = db \/ \E c : db' = Cleared(c)
    BY <1>9 DEF Recover, RecoverOne, ClearOne, ClearStaged
  <2>2. QED
    BY <1>6, <1>8, <2>1
<1>10. CASE Crash
  <2>1. UNCHANGED <<next_query, db, setup>>
    BY <1>10 DEF Crash
  <2>2. /\ running' = Idle /\ channel' = <<>> /\ held' = None /\ staging' = <<>>
        /\ collector' = None /\ pending' = Idle /\ batch' = <<>>
    BY <1>10 DEF Crash
  <2>3. QED
    BY <2>1, <2>2, <1>e, Unread DEF DataTypes
<1>11. CASE Forward
  BY <1>2, <1>3, <1>11 DEF Forward, FwdSessionStart, FwdOther, FwdCompletion, FwdReceive
<1>12. CASE Control \/ Shutdown \/ RefuseStart \/ Stop \/ Enable \/ Started \/ UNCHANGED vars
  BY <1>6, <1>12
     DEF Control, RequestStart, RequestStop, Request, ListOrphans, Shutdown, BeginStop, RefuseStart,
         Stop, Enable, Started, vars
<1>13. CASE StopSteps
  BY <1>6, <1>9, <1>13
     DEF StopSteps, CloseTarget, Join, ReadFails, WriteProfile, ClearStaged, Stopped
<1>14. QED
  BY <1>1, <1>4, <1>5, <1>7, <1>9, <1>10, <1>11, <1>12, <1>13
     DEF Next, CollectStaged, MainLoop, Commands

-----------------------------------------------------------------------------
(***************************************************************************)
(* Staged rows.  A capture that is about to be cleared has its rows in a   *)
(* file already, and gets no more: nothing is collected for it any longer. *)
(***************************************************************************)
Kept(c) == \A i \in 1..Len(db) : db[i].capture = c => \E f \in files : Holds(f, db[i])

Numbered ==
    /\ collector # None => collector < next_capture
    /\ \A i \in 1..Len(db) : db[i].capture < next_capture

Recoveries ==
    [op : {"none", "recover", "discard"}, todo : SUBSET Nat, written : Nat \cup {None}]

\* Whoever asks for orphans, asks for captures that have ended.
Orphans ==
    /\ recovery \in Recoveries
    /\ \A c \in recovery.todo : c < next_capture /\ c # collector

Written ==
    /\ main = "clearing" /\ "write" \notin setup.faults => Kept(stopping)
    /\ recovery.written # None => recovery.written \in recovery.todo /\ Kept(recovery.written)

SurviveInv == DataTypes /\ Of(collector, batch) /\ Numbered /\ Orphans /\ Written

\* A file made of the rows of a capture holds each of them.
LEMMA FileHolds ==
  ASSUME DataTypes, NEW c, NEW by, NEW i \in 1..Len(db), db[i].capture = c
  PROVE  Holds(File(c, by), db[i])
<1> DEFINE r == db[i]
           rows == Rows(c)
           own == Selected(rows, {q \in Range(rows) : q.session = r.session})
<1>1. db \in Seq(Lines) /\ r \in Lines /\ r.session \in Sessions
  <2>1. db \in Seq(Lines)
    BY DEF DataTypes
  <2>2. r \in Lines
    BY <2>1
  <2>3. QED
    BY <2>1, <2>2 DEF Lines
<1>2. DOMAIN db = 1..Len(db)
  BY <1>1
<1>3. r \in Range(db)
  BY <1>2, Zenon DEF Range
<1>4. rows \in Seq(Lines) /\ r \in Range(rows)
  BY <1>1, <1>3, SelectedRows DEF Rows
<1> HIDE DEF rows
<1>5. own \in Seq(Lines) /\ r \in Range(own)
  BY <1>4, SelectedRows
<1>6. DOMAIN own = 1..Len(own)
  BY <1>5
<1>7. PICK j \in 1..Len(own) : own[j] = r
  BY <1>5, <1>6, Zenon DEF Range
<1>8. Profile(rows)[r.session] = [k \in 1..Len(own) |-> Query(own[k])]
  BY <1>1, Zenon DEF Profile
<1> HIDE DEF own, r
<1>9. j \in DOMAIN Profile(rows)[r.session] /\ Profile(rows)[r.session][j] = Query(r)
  BY <1>7, <1>8
<1>10. File(c, by).capture = c /\ File(c, by).profile = Profile(rows)
  BY DEF File, rows
<1>11. QED
  BY <1>9, <1>10 DEF Holds, r

\* Rows stay in their file as long as there are no others.
LEMMA KeptStays ==
  ASSUME NEW c, Kept(c), files \subseteq files',
         \A i \in 1..Len(db') : (\E j \in 1..Len(db) : db[j] = db'[i]) \/ db'[i].capture # c
  PROVE  Kept(c)'
BY DEF Kept

LEMMA FileKeeps ==
  ASSUME DataTypes, NEW c, NEW by, UNCHANGED db, files' = files \cup {File(c, by)}
  PROVE  Kept(c)'
BY FileHolds DEF Kept

\* A step that starts no capture, and has no rows written or asked for.
LEMMA SurvivesStep ==
  ASSUME SurviveInv, ControlInv, SurviveInv => DataTypes' /\ Of(collector, batch)' /\ Grown,
         files \subseteq files', UNCHANGED <<setup, next_capture>>, collector' \in {collector, None},
         main' = "clearing" => main = "clearing" /\ stopping' = stopping,
         \/ recovery' = recovery
         \/ /\ recovery' \in Recoveries /\ recovery'.written = None
            /\ recovery'.todo \subseteq recovery.todo
  PROVE  SurviveInv'
<1>1. DataTypes /\ Of(collector, batch) /\ DataTypes' /\ Of(collector, batch)' /\ Grown
  BY DEF SurviveInv
<1>n. None \notin Nat
  BY ControlAssumption
<1>2. Numbered'
  <2>1. ASSUME NEW i \in 1..Len(db') PROVE db'[i].capture < next_capture
    BY <1>1, <1>n DEF SurviveInv, Numbered, Grown
  <2>2. QED
    BY <2>1 DEF SurviveInv, Numbered
<1>t. recovery.todo \in SUBSET Nat
  BY DEF SurviveInv, Orphans, Recoveries
<1>3. Orphans'
  BY <1>n, <1>t DEF SurviveInv, Orphans
<1>4. ASSUME NEW c, Kept(c), c # collector \/ collector = None PROVE Kept(c)'
  BY <1>1, <1>4, <1>n, KeptStays DEF Grown
<1>5. Written'
  <2>1. PICK c : c = stopping
    OBVIOUS
  <2>2. main' = "clearing" /\ "write" \notin setup.faults => Kept(c)'
    BY <1>4, <2>1 DEF ControlInv, StatusInv, Stopping, SurviveInv, Written
  <2>3. main' = "clearing" /\ "write" \notin setup'.faults => Kept(stopping)'
    BY <2>1, <2>2 DEF Kept
  <2>4. PICK w : w = recovery.written
    OBVIOUS
  <2>5. recovery'.written # None => w \in recovery'.todo /\ Kept(w)'
    BY <1>4, <1>t, <2>4 DEF SurviveInv, Written, Orphans
  <2>6. recovery'.written # None => recovery'.written \in recovery'.todo /\ Kept(recovery.written)'
    BY <2>4, <2>5 DEF Kept
  <2>7. QED
    BY <2>3, <2>6 DEF Written
<1>6. QED
  BY <1>1, <1>2, <1>3, <1>5 DEF SurviveInv

\* A request that is through with a capture asks for one fewer.
LEMMA DoneWith ==
  ASSUME recovery \in Recoveries, NEW c, done_with(c)
  PROVE  /\ recovery' \in Recoveries /\ recovery'.written = None
         /\ recovery'.todo \subseteq recovery.todo
<1>1. CASE recovery' = NoRecovery
  BY <1>1 DEF NoRecovery, Recoveries
<1>2. CASE recovery' = [recovery EXCEPT !.todo = @ \ {c}, !.written = None]
  <2>1. recovery.todo \ {c} \in SUBSET Nat
    BY DEF Recoveries
  <2>2. QED
    BY <1>2, <2>1 DEF Recoveries
<1>3. QED
  BY <1>1, <1>2 DEF done_with

LEMMA WrittenFields ==
  ASSUME recovery \in Recoveries, NEW c \in Nat
  PROVE  LET r == [recovery EXCEPT !.written = c]
         IN r \in Recoveries /\ r.todo = recovery.todo /\ r.written = c
BY DEF Recoveries

\* Rows have numbers for their captures.
LEMMA RowNumbers ==
  ASSUME DataTypes
  PROVE  db \in Seq(Lines) /\ \A i \in 1..Len(db) : db[i].capture \in Nat
<1>1. \A r \in Lines : r.capture \in Nat
  BY DEF Lines
<1>2. db \in Seq(Lines)
  BY DEF DataTypes
<1>3. QED
  BY <1>1, <1>2

LEMMA SurviveInit == Init => SurviveInv
<1> SUFFICES ASSUME Init PROVE SurviveInv
  OBVIOUS
<1>1. DataTypes
  <2>1. Idle \in [Sessions -> Nat] /\ 1 \in Nat
    BY DEF Idle, NoSql
  <2>2. <<>> \in Seq(Messages) /\ <<>> \in Seq(Lines)
    OBVIOUS
  <2>3. QED
    BY <2>1, <2>2 DEF Init, DataTypes
<1>2. Of(collector, batch) /\ Numbered
  BY DEF Init, Of, Numbered
<1>3. Orphans /\ Written
  BY DEF Init, Orphans, Written, NoRecovery, Recoveries
<1>4. QED
  BY <1>1, <1>2, <1>3 DEF SurviveInv

LEMMA SurviveStep ==
  (\A s \in Setups : ~s.anytime) /\ SurviveInv /\ ControlInv /\ [Next]_vars => SurviveInv'
<1> SUFFICES ASSUME \A s \in Setups : ~s.anytime, SurviveInv, ControlInv, [Next]_vars
             PROVE  SurviveInv'
  OBVIOUS
<1> USE DEF flags, loop, clients, forwarder, collecting, ghosts, bounds, outside
<1>1. DataTypes' /\ Of(collector, batch)' /\ Grown
  BY RowsStep DEF SurviveInv
<1>n. None \notin Nat
  BY ControlAssumption
<1>2. CASE UNCHANGED vars \/ Clients \/ Forward
  <2>1. UNCHANGED <<setup, next_capture, collector, main, stopping, recovery, files>>
    BY <1>2
       DEF vars, Clients, Connect, QueryStart, QueryEnd, Forward, FwdSessionStart, FwdOther,
           FwdCompletion, FwdReceive, FwdSend
  <2>2. QED
    BY <1>1, <2>1, SurvivesStep
<1>3. CASE CollectStaged
  <2>1. /\ UNCHANGED <<setup, next_capture, main, stopping, recovery, files>>
        /\ collector' \in {collector, None}
    BY <1>3 DEF CollectStaged, CollectEvent, PeriodicFlush, CollectorEnds
  <2>2. QED
    BY <1>1, <2>1, SurvivesStep
<1>4. CASE RequestStart \/ RequestStop \/ RefuseStart \/ Enable \/ Started
  <2>1. /\ UNCHANGED <<setup, next_capture, collector, stopping, recovery, files>>
        /\ main' = "clearing" => main = "clearing"
    BY <1>4 DEF RequestStart, RequestStop, Request, RefuseStart, Enable, Started
  <2>2. QED
    BY <1>1, <2>1, SurvivesStep
<1>5. CASE Stop \/ Shutdown \/ CloseTarget \/ Join \/ ReadFails \/ ClearStaged \/ Stopped
  <2>1. /\ UNCHANGED <<setup, next_capture, collector, recovery, files>>
        /\ main' # "clearing"
    BY <1>5
       DEF Stop, TakeCommand, TakeAutoStop, Shutdown, BeginStop, NotCapturing, CloseTarget, Join,
           ReadFails, ClearStaged, Stopped, BackToLoop
  <2>2. QED
    BY <1>1, <2>1, SurvivesStep
<1>6. CASE Crash
  <2>1. /\ UNCHANGED <<setup, next_capture, files>>
        /\ collector' = None /\ main' = "loop" /\ recovery' = NoRecovery
    BY <1>6 DEF Crash
  <2>2. NoRecovery \in Recoveries /\ NoRecovery.todo = {} /\ NoRecovery.written = None
    BY DEF NoRecovery, Recoveries
  <2>3. QED
    BY <1>1, <2>1, <2>2, SurvivesStep
<1>7. CASE Start
  <2>1. /\ UNCHANGED <<setup, db, files, recovery>> /\ collector' = next_capture
        /\ next_capture' = next_capture + 1 /\ main' = "enabling" /\ next_capture \in Nat
    BY <1>7 DEF Start, ControlInv, ControlTypes
  <2>2. \A i \in 1..Len(db) : db[i].capture \in Nat
    BY RowNumbers DEF SurviveInv
  <2>3. Numbered'
    BY <2>1, <2>2 DEF SurviveInv, Numbered
  <2>4. Orphans'
    <3>1. \A c \in recovery.todo : c < next_capture /\ c \in Nat
      BY DEF SurviveInv, Orphans, Recoveries
    <3>2. \A c \in recovery.todo : c < next_capture + 1 /\ c # next_capture
      BY <2>1, <3>1
    <3>3. QED
      BY <2>1, <3>2 DEF SurviveInv, Orphans
  <2>5. Written'
    BY <2>1 DEF SurviveInv, Written, Kept
  <2>6. QED
    BY <1>1, <2>3, <2>4, <2>5 DEF SurviveInv
<1>8. CASE WriteProfile
  <2>1. /\ UNCHANGED <<setup, next_capture, collector, stopping, recovery, db>>
        /\ main = "reading"
        /\ \/ files' = files \cup {File(stopping, "stop")}
           \/ "write" \in setup.faults /\ UNCHANGED files
    BY <1>8 DEF WriteProfile
  <2>2. Numbered' /\ Orphans'
    BY <2>1 DEF SurviveInv, Numbered, Orphans
  <2>3. PICK c : c = stopping
    OBVIOUS
  <2>4. "write" \notin setup.faults => Kept(c)'
    BY <2>1, <2>3, FileKeeps DEF SurviveInv
  <2>5. Written'
    BY <2>1, <2>3, <2>4 DEF SurviveInv, Written, Kept
  <2>6. QED
    BY <1>1, <2>2, <2>5 DEF SurviveInv
<1>9. ASSUME NEW op \in {"recover", "discard"}, ListOrphans(op) PROVE SurviveInv'
  <2>1. /\ UNCHANGED <<setup, next_capture, collector, main, stopping, active, capturing, db, files>>
        /\ main = "loop" /\ ~capturing
        /\ recovery' = [op |-> op, todo |-> {r.capture : r \in Range(db)}, written |-> None]
    BY <1>9 DEF ListOrphans, SurviveInv, DataTypes
  <2>2. collector = None
    BY <2>1 DEF ControlInv, StatusInv, StatusTrue
  <2>3. \A c \in recovery'.todo : \E i \in 1..Len(db) : db[i].capture = c
    <3>1. DOMAIN db = 1..Len(db)
      BY DEF SurviveInv, DataTypes
    <3>2. \A r \in Range(db) : \E i \in 1..Len(db) : db[i] = r
      BY <3>1, Zenon DEF Range
    <3>3. recovery'.todo = {r.capture : r \in Range(db)}
      BY <2>1
    <3>4. QED
      BY <3>2, <3>3
  <2>4. \A i \in 1..Len(db) : db[i].capture \in Nat
    BY RowNumbers DEF SurviveInv
  <2>5. recovery' \in Recoveries /\ recovery'.written = None
    <3>1. recovery'.todo \in SUBSET Nat /\ recovery'.todo = {r.capture : r \in Range(db)}
      <4>1. recovery'.todo = {r.capture : r \in Range(db)}
        BY <2>1
      <4>2. \A c \in recovery'.todo : c \in Nat
        BY <2>3, <2>4
      <4>3. QED
        BY <4>1, <4>2
    <3>2. QED
      BY <2>1, <3>1 DEF Recoveries
  <2>6. Numbered' /\ Orphans'
    <3>1. \A c \in recovery'.todo : c < next_capture /\ c # collector
      BY <2>2, <2>3, <2>4, <1>n DEF SurviveInv, Numbered
    <3>2. QED
      BY <2>1, <2>5, <3>1 DEF SurviveInv, Numbered, Orphans
  <2>7. Written'
    BY <2>1, <2>5 DEF SurviveInv, Written
  <2>8. QED
    BY <1>1, <2>6, <2>7 DEF SurviveInv
<1>10. recovery \in Recoveries
  BY DEF SurviveInv, Orphans
<1>11. ASSUME NEW c, RecoverOne(c) PROVE SurviveInv'
  <2>1. UNCHANGED <<setup, next_capture, collector, main, stopping, db>> /\ c \in recovery.todo
    BY <1>11 DEF RecoverOne
  <2>2. CASE files' = files \cup {File(c, "recover")} /\ recovery' = [recovery EXCEPT !.written = c]
    <3>1. Kept(c)'
      BY <2>1, <2>2, FileKeeps DEF SurviveInv
    <3>2. recovery' \in Recoveries /\ recovery'.todo = recovery.todo /\ recovery'.written = c
      <4>1. c \in Nat
        BY <1>10, <2>1 DEF Recoveries
      <4>2. QED
        BY <1>10, <2>2, <4>1, WrittenFields
    <3>3. Numbered' /\ Orphans'
      BY <2>1, <3>2 DEF SurviveInv, Numbered, Orphans
    <3>4. Written'
      BY <2>1, <2>2, <3>1, <3>2 DEF SurviveInv, Written, Kept
    <3>5. QED
      BY <1>1, <3>3, <3>4 DEF SurviveInv
  <2>3. CASE done_with(c) /\ UNCHANGED files
    BY <1>1, <1>10, <2>1, <2>3, DoneWith, SurvivesStep
  <2>4. QED
    BY <1>11, <2>2, <2>3 DEF RecoverOne
<1>12. ASSUME NEW c, ClearOne(c) PROVE SurviveInv'
  <2>1. UNCHANGED <<setup, next_capture, collector, main, stopping, files>> /\ done_with(c)
    BY <1>12 DEF ClearOne
  <2>2. QED
    BY <1>1, <1>10, <2>1, DoneWith, SurvivesStep
<1>13. QED
  BY <1>2, <1>3, <1>4, <1>5, <1>6, <1>7, <1>8, <1>9, <1>11, <1>12
     DEF Next, Control, MainLoop, Commands, StopSteps, Recover

\* What is removed was written, or discarded.
LEMMA RemovedStep == SurviveInv /\ [Next]_vars => [RemovedRightly]_vars
<1> SUFFICES ASSUME SurviveInv, Next PROVE RemovedRightly
  OBVIOUS
<1> USE DEF flags, loop, clients, forwarder, collecting, ghosts, bounds, outside
<1>t. DataTypes /\ db \in Seq(Lines) /\ DOMAIN db = 1..Len(db)
  BY DEF SurviveInv, DataTypes
<1>d. \A r \in Range(db) : \E i \in 1..Len(db) : db[i] = r
  BY <1>t, Zenon DEF Range
<1>n. None \notin Nat
  BY ControlAssumption
<1>1. CASE UNCHANGED db
  BY <1>1 DEF RemovedRightly
<1>2. ASSUME NEW b, Insert(b), b \in Seq(Lines) PROVE RemovedRightly
  <2>1. db' = db \/ db' = db \o b
    BY <1>2 DEF Insert
  <2>2. CASE db' = db \o b
    <3>1. /\ DOMAIN db' = 1..(Len(db) + Len(b))
          /\ \A i \in 1..Len(db) : db'[i] = db[i]
      BY <1>2, <1>t, <2>2
    <3>2. \A i \in 1..Len(db) : i \in DOMAIN db'
      BY <3>1, <1>2, <1>t
    <3>3. \A i \in 1..Len(db) : db[i] \in Range(db')
      BY <3>1, <3>2, Zenon DEF Range
    <3>4. QED
      BY <3>3, <1>d DEF RemovedRightly
  <2>3. QED
    BY <1>1, <2>1, <2>2
<1>3. ASSUME NEW c, db' = Cleared(c),
             \/ Kept(c)
             \/ "write" \in setup.faults
             \/ c \in recovery.todo /\ Recovering("discard")
      PROVE  RemovedRightly
  <2>1. \A r \in Range(db) \ Range(db') : r.capture = c
    BY <1>t, <1>3, ClearedRows
  <2>2. ASSUME Kept(c) PROVE \A r \in Range(db) : r.capture = c => \E f \in files : Holds(f, r)
    BY <2>2, <1>d DEF Kept
  <2>3. QED
    BY <1>3, <2>1, <2>2 DEF RemovedRightly
<1>4. CASE CollectStaged
  <2>1. CASE CollectEvent
    <3>1. PICK b \in Seq(Lines) : UNCHANGED db \/ Insert(b)
      BY <2>1, CollectedRows DEF SurviveInv
    <3>2. QED
      BY <1>1, <1>2, <3>1
  <2>2. CASE PeriodicFlush \/ CollectorEnds
    BY <1>2, <2>2 DEF PeriodicFlush, CollectorEnds, SurviveInv, DataTypes
  <2>3. QED
    BY <1>4, <2>1, <2>2 DEF CollectStaged
<1>5. CASE ClearStaged
  <2>1. PICK c : c = stopping
    OBVIOUS
  <2>2. Kept(c) \/ "write" \in setup.faults
    BY <1>5, <2>1 DEF ClearStaged, SurviveInv, Written
  <2>3. UNCHANGED db \/ db' = Cleared(c)
    BY <1>5, <2>1 DEF ClearStaged
  <2>4. QED
    BY <1>1, <1>3, <2>2, <2>3
<1>6. CASE Recover
  <2>1. PICK c \in Nat : RecoverOne(c) \/ ClearOne(c)
    BY <1>6 DEF Recover
  <2>2. CASE RecoverOne(c)
    BY <1>1, <2>2 DEF RecoverOne
  <2>3. CASE ClearOne(c)
    <3>1. Kept(c) \/ (c \in recovery.todo /\ Recovering("discard"))
      BY <2>3, <1>n DEF ClearOne, SurviveInv, Written
    <3>2. UNCHANGED db \/ db' = Cleared(c)
      BY <2>3 DEF ClearOne
    <3>3. QED
      BY <1>1, <1>3, <3>1, <3>2
  <2>4. QED
    BY <2>1, <2>2, <2>3
<1>7. QED
  BY <1>1, <1>4, <1>5, <1>6
     DEF Next, Control, Clients, Forward, MainLoop, Commands, StopSteps, Shutdown, Crash,
         RequestStart, RequestStop, Request, ListOrphans, Connect, QueryStart, QueryEnd,
         FwdSessionStart, FwdOther, FwdCompletion, FwdReceive, FwdSend, RefuseStart, Start, Stop,
         Enable, Started, CloseTarget, Join, ReadFails, WriteProfile, Stopped

\* Staged rows are only removed once a file holds them, when the operator
\* discards them, or after a failed write: for any sessions, batches and faults,
\* as long as nobody recovers or discards while a capture is on.
THEOREM SurviveCorrect ==
  ASSUME \A s \in Setups : ~s.anytime
  PROVE  Spec => StagedSurvive
<1>1. Init => SurviveInv
  BY SurviveInit
<1>2. SurviveInv /\ ControlInv /\ [Next]_vars => SurviveInv'
  BY SurviveStep
<1>3. QED
  BY <1>1, <1>2, ControlInit, ControlStep, RemovedStep, PTL DEF Spec, StagedSurvive

-----------------------------------------------------------------------------
(***************************************************************************)
(* A SELECT gives rows in the order of the table.  Which rows it gives is  *)
(* told by the one increasing enumeration of their places.                 *)
(***************************************************************************)
Enumerates(p, T) ==
    /\ p \in Seq(Nat)
    /\ \A i, j \in 1..Len(p) : i < j => p[i] < p[j]
    /\ \A i \in 1..Len(p) : p[i] \in T
    /\ \A n \in T : \E i \in 1..Len(p) : p[i] = n

LEMMA EnumerationsAgree ==
  ASSUME NEW p, NEW q, NEW T, Enumerates(p, T), Enumerates(q, T), NEW i \in 1..Len(p),
         i \in 1..Len(q), \A j \in 1..(i - 1) : p[j] = q[j]
  PROVE  p[i] <= q[i]
<1> SUFFICES ASSUME ~(p[i] <= q[i]) PROVE FALSE
  OBVIOUS
<1>1. p[i] \in Nat /\ q[i] \in Nat /\ q[i] \in T /\ q[i] < p[i]
  <2>1. p \in Seq(Nat) /\ q \in Seq(Nat) /\ q[i] \in T
    BY DEF Enumerates
  <2>2. p[i] \in Nat /\ q[i] \in Nat
    BY <2>1
  <2>3. QED
    BY <2>1, <2>2
<1>2. PICK j \in 1..Len(p) : p[j] = q[i]
  BY <1>1 DEF Enumerates
<1>3. CASE j < i
  <2>1. j \in 1..(i - 1) /\ j \in 1..Len(q) /\ q[j] = q[i]
    BY <1>2, <1>3
  <2>2. q[j] < q[i]
    BY <2>1, <1>3 DEF Enumerates
  <2>3. QED
    BY <1>1, <2>1, <2>2
<1>4. CASE ~(j < i)
  <2>1. j = i \/ p[i] < p[j]
    BY <1>4 DEF Enumerates
  <2>2. QED
    BY <1>1, <1>2, <2>1
<1>5. QED
  BY <1>3, <1>4

LEMMA EnumerationUnique ==
  ASSUME NEW p, NEW q, NEW T, Enumerates(p, T), Enumerates(q, T)
  PROVE  p = q
<1> DEFINE D == {i \in 1..Len(p) : i \in 1..Len(q) /\ p[i] # q[i]}
<1>0. p \in Seq(Nat) /\ q \in Seq(Nat)
  BY DEF Enumerates
<1>1. D = {}
  <2> SUFFICES ASSUME D # {} PROVE FALSE
    OBVIOUS
  <2>1. D \in SUBSET Nat
    OBVIOUS
  <2>2. PICK i \in D : \A k \in D : i <= k
    BY <2>1, LeastNumber
  <2>3. i \in 1..Len(p) /\ i \in 1..Len(q) /\ p[i] # q[i]
    OBVIOUS
  <2>4. \A j \in 1..(i - 1) : j \in 1..Len(p) /\ j \in 1..Len(q) /\ ~(i <= j)
    BY <1>0, <2>3
  <2>5. \A j \in 1..(i - 1) : p[j] = q[j]
    BY <2>2, <2>4
  <2>6. p[i] <= q[i] /\ q[i] <= p[i]
    <3>1. p[i] <= q[i]
      BY <2>3, <2>5, EnumerationsAgree
    <3>2. \A j \in 1..(i - 1) : q[j] = p[j]
      BY <2>5
    <3>3. i \in 1..Len(q) /\ i \in 1..Len(p)
      BY <2>3
    <3>4. q[i] <= p[i]
      BY ONLY Enumerates(q, T), Enumerates(p, T), <3>2, <3>3, EnumerationsAgree, ZenonT(60)
    <3>5. QED
      BY <3>1, <3>4
  <2>7. p[i] \in Nat /\ q[i] \in Nat
    <3>1. i \in 1..Len(p) /\ i \in 1..Len(q)
      BY <2>3
    <3>2. p[i] \in Nat
      BY <1>0, <3>1, ElementOfSeq, Zenon
    <3>3. q[i] \in Nat
      BY <1>0, <3>1, ElementOfSeq, Zenon
    <3>4. QED
      BY <3>2, <3>3
  <2>8. QED
    BY <2>3, <2>6, <2>7
<1>2. ASSUME NEW a, NEW b, Enumerates(a, T), Enumerates(b, T), Len(a) < Len(b),
             \A i \in 1..Len(a) : a[i] = b[i]
      PROVE  FALSE
  <2> DEFINE n == Len(a) + 1
  <2>1. n \in 1..Len(b) /\ Len(a) \in Nat
    BY <1>2 DEF Enumerates
  <2>2. b[n] \in T
    BY <1>2, <2>1 DEF Enumerates
  <2>3. PICK i \in 1..Len(a) : a[i] = b[n]
    BY <1>2, <2>2 DEF Enumerates
  <2>4. i \in 1..Len(b) /\ i < n /\ b[i] = b[n] /\ b[n] \in Nat
    <3>1. i \in 1..Len(b) /\ i < n
      BY <1>2, <2>1, <2>3
    <3>2. b \in Seq(Nat)
      BY <1>2 DEF Enumerates
    <3>3. b[n] \in Nat
      BY <2>1, <3>2
    <3>4. QED
      BY <1>2, <2>3, <3>1, <3>3
  <2>5. b[i] < b[n]
    BY <1>2, <2>1, <2>4 DEF Enumerates
  <2>6. QED
    BY <2>4, <2>5
<1>3. Len(p) \in Nat /\ Len(q) \in Nat
  BY <1>0
<1>4. \A i \in 1..Len(p) : i \in 1..Len(q) => p[i] = q[i]
  BY <1>1
<1>5. ~(Len(p) < Len(q))
  <2> SUFFICES ASSUME Len(p) < Len(q) PROVE FALSE
    OBVIOUS
  <2>1. \A i \in 1..Len(p) : p[i] = q[i]
    BY <1>3, <1>4
  <2>2. QED
    BY <1>2, <2>1
<1>6. ~(Len(q) < Len(p))
  <2> SUFFICES ASSUME Len(q) < Len(p) PROVE FALSE
    OBVIOUS
  <2>1. \A i \in 1..Len(q) : q[i] = p[i]
    BY <1>3, <1>4
  <2>2. QED
    BY <1>2, <2>1
<1>7. Len(p) = Len(q)
  BY <1>3, <1>5, <1>6
<1>8. QED
  BY <1>0, <1>4, <1>7, SeqEqual

\* g lists the rows at the places T.
Lists(g, rows, T) ==
    \E p : /\ Enumerates(p, T)
           /\ g = [i \in 1..Len(p) |-> rows[p[i]]]

LEMMA ListUnique ==
  ASSUME NEW rows, NEW T, NEW g, NEW h, Lists(g, rows, T), Lists(h, rows, T)
  PROVE  g = h
BY EnumerationUnique, Zenon DEF Lists

Places(rows, which) == {n \in 1..Len(rows) : rows[n] \in which}

\* Places in order, and one more that comes after them.
LEMMA EnumerateNext ==
  ASSUME NEW p, NEW T, Enumerates(p, T), NEW n \in Nat, \A k \in T : k < n
  PROVE  Enumerates(Append(p, n), T \cup {n})
<1> DEFINE q == Append(p, n)
<1>1. p \in Seq(Nat) /\ Len(p) \in Nat
  BY DEF Enumerates
<1>2. q \in Seq(Nat) /\ Len(q) = Len(p) + 1 /\ q[Len(p) + 1] = n
      /\ \A i \in 1..Len(p) : q[i] = p[i]
  BY <1>1
<1> HIDE DEF q
<1>3. ASSUME NEW i \in 1..Len(q), NEW j \in 1..Len(q), i < j PROVE q[i] < q[j]
  <2>1. i \in 1..Len(p) /\ (j \in 1..Len(p) \/ j = Len(p) + 1)
    BY <1>1, <1>2, <1>3
  <2>2. p[i] \in T /\ (j \in 1..Len(p) => p[i] < p[j])
    BY <2>1, <1>3 DEF Enumerates
  <2>3. QED
    BY <1>2, <2>1, <2>2
<1>4. \A i \in 1..Len(q) : q[i] \in T \cup {n}
  <2> TAKE i \in 1..Len(q)
  <2>1. i \in 1..Len(p) \/ i = Len(p) + 1
    BY <1>1, <1>2
  <2>2. i \in 1..Len(p) => p[i] \in T
    BY DEF Enumerates
  <2>3. QED
    BY <1>2, <2>1, <2>2
<1>5. ASSUME NEW k \in T \cup {n} PROVE \E i \in 1..Len(q) : q[i] = k
  <2>1. CASE k \in T
    <3>1. PICK i \in 1..Len(p) : p[i] = k
      BY <2>1 DEF Enumerates
    <3>2. i \in 1..Len(q) /\ q[i] = k
      BY <1>1, <1>2, <3>1
    <3>3. QED
      BY <3>2
  <2>2. CASE k = n
    <3>1. Len(p) + 1 \in 1..Len(q)
      BY <1>1, <1>2
    <3>2. QED
      BY <1>2, <2>2, <3>1
  <2>3. QED
    BY <2>1, <2>2
<1>6. QED
  BY <1>2, <1>3, <1>4, <1>5 DEF Enumerates, q

LEMMA ListNext ==
  ASSUME NEW g, NEW rows, NEW T, Lists(g, rows, T), NEW n \in Nat, \A k \in T : k < n
  PROVE  Lists(Append(g, rows[n]), rows, T \cup {n})
<1>1. PICK p : Enumerates(p, T) /\ g = [i \in 1..Len(p) |-> rows[p[i]]]
  BY Zenon DEF Lists
<1> DEFINE q == Append(p, n)
           h == [i \in 1..Len(q) |-> rows[q[i]]]
<1>2. Enumerates(q, T \cup {n})
  BY <1>1, EnumerateNext
<1>3. p \in Seq(Nat) /\ Len(p) \in Nat
  BY <1>1 DEF Enumerates
<1>4. Len(q) = Len(p) + 1 /\ q[Len(p) + 1] = n /\ \A i \in 1..Len(p) : q[i] = p[i]
  BY <1>3
<1> HIDE DEF q
<1>5. g \in Seq({rows[p[i]] : i \in 1..Len(p)}) /\ Len(g) = Len(p)
  BY <1>1, <1>3
<1>6. Append(g, rows[n]) = [i \in 1..(Len(g) + 1) |-> IF i = Len(g) + 1 THEN rows[n] ELSE g[i]]
  BY <1>5
<1>7. h = [i \in 1..(Len(p) + 1) |-> IF i = Len(p) + 1 THEN rows[n] ELSE rows[p[i]]]
  BY <1>3, <1>4
<1>8. h = Append(g, rows[n])
  <2>1. \A i \in 1..Len(p) : g[i] = rows[p[i]]
    BY <1>1
  <2>2. [i \in 1..(Len(p) + 1) |-> IF i = Len(p) + 1 THEN rows[n] ELSE g[i]]
          = [i \in 1..(Len(p) + 1) |-> IF i = Len(p) + 1 THEN rows[n] ELSE rows[p[i]]]
    BY <1>3, <2>1
  <2>3. Append(g, rows[n]) = [i \in 1..(Len(p) + 1) |-> IF i = Len(p) + 1 THEN rows[n] ELSE g[i]]
    BY <1>5, <1>6, Zenon
  <2>4. QED
    BY <1>7, <2>2, <2>3, Zenon
<1>9. QED
  BY <1>2, <1>8, Zenon DEF Lists

LEMMA StepsLists ==
  ASSUME NEW rows, Len(rows) \in Nat, NEW which, NEW f, Steps(f, rows, which, Len(rows)),
         NEW m \in 0..Len(rows)
  PROVE  Lists(f[m], rows, {n \in 1..m : rows[n] \in which})
<1> DEFINE P(k) == {n \in 1..k : rows[n] \in which}
           T == {k \in 0..Len(rows) : ~Lists(f[k], rows, P(k))}
<1>1. SUFFICES ASSUME T # {} PROVE FALSE
  OBVIOUS
<1>2. PICK k \in T : \A j \in T : k <= j
  <2>1. T \in SUBSET Nat
    OBVIOUS
  <2>2. QED
    BY <1>1, <2>1, LeastNumber
<1>3. \A n \in 0..Len(rows) : f[n] =
        IF n = 0 THEN <<>>
        ELSE IF rows[n] \in which THEN Append(f[n - 1], rows[n]) ELSE f[n - 1]
  BY DEF Steps
<1>4. k # 0
  <2>1. f[0] = <<>> /\ P(0) = {}
    <3>1. 0 \in 0..Len(rows)
      OBVIOUS
    <3>2. QED
      BY <1>3, <3>1
  <2>2. Enumerates(<<>>, {})
    BY DEF Enumerates
  <2>3. <<>> = [i \in 1..Len(<<>>) |-> rows[<<>>[i]]]
    OBVIOUS
  <2>4. Lists(<<>>, rows, {})
    BY <2>2, <2>3, Zenon DEF Lists
  <2>5. Lists(f[0], rows, P(0))
    BY <2>1, <2>4
  <2>6. QED
    BY <2>5
<1>5. k \in 1..Len(rows) /\ k - 1 \in 0..Len(rows) /\ ~(k <= k - 1)
  BY <1>4
<1>6. Lists(f[k - 1], rows, P(k - 1))
  BY <1>2, <1>5
<1>7. f[k] = IF rows[k] \in which THEN Append(f[k - 1], rows[k]) ELSE f[k - 1]
  BY <1>3, <1>4, <1>5
<1>8. Lists(f[k], rows, P(k))
  <2>1. CASE rows[k] \in which
    <3>1. P(k) = P(k - 1) \cup {k}
      BY <1>5, <2>1
    <3>2. \A j \in P(k - 1) : j < k
      BY <1>5
    <3>3. k \in Nat
      BY <1>5
    <3> HIDE DEF P
    <3>4. Lists(Append(f[k - 1], rows[k]), rows, P(k - 1) \cup {k})
      BY <1>6, <3>2, <3>3, ListNext
    <3>5. QED
      BY <1>7, <2>1, <3>1, <3>4
  <2>2. CASE rows[k] \notin which
    <3>1. P(k) = P(k - 1)
      BY <1>5, <2>2
    <3> HIDE DEF P
    <3>2. QED
      BY <1>6, <1>7, <2>2, <3>1
  <2>3. QED
    BY <2>1, <2>2
<1>9. QED
  BY <1>8

\* A SELECT lists the rows at the places of those asked for.
LEMMA SelectedLists ==
  ASSUME NEW rows, Len(rows) \in Nat, NEW which
  PROVE  Lists(Selected(rows, which), rows, Places(rows, which))
<1> DEFINE f == CHOOSE h : Steps(h, rows, which, Len(rows))
<1>1. Steps(f, rows, which, Len(rows))
  BY StepsExist, Zenon
<1>2. Selected(rows, which) = f[Len(rows)]
  BY Zenon DEF Selected, Steps
<1> HIDE DEF f
<1>3. Len(rows) \in 0..Len(rows)
  OBVIOUS
<1>4. Lists(f[Len(rows)], rows, {n \in 1..Len(rows) : rows[n] \in which})
  BY <1>1, <1>3, StepsLists
<1>5. QED
  BY <1>2, <1>4 DEF Places

LEMMA SelectedIs ==
  ASSUME NEW rows, Len(rows) \in Nat, NEW which, NEW g, Lists(g, rows, Places(rows, which))
  PROVE  Selected(rows, which) = g
BY SelectedLists, ListUnique

LEMMA ListAlike ==
  ASSUME NEW g, NEW rows, NEW others, NEW T, Lists(g, rows, T), \A n \in T : rows[n] = others[n]
  PROVE  Lists(g, others, T)
<1>1. PICK p : Enumerates(p, T) /\ g = [i \in 1..Len(p) |-> rows[p[i]]]
  BY Zenon DEF Lists
<1>2. \A i \in 1..Len(p) : rows[p[i]] = others[p[i]]
  BY <1>1 DEF Enumerates
<1>3. g = [i \in 1..Len(p) |-> others[p[i]]]
  BY <1>1, <1>2
<1>4. QED
  BY <1>1, <1>3, Zenon DEF Lists

\* Nothing is listed where there is nothing.
LEMMA SelectedNone ==
  ASSUME NEW rows, Len(rows) \in Nat, NEW which, Places(rows, which) = {}
  PROVE  Selected(rows, which) = <<>>
<1>1. Enumerates(<<>>, {})
  BY DEF Enumerates
<1>2. <<>> = [i \in 1..Len(<<>>) |-> rows[<<>>[i]]]
  OBVIOUS
<1>3. Lists(<<>>, rows, {})
  BY <1>1, <1>2, Zenon DEF Lists
<1>4. QED
  BY <1>3, SelectedIs

\* One more row.
LEMMA SelectedAppend ==
  ASSUME NEW S, NEW rows \in Seq(S), NEW r \in S, NEW which
  PROVE  Selected(Append(rows, r), which)
           = IF r \in which THEN Append(Selected(rows, which), r) ELSE Selected(rows, which)
<1> DEFINE others == Append(rows, r)
           g == Selected(rows, which)
           T == Places(rows, which)
           n == Len(rows) + 1
<1>1. /\ others \in Seq(S) /\ Len(others) = n /\ others[n] = r /\ n \in Nat /\ Len(rows) \in Nat
      /\ \A k \in 1..Len(rows) : others[k] = rows[k]
  OBVIOUS
<1>2. Lists(g, rows, T)
  BY <1>1, SelectedLists
<1>3. \A k \in T : k < n /\ others[k] = rows[k]
  BY <1>1 DEF Places
<1> HIDE DEF g
<1>4. Lists(g, others, T)
  BY <1>2, <1>3, ListAlike
<1>5. CASE r \in which
  <2>1. Places(others, which) = T \cup {n}
    BY <1>1, <1>5 DEF Places
  <2> HIDE DEF others, T
  <2>2. Lists(Append(g, others[n]), others, T \cup {n})
    BY <1>1, <1>3, <1>4, ListNext
  <2>3. Lists(Append(g, r), others, Places(others, which))
    BY <1>1, <2>1, <2>2
  <2>4. Len(others) \in Nat
    BY <1>1
  <2>5. Selected(others, which) = Append(g, r)
    BY <2>3, <2>4, SelectedIs
  <2>6. QED
    BY <1>5, <2>5 DEF others, g
<1>6. CASE r \notin which
  <2>1. Places(others, which) = T
    BY <1>1, <1>6 DEF Places
  <2> HIDE DEF others, T
  <2>2. Len(others) \in Nat
    BY <1>1
  <2>3. Selected(others, which) = g
    BY <1>4, <2>1, <2>2, SelectedIs
  <2>4. QED
    BY <1>6, <2>3 DEF others, g
<1>7. QED
  BY <1>5, <1>6

\* A SELECT over what a SELECT gave.
LEMMA SelectedTwice ==
  ASSUME NEW S, NEW rows \in Seq(S), NEW X, NEW Y, NEW Z,
         \A k \in 1..Len(rows) : rows[k] \in Z <=> rows[k] \in X /\ rows[k] \in Y
  PROVE  Selected(Selected(rows, X), Y) = Selected(rows, Z)
<1>0. Len(rows) \in Nat
  OBVIOUS
<1>1. PICK g : g = Selected(rows, X)
  OBVIOUS
<1>2. PICK h : h = Selected(g, Y)
  OBVIOUS
<1>3. g \in Seq(S) /\ Len(g) \in Nat
  BY <1>1, SelectedRows
<1>4. Lists(g, rows, Places(rows, X)) /\ Lists(h, g, Places(g, Y))
  BY <1>0, <1>1, <1>2, <1>3, SelectedLists
<1>5. PICK p : Enumerates(p, Places(rows, X)) /\ g = [i \in 1..Len(p) |-> rows[p[i]]]
  BY <1>4, Zenon DEF Lists
<1>6. PICK q : Enumerates(q, Places(g, Y)) /\ h = [i \in 1..Len(q) |-> g[q[i]]]
  BY <1>4, Zenon DEF Lists
<1> DEFINE t == [i \in 1..Len(q) |-> p[q[i]]]
<1>7. p \in Seq(Nat) /\ q \in Seq(Nat) /\ Len(p) \in Nat /\ Len(q) \in Nat
  BY <1>5, <1>6 DEF Enumerates
<1>8. Len(g) = Len(p)
  BY <1>3, <1>5, <1>7
<1>9. \A i \in 1..Len(q) : q[i] \in 1..Len(p) /\ rows[p[q[i]]] \in Y
  <2> TAKE i \in 1..Len(q)
  <2>1. q[i] \in Places(g, Y)
    BY <1>6 DEF Enumerates
  <2>2. q[i] \in 1..Len(p) /\ g[q[i]] \in Y
    BY <2>1, <1>8 DEF Places
  <2>3. QED
    BY <2>2, <1>5
<1>10. t \in Seq(Nat) /\ Len(t) = Len(q)
  <2>1. \A i \in 1..Len(q) : p[q[i]] \in Nat
    BY <1>7, <1>9
  <2>2. QED
    BY <1>7, <2>1
<1>11. \A i \in 1..Len(q) : t[i] = p[q[i]]
  OBVIOUS
<1> HIDE DEF t
<1>12. \A i, j \in 1..Len(t) : i < j => t[i] < t[j]
  <2> SUFFICES ASSUME NEW i \in 1..Len(t), NEW j \in 1..Len(t), i < j PROVE t[i] < t[j]
    OBVIOUS
  <2>1. q[i] < q[j] /\ q[i] \in 1..Len(p) /\ q[j] \in 1..Len(p)
    BY <1>6, <1>9, <1>10 DEF Enumerates
  <2>2. p[q[i]] < p[q[j]]
    BY <1>5, <2>1 DEF Enumerates
  <2>3. QED
    BY <1>10, <1>11, <2>2
<1>13. \A i \in 1..Len(t) : t[i] \in Places(rows, Z)
  <2> TAKE i \in 1..Len(t)
  <2>1. q[i] \in 1..Len(p) /\ rows[p[q[i]]] \in Y /\ t[i] = p[q[i]]
    BY <1>9, <1>10, <1>11
  <2>2. p[q[i]] \in Places(rows, X)
    BY <1>5, <2>1 DEF Enumerates
  <2>3. QED
    BY <2>1, <2>2 DEF Places
<1>14. ASSUME NEW n \in Places(rows, Z) PROVE \E i \in 1..Len(t) : t[i] = n
  <2>1. n \in Places(rows, X) /\ rows[n] \in Y
    BY DEF Places
  <2>2. PICK k \in 1..Len(p) : p[k] = n
    BY <1>5, <2>1 DEF Enumerates
  <2>3. k \in Places(g, Y)
    BY <1>5, <1>8, <2>1, <2>2 DEF Places
  <2>4. PICK i \in 1..Len(q) : q[i] = k
    BY <1>6, <2>3 DEF Enumerates
  <2>5. QED
    BY <1>10, <1>11, <2>2, <2>4
<1>15. Enumerates(t, Places(rows, Z))
  BY <1>10, <1>12, <1>13, <1>14 DEF Enumerates
<1>16. h = [i \in 1..Len(t) |-> rows[t[i]]]
  <2>1. \A i \in 1..Len(q) : g[q[i]] = rows[t[i]]
    BY <1>5, <1>9, <1>11
  <2>2. QED
    BY <1>6, <1>10, <2>1
<1>17. Lists(h, rows, Places(rows, Z))
  BY <1>15, <1>16, Zenon DEF Lists
<1>18. QED
  BY <1>0, <1>1, <1>2, <1>17, SelectedIs

LEMMA ConcatShape ==
  ASSUME NEW S, NEW g \in Seq(S), NEW h \in Seq(S)
  PROVE  g \o h = [i \in 1..(Len(g) + Len(h)) |-> IF i <= Len(g) THEN g[i] ELSE h[i - Len(g)]]
<1>1. PICK c : c = g \o h
  OBVIOUS
<1>2. /\ c \in Seq(S) /\ Len(c) = Len(g) + Len(h)
      /\ \A i \in 1..(Len(g) + Len(h)) : c[i] = IF i <= Len(g) THEN g[i] ELSE h[i - Len(g)]
  BY <1>1, ConcatProperties
<1>3. c = [i \in 1..Len(c) |-> c[i]]
  BY <1>2
<1>4. QED
  BY <1>1, <1>2, <1>3

\* A SELECT over two tables, one after the other.
LEMMA SelectedConcat ==
  ASSUME NEW S, NEW a \in Seq(S), NEW b \in Seq(S), NEW which
  PROVE  Selected(a \o b, which) = Selected(a, which) \o Selected(b, which)
<1> DEFINE d == Len(a)
           T == Places(a, which)
           U == Places(b, which)
<1>0. d \in Nat /\ Len(b) \in Nat
  OBVIOUS
<1>1. PICK c : c = a \o b
  OBVIOUS
<1>2. /\ c \in Seq(S) /\ Len(c) \in Nat /\ Len(c) = d + Len(b)
      /\ \A n \in 1..d : c[n] = a[n]
      /\ \A n \in 1..Len(b) : c[d + n] = b[n]
  BY <1>1
<1>3. PICK g : g = Selected(a, which)
  OBVIOUS
<1>4. PICK h : h = Selected(b, which)
  OBVIOUS
<1>5. g \in Seq(S) /\ h \in Seq(S)
  BY <1>3, <1>4, SelectedRows
<1>6. Lists(g, a, T) /\ Lists(h, b, U)
  BY <1>0, <1>3, <1>4, SelectedLists
<1>7. PICK p : Enumerates(p, T) /\ g = [i \in 1..Len(p) |-> a[p[i]]]
  BY <1>6, Zenon DEF Lists
<1>8. PICK q : Enumerates(q, U) /\ h = [i \in 1..Len(q) |-> b[q[i]]]
  BY <1>6, Zenon DEF Lists
<1>9. p \in Seq(Nat) /\ q \in Seq(Nat) /\ Len(p) \in Nat /\ Len(q) \in Nat
  BY <1>7, <1>8 DEF Enumerates
<1> DEFINE m == Len(p)
           t == [i \in 1..(m + Len(q)) |-> IF i <= m THEN p[i] ELSE d + q[i - m]]
<1>p. \A i \in 1..m : p[i] \in 1..d /\ a[p[i]] \in which
  BY <1>7 DEF Enumerates, Places
<1>q. \A i \in 1..Len(q) : q[i] \in 1..Len(b) /\ b[q[i]] \in which
  BY <1>8 DEF Enumerates, Places
<1>10. t \in Seq(Nat) /\ Len(t) = m + Len(q)
  <2>1. \A i \in 1..(m + Len(q)) : t[i] \in Nat
    BY <1>0, <1>9, <1>p, <1>q
  <2>2. QED
    BY <1>9, <2>1
<1>11. /\ \A i \in 1..m : t[i] = p[i]
       /\ \A i \in 1..Len(q) : t[m + i] = d + q[i]
       /\ \A i \in 1..Len(t) : i \in 1..m \/ \E j \in 1..Len(q) : i = m + j
  <2>1. \A i \in 1..m : i \in 1..(m + Len(q)) /\ i <= m
    BY <1>9
  <2>2. \A i \in 1..Len(q) : m + i \in 1..(m + Len(q)) /\ ~(m + i <= m) /\ m + i - m = i
    BY <1>9
  <2>3. ASSUME NEW i \in 1..(m + Len(q)), i \notin 1..m PROVE \E j \in 1..Len(q) : i = m + j
    <3>1. i - m \in 1..Len(q) /\ i = m + (i - m)
      BY <1>9, <2>3
    <3>2. QED
      BY <3>1
  <2>4. QED
    BY <1>10, <2>1, <2>2, <2>3
<1> HIDE DEF t, d, m
<1>12. \A i, j \in 1..Len(t) : i < j => t[i] < t[j]
  <2> SUFFICES ASSUME NEW i \in 1..Len(t), NEW j \in 1..Len(t), i < j PROVE t[i] < t[j]
    OBVIOUS
  <2>0. m \in Nat
    BY <1>9 DEF m
  <2>1. CASE j \in 1..m
    <3>1. i \in 1..m
      BY <1>9, <1>10, <2>0, <2>1
    <3>2. p[i] < p[j]
      BY <1>7, <2>1, <3>1 DEF Enumerates, m
    <3>3. QED
      BY <1>11, <2>1, <3>1, <3>2
  <2>2. ASSUME NEW y \in 1..Len(q), j = m + y, i \in 1..m PROVE t[i] < t[j]
    <3>1. t[i] \in 1..d /\ t[j] = d + q[y] /\ q[y] \in 1..Len(b)
      BY <1>11, <1>p, <1>q, <2>2
    <3>2. QED
      BY <1>0, <3>1
  <2>3. ASSUME NEW y \in 1..Len(q), j = m + y, NEW x \in 1..Len(q), i = m + x PROVE t[i] < t[j]
    <3>1. x < y
      BY <1>9, <2>0, <2>3
    <3>2. q[x] < q[y] /\ q[x] \in 1..Len(b) /\ q[y] \in 1..Len(b)
      BY <1>8, <1>q, <3>1 DEF Enumerates
    <3>3. t[i] = d + q[x] /\ t[j] = d + q[y]
      BY <1>11, <2>3
    <3>4. QED
      BY <1>0, <3>2, <3>3
  <2>4. QED
    BY <1>11, <2>1, <2>2, <2>3
<1>13. \A i \in 1..Len(t) : t[i] \in Places(c, which)
  <2> TAKE i \in 1..Len(t)
  <2>1. CASE i \in 1..m
    <3>1. t[i] \in 1..d /\ a[t[i]] \in which
      BY <1>11, <1>p, <2>1
    <3>2. t[i] \in 1..Len(c) /\ c[t[i]] = a[t[i]]
      BY <1>0, <1>2, <3>1
    <3>3. QED
      BY <3>1, <3>2 DEF Places
  <2>2. ASSUME NEW j \in 1..Len(q), i = m + j PROVE t[i] \in Places(c, which)
    <3>1. PICK k : k = q[j]
      OBVIOUS
    <3>2. t[i] = d + k /\ k \in 1..Len(b) /\ b[k] \in which
      BY <1>11, <1>q, <2>2, <3>1
    <3>3. t[i] \in 1..Len(c) /\ c[t[i]] = b[k]
      BY <1>0, <1>2, <3>2, SMTT(30)
    <3>4. QED
      BY <3>2, <3>3 DEF Places
  <2>3. QED
    BY <1>11, <2>1, <2>2
<1>14. ASSUME NEW n \in Places(c, which) PROVE \E i \in 1..Len(t) : t[i] = n
  <2>0. n \in 1..Len(c) /\ c[n] \in which /\ m \in Nat
    BY <1>9 DEF Places, m
  <2>1. CASE n \in 1..d
    <3>1. n \in T
      BY <1>2, <2>0, <2>1 DEF Places, d
    <3>2. PICK i \in 1..m : p[i] = n
      BY <1>7, <3>1 DEF Enumerates, m
    <3>3. i \in 1..Len(t) /\ t[i] = n
      BY <1>9, <1>10, <1>11, <2>0, <3>2
    <3>4. QED
      BY <3>3
  <2>2. CASE n \notin 1..d
    <3>1. PICK k \in 1..Len(b) : n = d + k
      <4>1. n - d \in 1..Len(b) /\ n = d + (n - d)
        BY <1>0, <1>2, <2>0, <2>2
      <4>2. QED
        BY <4>1
    <3>2. k \in U
      BY <1>2, <2>0, <3>1 DEF Places
    <3>3. PICK j \in 1..Len(q) : q[j] = k
      BY <1>8, <3>2 DEF Enumerates
    <3>4. t[m + j] = d + q[j]
      BY <1>11
    <3>5. m + j \in 1..Len(t)
      BY <1>9, <1>10, <2>0
    <3>6. t[m + j] = n
      BY <3>1, <3>3, <3>4
    <3>7. QED
      BY <3>5, <3>6
  <2>3. QED
    BY <2>1, <2>2
<1>15. Enumerates(t, Places(c, which))
  BY <1>10, <1>12, <1>13, <1>14 DEF Enumerates
<1>16. g \o h = [i \in 1..Len(t) |-> c[t[i]]]
  <2>1. Len(g) = m /\ Len(h) = Len(q) /\ m \in Nat
    BY <1>5, <1>7, <1>8, <1>9 DEF m
  <2>2. g \o h = [i \in 1..(m + Len(q)) |-> IF i <= m THEN g[i] ELSE h[i - m]]
    <3>1. g \o h = [i \in 1..(Len(g) + Len(h)) |-> IF i <= Len(g) THEN g[i] ELSE h[i - Len(g)]]
      BY <1>5, ConcatShape, Zenon
    <3>2. QED
      BY ONLY <2>1, <3>1
  <2>3. \A i \in 1..m : g[i] = c[t[i]]
    <3> TAKE i \in 1..m
    <3>1. g[i] = a[p[i]] /\ p[i] \in 1..d /\ t[i] = p[i]
      BY <1>7, <1>11, <1>p DEF m
    <3>2. QED
      BY <1>2, <3>1
  <2>4. \A i \in 1..Len(q) : h[i] = c[t[m + i]]
    <3> TAKE i \in 1..Len(q)
    <3>1. h[i] = b[q[i]] /\ q[i] \in 1..Len(b) /\ t[m + i] = d + q[i]
      BY <1>8, <1>11, <1>q
    <3>2. QED
      BY <1>2, <3>1
  <2>5. ASSUME NEW i \in 1..Len(t) PROVE c[t[i]] = IF i <= m THEN g[i] ELSE h[i - m]
    <3>1. CASE i <= m
      <4>1. i \in 1..m
        BY <1>9, <1>10, <2>1, <3>1
      <4>2. QED
        BY <2>3, <3>1, <4>1
    <3>2. CASE ~(i <= m)
      <4>1. i - m \in 1..Len(q) /\ m + (i - m) = i
        BY <1>9, <1>10, <2>1, <3>2
      <4>2. QED
        BY <2>4, <3>2, <4>1
    <3>3. QED
      BY <3>1, <3>2
  <2>6. QED
    BY <1>10, <2>2, <2>5
<1>17. Lists(g \o h, c, Places(c, which))
  BY <1>15, <1>16, Zenon DEF Lists
<1>18. Selected(c, which) = g \o h
  BY <1>2, <1>17, SelectedIs
<1>19. QED
  BY <1>1, <1>3, <1>4, <1>18

\* The same places of two tables.
LEMMA SelectedAlike ==
  ASSUME NEW rows, NEW others, Len(rows) \in Nat, Len(others) = Len(rows), NEW which,
         \A n \in 1..Len(rows) : rows[n] \in which <=> others[n] \in which
  PROVE  \E p : /\ Enumerates(p, Places(rows, which))
                /\ Selected(rows, which) = [i \in 1..Len(p) |-> rows[p[i]]]
                /\ Selected(others, which) = [i \in 1..Len(p) |-> others[p[i]]]
<1>1. Places(rows, which) = Places(others, which)
  BY DEF Places
<1>2. /\ Lists(Selected(rows, which), rows, Places(rows, which))
      /\ Lists(Selected(others, which), others, Places(others, which))
  BY SelectedLists
<1>3. PICK p : /\ Enumerates(p, Places(rows, which))
               /\ Selected(rows, which) = [i \in 1..Len(p) |-> rows[p[i]]]
  BY <1>2, Zenon DEF Lists
<1>4. PICK q : /\ Enumerates(q, Places(others, which))
               /\ Selected(others, which) = [i \in 1..Len(q) |-> others[q[i]]]
  BY <1>2, Zenon DEF Lists
<1>5. p = q
  BY <1>1, <1>3, <1>4, EnumerationUnique, Zenon
<1>6. QED
  BY <1>3, <1>4, <1>5

LEMMA GreatestNumber ==
  ASSUME NEW n \in Nat, NEW T \in SUBSET (0..n), T # {}
  PROVE  \E m \in T : \A k \in T : m >= k
<1> DEFINE U == {j \in 0..n : n - j \in T}
<1>1. U \in SUBSET Nat /\ U # {}
  <2>1. PICK k \in T : TRUE
    OBVIOUS
  <2>2. n - k \in 0..n /\ n - (n - k) = k
    OBVIOUS
  <2>3. n - k \in U
    BY <2>1, <2>2
  <2>4. U # {}
    BY <2>3, Zenon
  <2>5. U \in SUBSET Nat
    OBVIOUS
  <2>6. QED
    BY <2>4, <2>5
<1>2. PICK j \in U : \A k \in U : j <= k
  BY <1>1, LeastNumber
<1>3. \A k \in T : n - k \in U /\ k \in 0..n
  <2> TAKE k \in T
  <2>1. n - k \in 0..n /\ n - (n - k) = k
    OBVIOUS
  <2>2. QED
    BY <2>1
<1>4. \A k \in T : n - j >= k
  <2> TAKE k \in T
  <2>1. j <= n - k /\ k \in 0..n /\ j \in 0..n
    BY <1>2, <1>3
  <2>2. QED
    BY ONLY <2>1, n \in Nat
<1>5. QED
  BY <1>4

LEMMA GreatestPlace ==
  ASSUME NEW rows \in Seq(Lines), NEW s, NEW T,
         T = {k \in 1..Len(rows) : rows[k].session = s}, T # {}
  PROVE  Max(T) \in T /\ \A k \in T : Max(T) >= k
<1>1. Len(rows) \in Nat /\ T \in SUBSET (0..Len(rows))
  OBVIOUS
<1>2. PICK m \in T : \A k \in T : m >= k
  BY <1>1, GreatestNumber
<1>3. QED
  BY <1>2, Zenon DEF Max

-----------------------------------------------------------------------------
(***************************************************************************)
(* What is collected is what was forwarded, later.  The states an          *)
(* in-memory collector goes through on the events that wait in the staging *)
(* channel begin with one the rows agree with, and end with forwarded.     *)
(***************************************************************************)
Made == [sql : Nat, is_error : BOOLEAN, response_values : Seq(Nat)]
Collected == [queries : Seq(Made), pending_sql : Nat]
States == [Sessions -> Collected]

RowsOf(c, s) == {r \in Lines : r.capture = c /\ r.session = s}

\* The rows of session s and the queries a collector has of it; ret holds what
\* was attached to which query.
Agrees(s, st, rows, ret) ==
    /\ Len(rows) = Len(st.queries)
    /\ \A i \in 1..Len(rows) :
          /\ rows[i].sql = st.queries[i].sql
          /\ rows[i].response_values # <<>> => <<s, i, rows[i].response_values>> \in ret

\* The states of all sessions after one more message.
After(st, m) ==
    IF m.event = SessionStart THEN st
    ELSE [st EXCEPT ![m.session] = Staged!Collect(@, m.event)]

\* RETURNING rows are attached to the last query there is.
Noted(st, m, ret) ==
    m.event.type = "QueryReturning" =>
        <<m.session, Len(st[m.session].queries), m.event.rows>> \in ret

Runs(h, events, ret) ==
    /\ h \in Seq(States) /\ Len(h) = Len(events) + 1
    /\ \A k \in 1..Len(events) :
          h[k + 1] = After(h[k], events[k]) /\ Noted(h[k], events[k], ret)

Ends(h, first, last) == h[1] = first /\ h[Len(h)] = last

\* The collector of capture c is at state st.
Reached(c, st, waiting, rows, ret) ==
    \A s \in Sessions :
        st[s].pending_sql = waiting[s] /\ Agrees(s, st[s], Selected(rows, RowsOf(c, s)), ret)

\* A message is of a session that connects, or of a query.
LEMMA MessageKinds ==
  ASSUME NEW m \in Messages
  PROVE  \/ m.event = SessionStart /\ m.event.type = "SessionStart"
         \/ /\ m.session \in Sessions /\ m.event \in QueryEvents /\ m.event # SessionStart
            /\ m.event.type \in {"QueryStart", "QueryComplete", "QueryError", "QueryReturning"}
<1>1. CASE m = Event(None, SessionStart)
  BY <1>1 DEF Event, SessionStart
<1>2. ASSUME NEW s \in Sessions, NEW e \in QueryEvents, m = Event(s, e)
      PROVE  /\ m.session \in Sessions /\ m.event \in QueryEvents /\ m.event # SessionStart
             /\ m.event.type \in {"QueryStart", "QueryComplete", "QueryError", "QueryReturning"}
  <2>1. m.session = s /\ m.event = e
    BY <1>2 DEF Event
  <2>2. e.type \in {"QueryStart", "QueryComplete", "QueryError", "QueryReturning"}
    BY DEF QueryEvents, Staged!QueryStart, Staged!QueryComplete, Staged!QueryError,
           Staged!QueryReturning
  <2>3. SessionStart.type = "SessionStart"
    BY DEF SessionStart
  <2>4. QED
    BY <2>1, <2>2, <2>3
<1>3. QED
  BY <1>1, <1>2 DEF Messages

\* What an event does to the state of its session.
LEMMA FinishedState ==
  ASSUME NEW st \in Collected, NEW e \in BOOLEAN
  PROVE  LET f == Staged!Finish(st, e)
         IN  /\ f \in Collected
             /\ f.pending_sql = NoSql
             /\ IF st.pending_sql = NoSql THEN f = st
                ELSE f.queries = Append(st.queries, [sql |-> st.pending_sql, is_error |-> e,
                                                     response_values |-> <<>>])
<1>1. st.queries \in Seq(Made) /\ st.pending_sql \in Nat
  BY DEF Collected
<1> DEFINE q == [sql |-> st.pending_sql, is_error |-> e, response_values |-> <<>>]
<1>2. q \in Made
  <2>1. <<>> \in Seq(Nat)
    OBVIOUS
  <2>2. QED
    BY <1>1, <2>1 DEF Made
<1> HIDE DEF q
<1>3. Append(st.queries, q) \in Seq(Made) /\ NoSql \in Nat
  BY <1>1, <1>2 DEF NoSql
<1>4. Staged!Finish(st, e) = IF st.pending_sql = NoSql THEN st
                             ELSE [queries |-> Append(st.queries, q), pending_sql |-> NoSql]
  BY DEF Staged!Finish, q
<1>5. CASE st.pending_sql = NoSql
  BY <1>4, <1>5
<1>6. CASE st.pending_sql # NoSql
  <2>1. Staged!Finish(st, e) = [queries |-> Append(st.queries, q), pending_sql |-> NoSql]
    BY <1>4, <1>6
  <2>2. [queries |-> Append(st.queries, q), pending_sql |-> NoSql] \in Collected
    BY <1>3 DEF Collected
  <2>3. QED
    BY <1>6, <2>1, <2>2 DEF q
<1>7. QED
  BY <1>5, <1>6

LEMMA AttachedState ==
  ASSUME NEW st \in Collected, NEW values \in Seq(Nat)
  PROVE  LET a == Staged!Attach(st, values)
         IN  /\ a \in Collected /\ a.pending_sql = st.pending_sql
             /\ Len(a.queries) = Len(st.queries)
             /\ \A i \in 1..Len(st.queries) : a.queries[i].sql = st.queries[i].sql
<1>1. st.queries \in Seq(Made) /\ st.pending_sql \in Nat
  BY DEF Collected
<1>2. CASE st.queries = <<>>
  BY <1>2 DEF Staged!Attach
<1>3. CASE st.queries # <<>>
  <2>1. PICK n : n = Len(st.queries)
    OBVIOUS
  <2>2. n \in 1..Len(st.queries) /\ st.queries[n] \in Made
    BY <1>1, <1>3, <2>1
  <2> DEFINE q == [st.queries[n] EXCEPT !.response_values = values]
             qs == [st.queries EXCEPT ![n] = q]
             a == [st EXCEPT !.queries = qs]
  <2>3. q \in Made /\ q.sql = st.queries[n].sql
    BY <2>2 DEF Made
  <2>4. Staged!Attach(st, values) = a
    BY <1>3, <2>1, Zenon DEF Staged!Attach
  <2> HIDE DEF q
  <2>5. qs \in Seq(Made) /\ Len(qs) = Len(st.queries)
        /\ \A i \in 1..Len(st.queries) : qs[i] = IF i = n THEN q ELSE st.queries[i]
    BY <1>1, <2>2, <2>3, ExceptSeq
  <2> HIDE DEF qs
  <2>6. a \in Collected /\ a.queries = qs /\ a.pending_sql = st.pending_sql
    BY <1>1, <2>5 DEF Collected
  <2>7. \A i \in 1..Len(st.queries) : qs[i].sql = st.queries[i].sql
    BY <2>3, <2>5
  <2>8. QED
    BY <2>4, <2>5, <2>6, <2>7
<1>4. QED
  BY <1>2, <1>3

LEMMA CollectedState ==
  ASSUME NEW st \in Collected, NEW m \in Messages, m.event # SessionStart
  PROVE  Staged!Collect(st, m.event) \in Collected
<1>1. PICK e : e = m.event
  OBVIOUS
<1>2. CASE e.type = "QueryStart"
  <2>1. e.sql \in Nat
    BY <1>1, <1>2, MessageFields
  <2>2. Staged!Collect(st, e) = [st EXCEPT !.pending_sql = e.sql]
    BY <1>2 DEF Staged!Collect
  <2>3. QED
    BY <1>1, <2>1, <2>2 DEF Collected
<1>3. CASE e.type \in {"QueryComplete", "QueryError"}
  <2>1. Staged!Collect(st, e) \in {Staged!Finish(st, FALSE), Staged!Finish(st, TRUE)}
    BY <1>3 DEF Staged!Collect
  <2>2. QED
    BY <1>1, <2>1, FinishedState
<1>4. CASE e.type = "QueryReturning"
  <2>1. e.rows \in Seq(Nat)
    BY <1>1, <1>4, MessageFields
  <2>2. Staged!Collect(st, e) = Staged!Attach(st, e.rows)
    BY <1>4 DEF Staged!Collect
  <2>3. QED
    BY <1>1, <2>1, <2>2, AttachedState
<1>5. QED
  BY <1>1, <1>2, <1>3, <1>4, MessageKinds

LEMMA AfterType ==
  ASSUME NEW st \in States, NEW m \in Messages
  PROVE  After(st, m) \in States
<1>1. CASE m.event = SessionStart
  BY <1>1 DEF After
<1>2. CASE m.event # SessionStart
  <2>1. m.session \in Sessions
    BY <1>2, MessageKinds
  <2>2. st[m.session] \in Collected
    BY <2>1 DEF States
  <2>3. PICK n \in Collected : n = Staged!Collect(st[m.session], m.event)
    BY <1>2, <2>2, CollectedState
  <2>4. After(st, m) = [st EXCEPT ![m.session] = n]
    BY <1>2, <2>3 DEF After
  <2>5. QED
    BY <2>4 DEF States
<1>3. QED
  BY <1>1, <1>2

\* A row that is pushed.
LEMMA PushedAgrees ==
  ASSUME NEW all \in Seq(Lines), NEW c, NEW s, NEW r \in Lines, NEW st \in Collected,
         NEW f \in Collected, NEW q \in Made, NEW ret,
         Agrees(s, st, Selected(all, RowsOf(c, s)), ret),
         r.capture = c, r.session = s, r.sql = q.sql, r.response_values = <<>>,
         f.queries = Append(st.queries, q)
  PROVE  Agrees(s, f, Selected(Append(all, r), RowsOf(c, s)), ret)
<1>1. PICK g : g = Selected(all, RowsOf(c, s))
  OBVIOUS
<1>2. g \in Seq(Lines)
  BY <1>1, SelectedRows
<1>3. r \in RowsOf(c, s)
  BY DEF RowsOf
<1>4. Selected(Append(all, r), RowsOf(c, s)) = Append(g, r)
  BY <1>1, <1>3, SelectedAppend
<1>5. st.queries \in Seq(Made)
  BY DEF Collected
<1>6. /\ Len(g) = Len(st.queries)
      /\ \A i \in 1..Len(g) :
          /\ g[i].sql = st.queries[i].sql
          /\ g[i].response_values # <<>> => <<s, i, g[i].response_values>> \in ret
  BY <1>1 DEF Agrees
<1>7. PICK n : n = Len(g)
  OBVIOUS
<1>8. PICK h : h = Append(g, r)
  OBVIOUS
<1>9. n \in Nat /\ Len(h) = n + 1 /\ h[n + 1] = r /\ \A i \in 1..n : h[i] = g[i]
  BY <1>2, <1>7, <1>8
<1>10. /\ Len(f.queries) = n + 1 /\ f.queries[n + 1] = q
       /\ \A i \in 1..n : f.queries[i] = st.queries[i]
  BY <1>5, <1>6, <1>7
<1>11. ASSUME NEW i \in 1..Len(h)
       PROVE  /\ h[i].sql = f.queries[i].sql
              /\ h[i].response_values # <<>> => <<s, i, h[i].response_values>> \in ret
  <2>1. CASE i = n + 1
    BY <1>9, <1>10, <2>1
  <2>2. CASE i \in 1..n
    BY <1>6, <1>7, <1>9, <1>10, <2>2
  <2>3. i = n + 1 \/ i \in 1..n
    BY ONLY i \in 1..Len(h), <1>9
  <2>4. QED
    BY <2>1, <2>2, <2>3, Zenon
<1>12. Agrees(s, f, h, ret)
  BY <1>9, <1>10, <1>11 DEF Agrees
<1>13. QED
  BY <1>4, <1>8, <1>12

LEMMA PushedElsewhere ==
  ASSUME NEW all \in Seq(Lines), NEW c, NEW s, NEW r \in Lines, r.session # s
  PROVE  Selected(Append(all, r), RowsOf(c, s)) = Selected(all, RowsOf(c, s))
<1>1. r \notin RowsOf(c, s)
  BY DEF RowsOf
<1>2. QED
  BY <1>1, SelectedAppend

\* Values that are attached to row n, the last one of session s.
Replaced(all, others, n, values) ==
    /\ all \in Seq(Lines) /\ others \in Seq(Lines) /\ Len(others) = Len(all)
    /\ n \in 1..Len(all)
    /\ others[n] = [all[n] EXCEPT !.response_values = values]
    /\ \A k \in 1..Len(all) : k # n => others[k] = all[k]

LastOf(s, all, n) ==
    all[n].session = s /\ \A k \in 1..Len(all) : n < k => all[k].session # s

LEMMA AttachedAgrees ==
  ASSUME NEW all, NEW others, NEW n, NEW values, Replaced(all, others, n, values),
         NEW s, LastOf(s, all, n), NEW c, NEW z, NEW st \in Collected, NEW ret,
         Agrees(z, st, Selected(all, RowsOf(c, z)), ret),
         z = s => <<s, Len(st.queries), values>> \in ret
  PROVE  Agrees(z, st, Selected(others, RowsOf(c, z)), ret)
<1>r. /\ all \in Seq(Lines) /\ others \in Seq(Lines) /\ Len(others) = Len(all)
      /\ n \in 1..Len(all)
      /\ others[n] = [all[n] EXCEPT !.response_values = values]
      /\ \A k \in 1..Len(all) : k # n => others[k] = all[k]
  BY DEF Replaced
<1>l. all[n].session = s /\ \A k \in 1..Len(all) : n < k => all[k].session # s
  BY DEF LastOf
<1>0. Len(all) \in Nat
  BY <1>r
<1>1. all[n] \in Lines
  BY <1>r
<1>2. /\ others[n].capture = all[n].capture /\ others[n].session = all[n].session
      /\ others[n].sql = all[n].sql /\ others[n].response_values = values
  BY <1>1, <1>r DEF Lines
<1>3. \A k \in 1..Len(all) : /\ others[k].capture = all[k].capture
                             /\ others[k].session = all[k].session
                             /\ others[k].sql = all[k].sql
  BY <1>2, <1>r
<1>4. \A k \in 1..Len(all) : all[k] \in RowsOf(c, z) <=> others[k] \in RowsOf(c, z)
  <2>1. \A k \in 1..Len(all) : all[k] \in Lines /\ others[k] \in Lines
    BY <1>r
  <2>2. QED
    BY <1>3, <2>1 DEF RowsOf
<1>5. PICK p : /\ Enumerates(p, Places(all, RowsOf(c, z)))
               /\ Selected(all, RowsOf(c, z)) = [i \in 1..Len(p) |-> all[p[i]]]
               /\ Selected(others, RowsOf(c, z)) = [i \in 1..Len(p) |-> others[p[i]]]
  <2>1. PICK w : w = RowsOf(c, z)
    OBVIOUS
  <2>2. \A k \in 1..Len(all) : all[k] \in w <=> others[k] \in w
    BY <1>4, <2>1
  <2>3. \E p : /\ Enumerates(p, Places(all, w))
               /\ Selected(all, w) = [i \in 1..Len(p) |-> all[p[i]]]
               /\ Selected(others, w) = [i \in 1..Len(p) |-> others[p[i]]]
    <3>1. Len(others) = Len(all)
      BY <1>r
    <3>2. QED
      BY ONLY <1>0, <2>2, <3>1, SelectedAlike
  <2>4. QED
    BY <2>1, <2>3, Zenon
<1>6. PICK g : g = Selected(all, RowsOf(c, z))
  OBVIOUS
<1>7. PICK h : h = Selected(others, RowsOf(c, z))
  OBVIOUS
<1>8. g \in Seq(Lines) /\ h \in Seq(Lines)
  BY <1>6, <1>7, <1>r, SelectedRows
<1>9. p \in Seq(Nat) /\ Len(p) \in Nat
  BY <1>5 DEF Enumerates
<1>10. Len(g) = Len(p) /\ Len(h) = Len(p)
  BY <1>5, <1>6, <1>7, <1>8, <1>9
<1>11. \A i \in 1..Len(p) : p[i] \in 1..Len(all) /\ all[p[i]].session = z
  BY <1>5 DEF Enumerates, Places, RowsOf
<1>12. /\ Len(g) = Len(st.queries)
       /\ \A i \in 1..Len(g) :
           /\ g[i].sql = st.queries[i].sql
           /\ g[i].response_values # <<>> => <<z, i, g[i].response_values>> \in ret
  BY <1>6 DEF Agrees
<1>13. ASSUME NEW i \in 1..Len(h)
       PROVE  /\ h[i].sql = st.queries[i].sql
              /\ h[i].response_values # <<>> => <<z, i, h[i].response_values>> \in ret
  <2>1. i \in 1..Len(p) /\ g[i] = all[p[i]] /\ h[i] = others[p[i]] /\ p[i] \in 1..Len(all)
    BY <1>5, <1>6, <1>7, <1>10, <1>11
  <2>2. h[i].sql = g[i].sql
    BY <1>3, <2>1
  <2>3. CASE p[i] # n
    BY <1>r, <1>10, <1>12, <2>1, <2>2, <2>3
  <2>4. CASE p[i] = n
    <3>1. z = s
      BY <1>l, <1>11, <2>1, <2>4
    <3>2. i = Len(p)
      <4> SUFFICES ASSUME i # Len(p) PROVE FALSE
        OBVIOUS
      <4>1. Len(p) \in 1..Len(p) /\ i < Len(p)
        BY <1>9, <2>1
      <4>2. n < p[Len(p)]
        BY <1>5, <2>1, <2>4, <4>1 DEF Enumerates
      <4>3. p[Len(p)] \in 1..Len(all) /\ all[p[Len(p)]].session = s
        BY <1>11, <3>1, <4>1
      <4>4. QED
        BY <4>2, <4>3, <1>l
    <3>3. h[i].response_values = values /\ i = Len(st.queries)
      BY <1>2, <1>10, <1>12, <2>1, <2>4, <3>2
    <3>4. QED
      BY <1>10, <1>12, <2>1, <2>2, <3>1, <3>3
  <2>5. QED
    BY <2>3, <2>4
<1>14. Agrees(z, st, h, ret)
  BY <1>10, <1>12, <1>13 DEF Agrees
<1>15. QED
  BY <1>7, <1>14

LEMMA AgreesMore ==
  ASSUME NEW s, NEW st, NEW rows, NEW ret, NEW more, ret \subseteq more, Agrees(s, st, rows, ret)
  PROVE  Agrees(s, st, rows, more)
BY DEF Agrees

-----------------------------------------------------------------------------
(***************************************************************************)
(* The table and the batch behind it.                                      *)
(***************************************************************************)
Table == db \o batch

LEMMA TablePushed ==
  ASSUME NEW a \in Seq(Lines), NEW b \in Seq(Lines), NEW r \in Lines
  PROVE  a \o Append(b, r) = Append(a \o b, r)
<1>1. PICK x : x = a \o Append(b, r)
  OBVIOUS
<1>2. PICK y : y = Append(a \o b, r)
  OBVIOUS
<1>3. x \in Seq(Lines) /\ y \in Seq(Lines) /\ Len(x) = Len(y)
  BY <1>1, <1>2
<1>4. \A i \in 1..Len(x) : x[i] = y[i]
  BY <1>1, <1>2
<1>5. QED
  BY <1>1, <1>2, <1>3, <1>4, SeqEqual

LEMMA TableAttached ==
  ASSUME NEW a \in Seq(Lines), NEW b \in Seq(Lines), NEW i \in 1..Len(b), NEW values \in Seq(Nat),
         NEW d, d = [b EXCEPT ![i].response_values = values]
  PROVE  Replaced(a \o b, a \o d, Len(a) + i, values) /\ (a \o b)[Len(a) + i] = b[i]
<1>x. PICK x : x = a \o b
  OBVIOUS
<1>y. PICK y : y = a \o d
  OBVIOUS
<1> DEFINE r == [b[i] EXCEPT !.response_values = values]
<1>1. b[i] \in Lines
  OBVIOUS
<1>2. r \in Lines
  BY <1>1 DEF Lines
<1>3. d = [b EXCEPT ![i] = r]
  BY Zenon
<1>4. y = a \o d
  BY <1>y
<1>5. r = [b[i] EXCEPT !.response_values = values]
  OBVIOUS
<1> HIDE DEF r
<1>6. d \in Seq(Lines) /\ Len(d) = Len(b) /\ \A j \in 1..Len(b) : d[j] = IF j = i THEN r ELSE b[j]
  BY ONLY b \in Seq(Lines), i \in 1..Len(b), <1>2, <1>3, ExceptSeq
<1>7. /\ x \in Seq(Lines) /\ y \in Seq(Lines) /\ Len(x) = Len(a) + Len(b) /\ Len(y) = Len(x)
      /\ \A k \in 1..Len(x) : x[k] = IF k <= Len(a) THEN a[k] ELSE b[k - Len(a)]
      /\ \A k \in 1..Len(x) : y[k] = IF k <= Len(a) THEN a[k] ELSE d[k - Len(a)]
  <2>1. /\ x \in Seq(Lines) /\ Len(x) = Len(a) + Len(b)
        /\ \A k \in 1..(Len(a) + Len(b)) : x[k] = IF k <= Len(a) THEN a[k] ELSE b[k - Len(a)]
    BY <1>x, ConcatProperties, Zenon
  <2>2. /\ y \in Seq(Lines) /\ Len(y) = Len(a) + Len(d)
        /\ \A k \in 1..(Len(a) + Len(d)) : y[k] = IF k <= Len(a) THEN a[k] ELSE d[k - Len(a)]
    <3>1. d \in Seq(Lines)
      BY <1>6
    <3>2. /\ a \o d \in Seq(Lines) /\ Len(a \o d) = Len(a) + Len(d)
          /\ \A k \in 1..(Len(a) + Len(d)) :
                (a \o d)[k] = IF k <= Len(a) THEN a[k] ELSE d[k - Len(a)]
      BY <3>1, ConcatProperties, ZenonT(60)
    <3>3. QED
      BY <1>4, <3>2, Zenon
  <2>3. QED
    BY <1>6, <2>1, <2>2
<1>8. Len(a) + i \in 1..Len(x) /\ x[Len(a) + i] = b[i] /\ y[Len(a) + i] = r
  <2>1. PICK n : n = Len(a) + i
    OBVIOUS
  <2>2. n \in 1..Len(x) /\ ~(n <= Len(a)) /\ n - Len(a) = i
    BY <1>7, <2>1
  <2>3. x[n] = b[i] /\ y[n] = d[i]
    BY <1>7, <2>2
  <2>4. QED
    BY <1>6, <2>1, <2>2, <2>3
<1>9. \A k \in 1..Len(x) : k # Len(a) + i => y[k] = x[k]
  <2> TAKE k \in 1..Len(x)
  <2>1. CASE k <= Len(a)
    BY <1>4, <1>6, <1>7, <2>1
  <2>2. CASE ~(k <= Len(a))
    <3>1. k - Len(a) \in 1..Len(b) /\ x[k] = b[k - Len(a)] /\ y[k] = d[k - Len(a)]
      <4>1. k - Len(a) \in 1..Len(b)
        BY <1>7, <2>2
      <4>2. QED
        BY <1>7, <2>2, <4>1
    <3>2. k # Len(a) + i => k - Len(a) # i
      BY <1>7
    <3>3. QED
      BY <1>6, <3>1, <3>2
  <2>3. QED
    BY <2>1, <2>2
<1>10. QED
  BY <1>5, <1>7, <1>8, <1>9, <1>x, <1>y DEF Replaced

\* An event is collected: the batch changes, and may be inserted.
LEMMA TableStep ==
  ASSUME DataTypes, NEW b \in Seq(Lines), "insert" \notin setup.faults,
         (batch' = b /\ UNCHANGED db) \/ Insert(b)
  PROVE  Table' = db \o b
<1>1. db \in Seq(Lines)
  BY DEF DataTypes
<1>2. CASE batch' = b /\ UNCHANGED db
  BY <1>2 DEF Table
<1>3. CASE Insert(b)
  <2>1. batch' = <<>> /\ db' = db \o b
    BY <1>3 DEF Insert
  <2>2. PICK x : x = db \o b
    OBVIOUS
  <2>3. x \in Seq(Lines)
    BY <1>1, <2>2
  <2>4. x \o <<>> = x
    BY <2>3, ConcatEmptySeq
  <2>5. QED
    BY <2>1, <2>2, <2>4 DEF Table
<1>4. QED
  BY <1>2, <1>3

\* The batch after an event, and after that the table.
LEMMA CollectedTable ==
  ASSUME DataTypes, Of(collector, batch), CollectEvent, "insert" \notin setup.faults,
         NEW m, m = Head(staging)
  PROVE  /\ m \in Messages /\ collector \in Nat
         /\ Table' = CASE m.event.type = "QueryComplete"  -> db \o Push(m.session, FALSE)
                       [] m.event.type = "QueryError"     -> db \o Push(m.session, TRUE)
                       [] m.event.type = "QueryReturning" -> db \o Attach(m.session, m.event.rows)
                       [] OTHER                           -> Table
         /\ pending' = CASE m.event.type = "QueryStart" -> [pending EXCEPT ![m.session] = m.event.sql]
                         [] m.event.type \in {"QueryComplete", "QueryError"} ->
                                [pending EXCEPT ![m.session] = NoSql]
                         [] OTHER -> pending
<1>0. collector \in Nat /\ batch \in Seq(Lines) /\ staging \in Seq(Messages) /\ staging # <<>>
  BY DEF CollectEvent, DataTypes
<1>1. m \in Messages
  BY <1>0
<1>2. PICK s, e : s = m.session /\ e = m.event
  OBVIOUS
<1> DEFINE after == CASE e.type = "QueryComplete"  -> Push(s, FALSE)
                      [] e.type = "QueryError"     -> Push(s, TRUE)
                      [] e.type = "QueryReturning" -> Attach(s, e.rows)
                      [] OTHER                     -> batch
           waiting == CASE e.type = "QueryStart" -> [pending EXCEPT ![s] = e.sql]
                        [] e.type \in {"QueryComplete", "QueryError"} -> [pending EXCEPT ![s] = NoSql]
                        [] OTHER -> pending
<1>3. after \in Seq(Lines)
  <2>1. CASE e.type \in {"QueryComplete", "QueryError"}
    <3>1. s \in Sessions
      BY <1>1, <1>2, <2>1, MessageFields
    <3>2. Push(s, FALSE) \in Seq(Lines) /\ Push(s, TRUE) \in Seq(Lines)
      BY <1>0, <3>1, PushedRows
    <3>3. QED
      BY <2>1, <3>2
  <2>2. CASE e.type = "QueryReturning"
    <3>1. e.rows \in Seq(Nat)
      BY <1>1, <1>2, <2>2, MessageFields
    <3>2. Attach(s, e.rows) \in Seq(Lines)
      BY <1>0, <3>1, AttachedRows DEF Attach
    <3>3. QED
      BY <2>2, <3>2
  <2>3. CASE e.type \notin {"QueryComplete", "QueryError", "QueryReturning"}
    BY <1>0, <2>3
  <2>4. QED
    BY <2>1, <2>2, <2>3
<1>4. /\ pending' = waiting
      /\ (batch' = after /\ UNCHANGED db) \/ Insert(after)
  BY <1>2 DEF CollectEvent
<1>5. PICK b : b = after
  OBVIOUS
<1>6. Table' = db \o b
  <2>1. b \in Seq(Lines) /\ ((batch' = b /\ UNCHANGED db) \/ Insert(b))
    BY <1>3, <1>4, <1>5
  <2>2. QED
    BY <2>1, TableStep
<1>7. Table' = CASE e.type = "QueryComplete"  -> db \o Push(s, FALSE)
                 [] e.type = "QueryError"     -> db \o Push(s, TRUE)
                 [] e.type = "QueryReturning" -> db \o Attach(s, e.rows)
                 [] OTHER                     -> db \o batch
  BY <1>5, <1>6
<1> HIDE DEF after, waiting
<1>8. QED
  BY <1>0, <1>1, <1>2, <1>4, <1>7 DEF Table, waiting

\* RETURNING values go to the last row of the session that is still in the batch.
LEMMA AttachPlace ==
  ASSUME batch \in Seq(Lines), NEW s, NEW values
  PROVE  \/ Attach(s, values) = batch
         \/ \E i \in 1..Len(batch) :
               /\ batch[i].session = s
               /\ \A k \in 1..Len(batch) : batch[k].session = s => k <= i
               /\ Attach(s, values) = [batch EXCEPT ![i].response_values = values]
<1> DEFINE i == SelectLastInSeq(batch, LAMBDA r : r.session = s)
<1>1. \/ i = 0
      \/ /\ i \in 1..Len(batch) /\ batch[i].session = s
         /\ \A k \in 1..Len(batch) : batch[k].session = s => k <= i
  <2> DEFINE T == {k \in 1..Len(batch) : batch[k].session = s}
  <2>1. i = IF T # {} THEN Max(T) ELSE 0
    BY DEF SelectLastInSeq
  <2>2. CASE T = {}
    BY <2>1, <2>2
  <2>3. CASE T # {}
    <3>1. i = Max(T)
      BY <2>1, <2>3
    <3>2. PICK m : m = i
      OBVIOUS
    <3>3. m \in T /\ \A k \in T : m >= k
      BY <2>3, <3>1, <3>2, GreatestPlace, Zenon
    <3>4. /\ m \in 1..Len(batch) /\ batch[m].session = s
          /\ \A k \in 1..Len(batch) : batch[k].session = s => k <= m
      BY <3>3
    <3>5. QED
      BY <3>2, <3>4, Zenon
  <2>4. QED
    BY <2>2, <2>3
<1>2. Attach(s, values) = IF i = 0 THEN batch ELSE [batch EXCEPT ![i].response_values = values]
  BY Zenon DEF Attach
<1> HIDE DEF i
<1>3. QED
  BY <1>1, <1>2, Zenon

\* The collector takes the step that the in-memory collector would take.
LEMMA CollectReaches ==
  ASSUME DataTypes, Of(collector, batch), CollectEvent, "insert" \notin setup.faults,
         NEW m, m = Head(staging), NEW st \in States, NEW ret,
         Reached(collector, st, pending, Table, ret), Noted(st, m, ret)
  PROVE  Reached(collector, After(st, m), pending', Table', ret)
<1>0. m \in Messages /\ collector \in Nat
  BY CollectedTable
<1>t. batch \in Seq(Lines) /\ db \in Seq(Lines) /\ pending \in [Sessions -> Nat]
  BY DEF DataTypes
<1>1. PICK s : s = m.session
  OBVIOUS
<1>2. PICK e : e = m.event
  OBVIOUS
<1>3. PICK all : all = Table
  OBVIOUS
<1>4. PICK more : more = Table'
  OBVIOUS
<1>5. PICK c : c = collector
  OBVIOUS
<1>6. PICK nst : nst = After(st, m)
  OBVIOUS
<1>7. PICK waiting : waiting = pending'
  OBVIOUS
<1>8. /\ more = CASE e.type = "QueryComplete"  -> db \o Push(s, FALSE)
                  [] e.type = "QueryError"     -> db \o Push(s, TRUE)
                  [] e.type = "QueryReturning" -> db \o Attach(s, e.rows)
                  [] OTHER                     -> all
      /\ waiting = CASE e.type = "QueryStart" -> [pending EXCEPT ![s] = e.sql]
                     [] e.type \in {"QueryComplete", "QueryError"} -> [pending EXCEPT ![s] = NoSql]
                     [] OTHER -> pending
  BY <1>1, <1>2, <1>3, <1>4, <1>7, CollectedTable
<1>9. all \in Seq(Lines)
  BY <1>3, <1>t DEF Table
<1>10. \A z \in Sessions : /\ st[z] \in Collected
                           /\ st[z].pending_sql = pending[z]
                           /\ Agrees(z, st[z], Selected(all, RowsOf(c, z)), ret)
  BY <1>3, <1>5 DEF Reached, States
<1>11. SUFFICES ASSUME NEW z \in Sessions
                PROVE  /\ nst[z].pending_sql = waiting[z]
                       /\ Agrees(z, nst[z], Selected(more, RowsOf(c, z)), ret)
  BY <1>4, <1>5, <1>6, <1>7 DEF Reached
<1>12. CASE e = SessionStart
  <2>1. e.type = "SessionStart"
    BY <1>12 DEF SessionStart
  <2>2. nst = st
    BY <1>2, <1>6, <1>12 DEF After
  <2>3. more = all /\ waiting = pending
    BY <1>8, <2>1
  <2>4. QED
    BY <1>10, <2>2, <2>3
<1>13. ASSUME e # SessionStart
       PROVE  /\ s \in Sessions
              /\ nst = [st EXCEPT ![s] = Staged!Collect(st[s], e)]
              /\ e.type \in {"QueryStart", "QueryComplete", "QueryError", "QueryReturning"}
  BY <1>0, <1>1, <1>2, <1>6, <1>13, MessageKinds DEF After
<1>14. CASE e.type = "QueryStart" /\ e # SessionStart
  <2>1. e.sql \in Nat
    BY <1>0, <1>2, <1>14, MessageFields
  <2>2. more = all /\ waiting = [pending EXCEPT ![s] = e.sql]
    BY <1>8, <1>14
  <2>3. PICK f : f = Staged!Collect(st[s], e)
    OBVIOUS
  <2>4. f = [st[s] EXCEPT !.pending_sql = e.sql]
    BY <1>14, <2>3 DEF Staged!Collect
  <2>5. st[s] \in Collected /\ Agrees(s, st[s], Selected(all, RowsOf(c, s)), ret)
    BY <1>10, <1>13, <1>14
  <2>6. f \in Collected /\ f.pending_sql = e.sql /\ f.queries = st[s].queries
    BY <2>1, <2>4, <2>5 DEF Collected
  <2>7. Agrees(s, f, Selected(all, RowsOf(c, s)), ret)
    BY <2>5, <2>6 DEF Agrees
  <2>8. nst = [st EXCEPT ![s] = f] /\ s \in Sessions
    BY <1>13, <1>14, <2>3
  <2>9. CASE z = s
    <3>1. nst[z] = f /\ waiting[z] = e.sql
      BY <1>t, <2>2, <2>8, <2>9 DEF States
    <3>2. QED
      BY <2>2, <2>6, <2>7, <2>9, <3>1
  <2>10. CASE z # s
    <3>1. nst[z] = st[z] /\ waiting[z] = pending[z]
      BY <1>t, <2>2, <2>8, <2>10 DEF States
    <3>2. QED
      BY <1>10, <2>2, <3>1
  <2>11. QED
    BY <2>9, <2>10
<1>15. ASSUME NEW is_error \in BOOLEAN, e # SessionStart,
              more = db \o Push(s, is_error), Staged!Collect(st[s], e) = Staged!Finish(st[s], is_error),
              waiting = [pending EXCEPT ![s] = NoSql]
       PROVE  /\ nst[z].pending_sql = waiting[z]
              /\ Agrees(z, nst[z], Selected(more, RowsOf(c, z)), ret)
  <2>1. PICK f : f = Staged!Finish(st[s], is_error)
    OBVIOUS
  <2>2. s \in Sessions /\ nst = [st EXCEPT ![s] = f]
    BY <1>13, <1>15, <2>1
  <2>3. st[s] \in Collected /\ st[s].pending_sql = pending[s]
        /\ Agrees(s, st[s], Selected(all, RowsOf(c, s)), ret)
    BY <1>10, <2>2
  <2>4. /\ f \in Collected /\ f.pending_sql = NoSql
        /\ IF pending[s] = NoSql THEN f = st[s]
           ELSE f.queries = Append(st[s].queries, [sql |-> pending[s], is_error |-> is_error,
                                                   response_values |-> <<>>])
    BY <2>1, <2>3, FinishedState
  <2>5. /\ nst[z] = IF z = s THEN f ELSE st[z]
        /\ waiting[z] = IF z = s THEN NoSql ELSE pending[z]
    BY <1>t, <1>15, <2>2 DEF States
  <2>6. CASE pending[s] = NoSql
    <3>1. more = all
      BY <1>3, <1>15, <2>6 DEF Push, Table
    <3>2. QED
      BY <1>10, <2>4, <2>5, <2>6, <3>1
  <2>7. CASE pending[s] # NoSql
    <3>1. PICK r : r = Row(s, pending[s], is_error)
      OBVIOUS
    <3>2. /\ r \in Lines /\ r.capture = c /\ r.session = s /\ r.sql = pending[s]
          /\ r.response_values = <<>>
      <4>1. <<>> \in Seq(Nat) /\ pending[s] \in Nat
        BY <1>t, <2>2
      <4>2. QED
        BY <1>0, <1>5, <2>2, <3>1, <4>1 DEF Row, Lines
    <3>3. more = Append(all, r)
      <4>1. more = db \o Append(batch, r)
        BY <1>15, <2>7, <3>1 DEF Push
      <4>2. QED
        BY <1>3, <1>t, <3>2, <4>1, TablePushed DEF Table
    <3>4. PICK q : q = [sql |-> pending[s], is_error |-> is_error, response_values |-> <<>>]
      OBVIOUS
    <3>5. q \in Made /\ q.sql = pending[s]
      <4>1. <<>> \in Seq(Nat) /\ pending[s] \in Nat
        BY <1>t, <2>2
      <4>2. QED
        BY <3>4, <4>1 DEF Made
    <3>6. f.queries = Append(st[s].queries, q)
      BY <2>4, <2>7, <3>4
    <3>7. CASE z = s
      <4>1. Agrees(s, f, Selected(Append(all, r), RowsOf(c, s)), ret)
        BY <1>9, <2>3, <2>4, <3>2, <3>5, <3>6, PushedAgrees
      <4>2. QED
        BY <2>4, <2>5, <3>3, <3>7, <4>1
    <3>8. CASE z # s
      <4>1. Selected(Append(all, r), RowsOf(c, z)) = Selected(all, RowsOf(c, z))
        BY <1>9, <3>2, <3>8, PushedElsewhere
      <4>2. QED
        BY <1>10, <2>5, <3>3, <3>8, <4>1
    <3>9. QED
      BY <3>7, <3>8
  <2>8. QED
    BY <2>6, <2>7
<1>16. CASE e.type \in {"QueryComplete", "QueryError"} /\ e # SessionStart
  <2>1. CASE e.type = "QueryComplete"
    BY <1>8, <1>15, <1>16, <2>1 DEF Staged!Collect
  <2>2. CASE e.type = "QueryError"
    BY <1>8, <1>15, <1>16, <2>2 DEF Staged!Collect
  <2>3. QED
    BY <1>16, <2>1, <2>2
<1>17. CASE e.type = "QueryReturning" /\ e # SessionStart
  <2>1. PICK values : values = e.rows
    OBVIOUS
  <2>2. values \in Seq(Nat)
    BY <1>0, <1>2, <1>17, <2>1, MessageFields
  <2>3. PICK f : f = Staged!Attach(st[s], values)
    OBVIOUS
  <2>4. s \in Sessions /\ nst = [st EXCEPT ![s] = f]
    BY <1>13, <1>17, <2>1, <2>3 DEF Staged!Collect
  <2>5. st[s] \in Collected /\ st[s].pending_sql = pending[s]
        /\ Agrees(s, st[s], Selected(all, RowsOf(c, s)), ret)
    BY <1>10, <2>4
  <2>6. /\ f \in Collected /\ f.pending_sql = pending[s] /\ Len(f.queries) = Len(st[s].queries)
        /\ \A i \in 1..Len(st[s].queries) : f.queries[i].sql = st[s].queries[i].sql
    BY <2>2, <2>3, <2>5, AttachedState
  <2>7. more = db \o Attach(s, values) /\ waiting = pending
    BY <1>8, <1>17, <2>1
  <2>8. nst[z] = IF z = s THEN f ELSE st[z]
    BY <2>4 DEF States
  <2>9. <<s, Len(st[s].queries), values>> \in ret
    BY <1>1, <1>2, <1>17, <2>1 DEF Noted
  <2>10. Agrees(z, st[z], Selected(more, RowsOf(c, z)), ret)
    <3>1. CASE Attach(s, values) = batch
      <4>1. more = all
        BY <1>3, <2>7, <3>1 DEF Table
      <4>2. QED
        BY <1>10, <4>1
    <3>2. ASSUME NEW i \in 1..Len(batch), batch[i].session = s,
                 \A k \in 1..Len(batch) : batch[k].session = s => k <= i,
                 Attach(s, values) = [batch EXCEPT ![i].response_values = values]
          PROVE  Agrees(z, st[z], Selected(more, RowsOf(c, z)), ret)
      <4>1. i \in 1..Len(batch) /\ batch[i].session = s
            /\ \A k \in 1..Len(batch) : batch[k].session = s => k <= i
        BY <3>2
      <4>2. more = db \o [batch EXCEPT ![i].response_values = values]
        BY <2>7, <3>2
      <4>3. PICK n : n = Len(db) + i
        OBVIOUS
      <4>4. all = db \o batch
        BY <1>3 DEF Table
      <4>5. Replaced(all, more, n, values) /\ all[n] = batch[i]
        <5>1. PICK d : d = [batch EXCEPT ![i].response_values = values]
          OBVIOUS
        <5>2. Replaced(db \o batch, db \o d, Len(db) + i, values) /\ (db \o batch)[Len(db) + i] = batch[i]
          BY <1>t, <2>2, <5>1, TableAttached
        <5>3. QED
          BY <4>2, <4>3, <4>4, <5>1, <5>2, Zenon
      <4>6. \A k \in 1..Len(all) : n < k => all[k].session # s
        <5> SUFFICES ASSUME NEW k \in 1..Len(all), n < k PROVE all[k].session # s
          OBVIOUS
        <5>0. Len(db) \in Nat /\ Len(batch) \in Nat /\ i \in Nat
          BY <1>t, <4>1
        <5>1. /\ Len(all) = Len(db) + Len(batch)
              /\ all[k] = IF k <= Len(db) THEN db[k] ELSE batch[k - Len(db)]
          BY <1>t, <4>4, ConcatProperties
        <5>2. ~(k <= Len(db)) /\ k - Len(db) \in 1..Len(batch) /\ ~(k - Len(db) <= i)
          BY <4>3, <5>0, <5>1
        <5>3. QED
          BY <4>1, <5>1, <5>2
      <4>7. LastOf(s, all, n)
        BY <4>1, <4>5, <4>6 DEF LastOf
      <4>8. st[z] \in Collected /\ Agrees(z, st[z], Selected(all, RowsOf(c, z)), ret)
        BY <1>10
      <4>9. z = s => <<s, Len(st[z].queries), values>> \in ret
        BY <2>9
      <4>10. PICK o \in Collected : o = st[z]
        BY <4>8
      <4>11. /\ Agrees(z, o, Selected(all, RowsOf(c, z)), ret)
             /\ z = s => <<s, Len(o.queries), values>> \in ret
        BY <4>8, <4>9, <4>10
      <4>12. Agrees(z, o, Selected(more, RowsOf(c, z)), ret)
        BY <4>5, <4>7, <4>11, AttachedAgrees
      <4>13. QED
        BY <4>10, <4>12
    <3>3. QED
      BY <1>t, <3>1, <3>2, AttachPlace
  <2>11. CASE z = s
    <3>1. PICK g : g = Selected(more, RowsOf(c, s))
      OBVIOUS
    <3>2. Agrees(s, st[s], g, ret)
      BY <2>10, <2>11, <3>1
    <3>3. Agrees(s, f, g, ret)
      BY <2>6, <3>2 DEF Agrees
    <3>4. QED
      BY <2>6, <2>7, <2>8, <2>11, <3>1, <3>3
  <2>12. CASE z # s
    BY <1>10, <2>7, <2>8, <2>10, <2>12
  <2>13. QED
    BY <2>11, <2>12
<1>18. QED
  BY <1>12, <1>13, <1>14, <1>16, <1>17

\* One more message is forwarded.
LEMMA RunsOn ==
  ASSUME NEW events \in Seq(Messages), NEW m \in Messages, NEW h, NEW ret, Runs(h, events, ret),
         NEW first, NEW st, Ends(h, first, st), NEW more, ret \subseteq more, Noted(st, m, more),
         NEW g, g = Append(h, After(st, m))
  PROVE  Runs(g, Append(events, m), more) /\ Ends(g, first, After(st, m))
<1>e. first = h[1] /\ st = h[Len(h)]
  BY DEF Ends
<1>1. h \in Seq(States) /\ Len(h) = Len(events) + 1 /\ Len(events) \in Nat
  BY DEF Runs
<1>2. st \in States
  BY <1>1, <1>e
<1>3. PICK nst \in States : nst = After(st, m)
  BY <1>2, AfterType
<1>4. PICK n : n = Len(h)
  OBVIOUS
<1>5. g = Append(h, nst)
  BY <1>3
<1>6. n \in Nat /\ n = Len(events) + 1 /\ n > 0
  BY <1>1, <1>4
<1>7. /\ g \in Seq(States) /\ Len(g) = n + 1 /\ g[n + 1] = nst
      /\ \A k \in 1..n : g[k] = h[k]
  BY <1>1, <1>3, <1>4, <1>5
<1>8. PICK es : es = Append(events, m)
  OBVIOUS
<1>9. /\ es \in Seq(Messages) /\ Len(es) = n /\ es[n] = m
      /\ \A k \in 1..Len(events) : es[k] = events[k]
  BY <1>6, <1>8
<1>10. ASSUME NEW k \in 1..Len(es) PROVE g[k + 1] = After(g[k], es[k]) /\ Noted(g[k], es[k], more)
  <2>1. CASE k = n
    <3>1. g[k] = st /\ es[k] = m
      BY <1>e, <1>4, <1>6, <1>7, <1>9, <2>1
    <3>2. g[k + 1] = nst
      BY <1>7, <2>1
    <3>3. QED
      BY <1>3, <3>1, <3>2
  <2>2. CASE k # n
    <3>1. k \in 1..Len(events) /\ k \in 1..n /\ k + 1 \in 1..n
      BY <1>6, <1>9, <2>2
    <3>2. g[k] = h[k] /\ g[k + 1] = h[k + 1] /\ es[k] = events[k]
      BY <1>7, <1>9, <3>1
    <3>3. h[k + 1] = After(h[k], events[k]) /\ Noted(h[k], events[k], ret)
      BY <3>1 DEF Runs
    <3>4. Noted(h[k], events[k], more)
      BY <3>3 DEF Noted
    <3>5. QED
      BY <3>2, <3>3, <3>4
  <2>3. QED
    BY <2>1, <2>2
<1>11. Runs(g, es, more)
  BY <1>6, <1>7, <1>9, <1>10 DEF Runs
<1>12. g[1] = h[1] /\ g[Len(g)] = nst
  BY <1>6, <1>7
<1>13. QED
  BY <1>e, <1>3, <1>8, <1>11, <1>12 DEF Ends

\* The first message that waits is collected.
LEMMA RunsAlong ==
  ASSUME NEW events \in Seq(Messages), events # <<>>, NEW h, NEW ret, Runs(h, events, ret),
         NEW first, NEW last, Ends(h, first, last), NEW m, m = Head(events)
  PROVE  /\ Runs(Tail(h), Tail(events), ret) /\ Ends(Tail(h), After(first, m), last)
         /\ first \in States /\ Noted(first, m, ret)
<1>e. first = h[1] /\ last = h[Len(h)]
  BY DEF Ends
<1>1. h \in Seq(States) /\ Len(h) = Len(events) + 1 /\ Len(events) \in Nat
  BY DEF Runs
<1>2. PICK n \in Nat : n = Len(events)
  BY <1>1
<1>3. n > 0 /\ m = events[1]
  BY <1>2
<1>4. PICK g : g = Tail(h)
  OBVIOUS
<1>5. PICK es : es = Tail(events)
  OBVIOUS
<1>6. g \in Seq(States) /\ Len(g) = n /\ \A k \in 1..n : g[k] = h[k + 1]
  BY <1>1, <1>2, <1>3, <1>4
<1>7. es \in Seq(Messages) /\ Len(es) = n - 1 /\ \A k \in 1..(n - 1) : es[k] = events[k + 1]
  BY <1>2, <1>3, <1>5
<1>8. \A k \in 1..n : h[k + 1] = After(h[k], events[k]) /\ Noted(h[k], events[k], ret)
  BY <1>2 DEF Runs
<1>9. ASSUME NEW k \in 1..Len(es) PROVE g[k + 1] = After(g[k], es[k]) /\ Noted(g[k], es[k], ret)
  <2>1. k \in 1..(n - 1) /\ k \in 1..n /\ k + 1 \in 1..n
    BY <1>3, <1>7
  <2>2. PICK j \in 1..n : j = k + 1
    BY <2>1
  <2>3. es[k] = events[j] /\ g[k] = h[j] /\ g[j] = h[j + 1]
    BY <1>6, <1>7, <2>1, <2>2
  <2>4. QED
    BY <1>8, <2>2, <2>3
<1>10. Runs(g, es, ret)
  BY <1>6, <1>7, <1>9 DEF Runs
<1>11. 1 \in 1..n /\ n \in 1..n
  BY <1>3
<1>12. g[1] = After(h[1], m) /\ Noted(h[1], m, ret)
  BY <1>3, <1>6, <1>8, <1>11
<1>13. g[Len(g)] = h[Len(h)]
  BY <1>1, <1>2, <1>6, <1>11
<1>14. h[1] \in States
  BY <1>1, <1>2
<1>15. QED
  BY <1>e, <1>4, <1>5, <1>10, <1>12, <1>13, <1>14 DEF Ends

\* The file of a capture has the rows of each session.
LEMMA ProfileRows ==
  ASSUME DataTypes, NEW c, NEW s \in Sessions, NEW g, g = Selected(db, RowsOf(c, s))
  PROVE  Profile(Rows(c))[s] = [i \in 1..Len(g) |-> Query(g[i])]
<1>0. db \in Seq(Lines)
  BY DEF DataTypes
<1>1. PICK rows : rows = Rows(c)
  OBVIOUS
<1>2. PICK X : X = {r \in Range(db) : r.capture = c}
  OBVIOUS
<1>3. PICK Y : Y = {r \in Range(rows) : r.session = s}
  OBVIOUS
<1>4. rows = Selected(db, X)
  BY <1>1, <1>2 DEF Rows
<1>5. Range(rows) = Range(db) \cap X
  BY <1>0, <1>4, SelectedRows
<1>6. \A k \in 1..Len(db) : db[k] \in Range(db) /\ db[k] \in Lines
  <2>1. DOMAIN db = 1..Len(db)
    BY <1>0
  <2>2. \A k \in 1..Len(db) : db[k] \in Range(db)
    BY <2>1, Zenon DEF Range
  <2>3. QED
    BY <1>0, <2>2
<1>7. \A k \in 1..Len(db) : db[k] \in RowsOf(c, s) <=> db[k] \in X /\ db[k] \in Y
  BY <1>2, <1>3, <1>5, <1>6 DEF RowsOf
<1>8. Selected(rows, Y) = g
  <2>1. PICK Z : Z = RowsOf(c, s)
    OBVIOUS
  <2>2. \A k \in 1..Len(db) : db[k] \in Z <=> db[k] \in X /\ db[k] \in Y
    BY <1>7, <2>1
  <2>3. Selected(Selected(db, X), Y) = Selected(db, Z)
    BY <1>0, <2>2, SelectedTwice
  <2>4. QED
    BY <1>4, <2>1, <2>3
<1>9. Profile(rows)[s] = [i \in 1..Len(g) |-> Query(g[i])]
  BY <1>3, <1>8, Zenon DEF Profile
<1>10. QED
  BY <1>1, <1>9

\* Deleting another capture leaves the rows of this one where they are.
LEMMA ClearedElsewhere ==
  ASSUME DataTypes, NEW d, NEW c, c # d, NEW s, NEW b \in Seq(Lines), NEW left, left = Cleared(d)
  PROVE  /\ left \in Seq(Lines)
         /\ Selected(left \o b, RowsOf(c, s)) = Selected(db \o b, RowsOf(c, s))
<1>0. db \in Seq(Lines)
  BY DEF DataTypes
<1>1. PICK X : X = {r \in Range(db) : r.capture # d}
  OBVIOUS
<1>2. PICK Z : Z = RowsOf(c, s)
  OBVIOUS
<1>3. left = Selected(db, X)
  BY <1>1 DEF Cleared
<1>4. left \in Seq(Lines)
  BY <1>0, <1>3, SelectedRows
<1>5. \A k \in 1..Len(db) : db[k] \in Z <=> db[k] \in X /\ db[k] \in Z
  <2>1. DOMAIN db = 1..Len(db)
    BY <1>0
  <2>2. \A k \in 1..Len(db) : db[k] \in Range(db)
    BY <2>1, Zenon DEF Range
  <2>3. \A k \in 1..Len(db) : db[k] \in Z => db[k].capture # d
    BY <1>2 DEF RowsOf
  <2>4. QED
    BY <1>1, <2>2, <2>3
<1>6. Selected(left, Z) = Selected(db, Z)
  BY <1>0, <1>3, <1>5, SelectedTwice
<1>7. Selected(left \o b, Z) = Selected(left, Z) \o Selected(b, Z)
  BY ONLY <1>4, b \in Seq(Lines), SelectedConcat
<1>8. Selected(db \o b, Z) = Selected(db, Z) \o Selected(b, Z)
  BY ONLY <1>0, b \in Seq(Lines), SelectedConcat
<1>9. QED
  BY <1>2, <1>4, <1>6, <1>7, <1>8

-----------------------------------------------------------------------------
(***************************************************************************)
(* Where the events of a capture are, from its start to its file.          *)
(***************************************************************************)
\* A capture that is being stopped is the one collected last, and nobody's orphan.
Sealing ==
    /\ main = "closing" => stopping = collector
    /\ main = "joining" => collector \in {stopping, None}
    /\ main \in {"closing", "joining", "reading"} => stopping \notin recovery.todo

Underway ==
    collector # None =>
        \E h, st : /\ Runs(h, staging, returned) /\ Ends(h, st, forwarded)
                   /\ Reached(collector, st, pending, Table, returned)

Drained ==
    main \in {"joining", "reading"} /\ collector = None =>
        \A s \in Sessions :
            Agrees(s, forwarded[s], Selected(db, RowsOf(stopping, s)), returned)

Sound == {"write", "insert"} \cap setup.faults = {}

ForwardInv == Sealing /\ (Sound => Underway /\ Drained /\ ProfileIsForwarded)

LEMMA ForwardInit == Init => ForwardInv
BY ControlAssumption DEF Init, ForwardInv, Sealing, Underway, Drained, ProfileIsForwarded

\* A step that leaves the events where they are.
LEMMA ForwardKept ==
  ASSUME ForwardInv, UNCHANGED <<setup, collecting, db, forwarded, returned>>, files \subseteq files',
         \/ main' \notin {"closing", "joining", "reading", "clearing", "stopped"}
         \/ UNCHANGED <<main, stopping>> /\ recovery'.todo \subseteq recovery.todo
  PROVE  ForwardInv'
<1> USE DEF collecting
<1>1. Sealing'
  BY DEF ForwardInv, Sealing
<1>2. SUFFICES ASSUME Sound PROVE Underway' /\ Drained' /\ ProfileIsForwarded'
  BY <1>1 DEF ForwardInv, Sound
<1>3. Underway /\ Drained /\ ProfileIsForwarded
  BY <1>2 DEF ForwardInv
<1>4. Underway'
  BY <1>3 DEF Underway, Table
<1>5. Drained'
  BY <1>3 DEF Drained
<1>6. ProfileIsForwarded'
  BY <1>3 DEF ProfileIsForwarded, Faithful, Queries
<1>7. QED
  BY <1>4, <1>5, <1>6

\* Another message is forwarded to the capture.
LEMMA ForwardedOn ==
  ASSUME DataTypes, ControlInv, ForwardInv, FwdSend
  PROVE  ForwardInv'
<1> USE DEF flags, loop, clients, collecting, ghosts, bounds
<1>0. /\ main # "exited" /\ held # None /\ UNCHANGED <<setup, main, stopping, collector, pending, batch, db,
                                                      files, recovery, target>>
  BY DEF FwdSend, Up
<1>1. CASE target = None
  <2>1. UNCHANGED <<staging, forwarded, returned>>
    BY <1>1 DEF FwdSend
  <2>2. QED
    BY <1>0, <2>1, ForwardKept
<1>2. CASE target # None
  <2>1. main \notin {"joining", "reading", "clearing", "stopped"}
    BY <1>2 DEF ControlInv, StatusInv, Stopping
  <2>2. Sealing'
    BY <1>0 DEF ForwardInv, Sealing
  <2>3. PICK m : m = held
    OBVIOUS
  <2>4. m \in Messages /\ staging \in Seq(Messages)
    BY <1>0, <2>3 DEF DataTypes
  <2>5. PICK more : more = returned'
    OBVIOUS
  <2>6. /\ staging' = Append(staging, m)
        /\ forwarded' = After(forwarded, m)
        /\ more = IF m.event.type # "QueryReturning" THEN returned
                  ELSE returned \cup {<<m.session, Len(forwarded[m.session].queries), m.event.rows>>}
    BY <1>2, <2>3, <2>5 DEF FwdSend, After, Queries
  <2>7. ASSUME Sound PROVE Underway'
    <3>1. CASE collector = None
      BY <1>0, <3>1 DEF Underway
    <3>2. CASE collector # None
      <4>1. Underway
        BY <2>7 DEF ForwardInv
      <4>2. PICK h, first : /\ Runs(h, staging, returned) /\ Ends(h, first, forwarded)
                            /\ Reached(collector, first, pending, Table, returned)
        BY <3>2, <4>1 DEF Underway
      <4>3. PICK g : g = Append(h, After(forwarded, m))
        OBVIOUS
      <4>4. returned \subseteq more
        BY <2>6
      <4>5. Noted(forwarded, m, more)
        BY <2>6 DEF Noted
      <4>6. Runs(g, Append(staging, m), more) /\ Ends(g, first, After(forwarded, m))
        BY <2>4, <4>2, <4>3, <4>4, <4>5, RunsOn
      <4>7. Reached(collector, first, pending, Table, more)
        BY <4>2, <4>4, AgreesMore DEF Reached
      <4>8. /\ Runs(g, staging', returned') /\ Ends(g, first, forwarded')
            /\ Reached(collector', first, pending', Table', returned')
        BY <1>0, <2>5, <2>6, <4>6, <4>7 DEF Table
      <4>9. QED
        BY <4>8 DEF Underway
    <3>3. QED
      BY <3>1, <3>2
  <2>8. Drained' /\ ProfileIsForwarded'
    BY <1>0, <2>1 DEF Drained, ProfileIsForwarded
  <2>9. QED
    BY <1>0, <2>2, <2>7, <2>8 DEF ForwardInv, Sound
<1>3. QED
  BY <1>1, <1>2

\* The collector takes a message.
LEMMA CollectedOn ==
  ASSUME DataTypes, Of(collector, batch), ControlInv, ForwardInv, CollectEvent
  PROVE  ForwardInv'
<1> USE DEF flags, loop, forwarder, ghosts, bounds
<1>0. /\ collector # None /\ staging # <<>> /\ staging' = Tail(staging)
      /\ UNCHANGED <<setup, main, stopping, collector, files, recovery, forwarded, returned>>
  BY DEF CollectEvent
<1>1. Sealing'
  BY <1>0 DEF ForwardInv, Sealing
<1>2. main \notin {"reading", "clearing", "stopped"}
  BY <1>0 DEF ControlInv, StatusInv, Stopping
<1>3. Drained' /\ ProfileIsForwarded'
  BY <1>0, <1>2 DEF Drained, ProfileIsForwarded
<1>4. ASSUME Sound PROVE Underway'
  <2>1. "insert" \notin setup.faults
    BY <1>4 DEF Sound
  <2>2. PICK h, st : /\ Runs(h, staging, returned) /\ Ends(h, st, forwarded)
                     /\ Reached(collector, st, pending, Table, returned)
    BY <1>0, <1>4 DEF ForwardInv, Underway
  <2>3. PICK m : m = Head(staging)
    OBVIOUS
  <2>4. PICK g : g = Tail(h)
    OBVIOUS
  <2>5. staging \in Seq(Messages)
    BY DEF DataTypes
  <2>6. /\ Runs(g, Tail(staging), returned) /\ Ends(g, After(st, m), forwarded)
        /\ st \in States /\ Noted(st, m, returned)
    BY <1>0, <2>2, <2>3, <2>4, <2>5, RunsAlong
  <2>7. PICK ret : ret = returned
    OBVIOUS
  <2>8. Reached(collector, After(st, m), pending', Table', ret)
    BY <2>1, <2>2, <2>3, <2>6, <2>7, CollectReaches
  <2>9. PICK next : next = After(st, m)
    OBVIOUS
  <2>10. /\ Runs(g, staging', returned') /\ Ends(g, next, forwarded')
         /\ Reached(collector', next, pending', Table', returned')
    BY <1>0, <2>6, <2>7, <2>8, <2>9
  <2>11. QED
    BY <2>10 DEF Underway
<1>5. QED
  BY <1>0, <1>1, <1>3, <1>4 DEF ForwardInv, Sound

\* The collector's timer, and its end.
LEMMA FlushedOn ==
  ASSUME DataTypes, ControlInv, ForwardInv, PeriodicFlush \/ CollectorEnds
  PROVE  ForwardInv'
<1> USE DEF flags, loop, forwarder, ghosts, bounds
<1>0. /\ collector # None /\ staging = <<>> /\ Insert(batch) /\ collector' \in {collector, None}
      /\ UNCHANGED <<setup, main, stopping, staging, files, recovery, forwarded, returned>>
      /\ batch \in Seq(Lines) /\ db \in Seq(Lines)
  BY DEF PeriodicFlush, CollectorEnds, DataTypes
<1>1. Sealing'
  <2>1. main = "closing" => collector' = collector
    BY DEF PeriodicFlush, CollectorEnds, ControlInv, StatusInv, Stopping
  <2>2. QED
    BY <1>0, <2>1 DEF ForwardInv, Sealing
<1>2. main \notin {"reading", "clearing", "stopped"}
  BY <1>0 DEF ControlInv, StatusInv, Stopping
<1>3. ProfileIsForwarded'
  BY <1>0, <1>2 DEF ProfileIsForwarded
<1>4. ASSUME Sound PROVE Underway' /\ Drained'
  <2>1. PICK b \in Seq(Lines) : b = batch
    BY <1>0
  <2>2. Table' = Table
    <3>1. "insert" \notin setup.faults
      BY <1>4 DEF Sound
    <3>2. Table' = db \o b
      BY <1>0, <2>1, <3>1, TableStep
    <3>3. QED
      BY <2>1, <3>2 DEF Table
  <2>3. PICK h, st : /\ Runs(h, staging, returned) /\ Ends(h, st, forwarded)
                     /\ Reached(collector, st, pending, Table, returned)
    BY <1>0, <1>4 DEF ForwardInv, Underway
  <2>4. CASE PeriodicFlush
    <3>1. UNCHANGED <<collector, pending>>
      BY <2>4 DEF PeriodicFlush
    <3>2. Underway'
      <4>1. /\ Runs(h, staging', returned') /\ Ends(h, st, forwarded')
            /\ Reached(collector', st, pending', Table', returned')
        BY <1>0, <2>2, <2>3, <3>1
      <4>2. QED
        BY <4>1 DEF Underway
    <3>3. Drained'
      BY <1>0, <3>1 DEF Drained
    <3>4. QED
      BY <3>2, <3>3
  <2>5. CASE CollectorEnds
    <3>1. collector' = None
      BY <2>5 DEF CollectorEnds
    <3>2. Underway'
      BY <3>1 DEF Underway
    <3>3. st = forwarded
      <4>1. Len(staging) = 0
        BY <1>0
      <4>2. Len(h) = 1
        BY <2>3, <4>1 DEF Runs
      <4>3. QED
        BY <2>3, <4>2 DEF Ends
    <3>4. db' = Table
      <4>1. batch' = <<>> /\ db' \in Seq(Lines)
        <5>1. batch' = <<>> /\ (db' = db \o batch \/ db' = db)
          BY <1>0 DEF Insert
        <5>2. PICK x : x = db \o batch
          OBVIOUS
        <5>3. x \in Seq(Lines)
          BY <1>0, <5>2
        <5>4. QED
          BY <1>0, <5>1, <5>2, <5>3
      <4>2. db' \o <<>> = db'
        BY <4>1, ConcatEmptySeq
      <4>3. QED
        BY <2>2, <4>1, <4>2 DEF Table
    <3>5. Drained'
      <4>1. CASE main = "joining"
        <5>1. stopping = collector
          BY <1>0, <4>1 DEF ForwardInv, Sealing
        <5>2. \A s \in Sessions : Agrees(s, forwarded[s], Selected(Table, RowsOf(stopping, s)), returned)
          BY <2>3, <3>3, <5>1 DEF Reached
        <5>3. QED
          BY <1>0, <3>4, <5>2 DEF Drained
      <4>2. CASE main # "joining"
        BY <1>0, <1>2, <4>2 DEF Drained
      <4>3. QED
        BY <4>1, <4>2
    <3>6. QED
      BY <3>2, <3>5
  <2>6. QED
    BY <2>4, <2>5
<1>5. QED
  BY <1>0, <1>1, <1>3, <1>4 DEF ForwardInv, Sound

\* A capture begins with nothing: there are no rows of its number yet.
LEMMA ForwardStart ==
  ASSUME SurviveInv, ControlInv, Start
  PROVE  ForwardInv'
<1>0. /\ main' = "enabling" /\ UNCHANGED <<setup, db>>
      /\ staging' = <<>> /\ pending' = Idle /\ batch' = <<>>
      /\ forwarded' = Fresh /\ returned' = {} /\ collector' = next_capture
  BY DEF Start, outside, bounds
<1>1. PICK c : c = next_capture
  OBVIOUS
<1>2. db \in Seq(Lines) /\ \A i \in 1..Len(db) : db[i].capture < c /\ db[i].capture \in Nat
  BY <1>1, RowNumbers DEF SurviveInv, Numbered
<1>3. c \in Nat
  BY <1>1 DEF ControlInv, ControlTypes
<1>4. PICK fresh : fresh = Fresh
  OBVIOUS
<1>5. PICK h : h = <<fresh>>
  OBVIOUS
<1>6. /\ fresh \in States
      /\ \A s \in Sessions : fresh[s].queries = <<>> /\ fresh[s].pending_sql = NoSql
  <2>1. PICK st : st = Staged!NewSession
    OBVIOUS
  <2>2. st.queries = <<>> /\ st.pending_sql = NoSql /\ st = [queries |-> <<>>, pending_sql |-> NoSql]
    BY <2>1 DEF Staged!NewSession
  <2>3. <<>> \in Seq(Made) /\ NoSql \in Nat
    BY DEF NoSql
  <2>4. st \in Collected
    BY <2>2, <2>3 DEF Collected
  <2>5. fresh = [s \in Sessions |-> st]
    BY <1>4, <2>1 DEF Fresh
  <2>6. QED
    BY <2>2, <2>4, <2>5 DEF States
<1>7. Runs(h, <<>>, {}) /\ Ends(h, fresh, fresh)
  <2>1. h \in Seq(States) /\ Len(h) = 1 /\ h[1] = fresh
    BY <1>5, <1>6
  <2>2. Len(<<>>) = 0
    OBVIOUS
  <2>3. QED
    BY <2>1, <2>2 DEF Runs, Ends
<1>8. \A s \in Sessions : Selected(db, RowsOf(c, s)) = <<>>
  <2> TAKE s \in Sessions
  <2>1. Places(db, RowsOf(c, s)) = {}
    BY <1>2, <1>3 DEF Places, RowsOf
  <2>2. PICK Z : Z = RowsOf(c, s)
    OBVIOUS
  <2>3. Len(db) \in Nat
    BY <1>2
  <2>4. QED
    BY <2>1, <2>2, <2>3, SelectedNone
<1>9. Reached(c, fresh, Idle, db, {})
  <2> SUFFICES ASSUME NEW s \in Sessions
               PROVE  fresh[s].pending_sql = Idle[s] /\ Agrees(s, fresh[s], Selected(db, RowsOf(c, s)), {})
    BY DEF Reached
  <2>1. Agrees(s, fresh[s], <<>>, {})
    BY <1>6 DEF Agrees
  <2>2. Idle[s] = NoSql
    BY DEF Idle
  <2>3. QED
    BY <1>6, <1>8, <2>1, <2>2
<1>10. Table' = db
  <2>1. db \o <<>> = db
    BY <1>2, ConcatEmptySeq
  <2>2. QED
    BY <1>0, <2>1 DEF Table
<1>11. Underway'
  <2>1. /\ Runs(h, staging', returned') /\ Ends(h, fresh, forwarded')
        /\ Reached(collector', fresh, pending', Table', returned')
    BY <1>0, <1>1, <1>4, <1>7, <1>9, <1>10 DEF Idle
  <2>2. QED
    BY <2>1 DEF Underway
<1>12. QED
  BY <1>0, <1>11 DEF ForwardInv, Sealing, Drained, ProfileIsForwarded

\* The file that is written agrees with what was forwarded.
LEMMA ForwardWrite ==
  ASSUME DataTypes, ControlInv, ForwardInv, WriteProfile
  PROVE  ForwardInv'
<1>0. /\ main = "reading" /\ main' = "clearing"
      /\ UNCHANGED <<setup, stopping, db, collector, forwarded, returned>>
      /\ files' = files \cup {File(stopping, "stop")} \/ "write" \in setup.faults
  BY DEF WriteProfile, collecting, ghosts, bounds
<1>1. collector = None
  BY <1>0 DEF ControlInv, StatusInv, Stopping
<1>2. Sealing' /\ Underway' /\ Drained'
  BY <1>0, <1>1 DEF Sealing, Underway, Drained
<1>3. ASSUME Sound PROVE ProfileIsForwarded'
  <2>1. PICK f : f = File(stopping, "stop")
    OBVIOUS
  <2>2. f \in files'
    BY <1>0, <1>3, <2>1 DEF Sound
  <2>3. f.capture = stopping /\ f.by = "stop" /\ f.profile = Profile(Rows(stopping))
    BY <2>1 DEF File
  <2>4. \A s \in Sessions : Agrees(s, forwarded[s], Selected(db, RowsOf(stopping, s)), returned)
    BY <1>0, <1>1, <1>3 DEF ForwardInv, Drained
  <2>5. ASSUME NEW s \in Sessions
        PROVE  /\ Len(f.profile[s]) = Queries(s)
               /\ \A i \in DOMAIN f.profile[s] :
                     LET q == f.profile[s][i] IN
                     /\ q.sql = forwarded[s].queries[i].sql
                     /\ q.response_values # <<>> => <<s, i, q.response_values>> \in returned
    <3>1. PICK g : g = Selected(db, RowsOf(stopping, s))
      OBVIOUS
    <3>2. g \in Seq(Lines)
      BY <3>1, SelectedRows DEF DataTypes
    <3>3. PICK p : p = f.profile[s]
      OBVIOUS
    <3>4. p = [i \in 1..Len(g) |-> Query(g[i])]
      BY <2>3, <3>1, <3>3, ProfileRows
    <3>5. Len(g) \in Nat
      BY <3>2
    <3>6. Len(p) = Len(g) /\ DOMAIN p = 1..Len(g)
      BY <3>4, <3>5
    <3>7. \A i \in 1..Len(g) : p[i].sql = g[i].sql /\ p[i].response_values = g[i].response_values
      BY <3>4 DEF Query
    <3>8. Agrees(s, forwarded[s], g, returned)
      BY <2>4, <3>1
    <3>9. QED
      BY <3>3, <3>6, <3>7, <3>8 DEF Agrees, Queries
  <2>6. Faithful(f.profile)
    BY <2>5 DEF Faithful
  <2>7. Faithful(f.profile)'
    BY <1>0, <2>6 DEF Faithful, Queries
  <2>8. f.capture = stopping'
    BY <1>0, <2>3
  <2>9. QED
    BY <2>2, <2>3, <2>7, <2>8 DEF ProfileIsForwarded
<1>4. QED
  BY <1>0, <1>2, <1>3 DEF ForwardInv, Sound

\* Orphans are cleared beside the capture that is on, or being stopped.
LEMMA ForwardClear ==
  ASSUME SurviveInv, ControlInv, ForwardInv, NEW c \in Nat, ClearOne(c)
  PROVE  ForwardInv'
<1>0. /\ UNCHANGED <<setup, main, stopping, collecting, files, forwarded, returned>>
      /\ db' = db \/ db' = Cleared(c)
      /\ done_with(c)
  BY DEF ClearOne, loop, ghosts, bounds
<1>1. recovery'.todo \subseteq recovery.todo
  BY <1>0, DoneWith DEF SurviveInv, Orphans
<1>2. c \in recovery.todo
  BY ControlAssumption DEF ClearOne, SurviveInv, Written, Orphans, Recoveries
<1>3. c # collector /\ (main \in {"joining", "reading"} => c # stopping)
  BY <1>2 DEF SurviveInv, Orphans, ForwardInv, Sealing
<1>4. CASE db' = db
  BY <1>0, <1>1, <1>4, ForwardKept DEF collecting
<1>5. CASE db' = Cleared(c)
  <2>1. DataTypes /\ batch \in Seq(Lines) /\ db \in Seq(Lines)
    BY DEF SurviveInv, DataTypes
  <2>2. Sealing'
    BY <1>0, <1>1 DEF ForwardInv, Sealing, collecting
  <2>3. PICK left : left = Cleared(c)
    OBVIOUS
  <2>4. ASSUME Sound PROVE Underway'
    <3>1. CASE collector = None
      BY <1>0, <3>1 DEF Underway, collecting
    <3>2. CASE collector # None
      <4>1. PICK h, st : /\ Runs(h, staging, returned) /\ Ends(h, st, forwarded)
                         /\ Reached(collector, st, pending, Table, returned)
        BY <2>4, <3>2 DEF ForwardInv, Underway
      <4>2. PICK k : k = collector
        OBVIOUS
      <4>3. \A s \in Sessions : Selected(left \o batch, RowsOf(k, s)) = Selected(Table, RowsOf(k, s))
        BY <1>3, <2>1, <2>3, <4>2, ClearedElsewhere DEF Table
      <4>4. Table' = left \o batch
        BY <1>0, <1>5, <2>3 DEF Table, collecting
      <4>5. Reached(k, st, pending, left \o batch, returned)
        BY <4>1, <4>2, <4>3 DEF Reached
      <4>6. /\ Runs(h, staging', returned') /\ Ends(h, st, forwarded')
            /\ Reached(collector', st, pending', Table', returned')
        BY <1>0, <4>1, <4>2, <4>4, <4>5 DEF collecting
      <4>7. QED
        BY <4>6 DEF Underway
    <3>3. QED
      BY <3>1, <3>2
  <2>5. ASSUME Sound, main \in {"joining", "reading"}, collector = None
        PROVE  \A s \in Sessions : Agrees(s, forwarded[s], Selected(left, RowsOf(stopping, s)), returned)
    <3>1. PICK k : k = stopping
      OBVIOUS
    <3>2. k # c
      BY <1>3, <2>5, <3>1
    <3>3. <<>> \in Seq(Lines)
      OBVIOUS
    <3>4. left \in Seq(Lines)
      BY <2>1, <2>3, <3>2, <3>3, ClearedElsewhere
    <3>5. left \o <<>> = left /\ db \o <<>> = db
      BY <2>1, <3>4, ConcatEmptySeq
    <3>6. \A s : Selected(left \o <<>>, RowsOf(k, s)) = Selected(db \o <<>>, RowsOf(k, s))
      <4> TAKE s
      <4>1. PICK b \in Seq(Lines) : b = <<>>
        BY <3>3
      <4>2. Selected(left \o b, RowsOf(k, s)) = Selected(db \o b, RowsOf(k, s))
        BY <2>1, <2>3, <3>2, ClearedElsewhere
      <4>3. QED
        BY <4>1, <4>2
    <3>7. \A s \in Sessions : Agrees(s, forwarded[s], Selected(db, RowsOf(k, s)), returned)
      BY <2>5, <3>1 DEF ForwardInv, Drained
    <3>8. QED
      BY <3>1, <3>5, <3>6, <3>7
  <2>6. ASSUME Sound PROVE Drained'
    BY <1>0, <1>5, <2>3, <2>5, <2>6 DEF Drained, collecting
  <2>7. ASSUME Sound PROVE ProfileIsForwarded'
    BY <1>0, <2>7 DEF ForwardInv, ProfileIsForwarded, Faithful, Queries
  <2>8. QED
    BY <1>0, <2>2, <2>4, <2>6, <2>7 DEF ForwardInv, Sound
<1>6. QED
  BY <1>0, <1>4, <1>5

\* The steps of a stop before and after.
LEMMA ForwardStop ==
  ASSUME SurviveInv, ControlInv, ForwardInv, Stop \/ Shutdown \/ CloseTarget \/ Join
  PROVE  ForwardInv'
<1>0. UNCHANGED <<setup, collecting, db, files, recovery, forwarded, returned>>
  BY DEF Stop, Shutdown, CloseTarget, Join, outside, bounds, ghosts
<1>1. CASE BeginStop /\ (Stop \/ Shutdown)
  <2>1. main = "loop" /\ main' = "closing" /\ stopping' = active /\ active # None
    BY <1>1 DEF BeginStop, Stop, Shutdown, TakeCommand, TakeAutoStop
  <2>2. collector = active
    BY <2>1 DEF ControlInv, StatusInv, StatusTrue
  <2>3. active \notin recovery.todo
    BY <2>2 DEF SurviveInv, Orphans
  <2>4. Sealing'
    BY <1>0, <2>1, <2>2, <2>3 DEF Sealing, collecting
  <2>5. ASSUME Sound PROVE Underway' /\ Drained' /\ ProfileIsForwarded'
    BY <1>0, <2>1, <2>5 DEF ForwardInv, Underway, Drained, ProfileIsForwarded, collecting, Table
  <2>6. QED
    BY <1>0, <2>4, <2>5 DEF ForwardInv, Sound
<1>2. CASE (Stop /\ NotCapturing) \/ (Shutdown /\ main' = "exited")
  <2>1. main' \in {"loop", "exited"}
    BY <1>2 DEF NotCapturing, Stop, TakeCommand, TakeAutoStop
  <2>2. QED
    BY <1>0, <2>1, ForwardKept
<1>3. CASE CloseTarget
  <2>1. main = "closing" /\ main' = "joining" /\ stopping' = stopping
    BY <1>3 DEF CloseTarget
  <2>2. collector = stopping /\ collector # None
    BY <2>1 DEF ControlInv, StatusInv, Stopping, ForwardInv, Sealing
  <2>3. Sealing'
    BY <1>0, <2>1, <2>2 DEF ForwardInv, Sealing, collecting
  <2>4. ASSUME Sound PROVE Underway' /\ Drained' /\ ProfileIsForwarded'
    BY <1>0, <2>1, <2>2, <2>4 DEF ForwardInv, Underway, Drained, ProfileIsForwarded, collecting, Table
  <2>5. QED
    BY <1>0, <2>3, <2>4 DEF ForwardInv, Sound
<1>4. CASE Join
  <2>1. main = "joining" /\ main' = "reading" /\ stopping' = stopping /\ collector = None
    BY <1>4 DEF Join, collector_ended
  <2>2. Sealing'
    BY <1>0, <2>1 DEF ForwardInv, Sealing, collecting
  <2>3. ASSUME Sound PROVE Underway' /\ Drained' /\ ProfileIsForwarded'
    BY <1>0, <2>1, <2>3 DEF ForwardInv, Underway, Drained, ProfileIsForwarded, collecting, Table
  <2>4. QED
    BY <1>0, <2>2, <2>3 DEF ForwardInv, Sound
<1>5. QED
  BY <1>1, <1>2, <1>3, <1>4 DEF Stop, Shutdown

LEMMA ForwardCleared ==
  ASSUME DataTypes, ControlInv, ForwardInv, ClearStaged
  PROVE  ForwardInv'
<1>0. /\ main = "clearing" /\ main' = "stopped"
      /\ UNCHANGED <<setup, stopping, files, collector, forwarded, returned>>
  BY DEF ClearStaged, collecting, ghosts, bounds
<1>1. collector = None
  BY <1>0 DEF ControlInv, StatusInv, Stopping
<1>2. Sealing' /\ Underway' /\ Drained'
  BY <1>0, <1>1 DEF Sealing, Underway, Drained
<1>3. ASSUME Sound PROVE ProfileIsForwarded'
  BY <1>0, <1>3 DEF ForwardInv, ProfileIsForwarded, Faithful, Queries
<1>4. QED
  BY <1>0, <1>2, <1>3 DEF ForwardInv, Sound

LEMMA ForwardStep ==
  (\A s \in Setups : ~s.anytime) /\ SurviveInv /\ ControlInv /\ ForwardInv /\ [Next]_vars
    => ForwardInv'
<1> SUFFICES ASSUME \A s \in Setups : ~s.anytime, SurviveInv, ControlInv, ForwardInv, [Next]_vars
             PROVE  ForwardInv'
  OBVIOUS
<1> USE DEF flags, loop, clients, forwarder, ghosts, bounds, outside
<1>t. DataTypes /\ Of(collector, batch)
  BY DEF SurviveInv
<1>1. CASE UNCHANGED vars \/ Clients \/ RequestStart \/ RequestStop
  <2>1. UNCHANGED <<setup, collecting, db, files, recovery, main, stopping, forwarded, returned>>
    BY <1>1 DEF vars, Clients, Connect, QueryStart, QueryEnd, RequestStart, RequestStop, Request
  <2>2. QED
    BY <2>1, ForwardKept
<1>2. CASE Forward
  <2>1. CASE FwdSend
    BY <1>t, <2>1, ForwardedOn
  <2>2. CASE FwdReceive /\ UNCHANGED <<setup, forwarded, returned>>
    <3>1. UNCHANGED <<setup, collecting, db, files, recovery, main, stopping, forwarded, returned>>
      BY <2>2 DEF FwdReceive
    <3>2. QED
      BY <3>1, ForwardKept
  <2>3. QED
    BY <1>2, <2>1, <2>2 DEF Forward, FwdSessionStart, FwdOther, FwdCompletion, FwdReceive
<1>3. CASE CollectStaged
  BY <1>3, <1>t, CollectedOn, FlushedOn DEF CollectStaged
<1>4. CASE RefuseStart \/ Enable \/ Started
  <2>1. /\ UNCHANGED <<setup, collecting, db, files, recovery, forwarded, returned>>
        /\ main' \in {"loop", "started"}
    BY <1>4 DEF RefuseStart, TakeCommand, Enable, Started
  <2>2. QED
    BY <2>1, ForwardKept
<1>5. CASE Start
  BY <1>5, ForwardStart
<1>6. CASE Stop \/ Shutdown \/ CloseTarget \/ Join
  BY <1>6, ForwardStop
<1>7. CASE ReadFails \/ Stopped
  <2>1. /\ UNCHANGED <<setup, collecting, db, files, recovery, forwarded, returned>>
        /\ main' \in {"loop", "exited"}
    BY <1>7 DEF ReadFails, Stopped, BackToLoop
  <2>2. QED
    BY <2>1, ForwardKept
<1>8. CASE WriteProfile
  BY <1>8, <1>t, ForwardWrite
<1>9. CASE ClearStaged
  BY <1>9, <1>t, ForwardCleared
<1>10. ASSUME NEW op, ListOrphans(op) PROVE ForwardInv'
  <2>1. UNCHANGED <<setup, collecting, db, files, main, stopping, forwarded, returned>>
    BY <1>10 DEF ListOrphans
  <2>2. main = "loop"
    BY <1>10, <1>t DEF ListOrphans, DataTypes
  <2>3. QED
    BY <2>1, <2>2, ForwardKept
<1>11. ASSUME NEW c, RecoverOne(c) PROVE ForwardInv'
  <2>1. /\ UNCHANGED <<setup, collecting, db, main, stopping, forwarded, returned>>
        /\ files \subseteq files'
        /\ recovery' = [recovery EXCEPT !.written = c] \/ done_with(c)
    BY <1>11 DEF RecoverOne
  <2>2. recovery \in Recoveries
    BY DEF SurviveInv, Orphans
  <2>3. recovery'.todo \subseteq recovery.todo
    BY <2>1, <2>2, DoneWith DEF Recoveries
  <2>4. QED
    BY <2>1, <2>3, ForwardKept
<1>12. ASSUME NEW c \in Nat, ClearOne(c) PROVE ForwardInv'
  BY <1>12, ForwardClear
<1>13. CASE Crash
  <2>1. main' = "loop" /\ collector' = None
    BY <1>13 DEF Crash
  <2>2. QED
    BY <2>1 DEF ForwardInv, Sealing, Underway, Drained, ProfileIsForwarded
<1>14. CASE Recover
  <2>1. PICK c \in Nat : RecoverOne(c) \/ ClearOne(c)
    BY <1>14 DEF Recover
  <2>2. QED
    BY <1>11, <1>12, <2>1
<1>15. QED
  BY <1>1, <1>2, <1>3, <1>4, <1>5, <1>6, <1>7, <1>8, <1>9, <1>10, <1>13, <1>14
     DEF Next, Control, MainLoop, Commands, StopSteps

\* The file a stop writes holds the queries that were forwarded to the capture,
\* all, each once and in order, and RETURNING rows where they were attached:
\* for any clients, batches, limits and crashes, unless an insert or the write
\* fails, and as long as nobody recovers while a capture is on.
THEOREM ProfileCorrect ==
  ASSUME \A s \in Setups : ~s.anytime
  PROVE  Spec => []ProfileIsForwarded
<1>1. ForwardInv => ProfileIsForwarded
  BY DEF ForwardInv, Sound, ProfileIsForwarded
<1>2. Init => SurviveInv /\ ControlInv /\ ForwardInv
  BY SurviveInit, ControlInit, ForwardInit
<1>3. SurviveInv /\ ControlInv /\ ForwardInv /\ [Next]_vars
        => (SurviveInv /\ ControlInv /\ ForwardInv)'
  BY SurviveStep, ControlStep, ForwardStep
<1>4. QED
  BY <1>1, <1>2, <1>3, PTL DEF Spec
=============================================================================
