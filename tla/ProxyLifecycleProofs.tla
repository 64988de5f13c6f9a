------------------------ MODULE ProxyLifecycleProofs ------------------------
(***************************************************************************)
(* Theorems about ProxyLifecycle, for any finite set of clients from any   *)
(* addresses and any limits.                                               *)
(***************************************************************************)
EXTENDS ProxyLifecycle, Integers, FiniteSetTheorems, TLAPS

-----------------------------------------------------------------------------
(***************************************************************************)
(* Types.                                                                  *)
(***************************************************************************)
TypeInv ==
    /\ TypeOK
    /\ listener \in {"accepting", "stopped"} /\ collector \in {"running", "finished"}
    /\ rejecting \in Sessions \cup {None}
    /\ ip_map \in [Ips -> Int] /\ connections_active \in Int

\* Nothing has been accepted or sent.
LEMMA TypeInit == Init => TypeInv
BY LifecycleAssumption
   DEF Init, TypeInv, TypeOK, Phases, Pool!Init

\* Each step keeps the types; the pool's set of holders follows the phases.
LEMMA TypeStep == TypeInv /\ [Next]_vars => TypeInv'
<1> SUFFICES ASSUME TypeInv, [Next]_vars PROVE TypeInv'
  OBVIOUS
<1> USE LifecycleAssumption
    DEF TypeInv, TypeOK, Phases, Enter, Adjusted, server, counters, pool, channel
<1>1. ASSUME NEW s \in Sessions, Accept(s) PROVE TypeInv'
  BY <1>1 DEF Accept
<1>2. ASSUME NEW s \in Sessions, StartupOk(s) \/ StartupEnds(s) PROVE TypeInv'
  BY <1>2 DEF StartupOk, StartupEnds
<1>3. ASSUME NEW s \in Sessions, Checkout(s) PROVE TypeInv'
  BY <1>3 DEF Checkout, Pool!Acquire
<1>4. ASSUME NEW s \in Sessions, CheckoutFails(s) PROVE TypeInv'
  BY <1>4 DEF CheckoutFails
<1>5. ASSUME NEW s \in Sessions, LoginOk(s) PROVE TypeInv'
  BY <1>5 DEF LoginOk, Send
<1>6. ASSUME NEW s \in Sessions, LoginEnds(s) PROVE TypeInv'
  BY <1>6 DEF LoginEnds, discard, Pool!Release
<1>7. ASSUME NEW s \in Sessions, LoginError(s) PROVE TypeInv'
  BY <1>7 DEF LoginError, Pool!Lose
<1>8. ASSUME NEW s \in Sessions, RelayEvent(s) PROVE TypeInv'
  BY <1>8 DEF RelayEvent, Send
<1>9. ASSUME NEW s \in Sessions, RelayEnds(s) \/ RelayAborted(s) PROVE TypeInv'
  BY <1>9 DEF RelayEnds, RelayAborted
<1>10. ASSUME NEW s \in Sessions, RelayDropped(s) PROVE TypeInv'
  BY <1>10 DEF RelayDropped
<1>11. ASSUME NEW s \in Sessions, Discard(s) PROVE TypeInv'
  BY <1>11 DEF Discard, discard, Pool!Release
<1>12. ASSUME NEW s \in Sessions, Return(s) PROVE TypeInv'
  BY <1>12 DEF Return, guard_dropped
<1>13. ASSUME NEW s \in Sessions, Collect(s) PROVE TypeInv'
  BY <1>13 DEF Collect
<1>14. CASE Reject \/ ListenerStops \/ CollectorFinishes
  BY <1>14 DEF Reject, ListenerStops, CollectorFinishes
<1>15. CASE Shutdown \/ Main
  BY <1>15 DEF Shutdown, Main, ListenerJoined, Drained, WriteProfile
<1>16. CASE UNCHANGED vars
  BY <1>16 DEF vars
<1> QED
  BY <1>1, <1>2, <1>3, <1>4, <1>5, <1>6, <1>7, <1>8, <1>9, <1>10, <1>11, <1>12,
     <1>13, <1>14, <1>15, <1>16 DEF Next, Handler, Login

\* The type invariant of ProxyLifecycle holds of every run of the proxy.
THEOREM TypeCorrect == Spec => []TypeOK
<1>1. TypeInv => TypeOK
  BY DEF TypeInv
<1> QED
  BY <1>1, TypeInit, TypeStep, PTL DEF Spec

-----------------------------------------------------------------------------
(***************************************************************************)
(* Counters.                                                               *)
(***************************************************************************)
Gone == {"backlog", "refused", "done"}

CounterInv == CountersBalanced /\ PerIpLimit

\* Handlers can be counted.
LEMMA Finite ==
    /\ IsFiniteSet(Live) /\ Cardinality(Live) \in Nat
    /\ \A a : IsFiniteSet(LiveFrom(a)) /\ Cardinality(LiveFrom(a)) \in Nat
<1>1. Live \subseteq Sessions /\ \A a : LiveFrom(a) \subseteq Sessions
  BY DEF Live, LiveFrom
<1>2. IsFiniteSet(Sessions)
  BY LifecycleAssumption
<1> QED
  BY <1>1, <1>2, FS_Subset, FS_CardinalityType

\* A phase that begins or ends a handler makes the counts of its address and
\* of all handlers one more or one less; any other phase changes neither.
LEMMA Begins ==
    ASSUME TypeInv, NEW s \in Sessions, NEW p, Enter(s, p),
           s \notin Live, p \notin Gone
    PROVE  /\ Cardinality(Live') = Cardinality(Live) + 1
           /\ \A a : Cardinality(LiveFrom(a)') =
                       Cardinality(LiveFrom(a)) + IF a = ip[s] THEN 1 ELSE 0
<1>1. Live' = Live \cup {s}
  BY DEF TypeInv, TypeOK, Enter, Live, Gone
<1>2. ASSUME NEW a PROVE LiveFrom(a)' = IF a = ip[s] THEN LiveFrom(a) \cup {s} ELSE LiveFrom(a)
  BY <1>1 DEF LiveFrom
<1>3. \A a : s \notin LiveFrom(a)
  BY DEF LiveFrom
<1>4. Cardinality(Live') = Cardinality(Live) + 1
  BY <1>1, Finite, FS_AddElement
<1>5. ASSUME NEW a
      PROVE Cardinality(LiveFrom(a)') =
              Cardinality(LiveFrom(a)) + IF a = ip[s] THEN 1 ELSE 0
  <2>1. CASE a = ip[s]
    BY <1>2, <1>3, <2>1, Finite, FS_AddElement
  <2>2. CASE a # ip[s]
    BY <1>2, <2>2, Finite
  <2> QED
    BY <2>1, <2>2
<1> QED
  BY <1>4, <1>5

\* Likewise for the end of a handler.
LEMMA Ends ==
    ASSUME TypeInv, NEW s \in Sessions, NEW p, Enter(s, p),
           s \in Live, p \in Gone
    PROVE  /\ Cardinality(Live') = Cardinality(Live) - 1
           /\ \A a : Cardinality(LiveFrom(a)') =
                       Cardinality(LiveFrom(a)) - IF a = ip[s] THEN 1 ELSE 0
<1>1. Live' = Live \ {s}
  BY DEF TypeInv, TypeOK, Enter, Live, Gone
<1>2. ASSUME NEW a PROVE LiveFrom(a)' = IF a = ip[s] THEN LiveFrom(a) \ {s} ELSE LiveFrom(a)
  BY <1>1 DEF LiveFrom
<1>3. s \in LiveFrom(ip[s])
  BY DEF LiveFrom
<1>4. Cardinality(Live') = Cardinality(Live) - 1
  BY <1>1, Finite, FS_RemoveElement
<1>5. ASSUME NEW a
      PROVE Cardinality(LiveFrom(a)') =
              Cardinality(LiveFrom(a)) - IF a = ip[s] THEN 1 ELSE 0
  <2>1. CASE a = ip[s]
    BY <1>2, <1>3, <2>1, Finite, FS_RemoveElement
  <2>2. CASE a # ip[s]
    BY <1>2, <2>2, Finite
  <2> QED
    BY <2>1, <2>2
<1> QED
  BY <1>4, <1>5

\* A handler that goes from phase to phase stays one handler.
LEMMA Stays ==
    ASSUME TypeInv, NEW s \in Sessions, NEW p, Enter(s, p),
           s \in Live <=> p \notin Gone
    PROVE  Live' = Live
BY DEF TypeInv, TypeOK, Enter, Live, Gone

\* Steps that raise and lower no counter, and begin and end no handler, keep
\* the balance.
LEMMA CountersKept ==
    ASSUME CounterInv, UNCHANGED counters, Live' = Live
    PROVE  CounterInv'
<1>1. \A a : LiveFrom(a)' = LiveFrom(a)
  BY DEF LiveFrom
<1> QED
  BY <1>1 DEF CounterInv, CountersBalanced, PerIpLimit, counters

\* Nobody is connected.
LEMMA CounterInit == Init => CounterInv
<1> SUFFICES ASSUME Init PROVE CounterInv
  OBVIOUS
<1>1. Live = {} /\ \A a : LiveFrom(a) = {}
  BY DEF Init, Live, LiveFrom
<1>2. Cardinality({}) = 0
  BY FS_EmptySet
<1> QED
  BY <1>1, <1>2, LifecycleAssumption
     DEF Init, CounterInv, CountersBalanced, PerIpLimit

\* An accept counts its address before the limit is looked at, and only the
\* guards of a handler that returns, or the refusal, lower what was raised.
LEMMA CounterStep == TypeInv /\ CounterInv /\ [Next]_vars => CounterInv'
<1> SUFFICES ASSUME TypeInv, CounterInv, [Next]_vars PROVE CounterInv'
  OBVIOUS
<1> USE LifecycleAssumption DEF counters
<1>1. ASSUME NEW s \in Sessions, Accept(s) PROVE CounterInv'
  <2>1. s \notin Live /\ rejecting = None
    BY <1>1 DEF Accept, Live
  <2>2. CASE Over(counted(ip[s]))
    <3>1. Live' = Live
      BY <1>1, <2>1, <2>2, Stays DEF Accept, Gone
    <3>2. \A a : LiveFrom(a)' = LiveFrom(a)
      BY <3>1 DEF LiveFrom
    <3>3. rejecting' = s /\ ip_map' = Adjusted(ip[s], ip_map[ip[s]] + 1)
          /\ connections_active' = connections_active
      BY <1>1, <2>2 DEF Accept
    <3> QED
      BY <2>1, <3>1, <3>2, <3>3, Finite
         DEF CounterInv, CountersBalanced, PerIpLimit, Adjusted, TypeInv
  <2>3. CASE ~Over(counted(ip[s]))
    <3>1. Enter(s, "startup") /\ rejecting' = None
          /\ ip_map' = Adjusted(ip[s], ip_map[ip[s]] + 1)
          /\ connections_active' = connections_active + 1
      BY <1>1, <2>1, <2>3 DEF Accept
    <3>2. /\ Cardinality(Live') = Cardinality(Live) + 1
          /\ \A a : Cardinality(LiveFrom(a)') =
                      Cardinality(LiveFrom(a)) + IF a = ip[s] THEN 1 ELSE 0
      BY <2>1, <3>1, Begins DEF Gone
    <3>3. CountersBalanced'
      BY <2>1, <3>1, <3>2, Finite DEF CounterInv, CountersBalanced, Adjusted, TypeInv
    <3>4. PerIpLimit'
      BY <2>1, <2>3, <3>2, Finite
         DEF CounterInv, CountersBalanced, PerIpLimit, Over, counted
    <3> QED
      BY <3>3, <3>4 DEF CounterInv
  <2> QED
    BY <2>2, <2>3
<1>2. CASE Reject
  <2>1. Live' = Live /\ \A a : LiveFrom(a)' = LiveFrom(a)
    BY <1>2 DEF Reject, Live, LiveFrom
  <2> QED
    BY <1>2, <2>1, Finite
       DEF Reject, CounterInv, CountersBalanced, PerIpLimit, TypeInv
<1>3. ASSUME NEW s \in Sessions, Return(s) PROVE CounterInv'
  <2>1. s \in Live /\ Enter(s, "done")
    BY <1>3 DEF Return, Live
  <2>2. /\ Cardinality(Live') = Cardinality(Live) - 1
        /\ \A a : Cardinality(LiveFrom(a)') =
                    Cardinality(LiveFrom(a)) - IF a = ip[s] THEN 1 ELSE 0
    BY <2>1, Ends DEF Gone
  <2> QED
    BY <1>3, <2>2, Finite
       DEF Return, guard_dropped, Adjusted, CounterInv, CountersBalanced, PerIpLimit,
           TypeInv
<1>4. ASSUME NEW s \in Sessions, Handler(s), ~Return(s) PROVE CounterInv'
  <2>1. UNCHANGED counters
    BY <1>4 DEF Handler, StartupOk, StartupEnds, Checkout, CheckoutFails, Login,
                LoginOk, LoginEnds, LoginError, RelayEvent, RelayEnds, RelayAborted,
                RelayDropped, Discard
  <2>2. Live' = Live
    <3>1. CASE RelayEvent(s) \/ RelayDropped(s)
      BY <3>1 DEF RelayEvent, RelayDropped, Live
    <3>2. CASE ~(RelayEvent(s) \/ RelayDropped(s))
      <4>1. PICK p : Enter(s, p) /\ p \notin Gone
        BY <1>4, <3>2
           DEF Handler, StartupOk, StartupEnds, Checkout, CheckoutFails, Login, LoginOk,
               LoginEnds, LoginError, RelayEnds, RelayAborted, Discard, Gone
      <4>2. s \in Live
        BY <1>4, <3>2
           DEF Handler, StartupOk, StartupEnds, Checkout, CheckoutFails, Login, LoginOk,
               LoginEnds, LoginError, RelayEnds, RelayAborted, Discard, Live
      <4> QED
        BY <4>1, <4>2, Stays
    <3> QED
      BY <3>1, <3>2
  <2> QED
    BY <2>1, <2>2, CountersKept
<1>5. CASE ListenerStops \/ CollectorFinishes \/ Shutdown \/ Main \/ UNCHANGED vars
  <2>1. UNCHANGED counters /\ Live' = Live
    BY <1>5 DEF ListenerStops, CollectorFinishes, Shutdown, Main, ListenerJoined,
                Drained, WriteProfile, vars, Live
  <2> QED
    BY <2>1, CountersKept
<1>6. ASSUME NEW s \in Sessions, Collect(s) PROVE CounterInv'
  BY <1>6, CountersKept DEF Collect, Live
<1> QED
  BY <1>1, <1>2, <1>3, <1>4, <1>5, <1>6 DEF Next

\* However clients come and go, and are refused: the counter of an address is
\* the number of its connections, and the gauge the number of all (listener.rs).
THEOREM CountersCorrect == Spec => []CountersBalanced
<1>1. CounterInv => CountersBalanced
  BY DEF CounterInv
<1> QED
  BY <1>1, TypeInit, TypeStep, CounterInit, CounterStep, PTL DEF Spec

\* No address has more connections than --max-connections-per-ip, at any point
\* between the check that admits a client and the drop of its guard: it takes
\* the counters to be true, since they are all the check reads (listener.rs).
THEOREM PerIpLimitCorrect == Spec => []PerIpLimit
<1>1. CounterInv => PerIpLimit
  BY DEF CounterInv
<1> QED
  BY <1>1, TypeInit, TypeStep, CounterInit, CounterStep, PTL DEF Spec

-----------------------------------------------------------------------------
(***************************************************************************)
(* The profile.  Once the last sender is gone there is no way to become    *)
(* one, so what the collector has when it finishes is final.               *)
(***************************************************************************)
SealInv ==
    /\ collector = "finished" => ~Senders /\ drained
    /\ main = "exited" => collector = "finished" /\ profile = collected

\* A step without senders leaves none, and sends nothing.
LEMMA NoSenders ==
    ASSUME TypeInv, ~Senders, [Next]_vars
    PROVE  ~Senders' /\ sent' = sent /\ (drained => queue' = queue)
<1>1. listener = "stopped" /\ Live = {} /\ relays = {}
  BY DEF Senders, TypeInv
<1>2. \A s \in Sessions : ~Accept(s) /\ ~Handler(s)
  BY <1>1 DEF Accept, Handler, StartupOk, StartupEnds, Checkout, CheckoutFails, Login,
              LoginOk, LoginEnds, LoginError, RelayEvent, RelayEnds, RelayAborted,
              RelayDropped, Discard, Return, Live
<1>3. UNCHANGED <<listener, phase, relays, sent>> /\ (drained => UNCHANGED queue)
  BY <1>1, <1>2
     DEF Next, Collect, Reject, ListenerStops, CollectorFinishes, Shutdown, Main,
         ListenerJoined, Drained, WriteProfile, vars, server, counters, pool, channel,
         drained, TypeInv, TypeOK
<1> QED
  BY <1>1, <1>3 DEF Senders, Live

\* Nothing is sealed yet.
LEMMA SealInit == Init => SealInv
BY DEF Init, SealInv

\* The collector finishes when the channel is closed; main waits for it.
LEMMA SealStep == TypeInv /\ SealInv /\ [Next]_vars => SealInv'
<1> SUFFICES ASSUME TypeInv, SealInv, [Next]_vars PROVE SealInv'
  OBVIOUS
<1>1. CASE collector = "finished"
  <2>1. ~Senders' /\ queue' = queue
    BY <1>1, NoSenders DEF SealInv
  <2>2. collector' = "finished" /\ collected' = collected
    BY <1>1 DEF Next, Accept, Handler, StartupOk, StartupEnds, Checkout, CheckoutFails,
                Login, LoginOk, LoginEnds, LoginError, RelayEvent, RelayEnds,
                RelayAborted, RelayDropped, Discard, Return, Send, Collect, Reject,
                ListenerStops, CollectorFinishes, Shutdown, Main, ListenerJoined,
                Drained, WriteProfile, vars, server, channel
  <2>3. main' = "exited" => profile' = collected
    BY <1>1 DEF SealInv, Next, Accept, Handler, StartupOk, StartupEnds, Checkout,
                CheckoutFails, Login, LoginOk, LoginEnds, LoginError, RelayEvent,
                RelayEnds, RelayAborted, RelayDropped, Discard, Return, Collect,
                Reject, ListenerStops, CollectorFinishes, Shutdown, Main,
                ListenerJoined, Drained, WriteProfile, vars, server, channel
  <2> QED
    BY <1>1, <2>1, <2>2, <2>3 DEF SealInv, drained
<1>2. CASE collector = "running"
  <2>1. main' # "exited"
    BY <1>2 DEF SealInv, Next, Accept, Handler, StartupOk, StartupEnds, Checkout,
                CheckoutFails, Login, LoginOk, LoginEnds, LoginError, RelayEvent,
                RelayEnds, RelayAborted, RelayDropped, Discard, Return, Collect,
                Reject, ListenerStops, CollectorFinishes, Shutdown, Main,
                ListenerJoined, Drained, WriteProfile, vars, server, channel
  <2>2. CASE CollectorFinishes
    <3>1. ~Senders' /\ queue' = queue /\ drained
      BY <2>2, NoSenders DEF CollectorFinishes, closed
    <3> QED
      BY <2>1, <3>1 DEF SealInv, drained
  <2>3. CASE ~CollectorFinishes
    <3>1. collector' = "running"
      BY <1>2, <2>3
         DEF Next, Accept, Handler, StartupOk, StartupEnds, Checkout, CheckoutFails,
             Login, LoginOk, LoginEnds, LoginError, RelayEvent, RelayEnds,
             RelayAborted, RelayDropped, Discard, Return, Send, Collect, Reject,
             ListenerStops, Shutdown, Main, ListenerJoined, Drained, WriteProfile,
             vars, server, channel
    <3> QED
      BY <2>1, <3>1 DEF SealInv
  <2> QED
    BY <2>2, <2>3
<1> QED
  BY <1>1, <1>2 DEF TypeInv

\* The profile that a shutdown leaves behind holds every event that any
\* session sent, in the relay tasks that were aborted too (capture.rs 70-75,
\* mod.rs 299-326).
THEOREM ProfileCorrect == Spec => []ProfileComplete
<1>1. TypeInv /\ SealInv => ProfileComplete
  <2> SUFFICES ASSUME TypeInv, SealInv, main = "exited"
               PROVE  ~Senders /\ profile = sent
    BY DEF ProfileComplete
  <2>1. ~Senders /\ drained /\ profile = collected
    BY DEF SealInv
  <2>2. \A s \in Sessions : collected[s] = sent[s]
    BY <2>1 DEF drained, TypeInv, TypeOK
  <2>3. collected = sent
    BY <2>2 DEF TypeInv, TypeOK
  <2> QED
    BY <2>1, <2>3
<1> QED
  BY <1>1, TypeInit, TypeStep, SealInit, SealStep, PTL DEF Spec
=============================================================================
