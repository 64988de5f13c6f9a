--------------------------- MODULE ProxyLifecycle ---------------------------
(***************************************************************************)
(* A capture run of the proxy from accept to the written profile:          *)
(* run_proxy (src/proxy/mod.rs), run_listener and its guards               *)
(* (src/proxy/listener.rs), handle_connection phase by phase               *)
(* (src/proxy/connection.rs) and run_collector (src/proxy/capture.rs).     *)
(* The pool is the SlotPool that SessionPool implements.                   *)
(*                                                                         *)
(* The collector finishes when every clone of capture_tx is dropped: the   *)
(* listener has one, every handler has one, every relay task has one.      *)
(***************************************************************************)
EXTENDS Naturals, FiniteSets

CONSTANTS
    Sessions,     \* client connections that arrive
    Ips,          \* source addresses
    ip,           \* the address of each session
    MaxPerIp,     \* --max-connections-per-ip, 0 for no limit
    MaxSize,      \* --pool-size
    MaxEvents,    \* bound on the capture events a session sends
    Mute,         \* clients that may connect and then say nothing
    None

ASSUME LifecycleAssumption ==
    /\ IsFiniteSet(Sessions) /\ ip \in [Sessions -> Ips]
    /\ {MaxPerIp, MaxSize, MaxEvents} \subseteq Nat
    /\ Mute \subseteq Sessions /\ None \notin Sessions

VARIABLES
    main,               \* where run_proxy is
    shutdown_token,     \* cancelled?
    listener,           \* "accepting" or "stopped"
    rejecting,          \* the connection being refused for its address
    ip_map,             \* per-IP connection counters
    connections_active, \* the gauge of ProxyMetrics
    phase,              \* where each handler is
    relays,             \* sessions whose relay tasks have not been dropped
    held, lost, spare,  \* the pool
    sent,               \* events each session sent
    queue,              \* how many of them are in the channel, in any order
    collected,          \* and how many the collector has seen
    collector,          \* "running" or "finished"
    profile             \* what the collector had when the profile was written

pool == <<held, lost, spare>>
channel == <<sent, queue, collected, collector>>
server == <<main, shutdown_token, listener, profile>>
counters == <<rejecting, ip_map, connections_active>>
vars == <<server, counters, phase, relays, pool, channel>>

Pool == INSTANCE SlotPool

Init ==
    /\ main = "serving" /\ shutdown_token = FALSE /\ listener = "accepting"
    /\ rejecting = None
    /\ ip_map = [a \in Ips |-> 0] /\ connections_active = 0
    /\ phase = [s \in Sessions |-> "backlog"] /\ relays = {}
    /\ Pool!Init
    /\ sent = [s \in Sessions |-> 0] /\ queue = sent /\ collected = sent
    /\ collector = "running" /\ profile = None

Enter(s, p) == phase' = [phase EXCEPT ![s] = p]

\* Handlers that exist.
Live == {s \in Sessions : phase[s] \notin {"backlog", "refused", "done"}}

LiveFrom(a) == {s \in Live : ip[s] = a}

-----------------------------------------------------------------------------
(***************************************************************************)
(* run_listener.  The select is biased: a cancelled token is seen before a *)
(* pending connection.                                                     *)
(***************************************************************************)
Over(n) == MaxPerIp > 0 /\ n > MaxPerIp

\* The counter is raised first; the slip: comparing the old value.
counted_before(a) == ip_map[a]
counted(a) == ip_map[a] + 1

\* Addresses are only counted when there is a limit.
Adjusted(a, n) ==
    IF MaxPerIp > 0 THEN [ip_map EXCEPT ![a] = n] ELSE ip_map

Accept(s) ==
    /\ listener = "accepting" /\ ~shutdown_token /\ rejecting = None
    /\ phase[s] = "backlog"
    /\ ip_map' = Adjusted(ip[s], ip_map[ip[s]] + 1)
    /\ IF Over(counted(ip[s]))
         THEN /\ rejecting' = s
              /\ Enter(s, "refused")
              /\ UNCHANGED connections_active
         ELSE /\ connections_active' = connections_active + 1
              /\ Enter(s, "startup")
              /\ UNCHANGED rejecting
    /\ UNCHANGED <<server, relays, pool, channel>>

\* The refused connection's count is taken back before the next accept.
Reject ==
    /\ rejecting # None
    /\ ip_map' = [ip_map EXCEPT ![ip[rejecting]] = @ - 1]
    /\ rejecting' = None
    /\ UNCHANGED <<server, connections_active, phase, relays, pool, channel>>

\* The token, or an accept error: the task returns and drops its capture_tx.
ListenerStops ==
    /\ listener = "accepting" /\ rejecting = None
    /\ listener' = "stopped"
    /\ UNCHANGED <<main, shutdown_token, profile, counters, phase, relays, pool, channel>>

-----------------------------------------------------------------------------
(***************************************************************************)
(* handle_connection.                                                      *)
(***************************************************************************)
\* read_startup_message has no timeout and does not watch the token.
StartupOk(s) ==
    /\ phase[s] = "startup"
    /\ Enter(s, "checkout")
    /\ UNCHANGED <<server, counters, relays, pool, channel>>

\* Disconnect, TLS failure, CancelRequest or an unknown message.
StartupEnds(s) ==
    /\ phase[s] = "startup"
    /\ Enter(s, "returning")
    /\ UNCHANGED <<server, counters, relays, pool, channel>>

Checkout(s) ==
    /\ phase[s] = "checkout"
    /\ Pool!Acquire(s)
    /\ Enter(s, "login")
    /\ UNCHANGED <<server, counters, relays, channel>>

\* pool_timeout passes.
CheckoutFails(s) ==
    /\ phase[s] = "checkout"
    /\ Enter(s, "returning")
    /\ UNCHANGED <<server, counters, relays, pool, channel>>

\* The channel is unbounded: sending never waits and loses nothing.
Send(s) ==
    /\ sent' = [sent EXCEPT ![s] = @ + 1]
    /\ queue' = [queue EXCEPT ![s] = @ + 1]
    /\ UNCHANGED <<collected, collector>>

\* SessionStart is always sent; then the relay tasks are spawned.
LoginOk(s) ==
    /\ phase[s] = "login"
    /\ Send(s)
    /\ relays' = relays \cup {s}
    /\ Enter(s, "relay")
    /\ UNCHANGED <<server, counters, pool>>

\* discard gives the slot back; the slip: leaving without it.
discard_forgotten(s) == UNCHANGED pool
discard(s) == Pool!Release(s)

\* auth_timeout, or a peer that closes.
LoginEnds(s) ==
    /\ phase[s] = "login"
    /\ discard(s)
    /\ Enter(s, "returning")
    /\ UNCHANGED <<server, counters, relays, channel>>

\* A connect, startup-write or authentication error returns through `?`.
LoginError(s) ==
    /\ phase[s] = "login"
    /\ Pool!Lose(s)
    /\ Enter(s, "returning")
    /\ UNCHANGED <<server, counters, relays, channel>>

\* A relay task sends an event; an aborted task may still be running its last
\* poll on another thread.
RelayEvent(s) ==
    /\ s \in relays
    /\ sent[s] < MaxEvents
    /\ Send(s)
    /\ UNCHANGED <<server, counters, phase, relays, pool>>

\* One direction finished (client or server went away, or timed out).
RelayEnds(s) ==
    /\ phase[s] = "relay"
    /\ Enter(s, "discarding")
    /\ UNCHANGED <<server, counters, relays, pool, channel>>

\* The shutdown branch of the select; the slip: not having it.
sees_nothing == FALSE
sees_shutdown == shutdown_token

RelayAborted(s) ==
    /\ phase[s] = "relay"
    /\ sees_shutdown
    /\ Enter(s, "discarding")
    /\ UNCHANGED <<server, counters, relays, pool, channel>>

\* The runtime drops an aborted task, and its capture_tx, at its next await.
RelayDropped(s) ==
    /\ s \in relays
    /\ phase[s] \notin {"login", "relay"}
    /\ relays' = relays \ {s}
    /\ UNCHANGED <<server, counters, phase, pool, channel>>

Discard(s) ==
    /\ phase[s] = "discarding"
    /\ discard(s)
    /\ Enter(s, "returning")
    /\ UNCHANGED <<server, counters, relays, channel>>

\* handle_connection returns: its capture_tx and the two guards are dropped.
\* The slip: a guard that is forgotten.
guard_forgotten(a) == ip_map
guard_dropped(a) == Adjusted(a, ip_map[a] - 1)

Return(s) ==
    /\ phase[s] = "returning"
    /\ ip_map' = guard_dropped(ip[s])
    /\ connections_active' = connections_active - 1
    /\ Enter(s, "done")
    /\ UNCHANGED <<server, rejecting, relays, pool, channel>>

-----------------------------------------------------------------------------
(***************************************************************************)
(* run_collector and run_proxy.                                            *)
(***************************************************************************)
Senders == listener = "accepting" \/ Live # {} \/ relays # {}

Collect(s) ==
    /\ collector = "running" /\ queue[s] > 0
    /\ queue' = [queue EXCEPT ![s] = @ - 1]
    /\ collected' = [collected EXCEPT ![s] = @ + 1]
    /\ UNCHANGED <<server, counters, phase, relays, pool, sent, collector>>

\* recv returns None; the slip: treating an empty channel as a closed one.
drained == \A s \in Sessions : queue[s] = 0
closed == drained /\ ~Senders

CollectorFinishes ==
    /\ collector = "running" /\ closed
    /\ collector' = "finished"
    /\ UNCHANGED <<server, counters, phase, relays, pool, sent, queue, collected>>

\* A signal, or --duration.
Shutdown ==
    /\ main = "serving"
    /\ shutdown_token' = TRUE
    /\ main' = "stopping"
    /\ UNCHANGED <<listener, profile, counters, phase, relays, pool, channel>>

ListenerJoined ==
    /\ main = "stopping" /\ listener = "stopped"
    /\ main' = "draining"
    /\ UNCHANGED <<shutdown_token, listener, profile, counters, phase, relays,
                   pool, channel>>

\* active_count is 0, or the shutdown timeout passes (it may do so at once, and
\* only then when slots were lost).
Drained ==
    /\ main = "draining"
    /\ main' = "collecting"
    /\ UNCHANGED <<shutdown_token, listener, profile, counters, phase, relays,
                   pool, channel>>

WriteProfile ==
    /\ main = "collecting" /\ collector = "finished"
    /\ profile' = collected
    /\ main' = "exited"
    /\ UNCHANGED <<shutdown_token, listener, counters, phase, relays, pool, channel>>

-----------------------------------------------------------------------------
Login(s) == LoginOk(s) \/ LoginEnds(s) \/ LoginError(s)

Handler(s) ==
    \/ StartupOk(s) \/ StartupEnds(s) \/ Checkout(s) \/ CheckoutFails(s)
    \/ Login(s) \/ RelayEvent(s) \/ RelayEnds(s) \/ RelayAborted(s)
    \/ RelayDropped(s) \/ Discard(s) \/ Return(s)

Main == ListenerJoined \/ Drained \/ WriteProfile

Next ==
    \/ \E s \in Sessions : Accept(s) \/ Handler(s) \/ Collect(s)
    \/ Reject \/ ListenerStops \/ CollectorFinishes
    \/ Shutdown \/ Main

\* The runtime runs what is ready, pool_timeout and auth_timeout fire, and a
\* client that is not mute gets through its startup.  An established session
\* need never end and nobody need shut the proxy down.
Fairness ==
    /\ \A s \in Sessions :
         /\ WF_vars(Checkout(s) \/ CheckoutFails(s))
         /\ WF_vars(Login(s))
         /\ WF_vars(RelayAborted(s)) /\ WF_vars(RelayDropped(s))
         /\ WF_vars(Discard(s)) /\ WF_vars(Return(s)) /\ WF_vars(Collect(s))
    /\ \A s \in Sessions \ Mute : WF_vars(StartupOk(s) \/ StartupEnds(s))
    /\ WF_vars(Reject) /\ WF_vars(shutdown_token /\ ListenerStops)
    /\ WF_vars(CollectorFinishes) /\ WF_vars(Main)

Spec == Init /\ [][Next]_vars /\ Fairness

-----------------------------------------------------------------------------
(***************************************************************************)
(* Properties.                                                             *)
(***************************************************************************)
Phases == {"backlog", "refused", "startup", "checkout", "login", "relay",
           "discarding", "returning", "done"}

\* A handler has a slot exactly while it talks to the server, and the channel
\* neither loses nor invents an event.
TypeOK ==
    /\ main \in {"serving", "stopping", "draining", "collecting", "exited"}
    /\ phase \in [Sessions -> Phases]
    /\ relays \subseteq Sessions
    /\ held = {s \in Sessions : phase[s] \in {"login", "relay", "discarding"}}
    /\ {sent, queue, collected} \subseteq [Sessions -> Nat]
    /\ \A s \in Sessions : collected[s] + queue[s] = sent[s]

\* IpConnectionGuard: the counter of an address is the number of its live
\* connections, plus the one being refused; MetricsActiveGuard: the gauge stays
\* balanced "even on early returns" (listener.rs).
CountersBalanced ==
    /\ MaxPerIp > 0 => \A a \in Ips :
         ip_map[a] = Cardinality(LiveFrom(a))
                       + IF rejecting # None /\ ip[rejecting] = a THEN 1 ELSE 0
    /\ connections_active = Cardinality(Live)

\* --max-connections-per-ip holds at every interleaving of accepts and returns.
PerIpLimit ==
    MaxPerIp > 0 => \A a \in Ips : Cardinality(LiveFrom(a)) <= MaxPerIp

\* The profile is written once nobody can send any more, and holds every event
\* that was sent, those of aborted sessions included.
ProfileComplete == main = "exited" => ~Senders /\ profile = sent

\* "the mechanism that makes drain_connections timeout actually able to
\* finalize and write the captured workload profile (SC-013)" (listener.rs):
\* after a shutdown signal the profile is written, whatever idle clients do.
Finalizes == shutdown_token ~> main = "exited"
=============================================================================
