---------------------------- MODULE SessionPool ----------------------------
(***************************************************************************)
(* The session-mode connection pool (src/proxy/pool.rs) together with the  *)
(* life of the connection handlers that use it (handle_connection_inner in *)
(* src/proxy/connection.rs): checkout, startup and authentication, relay,  *)
(* and the ways a handler lets go of its server connection.                *)
(*                                                                         *)
(* One action is one critical section of the pool's mutex, or one await    *)
(* point outside it.  tokio's Notify is external: it stores one permit,    *)
(* and a permit is either handed to a waiter or kept.  Its waiters are     *)
(* woken in FIFO order; the model wakes any of them.  The idle queue is a  *)
(* set for the same reason: which idle connection is handed out matters to *)
(* nobody, only whether it has expired.                                    *)
(***************************************************************************)
EXTENDS Naturals, FiniteSets

CONSTANTS
    Sessions,      \* client sessions that arrive, one handler task each
    MaxSize,       \* --pool-size
    Lifetime,      \* server_lifetime_secs > 0
    IdleTimeout,   \* server_idle_timeout_secs > 0
    Checkins       \* do callers return connections with checkin?

ASSUME SessionsAssumption == IsFiniteSet(Sessions)
ASSUME MaxSizeAssumption == MaxSize \in Nat
ASSUME FlagsAssumption ==
    Lifetime \in BOOLEAN /\ IdleTimeout \in BOOLEAN /\ Checkins \in BOOLEAN

VARIABLES
    idle,          \* connections in PoolInner.idle
    active_count,
    next_id,
    permit,        \* the permit stored in the Notify
    overage,       \* idle connections older than server_lifetime_secs
    stale,         \* idle connections unused for server_idle_timeout_secs
    pc,            \* where each handler is
    conn,          \* the connection whose socket a handler still owns
    late           \* handlers whose pool_timeout deadline has passed

vars == <<idle, active_count, next_id, permit, overage, stale, pc, conn, late>>

NoConn == 0

\* Handlers inside SessionPool::checkout that do not have a slot yet.
CheckingOut == {"checkout", "at_capacity", "parked"}

\* Handlers that took a slot: opening the socket, logging in, relaying, or on
\* their way to checkin or discard.
InUse == {"connecting", "login", "relay", "discarding", "returning"}

\* Handlers that gave the slot back ("notify" has yet to call notify_one).
LetGo == {"notify", "closed"}

At(labels) == {s \in Sessions : pc[s] \in labels}

Users == At(InUse)

\* A handler that returned early through `?` while it had a slot.
Leaked == At({"dropped"})

Parked == At({"parked"})

Init ==
    /\ idle = {}
    /\ active_count = 0
    /\ next_id = 1
    /\ permit = FALSE
    /\ overage = {}
    /\ stale = {}
    /\ pc = [s \in Sessions |-> "checkout"]
    /\ conn = [s \in Sessions |-> NoConn]
    /\ late = {}

-----------------------------------------------------------------------------
(***************************************************************************)
(* Time.  Idle connections expire, deadlines pass.                         *)
(***************************************************************************)
OldAge(c) ==
    /\ Lifetime
    /\ c \in idle \ overage
    /\ overage' = overage \cup {c}
    /\ UNCHANGED <<idle, active_count, next_id, permit, stale, pc, conn, late>>

GoStale(c) ==
    /\ IdleTimeout
    /\ c \in idle \ stale
    /\ stale' = stale \cup {c}
    /\ UNCHANGED <<idle, active_count, next_id, permit, overage, pc, conn, late>>

Deadline(s) ==
    /\ pc[s] \in CheckingOut
    /\ s \notin late
    /\ late' = late \cup {s}
    /\ UNCHANGED <<idle, active_count, next_id, permit, overage, stale, pc, conn>>

-----------------------------------------------------------------------------
(***************************************************************************)
(* SessionPool::checkout.                                                  *)
(***************************************************************************)
Goto(s, label) == pc' = [pc EXCEPT ![s] = label]

Usable == idle \ (overage \cup stale)

\* Connections that leave the queue take their expiry with them.
Forget == overage' = overage \cap idle' /\ stale' = stale \cap idle'

\* inner.active_count += 1; the slip: counting the slot once the connection is
\* up, after the lock was released.
counted_later == active_count
counted == active_count + 1

\* inner.next_id += 1; the slip: forgetting it.
same_id == next_id
bumped_id == next_id + 1

\* pop_front; the slip: front, which leaves the connection in the queue.
peeked(c, popped) == idle \ popped
popped_idle(c, popped) == idle \ ({c} \cup popped)

\* Pop until a usable connection turns up; expired ones popped on the way are
\* closed.
TakeIdle(s) ==
    /\ pc[s] = "checkout"
    /\ \E c \in Usable, popped \in SUBSET (idle \ Usable) :
         /\ idle' = popped_idle(c, popped)
         /\ conn' = [conn EXCEPT ![s] = c]
    /\ active_count' = counted
    /\ Goto(s, "login")
    /\ Forget
    /\ UNCHANGED <<next_id, permit, late>>

\* total < self.max_size; the slip: off by one.
has_room_inclusive(n) == n <= MaxSize
HasRoom(n) == n < MaxSize

\* Every idle connection was expired (or there was none): the slot is counted
\* and the lock released before the connection is attempted.
OpenNew(s) ==
    /\ pc[s] = "checkout"
    /\ Usable = {}
    /\ HasRoom(active_count)
    /\ idle' = {}
    /\ next_id' = bumped_id
    /\ active_count' = counted
    /\ conn' = [conn EXCEPT ![s] = next_id]
    /\ Goto(s, "connecting")
    /\ Forget
    /\ UNCHANGED <<permit, late>>

\* The lock is released here, before the deadline is looked at and before the
\* task is registered with the Notify.
AtCapacity(s) ==
    /\ pc[s] = "checkout"
    /\ Usable = {}
    /\ ~HasRoom(active_count)
    /\ idle' = {}
    /\ Goto(s, "at_capacity")
    /\ Forget
    /\ UNCHANGED <<active_count, next_id, permit, conn, late>>

\* First poll of notified(): a stored permit is consumed at once, otherwise
\* the task is queued.
Register(s) ==
    /\ pc[s] = "at_capacity"
    /\ permit' = FALSE
    /\ Goto(s, IF permit THEN "checkout" ELSE "parked")
    /\ UNCHANGED <<idle, active_count, next_id, overage, stale, conn, late>>

\* The slip: awaiting notified() without a timeout around it.
GiveUpBeforeWaiting(s) ==
    /\ pc[s] = "at_capacity"
    /\ s \in late
    /\ Goto(s, "rejected")
    /\ UNCHANGED <<idle, active_count, next_id, permit, overage, stale, conn, late>>

\* "Connection pool exhausted": the deadline had passed before the wait, or
\* passed during it.
GiveUp(s) ==
    /\ pc[s] \in {"at_capacity", "parked"}
    /\ s \in late
    /\ Goto(s, "rejected")
    /\ UNCHANGED <<idle, active_count, next_id, permit, overage, stale, conn, late>>

ConnectOk(s) ==
    /\ pc[s] = "connecting"
    /\ Goto(s, "login")
    /\ UNCHANGED <<idle, active_count, next_id, permit, overage, stale, conn, late>>

\* connect_with_timeout(..).await? returns with the slot still counted.
ConnectFails(s) ==
    /\ pc[s] = "connecting"
    /\ conn' = [conn EXCEPT ![s] = NoConn]
    /\ Goto(s, "dropped")
    /\ UNCHANGED <<idle, active_count, next_id, permit, overage, stale, late>>

-----------------------------------------------------------------------------
(***************************************************************************)
(* The handler between checkout and the end of the session.                *)
(***************************************************************************)
LoginOk(s) ==
    /\ pc[s] = "login"
    /\ Goto(s, "relay")
    /\ UNCHANGED <<idle, active_count, next_id, permit, overage, stale, conn, late>>

\* write_message(startup).await? and relay_auth(..).await? return with the
\* slot still counted.
LoginError(s) ==
    /\ pc[s] = "login"
    /\ Goto(s, "dropped")
    /\ UNCHANGED <<idle, active_count, next_id, permit, overage, stale, conn, late>>

\* Auth timeout, a peer that hangs up during auth, or the end of the relay
\* (either direction, or the shutdown token).
StartDiscard(s) ==
    /\ pc[s] \in {"login", "relay"}
    /\ Goto(s, "discarding")
    /\ UNCHANGED <<idle, active_count, next_id, permit, overage, stale, conn, late>>

\* checkin is part of the pool's interface but no handler calls it today.
StartCheckin(s) ==
    /\ Checkins
    /\ pc[s] = "relay"
    /\ Goto(s, "returning")
    /\ UNCHANGED <<idle, active_count, next_id, permit, overage, stale, conn, late>>

saturating_sub(n) == IF n > 0 THEN n - 1 ELSE 0

\* The critical section of discard: the socket is still open afterwards.
Discard(s) ==
    /\ pc[s] = "discarding"
    /\ active_count' = saturating_sub(active_count)
    /\ Goto(s, "notify")
    /\ UNCHANGED <<idle, next_id, permit, overage, stale, conn, late>>

\* checkin of a connection that has outlived server_lifetime_secs, as a
\* connection in use may have at any time.
CheckinExpired(s) ==
    /\ Lifetime
    /\ pc[s] = "returning"
    /\ active_count' = saturating_sub(active_count)
    /\ Goto(s, "notify")
    /\ UNCHANGED <<idle, next_id, permit, overage, stale, conn, late>>

CheckinFresh(s) ==
    /\ pc[s] = "returning"
    /\ active_count' = saturating_sub(active_count)
    /\ idle' = idle \cup {conn[s]}
    /\ conn' = [conn EXCEPT ![s] = NoConn]
    /\ Goto(s, "notify")
    /\ UNCHANGED <<next_id, permit, overage, stale, late>>

\* notify_one keeps a permit when nobody waits; notify_waiters would not.
stored_by_notify_waiters == permit
stored_permit == TRUE

\* notify_one, after the lock was released.
NotifyOne(s) ==
    /\ pc[s] = "notify"
    /\ IF Parked = {}
         THEN /\ permit' = stored_permit
              /\ Goto(s, "closed")
         ELSE /\ \E w \in Parked :
                   pc' = [pc EXCEPT ![s] = "closed", ![w] = "checkout"]
              /\ UNCHANGED permit
    /\ UNCHANGED <<idle, active_count, next_id, overage, stale, conn, late>>

\* The socket goes away some time after the slot: the relay tasks are aborted
\* but not awaited, and a stream owned by the handler is dropped on return.
CloseSocket(s) ==
    /\ pc[s] \in LetGo \cup {"dropped"}
    /\ conn[s] # NoConn
    /\ conn' = [conn EXCEPT ![s] = NoConn]
    /\ UNCHANGED <<idle, active_count, next_id, permit, overage, stale, pc, late>>

\* reap_idle, run by the background reaper.
ReapIdle ==
    /\ IdleTimeout
    /\ idle \cap stale # {}
    /\ idle' = idle \ stale
    /\ Forget
    /\ UNCHANGED <<active_count, next_id, permit, pc, conn, late>>

-----------------------------------------------------------------------------
Checkout(s) ==
    TakeIdle(s) \/ OpenNew(s) \/ AtCapacity(s) \/ Register(s) \/ GiveUp(s)

Handler(s) ==
    \/ Checkout(s)
    \/ ConnectOk(s) \/ ConnectFails(s)
    \/ LoginOk(s) \/ LoginError(s)
    \/ StartDiscard(s) \/ StartCheckin(s)
    \/ Discard(s) \/ CheckinExpired(s) \/ CheckinFresh(s)
    \/ NotifyOne(s) \/ CloseSocket(s)

Time ==
    \/ \E c \in 1 .. (next_id - 1) : OldAge(c) \/ GoStale(c)
    \/ \E s \in Sessions : Deadline(s)

Next == (\E s \in Sessions : Handler(s)) \/ ReapIdle \/ Time

\* The runtime polls every ready task and timers fire; nothing else has to
\* happen (a relay may last for ever, a login may hang without auth_timeout).
Fairness ==
    \A s \in Sessions :
        /\ WF_vars(Checkout(s))
        /\ WF_vars(Deadline(s))

Spec == Init /\ [][Next]_vars /\ Fairness
-----------------------------------------------------------------------------
(***************************************************************************)
(* Properties.                                                             *)
(***************************************************************************)
Conns == 1 .. (next_id - 1)

Labels == CheckingOut \cup InUse \cup LetGo \cup {"dropped", "rejected"}

\* The state has the shape of PoolInner, the Notify and the handlers; expired
\* connections are connections of the idle queue, and ids are never reused.
TypeOK ==
    /\ active_count \in Nat
    /\ next_id \in Nat \ {0}
    /\ permit \in BOOLEAN
    /\ idle \subseteq Conns
    /\ overage \subseteq idle
    /\ stale \subseteq idle
    /\ pc \in [Sessions -> Labels]
    /\ conn \in [Sessions -> Nat]
    /\ late \subseteq Sessions

\* Every unit of active_count is a handler that occupies a slot or one that
\* left through `?` without giving it back: discard and checkin never give
\* back a slot twice (saturating_sub would hide it), and nothing else leaks.
SlotAccounting == active_count = Cardinality(Users) + Cardinality(Leaked)

\* --pool-size bounds the slots: occupied, lost and idle together, at every
\* interleaving of checkout, checkin, discard and the reaper.
Bounded ==
    Cardinality(Users) + Cardinality(Leaked) + Cardinality(idle) <= MaxSize

\* Session mode: a server connection serves one session at a time, and an idle
\* one serves none.
Exclusive ==
    /\ \A s \in Sessions : conn[s] # NoConn => conn[s] \notin idle
    /\ \A s, t \in Sessions :
          conn[s] = conn[t] /\ conn[s] # NoConn => s = t

\* checkout returns, with a connection or an error, whatever the sessions that
\* hold the slots do: "Waits up to pool_timeout if at capacity" (pool.rs).
CheckoutReturns ==
    \A s \in Sessions : pc[s] \in CheckingOut ~> pc[s] \notin CheckingOut

\* No notification is on its way to anybody.
Quiet ==
    /\ ~permit
    /\ At({"notify", "checkout", "at_capacity"}) = {}

\* A handler is left waiting only while all MaxSize slots are taken: giving
\* back a slot always reaches a waiter.
WaitsOnlyAtCapacity ==
    Quiet /\ Parked # {} => active_count >= MaxSize

\* The pool is a SlotPool: every step takes a slot, gives one back, loses one,
\* drops idle connections, or changes nothing a caller can count.
Slots == INSTANCE SlotPool
           WITH held <- Users, lost <- Leaked, spare <- Cardinality(idle)

ImplementsSlotPool == Slots!Spec
=============================================================================
