------------------------------ MODULE SlotPool ------------------------------
(***************************************************************************)
(* What src/proxy/pool.rs promises its callers, with no queue, lock,       *)
(* notification or socket in sight: at most MaxSize slots exist, a session *)
(* that gets a server connection takes one, and a slot comes back when it  *)
(* is released.  A session may also end without releasing its slot, in     *)
(* which case the slot is lost for the life of the pool.                   *)
(***************************************************************************)
EXTENDS Naturals, FiniteSets

CONSTANTS Sessions, MaxSize

VARIABLES held,   \* sessions that occupy a slot
          lost,   \* sessions that ended and took their slot with them
          spare   \* idle server connections kept for the next session

vars == <<held, lost, spare>>

Fits(h, l, n) == Cardinality(h) + Cardinality(l) + n <= MaxSize

Init == held = {} /\ lost = {} /\ spare = 0

Acquire(s) ==
    /\ s \notin held \cup lost
    /\ held' = held \cup {s}
    /\ spare' \in 0 .. spare
    /\ Fits(held', lost, spare')
    /\ UNCHANGED lost

Release(s) ==
    /\ s \in held
    /\ held' = held \ {s}
    /\ spare' \in {spare, spare + 1}
    /\ Fits(held', lost, spare')
    /\ UNCHANGED lost

Lose(s) ==
    /\ s \in held
    /\ held' = held \ {s}
    /\ lost' = lost \cup {s}
    /\ UNCHANGED spare

Trim ==
    /\ spare' \in 0 .. spare
    /\ UNCHANGED <<held, lost>>

Next ==
    \/ \E s \in Sessions : Acquire(s) \/ Release(s) \/ Lose(s)
    \/ Trim

Spec == Init /\ [][Next]_vars
=============================================================================
