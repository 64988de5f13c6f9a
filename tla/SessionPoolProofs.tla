------------------------- MODULE SessionPoolProofs -------------------------
(***************************************************************************)
(* Theorems about SessionPool, for any finite set of sessions and any      *)
(* --pool-size.                                                            *)
(***************************************************************************)
EXTENDS SessionPool, FiniteSetTheorems, TLAPS

-----------------------------------------------------------------------------
(***************************************************************************)
(* Types.  A handler has a connection exactly while it has a slot (it may  *)
(* keep the socket a little longer), and connections are numbered below    *)
(* next_id.                                                                *)
(***************************************************************************)
Owns ==
    \A s \in Sessions :
        /\ conn[s] \in Conns \cup {NoConn}
        /\ pc[s] \in CheckingOut \cup {"rejected"} => conn[s] = NoConn
        /\ pc[s] \in InUse => conn[s] # NoConn

TypeInv == TypeOK /\ Owns

\* The state of the pool and of the handlers starts with its types ...
LEMMA TypeInit == Init => TypeInv
<1> SUFFICES ASSUME Init PROVE TypeInv
  OBVIOUS
<1> USE DEF Init, Conns, Labels, CheckingOut, InUse, LetGo, NoConn
<1>1. TypeOK
  <2>1. permit \in BOOLEAN
    BY Zenon
  <2>2. active_count \in Nat /\ next_id \in Nat \ {0} /\ idle \subseteq Conns
        /\ overage \subseteq idle /\ stale \subseteq idle /\ late \subseteq Sessions
    OBVIOUS
  <2>3. pc \in [Sessions -> Labels] /\ conn \in [Sessions -> Nat]
    OBVIOUS
  <2> QED
    BY <2>1, <2>2, <2>3, Zenon DEF TypeOK
<1>2. Owns
  BY DEF Owns
<1> QED
  BY <1>1, <1>2 DEF TypeInv

\* ... and every critical section and await point keeps them.
LEMMA TypeStep == TypeInv /\ [Next]_vars => TypeInv'
<1> SUFFICES ASSUME TypeInv, [Next]_vars PROVE TypeInv'
  OBVIOUS
<1> USE DEF TypeInv, TypeOK, Owns, Conns, Labels, CheckingOut, InUse, LetGo, NoConn, Goto
<1>1. ASSUME NEW s \in Sessions, TakeIdle(s) PROVE TypeInv'
  BY <1>1 DEF TakeIdle, Usable, popped_idle, counted, Forget
<1>2. ASSUME NEW s \in Sessions, OpenNew(s) PROVE TypeInv'
  BY <1>2 DEF OpenNew, counted, bumped_id, Forget
<1>3. ASSUME NEW s \in Sessions, AtCapacity(s) PROVE TypeInv'
  BY <1>3 DEF AtCapacity, Forget
<1>4. ASSUME NEW s \in Sessions, Register(s) PROVE TypeInv'
  BY <1>4 DEF Register
<1>5. ASSUME NEW s \in Sessions, GiveUp(s) PROVE TypeInv'
  BY <1>5 DEF GiveUp
<1>6. ASSUME NEW s \in Sessions, ConnectOk(s) PROVE TypeInv'
  BY <1>6 DEF ConnectOk
<1>7. ASSUME NEW s \in Sessions, ConnectFails(s) PROVE TypeInv'
  BY <1>7 DEF ConnectFails
<1>8. ASSUME NEW s \in Sessions, LoginOk(s) PROVE TypeInv'
  BY <1>8 DEF LoginOk
<1>9. ASSUME NEW s \in Sessions, LoginError(s) PROVE TypeInv'
  BY <1>9 DEF LoginError
<1>10. ASSUME NEW s \in Sessions, StartDiscard(s) \/ StartCheckin(s) PROVE TypeInv'
  BY <1>10 DEF StartDiscard, StartCheckin
<1>11. ASSUME NEW s \in Sessions, Discard(s) \/ CheckinExpired(s) PROVE TypeInv'
  <2>1. active_count' \in Nat
    BY <1>11 DEF Discard, CheckinExpired, saturating_sub
  <2> QED
    BY <1>11, <2>1 DEF Discard, CheckinExpired
<1>12. ASSUME NEW s \in Sessions, CheckinFresh(s) PROVE TypeInv'
  <2>1. active_count' \in Nat
    BY <1>12 DEF CheckinFresh, saturating_sub
  <2> QED
    BY <1>12, <2>1 DEF CheckinFresh
<1>13. ASSUME NEW s \in Sessions, NotifyOne(s) PROVE TypeInv'
  <2>1. CASE Parked = {}
    BY <1>13, <2>1 DEF NotifyOne, stored_permit
  <2>2. CASE Parked # {}
    BY <1>13, <2>2 DEF NotifyOne, Parked, At
  <2> QED
    BY <2>1, <2>2
<1>14. ASSUME NEW s \in Sessions, CloseSocket(s) PROVE TypeInv'
  BY <1>14 DEF CloseSocket
<1>15. ASSUME ReapIdle PROVE TypeInv'
  BY <1>15 DEF ReapIdle, Forget
<1>16. ASSUME Time PROVE TypeInv'
  BY <1>16 DEF Time, OldAge, GoStale, Deadline
<1>17. CASE UNCHANGED vars
  BY <1>17 DEF vars
<1> QED
  BY <1>1, <1>2, <1>3, <1>4, <1>5, <1>6, <1>7, <1>8, <1>9, <1>10, <1>11, <1>12,
     <1>13, <1>14, <1>15, <1>16, <1>17 DEF Next, Handler, Checkout

\* The type invariant of SessionPool holds of every behaviour of the pool.
THEOREM TypeCorrect == Spec => []TypeOK
<1>1. TypeInv => TypeOK
  BY DEF TypeInv
<1> QED
  BY <1>1, TypeInit, TypeStep, PTL DEF Spec
-----------------------------------------------------------------------------
(***************************************************************************)
(* Slots.                                                                  *)
(***************************************************************************)
SlotInv == SlotAccounting /\ Bounded

\* The sets that the slot accounting counts are finite.
LEMMA Finite ==
    ASSUME TypeOK
    PROVE  /\ IsFiniteSet(Users) /\ Cardinality(Users) \in Nat
           /\ IsFiniteSet(Leaked) /\ Cardinality(Leaked) \in Nat
           /\ IsFiniteSet(idle) /\ Cardinality(idle) \in Nat
<1>1. Users \subseteq Sessions /\ Leaked \subseteq Sessions
  BY DEF Users, Leaked, At
<1>2. IsFiniteSet(Users) /\ IsFiniteSet(Leaked)
  BY <1>1, SessionsAssumption, FS_Subset
<1>3. IsFiniteSet(Conns)
  BY FS_Interval DEF Conns, TypeOK
<1>4. IsFiniteSet(idle)
  BY <1>3, FS_Subset DEF TypeOK
<1> QED
  BY <1>2, <1>4, FS_CardinalityType

\* A handler that moves to a label enters or leaves the counted sets according
\* to the label alone.
LEMMA Moves ==
    ASSUME TypeOK, NEW s \in Sessions, NEW l, Goto(s, l)
    PROVE  /\ Users' = IF l \in InUse THEN Users \cup {s} ELSE Users \ {s}
           /\ Leaked' = IF l = "dropped" THEN Leaked \cup {s} ELSE Leaked \ {s}
BY DEF TypeOK, Goto, Users, Leaked, At

\* No slot is taken yet.
LEMMA SlotInit == Init => SlotInv
<1> SUFFICES ASSUME Init PROVE SlotInv
  OBVIOUS
<1>1. Users = {} /\ Leaked = {} /\ idle = {} /\ active_count = 0
  BY DEF Init, Users, Leaked, At, InUse
<1> QED
  BY <1>1, FS_EmptySet, MaxSizeAssumption DEF SlotInv, SlotAccounting, Bounded

\* Closing idle connections only makes room.
LEMMA FewerIdle ==
    ASSUME TypeOK, SlotInv, NEW I \in SUBSET idle
    PROVE  /\ IsFiniteSet(I) /\ Cardinality(I) \in Nat
           /\ Cardinality(I) <= Cardinality(idle)
BY Finite, FS_Subset, FS_CardinalityType

\* Every step keeps active_count equal to the slots taken and lost, and within
\* --pool-size together with the idle connections.
LEMMA SlotStep == TypeInv /\ SlotInv /\ [Next]_vars => SlotInv'
<1> SUFFICES ASSUME TypeInv, SlotInv, [Next]_vars PROVE SlotInv'
  OBVIOUS
<1> USE DEF SlotInv, SlotAccounting, Bounded
<1>f. TypeOK
  BY DEF TypeInv
<1>fin. /\ IsFiniteSet(Users) /\ Cardinality(Users) \in Nat
        /\ IsFiniteSet(Leaked) /\ Cardinality(Leaked) \in Nat
        /\ IsFiniteSet(idle) /\ Cardinality(idle) \in Nat
  BY <1>f, Finite
\* A step that neither takes nor gives back a slot, whatever it does to idle.
<1>same. ASSUME Users' = Users, Leaked' = Leaked, active_count' = active_count,
                idle' \subseteq idle
         PROVE  SlotInv'
  BY <1>same, <1>f, <1>fin, FewerIdle, MaxSizeAssumption
\* A handler that holds nothing takes a slot.
<1>take. ASSUME NEW s \in Sessions, s \notin Users, Users' = Users \cup {s},
                Leaked' = Leaked, active_count' = active_count + 1,
                IsFiniteSet(idle'), Cardinality(idle') \in Nat,
                active_count + Cardinality(idle') < MaxSize
         PROVE  SlotInv'
  <2>1. Cardinality(Users') = Cardinality(Users) + 1
    BY <1>take, <1>fin, FS_AddElement
  <2> QED
    BY <2>1, <1>take, <1>fin, MaxSizeAssumption
\* A handler gives its slot back, and perhaps leaves its connection behind.
<1>give. ASSUME NEW s \in Users, Users' = Users \ {s}, Leaked' = Leaked,
                active_count' = saturating_sub(active_count),
                Cardinality(idle') \in Nat,
                Cardinality(idle') <= Cardinality(idle) + 1
         PROVE  SlotInv'
  <2>1. Cardinality(Users') = Cardinality(Users) - 1
    BY <1>give, <1>fin, FS_RemoveElement
  <2>2. Cardinality(Users) # 0
    BY <1>give, <1>fin, FS_EmptySet
  <2> QED
    BY <2>1, <2>2, <1>give, <1>fin, MaxSizeAssumption DEF saturating_sub
\* A handler leaves through `?`.
<1>lose. ASSUME NEW s \in Users, s \notin Leaked, Users' = Users \ {s},
                Leaked' = Leaked \cup {s},
                UNCHANGED <<active_count, idle>>
         PROVE  SlotInv'
  <2>1. Cardinality(Users') = Cardinality(Users) - 1
    BY <1>lose, <1>fin, FS_RemoveElement
  <2>2. Cardinality(Leaked') = Cardinality(Leaked) + 1
    BY <1>lose, <1>fin, FS_AddElement
  <2> QED
    BY <2>1, <2>2, <1>lose, <1>fin, MaxSizeAssumption
<1> USE DEF InUse, LetGo, CheckingOut
<1>1. ASSUME NEW s \in Sessions, TakeIdle(s) PROVE SlotInv'
  <2>1. s \notin Users /\ Users' = Users \cup {s} /\ Leaked' = Leaked
    BY <1>1, <1>f, Moves DEF TakeIdle, Users, Leaked, At
  <2>2. PICK c \in Usable, popped \in SUBSET (idle \ Usable) : idle' = idle \ ({c} \cup popped)
    BY <1>1 DEF TakeIdle, popped_idle
  <2>3. c \in idle
    BY DEF Usable
  <2>4. /\ IsFiniteSet(idle \ {c})
        /\ Cardinality(idle \ {c}) = Cardinality(idle) - 1
    BY <2>3, <1>fin, FS_RemoveElement
  <2>5. idle' \in SUBSET (idle \ {c})
    BY <2>2
  <2>6. /\ IsFiniteSet(idle') /\ Cardinality(idle') \in Nat
        /\ Cardinality(idle') <= Cardinality(idle) - 1
    BY <2>4, <2>5, FS_Subset, FS_CardinalityType
  <2>7. active_count' = active_count + 1
    BY <1>1 DEF TakeIdle, counted
  <2>8. active_count + Cardinality(idle') < MaxSize
    BY <2>6, <1>fin, MaxSizeAssumption
  <2> QED
    BY <2>1, <2>6, <2>7, <2>8, <1>take
<1>2. ASSUME NEW s \in Sessions, OpenNew(s) PROVE SlotInv'
  <2>1. s \notin Users /\ Users' = Users \cup {s} /\ Leaked' = Leaked
    BY <1>2, <1>f, Moves DEF OpenNew, Users, Leaked, At
  <2>2. active_count' = active_count + 1 /\ active_count < MaxSize /\ idle' = {}
    BY <1>2 DEF OpenNew, counted, HasRoom
  <2>3. IsFiniteSet(idle') /\ Cardinality(idle') \in Nat /\ Cardinality(idle') = 0
    BY <2>2, FS_EmptySet
  <2>4. active_count + Cardinality(idle') < MaxSize
    BY <2>2, <2>3, <1>f, MaxSizeAssumption DEF TypeOK
  <2> QED
    BY <2>1, <2>2, <2>4, <2>3, <1>take
<1>3. ASSUME NEW s \in Sessions,
             AtCapacity(s) \/ Register(s) \/ GiveUp(s)
      PROVE  SlotInv'
  <2>1. Users' = Users /\ Leaked' = Leaked
    BY <1>3, <1>f, Moves DEF AtCapacity, Register, GiveUp, Users, Leaked, At
  <2> QED
    BY <2>1, <1>3, <1>same DEF AtCapacity, Register, GiveUp
<1>4. ASSUME NEW s \in Sessions,
             \/ ConnectOk(s) \/ LoginOk(s)
             \/ StartDiscard(s) \/ StartCheckin(s) \/ CloseSocket(s)
      PROVE  SlotInv'
  <2>1. CASE CloseSocket(s)
    BY <2>1, <1>same DEF CloseSocket, Users, Leaked, At
  <2>2. CASE ConnectOk(s) \/ LoginOk(s) \/ StartDiscard(s) \/ StartCheckin(s)
    <3>1. Users' = Users /\ Leaked' = Leaked
      BY <2>2, <1>f, Moves
         DEF ConnectOk, LoginOk, StartDiscard, StartCheckin, Users, Leaked, At
    <3> QED
      BY <3>1, <2>2, <1>same DEF ConnectOk, LoginOk, StartDiscard, StartCheckin
  <2> QED
    BY <1>4, <2>1, <2>2
<1>5. ASSUME NEW s \in Sessions, ConnectFails(s) \/ LoginError(s)
      PROVE  SlotInv'
  <2>1. /\ s \in Users /\ s \notin Leaked
        /\ Users' = Users \ {s} /\ Leaked' = Leaked \cup {s}
    BY <1>5, <1>f, Moves DEF ConnectFails, LoginError, Users, Leaked, At
  <2> QED
    BY <2>1, <1>5, <1>lose DEF ConnectFails, LoginError
<1>6. ASSUME NEW s \in Sessions,
             Discard(s) \/ CheckinExpired(s) \/ CheckinFresh(s)
      PROVE  SlotInv'
  <2>1. s \in Users /\ Users' = Users \ {s} /\ Leaked' = Leaked
    BY <1>6, <1>f, Moves
       DEF Discard, CheckinExpired, CheckinFresh, Users, Leaked, At
  <2>2. active_count' = saturating_sub(active_count)
    BY <1>6 DEF Discard, CheckinExpired, CheckinFresh
  <2>3. idle' = idle \/ idle' = idle \cup {conn[s]}
    BY <1>6 DEF Discard, CheckinExpired, CheckinFresh
  <2>4. Cardinality(idle') \in Nat /\ Cardinality(idle') <= Cardinality(idle) + 1
    <3>1. CASE idle' = idle
      BY <3>1, <1>fin
    <3>2. CASE idle' = idle \cup {conn[s]}
      BY <3>2, <1>fin, FS_AddElement
    <3> QED
      BY <2>3, <3>1, <3>2
  <2> QED
    BY <2>1, <2>2, <2>4, <1>give
<1>7. ASSUME NEW s \in Sessions, NotifyOne(s) PROVE SlotInv'
  <2>1. Users' = Users /\ Leaked' = Leaked
    <3>1. CASE Parked = {}
      BY <3>1, <1>7, <1>f, Moves DEF NotifyOne, Users, Leaked, At
    <3>2. CASE Parked # {}
      BY <3>2, <1>7, <1>f DEF NotifyOne, Parked, Users, Leaked, At, TypeOK
    <3> QED
      BY <3>1, <3>2
  <2> QED
    BY <2>1, <1>7, <1>same DEF NotifyOne
<1>8. CASE ReapIdle \/ Time \/ UNCHANGED vars
  BY <1>8, <1>same DEF ReapIdle, Time, OldAge, GoStale, Deadline, vars, Users, Leaked, At
<1> QED
  BY <1>1, <1>2, <1>3, <1>4, <1>5, <1>6, <1>7, <1>8 DEF Next, Handler, Checkout

\* SlotAccounting and Bounded hold of every behaviour: whatever the sessions
\* do, the pool never counts a slot that no handler took, never gives one back
\* twice, and never has more than --pool-size of them.
THEOREM SlotsCorrect == Spec => [](SlotAccounting /\ Bounded)
<1>1. Init => TypeInv /\ SlotInv
  BY TypeInit, SlotInit
<1>2. TypeInv /\ SlotInv /\ [Next]_vars => (TypeInv /\ SlotInv)'
  BY TypeStep, SlotStep
<1> QED
  BY <1>1, <1>2, PTL DEF Spec, SlotInv
-----------------------------------------------------------------------------
(***************************************************************************)
(* Session mode.                                                           *)
(***************************************************************************)
\* A step that moves a connection between the queue and a handler, opens one or
\* closes one never gives it to two of them.
LEMMA ExclusiveStep == TypeInv /\ Exclusive /\ [Next]_vars => Exclusive'
<1> SUFFICES ASSUME TypeInv, Exclusive, [Next]_vars PROVE Exclusive'
  OBVIOUS
<1> USE DEF TypeInv, TypeOK, Owns, Exclusive, NoConn
\* conn does not change and no connection enters the queue.
<1>same. ASSUME conn' = conn, idle' \subseteq idle PROVE Exclusive'
  BY <1>same
\* A handler lets go of its connection, which nobody picks up.
<1>drop. ASSUME NEW s \in Sessions, conn' = [conn EXCEPT ![s] = NoConn],
                idle' = idle
         PROVE  Exclusive'
  BY <1>drop
<1>1. ASSUME NEW s \in Sessions, TakeIdle(s) PROVE Exclusive'
  BY <1>1 DEF TakeIdle, Usable, popped_idle
<1>2. ASSUME NEW s \in Sessions, OpenNew(s) PROVE Exclusive'
  <2>1. \A t \in Sessions : conn[t] # next_id
    BY DEF Conns
  <2> QED
    BY <1>2, <2>1 DEF OpenNew
<1>3. ASSUME NEW s \in Sessions, CheckinFresh(s) PROVE Exclusive'
  BY <1>3 DEF CheckinFresh, InUse
<1>4. ASSUME NEW s \in Sessions, ConnectFails(s) \/ CloseSocket(s)
      PROVE  Exclusive'
  BY <1>4, <1>drop DEF ConnectFails, CloseSocket
<1>5. ASSUME NEW s \in Sessions,
             \/ AtCapacity(s) \/ Register(s) \/ GiveUp(s) \/ ConnectOk(s)
             \/ LoginOk(s) \/ LoginError(s) \/ StartDiscard(s) \/ StartCheckin(s)
             \/ Discard(s) \/ CheckinExpired(s) \/ NotifyOne(s)
      PROVE  Exclusive'
  BY <1>5, <1>same
     DEF AtCapacity, Register, GiveUp, ConnectOk, LoginOk, LoginError,
         StartDiscard, StartCheckin, Discard, CheckinExpired, NotifyOne
<1>6. CASE ReapIdle \/ Time \/ UNCHANGED vars
  BY <1>6, <1>same DEF ReapIdle, Time, OldAge, GoStale, Deadline, vars
<1> QED
  BY <1>1, <1>2, <1>3, <1>4, <1>5, <1>6 DEF Next, Handler, Checkout

\* Exclusive holds of every behaviour: no server connection is ever used by two
\* sessions, or used while it waits in the idle queue.
THEOREM ExclusiveCorrect == Spec => []Exclusive
<1>1. Init => TypeInv /\ Exclusive
  BY TypeInit DEF Init, Exclusive, NoConn
<1>2. TypeInv /\ Exclusive /\ [Next]_vars => (TypeInv /\ Exclusive)'
  BY TypeStep, ExclusiveStep
<1> QED
  BY <1>1, <1>2, PTL DEF Spec

-----------------------------------------------------------------------------
(***************************************************************************)
(* The pool implements SlotPool.                                           *)
(***************************************************************************)
\* The two copies of the operator, of this module and of SlotPool, agree.
LEMMA SameCardinality ==
    ASSUME NEW S PROVE Slots!Cardinality(S) = Cardinality(S)
BY DEF Slots!Cardinality, Cardinality

\* Every step of the pool takes, gives back or loses one slot, trims the idle
\* connections, or leaves what SlotPool sees unchanged.
LEMMA SlotPoolStep ==
    TypeInv /\ SlotInv /\ SlotInv' /\ TypeInv' /\ [Next]_vars
        => [Slots!Next]_(Slots!vars)
<1> SUFFICES ASSUME TypeInv, SlotInv, SlotInv', TypeInv', [Next]_vars
             PROVE  [Slots!Next]_(Slots!vars)
  OBVIOUS
<1> USE DEF InUse, LetGo, CheckingOut
<1>f. TypeOK
  BY DEF TypeInv
<1>fin. IsFiniteSet(idle) /\ Cardinality(idle) \in Nat
  BY <1>f, Finite
<1>bound. /\ Cardinality(Users') \in Nat /\ Cardinality(Leaked') \in Nat
          /\ IsFiniteSet(idle') /\ Cardinality(idle') \in Nat
          /\ Cardinality(Users') + Cardinality(Leaked') + Cardinality(idle') <= MaxSize
  <2>1. TypeOK'
    BY DEF TypeInv
  <2>2. Bounded'
    BY DEF SlotInv
  <2>3. /\ IsFiniteSet(Users') /\ IsFiniteSet(Leaked') /\ IsFiniteSet(idle')
    <3>1. Users' \subseteq Sessions /\ Leaked' \subseteq Sessions
      BY DEF Users, Leaked, At
    <3>2. idle' \subseteq Conns' /\ next_id' - 1 \in Int
      BY <2>1 DEF TypeOK
    <3>3. IsFiniteSet(Conns')
      BY <3>2, FS_Interval DEF Conns
    <3> QED
      BY <3>1, <3>2, <3>3, SessionsAssumption, FS_Subset
  <2> QED
    BY <2>2, <2>3, FS_CardinalityType DEF Bounded
<1>fewer. ASSUME idle' \subseteq idle PROVE Cardinality(idle') \in 0 .. Cardinality(idle)
  BY <1>fewer, <1>fin, <1>bound, FS_Subset
<1>fits. ASSUME Leaked' = Leaked
         PROVE  Slots!Fits(Users', Leaked, Cardinality(idle'))
  <2>1. /\ Slots!Cardinality(Users') = Cardinality(Users')
        /\ Slots!Cardinality(Leaked) = Cardinality(Leaked)
    BY SameCardinality
  <2> QED
    BY <2>1, <1>fits, <1>bound DEF Slots!Fits
<1> USE DEF Slots!Next, Slots!vars
<1>stutter. ASSUME Users' = Users, Leaked' = Leaked, idle' \subseteq idle
            PROVE  [Slots!Next]_(Slots!vars)
  BY <1>stutter, <1>fewer DEF Slots!Trim
<1>take. ASSUME NEW s \in Sessions, s \notin Users \cup Leaked,
                Users' = Users \cup {s}, Leaked' = Leaked, idle' \subseteq idle
         PROVE  [Slots!Next]_(Slots!vars)
  <2>1. Slots!Acquire(s)
    BY <1>take, <1>fewer, <1>fits DEF Slots!Acquire
  <2> QED
    BY <2>1
<1>1. ASSUME NEW s \in Sessions, TakeIdle(s) \/ OpenNew(s)
      PROVE  [Slots!Next]_(Slots!vars)
  <2>1. /\ s \notin Users \cup Leaked
        /\ Users' = Users \cup {s} /\ Leaked' = Leaked
    BY <1>1, <1>f, Moves DEF TakeIdle, OpenNew, Users, Leaked, At
  <2>2. idle' \subseteq idle
    BY <1>1 DEF TakeIdle, popped_idle, OpenNew
  <2> QED
    BY <2>1, <2>2, <1>take
<1>2. ASSUME NEW s \in Sessions,
             Discard(s) \/ CheckinExpired(s) \/ CheckinFresh(s)
      PROVE  [Slots!Next]_(Slots!vars)
  <2>1. s \in Users /\ Users' = Users \ {s} /\ Leaked' = Leaked
    BY <1>2, <1>f, Moves
       DEF Discard, CheckinExpired, CheckinFresh, Users, Leaked, At
  <2>2. Cardinality(idle') \in {Cardinality(idle), Cardinality(idle) + 1}
    <3>1. CASE idle' = idle
      BY <3>1
    <3>2. CASE idle' = idle \cup {conn[s]}
      BY <3>2, <1>fin, FS_AddElement
    <3> QED
      BY <3>1, <3>2, <1>2 DEF Discard, CheckinExpired, CheckinFresh
  <2>3. Slots!Release(s)
    BY <2>1, <2>2, <1>fits DEF Slots!Release
  <2> QED
    BY <2>3
<1>3. ASSUME NEW s \in Sessions, ConnectFails(s) \/ LoginError(s)
      PROVE  [Slots!Next]_(Slots!vars)
  <2>1. /\ s \in Users /\ Users' = Users \ {s} /\ Leaked' = Leaked \cup {s}
    BY <1>3, <1>f, Moves DEF ConnectFails, LoginError, Users, Leaked, At
  <2>2. Slots!Lose(s)
    BY <2>1, <1>3 DEF Slots!Lose, ConnectFails, LoginError
  <2> QED
    BY <2>2
<1>4. ASSUME NEW s \in Sessions,
             \/ AtCapacity(s) \/ Register(s) \/ GiveUp(s) \/ ConnectOk(s)
             \/ LoginOk(s) \/ StartDiscard(s) \/ StartCheckin(s)
      PROVE  [Slots!Next]_(Slots!vars)
  <2>1. Users' = Users /\ Leaked' = Leaked
    BY <1>4, <1>f, Moves
       DEF AtCapacity, Register, GiveUp, ConnectOk, LoginOk, StartDiscard,
           StartCheckin, Users, Leaked, At
  <2>2. idle' \subseteq idle
    BY <1>4 DEF AtCapacity, Register, GiveUp, ConnectOk, LoginOk, StartDiscard,
                StartCheckin
  <2> QED
    BY <2>1, <2>2, <1>stutter
<1>5. ASSUME NEW s \in Sessions, NotifyOne(s)
      PROVE  [Slots!Next]_(Slots!vars)
  <2>1. Users' = Users /\ Leaked' = Leaked
    <3>1. CASE Parked = {}
      BY <3>1, <1>5, <1>f, Moves DEF NotifyOne, Users, Leaked, At
    <3>2. CASE Parked # {}
      BY <3>2, <1>5, <1>f DEF NotifyOne, Parked, Users, Leaked, At, TypeOK
    <3> QED
      BY <3>1, <3>2
  <2> QED
    BY <2>1, <1>5, <1>stutter DEF NotifyOne
<1>6. ASSUME NEW s \in Sessions, CloseSocket(s)
      PROVE  [Slots!Next]_(Slots!vars)
  BY <1>6, <1>stutter DEF CloseSocket, Users, Leaked, At
<1>7. CASE ReapIdle \/ Time \/ UNCHANGED vars
  BY <1>7, <1>stutter
     DEF ReapIdle, Time, OldAge, GoStale, Deadline, vars, Users, Leaked, At
<1> QED
  BY <1>1, <1>2, <1>3, <1>4, <1>5, <1>6, <1>7 DEF Next, Handler, Checkout

\* ImplementsSlotPool: the pool, with its lock, its notification, its early
\* returns and its reaper, behaves as a SlotPool.
THEOREM SlotPoolCorrect == Spec => ImplementsSlotPool
<1>1. Init => TypeInv /\ SlotInv
  BY TypeInit, SlotInit
<1>2. TypeInv /\ SlotInv /\ [Next]_vars => (TypeInv /\ SlotInv)'
  BY TypeStep, SlotStep
<1>3. Init => Slots!Init
  <2> SUFFICES ASSUME Init PROVE Slots!Init
    OBVIOUS
  <2>1. Users = {} /\ Leaked = {} /\ idle = {}
    BY DEF Init, Users, Leaked, At, InUse
  <2> QED
    BY <2>1, FS_EmptySet DEF Slots!Init
<1>4. TypeInv /\ SlotInv /\ TypeInv' /\ SlotInv' /\ [Next]_vars
        => [Slots!Next]_(Slots!vars)
  BY SlotPoolStep
<1> QED
  BY <1>1, <1>2, <1>3, <1>4, PTL DEF Spec, ImplementsSlotPool, Slots!Spec
=============================================================================
