------------------------- MODULE SingleFlightProofs -------------------------
(***************************************************************************)
(* Proofs about SingleFlight, for any number of callers and keys, any size *)
(* and lifetime of the table, with failing and cancelled loads.            *)
(*                                                                         *)
(* Single loading and the wake-ups are not inductive.  What makes them so  *)
(* is that a caller between registering its load and popping it owns the   *)
(* registration of its key: nobody else can register, and only its own pop *)
(* can free the key, which sets the event its waiters hold.  LockInv is    *)
(* about the lock and its queue, TableInv about the table.                 *)
(***************************************************************************)
EXTENDS SingleFlight, SequenceTheorems, TLAPS

FlightTypes ==
    /\ pc \in [Callers -> Places]
    /\ key \in [Callers -> Keys]
    /\ event \in [Callers -> Callers \cup {None}]
    /\ loading \in [Keys -> Callers \cup {None}]
    /\ fired \subseteq Callers

(* A caller that has a load to run or to wind up owns the registration. *)
LoaderOwnsTheKey ==
    \A c \in Callers : pc[c] \in {"load", "pop"} => loading[key[c]] = c

(* A registration is that of a caller of the key which is loading it, is   *)
(* about to pop it, or was cancelled before it could.                      *)
RegisteredAreLoading ==
    \A k \in Keys : loading[k] # None =>
        key[loading[k]] = k /\ pc[loading[k]] \in {"load", "pop", "cancelled"}

(* A waiter waits for the event of a caller, which has been set or is      *)
(* still registered.                                                       *)
WaitersHoldAnEvent ==
    \A c \in Callers : pc[c] = "wait" =>
        event[c] \in Callers /\ (event[c] \in fired \/ loading[key[c]] = event[c])

FlightInv == FlightTypes /\ LoaderOwnsTheKey /\ RegisteredAreLoading /\ WaitersHoldAnEvent

(* Steps that leave the registrations alone and send no caller into a      *)
(* load or a wait it was not in.                                           *)
Quiet(c, place) ==
    /\ pc' = [pc EXCEPT ![c] = place]
    /\ UNCHANGED <<key, event, loading, fired>>

(* Such a step preserves the invariant, if it goes to neither. *)
LEMMA QuietStep ==
    ASSUME FlightInv, NEW c \in Callers, NEW place \in Places \ {"wait", "load", "pop"},
           Quiet(c, place),
           pc[c] \notin {"load", "pop", "cancelled"} \/ place = "cancelled"
    PROVE  FlightInv'
  BY DEF FlightInv, FlightTypes, LoaderOwnsTheKey, RegisteredAreLoading, WaitersHoldAnEvent,
         Quiet

(* FlightInv holds initially. *)
LEMMA InitFlight == Init => FlightInv
  BY DEF Init, FlightInv, FlightTypes, LoaderOwnsTheKey, RegisteredAreLoading, WaitersHoldAnEvent, Places

(* Every step preserves FlightInv. *)
LEMMA StepFlight == FlightInv /\ [Next]_vars => FlightInv'
<1> SUFFICES ASSUME FlightInv, [Next]_vars PROVE FlightInv'
  OBVIOUS
<1> USE FlightAssumption DEF Goto
<1>1. ASSUME NEW c \in Callers, Call(c) PROVE FlightInv'
  <2>1. PICK place \in Places \ {"wait", "load", "pop"} : Quiet(c, place) /\ pc[c] = "idle"
    BY <1>1 DEF Call, Quiet, Places, Locking
  <2> QED
    BY <2>1, QuietStep
<1>2. ASSUME NEW c \in Callers, Get(c) \/ Clear(c) \/ Set(c) PROVE FlightInv'
  <2>1. Quiet(c, "done") /\ pc[c] \in {"get", "clear", "set"}
    BY <1>2 DEF Get, Clear, Set, Quiet
  <2> QED
    BY <2>1, QuietStep DEF Places, Ended
<1>3. ASSUME NEW c \in Callers, LoadUncached(c) PROVE FlightInv'
  <2>1. (Quiet(c, "done") \/ Quiet(c, "failed")) /\ pc[c] = "load_uncached"
    BY <1>3 DEF LoadUncached, Quiet
  <2> QED
    BY <2>1, QuietStep DEF Places, Ended
<1>4. ASSUME NEW c \in Callers, Wake(c) PROVE FlightInv'
  <2>1. Quiet(c, "read") /\ pc[c] = "wait"
    BY <1>4 DEF Wake, Quiet
  <2> QED
    BY <2>1, QuietStep DEF Places, Locking
<1>5. ASSUME NEW c \in Callers, Read(c) PROVE FlightInv'
  <2>0. pc[c] = "read"
    BY <1>5 DEF Read
  <2>1. CASE Quiet(c, "done")
    BY <2>0, <2>1, QuietStep DEF Places, Ended
  <2>2. CASE /\ loading[key[c]] # None
             /\ pc' = [pc EXCEPT ![c] = "wait"]
             /\ event' = [event EXCEPT ![c] = loading[key[c]]]
             /\ UNCHANGED <<key, loading, fired>>
    <3>1. FlightTypes' /\ LoaderOwnsTheKey'
      BY <2>2 DEF FlightInv, FlightTypes, LoaderOwnsTheKey, Places
    <3>3. RegisteredAreLoading'
      BY <2>0, <2>2 DEF FlightInv, FlightTypes, RegisteredAreLoading
    <3>4. WaitersHoldAnEvent'
      BY <2>2 DEF FlightInv, FlightTypes, WaitersHoldAnEvent
    <3> QED
      BY <3>1, <3>3, <3>4 DEF FlightInv
  <2>3. CASE /\ loading[key[c]] = None
             /\ pc[c] = "read"
             /\ pc' = [pc EXCEPT ![c] = "load"]
             /\ loading' = [loading EXCEPT ![key[c]] = c]
             /\ UNCHANGED <<key, event, fired>>
    <3>1. FlightTypes'
      BY <2>3 DEF FlightInv, FlightTypes, Places
    <3>2. LoaderOwnsTheKey'
      BY <2>3 DEF FlightInv, FlightTypes, LoaderOwnsTheKey
    <3>3. RegisteredAreLoading' /\ WaitersHoldAnEvent'
      BY <2>3 DEF FlightInv, FlightTypes, RegisteredAreLoading, WaitersHoldAnEvent
    <3> QED
      BY <3>1, <3>2, <3>3 DEF FlightInv
  <2> QED
    BY <1>5, <2>1, <2>2, <2>3 DEF Read, Quiet
<1>6. ASSUME NEW c \in Callers, LoadEnds(c) PROVE FlightInv'
  <2>1. pc[c] = "load" /\ pc' = [pc EXCEPT ![c] = "pop"] /\ UNCHANGED <<key, event, loading, fired>>
    BY <1>6 DEF LoadEnds
  <2> QED
    BY <2>1 DEF FlightInv, FlightTypes, LoaderOwnsTheKey, RegisteredAreLoading, WaitersHoldAnEvent,
                Places, Locking
<1>7. ASSUME NEW c \in Callers, Pop(c) PROVE FlightInv'
  <2>1. /\ pc[c] = "pop"
        /\ \E place \in {"set", "failed", "cancelled"} : pc' = [pc EXCEPT ![c] = place]
        /\ fired' = fired \cup ({loading[key[c]]} \ {None})
        /\ loading' = [loading EXCEPT ![key[c]] = None]
        /\ UNCHANGED <<key, event>>
    BY <1>7 DEF Pop
  <2>2. loading[key[c]] = c
    BY <2>1 DEF FlightInv, LoaderOwnsTheKey
  <2>3. fired' = fired \cup {c}
    BY <2>1, <2>2
  <2>4. FlightTypes'
    BY <2>1, <2>3 DEF FlightInv, FlightTypes, Places, Locking, Ended
  <2>5. LoaderOwnsTheKey'
    BY <2>1, <2>2 DEF FlightInv, FlightTypes, LoaderOwnsTheKey
  <2>6. RegisteredAreLoading' /\ WaitersHoldAnEvent'
    BY <2>1, <2>2, <2>3 DEF FlightInv, FlightTypes, RegisteredAreLoading, WaitersHoldAnEvent
  <2> QED
    BY <2>4, <2>5, <2>6 DEF FlightInv
<1>8. ASSUME NEW c \in Callers, Cancel(c) PROVE FlightInv'
  <2>1. CASE Quiet(c, "cancelled")
    BY <2>1, QuietStep DEF Places, Ended
  <2>2. CASE pc[c] = "load" /\ Quiet(c, "pop")
    BY <2>2 DEF Quiet, FlightInv, FlightTypes, LoaderOwnsTheKey, RegisteredAreLoading,
                WaitersHoldAnEvent, Places, Locking
  <2> QED
    BY <1>8, <2>1, <2>2 DEF Cancel, Quiet
<1>9. CASE Tick \/ UNCHANGED vars
  BY <1>9 DEF Tick, vars, FlightInv, FlightTypes, LoaderOwnsTheKey, RegisteredAreLoading, WaitersHoldAnEvent
<1> QED
  BY <1>1, <1>2, <1>3, <1>4, <1>5, <1>6, <1>7, <1>8, <1>9 DEF Next, Progress

(* FlightInv is an invariant. *)
LEMMA FlightInvariant == Spec => []FlightInv
  BY InitFlight, StepFlight, PTL DEF Spec

(* However calls, failures and cancellations interleave, no two loads of   *)
(* one key run at the same time.                                           *)
THEOREM SingleLoad == Spec => []OneLoadAtATime
<1>1. FlightInv => OneLoadAtATime
  BY DEF FlightInv, LoaderOwnsTheKey, OneLoadAtATime
<1> QED
  BY FlightInvariant, <1>1, PTL

(* The event a waiter holds has been set, or its loader is still to pop it *)
(* unless it was cancelled first.                                          *)
THEOREM WakeupsAreKept == Spec => []NoLostWakeup
<1>1. FlightInv => NoLostWakeup
  BY FlightAssumption DEF FlightInv, FlightTypes, RegisteredAreLoading, WaitersHoldAnEvent,
     NoLostWakeup
<1> QED
  BY FlightInvariant, <1>1, PTL

-----------------------------------------------------------------------------
(* The lock *)

(* A sequence without its i-th element. *)
LEMMA RemoveFacts ==
    ASSUME NEW S, NEW q \in Seq(S), NEW i \in 1 .. Len(q)
    PROVE  /\ RemoveAt(q, i) \in Seq(S)
           /\ Len(RemoveAt(q, i)) = Len(q) - 1
           /\ \A k \in 1 .. Len(q) - 1 : RemoveAt(q, i)[k] = IF k < i THEN q[k] ELSE q[k + 1]
<1> DEFINE front == SubSeq(q, 1, i - 1)  back == SubSeq(q, i + 1, Len(q))
<1>0. Len(q) \in Nat /\ i \in Nat /\ \A k \in 1 .. Len(q) : q[k] \in S
  OBVIOUS
<1>1. /\ front \in Seq(S) /\ Len(front) = i - 1
      /\ \A k \in 1 .. i - 1 : front[k] = q[k]
  BY <1>0, SubSeqProperties
<1>2. /\ back \in Seq(S) /\ Len(back) = Len(q) - i
      /\ \A k \in 1 .. Len(q) - i : back[k] = q[i + k]
  BY <1>0, SubSeqProperties
<1> HIDE DEF front, back
<1>3. /\ front \o back \in Seq(S)
      /\ Len(front \o back) = Len(front) + Len(back)
      /\ \A k \in 1 .. Len(front) + Len(back) :
            (front \o back)[k] = IF k <= Len(front) THEN front[k] ELSE back[k - Len(front)]
  BY <1>1, <1>2, ConcatProperties
<1>4. Len(front) + Len(back) = Len(q) - 1
  BY <1>0, <1>1, <1>2
<1>5. ASSUME NEW k \in 1 .. Len(q) - 1
      PROVE (front \o back)[k] = IF k < i THEN q[k] ELSE q[k + 1]
  <2>1. CASE k < i
    BY <1>0, <1>1, <1>3, <1>4, <2>1
  <2>2. CASE ~(k < i)
    <3>1. k - Len(front) \in 1 .. Len(q) - i /\ i + (k - Len(front)) = k + 1 /\ ~(k <= Len(front))
      BY <1>0, <1>1, <2>2
    <3> QED
      BY <1>2, <1>3, <1>4, <2>2, <3>1
  <2> QED
    BY <2>1, <2>2
<1> QED
  BY <1>3, <1>4, <1>5 DEF RemoveAt, front, back


(* LockIsHandedOn, of the callers in a locked section, a holder and a      *)
(* queue.                                                                  *)
Orderly(inside, holder, q) ==
    /\ holder \in Callers \cup {None}
    /\ q \in Seq(Callers)
    /\ holder = None => q = <<>>
    /\ holder # None => holder \in inside
    /\ \A i \in 1 .. Len(q) : q[i] \in inside /\ q[i] # holder
    /\ \A i, j \in 1 .. Len(q) : q[i] = q[j] => i = j

LEMMA JoinsTheQueue ==
    ASSUME NEW inside, NEW holder, NEW q, Orderly(inside, holder, q), holder # None,
           NEW c \in Callers, c \notin inside
    PROVE  Orderly(inside \cup {c}, holder, Append(q, c))
<1>1. q \in Seq(Callers) /\ Len(q) \in Nat
  BY DEF Orderly
<1>2. /\ Append(q, c) \in Seq(Callers) /\ Len(Append(q, c)) = Len(q) + 1
      /\ \A i \in 1 .. Len(q) : Append(q, c)[i] = q[i]
      /\ Append(q, c)[Len(q) + 1] = c
  BY <1>1, AppendProperties
<1> QED
  BY <1>1, <1>2 DEF Orderly

LEMMA TakesTheLock ==
    ASSUME NEW inside, NEW q, Orderly(inside, None, q), NEW c \in Callers
    PROVE  Orderly(inside \cup {c}, c, q)
BY DEF Orderly

LEMMA HandsOn ==
    ASSUME NEW inside, NEW c, NEW q, Orderly(inside, c, q), c # None
    PROVE  /\ q = <<>> => Orderly(inside \ {c}, None, q)
           /\ q # <<>> => Orderly(inside \ {c}, Head(q), Tail(q))
<1>1. q \in Seq(Callers) /\ Len(q) \in Nat
  BY DEF Orderly
<1>2. CASE q = <<>>
  BY <1>2 DEF Orderly
<1>3. CASE q # <<>>
  <2>1. /\ Head(q) = q[1] /\ Tail(q) \in Seq(Callers) /\ Len(Tail(q)) = Len(q) - 1
        /\ \A i \in 1 .. Len(Tail(q)) : Tail(q)[i] = q[i + 1]
        /\ Len(q) >= 1
    BY <1>1, <1>3, HeadTailProperties
  <2>2. Head(q) \in inside \ {c} /\ Head(q) \in Callers /\ Head(q) # None
    BY <1>1, <2>1, FlightAssumption DEF Orderly
  <2>3. PICK t : t = Tail(q)
    OBVIOUS
  <2>4. ASSUME NEW i \in 1 .. Len(t) PROVE t[i] \in inside \ {c} /\ t[i] # Head(q)
    <3>1. i + 1 \in 1 .. Len(q) /\ 1 \in 1 .. Len(q) /\ i + 1 # 1
      BY <1>1, <2>1, <2>3
    <3>2. t[i] = q[i + 1]
      BY <2>1, <2>3
    <3> QED
      BY <2>1, <3>1, <3>2 DEF Orderly
  <2>5. ASSUME NEW i \in 1 .. Len(t), NEW j \in 1 .. Len(t), t[i] = t[j] PROVE i = j
    <3>1. i + 1 \in 1 .. Len(q) /\ j + 1 \in 1 .. Len(q)
      BY <1>1, <2>1, <2>3
    <3>2. q[i + 1] = q[j + 1]
      BY <2>1, <2>3, <2>5
    <3>3. i + 1 = j + 1
      BY <3>1, <3>2 DEF Orderly
    <3> QED
      BY <1>1, <3>3
  <2>6. t \in Seq(Callers)
    BY <2>1, <2>3
  <2>7. Orderly(inside \ {c}, Head(q), t)
    BY <2>2, <2>4, <2>5, <2>6 DEF Orderly
  <2> QED
    BY <1>3, <2>3, <2>7
<1> QED
  BY <1>2, <1>3

LEMMA LeavesTheQueue ==
    ASSUME NEW inside, NEW holder, NEW q, Orderly(inside, holder, q),
           NEW i \in 1 .. Len(q)
    PROVE  Orderly(inside \ {q[i]}, holder, RemoveAt(q, i))
<1>1. q \in Seq(Callers) /\ Len(q) \in Nat
  BY DEF Orderly
<1>2. PICK t : t = RemoveAt(q, i)
  OBVIOUS
<1>3. /\ t \in Seq(Callers) /\ Len(t) = Len(q) - 1
      /\ \A k \in 1 .. Len(q) - 1 : t[k] = IF k < i THEN q[k] ELSE q[k + 1]
  BY <1>1, <1>2, RemoveFacts
<1>4. ASSUME NEW k \in 1 .. Len(t)
      PROVE  \E m \in 1 .. Len(q) : m # i /\ t[k] = q[m] /\ m = IF k < i THEN k ELSE k + 1
  BY <1>1, <1>3
<1>5. ASSUME NEW k \in 1 .. Len(t) PROVE t[k] \in inside \ {q[i]} /\ t[k] # holder
  BY <1>4 DEF Orderly
<1>6. ASSUME NEW k \in 1 .. Len(t), NEW l \in 1 .. Len(t), t[k] = t[l] PROVE k = l
  <2>1. PICK m \in 1 .. Len(q) : t[k] = q[m] /\ m = IF k < i THEN k ELSE k + 1
    BY <1>4
  <2>2. PICK n \in 1 .. Len(q) : t[l] = q[n] /\ n = IF l < i THEN l ELSE l + 1
    BY <1>4
  <2>3. m = n
    BY <1>6, <2>1, <2>2 DEF Orderly
  <2> QED
    BY <1>1, <1>3, <2>1, <2>2, <2>3
<1>7. holder # None => holder # q[i]
  BY DEF Orderly
<1>8. q # <<>>
  BY <1>1
<1>9. Orderly(inside \ {q[i]}, holder, t)
  BY <1>3, <1>5, <1>6, <1>7, <1>8 DEF Orderly
<1> QED
  BY <1>2, <1>9

(* The callers that hold the lock or wait for it. *)
Inside == {c \in Callers : pc[c] \in Locking}

LockInv == Orderly(Inside, owner, queue)

(* A caller moves: it enters or leaves the locked sections, or neither. *)
LEMMA MovesInside ==
    ASSUME FlightTypes, NEW c \in Callers, NEW place, pc' = [pc EXCEPT ![c] = place]
    PROVE  /\ place \in Locking => Inside' = Inside \cup {c}
           /\ place \notin Locking => Inside' = Inside \ {c}
BY DEF FlightTypes, Inside

LEMMA AcquireKeepsTheLock ==
    ASSUME FlightTypes, LockInv, NEW c \in Callers, NEW place \in Locking,
           pc[c] \notin Locking, Goto(c, place), Acquire(c)
    PROVE  LockInv'
<1>1. Inside' = Inside \cup {c} /\ c \notin Inside
  BY MovesInside DEF Goto, Inside
<1>2. CASE owner = None
  <2>1. Orderly(Inside, None, queue) /\ owner' = c /\ queue' = queue
    BY <1>2 DEF LockInv, Acquire
  <2>2. Orderly(Inside \cup {c}, c, queue)
    BY <2>1, TakesTheLock
  <2> QED
    BY <1>1, <2>1, <2>2 DEF LockInv
<1>3. CASE owner # None
  <2>1. Orderly(Inside \cup {c}, owner, Append(queue, c))
    BY <1>1, <1>3, JoinsTheQueue DEF LockInv
  <2>2. owner' = owner /\ queue' = Append(queue, c)
    BY <1>3 DEF Acquire
  <2> QED
    BY <1>1, <2>1, <2>2 DEF LockInv
<1> QED
  BY <1>2, <1>3

LEMMA ReleaseKeepsTheLock ==
    ASSUME FlightTypes, LockInv, NEW c \in Callers, NEW place, place \notin Locking,
           owner = c, Goto(c, place), Release
    PROVE  LockInv'
<1>1. Inside' = Inside \ {c}
  BY MovesInside DEF Goto
<1>2. /\ queue = <<>> => Orderly(Inside \ {c}, None, queue)
      /\ queue # <<>> => Orderly(Inside \ {c}, Head(queue), Tail(queue))
  BY HandsOn, FlightAssumption DEF LockInv
<1>3. /\ queue = <<>> => owner' = None /\ queue' = queue
      /\ queue # <<>> => owner' = Head(queue) /\ queue' = Tail(queue)
  BY DEF Release
<1> QED
  BY <1>1, <1>2, <1>3 DEF LockInv

LEMMA ReleaseAndAcquireKeepsTheLock ==
    ASSUME FlightTypes, LockInv, NEW c \in Callers, NEW place \in Locking,
           owner = c, Goto(c, place), ReleaseAndAcquire(c)
    PROVE  LockInv'
<1>1. Inside' = Inside \cup {c} /\ c \in Inside
  BY MovesInside, FlightAssumption DEF Goto, LockInv, Orderly
<1>2. Inside' = Inside /\ (Inside \ {c}) \cup {c} = Inside
  BY <1>1
<1>3. CASE queue = <<>>
  BY <1>2, <1>3 DEF ReleaseAndAcquire, LockInv
<1>4. CASE queue # <<>>
  <2>1. Orderly(Inside \ {c}, Head(queue), Tail(queue))
    BY <1>4, HandsOn, FlightAssumption DEF LockInv
  <2>2. Head(queue) # None
    BY <1>4, FlightAssumption DEF LockInv, Orderly
  <2>3. Orderly((Inside \ {c}) \cup {c}, Head(queue), Append(Tail(queue), c))
    BY <2>1, <2>2, JoinsTheQueue
  <2>4. owner' = Head(queue) /\ queue' = Append(Tail(queue), c)
    BY <1>4 DEF ReleaseAndAcquire
  <2> QED
    BY <1>2, <2>3, <2>4 DEF LockInv
<1> QED
  BY <1>3, <1>4

LEMMA StayingOutKeepsTheLock ==
    ASSUME FlightTypes, LockInv, NEW c \in Callers, NEW place, place \notin Locking,
           pc[c] \notin Locking, Goto(c, place), UNCHANGED <<owner, queue>>
    PROVE  LockInv'
<1>1. Inside' = Inside \ {c} /\ c \notin Inside
  BY MovesInside DEF Goto, Inside
<1>2. Inside' = Inside
  BY <1>1
<1> QED
  BY <1>2 DEF LockInv

LEMMA CancelKeepsTheLock ==
    ASSUME FlightTypes, LockInv, NEW c \in Callers, Cancel(c)
    PROVE  LockInv'
<1>1. CASE pc[c] \notin Locking /\ Goto(c, "cancelled") /\ UNCHANGED <<owner, queue>>
  BY <1>1, StayingOutKeepsTheLock DEF Locking
<1>2. ASSUME Goto(c, "cancelled"), owner' = owner,
             NEW i \in 1 .. Len(queue), queue[i] = c, queue' = RemoveAt(queue, i)
      PROVE  LockInv'
  <2>0. "cancelled" \notin Locking
    BY DEF Locking
  <2>1. Inside' = Inside \ {c}
    BY <1>2, <2>0, MovesInside DEF Goto
  <2>2. Orderly(Inside \ {queue[i]}, owner, RemoveAt(queue, i))
    BY LeavesTheQueue DEF LockInv
  <2> QED
    BY <1>2, <2>1, <2>2 DEF LockInv
<1>3. CASE pc[c] \notin Locking /\ Goto(c, "pop") /\ Acquire(c)
  BY <1>3, AcquireKeepsTheLock DEF Locking
<1>4. DOMAIN queue = 1 .. Len(queue)
  BY DEF LockInv, Orderly
<1> QED
  BY <1>1, <1>2, <1>3, <1>4 DEF Cancel, Locking

LEMMA LockStep == FlightTypes /\ LockInv /\ [Next]_vars => LockInv'
<1> SUFFICES ASSUME FlightTypes, LockInv, [Next]_vars PROVE LockInv'
  OBVIOUS
<1>1. ASSUME NEW c \in Callers, Call(c) PROVE LockInv'
  <2>1. pc[c] \notin Locking
    BY <1>1 DEF Call, Locking
  <2>2. CASE enabled
    <3>1. PICK place \in Operations : Goto(c, place) /\ Acquire(c)
      BY <1>1, <2>2 DEF Call
    <3>2. place \in Locking
      BY <3>1, FlightAssumption DEF Locking
    <3> QED
      BY <2>1, <3>1, <3>2, AcquireKeepsTheLock
  <2>3. CASE ~enabled
    BY <1>1, <2>1, <2>3, StayingOutKeepsTheLock DEF Call, Locking
  <2> QED
    BY <2>2, <2>3
<1>2. ASSUME NEW c \in Callers, Get(c) \/ Clear(c) \/ Set(c) PROVE LockInv'
  <2>1. owner = c /\ Goto(c, "done") /\ Release
    BY <1>2 DEF Get, Clear, Set
  <2> QED
    BY <2>1, ReleaseKeepsTheLock DEF Locking
<1>3. ASSUME NEW c \in Callers, Read(c) PROVE LockInv'
  <2>1. PICK place \in {"done", "wait", "load"} : owner = c /\ Goto(c, place) /\ Release
    BY <1>3 DEF Read
  <2>2. place \notin Locking
    BY DEF Locking
  <2> QED
    BY <2>1, <2>2, ReleaseKeepsTheLock
<1>4. ASSUME NEW c \in Callers, LoadUncached(c) PROVE LockInv'
  <2>1. PICK place \in {"done", "failed"} : Goto(c, place)
    BY <1>4 DEF LoadUncached
  <2>2. place \notin Locking /\ pc[c] \notin Locking
    BY <1>4 DEF Locking, LoadUncached
  <2> QED
    BY <1>4, <2>1, <2>2, StayingOutKeepsTheLock DEF LoadUncached
<1>5. ASSUME NEW c \in Callers, Wake(c) \/ LoadEnds(c) PROVE LockInv'
  <2>1. PICK place \in {"read", "pop"} : Goto(c, place) /\ Acquire(c)
    BY <1>5 DEF Wake, LoadEnds
  <2>2. place \in Locking /\ pc[c] \notin Locking
    BY <1>5 DEF Locking, Wake, LoadEnds
  <2> QED
    BY <2>1, <2>2, AcquireKeepsTheLock
<1>6. ASSUME NEW c \in Callers, Pop(c) PROVE LockInv'
  <2>1. CASE Goto(c, "set") /\ ReleaseAndAcquire(c)
    BY <1>6, <2>1, ReleaseAndAcquireKeepsTheLock DEF Pop, Locking
  <2>2. CASE (Goto(c, "failed") \/ Goto(c, "cancelled")) /\ Release
    BY <1>6, <2>2, ReleaseKeepsTheLock DEF Pop, Locking
  <2> QED
    BY <1>6, <2>1, <2>2 DEF Pop
<1>7. CASE Tick \/ UNCHANGED vars
  BY <1>7 DEF Tick, vars, LockInv, Inside
<1> QED
  BY <1>1, <1>2, <1>3, <1>4, <1>5, <1>6, <1>7, CancelKeepsTheLock DEF Next, Progress

LEMMA InitLock == Init => LockInv
BY DEF Init, LockInv, Orderly, Inside, Locking

LEMMA LockInvariant == Spec => []LockInv
<1>1. FlightInv => FlightTypes
  BY DEF FlightInv
<1> QED
  BY <1>1, FlightInvariant, InitLock, LockStep, PTL DEF Spec

(* The lock is never kept by a task outside a locked section, and nobody   *)
(* queues for a free lock or twice, however many tasks come, fail or are   *)
(* cancelled at any await.                                                 *)
THEOREM LockHolds == Spec => []LockIsHandedOn
<1>1. LockInv => LockIsHandedOn
  BY DEF LockInv, Orderly, LockIsHandedOn, Inside, IsInjective
<1> QED
  BY <1>1, LockInvariant, PTL

-----------------------------------------------------------------------------
(* The table *)

(* A table of at most n entries with one for each key. *)
Tabled(t, n) ==
    /\ t \in Seq(Entries) /\ Len(t) <= n
    /\ \A i, j \in 1 .. Len(t) : t[i].key = t[j].key => i = j

Lacks(t, k) == \A i \in 1 .. Len(t) : t[i].key # k

LEMMA AppendTabled ==
    ASSUME NEW t, NEW n \in Nat, Tabled(t, n), NEW e \in Entries, Lacks(t, e.key)
    PROVE  Tabled(Append(t, e), n + 1)
<1>1. t \in Seq(Entries) /\ Len(t) \in Nat
  BY DEF Tabled
<1>2. /\ Append(t, e) \in Seq(Entries) /\ Len(Append(t, e)) = Len(t) + 1
      /\ \A i \in 1 .. Len(t) : Append(t, e)[i] = t[i]
      /\ Append(t, e)[Len(t) + 1] = e
  BY <1>1, AppendProperties
<1>3. ASSUME NEW i \in 1 .. Len(t) + 1, NEW j \in 1 .. Len(t) + 1,
             Append(t, e)[i].key = Append(t, e)[j].key
      PROVE  i = j
  BY <1>1, <1>2, <1>3 DEF Tabled, Lacks
<1> QED
  BY <1>1, <1>2, <1>3 DEF Tabled

LEMMA TailTabled ==
    ASSUME NEW t, NEW n \in Nat, Tabled(t, n + 1), t # <<>>
    PROVE  Tabled(Tail(t), n)
<1>1. t \in Seq(Entries) /\ Len(t) \in Nat
  BY DEF Tabled
<1>2. PICK u : u = Tail(t)
  OBVIOUS
<1>3. /\ u \in Seq(Entries) /\ Len(u) = Len(t) - 1
      /\ \A i \in 1 .. Len(u) : u[i] = t[i + 1]
  BY <1>1, <1>2, HeadTailProperties
<1>4. ASSUME NEW i \in 1 .. Len(u), NEW j \in 1 .. Len(u), u[i].key = u[j].key
      PROVE  i = j
  <2>1. i + 1 \in 1 .. Len(t) /\ j + 1 \in 1 .. Len(t)
    BY <1>1, <1>3
  <2>2. i + 1 = j + 1
    BY <1>3, <1>4, <2>1 DEF Tabled
  <2> QED
    BY <1>1, <2>2
<1>5. Len(u) <= n
  BY <1>1, <1>3 DEF Tabled
<1> QED
  BY <1>2, <1>3, <1>4, <1>5 DEF Tabled

TableInv ==
    /\ max_size \in MaxSizes
    /\ now \in 0 .. MaxTime
    /\ Tabled(entries, max_size)

(* Without its entry the table has room for one more, and lacks the key. *)
LEMMA WithoutFacts ==
    ASSUME TableInv, NEW k
    PROVE  /\ Tabled(Without(k), max_size) /\ Lacks(Without(k), k)
           /\ Holds(k) => /\ Tabled(Without(k), max_size - 1)
                          /\ entries[Place(k)] \in Entries /\ entries[Place(k)].key = k
                          /\ max_size - 1 \in Nat
<1>1. entries \in Seq(Entries) /\ Len(entries) \in Nat /\ DOMAIN entries = 1 .. Len(entries)
      /\ max_size \in Nat
  BY FlightAssumption DEF TableInv, Tabled
<1>2. CASE ~Holds(k)
  BY <1>1, <1>2 DEF Holds, Without, Lacks, TableInv
<1>3. CASE Holds(k)
  <2>1. PICK i \in 1 .. Len(entries) : i = Place(k) /\ entries[i].key = k
    BY <1>1, <1>3 DEF Holds, Place
  <2>2. PICK t : t = RemoveAt(entries, i)
    OBVIOUS
  <2>3. /\ t \in Seq(Entries) /\ Len(t) = Len(entries) - 1
        /\ \A m \in 1 .. Len(entries) - 1 : t[m] = IF m < i THEN entries[m] ELSE entries[m + 1]
    BY <1>1, <2>2, RemoveFacts
  <2>4. ASSUME NEW m \in 1 .. Len(t)
        PROVE  \E l \in 1 .. Len(entries) :
                  l # i /\ t[m] = entries[l] /\ l = IF m < i THEN m ELSE m + 1
    BY <1>1, <2>3
  <2>5. Lacks(t, k)
    BY <2>1, <2>4 DEF Lacks, TableInv, Tabled
  <2>6. ASSUME NEW m \in 1 .. Len(t), NEW n \in 1 .. Len(t), t[m].key = t[n].key
        PROVE  m = n
    <3>1. PICK x \in 1 .. Len(entries) : t[m] = entries[x] /\ x = IF m < i THEN m ELSE m + 1
      BY <2>4
    <3>2. PICK y \in 1 .. Len(entries) : t[n] = entries[y] /\ y = IF n < i THEN n ELSE n + 1
      BY <2>4
    <3>3. x = y
      BY <2>6, <3>1, <3>2 DEF TableInv, Tabled
    <3> QED
      BY <1>1, <2>3, <3>1, <3>2, <3>3
  <2>7. Len(t) <= max_size - 1 /\ Len(t) <= max_size /\ max_size - 1 \in Nat
    BY <1>1, <2>1, <2>3 DEF TableInv, Tabled
  <2>8. Tabled(t, max_size) /\ Tabled(t, max_size - 1)
    BY <2>3, <2>6, <2>7 DEF Tabled
  <2>9. Without(k) = t /\ entries[Place(k)] = entries[i] /\ entries[i] \in Entries
    BY <1>1, <1>3, <2>1, <2>2 DEF Without
  <2> QED
    BY <2>1, <2>5, <2>7, <2>8, <2>9
<1> QED
  BY <1>2, <1>3

LEMMA ReadKeepsTheTable ==
    ASSUME TableInv, NEW k
    PROVE  Tabled(_read(k), max_size)
<1>1. CASE Live(k)
  <2>1. Holds(k)
    BY <1>1 DEF Live
  <2>2. PICK n \in Nat : n = max_size - 1
    BY <2>1, WithoutFacts
  <2>3. Tabled(Without(k), n) /\ Lacks(Without(k), entries[Place(k)].key)
        /\ entries[Place(k)] \in Entries
    BY <2>1, <2>2, WithoutFacts
  <2>4. Tabled(Append(Without(k), entries[Place(k)]), n + 1)
    BY <2>3, AppendTabled
  <2>5. n + 1 = max_size
    BY <2>2, FlightAssumption DEF TableInv
  <2> QED
    BY <1>1, <2>4, <2>5 DEF _read
<1>2. CASE ~Live(k)
  BY <1>2, WithoutFacts DEF _read
<1> QED
  BY <1>1, <1>2

LEMMA WriteKeepsTheTable ==
    ASSUME TableInv, NEW k \in Keys
    PROVE  Tabled(_write(k), max_size)
<1>1. PICK e : e = [key |-> k, expires_at |-> now + TTL]
  OBVIOUS
<1>2. e \in Entries /\ e.key = k
  BY <1>1, FlightAssumption DEF Entries, TableInv
<1>3. PICK t : t = Without(k)
  OBVIOUS
<1>4. max_size \in Nat /\ Tabled(t, max_size) /\ Lacks(t, k)
  BY <1>3, WithoutFacts, FlightAssumption DEF TableInv
<1>5. Tabled(Append(t, e), max_size + 1)
  BY <1>2, <1>4, AppendTabled
<1>6. Append(t, e) # <<>> /\ Append(t, e) \in Seq(Entries) /\ Len(Append(t, e)) \in Nat
  BY <1>2, <1>4, AppendProperties DEF Tabled
<1>7. Tabled(Tail(Append(t, e)), max_size)
  BY <1>4, <1>5, <1>6, TailTabled
<1>8. ~(Len(Append(t, e)) > max_size) => Tabled(Append(t, e), max_size)
  BY <1>4, <1>5, <1>6 DEF Tabled
<1>9. _write(k) = IF Len(Append(t, e)) > max_size THEN Tail(Append(t, e)) ELSE Append(t, e)
  BY <1>1, <1>3 DEF _write
<1> QED
  BY <1>7, <1>8, <1>9

LEMMA TableStep == FlightTypes /\ TableInv /\ [Next]_vars => TableInv'
<1> SUFFICES ASSUME FlightTypes, TableInv, [Next]_vars PROVE TableInv'
  OBVIOUS
<1>1. max_size' = max_size
  BY DEF Next, Tick, Call, Progress, Get, Clear, Read, Wake, LoadUncached, LoadEnds, Pop, Set,
         Cancel, vars
<1>2. now' \in 0 .. MaxTime
  BY FlightAssumption DEF TableInv, Next, Tick, Call, Progress, Get, Clear, Read, Wake,
     LoadUncached, LoadEnds, Pop, Set, Cancel, vars
<1>3. Tabled(<<>>, max_size)
  BY FlightAssumption DEF TableInv, Tabled
<1>4. \A c \in Callers : Tabled(_read(key[c]), max_size) /\ Tabled(_write(key[c]), max_size)
  BY ReadKeepsTheTable, WriteKeepsTheTable DEF FlightTypes
<1>5. \/ entries' \in {entries, <<>>}
      \/ \E c \in Callers : entries' \in {_read(key[c]), _write(key[c])}
  BY DEF Next, Tick, Call, Progress, Get, Clear, Read, Wake, LoadUncached, LoadEnds, Pop, Set,
         Cancel, vars
<1>6. Tabled(entries', max_size)
  BY <1>3, <1>4, <1>5 DEF TableInv
<1> QED
  BY <1>1, <1>2, <1>6 DEF TableInv

(* What no other variable depends on. *)
CountInv ==
    /\ outcome \in [Callers -> {"none", "ok", "error", "cancelled"}]
    /\ loads \in [Keys -> Nat]

LEMMA CountStep == FlightTypes /\ CountInv /\ [Next]_vars => CountInv'
<1> SUFFICES ASSUME FlightTypes, CountInv, [Next]_vars PROVE CountInv'
  OBVIOUS
<1>1. outcome' \in [Callers -> {"none", "ok", "error", "cancelled"}]
  BY DEF CountInv, Next, Tick, Call, Progress, Get, Clear, Read, Wake, LoadUncached, LoadEnds,
         Pop, Set, Cancel, vars
<1>2. loads' = loads \/ \E c \in Callers : loads' = [loads EXCEPT ![key[c]] = @ + 1]
  BY DEF Next, Tick, Call, Progress, Get, Clear, Read, Wake, LoadUncached, LoadEnds, Pop, Set,
         Cancel, vars
<1>3. loads' \in [Keys -> Nat]
  BY <1>2 DEF CountInv, FlightTypes
<1> QED
  BY <1>1, <1>3 DEF CountInv

(* The table holds at most max_size entries, one for each key, whatever    *)
(* expires, is loaded and is cleared at the same time; and every variable  *)
(* keeps its type.                                                         *)
THEOREM FlightTyped == Spec => []TypeOK
<1>1. Init => TableInv /\ CountInv
  BY FlightAssumption DEF Init, TableInv, Tabled, CountInv
<1>2. FlightInv => FlightTypes
  BY DEF FlightInv
<1>3. ASSUME FlightTypes, LockInv, TableInv, CountInv PROVE TypeOK
  <2>1. TableIsBounded
    BY <1>3 DEF TableInv, Tabled, TableIsBounded
  <2>2. owner \in Callers \cup {None} /\ queue \in Seq(Callers)
    BY <1>3 DEF LockInv, Orderly
  <2>3. entries \in Seq(Entries) /\ now \in 0 .. MaxTime /\ max_size \in MaxSizes
    BY <1>3 DEF TableInv, Tabled
  <2> QED
    BY <1>3, <2>1, <2>2, <2>3 DEF FlightTypes, CountInv, TypeOK
<1> QED
  BY <1>1, <1>2, <1>3, FlightInvariant, LockInvariant, TableStep, CountStep, PTL DEF Spec
=============================================================================
