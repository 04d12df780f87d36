---------------------- MODULE ConversationMemoryProofs ----------------------
(***************************************************************************)
(* Proofs about ConversationMemory, for any number of sessions, runs,      *)
(* resets and failures.  Three inductive invariants, each resting on the   *)
(* one before:                                                             *)
(*  - MemoryInv: types, the order of the sessions, counters that agree,    *)
(*    and nothing stored or carried but what the session's own runs have   *)
(*    said (a turn is said once);                                          *)
(*  - OneRunKnows: in an undisturbed session at most one run is under way, *)
(*    and it knows the summary that is stored until it replaces it;        *)
(*  - TurnsAreCovered: what was said there is in the summary or among the  *)
(*    last turns of the window, of which no more wait than Waiting allows; *)
(*    with a threshold equal to the window, only in a session whose turns  *)
(*    came in whole exchanges, and HalfSaid is what tells that one that is *)
(*    whole has been so all along.                                         *)
(* ForgetInv, beside them, says that what a reset forgot nobody holds.     *)
(***************************************************************************)
EXTENDS ConversationMemory, FiniteSetTheorems, SequenceTheorems, TLAPS

(* A sequence without its i-th element. *)
LEMMA RemoveFacts ==
    ASSUME NEW S, NEW q \in Seq(S), NEW i \in 1 .. Len(q)
    PROVE  /\ RemoveAt(q, i) \in Seq(S)
           /\ Len(RemoveAt(q, i)) = Len(q) - 1
           /\ \A k \in 1 .. Len(q) - 1 : RemoveAt(q, i)[k] = IF k < i THEN q[k] ELSE q[k + 1]
<1> DEFINE front == SubSeq(q, 1, i - 1)  back == SubSeq(q, i + 1, Len(q))
<1>0. Len(q) \in Nat /\ i \in Nat /\ \A k \in 1 .. Len(q) : q[k] \in S
  OBVIOUS
<1>1. /\ front \in Seq(S) /\ Len(front) = i - 1
      /\ \A k \in 1 .. i - 1 : front[k] = q[k]
  BY <1>0, SubSeqProperties
<1>2. /\ back \in Seq(S) /\ Len(back) = Len(q) - i
      /\ \A k \in 1 .. Len(q) - i : back[k] = q[i + k]
  BY <1>0, SubSeqProperties
<1> HIDE DEF front, back
<1>3. /\ front \o back \in Seq(S)
      /\ Len(front \o back) = Len(front) + Len(back)
      /\ \A k \in 1 .. Len(front) + Len(back) :
            (front \o back)[k] = IF k <= Len(front) THEN front[k] ELSE back[k - Len(front)]
  BY <1>1, <1>2, ConcatProperties
<1>4. Len(front) + Len(back) = Len(q) - 1
  BY <1>0, <1>1, <1>2
<1>5. ASSUME NEW k \in 1 .. Len(q) - 1
      PROVE (front \o back)[k] = IF k < i THEN q[k] ELSE q[k + 1]
  <2>1. CASE k < i
    BY <1>0, <1>1, <1>3, <1>4, <2>1
  <2>2. CASE ~(k < i)
    <3>1. k - Len(front) \in 1 .. Len(q) - i /\ i + (k - Len(front)) = k + 1 /\ ~(k <= Len(front))
      BY <1>0, <1>1, <2>2
    <3> QED
      BY <1>2, <1>3, <1>4, <2>2, <3>1
  <2> QED
    BY <2>1, <2>2
<1> QED
  BY <1>3, <1>4, <1>5 DEF RemoveAt, front, back

(* A window of n that takes in one element more ... *)
LEMMA LastFacts ==
    ASSUME NEW S, NEW q \in Seq(S), NEW x \in S, NEW n \in Nat \ {0}, Len(q) <= n,
           NEW r, r = LastOf(Append(q, x), n)
    PROVE  /\ r \in Seq(S)
           /\ Len(q) < n => Len(r) = Len(q) + 1 /\ \A k \in 1 .. Len(q) : r[k] = q[k]
           /\ Len(q) = n => Len(r) = n
           /\ r[Len(r)] = x
<1> DEFINE more == Append(q, x)
<1>0. Len(q) \in Nat
  OBVIOUS
<1>1. /\ more \in Seq(S) /\ Len(more) = Len(q) + 1
      /\ \A k \in 1 .. Len(q) : more[k] = q[k]
      /\ more[Len(q) + 1] = x
  OBVIOUS
<1> HIDE DEF more
<1>2. CASE Len(q) < n
  <2>1. LastOf(more, n) = more
    BY <1>0, <1>1, <1>2 DEF LastOf
  <2> QED
    BY <1>0, <1>1, <1>2, <2>1 DEF more
<1>3. CASE Len(q) = n
  <2>0. LastOf(more, n) = SubSeq(more, 2, n + 1)
    <3>1. Len(more) - n + 1 = 2 /\ Len(more) = n + 1 /\ ~(Len(more) <= n)
      BY <1>0, <1>1, <1>3
    <3> QED
      BY <3>1 DEF LastOf
  <2>1. /\ SubSeq(more, 2, n + 1) \in Seq(S)
        /\ Len(SubSeq(more, 2, n + 1)) = n
        /\ \A k \in 1 .. n : SubSeq(more, 2, n + 1)[k] = more[k + 1]
    BY <1>0, <1>1, <1>3, SubSeqProperties
  <2> QED
    BY <1>0, <1>1, <1>3, <2>0, <2>1 DEF more
<1> QED
  BY <1>0, <1>2, <1>3

(* ... and, when it was full, moves up by one. *)
LEMMA LastMoves ==
    ASSUME NEW S, NEW q \in Seq(S), NEW x \in S, NEW n \in Nat \ {0}, Len(q) = n,
           NEW r, r = LastOf(Append(q, x), n), NEW k \in 1 .. n, NEW m \in 1 .. n, m = k + 1
    PROVE  r[k] = q[m]
<1> DEFINE more == Append(q, x)
<1>1. /\ more \in Seq(S) /\ Len(more) = n + 1
      /\ \A i \in 1 .. n : more[i] = q[i]
  OBVIOUS
<1> HIDE DEF more
<1>2. r = SubSeq(more, 2, n + 1)
  <2>1. Len(more) - n + 1 = 2 /\ Len(more) = n + 1 /\ ~(Len(more) <= n)
    BY <1>1
  <2> QED
    BY <2>1 DEF LastOf, more
<1>3. r[k] = more[k + 1]
  BY <1>1, <1>2, SubSeqProperties
<1> QED
  BY <1>1, <1>3

-----------------------------------------------------------------------------
(* The store, whatever is stored in it. *)
StoreTypes ==
    /\ DOMAIN sessions = Sessions
    /\ \A s \in Sessions : sessions[s] = None \/ sessions[s] \in _Session
    /\ lru \in Seq(Sessions)
    /\ StoreIsBounded

(* What a write leaves behind. *)
Written(s, value) ==
    /\ StoreTypes'
    /\ sessions'[s] = value
    /\ \A t \in Sessions \ {s} : sessions'[t] \in {sessions[t], None}

LEMMA OrderFacts ==
    ASSUME StoreTypes
    PROVE  /\ Len(lru) \in Nat
           /\ \A i \in 1 .. Len(lru) : lru[i] \in Sessions
           /\ \A i, j \in 1 .. Len(lru) : lru[i] = lru[j] => i = j
           /\ \A s \in Sessions : sessions[s] # None <=> \E i \in 1 .. Len(lru) : lru[i] = s
BY DEF StoreTypes, StoreIsBounded, IsInjective, ToSet

LEMMA OrderIsBounded ==
    ASSUME NEW q \in Seq(Sessions), Len(q) <= max_sessions,
           \A i, j \in 1 .. Len(q) : q[i] = q[j] => i = j
    PROVE  IsInjective(q) /\ \A s : s \in ToSet(q) <=> \E i \in 1 .. Len(q) : q[i] = s
BY DEF IsInjective, ToSet

(* A session is taken out of the order. *)
LEMMA WithoutFacts ==
    ASSUME StoreTypes, NEW s \in Sessions
    PROVE  LET q == Without(s) IN
           /\ q \in Seq(Sessions)
           /\ Len(q) = IF sessions[s] = None THEN Len(lru) ELSE Len(lru) - 1
           /\ \A i, j \in 1 .. Len(q) : q[i] = q[j] => i = j
           /\ \A t \in Sessions : (\E i \in 1 .. Len(q) : q[i] = t) <=>
                                     sessions[t] # None /\ t # s
<1>1. CASE sessions[s] = None
  <2>1. Without(s) = lru
    BY <1>1 DEF Without
  <2> QED
    BY <1>1, <2>1, OrderFacts DEF StoreTypes
<1>2. CASE sessions[s] # None
  <2> DEFINE i == CHOOSE i \in DOMAIN lru : lru[i] = s
             q == RemoveAt(lru, i)
  <2>1. i \in 1 .. Len(lru) /\ lru[i] = s
    BY <1>2, OrderFacts DEF StoreTypes
  <2>2. Without(s) = q
    BY <1>2 DEF Without
  <2> HIDE DEF i
  <2>3. /\ q \in Seq(Sessions)
        /\ Len(q) = Len(lru) - 1
        /\ \A k \in 1 .. Len(lru) - 1 : q[k] = IF k < i THEN lru[k] ELSE lru[k + 1]
    BY <2>1, RemoveFacts DEF StoreTypes
  <2> HIDE DEF q
  <2>4. ASSUME NEW k \in 1 .. Len(q), NEW m \in 1 .. Len(q), q[k] = q[m] PROVE k = m
    <3>1. PICK a \in 1 .. Len(lru) : q[k] = lru[a] /\ a = IF k < i THEN k ELSE k + 1
      BY <2>1, <2>3, OrderFacts
    <3>2. PICK b \in 1 .. Len(lru) : q[m] = lru[b] /\ b = IF m < i THEN m ELSE m + 1
      BY <2>1, <2>3, OrderFacts
    <3>3. lru[a] = lru[b]
      BY <2>4, <3>1, <3>2
    <3>4. a = b
      BY <3>3, OrderFacts
    <3> QED
      BY <2>1, <2>3, <3>1, <3>2, <3>4, OrderFacts
  <2>5. ASSUME NEW t \in Sessions, t # s, sessions[t] # None
        PROVE  \E k \in 1 .. Len(q) : q[k] = t
    <3>1. PICK m \in 1 .. Len(lru) : lru[m] = t
      BY <2>5, OrderFacts
    <3>2. m # i
      BY <2>1, <2>5, <3>1
    <3>3. CASE m < i
      BY <2>1, <2>3, <3>1, <3>3, OrderFacts
    <3>4. CASE m > i
      <4>1. m - 1 \in 1 .. Len(q) /\ ~(m - 1 < i) /\ (m - 1) + 1 = m
        BY <2>1, <2>3, <3>4, OrderFacts
      <4> QED
        BY <2>3, <3>1, <4>1
    <3> QED
      BY <2>1, <3>2, <3>3, <3>4, OrderFacts
  <2>6. ASSUME NEW k \in 1 .. Len(q) PROVE sessions[q[k]] # None /\ q[k] # s
    <3>1. CASE k < i
      BY <2>1, <2>3, <3>1, OrderFacts
    <3>2. CASE ~(k < i)
      <4>1. k + 1 \in 1 .. Len(lru) /\ k + 1 # i /\ q[k] = lru[k + 1]
        BY <2>1, <2>3, <3>2, OrderFacts
      <4> QED
        BY <2>1, <4>1, OrderFacts
    <3> QED
      BY <3>1, <3>2
  <2> QED
    BY <1>2, <2>2, <2>3, <2>4, <2>5, <2>6
<1> QED
  BY <1>1, <1>2

(* The last place of an order. *)
LEMMA AppendFacts ==
    ASSUME NEW q \in Seq(Sessions), NEW s \in Sessions,
           \A i, j \in 1 .. Len(q) : q[i] = q[j] => i = j,
           \A i \in 1 .. Len(q) : q[i] # s
    PROVE  LET r == Append(q, s) IN
           /\ r \in Seq(Sessions)
           /\ Len(r) = Len(q) + 1
           /\ \A i, j \in 1 .. Len(r) : r[i] = r[j] => i = j
           /\ \A t : (\E i \in 1 .. Len(r) : r[i] = t) <=> t = s \/ \E i \in 1 .. Len(q) : q[i] = t
<1> DEFINE r == Append(q, s)
<1>1. /\ r \in Seq(Sessions) /\ Len(q) \in Nat /\ Len(r) = Len(q) + 1
      /\ \A i \in 1 .. Len(q) : r[i] = q[i]
      /\ r[Len(q) + 1] = s
  OBVIOUS
<1> HIDE DEF r
<1>2. \A i \in 1 .. Len(r) : i \in 1 .. Len(q) \/ i = Len(q) + 1
  BY <1>1
<1>3. \A i, j \in 1 .. Len(r) : r[i] = r[j] => i = j
  BY <1>1, <1>2
<1>4. ASSUME NEW t
      PROVE (\E i \in 1 .. Len(r) : r[i] = t) <=> t = s \/ \E i \in 1 .. Len(q) : q[i] = t
  <2>1. 1 .. Len(q) \subseteq 1 .. Len(r) /\ Len(q) + 1 \in 1 .. Len(r)
    BY <1>1
  <2> QED
    BY <1>1, <1>2, <2>1
<1> QED
  BY <1>1, <1>3, <1>4 DEF r

(* A write keeps the store within its bound. *)
LEMMA WriteFacts ==
    ASSUME StoreTypes, NEW s \in Sessions, NEW value \in _Session, Write(s, value)
    PROVE  Written(s, value)
<1> DEFINE q == IF Evicted(s) = {} THEN Without(s) ELSE Tail(lru)
<1>0. /\ \A t \in Sessions : sessions'[t] = IF t = s THEN value
                                            ELSE IF t \in Evicted(s) THEN None ELSE sessions[t]
      /\ DOMAIN sessions' = Sessions
      /\ lru' = Append(q, s)
      /\ value # None
  BY MemoryAssumption DEF Write
<1>1. /\ q \in Seq(Sessions) /\ Len(q) + 1 <= max_sessions
      /\ \A i, j \in 1 .. Len(q) : q[i] = q[j] => i = j
      /\ \A t \in Sessions : (\E i \in 1 .. Len(q) : q[i] = t) <=>
                                sessions[t] # None /\ t # s /\ t \notin Evicted(s)
  <2>1. CASE Evicted(s) = {}
    <3>1. sessions[s] = None => Len(lru) < max_sessions
      BY <2>1, MemoryAssumption, OrderFacts DEF Evicted
    <3> QED
      BY <2>1, <3>1, MemoryAssumption, WithoutFacts, OrderFacts DEF StoreTypes, StoreIsBounded
  <2>2. CASE Evicted(s) # {}
    <3>1. sessions[s] = None /\ Evicted(s) = {Head(lru)} /\ Len(lru) = max_sessions
      BY <2>2, MemoryAssumption, OrderFacts DEF Evicted, StoreTypes, StoreIsBounded
    <3>2. lru # <<>>
      BY <3>1, MemoryAssumption
    <3>3. /\ Tail(lru) \in Seq(Sessions) /\ Len(Tail(lru)) = Len(lru) - 1
          /\ \A i \in 1 .. Len(lru) - 1 : Tail(lru)[i] = lru[i + 1]
          /\ Head(lru) = lru[1]
      BY <3>2, HeadTailProperties DEF StoreTypes
    <3>4. \A i, j \in 1 .. Len(lru) - 1 : Tail(lru)[i] = Tail(lru)[j] => i = j
      BY <3>3, OrderFacts
    <3>5. ASSUME NEW t \in Sessions
          PROVE  (\E i \in 1 .. Len(lru) - 1 : Tail(lru)[i] = t) <=> sessions[t] # None /\ t # lru[1]
      <4>1. ASSUME NEW i \in 1 .. Len(lru) - 1 
            PROVE  sessions[Tail(lru)[i]] # None /\ Tail(lru)[i] # lru[1]
        <5>1. i + 1 \in 1 .. Len(lru) /\ 1 \in 1 .. Len(lru) /\ i + 1 # 1
          BY OrderFacts
        <5> QED
          BY <3>3, <5>1, OrderFacts
      <4>2. ASSUME sessions[t] # None, t # lru[1]
            PROVE  \E i \in 1 .. Len(lru) - 1 : Tail(lru)[i] = t
        <5>1. PICK k \in 1 .. Len(lru) : lru[k] = t
          BY <4>2, OrderFacts
        <5>2. k - 1 \in 1 .. Len(lru) - 1 /\ (k - 1) + 1 = k
          BY <4>2, <5>1, OrderFacts
        <5> QED
          BY <3>3, <5>1, <5>2
      <4> QED
        BY <4>1, <4>2
    <3>6. q = Tail(lru)
      BY <2>2
    <3> HIDE DEF q
    <3> QED
      BY <3>1, <3>3, <3>4, <3>5, <3>6, MemoryAssumption, OrderFacts
  <2> QED
    BY <2>1, <2>2
<1> HIDE DEF q
<1>2. \A i \in 1 .. Len(q) : q[i] # s
  BY <1>1
<1>3. /\ lru' \in Seq(Sessions)
      /\ Len(lru') = Len(q) + 1
      /\ \A i, j \in 1 .. Len(lru') : lru'[i] = lru'[j] => i = j
      /\ \A t : (\E i \in 1 .. Len(lru') : lru'[i] = t) <=> t = s \/ \E i \in 1 .. Len(q) : q[i] = t
  BY <1>0, <1>1, <1>2, AppendFacts
<1>4. Len(lru') <= max_sessions
  BY <1>1, <1>3
<1>5. IsInjective(lru') /\ \A t : t \in ToSet(lru') <=> \E i \in 1 .. Len(lru') : lru'[i] = t
  BY <1>3, <1>4, OrderIsBounded
<1>6. ToSet(lru') \subseteq Sessions
  BY <1>3, <1>5
<1>7. ASSUME NEW t \in Sessions PROVE t \in ToSet(lru') <=> sessions'[t] # None
  BY <1>0, <1>1, <1>3, <1>5
<1>8. ToSet(lru') = {t \in Sessions : sessions'[t] # None}
  BY <1>6, <1>7
<1>9. StoreTypes'
  BY <1>0, <1>3, <1>4, <1>5, <1>8 DEF StoreTypes, StoreIsBounded
<1> QED
  BY <1>0, <1>9 DEF Written

-----------------------------------------------------------------------------
(* The counters *)

Active == Places \ ({"idle"} \cup Ended)

(* Where a run holds what its loader has read. *)
Carrying == {"user", "assistant", "pending", "snapshot", "summarise", "extract"}

(* Where a run is before it has recorded a turn of its own. *)
Before(role) ==
    {"idle", "user", "hit_user"} \cup (IF role = "user" THEN {} ELSE {"assistant", "hit_assistant"})

(* The turns that can have been recorded in session s by now. *)
SpokenIn(s) == {turn \in Turns : session[turn[1]] = s /\ pc[turn[1]] \notin Before(turn[2])}

(* A session whose counters agree, and that tells of these turns only. *)
Consistent(e, spoken) ==
    /\ e \in _Session
    /\ IsFiniteSet(e.said)
    /\ e.turns_recorded = Cardinality(e.said)
    /\ e.turns_summarised <= e.turns_recorded
    /\ Len(e.turns) = (IF e.turns_recorded <= short_term_turns
                       THEN e.turns_recorded ELSE short_term_turns)
    /\ e.said \subseteq spoken
    /\ e.summary \subseteq spoken
    /\ ToSet(e.turns) \subseteq spoken

SessionsFollow == \A s \in Sessions : sessions[s] # None => Consistent(sessions[s], SpokenIn(s))

(* What a run carries belongs to its session; one that has not begun, has  *)
(* ended or is served from the cache carries nothing.                      *)
RunsFollow ==
    \A r \in Runs :
        /\ memory[r] \subseteq SpokenIn(session[r])
        /\ transcript[r] \subseteq SpokenIn(session[r])
        /\ pc[r] \notin Carrying => memory[r] = {} /\ transcript[r] = {}

RunTypes ==
    /\ pc \in [Runs -> Places]
    /\ session \in [Runs -> Sessions]
    /\ memory \in [Runs -> SUBSET Turns]
    /\ transcript \in [Runs -> SUBSET Turns]
    /\ forgotten \in [Sessions -> SUBSET (Turns \cup Facts)]
    /\ resets \in 0 .. Resets
    /\ disturbed \subseteq Sessions

MemoryInv == StoreTypes /\ RunTypes /\ SessionsFollow /\ RunsFollow

LEMMA LastIsSeq ==
    ASSUME NEW S, NEW q \in Seq(S), NEW n \in Nat
    PROVE  LastOf(q, n) \in Seq(S) /\ ToSet(LastOf(q, n)) \subseteq ToSet(q)
<1>1. CASE Len(q) <= n
  BY <1>1 DEF LastOf
<1>2. CASE ~(Len(q) <= n)
  <2>1. Len(q) \in Nat /\ Len(q) - n + 1 \in Int /\ \A i \in Len(q) - n + 1 .. Len(q) : q[i] \in S
    BY <1>2
  <2> DEFINE m == Len(q) - n + 1
             last == SubSeq(q, m, Len(q))
  <2>2. /\ last \in Seq(S) /\ Len(last) = IF m <= Len(q) THEN Len(q) - m + 1 ELSE 0
        /\ \A i \in 1 .. Len(last) : last[i] = q[m + i - 1]
    BY <2>1, SubSeqProperties
  <2>3. LastOf(q, n) = last
    BY <1>2 DEF LastOf
  <2> HIDE DEF last
  <2>4. \A i \in 1 .. Len(last) : m + i - 1 \in 1 .. Len(q)
    BY <1>2, <2>1, <2>2
  <2>5. ASSUME NEW i \in 1 .. Len(last) PROVE last[i] \in ToSet(q)
    <3>1. PICK k \in 1 .. Len(q) : k = m + i - 1
      BY <2>4
    <3> QED
      BY <2>2, <3>1 DEF ToSet
  <2>6. ToSet(last) \subseteq ToSet(q)
    BY <2>2, <2>5 DEF ToSet
  <2> QED
    BY <2>2, <2>3, <2>6
<1> QED
  BY <1>1, <1>2

(* A new session is consistent, and one that is opened. *)
LEMMA OpenedFacts ==
    ASSUME MemoryInv, NEW s \in Sessions
    PROVE  Consistent(Opened(s), SpokenIn(s))
<1>1. CASE sessions[s] = None
  <2>1. Opened(s) = Fresh
    BY <1>1 DEF Opened
  <2>2. IsFiniteSet({}) /\ Cardinality({}) = 0
    BY FS_EmptySet
  <2>3. ToSet(<<>>) = {}
    BY DEF ToSet
  <2> QED
    BY <2>1, <2>2, <2>3, MemoryAssumption DEF Fresh, Consistent, _Session
<1>2. CASE sessions[s] # None
  BY <1>2 DEF Opened, MemoryInv, SessionsFollow
<1> QED
  BY <1>1, <1>2

LEMMA ConsistentGrows ==
    ASSUME NEW e, NEW A, NEW B, Consistent(e, A), A \subseteq B
    PROVE  Consistent(e, B)
BY DEF Consistent

(* The window after one turn more: the turns before it move up when it is  *)
(* full, and the oldest is gone.                                           *)
Shift(e) == IF Len(e.turns) < short_term_turns THEN 0 ELSE 1

Appended(e, turn, more) ==
    /\ more.summary = e.summary
    /\ more.facts = e.facts
    /\ more.said = e.said \cup {turn}
    /\ more.turns_recorded = e.turns_recorded + 1
    /\ more.turns_summarised = e.turns_summarised
    /\ Len(more.turns) = Len(e.turns) + 1 - Shift(e)
    /\ \A k, m \in 1 .. Len(e.turns) : m = k + Shift(e) => more.turns[k] = e.turns[m]
    /\ more.turns[Len(more.turns)] = turn
    /\ ToSet(more.turns) \subseteq ToSet(e.turns) \cup {turn}

LEMMA AppendFollows ==
    ASSUME NEW s \in Sessions, NEW turn \in Turns, NEW spoken,
           NEW e, e = Opened(s), Consistent(e, spoken), turn \in spoken, turn \notin e.said,
           NEW more, more = append(s, turn)
    PROVE  Consistent(more, spoken) /\ Appended(e, turn, more)
<1> DEFINE d == Shift(e)
<1>0. d \in Nat /\ d = IF Len(e.turns) < short_term_turns THEN 0 ELSE 1
  BY DEF Shift
<1> HIDE DEF d
<1> DEFINE q == e.turns
           r == LastOf(Append(q, turn), short_term_turns)
<1>1. /\ e \in _Session /\ q \in Seq(Turns) /\ Len(q) \in Nat /\ Len(q) <= short_term_turns
      /\ e.turns_recorded \in Nat /\ e.turns_summarised \in Nat /\ e.said \in SUBSET Turns
  BY MemoryAssumption DEF Consistent, _Session
<1>2. more = [e EXCEPT !.turns = r, !.turns_recorded = e.turns_recorded + 1,
                       !.said = e.said \cup {turn}]
  BY DEF append
<1> HIDE DEF r
<1>3. /\ more.turns = r
      /\ more.summary = e.summary
      /\ more.facts = e.facts
      /\ more.said = e.said \cup {turn}
      /\ more.turns_recorded = e.turns_recorded + 1
      /\ more.turns_summarised = e.turns_summarised
  BY <1>1, <1>2 DEF _Session
<1>4. /\ r \in Seq(Turns)
      /\ Len(r) = Len(q) + 1 - d
      /\ \A k, m \in 1 .. Len(q) : m = k + d => r[k] = q[m]
      /\ r[Len(r)] = turn
  <2>1. r = LastOf(Append(q, turn), short_term_turns)
    BY DEF r
  <2>2. short_term_turns \in Nat \ {0}
    BY MemoryAssumption
  <2>3. /\ r \in Seq(Turns) /\ r[Len(r)] = turn
        /\ Len(q) < short_term_turns => Len(r) = Len(q) + 1
        /\ Len(q) = short_term_turns => Len(r) = short_term_turns
    <3> HIDE DEF q
    <3>1. r \in Seq(Turns) /\ r[Len(r)] = turn
      BY <1>1, <2>1, <2>2, LastFacts
    <3>2. Len(q) < short_term_turns => Len(r) = Len(q) + 1
      BY <1>1, <2>1, <2>2, LastFacts
    <3>3. Len(q) = short_term_turns => Len(r) = short_term_turns
      BY <1>1, <2>1, <2>2, LastFacts
    <3> QED
      BY <3>1, <3>2, <3>3
  <2>4. ASSUME NEW k \in 1 .. Len(q), NEW m \in 1 .. Len(q), m = k + d
        PROVE  r[k] = q[m]
    <3> HIDE DEF q
    <3>1. CASE Len(q) < short_term_turns
      <4>1. d = 0 /\ m = k
        BY <1>0, <2>4, <3>1 DEF q
      <4> QED
        BY <1>1, <2>1, <2>2, <3>1, <4>1, LastFacts
    <3>2. CASE Len(q) = short_term_turns
      <4>1. m = k + 1
        BY <1>0, <2>4, <3>2, <2>2 DEF q
      <4> QED
        BY <1>1, <2>1, <2>2, <3>2, <4>1, LastMoves
    <3> QED
      BY <1>1, <2>2, <3>1, <3>2
  <2> QED
    BY <1>0, <1>1, <2>2, <2>3, <2>4
<1>5. more \in _Session
  <2>1. e.turns_recorded + 1 \in Nat /\ e.said \cup {turn} \in SUBSET Turns
    BY <1>1
  <2> QED
    BY <1>1, <1>2, <1>4, <2>1 DEF _Session
<1>6. IsFiniteSet(more.said) /\ Cardinality(more.said) = Cardinality(e.said) + 1
  <2>1. IsFiniteSet(e.said) /\ turn \notin e.said
    BY DEF Consistent
  <2>2. /\ IsFiniteSet(e.said \cup {turn})
        /\ Cardinality(e.said \cup {turn}) = Cardinality(e.said) + 1
    BY <2>1, FS_AddElement
  <2> QED
    BY <1>3, <2>2
<1>7. ASSUME NEW k \in 1 .. Len(r) PROVE r[k] \in ToSet(q) \cup {turn}
  <2>1. CASE k = Len(r)
    BY <1>4, <2>1
  <2>2. CASE k # Len(r)
    <3>1. k \in 1 .. Len(q) /\ k + d \in 1 .. Len(q)
      BY <1>0, <1>1, <1>4, <2>2
    <3>2. q[k + d] \in ToSet(q)
      BY <1>1, <3>1 DEF ToSet
    <3> QED
      BY <1>4, <3>1, <3>2
  <2> QED
    BY <2>1, <2>2
<1>8. ToSet(r) \subseteq ToSet(q) \cup {turn}
  BY <1>4, <1>7 DEF ToSet
<1>9. Len(r) = IF e.turns_recorded + 1 <= short_term_turns THEN e.turns_recorded + 1
               ELSE short_term_turns
  BY <1>0, <1>1, <1>4, MemoryAssumption DEF Consistent
<1>10. e.turns_summarised <= e.turns_recorded + 1
  BY <1>1 DEF Consistent
<1>11. Consistent(more, spoken)
  BY <1>3, <1>5, <1>6, <1>8, <1>9, <1>10 DEF Consistent
<1> QED
  BY <1>3, <1>4, <1>8, <1>11 DEF Appended, d

(* After a summary, or a fact: what has been told or learned changes, what *)
(* was said does not.                                                      *)
Retold(e, summary, summarised, learned, more) ==
    /\ more.summary = summary
    /\ ToSet(more.facts) \subseteq ToSet(e.facts) \cup learned
    /\ more.turns = e.turns
    /\ more.said = e.said
    /\ more.turns_recorded = e.turns_recorded
    /\ more.turns_summarised = summarised

LEMMA SummaryFollows ==
    ASSUME NEW s \in Sessions, NEW summary \in SUBSET Turns, NEW spoken,
           NEW e, e = Opened(s), Consistent(e, spoken), summary \subseteq spoken,
           NEW more, more = set_summary(s, summary)
    PROVE  Consistent(more, spoken) /\ Retold(e, summary, e.turns_recorded, {}, more)
<1>1. e \in _Session /\ e.turns_recorded \in Nat
  BY DEF Consistent, _Session
<1>2. more = [e EXCEPT !.summary = summary, !.turns_summarised = e.turns_recorded]
  BY DEF set_summary
<1>3. more \in _Session
  BY <1>1, <1>2 DEF _Session
<1>4. /\ more.summary = summary
      /\ more.facts = e.facts
      /\ more.turns = e.turns
      /\ more.said = e.said
      /\ more.turns_recorded = e.turns_recorded
      /\ more.turns_summarised = e.turns_recorded
  BY <1>1, <1>2 DEF _Session
<1> QED
  BY <1>1, <1>3, <1>4 DEF Consistent, Retold

LEMMA MergeFollows ==
    ASSUME NEW s \in Sessions, NEW r \in Runs, NEW spoken,
           NEW e, e = Opened(s), Consistent(e, spoken), NEW more, more = merge_user_context(s, r)
    PROVE  Consistent(more, spoken) /\ Retold(e, e.summary, e.turns_summarised, {<<r, "fact">>}, more)
<1> DEFINE fact == <<r, "fact">>
           facts == LastOf(Append(e.facts, fact), max_user_facts)
<1>1. e \in _Session
  BY DEF Consistent
<1>2. more = [e EXCEPT !.facts = facts]
  BY DEF merge_user_context
<1>3. facts \in Seq(Facts) /\ ToSet(facts) \subseteq ToSet(e.facts) \cup {fact}
  <2>0. fact \in Facts
    BY DEF Facts
  <2> HIDE DEF fact
  <2>1. e.facts \in Seq(Facts)
    BY <1>1 DEF _Session
  <2>2. Append(e.facts, fact) \in Seq(Facts)
    BY <2>0, <2>1
  <2>3. ToSet(Append(e.facts, fact)) \subseteq ToSet(e.facts) \cup {fact}
    BY <2>0, <2>1 DEF ToSet
  <2>4. /\ facts \in Seq(Facts)
        /\ ToSet(facts) \subseteq ToSet(Append(e.facts, fact))
    BY <2>2, LastIsSeq, MemoryAssumption
  <2> QED
    BY <2>3, <2>4
<1> HIDE DEF facts
<1>4. more \in _Session
  BY <1>1, <1>2, <1>3 DEF _Session
<1>5. /\ more.summary = e.summary
      /\ more.facts = facts
      /\ more.turns = e.turns
      /\ more.said = e.said
      /\ more.turns_recorded = e.turns_recorded
      /\ more.turns_summarised = e.turns_summarised
  BY <1>1, <1>2 DEF _Session
<1> QED
  BY <1>3, <1>4, <1>5 DEF Consistent, Retold

-----------------------------------------------------------------------------
(* A run moves on, and does not unsay what it has recorded. *)
Moves(r, place) ==
    /\ place \in Places
    /\ pc' = [pc EXCEPT ![r] = place]
    /\ UNCHANGED session
    /\ \A role \in {"user", "assistant"} : pc[r] \notin Before(role) => place \notin Before(role)

LEMMA SpokenGrows ==
    ASSUME RunTypes, NEW r \in Runs, NEW place, Moves(r, place), NEW s
    PROVE  SpokenIn(s) \subseteq SpokenIn(s)'
BY DEF RunTypes, Moves, SpokenIn, Turns

(* The store after a step that does not write ... *)
LEMMA StoredStays ==
    ASSUME MemoryInv, UNCHANGED <<sessions, lru>>, NEW r \in Runs, NEW place, Moves(r, place)
    PROVE  StoreTypes' /\ SessionsFollow'
<1>1. StoreTypes'
  BY DEF MemoryInv, StoreTypes, StoreIsBounded
<1>2. ASSUME NEW s \in Sessions, sessions[s] # None PROVE Consistent(sessions[s], SpokenIn(s)')
  BY <1>2, SpokenGrows, ConsistentGrows DEF MemoryInv, SessionsFollow
<1> QED
  BY <1>1, <1>2 DEF SessionsFollow, Consistent

(* ... and after one that does. *)
LEMMA StoredWritten ==
    ASSUME MemoryInv, NEW r \in Runs, NEW place, Moves(r, place), NEW s \in Sessions, NEW value,
           Consistent(value, SpokenIn(s)'), Write(s, value)
    PROVE  Written(s, value) /\ SessionsFollow'
<1>1. Written(s, value)
  BY WriteFacts DEF MemoryInv, Consistent
<1>2. ASSUME NEW t \in Sessions, sessions'[t] # None PROVE Consistent(sessions'[t], SpokenIn(t)')
  <2>1. CASE t = s
    BY <1>1, <2>1 DEF Written
  <2>2. CASE t # s
    <3>1. sessions'[t] = sessions[t] /\ sessions[t] # None
      BY <1>1, <1>2, <2>2 DEF Written
    <3> QED
      BY <3>1, SpokenGrows, ConsistentGrows DEF MemoryInv, SessionsFollow
  <2> QED
    BY <2>1, <2>2
<1> QED
  BY <1>1, <1>2 DEF SessionsFollow, Consistent

(* What the runs carry when one of them moves on. *)
LEMMA CarriedStays ==
    ASSUME MemoryInv, NEW r \in Runs, NEW place, Moves(r, place),
           \A q \in Runs \ {r} : memory'[q] = memory[q] /\ transcript'[q] = transcript[q],
           memory'[r] \subseteq SpokenIn(session[r]), transcript'[r] \subseteq SpokenIn(session[r]),
           place \notin Carrying => memory'[r] = {} /\ transcript'[r] = {}
    PROVE  RunsFollow'
<1>1. ASSUME NEW q \in Runs
      PROVE  /\ memory'[q] \subseteq SpokenIn(session[q])
             /\ transcript'[q] \subseteq SpokenIn(session[q])
             /\ pc'[q] \notin Carrying => memory'[q] = {} /\ transcript'[q] = {}
  BY DEF MemoryInv, RunTypes, RunsFollow, Moves
<1>2. \A s : SpokenIn(s) \subseteq SpokenIn(s)'
  BY SpokenGrows DEF MemoryInv
<1>3. session' = session
  BY DEF Moves
<1> QED
  BY <1>1, <1>2, <1>3 DEF RunsFollow

-----------------------------------------------------------------------------
(* Who writes and what is read. *)
LEMMA ReadFacts ==
    ASSUME MemoryInv, NEW s \in Sessions
    PROVE  /\ SummaryOf(s) \subseteq SpokenIn(s) /\ SummaryOf(s) \in SUBSET Turns
           /\ WindowOf(s) \subseteq SpokenIn(s) /\ WindowOf(s) \in SUBSET Turns
           /\ FactsOf(s) \in SUBSET Facts
<1>1. sessions[s] # None => ToSet(sessions[s].facts) \subseteq Facts
  BY DEF MemoryInv, StoreTypes, _Session, ToSet
<1> QED
  BY <1>1 DEF MemoryInv, SessionsFollow, Consistent, SummaryOf, WindowOf, FactsOf, SpokenIn

(* A turn is said once. *)
LEMMA TurnIsNew ==
    ASSUME MemoryInv, NEW r \in Runs, NEW role \in {"user", "assistant"}, pc[r] \in Before(role)
    PROVE  <<r, role>> \in Turns /\ <<r, role>> \notin Opened(session[r]).said
<1>1. <<r, role>> \in Turns /\ <<r, role>>[1] = r /\ <<r, role>>[2] = role
  BY DEF Turns
<1>2. <<r, role>> \notin SpokenIn(session[r])
  BY <1>1 DEF SpokenIn
<1>3. Consistent(Opened(session[r]), SpokenIn(session[r]))
  BY OpenedFacts DEF MemoryInv, RunTypes
<1> QED
  BY <1>1, <1>2, <1>3 DEF Consistent

(* Recording a turn. *)
LEMMA AppendStep ==
    ASSUME MemoryInv, NEW r \in Runs, NEW role \in {"user", "assistant"}, pc[r] \in Before(role),
           NEW place, Moves(r, place), place \notin Before(role),
           place \notin Carrying => memory[r] = {} /\ transcript[r] = {},
           NEW s, s = session[r], NEW turn, turn = <<r, role>>,
           NEW value, value = append(s, turn), Write(s, value),
           UNCHANGED <<memory, transcript, forgotten, resets, disturbed>>
    PROVE  MemoryInv' /\ Written(s, value)
<1>0. s \in Sessions
  BY DEF MemoryInv, RunTypes
<1>1. turn \in Turns /\ turn \notin Opened(s).said /\ turn[1] = r /\ turn[2] = role
  BY TurnIsNew
<1>2. turn \in SpokenIn(s)'
  BY <1>1 DEF SpokenIn, Moves, MemoryInv, RunTypes
<1>3. Consistent(Opened(s), SpokenIn(s)')
  BY <1>0, OpenedFacts, SpokenGrows, ConsistentGrows DEF MemoryInv
<1>4. Consistent(value, SpokenIn(s)')
  BY <1>0, <1>1, <1>2, <1>3, AppendFollows
<1>5. Written(s, value) /\ SessionsFollow'
  BY <1>0, <1>4, StoredWritten
<1>6. RunTypes'
  BY DEF MemoryInv, RunTypes, Moves
<1>7. RunsFollow'
  BY CarriedStays DEF MemoryInv, RunsFollow
<1> QED
  BY <1>5, <1>6, <1>7 DEF MemoryInv, Written

(* The steps that only read, or fail. *)
LEMMA ReadStep ==
    ASSUME MemoryInv, NEW r \in Runs, NEW place, Moves(r, place), UNCHANGED <<sessions, lru>>,
           RunTypes',
           \A q \in Runs \ {r} : memory'[q] = memory[q] /\ transcript'[q] = transcript[q],
           memory'[r] \subseteq SpokenIn(session[r]), transcript'[r] \subseteq SpokenIn(session[r]),
           place \notin Carrying => memory'[r] = {} /\ transcript'[r] = {}
    PROVE  MemoryInv'
BY StoredStays, CarriedStays DEF MemoryInv

(* Replacing the summary. *)
LEMMA SummaryStep ==
    ASSUME MemoryInv, NEW r \in Runs, pc[r] = "summarise", Goto(r, "extract"),
           NEW s, s = session[r], NEW value, value = set_summary(s, memory[r] \cup transcript[r]),
           Write(s, value), UNCHANGED <<session, forgotten, resets, disturbed>>
    PROVE  MemoryInv' /\ Written(s, value)
<1>0. s \in Sessions /\ memory[r] \cup transcript[r] \in SUBSET Turns
  BY DEF MemoryInv, RunTypes
<1>1. Moves(r, "extract")
  BY DEF Goto, Moves, Places, Before
<1>2. SpokenIn(s) \subseteq SpokenIn(s)'
  BY <1>1, SpokenGrows DEF MemoryInv
<1>3. Consistent(Opened(s), SpokenIn(s)')
  BY <1>0, <1>2, OpenedFacts, ConsistentGrows
<1>4. memory[r] \cup transcript[r] \subseteq SpokenIn(s)'
  BY <1>2 DEF MemoryInv, RunsFollow
<1>5. Consistent(value, SpokenIn(s)')
  BY <1>0, <1>3, <1>4, SummaryFollows
<1>6. Written(s, value) /\ SessionsFollow'
  BY <1>0, <1>1, <1>5, StoredWritten
<1>7. RunTypes'
  BY <1>1 DEF Goto, MemoryInv, RunTypes, Moves
<1>8. RunsFollow'
  BY <1>1, CarriedStays DEF Goto, Carrying, MemoryInv, RunsFollow
<1> QED
  BY <1>6, <1>7, <1>8 DEF MemoryInv, Written

(* Learning a fact. *)
LEMMA ExtractStep ==
    ASSUME MemoryInv, NEW r \in Runs, Extract(r), NEW s, s = session[r],
           NEW value, value = merge_user_context(s, r), Write(s, value)
    PROVE  MemoryInv' /\ Written(s, value)
<1>0. s \in Sessions
  BY DEF MemoryInv, RunTypes
<1>1. Moves(r, "done")
  BY DEF Extract, Leave, Moves, Places, Ended, Before
<1>2. SpokenIn(s) \subseteq SpokenIn(s)'
  BY <1>1, SpokenGrows DEF MemoryInv
<1>3. Consistent(Opened(s), SpokenIn(s)')
  BY <1>0, <1>2, OpenedFacts, ConsistentGrows
<1>4. Consistent(value, SpokenIn(s)')
  BY <1>0, <1>3, MergeFollows
<1>5. Written(s, value) /\ SessionsFollow'
  BY <1>0, <1>1, <1>4, StoredWritten
<1>6. RunTypes'
  BY <1>1 DEF Extract, Leave, MemoryInv, RunTypes, Moves
<1>7. RunsFollow'
  BY <1>1, CarriedStays DEF Extract, Leave, MemoryInv, RunTypes
<1> QED
  BY <1>5, <1>6, <1>7 DEF MemoryInv, Written

(* The steps of a run, one by one. *)
LEMMA RunStep ==
    ASSUME MemoryInv, NEW r \in Runs,
           \/ Load(r) \/ Hit(r) \/ AppendUser(r) \/ AppendAssistant(r) \/ CheckPending(r)
           \/ TakeSnapshot(r) \/ Summarise(r) \/ Extract(r) \/ Cancel(r)
    PROVE  MemoryInv'
<1> DEFINE s == session[r]
<1>0. /\ s \in Sessions /\ RunTypes /\ disturbed \cup {s} \subseteq Sessions
      /\ memory[r] \subseteq SpokenIn(s) /\ transcript[r] \subseteq SpokenIn(s)
      /\ pc[r] \notin Carrying => memory[r] = {} /\ transcript[r] = {}
  BY DEF MemoryInv, RunTypes, RunsFollow
<1>1. /\ SummaryOf(s) \subseteq SpokenIn(s) /\ SummaryOf(s) \in SUBSET Turns
      /\ WindowOf(s) \subseteq SpokenIn(s) /\ WindowOf(s) \in SUBSET Turns
  BY <1>0, ReadFacts
<1>2. ASSUME NEW place, Moves(r, place), UNCHANGED <<sessions, lru, memory, transcript>>,
             UNCHANGED <<forgotten, resets>>, disturbed' \subseteq Sessions,
             place \notin Carrying => pc[r] \notin Carrying
      PROVE  MemoryInv'
  <2>1. RunTypes'
    BY <1>0, <1>2 DEF RunTypes, Moves
  <2> QED
    BY <1>0, <1>2, <2>1, ReadStep
<1>3. ASSUME NEW place \in Ended, Leave(r, place), pc[r] \in Active, UNCHANGED <<sessions, lru>>,
             UNCHANGED <<session, forgotten, resets>>, disturbed' \subseteq Sessions
      PROVE  MemoryInv'
  <2>1. Moves(r, place)
    BY <1>3 DEF Leave, Moves, Places, Ended, Before
  <2>2. RunTypes'
    BY <1>0, <1>3, <2>1 DEF RunTypes, Moves, Leave
  <2>3. /\ memory'[r] = {} /\ transcript'[r] = {}
        /\ \A q \in Runs \ {r} : memory'[q] = memory[q] /\ transcript'[q] = transcript[q]
    BY <1>0, <1>3 DEF RunTypes, Leave
  <2> QED
    BY <1>3, <2>1, <2>2, <2>3, ReadStep
<1>4. CASE Load(r)
  <2>1. Moves(r, "user") /\ "user" \in Carrying
    BY <1>4 DEF Load, Arrive, Moves, Places, Before, Carrying
  <2>2. disturbed' \subseteq Sessions
    BY <1>0, <1>4 DEF Load, Arrive
  <2>3. RunTypes'
    BY <1>0, <1>1, <1>4, <2>1, <2>2 DEF RunTypes, Moves, Load
  <2> QED
    BY <1>0, <1>1, <1>4, <2>1, <2>3, ReadStep DEF Load, RunTypes
<1>5. CASE Hit(r)
  <2>1. Moves(r, "hit_user") /\ pc[r] \notin Carrying
    BY <1>5 DEF Hit, Arrive, Goto, Moves, Places, Before, Carrying
  <2>2. disturbed' \subseteq Sessions
    BY <1>0, <1>5 DEF Hit, Arrive
  <2> QED
    BY <1>2, <1>5, <2>1, <2>2 DEF Hit, Goto
<1>6. CASE AppendUser(r)
  <2> DEFINE place == IF pc[r] = "user" THEN "assistant" ELSE "hit_assistant"
  <2>1. /\ Moves(r, place) /\ place \notin Before("user") /\ pc[r] \in Before("user")
        /\ place \notin Carrying => pc[r] \notin Carrying
    BY <1>6 DEF AppendUser, Goto, Moves, Places, Before, Carrying
  <2> HIDE DEF place
  <2> QED
    BY <1>0, <1>6, <2>1, AppendStep DEF AppendUser, Goto
<1>7. CASE AppendAssistant(r)
  <2> DEFINE place == IF pc[r] = "assistant" THEN "pending" ELSE "done"
  <2>1. /\ Moves(r, place) /\ place \notin Before("assistant")
        /\ pc[r] \in Before("assistant")
        /\ place \notin Carrying => pc[r] \notin Carrying
    BY <1>7 DEF AppendAssistant, Goto, Moves, Places, Before, Carrying, Ended
  <2>2. UNCHANGED <<memory, transcript, forgotten, resets, disturbed>>
    BY <1>7 DEF AppendAssistant, Goto
  <2> HIDE DEF place
  <2>3. CASE Write(s, append(s, <<r, "assistant">>))
    BY <1>0, <2>1, <2>2, <2>3, AppendStep
  <2>4. CASE UNCHANGED <<sessions, lru>>
    BY <1>0, <1>2, <2>1, <2>2, <2>4
  <2> QED
    BY <1>7, <2>3, <2>4 DEF AppendAssistant
<1>8. CASE CheckPending(r)
  <2>1. PICK place \in {"extract", "snapshot"} : Goto(r, place)
    BY <1>8 DEF CheckPending
  <2>2. Moves(r, place) /\ place \in Carrying
    BY <1>8, <2>1 DEF CheckPending, Goto, Moves, Places, Before, Carrying
  <2>3. UNCHANGED <<sessions, lru, memory, transcript, forgotten, resets, disturbed>>
    BY <1>8 DEF CheckPending, Goto
  <2> QED
    BY <1>0, <1>2, <2>2, <2>3
<1>9. CASE TakeSnapshot(r)
  <2>1. Moves(r, "summarise") /\ "summarise" \in Carrying
    BY <1>9 DEF TakeSnapshot, Moves, Places, Before, Carrying
  <2>2. RunTypes'
    BY <1>0, <1>1, <1>9, <2>1 DEF RunTypes, Moves, TakeSnapshot
  <2> QED
    BY <1>0, <1>1, <1>9, <2>1, <2>2, ReadStep DEF TakeSnapshot, RunTypes
<1>10. CASE Summarise(r)
  <2>0. pc[r] = "summarise" /\ pc[r] \in Active /\ UNCHANGED <<session, forgotten, resets>>
    BY <1>10 DEF Summarise, Active, Places, Ended
  <2>1. CASE /\ Goto(r, "extract") /\ UNCHANGED disturbed
             /\ Write(s, set_summary(s, memory[r] \cup transcript[r]))
    BY <2>0, <2>1, SummaryStep
  <2>2. CASE UNCHANGED <<sessions, lru>> /\ Disturb(r) /\ Goto(r, "extract")
    <3>1. Moves(r, "extract") /\ "extract" \in Carrying
      BY <2>0, <2>2 DEF Goto, Moves, Places, Before, Carrying
    <3>2. disturbed' \subseteq Sessions
      BY <1>0, <2>2 DEF Disturb
    <3> QED
      BY <1>2, <2>0, <2>2, <3>1, <3>2 DEF Goto
  <2>3. CASE UNCHANGED <<sessions, lru>> /\ Disturb(r) /\ Leave(r, "done")
    BY <1>0, <1>3, <2>0, <2>3 DEF Disturb, Ended
  <2> QED
    BY <1>10, <2>1, <2>2, <2>3 DEF Summarise
<1>11. CASE Extract(r)
  <2>1. CASE Write(s, merge_user_context(s, r))
    BY <1>11, <2>1, ExtractStep
  <2>2. CASE UNCHANGED <<sessions, lru>>
    BY <1>0, <1>3, <1>11, <2>2 DEF Extract, Ended, Active, Places
  <2> QED
    BY <1>11, <2>1, <2>2 DEF Extract
<1>12. CASE Cancel(r)
  BY <1>0, <1>3, <1>12 DEF Cancel, UnderWay, Disturb, Ended, Active, RunTypes
<1> QED
  BY <1>4, <1>5, <1>6, <1>7, <1>8, <1>9, <1>10, <1>11, <1>12

(* A reset drops the session and its place in the order. *)
LEMMA ResetStep ==
    ASSUME MemoryInv, NEW s \in Sessions, reset_memory(s)
    PROVE  MemoryInv' /\ sessions' = [sessions EXCEPT ![s] = None]
<1> DEFINE q == Without(s)
<1>0. /\ lru' = q /\ sessions' = [sessions EXCEPT ![s] = None]
      /\ UNCHANGED <<pc, session, memory, transcript>>
      /\ StoreTypes
  BY DEF reset_memory, MemoryInv
<1>1. /\ q \in Seq(Sessions)
      /\ Len(q) = IF sessions[s] = None THEN Len(lru) ELSE Len(lru) - 1
      /\ \A i, j \in 1 .. Len(q) : q[i] = q[j] => i = j
      /\ \A t \in Sessions : (\E i \in 1 .. Len(q) : q[i] = t) <=> sessions[t] # None /\ t # s
  BY <1>0, WithoutFacts
<1> HIDE DEF q
<1>2. Len(q) <= max_sessions
  BY <1>0, <1>1, MemoryAssumption, OrderFacts DEF StoreTypes, StoreIsBounded
<1>3. IsInjective(q) /\ \A t : t \in ToSet(q) <=> \E i \in 1 .. Len(q) : q[i] = t
  BY <1>1, <1>2, OrderIsBounded
<1>4. ToSet(q) = {t \in Sessions : sessions'[t] # None}
  <2>1. \A t \in Sessions : t \in ToSet(q) <=> sessions'[t] # None
    BY <1>0, <1>1, <1>3 DEF StoreTypes
  <2>2. ToSet(q) \subseteq Sessions
    BY <1>1, <1>3
  <2> QED
    BY <2>1, <2>2
<1>5. StoreTypes'
  BY <1>0, <1>1, <1>2, <1>3, <1>4 DEF StoreTypes, StoreIsBounded
<1>6. Remembered(s) \in SUBSET (Turns \cup Facts)
  BY ReadFacts DEF Remembered
<1>7. RunTypes'
  <2>1. forgotten' \in [Sessions -> SUBSET (Turns \cup Facts)] /\ disturbed' \subseteq Sessions
    <3>1. (IF AtRest(s) THEN Remembered(s) ELSE forgotten[s]) \in SUBSET (Turns \cup Facts)
      BY <1>6 DEF MemoryInv, RunTypes
    <3> QED
      BY <3>1 DEF reset_memory, MemoryInv, RunTypes
  <2>2. resets' \in 0 .. Resets
    BY MemoryAssumption DEF reset_memory, MemoryInv, RunTypes
  <2> QED
    BY <1>0, <2>1, <2>2 DEF MemoryInv, RunTypes
<1>8. \A t : SpokenIn(t)' = SpokenIn(t)
  BY <1>0 DEF SpokenIn
<1>9. SessionsFollow'
  <2> SUFFICES ASSUME NEW t \in Sessions, sessions'[t] # None
               PROVE  Consistent(sessions'[t], SpokenIn(t)')
    BY DEF SessionsFollow, Consistent
  <2>1. sessions'[t] = sessions[t]
    BY <1>0 DEF StoreTypes
  <2> QED
    BY <1>8, <2>1 DEF MemoryInv, SessionsFollow
<1>10. RunsFollow'
  BY <1>0, <1>8 DEF MemoryInv, RunsFollow
<1> QED
  BY <1>0, <1>5, <1>7, <1>9, <1>10 DEF MemoryInv

LEMMA MemoryInit == Init => MemoryInv
<1> SUFFICES ASSUME Init PROVE MemoryInv
  OBVIOUS
<1>1. IsInjective(<<>>) /\ ToSet(<<>>) = {}
  BY DEF IsInjective, ToSet
<1>2. StoreTypes
  BY <1>1, MemoryAssumption DEF Init, StoreTypes, StoreIsBounded
<1>3. RunTypes
  BY MemoryAssumption DEF Init, RunTypes, Places
<1> QED
  BY <1>2, <1>3 DEF Init, MemoryInv, SessionsFollow, RunsFollow, Carrying

LEMMA MemoryNext == MemoryInv /\ [Next]_vars => MemoryInv'
<1> SUFFICES ASSUME MemoryInv, [Next]_vars PROVE MemoryInv'
  OBVIOUS
<1>1. CASE UNCHANGED vars
  <2>1. \A s : SpokenIn(s)' = SpokenIn(s)
    BY <1>1 DEF vars, SpokenIn
  <2>2. StoreTypes' /\ RunTypes'
    BY <1>1 DEF vars, MemoryInv, StoreTypes, StoreIsBounded, RunTypes
  <2>3. SessionsFollow'
    BY <1>1, <2>1 DEF vars, MemoryInv, SessionsFollow, Consistent
  <2>4. RunsFollow'
    BY <1>1, <2>1 DEF vars, MemoryInv, RunsFollow
  <2> QED
    BY <2>2, <2>3, <2>4 DEF MemoryInv
<1> QED
  BY <1>1, RunStep, ResetStep DEF Next

(* The store holds its types, whatever its users do. *)
THEOREM MemoryTypes == Spec => []TypeOK
<1>1. MemoryInv => TypeOK
  BY DEF MemoryInv, StoreTypes, RunTypes, TypeOK
<1> QED
  BY <1>1, MemoryInit, MemoryNext, PTL DEF Spec

(* The store stays within its bound, and the counters of every session    *)
(* agree.                                                                  *)
THEOREM CountersHold == Spec => []CountersAgree
<1>1. MemoryInv => CountersAgree
  BY DEF MemoryInv, StoreTypes, SessionsFollow, Consistent, CountersAgree
<1> QED
  BY <1>1, MemoryInit, MemoryNext, PTL DEF Spec

-----------------------------------------------------------------------------
(* What a reset forgets *)

LEMMA OpenedConsistent ==
    ASSUME MemoryInv, NEW s \in Sessions
    PROVE  Consistent(Opened(s), Turns)
<1>1. Consistent(Opened(s), SpokenIn(s))
  BY OpenedFacts
<1>2. SpokenIn(s) \subseteq Turns
  BY DEF SpokenIn
<1> QED
  BY <1>1, <1>2, ConsistentGrows

(* What each kind of write leaves in its session. *)
LEMMA AppendEffect ==
    ASSUME MemoryInv, NEW r \in Runs, NEW role \in {"user", "assistant"}, pc[r] \in Before(role),
           NEW s, s = session[r], NEW turn, turn = <<r, role>>,
           NEW value, value = append(s, turn), Write(s, value),
           NEW e, e = Opened(s)
    PROVE  /\ s \in Sessions /\ Written(s, value) /\ value # None
           /\ Consistent(e, Turns) /\ Consistent(value, Turns)
           /\ Appended(e, turn, value)
<1>0. s \in Sessions
  BY DEF MemoryInv, RunTypes
<1>1. turn \in Turns /\ turn \notin e.said
  BY TurnIsNew
<1>2. Consistent(e, Turns)
  BY <1>0, OpenedConsistent
<1>3. Consistent(value, Turns) /\ Appended(e, turn, value)
  BY <1>0, <1>1, <1>2, AppendFollows
<1>4. Written(s, value) /\ value # None
  BY <1>0, <1>3, WriteFacts, MemoryAssumption DEF MemoryInv, Consistent
<1> QED
  BY <1>0, <1>2, <1>3, <1>4

LEMMA SummaryEffect ==
    ASSUME MemoryInv, NEW r \in Runs, NEW s, s = session[r],
           NEW summary, summary = memory[r] \cup transcript[r],
           NEW value, value = set_summary(s, summary), Write(s, value),
           NEW e, e = Opened(s)
    PROVE  /\ s \in Sessions /\ Written(s, value) /\ value # None
           /\ Consistent(e, Turns)
           /\ Retold(e, summary, e.turns_recorded, {}, value)
<1>0. s \in Sessions /\ summary \in SUBSET Turns
  BY DEF MemoryInv, RunTypes
<1>1. Consistent(e, Turns)
  BY <1>0, OpenedConsistent
<1>2. Consistent(value, Turns) /\ Retold(e, summary, e.turns_recorded, {}, value)
  BY <1>0, <1>1, SummaryFollows
<1>3. Written(s, value) /\ value # None
  BY <1>0, <1>2, WriteFacts, MemoryAssumption DEF MemoryInv, Consistent
<1> QED
  BY <1>0, <1>1, <1>2, <1>3

LEMMA ExtractEffect ==
    ASSUME MemoryInv, NEW r \in Runs, NEW s, s = session[r],
           NEW value, value = merge_user_context(s, r), Write(s, value),
           NEW e, e = Opened(s)
    PROVE  /\ s \in Sessions /\ Written(s, value) /\ value # None
           /\ Consistent(e, Turns)
           /\ Retold(e, e.summary, e.turns_summarised, {<<r, "fact">>}, value)
<1>0. s \in Sessions
  BY DEF MemoryInv, RunTypes
<1>1. Consistent(e, Turns)
  BY <1>0, OpenedConsistent
<1>2. Consistent(value, Turns) /\ Retold(e, e.summary, e.turns_summarised, {<<r, "fact">>}, value)
  BY <1>0, <1>1, MergeFollows
<1>3. Written(s, value) /\ value # None
  BY <1>0, <1>2, WriteFacts, MemoryAssumption DEF MemoryInv, Consistent
<1> QED
  BY <1>0, <1>1, <1>2, <1>3

(* What is known of the user was learned by runs of the session that have  *)
(* ended.                                                                  *)
LearnedIn(s) == {fact \in Facts : session[fact[1]] = s /\ pc[fact[1]] \in Ended}

(* What was forgotten was said, or learned, by runs that have ended, and   *)
(* nobody carries it any more.                                             *)
ForgottenForGood ==
    \A s \in Sessions :
        /\ FactsOf(s) \subseteq LearnedIn(s)
        /\ \A m \in forgotten[s] : pc[m[1]] \in Ended
        /\ \A r \in Runs : session[r] = s => /\ memory[r] \cap forgotten[s] = {}
                                            /\ transcript[r] \cap forgotten[s] = {}

ForgetInv == ForgottenForGood /\ ResetForgets

(* A run under way brings nothing back that it does not carry and does not *)
(* say or learn itself.                                                    *)
LEMMA NothingReturns ==
    ASSUME MemoryInv, ForgetInv, NEW r \in Runs, NEW place, pc[r] \notin Ended,
           pc' = [pc EXCEPT ![r] = place], UNCHANGED <<session, forgotten>>,
           NEW s, s = session[r],
           \A q \in Runs \ {r} : memory'[q] = memory[q] /\ transcript'[q] = transcript[q],
           memory'[r] \subseteq memory[r] \cup SummaryOf(s),
           transcript'[r] \subseteq transcript[r] \cup WindowOf(s),
           WindowOf(s)' \cap forgotten[s] = {}, SummaryOf(s)' \cap forgotten[s] = {},
           NEW learned \in SUBSET {<<r, "fact">>}, learned # {} => place \in Ended,
           FactsOf(s)' \subseteq FactsOf(s) \cup learned,
           \A t \in Sessions \ {s} : sessions'[t] \in {sessions[t], None}
    PROVE  ForgetInv'
<1>0. RunTypes /\ s \in Sessions
  BY DEF MemoryInv, RunTypes
<1>1. /\ WindowOf(s) \cap forgotten[s] = {} /\ SummaryOf(s) \cap forgotten[s] = {}
      /\ memory[r] \cap forgotten[s] = {} /\ transcript[r] \cap forgotten[s] = {}
  BY <1>0 DEF ForgetInv, ForgottenForGood, ResetForgets, Remembered
<1>2. FactsOf(s)' \cap forgotten[s] = {}
  <2>1. FactsOf(s) \cap forgotten[s] = {}
    BY <1>0 DEF ForgetInv, ResetForgets, Remembered
  <2>2. <<r, "fact">>[1] = r
    OBVIOUS
  <2>3. <<r, "fact">> \notin forgotten[s]
    BY <1>0, <2>2 DEF ForgetInv, ForgottenForGood
  <2> QED
    BY <2>1, <2>3
<1>3. ASSUME NEW t \in Sessions PROVE Remembered(t)' \cap forgotten[t] = {}
  <2>1. CASE t = s
    BY <1>1, <1>2, <2>1 DEF Remembered
  <2>2. CASE t # s
    <3>1. Remembered(t)' \subseteq Remembered(t)
      BY <2>2 DEF Remembered, WindowOf, SummaryOf, FactsOf
    <3> QED
      BY <3>1 DEF ForgetInv, ResetForgets
  <2> QED
    BY <2>1, <2>2
<1>4. \A q \in Runs : pc[q] \in Ended => pc'[q] \in Ended
  BY <1>0 DEF RunTypes
<1>5. \A t \in Sessions : \A m \in forgotten[t] : pc'[m[1]] \in Ended
  BY <1>0, <1>4 DEF ForgetInv, ForgottenForGood, RunTypes, Turns, Facts
<1>6. ASSUME NEW t \in Sessions PROVE FactsOf(t)' \subseteq LearnedIn(t)'
  <2>1. LearnedIn(t) \subseteq LearnedIn(t)'
    BY <1>4 DEF LearnedIn, Facts
  <2>2. CASE t # s
    <3>1. FactsOf(t)' \subseteq FactsOf(t)
      BY <2>2 DEF FactsOf
    <3> QED
      BY <2>1, <3>1 DEF ForgetInv, ForgottenForGood
  <2>3. CASE t = s
    <3>1. <<r, "fact">> \in Facts /\ <<r, "fact">>[1] = r
      BY DEF Facts
    <3>2. learned # {} => pc'[r] \in Ended
      BY <1>0 DEF RunTypes
    <3>3. learned \subseteq LearnedIn(t)'
      BY <1>0, <2>3, <3>1, <3>2 DEF LearnedIn
    <3> QED
      BY <2>1, <2>3, <3>3 DEF ForgetInv, ForgottenForGood
  <2> QED
    BY <2>2, <2>3
<1>7. ASSUME NEW q \in Runs
      PROVE  /\ memory'[q] \cap forgotten[session[q]] = {}
             /\ transcript'[q] \cap forgotten[session[q]] = {}
  <2>1. CASE q = r
    BY <1>1, <2>1
  <2>2. CASE q # r
    BY <1>0, <2>2 DEF ForgetInv, ForgottenForGood, RunTypes
  <2> QED
    BY <2>1, <2>2
<1>8. ForgottenForGood'
  BY <1>5, <1>6, <1>7 DEF ForgottenForGood
<1>9. ResetForgets'
  <2>1. \A t \in Sessions : Remembered(t)' \cap forgotten'[t] = {}
    BY <1>3
  <2> QED
    BY <2>1 DEF ResetForgets
<1> QED
  BY <1>8, <1>9 DEF ForgetInv

LEMMA ForgetRunStep ==
    ASSUME MemoryInv, ForgetInv, NEW r \in Runs, NEW s, s = session[r], NEW e, e = Opened(s),
           \/ Load(r) \/ Hit(r) \/ AppendUser(r) \/ AppendAssistant(r) \/ CheckPending(r)
           \/ TakeSnapshot(r) \/ Summarise(r) \/ Extract(r) \/ Cancel(r)
    PROVE  ForgetInv'
<1>0. /\ s \in Sessions /\ RunTypes
      /\ UNCHANGED <<session, forgotten>>
      /\ pc[r] \notin Ended
  BY DEF MemoryInv, RunTypes, Load, Hit, Arrive, AppendUser, AppendAssistant, CheckPending,
         TakeSnapshot, Summarise, Extract, Cancel, UnderWay, Ended
<1>1. e.summary = SummaryOf(s) /\ ToSet(e.turns) = WindowOf(s) /\ ToSet(e.facts) = FactsOf(s)
  <2>1. ToSet(<<>>) = {}
    BY DEF ToSet
  <2> QED
    BY <2>1 DEF Opened, SummaryOf, WindowOf, FactsOf, Fresh
<1>15. /\ WindowOf(s) \cap forgotten[s] = {} /\ SummaryOf(s) \cap forgotten[s] = {}
       /\ memory[r] \cap forgotten[s] = {} /\ transcript[r] \cap forgotten[s] = {}
  BY <1>0 DEF ForgetInv, ForgottenForGood, ResetForgets, Remembered
<1>2. ASSUME NEW place, pc' = [pc EXCEPT ![r] = place], UNCHANGED <<sessions, lru>>,
             \A q \in Runs \ {r} : memory'[q] = memory[q] /\ transcript'[q] = transcript[q],
             memory'[r] \subseteq memory[r] \cup SummaryOf(s),
             transcript'[r] \subseteq transcript[r] \cup WindowOf(s)
      PROVE  ForgetInv'
  <2>1. /\ WindowOf(s)' = WindowOf(s) /\ SummaryOf(s)' = SummaryOf(s)
        /\ FactsOf(s)' \subseteq FactsOf(s) \cup {}
    BY <1>0, <1>2 DEF WindowOf, SummaryOf, FactsOf
  <2> QED
    BY <1>0, <1>2, <1>15, <2>1, NothingReturns
<1>3. ASSUME NEW place, pc' = [pc EXCEPT ![r] = place], NEW value, Written(s, value), value # None,
             \A q \in Runs \ {r} : memory'[q] = memory[q] /\ transcript'[q] = transcript[q],
             memory'[r] \subseteq memory[r], transcript'[r] \subseteq transcript[r],
             ToSet(value.turns) \cap forgotten[s] = {},
             NEW learned \in SUBSET {<<r, "fact">>}, learned # {} => place \in Ended,
             ToSet(value.facts) \subseteq FactsOf(s) \cup learned,
             value.summary \subseteq SummaryOf(s) \cup memory[r] \cup transcript[r]
      PROVE  ForgetInv'
  <2>1. /\ WindowOf(s)' = ToSet(value.turns) /\ SummaryOf(s)' = value.summary
        /\ FactsOf(s)' = ToSet(value.facts)
    BY <1>0, <1>3 DEF WindowOf, SummaryOf, FactsOf, Written
  <2>2. \A t \in Sessions \ {s} : sessions'[t] \in {sessions[t], None}
    BY <1>3 DEF Written
  <2>3. WindowOf(s)' \cap forgotten[s] = {} /\ SummaryOf(s)' \cap forgotten[s] = {}
    BY <1>3, <1>15, <2>1
  <2>4. /\ memory'[r] \subseteq memory[r] \cup SummaryOf(s)
        /\ transcript'[r] \subseteq transcript[r] \cup WindowOf(s)
        /\ FactsOf(s)' \subseteq FactsOf(s) \cup learned
    BY <1>3, <2>1
  <2> QED
    BY <1>0, <1>3, <2>2, <2>3, <2>4, NothingReturns
<1>4. ASSUME NEW place, Leave(r, place)
      PROVE  /\ memory'[r] = {} /\ transcript'[r] = {}
             /\ \A q \in Runs \ {r} : memory'[q] = memory[q] /\ transcript'[q] = transcript[q]
  BY <1>0, <1>4 DEF Leave, RunTypes
<1>5. CASE Load(r)
  BY <1>0, <1>2, <1>5 DEF Load, RunTypes
<1>6. CASE Hit(r)
  BY <1>0, <1>2, <1>6 DEF Hit, Goto
<1>7. ASSUME NEW place, Goto(r, place), NEW role \in {"user", "assistant"}, pc[r] \in Before(role),
             Write(s, append(s, <<r, role>>))
      PROVE  ForgetInv'
  <2>0. PICK turn, value : turn = <<r, role>> /\ value = append(s, turn)
    OBVIOUS
  <2>1. Written(s, value) /\ value # None /\ Appended(e, turn, value)
    BY <1>7, <2>0, AppendEffect
  <2>2. turn \notin forgotten[s]
    <3>1. turn[1] = r
      BY <2>0
    <3> QED
      BY <1>0, <3>1 DEF ForgetInv, ForgottenForGood
  <2>3. /\ value.summary = SummaryOf(s) /\ ToSet(value.turns) \cap forgotten[s] = {}
        /\ ToSet(value.facts) \subseteq FactsOf(s) \cup {}
    BY <1>1, <1>15, <2>1, <2>2 DEF Appended
  <2> QED
    BY <1>3, <1>7, <2>1, <2>3 DEF Goto
<1>8. CASE AppendUser(r)
  BY <1>7, <1>8 DEF AppendUser, Before
<1>9. CASE AppendAssistant(r)
  <2>1. CASE Write(s, append(s, <<r, "assistant">>))
    BY <1>7, <1>9, <2>1 DEF AppendAssistant, Before
  <2>2. CASE UNCHANGED <<sessions, lru>>
    BY <1>2, <1>9, <2>2 DEF AppendAssistant, Goto
  <2> QED
    BY <1>9, <2>1, <2>2 DEF AppendAssistant
<1>10. CASE CheckPending(r)
  BY <1>2, <1>10 DEF CheckPending, Goto
<1>11. CASE TakeSnapshot(r)
  BY <1>0, <1>2, <1>11 DEF TakeSnapshot, RunTypes
<1>12. CASE Summarise(r)
  <2>1. CASE /\ Goto(r, "extract")
             /\ Write(s, set_summary(s, memory[r] \cup transcript[r]))
    <3>0. PICK summary, value : /\ summary = memory[r] \cup transcript[r]
                                /\ value = set_summary(s, summary)
      OBVIOUS
    <3>1. /\ Written(s, value) /\ value # None
          /\ Retold(e, summary, e.turns_recorded, {}, value)
      BY <2>1, <3>0, SummaryEffect
    <3>2. /\ value.summary = summary /\ value.turns = e.turns
          /\ ToSet(value.facts) \subseteq FactsOf(s) \cup {}
      BY <1>1, <3>1 DEF Retold
    <3> QED
      BY <3>0, <3>2, <1>1, <1>15, <1>3, <2>1, <3>1 DEF Goto
  <2>2. CASE UNCHANGED <<sessions, lru>> /\ Goto(r, "extract")
    BY <1>2, <2>2 DEF Goto
  <2>3. CASE UNCHANGED <<sessions, lru>> /\ Leave(r, "done")
    BY <1>2, <1>4, <2>3 DEF Leave
  <2> QED
    BY <1>12, <2>1, <2>2, <2>3 DEF Summarise
<1>13. CASE Extract(r)
  <2>1. CASE Write(s, merge_user_context(s, r))
    <3>0. PICK value : value = merge_user_context(s, r)
      OBVIOUS
    <3>1. /\ Written(s, value) /\ value # None
          /\ Retold(e, e.summary, e.turns_summarised, {<<r, "fact">>}, value)
      BY <2>1, <3>0, ExtractEffect
    <3>2. /\ value.summary = e.summary /\ value.turns = e.turns
          /\ ToSet(value.facts) \subseteq FactsOf(s) \cup {<<r, "fact">>}
      BY <1>1, <3>1 DEF Retold
    <3>3. Leave(r, "done") /\ pc' = [pc EXCEPT ![r] = "done"] /\ "done" \in Ended
      BY <1>13 DEF Extract, Leave, Ended
    <3>4. memory'[r] \subseteq memory[r] /\ transcript'[r] \subseteq transcript[r]
      BY <1>4, <3>3
    <3>5. /\ \A q \in Runs \ {r} : memory'[q] = memory[q] /\ transcript'[q] = transcript[q]
          /\ ToSet(value.turns) \cap forgotten[s] = {}
          /\ {<<r, "fact">>} \in SUBSET {<<r, "fact">>}
          /\ value.summary \subseteq SummaryOf(s) \cup memory[r] \cup transcript[r]
      BY <1>1, <1>4, <1>15, <3>2, <3>3
    <3> QED
      BY <3>2, <1>3, <3>1, <3>3, <3>4, <3>5
  <2>2. CASE UNCHANGED <<sessions, lru>>
    BY <1>2, <1>4, <1>13, <2>2 DEF Extract, Leave
  <2> QED
    BY <1>13, <2>1, <2>2 DEF Extract
<1>14. CASE Cancel(r)
  BY <1>2, <1>4, <1>14 DEF Cancel, Leave
<1> QED
  BY <1>5, <1>6, <1>8, <1>9, <1>10, <1>11, <1>12, <1>13, <1>14

(* A reset of a session at rest forgets turns that only ended runs can have *)
(* said, for no run that has not begun has said any.                        *)
LEMMA ForgetResetStep ==
    ASSUME MemoryInv, ForgetInv, NEW s \in Sessions, reset_memory(s)
    PROVE  ForgetInv'
<1>0. /\ sessions' = [sessions EXCEPT ![s] = None]
      /\ UNCHANGED <<pc, session, memory, transcript>>
      /\ RunTypes /\ StoreTypes /\ RunsFollow
  BY DEF reset_memory, MemoryInv
<1>1. /\ forgotten'[s] = IF AtRest(s) THEN Remembered(s) ELSE forgotten[s]
      /\ \A t \in Sessions \ {s} : forgotten'[t] = forgotten[t]
  BY <1>0 DEF reset_memory, RunTypes
<1>2. ResetForgets'
  <2>1. Remembered(s)' = {}
    BY <1>0 DEF Remembered, WindowOf, SummaryOf, FactsOf, StoreTypes
  <2>2. \A t \in Sessions \ {s} : Remembered(t)' = Remembered(t)
    BY <1>0 DEF Remembered, WindowOf, SummaryOf, FactsOf, StoreTypes
  <2>3. ASSUME NEW t \in Sessions PROVE Remembered(t)' \cap forgotten'[t] = {}
    BY <1>1, <2>1, <2>2 DEF ForgetInv, ResetForgets
  <2> QED
    BY <2>3 DEF ResetForgets
<1>3. ASSUME AtRest(s) PROVE /\ \A m \in forgotten'[s] : pc[m[1]] \in Ended
                            /\ \A r \in Runs : session[r] = s => memory[r] = {} /\ transcript[r] = {}
  <2>1. forgotten'[s] \subseteq SpokenIn(s) \cup LearnedIn(s)
    BY <1>1, <1>3, ReadFacts DEF Remembered, ForgetInv, ForgottenForGood
  <2>2. ASSUME NEW m \in SpokenIn(s) \cup LearnedIn(s) PROVE pc[m[1]] \in Ended
    BY <1>0, <1>3, <2>2 DEF SpokenIn, LearnedIn, AtRest, UnderWay, Before, Turns
  <2>3. ASSUME NEW r \in Runs, session[r] = s PROVE memory[r] = {} /\ transcript[r] = {}
    BY <1>0, <1>3, <2>3 DEF RunsFollow, AtRest, UnderWay, Carrying, Ended
  <2> QED
    BY <2>1, <2>2, <2>3
<1>4. ASSUME NEW t \in Sessions
      PROVE  /\ FactsOf(t)' \subseteq LearnedIn(t)
             /\ \A m \in forgotten'[t] : pc[m[1]] \in Ended
             /\ \A r \in Runs : session[r] = t => /\ memory[r] \cap forgotten'[t] = {}
                                                 /\ transcript[r] \cap forgotten'[t] = {}
  <2>0. FactsOf(t)' \subseteq FactsOf(t)
    BY <1>0 DEF FactsOf, StoreTypes
  <2>1. CASE t = s /\ AtRest(s)
    BY <1>3, <2>0, <2>1 DEF ForgetInv, ForgottenForGood
  <2>2. CASE ~(t = s /\ AtRest(s))
    <3>1. forgotten'[t] = forgotten[t]
      BY <1>1, <2>2
    <3> QED
      BY <2>0, <3>1 DEF ForgetInv, ForgottenForGood
  <2> QED
    BY <2>1, <2>2
<1>5. \A t : LearnedIn(t)' = LearnedIn(t)
  BY <1>0 DEF LearnedIn
<1>6. ForgottenForGood'
  BY <1>0, <1>4, <1>5 DEF ForgottenForGood
<1> QED
  BY <1>2, <1>6 DEF ForgetInv

(* What a reset forgot while the session was at rest never comes back,     *)
(* however many runs, resets and evictions follow.                         *)
THEOREM ResetForgetsHolds == Spec => []ResetForgets
<1>1. Init => ForgetInv
  BY DEF Init, ForgetInv, ForgottenForGood, ResetForgets, FactsOf
<1>2. MemoryInv /\ ForgetInv /\ [Next]_vars => ForgetInv'
  <2> SUFFICES ASSUME MemoryInv, ForgetInv, [Next]_vars PROVE ForgetInv'
    OBVIOUS
  <2>1. CASE UNCHANGED vars
    BY <2>1 DEF vars, ForgetInv, ForgottenForGood, ResetForgets, Remembered, LearnedIn,
                WindowOf, SummaryOf, FactsOf
  <2> QED
    BY <2>1, ForgetRunStep, ForgetResetStep DEF Next
<1>3. ForgetInv => ResetForgets
  BY DEF ForgetInv
<1> QED
  BY <1>1, <1>2, <1>3, MemoryInit, MemoryNext, PTL DEF Spec

-----------------------------------------------------------------------------
(* What a summary tells *)

Knowing == {"user", "assistant", "pending", "snapshot", "summarise"}

(* In an undisturbed session one run at a time is under way, and it knows  *)
(* the summary that is stored until it replaces it.                        *)
OneRunKnows ==
    \A r \in Runs : session[r] \notin disturbed /\ pc[r] \in Active =>
        /\ \A q \in Runs : session[q] = session[r] /\ pc[q] \in Active => q = r
        /\ pc[r] \in Knowing => SummaryOf(session[r]) \subseteq memory[r]

(* A step of run r, whose session is s, that keeps to this. *)
LEMMA KnowsStep ==
    ASSUME MemoryInv, OneRunKnows, NEW r \in Runs, NEW s, s = session[r], NEW place,
           pc' = [pc EXCEPT ![r] = place], UNCHANGED session, disturbed \subseteq disturbed',
           \A q \in Runs \ {r} : memory'[q] = memory[q],
           pc[r] \in Active \/ ~Overlaps(r) \/ s \in disturbed',
           \A t \in Sessions \ {s} : SummaryOf(t)' \subseteq SummaryOf(t),
           pc[r] \in Active \/ SummaryOf(s)' \subseteq SummaryOf(s),
           place \in Knowing /\ s \notin disturbed' => SummaryOf(s)' \subseteq memory'[r]
    PROVE  OneRunKnows'
<1>0. RunTypes /\ s \in Sessions
  BY DEF MemoryInv, RunTypes
<1>1. pc'[r] = place /\ \A q \in Runs \ {r} : pc'[q] = pc[q]
  BY <1>0 DEF RunTypes
<1>2. ASSUME ~Overlaps(r), NEW q \in Runs \ {r}, session[q] = s PROVE pc[q] \notin Active
  BY <1>2 DEF Overlaps, UnderWay, Active
<1>3. ASSUME NEW p \in Runs, session[p] \notin disturbed', pc'[p] \in Active,
             NEW q \in Runs, session[q] = session[p], pc'[q] \in Active
      PROVE  q = p
  <2>1. CASE session[p] # s
    BY <1>1, <1>3, <2>1 DEF OneRunKnows
  <2>2. CASE session[p] = s /\ pc[r] \in Active
    BY <1>1, <1>3, <2>2 DEF OneRunKnows
  <2>3. CASE session[p] = s /\ ~Overlaps(r)
    BY <1>1, <1>2, <1>3, <2>3
  <2> QED
    BY <1>3, <2>1, <2>2, <2>3
<1>4. ASSUME NEW p \in Runs, session[p] \notin disturbed', pc'[p] \in Active, pc'[p] \in Knowing
      PROVE  SummaryOf(session[p])' \subseteq memory'[p]
  <2>0. session[p] \in Sessions /\ session[p] \notin disturbed
    BY <1>0, <1>4 DEF RunTypes
  <2>1. CASE p = r
    BY <1>1, <1>4, <2>1
  <2>2. CASE p # r /\ session[p] # s
    <3>1. SummaryOf(session[p])' \subseteq SummaryOf(session[p])
      BY <2>0, <2>2
    <3> QED
      BY <1>1, <1>4, <2>0, <2>2, <3>1 DEF OneRunKnows
  <2>3. CASE p # r /\ session[p] = s
    <3>1. pc[r] \notin Active
      BY <1>1, <1>4, <2>0, <2>3 DEF OneRunKnows
    <3>2. SummaryOf(s) \subseteq memory[p]
      BY <1>1, <1>4, <2>0, <2>3 DEF OneRunKnows
    <3> QED
      BY <2>3, <3>1, <3>2
  <2> QED
    BY <2>1, <2>2, <2>3
<1> QED
  BY <1>3, <1>4 DEF OneRunKnows

(* No session but the one a run writes to changes, unless it is evicted. *)
LEMMA OthersKeepTheirSummary ==
    ASSUME NEW s, \A t \in Sessions \ {s} : sessions'[t] \in {sessions[t], None}
    PROVE  \A t \in Sessions \ {s} :
              /\ SummaryOf(t)' \subseteq SummaryOf(t)
              /\ sessions'[t] # None => SummaryOf(t)' = SummaryOf(t)
BY DEF SummaryOf

SummariesGrow ==
    \A s \in Sessions \ disturbed' :
        sessions[s] # None /\ sessions'[s] # None => SummaryOf(s) \subseteq SummaryOf(s)'

(* A step of a run that leaves the stored summary as it is. *)
LEMMA SummaryStays ==
    ASSUME MemoryInv, OneRunKnows, NEW r \in Runs, NEW s, s = session[r], NEW place,
           pc' = [pc EXCEPT ![r] = place], UNCHANGED session, disturbed \subseteq disturbed',
           \A q \in Runs \ {r} : memory'[q] = memory[q],
           pc[r] \in Active \/ ~Overlaps(r) \/ s \in disturbed',
           \A t \in Sessions \ {s} : sessions'[t] \in {sessions[t], None},
           SummaryOf(s)' = SummaryOf(s),
           place \in Knowing /\ s \notin disturbed' => SummaryOf(s) \subseteq memory'[r]
    PROVE  OneRunKnows' /\ SummariesGrow
<1>1. \A t \in Sessions \ {s} :
          /\ SummaryOf(t)' \subseteq SummaryOf(t)
          /\ sessions'[t] # None => SummaryOf(t)' = SummaryOf(t)
  BY OthersKeepTheirSummary
<1>2. OneRunKnows'
  BY <1>1, KnowsStep, ZenonT(30)
<1>3. SummariesGrow
  BY <1>1 DEF SummariesGrow
<1> QED
  BY <1>2, <1>3

LEMMA KnowsRunStep ==
    ASSUME MemoryInv, OneRunKnows, NEW r \in Runs, NEW s, s = session[r], NEW e, e = Opened(s),
           \/ Load(r) \/ Hit(r) \/ AppendUser(r) \/ AppendAssistant(r) \/ CheckPending(r)
           \/ TakeSnapshot(r) \/ Summarise(r) \/ Extract(r) \/ Cancel(r)
    PROVE  OneRunKnows' /\ SummariesGrow
<1>0. s \in Sessions /\ RunTypes /\ UNCHANGED session
  BY DEF MemoryInv, RunTypes, Load, Hit, AppendUser, AppendAssistant, CheckPending,
         TakeSnapshot, Summarise, Extract, Cancel
<1>1. e.summary = SummaryOf(s)
  BY DEF Opened, SummaryOf, Fresh
<1>2. pc[r] \in Knowing /\ s \notin disturbed => SummaryOf(s) \subseteq memory[r]
  BY <1>0 DEF OneRunKnows, Knowing, Active, Places, Ended
<1>3. ASSUME NEW place, pc' = [pc EXCEPT ![r] = place], UNCHANGED <<sessions, lru>>,
             disturbed \subseteq disturbed', \A q \in Runs \ {r} : memory'[q] = memory[q],
             pc[r] \in Active \/ ~Overlaps(r) \/ s \in disturbed',
             place \in Knowing /\ s \notin disturbed' => SummaryOf(s) \subseteq memory'[r]
      PROVE  OneRunKnows' /\ SummariesGrow
  <2>1. SummaryOf(s)' = SummaryOf(s)
    BY <1>3 DEF SummaryOf
  <2> QED
    BY <1>0, <1>3, <2>1, SummaryStays
<1>4. ASSUME NEW place, pc' = [pc EXCEPT ![r] = place], NEW value, Written(s, value), value # None,
             disturbed \subseteq disturbed', \A q \in Runs \ {r} : memory'[q] = memory[q],
             pc[r] \in Active, value.summary = e.summary,
             place \in Knowing /\ s \notin disturbed' => SummaryOf(s) \subseteq memory'[r]
      PROVE  OneRunKnows' /\ SummariesGrow
  <2>1. SummaryOf(s)' = SummaryOf(s)
    BY <1>1, <1>4 DEF SummaryOf, Written
  <2>2. \A t \in Sessions \ {s} : sessions'[t] \in {sessions[t], None}
    BY <1>4 DEF Written
  <2> QED
    BY <1>0, <1>4, <2>1, <2>2, SummaryStays
<1>5. ASSUME NEW place, Leave(r, place)
      PROVE  \A q \in Runs \ {r} : memory'[q] = memory[q]
  BY <1>0, <1>5 DEF Leave, RunTypes
<1>6. ASSUME Arrive(r)
      PROVE  disturbed \subseteq disturbed' /\ (~Overlaps(r) \/ s \in disturbed')
  BY <1>6 DEF Arrive
<1>7. CASE Load(r)
  <2>1. memory'[r] = SummaryOf(s) /\ \A q \in Runs \ {r} : memory'[q] = memory[q]
    BY <1>0, <1>7 DEF Load, RunTypes
  <2> QED
    BY <1>3, <1>6, <1>7, <2>1 DEF Load
<1>8. CASE Hit(r)
  BY <1>3, <1>6, <1>8 DEF Hit, Goto, Knowing
<1>9. ASSUME NEW place, Goto(r, place), NEW role \in {"user", "assistant"}, pc[r] \in Before(role),
             pc[r] \in Active, place \in Knowing => pc[r] \in Knowing,
             UNCHANGED disturbed, Write(s, append(s, <<r, role>>))
      PROVE  OneRunKnows' /\ SummariesGrow
  <2>0. PICK turn, value : turn = <<r, role>> /\ value = append(s, turn)
    OBVIOUS
  <2>1. Written(s, value) /\ value # None /\ Appended(e, turn, value)
    BY <1>9, <2>0, AppendEffect
  <2>2. value.summary = e.summary
    BY <2>1 DEF Appended
  <2>3. place \in Knowing /\ s \notin disturbed' => SummaryOf(s) \subseteq memory'[r]
    BY <1>2, <1>9 DEF Goto
  <2>4. pc' = [pc EXCEPT ![r] = place] /\ \A q \in Runs \ {r} : memory'[q] = memory[q]
    BY <1>9 DEF Goto
  <2> QED
    BY <1>4, <1>9, <2>1, <2>2, <2>3, <2>4
<1>10. CASE AppendUser(r)
  <2>1. pc[r] \in Before("user") /\ pc[r] \in Active
    BY <1>10 DEF AppendUser, Before, Active, Places, Ended
  <2> QED
    BY <1>9, <1>10, <2>1 DEF AppendUser, Knowing
<1>11. CASE AppendAssistant(r)
  <2>0. /\ pc[r] \in Before("assistant") /\ pc[r] \in Active
        /\ (IF pc[r] = "assistant" THEN "pending" ELSE "done") \in Knowing => pc[r] \in Knowing
    BY <1>11 DEF AppendAssistant, Before, Active, Places, Ended, Knowing
  <2>1. CASE Write(s, append(s, <<r, "assistant">>))
    BY <1>9, <1>11, <2>0, <2>1 DEF AppendAssistant
  <2>2. CASE UNCHANGED <<sessions, lru>>
    BY <1>2, <1>3, <1>11, <2>0, <2>2 DEF AppendAssistant, Goto
  <2> QED
    BY <1>11, <2>1, <2>2 DEF AppendAssistant
<1>12. CASE CheckPending(r)
  <2>1. pc[r] \in Active /\ pc[r] \in Knowing
    BY <1>12 DEF CheckPending, Active, Places, Ended, Knowing
  <2> QED
    BY <1>2, <1>3, <1>12, <2>1 DEF CheckPending, Goto
<1>13. CASE TakeSnapshot(r)
  <2>1. pc[r] \in Active /\ pc[r] \in Knowing
    BY <1>13 DEF TakeSnapshot, Active, Places, Ended, Knowing
  <2> QED
    BY <1>2, <1>3, <1>13, <2>1 DEF TakeSnapshot
<1>14. CASE Summarise(r)
  <2>0. pc[r] = "summarise" /\ pc[r] \in Active /\ pc[r] \in Knowing /\ "extract" \notin Knowing
    BY <1>14 DEF Summarise, Active, Places, Ended, Knowing
  <2>1. CASE /\ Goto(r, "extract") /\ UNCHANGED disturbed
             /\ Write(s, set_summary(s, memory[r] \cup transcript[r]))
    <3>0. PICK summary, value : /\ summary = memory[r] \cup transcript[r]
                                /\ value = set_summary(s, summary)
      OBVIOUS
    <3>1. /\ Written(s, value) /\ value # None
          /\ Retold(e, summary, e.turns_recorded, {}, value)
      BY <2>1, <3>0, SummaryEffect
    <3>2. SummaryOf(s)' = summary
      BY <3>1 DEF Retold, Written, SummaryOf
    <3>3. \A t \in Sessions \ {s} : sessions'[t] \in {sessions[t], None}
      BY <3>1 DEF Written
    <3>4. \A t \in Sessions \ {s} :
              /\ SummaryOf(t)' \subseteq SummaryOf(t)
              /\ sessions'[t] # None => SummaryOf(t)' = SummaryOf(t)
      BY <3>3, OthersKeepTheirSummary
    <3>5. OneRunKnows'
      BY <1>0, <2>0, <2>1, <3>4, KnowsStep DEF Goto
    <3>6. SummariesGrow
      BY <1>2, <2>0, <2>1, <3>0, <3>2, <3>4 DEF SummariesGrow
    <3> QED
      BY <3>5, <3>6
  <2>2. CASE UNCHANGED <<sessions, lru>> /\ Disturb(r) /\ Goto(r, "extract")
    BY <1>3, <2>0, <2>2 DEF Goto, Disturb
  <2>3. CASE UNCHANGED <<sessions, lru>> /\ Disturb(r) /\ Leave(r, "done")
    BY <1>3, <1>5, <2>0, <2>3 DEF Leave, Disturb, Knowing
  <2> QED
    BY <1>14, <2>1, <2>2, <2>3 DEF Summarise
<1>15. CASE Extract(r)
  <2>0. pc[r] \in Active /\ "done" \notin Knowing
    BY <1>15 DEF Extract, Active, Places, Ended, Knowing
  <2>1. CASE Write(s, merge_user_context(s, r))
    <3>0. PICK value : value = merge_user_context(s, r)
      OBVIOUS
    <3>1. /\ Written(s, value) /\ value # None
          /\ Retold(e, e.summary, e.turns_summarised, {<<r, "fact">>}, value)
      BY <2>1, <3>0, ExtractEffect
    <3>2. value.summary = e.summary
      BY <3>1 DEF Retold
    <3> QED
      BY <1>4, <1>5, <1>15, <2>0, <3>1, <3>2 DEF Extract, Leave
  <2>2. CASE UNCHANGED <<sessions, lru>>
    BY <1>3, <1>5, <1>15, <2>0, <2>2 DEF Extract, Leave
  <2> QED
    BY <1>15, <2>1, <2>2 DEF Extract
<1>16. CASE Cancel(r)
  <2>1. disturbed \subseteq disturbed' /\ s \in disturbed'
    BY <1>16 DEF Cancel, Disturb
  <2> QED
    BY <1>3, <1>5, <1>16, <2>1 DEF Cancel, Leave
<1> QED
  BY <1>7, <1>8, <1>10, <1>11, <1>12, <1>13, <1>14, <1>15, <1>16

LEMMA KnowsResetStep ==
    ASSUME MemoryInv, OneRunKnows, NEW s \in Sessions, reset_memory(s)
    PROVE  OneRunKnows' /\ SummariesGrow
<1>1. /\ disturbed' = disturbed \cup {s}
      /\ \A t \in Sessions \ {s} : sessions'[t] = sessions[t]
      /\ UNCHANGED <<pc, session, memory>>
      /\ RunTypes
  BY DEF reset_memory, MemoryInv, StoreTypes
<1>2. \A t \in Sessions \ {s} : SummaryOf(t)' = SummaryOf(t)
  BY <1>1 DEF SummaryOf
<1>3. ASSUME NEW r \in Runs, session[r] \notin disturbed'
      PROVE  session[r] \notin disturbed /\ SummaryOf(session[r])' = SummaryOf(session[r])
  BY <1>1, <1>2, <1>3 DEF RunTypes
<1>4. OneRunKnows'
  BY <1>1, <1>3 DEF OneRunKnows
<1>5. SummariesGrow
  BY <1>1, <1>2 DEF SummariesGrow
<1> QED
  BY <1>4, <1>5

LEMMA KnowsNext ==
    ASSUME MemoryInv, OneRunKnows, [Next]_vars
    PROVE  OneRunKnows' /\ [SummariesGrow]_vars
<1>1. CASE UNCHANGED vars
  BY <1>1 DEF vars, OneRunKnows, SummaryOf
<1> QED
  BY <1>1, KnowsRunStep, KnowsResetStep DEF Next

LEMMA KnowsInit == Init => OneRunKnows
BY DEF Init, OneRunKnows, Active

(* The summary of a session whose requests follow one another undisturbed  *)
(* never tells less than it did, whatever happens in other sessions.       *)
THEOREM SummariesOnlyGrowHolds == Spec => SummariesOnlyGrow
<1>1. MemoryInv /\ OneRunKnows /\ [Next]_vars => OneRunKnows' /\ [SummariesGrow]_vars
  BY KnowsNext
<1> QED
  BY <1>1, KnowsInit, MemoryInit, MemoryNext, PTL DEF Spec, SummariesOnlyGrow, SummariesGrow

-----------------------------------------------------------------------------
(* No turn is lost *)

(* The turns of a session that wait for a summary. *)
Since(e) == e.turns_recorded - e.turns_summarised

(* The settings for which the summary can keep up, and among them those    *)
(* that leave no room for an odd turn.                                     *)
Tight == ~(summary_after_turns < short_term_turns)
Keepable == 4 <= short_term_turns /\ (~Tight \/ summary_after_turns % 2 = 0)

WholeNow(s) == Tight => InWholeExchanges(s)

(* How many may wait while no run of the session is under way: fewer than  *)
(* bring a summary about, or those of a request served from the cache.     *)
Resting ==
    IF summary_after_turns <= 2 THEN 2
    ELSE IF Tight THEN summary_after_turns - 2 ELSE summary_after_turns - 1

(* And while one is. *)
Waiting(place) ==
    IF place = "hit_user" THEN 0
    ELSE IF place = "hit_assistant" THEN 1
    ELSE IF place = "assistant" THEN Resting + 1
    ELSE IF place \in {"pending", "snapshot", "summarise"} THEN Resting + 2
    ELSE Resting

(* Between its two turns a run has made their number odd. *)
HalfWay == {"assistant", "hit_assistant"}

InPairs(n, place) ==
    IF place \in HalfWay THEN \E k \in Nat : n = k + k + 1 ELSE \E k \in Nat : n = k + k

Fits(n, place) == n <= Waiting(place) /\ (Tight => InPairs(n, place))

(* Every turn said is in the summary or among those that wait for one,     *)
(* which are the last in the window.                                       *)
Covered(e) ==
    \A turn \in e.said :
        \/ turn \in e.summary
        \/ \E i \in 1 .. Len(e.turns) : e.turns[i] = turn /\ i + Since(e) > Len(e.turns)

TurnsAreCovered ==
    \A s \in Sessions \ disturbed : sessions[s] # None /\ WholeNow(s) =>
        /\ Covered(sessions[s])
        /\ \A r \in Runs : session[r] = s =>
             /\ pc[r] \in Active \/ AtRest(s) => Fits(Since(sessions[s]), pc[r])
             /\ pc[r] = "summarise" => sessions[s].said \subseteq memory[r] \cup transcript[r]

(* A run between its two turns has recorded the first, unless its session  *)
(* was evicted since.                                                      *)
HalfSaid ==
    \A r \in Runs :
        /\ session[r] \notin disturbed /\ pc[r] \in HalfWay
        /\ sessions[session[r]] # None
        => <<r, "user">> \in sessions[session[r]].said

(* A turn more: as long as fewer turns wait than the window holds, those   *)
(* that wait move up and stay in it.                                       *)
LEMMA AppendCovers ==
    ASSUME NEW e, NEW turn, NEW more, Consistent(e, Turns), Consistent(more, Turns),
           Appended(e, turn, more), Covered(e), Since(e) < short_term_turns
    PROVE  Covered(more) /\ Since(more) = Since(e) + 1
<1> DEFINE d == Shift(e)
           n == Len(e.turns)
<1>1. /\ e.turns_recorded \in Nat /\ e.turns_summarised \in Nat
      /\ e.turns_summarised <= e.turns_recorded
      /\ e.turns \in Seq(Turns) /\ n \in Nat /\ n <= short_term_turns
      /\ more.turns \in Seq(Turns) /\ Len(more.turns) \in Nat
  BY MemoryAssumption DEF Consistent, _Session
<1>2. /\ d \in {0, 1} /\ (d = 1 => n = short_term_turns)
      /\ Len(more.turns) = n + 1 - d
      /\ \A k, m \in 1 .. n : m = k + d => more.turns[k] = e.turns[m]
      /\ more.turns[Len(more.turns)] = turn
      /\ more.said = e.said \cup {turn} /\ more.summary = e.summary
      /\ more.turns_recorded = e.turns_recorded + 1
      /\ more.turns_summarised = e.turns_summarised
  <2>1. d \in {0, 1} /\ (d = 1 => n = short_term_turns)
    BY <1>1, MemoryAssumption DEF Shift
  <2> HIDE DEF d, n
  <2>2. Len(more.turns) = n + 1 - d /\ \A k, m \in 1 .. n : m = k + d => more.turns[k] = e.turns[m]
    BY DEF Appended, d, n
  <2>3. /\ more.turns[Len(more.turns)] = turn
        /\ more.said = e.said \cup {turn} /\ more.summary = e.summary
        /\ more.turns_recorded = e.turns_recorded + 1
        /\ more.turns_summarised = e.turns_summarised
    BY DEF Appended
  <2> QED
    BY <2>1, <2>2, <2>3
<1> HIDE DEF d, n
<1>3. Since(more) = Since(e) + 1 /\ Since(e) \in Nat
  <2>1. PICK a \in Nat, b \in Nat : a = e.turns_recorded /\ b = e.turns_summarised
    BY <1>1
  <2>2. Since(e) = a - b /\ Since(more) = (a + 1) - b /\ b <= a
    BY <1>1, <1>2, <2>1 DEF Since
  <2> QED
    BY <2>2
<1>4. ASSUME NEW x \in more.said, x \notin more.summary
      PROVE  \E i \in 1 .. Len(more.turns) : more.turns[i] = x /\ i + Since(more) > Len(more.turns)
  <2>1. CASE x = turn
    <3>1. Len(more.turns) \in 1 .. Len(more.turns)
      BY <1>1, <1>2, MemoryAssumption
    <3>2. Len(more.turns) + Since(more) > Len(more.turns)
      BY <1>1, <1>3
    <3> QED
      BY <1>2, <2>1, <3>1, <3>2
  <2>2. CASE x # turn
    <3>1. PICK i \in 1 .. n : e.turns[i] = x /\ i + Since(e) > n
      BY <1>2, <1>4, <2>2 DEF Covered, n
    <3>2. PICK k \in Int : k = i - d
      BY <1>2
    <3>3. k \in 1 .. n /\ k \in 1 .. Len(more.turns) /\ i = k + d
      BY <1>1, <1>2, <1>3, <3>1, <3>2, MemoryAssumption
    <3>4. k + Since(more) > Len(more.turns)
      BY <1>1, <1>2, <1>3, <3>1, <3>2
    <3>5. more.turns[k] = e.turns[i]
      BY <1>2, <3>3
    <3> QED
      BY <3>1, <3>3, <3>4, <3>5
  <2> QED
    BY <2>1, <2>2
<1>5. Covered(more)
  BY <1>4 DEF Covered
<1> QED
  BY <1>3, <1>5

(* A new session has nothing to cover. *)
LEMMA FreshIsCovered == Covered(Fresh) /\ Since(Fresh) = 0
BY DEF Covered, Fresh, Since

(* What a step of run r has to show of its session: that its turns are     *)
(* covered where r goes, that r is alone in it, and that the other runs    *)
(* keep what they carry.                                                   *)
Kept(s) == s \notin disturbed' /\ sessions'[s] # None /\ WholeNow(s)'

CoveredAt(r, s, place) ==
    Kept(s) =>
        /\ Covered(sessions'[s])
        /\ Fits(Since(sessions'[s]), place)
        /\ place = "summarise" => sessions'[s].said \subseteq memory'[r] \cup transcript'[r]

AloneIn(r, s) == \A q \in Runs \ {r} : session[q] = s /\ pc[q] \in Active => s \in disturbed'

OthersCarry(r) == \A q \in Runs \ {r} : memory'[q] = memory[q] /\ transcript'[q] = transcript[q]

OthersStored(s) == \A t \in Sessions \ {s} : sessions'[t] \in {sessions[t], None}

LEMMA CoveredStep ==
    ASSUME MemoryInv, TurnsAreCovered, OneRunKnows', NEW r \in Runs, NEW s, s = session[r],
           NEW place, place \in Active \cup Ended,
           pc' = [pc EXCEPT ![r] = place], UNCHANGED session, disturbed \subseteq disturbed',
           OthersCarry(r), OthersStored(s), CoveredAt(r, s, place), AloneIn(r, s)
    PROVE  TurnsAreCovered'
<1>0. RunTypes /\ s \in Sessions
  BY DEF MemoryInv, RunTypes
<1>1. pc'[r] = place /\ \A q \in Runs \ {r} : pc'[q] = pc[q]
  BY <1>0 DEF RunTypes
<1>6. ASSUME NEW t \in Sessions, sessions'[t] = sessions[t], t # s, WholeNow(t)'
      PROVE  WholeNow(t)
  <2>1. \A q \in Runs : session[q] = t => session'[q] = t /\ pc'[q] = pc[q]
    BY <1>1, <1>6
  <2> QED
    BY <1>6, <2>1 DEF WholeNow, InWholeExchanges
<1>2. ASSUME NEW t \in Sessions \ disturbed', sessions'[t] # None, t # s, WholeNow(t)',
             NEW q \in Runs, session[q] = t
      PROVE  /\ Covered(sessions'[t])
             /\ pc'[q] \in Active \/ AtRest(t)' => Fits(Since(sessions'[t]), pc'[q])
             /\ pc'[q] = "summarise" => sessions'[t].said \subseteq memory'[q] \cup transcript'[q]
  <2>1. sessions'[t] = sessions[t] /\ t \notin disturbed /\ sessions[t] # None /\ WholeNow(t)
    BY <1>2, <1>6 DEF OthersStored
  <2>2. q # r /\ pc'[q] = pc[q] /\ memory'[q] = memory[q] /\ transcript'[q] = transcript[q]
    BY <1>1, <1>2 DEF OthersCarry
  <2>3. AtRest(t)' => AtRest(t)
    BY <1>1, <1>2 DEF AtRest, UnderWay
  <2> QED
    BY <1>2, <2>1, <2>2, <2>3 DEF TurnsAreCovered
<1>3. ASSUME Kept(s), NEW q \in Runs, session[q] = s
      PROVE  /\ pc'[q] \in Active \/ AtRest(s)' => Fits(Since(sessions'[s]), pc'[q])
             /\ pc'[q] = "summarise" => sessions'[s].said \subseteq memory'[q] \cup transcript'[q]
  <2>1. CASE q = r
    BY <1>1, <1>3, <2>1 DEF CoveredAt
  <2>2. CASE q # r
    <3>1. pc'[q] \notin Active
      BY <1>1, <1>3, <2>2 DEF AloneIn, Kept
    <3>2. pc'[q] \in {"idle"} \cup Ended /\ pc'[q] # "summarise"
      BY <1>0, <1>1, <2>2, <3>1 DEF Active, Places, Ended, RunTypes
    <3>3. AtRest(s)' => place \in {"idle"} \cup Ended
      BY <1>1 DEF AtRest, UnderWay
    <3>4. \A n : place \in {"idle"} \cup Ended /\ Fits(n, place) => Fits(n, pc'[q])
      BY <3>2 DEF Fits, InPairs, HalfWay, Waiting, Ended
    <3> QED
      BY <1>3, <3>1, <3>2, <3>3, <3>4 DEF CoveredAt
  <2> QED
    BY <2>1, <2>2
<1>4. ASSUME NEW t \in Sessions \ disturbed', sessions'[t] # None, t # s, WholeNow(t)'
      PROVE  Covered(sessions'[t])
  <2>1. sessions'[t] = sessions[t] /\ t \notin disturbed
    BY <1>4 DEF OthersStored
  <2>2. WholeNow(t)
    BY <1>4, <1>6, <2>1
  <2> QED
    BY <1>4, <2>1, <2>2 DEF TurnsAreCovered
<1>5. ASSUME NEW t \in Sessions \ disturbed', sessions'[t] # None, WholeNow(t)'
      PROVE  /\ Covered(sessions'[t])
             /\ \A q \in Runs : session[q] = t =>
                   /\ pc'[q] \in Active \/ AtRest(t)' => Fits(Since(sessions'[t]), pc'[q])
                   /\ pc'[q] = "summarise" => sessions'[t].said \subseteq memory'[q] \cup transcript'[q]
  BY <1>2, <1>3, <1>4, <1>5 DEF CoveredAt, Kept
<1> QED
  BY <1>5 DEF TurnsAreCovered

LEMMA RestingFacts ==
    ASSUME Keepable
    PROVE  /\ Resting \in Nat /\ 2 <= Resting
           /\ Resting + 1 < short_term_turns /\ 1 < short_term_turns
           /\ ~Tight => summary_after_turns <= Resting + 1
           /\ Tight => summary_after_turns <= Resting + 2
BY MemoryAssumption DEF Resting, Keepable, Tight

(* How many turns may wait, from place to place. *)
LEMMA WaitingFacts ==
    /\ Waiting("hit_user") = 0 /\ Waiting("hit_assistant") = 1
    /\ Waiting("idle") = Resting /\ Waiting("user") = Resting
    /\ Waiting("assistant") = Resting + 1
    /\ Waiting("pending") = Resting + 2 /\ Waiting("snapshot") = Resting + 2
    /\ Waiting("summarise") = Resting + 2
    /\ Waiting("extract") = Resting /\ Waiting("done") = Resting /\ Waiting("cancelled") = Resting
BY DEF Waiting

(* Nothing waiting fits everywhere but between two turns. *)
LEMMA NothingFits ==
    ASSUME Keepable, NEW place \in Places, Tight => place \notin HalfWay
    PROVE  Fits(0, place)
<1>1. 0 <= Waiting(place)
  BY RestingFacts, WaitingFacts DEF Places, Ended
<1>2. Tight => InPairs(0, place)
  BY DEF InPairs
<1> QED
  BY <1>1, <1>2 DEF Fits

(* Where a run goes without recording a turn. *)
LEMMA FitsStays ==
    ASSUME Keepable, NEW n \in Nat
    PROVE  /\ Fits(n, "idle") => Fits(n, "user")
           /\ Fits(n, "pending") => Fits(n, "snapshot")
           /\ Fits(n, "snapshot") => Fits(n, "summarise")
           /\ Fits(n, "extract") => Fits(n, "done")
           /\ ~Tight /\ Fits(n, "assistant") => Fits(n, "pending")
           /\ ~Tight /\ Fits(n, "hit_assistant") => Fits(n, "done")
BY RestingFacts, WaitingFacts DEF Fits, InPairs, HalfWay

LEMMA EvenIsDouble ==
    ASSUME NEW n \in Nat, n % 2 = 0
    PROVE  \E m \in Nat : n = m + m
<1>1. n \div 2 \in Nat /\ n = (n \div 2) + (n \div 2)
  OBVIOUS
<1> QED
  BY <1>1

(* Where it goes when too few turns wait. *)
LEMMA FitsUnsummarised ==
    ASSUME Keepable, NEW n \in Nat, n < summary_after_turns, Fits(n, "pending")
    PROVE  Fits(n, "extract")
<1>1. CASE ~Tight
  BY <1>1, RestingFacts, WaitingFacts, MemoryAssumption DEF Fits
<1>2. CASE Tight
  <2>1. InPairs(n, "pending") /\ InPairs(n, "extract")
    BY <1>2 DEF Fits, InPairs, HalfWay
  <2>2. PICK k \in Nat : n = k + k
    BY <2>1 DEF InPairs, HalfWay
  <2>3. PICK m \in Nat : summary_after_turns = m + m
    BY <1>2, MemoryAssumption, EvenIsDouble DEF Keepable
  <2>4. n <= Resting
    BY <1>2, <2>2, <2>3, RestingFacts
  <2> QED
    BY <2>1, <2>4, WaitingFacts DEF Fits
<1> QED
  BY <1>1, <1>2

(* A run that is about to record a turn finds room for it beside those     *)
(* that wait.                                                              *)
LEMMA FitsTheWindow ==
    ASSUME Keepable, NEW n \in Nat, NEW place \in {"user", "hit_user"} \cup HalfWay, Fits(n, place)
    PROVE  n < short_term_turns
BY RestingFacts, WaitingFacts, MemoryAssumption DEF Fits, HalfWay

(* And where it goes with one turn more. *)
LEMMA FitsOneMore ==
    ASSUME Keepable, NEW n \in Nat, NEW m \in Nat, m = n + 1, NEW place, NEW next,
           \/ place = "user" /\ next = "assistant"
           \/ place = "hit_user" /\ next = "hit_assistant"
           \/ place = "assistant" /\ next = "pending"
           \/ place = "hit_assistant" /\ next = "done",
           Fits(n, place)
    PROVE  Fits(m, next)
<1>1. m <= Waiting(next)
  BY RestingFacts, WaitingFacts DEF Fits
<1>2. ASSUME Tight PROVE InPairs(m, next)
  <2>1. InPairs(n, place)
    BY <1>2 DEF Fits
  <2>2. CASE place \in HalfWay
    <3>1. next \notin HalfWay
      BY <2>2 DEF HalfWay
    <3>2. PICK k \in Nat : n = k + k + 1
      BY <2>1, <2>2 DEF InPairs
    <3>3. k + 1 \in Nat /\ m = (k + 1) + (k + 1)
      BY <3>2
    <3> QED
      BY <3>1, <3>3 DEF InPairs
  <2>3. CASE place \notin HalfWay
    <3>1. next \in HalfWay
      BY <2>3 DEF HalfWay
    <3>2. PICK k \in Nat : n = k + k
      BY <2>1, <2>3 DEF InPairs
    <3> QED
      BY <3>1, <3>2 DEF InPairs
  <2> QED
    BY <2>2, <2>3
<1> QED
  BY <1>1, <1>2 DEF Fits

(* The session of a run under way, or of one that finds it at rest, before *)
(* its step.                                                               *)
LEMMA CoveredBefore ==
    ASSUME Keepable, MemoryInv, TurnsAreCovered,
           NEW r \in Runs, NEW s, s = session[r], NEW e, e = Opened(s),
           s \notin disturbed, pc[r] \in Active \/ AtRest(s),
           sessions[s] # None => WholeNow(s),
           Tight /\ sessions[s] = None => pc[r] \notin HalfWay
    PROVE  /\ Covered(e) /\ Since(e) \in Nat /\ Fits(Since(e), pc[r])
           /\ e.turns_recorded \in Nat /\ e.turns_summarised \in Nat
<1>0. s \in Sessions /\ pc[r] \in Places
  BY DEF MemoryInv, RunTypes
<1>1. /\ e.turns_recorded \in Nat /\ e.turns_summarised \in Nat
      /\ e.turns_summarised <= e.turns_recorded
  BY <1>0, OpenedConsistent DEF Consistent, _Session
<1>2. Since(e) \in Nat
  BY <1>1 DEF Since
<1>3. CASE sessions[s] = None
  <2>1. Covered(e) /\ Since(e) = 0
    BY <1>3, FreshIsCovered DEF Opened
  <2> QED
    BY <1>0, <1>1, <1>3, <2>1, NothingFits
<1>4. CASE sessions[s] # None
  BY <1>0, <1>1, <1>2, <1>4 DEF Opened, TurnsAreCovered
<1> QED
  BY <1>3, <1>4

(* What a step of run r does to what was said in its session, and where it *)
(* goes: it records its question, its answer, a blank one, or nothing.     *)
Speaks(r, s, place) ==
    \/ /\ pc[r] \in Before("user") /\ sessions'[s] # None
       /\ sessions'[s].said = Opened(s).said \cup {<<r, "user">>}
    \/ /\ pc[r] \in HalfWay /\ place \notin HalfWay
       /\ sessions'[s].said = Opened(s).said \cup {<<r, "assistant">>}
    \/ pc[r] \in HalfWay /\ place \notin HalfWay /\ sessions' = sessions
    \/ /\ pc[r] \notin HalfWay /\ place \notin HalfWay
       /\ \/ sessions' = sessions
          \/ pc[r] \in Active /\ sessions'[s].said = Opened(s).said

SpeakingStep(r, s, place) ==
    /\ pc' = [pc EXCEPT ![r] = place] /\ UNCHANGED session
    /\ disturbed \subseteq disturbed' /\ OthersStored(s)
    /\ pc[r] \in Active \/ sessions' = sessions
    /\ s \notin disturbed' => Speaks(r, s, place)

LEMMA RunSpeaks ==
    ASSUME MemoryInv, NEW r \in Runs, NEW s, s = session[r],
           \/ Load(r) \/ Hit(r) \/ AppendUser(r) \/ AppendAssistant(r) \/ CheckPending(r)
           \/ TakeSnapshot(r) \/ Summarise(r) \/ Extract(r) \/ Cancel(r)
    PROVE  \E place : SpeakingStep(r, s, place)
<1>0. s \in Sessions /\ RunTypes
  BY DEF MemoryInv, RunTypes
<1>1. sessions' = sessions => OthersStored(s)
  BY DEF OthersStored
<1>2. ASSUME NEW value, Written(s, value) PROVE OthersStored(s) /\ sessions'[s] = value
  BY <1>2 DEF Written, OthersStored
<1>3. ASSUME Load(r) \/ Hit(r) \/ CheckPending(r) \/ TakeSnapshot(r)
      PROVE  \E place : /\ pc' = [pc EXCEPT ![r] = place] /\ UNCHANGED <<session, sessions>>
                        /\ disturbed \subseteq disturbed'
                        /\ pc[r] \notin HalfWay /\ place \notin HalfWay
  BY <1>3 DEF Load, Hit, Arrive, CheckPending, TakeSnapshot, Goto, HalfWay
<1>4. ASSUME Cancel(r)
      PROVE  /\ pc' = [pc EXCEPT ![r] = "cancelled"] /\ UNCHANGED <<session, sessions>>
             /\ disturbed \subseteq disturbed' /\ s \in disturbed'
  BY <1>4 DEF Cancel, Leave, Disturb
<1>5. ASSUME NEW role \in {"user", "assistant"}, pc[r] \in Before(role), pc[r] \in Active,
             role = "assistant" => pc[r] \in HalfWay,
             NEW place, role = "assistant" => place \notin HalfWay, Goto(r, place),
             Write(s, append(s, <<r, role>>)), UNCHANGED <<session, disturbed>>
      PROVE  SpeakingStep(r, s, place)
  <2>0. PICK turn, value, e : turn = <<r, role>> /\ value = append(s, turn) /\ e = Opened(s)
    OBVIOUS
  <2>1. Written(s, value) /\ value # None /\ Appended(e, turn, value)
    BY <1>5, <2>0, AppendEffect
  <2>2. OthersStored(s) /\ sessions'[s] = value
    BY <1>2, <2>1
  <2>3. sessions'[s].said = e.said \cup {turn}
    BY <2>1, <2>2 DEF Appended
  <2>4. Speaks(r, s, place)
    BY <1>5, <2>0, <2>1, <2>2, <2>3 DEF Speaks
  <2> QED
    BY <1>5, <2>2, <2>4 DEF Goto, SpeakingStep
<1>6. CASE AppendUser(r)
  <2>1. pc[r] \in Before("user") /\ pc[r] \in Active
    BY <1>6 DEF AppendUser, Before, Active, Places, Ended
  <2>2. PICK place : Goto(r, place)
    BY <1>6 DEF AppendUser
  <2> QED
    BY <1>5, <1>6, <2>1, <2>2 DEF AppendUser
<1>7. CASE AppendAssistant(r)
  <2>1. pc[r] \in Before("assistant") /\ pc[r] \in Active /\ pc[r] \in HalfWay
    BY <1>7 DEF AppendAssistant, Before, Active, Places, Ended, HalfWay
  <2>2. PICK place : Goto(r, place) /\ place \notin HalfWay
    BY <1>7 DEF AppendAssistant, HalfWay
  <2>3. CASE Write(s, append(s, <<r, "assistant">>))
    BY <1>5, <1>7, <2>1, <2>2, <2>3 DEF AppendAssistant
  <2>4. CASE UNCHANGED <<sessions, lru>>
    <3>1. Speaks(r, s, place)
      BY <2>1, <2>2, <2>4 DEF Speaks
    <3>2. SpeakingStep(r, s, place)
      BY <1>1, <1>7, <2>1, <2>2, <2>4, <3>1 DEF AppendAssistant, Goto, SpeakingStep
    <3> QED
      BY <3>2
  <2> QED
    BY <1>7, <2>3, <2>4 DEF AppendAssistant
<1>8. CASE Load(r) \/ Hit(r) \/ CheckPending(r) \/ TakeSnapshot(r)
  <2>1. PICK place : /\ pc' = [pc EXCEPT ![r] = place] /\ UNCHANGED <<session, sessions>>
                     /\ disturbed \subseteq disturbed'
                     /\ pc[r] \notin HalfWay /\ place \notin HalfWay
    BY <1>3, <1>8
  <2>2. Speaks(r, s, place)
    BY <2>1 DEF Speaks
  <2>3. SpeakingStep(r, s, place)
    BY <1>1, <2>1, <2>2 DEF SpeakingStep
  <2> QED
    BY <2>3
<1>9. CASE Cancel(r)
  <2>1. SpeakingStep(r, s, "cancelled")
    BY <1>1, <1>4, <1>9 DEF SpeakingStep
  <2> QED
    BY <2>1
<1>10. ASSUME NEW place, pc' = [pc EXCEPT ![r] = place], UNCHANGED session,
              disturbed \subseteq disturbed', pc[r] \in Active,
              pc[r] \notin HalfWay, place \notin HalfWay,
              OthersStored(s),
              \/ sessions' = sessions
              \/ sessions'[s].said = Opened(s).said
       PROVE  SpeakingStep(r, s, place)
  <2>1. Speaks(r, s, place)
    BY <1>10 DEF Speaks
  <2> QED
    BY <1>10, <2>1 DEF SpeakingStep
<1>11. CASE Summarise(r)
  <2>0. /\ pc[r] \in Active /\ pc[r] \notin HalfWay /\ UNCHANGED session
        /\ "extract" \notin HalfWay /\ "done" \notin HalfWay
    BY <1>11 DEF Summarise, Active, Places, Ended, HalfWay
  <2>1. CASE /\ Goto(r, "extract") /\ UNCHANGED disturbed
             /\ Write(s, set_summary(s, memory[r] \cup transcript[r]))
    <3>0. PICK summary, value, e : /\ summary = memory[r] \cup transcript[r]
                                   /\ value = set_summary(s, summary) /\ e = Opened(s)
      OBVIOUS
    <3>1. Written(s, value) /\ Retold(e, summary, e.turns_recorded, {}, value)
      BY <2>1, <3>0, SummaryEffect
    <3>2. OthersStored(s) /\ sessions'[s].said = Opened(s).said
      BY <1>2, <3>0, <3>1 DEF Retold
    <3> QED
      BY <1>10, <2>0, <2>1, <3>2 DEF Goto
  <2>2. CASE UNCHANGED <<sessions, lru>> /\ Disturb(r) /\ (Goto(r, "extract") \/ Leave(r, "done"))
    <3>1. disturbed \subseteq disturbed' /\ sessions' = sessions
      BY <2>2 DEF Disturb
    <3>2. PICK place : pc' = [pc EXCEPT ![r] = place] /\ place \notin HalfWay
      BY <2>0, <2>2 DEF Goto, Leave
    <3> QED
      BY <1>1, <1>10, <2>0, <3>1, <3>2
  <2> QED
    BY <1>11, <2>1, <2>2 DEF Summarise
<1>12. CASE Extract(r)
  <2>0. /\ pc[r] \in Active /\ pc[r] \notin HalfWay /\ UNCHANGED <<session, disturbed>>
        /\ "done" \notin HalfWay /\ pc' = [pc EXCEPT ![r] = "done"]
    BY <1>12 DEF Extract, Leave, Active, Places, Ended, HalfWay
  <2>1. CASE Write(s, merge_user_context(s, r))
    <3>0. PICK value, e : value = merge_user_context(s, r) /\ e = Opened(s)
      OBVIOUS
    <3>1. Written(s, value) /\ Retold(e, e.summary, e.turns_summarised, {<<r, "fact">>}, value)
      BY <2>1, <3>0, ExtractEffect
    <3>2. OthersStored(s) /\ sessions'[s].said = Opened(s).said
      BY <1>2, <3>0, <3>1 DEF Retold
    <3> QED
      BY <1>10, <2>0, <3>2
  <2>2. CASE UNCHANGED <<sessions, lru>>
    BY <1>1, <1>10, <2>0, <2>2
  <2> QED
    BY <1>12, <2>1, <2>2 DEF Extract
<1> QED
  BY <1>6, <1>7, <1>8, <1>9, <1>11, <1>12

(* Another run of the session that writes while r is between its turns     *)
(* would have disturbed it.                                                *)
LEMMA HalfSaidNext ==
    ASSUME MemoryInv, OneRunKnows, HalfSaid, [Next]_vars
    PROVE  HalfSaid'
<1>0. RunTypes
  BY DEF MemoryInv
<1>1. CASE UNCHANGED vars
  BY <1>1 DEF vars, HalfSaid
<1>2. ASSUME NEW s \in Sessions, reset_memory(s) PROVE HalfSaid'
  <2>1. /\ disturbed' = disturbed \cup {s} /\ UNCHANGED <<pc, session>>
        /\ \A t \in Sessions \ {s} : sessions'[t] = sessions[t]
    BY <1>2 DEF reset_memory, MemoryInv, StoreTypes
  <2> QED
    BY <1>0, <2>1 DEF HalfSaid, RunTypes
<1>3. ASSUME NEW r \in Runs,
             \/ Load(r) \/ Hit(r) \/ AppendUser(r) \/ AppendAssistant(r) \/ CheckPending(r)
             \/ TakeSnapshot(r) \/ Summarise(r) \/ Extract(r) \/ Cancel(r)
      PROVE  HalfSaid'
  <2>0. PICK s : s = session[r]
    OBVIOUS
  <2>4. PICK place : SpeakingStep(r, s, place)
    BY <1>3, <2>0, RunSpeaks
  <2>1. /\ pc' = [pc EXCEPT ![r] = place] /\ UNCHANGED session
        /\ disturbed \subseteq disturbed' /\ OthersStored(s)
        /\ pc[r] \in Active \/ sessions' = sessions
        /\ s \notin disturbed' => Speaks(r, s, place)
    BY <2>4 DEF SpeakingStep
  <2>2. ASSUME NEW q \in Runs, session[q] \notin disturbed', pc'[q] \in HalfWay,
               sessions'[session[q]] # None
        PROVE  <<q, "user">> \in sessions'[session[q]].said
    <3>0. session[q] \in Sessions /\ session[q] \notin disturbed
      BY <1>0, <2>1, <2>2 DEF RunTypes
    <3>1. CASE q = r
      <4>1. place \in HalfWay /\ s \notin disturbed'
        BY <1>0, <2>0, <2>1, <2>2, <3>1 DEF RunTypes
      <4> QED
        BY <2>0, <2>1, <3>1, <4>1 DEF Speaks
    <3>2. CASE q # r
      <4>1. pc[q] \in HalfWay /\ pc[q] \in Active
        BY <1>0, <2>1, <2>2, <3>2 DEF RunTypes, HalfWay, Active, Places, Ended
      <4>2. CASE session[q] = s
        <5>1. pc[r] \notin Active
          BY <2>0, <3>0, <3>2, <4>1, <4>2 DEF OneRunKnows
        <5> QED
          BY <2>1, <2>2, <3>0, <4>1, <5>1 DEF HalfSaid
      <4>3. CASE session[q] # s
        <5>1. sessions'[session[q]] = sessions[session[q]]
          BY <2>1, <2>2, <3>0, <4>3 DEF OthersStored
        <5> QED
          BY <2>2, <3>0, <4>1, <5>1 DEF HalfSaid
      <4> QED
        BY <4>2, <4>3
    <3> QED
      BY <3>1, <3>2
  <2> QED
    BY <2>1, <2>2 DEF HalfSaid
<1> QED
  BY <1>1, <1>2, <1>3 DEF Next

(* A session in whole exchanges after a step was so before it, and the     *)
(* step was no blank answer.                                               *)
LEMMA WholeBefore ==
    ASSUME MemoryInv, HalfSaid, NEW r \in Runs, NEW s, s = session[r], Kept(s),
           \/ Load(r) \/ Hit(r) \/ AppendUser(r) \/ AppendAssistant(r) \/ CheckPending(r)
           \/ TakeSnapshot(r) \/ Summarise(r) \/ Extract(r) \/ Cancel(r)
    PROVE  /\ s \notin disturbed
           /\ sessions[s] # None => WholeNow(s)
           /\ Tight /\ sessions[s] = None => pc[r] \notin HalfWay
           /\ Tight /\ pc[r] \in HalfWay => sessions' # sessions
<1>0. s \in Sessions /\ RunTypes /\ s \notin disturbed' /\ sessions'[s] # None
  BY DEF MemoryInv, RunTypes, Kept
<1>11. PICK place : SpeakingStep(r, s, place)
  BY RunSpeaks
<1>1. /\ pc' = [pc EXCEPT ![r] = place] /\ UNCHANGED session
      /\ disturbed \subseteq disturbed'
      /\ pc[r] \in Active \/ sessions' = sessions
      /\ Speaks(r, s, place)
  BY <1>0, <1>11 DEF SpeakingStep
<1>2. pc'[r] = place /\ \A q \in Runs \ {r} : pc'[q] = pc[q]
  BY <1>0, <1>1 DEF RunTypes
<1>3. ASSUME Tight, NEW q \in Runs, session[q] = s, pc'[q] \notin HalfWay
      PROVE  <<q, "user">> \in sessions'[s].said <=> <<q, "assistant">> \in sessions'[s].said
  BY <1>1, <1>3 DEF Kept, WholeNow, InWholeExchanges, HalfWay
<1>4. ASSUME NEW role \in {"user", "assistant"}, pc[r] \in Before(role)
      PROVE  <<r, role>> \notin Opened(s).said
  BY <1>4, TurnIsNew
<1>5. pc[r] \in HalfWay => pc[r] \in Before("assistant")
  BY DEF HalfWay, Before
<1>6. pc[r] \in Before("user") => pc[r] \in Before("assistant")
  BY DEF Before
<1>7. \A q \in Runs, p \in Runs : <<q, "user">> # <<p, "assistant">>
  OBVIOUS
<1>8. ASSUME Tight, pc[r] \in HalfWay
      PROVE  sessions[s] # None /\ sessions' # sessions
  <2>1. place \notin HalfWay
    BY <1>1, <1>8 DEF Speaks, HalfWay, Before
  <2>2. <<r, "user">> \in sessions'[s].said <=> <<r, "assistant">> \in sessions'[s].said
    BY <1>2, <1>3, <1>8, <2>1
  <2>3. <<r, "assistant">> \notin Opened(s).said
    BY <1>4, <1>5, <1>8
  <2>4. sessions' # sessions
    <3> SUFFICES ASSUME sessions' = sessions PROVE FALSE
      OBVIOUS
    <3>1. <<r, "user">> \in sessions[s].said
      BY <1>0, <1>1, <1>8 DEF HalfSaid
    <3> QED
      BY <1>0, <2>2, <2>3, <3>1 DEF Opened
  <2>5. sessions'[s].said = Opened(s).said \cup {<<r, "assistant">>}
    BY <1>1, <1>8, <2>4 DEF Speaks, HalfWay, Before
  <2>6. <<r, "user">> \in Opened(s).said
    BY <1>7, <2>2, <2>5
  <2> QED
    BY <2>4, <2>6 DEF Opened, Fresh
<1>9. ASSUME Tight, sessions[s] # None, NEW q \in Runs, session[q] = s, pc[q] \notin HalfWay
      PROVE  <<q, "user">> \in sessions[s].said <=> <<q, "assistant">> \in sessions[s].said
  <2>0. Opened(s) = sessions[s]
    BY <1>9 DEF Opened
  <2>1. CASE q # r
    <3>1. <<q, "user">> \in sessions'[s].said <=> <<q, "assistant">> \in sessions'[s].said
      BY <1>2, <1>3, <1>9, <2>1
    <3>2. /\ <<q, "user">> # <<r, "user">> /\ <<q, "user">> # <<r, "assistant">>
          /\ <<q, "assistant">> # <<r, "user">> /\ <<q, "assistant">> # <<r, "assistant">>
      BY <2>1
    <3> QED
      BY <1>1, <2>0, <3>1, <3>2 DEF Speaks
  <2>2. CASE q = r /\ pc[r] \in Before("user")
    BY <1>4, <1>6, <2>0, <2>2
  <2>3. CASE q = r /\ pc[r] \notin Before("user")
    <3>1. place \notin HalfWay /\ sessions'[s].said = sessions[s].said
      BY <1>1, <1>9, <2>0, <2>3 DEF Speaks
    <3> QED
      BY <1>2, <1>3, <1>9, <2>3, <3>1
  <2> QED
    BY <2>1, <2>2, <2>3
<1>10. sessions[s] # None => WholeNow(s)
  BY <1>9 DEF WholeNow, InWholeExchanges, HalfWay
<1> QED
  BY <1>0, <1>1, <1>8, <1>10

LEMMA CoveredRunStep ==
    ASSUME Keepable, MemoryInv, OneRunKnows, OneRunKnows', TurnsAreCovered, HalfSaid,
           NEW r \in Runs, NEW s, s = session[r], NEW e, e = Opened(s),
           \/ Load(r) \/ Hit(r) \/ AppendUser(r) \/ AppendAssistant(r) \/ CheckPending(r)
           \/ TakeSnapshot(r) \/ Summarise(r) \/ Extract(r) \/ Cancel(r)
    PROVE  TurnsAreCovered'
<1>0. s \in Sessions /\ RunTypes /\ UNCHANGED session /\ pc[r] \in Places
  BY DEF MemoryInv, RunTypes, Load, Hit, AppendUser, AppendAssistant, CheckPending,
         TakeSnapshot, Summarise, Extract, Cancel
<1>1. pc[r] \in Active /\ disturbed \subseteq disturbed' => AloneIn(r, s)
  BY DEF OneRunKnows, AloneIn
<1>18. ASSUME Kept(s)
       PROVE  /\ s \notin disturbed
              /\ sessions[s] # None => WholeNow(s)
              /\ Tight /\ sessions[s] = None => pc[r] \notin HalfWay
              /\ Tight /\ pc[r] \in HalfWay => sessions' # sessions
  BY <1>18, WholeBefore
<1>2. ASSUME Kept(s), pc[r] \in Active \/ AtRest(s)
      PROVE  /\ Covered(e) /\ Since(e) \in Nat /\ Fits(Since(e), pc[r])
             /\ e.turns_recorded \in Nat /\ e.turns_summarised \in Nat
  BY <1>2, <1>18, CoveredBefore
<1>3. sessions[s] # None => e = sessions[s]
  BY DEF Opened
<1>4. ASSUME NEW place \in Active \cup Ended, pc' = [pc EXCEPT ![r] = place],
             UNCHANGED <<sessions, lru>>, disturbed \subseteq disturbed',
             OthersCarry(r), AloneIn(r, s),
             Kept(s) =>
                /\ Covered(e)
                /\ Fits(Since(e), place)
                /\ place = "summarise" => e.said \subseteq memory'[r] \cup transcript'[r]
      PROVE  TurnsAreCovered'
  <2>1. CoveredAt(r, s, place)
    BY <1>3, <1>4 DEF CoveredAt, Kept
  <2>2. OthersStored(s)
    BY <1>4 DEF OthersStored
  <2> QED
    BY <1>0, <1>4, <2>1, <2>2, CoveredStep
<1>5. ASSUME NEW place \in Active \cup Ended, pc' = [pc EXCEPT ![r] = place], place # "summarise",
             NEW value, Written(s, value), pc[r] \in Active, UNCHANGED disturbed, OthersCarry(r),
             Kept(s) => Covered(value) /\ Fits(Since(value), place)
      PROVE  TurnsAreCovered'
  <2>1. CoveredAt(r, s, place)
    BY <1>5 DEF Written, CoveredAt
  <2>2. OthersStored(s)
    BY <1>5 DEF Written, OthersStored
  <2>3. AloneIn(r, s)
    BY <1>1, <1>5
  <2> QED
    BY <1>0, <1>5, <2>1, <2>2, <2>3, CoveredStep
<1>6. ASSUME NEW place, Leave(r, place)
      PROVE  OthersCarry(r)
  BY <1>0, <1>6 DEF Leave, RunTypes, OthersCarry
<1>7. ASSUME Arrive(r)
      PROVE  /\ disturbed \subseteq disturbed' /\ pc[r] = "idle"
             /\ AloneIn(r, s)
             /\ Kept(s) => AtRest(s)
  BY <1>7 DEF Arrive, Overlaps, AtRest, UnderWay, Active, AloneIn, Kept
<1>8. CASE Load(r)
  <2>1. OthersCarry(r)
    BY <1>0, <1>8 DEF Load, RunTypes, OthersCarry
  <2>2. "user" \in Active
    BY DEF Active, Places, Ended
  <2>3. Kept(s) => Covered(e) /\ Fits(Since(e), "user")
    BY <1>2, <1>7, <1>8, FitsStays DEF Load
  <2>4. pc' = [pc EXCEPT ![r] = "user"] /\ UNCHANGED <<sessions, lru>> /\ Arrive(r)
    BY <1>8 DEF Load
  <2> QED
    BY <1>4, <1>7, <2>1, <2>2, <2>3, <2>4
<1>9. CASE Hit(r)
  <2>1. "hit_user" \in Active
    BY DEF Active, Places, Ended
  <2>2. Kept(s) => Covered(e)
    BY <1>2, <1>7, <1>9 DEF Hit
  <2>3. Fits(Since(e), "hit_user")
    <3>1. Consistent(e, Turns)
      BY <1>0, OpenedConsistent
    <3>2. ToSet(e.turns) = {} /\ e.turns \in Seq(Turns)
      <4>1. ToSet(<<>>) = {}
        BY DEF ToSet
      <4> QED
        BY <1>9, <3>1, <4>1 DEF Hit, WindowOf, Opened, Fresh, Consistent, _Session
    <3>3. Len(e.turns) = 0
      <4>1. 1 \in 1 .. Len(e.turns) => e.turns[1] \in ToSet(e.turns)
        BY <3>2 DEF ToSet
      <4> QED
        BY <3>2, <4>1
    <3>4. e.turns_recorded = 0 /\ e.turns_summarised = 0
      BY <3>1, <3>3, MemoryAssumption DEF Consistent, _Session
    <3>5. Since(e) = 0
      BY <3>4 DEF Since
    <3> QED
      BY <3>5, NothingFits DEF Places, HalfWay
  <2>4. /\ pc' = [pc EXCEPT ![r] = "hit_user"] /\ UNCHANGED <<sessions, lru>> /\ Arrive(r)
        /\ OthersCarry(r)
    BY <1>9 DEF Hit, Goto, OthersCarry
  <2> QED
    BY <1>4, <1>7, <2>1, <2>2, <2>3, <2>4
<1>10. ASSUME NEW place \in Active \cup Ended, Goto(r, place), place # "summarise",
              NEW role \in {"user", "assistant"}, pc[r] \in Before(role), pc[r] \in Active,
              \/ pc[r] = "user" /\ place = "assistant"
              \/ pc[r] = "hit_user" /\ place = "hit_assistant"
              \/ pc[r] = "assistant" /\ place = "pending"
              \/ pc[r] = "hit_assistant" /\ place = "done",
              UNCHANGED disturbed, Write(s, append(s, <<r, role>>))
      PROVE  TurnsAreCovered'
  <2>0. PICK turn, value : turn = <<r, role>> /\ value = append(s, turn)
    OBVIOUS
  <2>1. /\ Written(s, value) /\ Consistent(e, Turns) /\ Consistent(value, Turns)
        /\ Appended(e, turn, value)
    BY <1>10, <2>0, AppendEffect
  <2>2. ASSUME Kept(s) PROVE Covered(value) /\ Fits(Since(value), place)
    <3>1. Covered(e) /\ Since(e) \in Nat /\ Fits(Since(e), pc[r])
      BY <1>2, <1>10, <2>2
    <3>2. Since(e) < short_term_turns
      BY <1>10, <3>1, FitsTheWindow DEF HalfWay
    <3>3. Covered(value) /\ Since(value) = Since(e) + 1
      BY <2>1, <3>1, <3>2, AppendCovers
    <3> QED
      BY <1>10, <3>1, <3>3, FitsOneMore
  <2>3. /\ pc' = [pc EXCEPT ![r] = place]
        /\ OthersCarry(r)
    BY <1>10 DEF Goto, OthersCarry
  <2> QED
    BY <1>5, <1>10, <2>1, <2>2, <2>3
<1>11. CASE AppendUser(r)
  <2>1. pc[r] \in Before("user") /\ pc[r] \in Active
    BY <1>11 DEF AppendUser, Before, Active, Places, Ended
  <2>2. "assistant" \in Active /\ "hit_assistant" \in Active
    BY DEF Active, Places, Ended
  <2>3. PICK place : /\ Goto(r, place)
                     /\ \/ pc[r] = "user" /\ place = "assistant"
                        \/ pc[r] = "hit_user" /\ place = "hit_assistant"
    BY <1>11 DEF AppendUser
  <2>5. place \in Active \cup Ended /\ place # "summarise"
    BY <2>2, <2>3
  <2>6. UNCHANGED disturbed /\ Write(s, append(s, <<r, "user">>))
    BY <1>11 DEF AppendUser
  <2> QED
    BY <1>10, <2>1, <2>3, <2>5, <2>6
<1>12. CASE AppendAssistant(r)
  <2>1. pc[r] \in Before("assistant") /\ pc[r] \in Active
    BY <1>12 DEF AppendAssistant, Before, Active, Places, Ended
  <2>2. "pending" \in Active /\ "done" \in Ended
    BY DEF Active, Places, Ended
  <2>3. PICK place : /\ Goto(r, place)
                     /\ \/ pc[r] = "assistant" /\ place = "pending"
                        \/ pc[r] = "hit_assistant" /\ place = "done"
    BY <1>12 DEF AppendAssistant
  <2>5. place \in Active \cup Ended /\ place # "summarise"
    BY <2>2, <2>3
  <2>6. UNCHANGED disturbed
    BY <1>12 DEF AppendAssistant
  <2>7. CASE Write(s, append(s, <<r, "assistant">>))
    BY <1>10, <2>1, <2>3, <2>5, <2>6, <2>7
  <2>8. CASE Failures /\ UNCHANGED <<sessions, lru>>
    <3>1. Kept(s) => Covered(e) /\ Fits(Since(e), place)
      <4>1. Kept(s) => ~Tight
        BY <1>18, <2>3, <2>8 DEF HalfWay
      <4> QED
        BY <1>2, <2>1, <2>3, <4>1, FitsStays
    <3>2. /\ pc' = [pc EXCEPT ![r] = place]
          /\ OthersCarry(r)
      BY <2>3 DEF Goto, OthersCarry
    <3> QED
      BY <1>1, <1>4, <2>1, <2>5, <2>6, <2>8, <3>1, <3>2
  <2> QED
    BY <1>12, <2>7, <2>8 DEF AppendAssistant
<1>13. CASE CheckPending(r)
  <2>0. pc[r] = "pending" /\ pc[r] \in Active /\ "extract" \in Active /\ "snapshot" \in Active
    BY <1>13 DEF CheckPending, Active, Places, Ended
  <2>1. /\ UNCHANGED <<sessions, lru, disturbed>>
        /\ OthersCarry(r)
    BY <1>13 DEF CheckPending, Goto, OthersCarry
  <2>2. sessions[s] # None => turns_since_summary(s) = Since(e)
    BY <1>3 DEF turns_since_summary, Since
  <2>3. CASE turns_since_summary(s) < summary_after_turns
    <3>1. pc' = [pc EXCEPT ![r] = "extract"]
      BY <1>13, <2>3 DEF CheckPending, Goto
    <3>2. Kept(s) => Covered(e) /\ Fits(Since(e), "extract")
      <4>1. Kept(s) => sessions[s] # None
        BY <2>1 DEF Kept
      <4> QED
        BY <1>2, <2>0, <2>2, <2>3, <4>1, FitsUnsummarised
    <3> QED
      BY <1>1, <1>4, <2>0, <2>1, <3>1, <3>2
  <2>4. CASE ~(turns_since_summary(s) < summary_after_turns)
    <3>1. pc' = [pc EXCEPT ![r] = "snapshot"]
      BY <1>13, <2>4 DEF CheckPending, Goto
    <3>2. Kept(s) => Covered(e) /\ Fits(Since(e), "snapshot")
      BY <1>2, <2>0, <2>1, FitsStays
    <3> QED
      BY <1>1, <1>4, <2>0, <2>1, <3>1, <3>2
  <2> QED
    BY <2>3, <2>4
<1>14. CASE TakeSnapshot(r)
  <2>0. pc[r] = "snapshot" /\ pc[r] \in Active /\ pc[r] \in Knowing /\ "summarise" \in Active
    BY <1>14 DEF TakeSnapshot, Active, Places, Ended, Knowing
  <2>1. /\ UNCHANGED <<sessions, lru, disturbed, memory>>
        /\ pc' = [pc EXCEPT ![r] = "summarise"]
        /\ transcript'[r] = WindowOf(s)
        /\ OthersCarry(r)
    BY <1>0, <1>14 DEF TakeSnapshot, RunTypes, OthersCarry
  <2>2. ASSUME Kept(s)
        PROVE  /\ Covered(e) /\ Fits(Since(e), "summarise")
               /\ e.said \subseteq memory'[r] \cup transcript'[r]
    <3>1. Covered(e) /\ Fits(Since(e), "summarise")
      BY <1>2, <2>0, <2>1, <2>2, FitsStays
    <3>0. sessions[s] # None /\ s \notin disturbed
      BY <2>1, <2>2 DEF Kept
    <3>2. e.summary \subseteq memory[r]
      BY <1>3, <2>0, <2>1, <3>0 DEF OneRunKnows, SummaryOf
    <3>3. \A i \in 1 .. Len(e.turns) : e.turns[i] \in WindowOf(s)
      <4>1. e.turns \in Seq(Turns)
        BY <1>0, OpenedConsistent DEF Consistent, _Session
      <4> QED
        BY <1>3, <3>0, <4>1 DEF WindowOf, ToSet
    <3> QED
      BY <2>1, <3>1, <3>2, <3>3 DEF Covered
  <2> QED
    BY <1>1, <1>4, <2>0, <2>1, <2>2
<1>15. CASE Summarise(r)
  <2>0. pc[r] = "summarise" /\ pc[r] \in Active /\ "extract" \in Active /\ "done" \in Ended
    BY <1>15 DEF Summarise, Active, Places, Ended
  <2>1. CASE /\ Goto(r, "extract") /\ UNCHANGED disturbed
             /\ Write(s, set_summary(s, memory[r] \cup transcript[r]))
    <3>0. PICK summary, value : /\ summary = memory[r] \cup transcript[r]
                                /\ value = set_summary(s, summary)
      OBVIOUS
    <3>1. Written(s, value) /\ Retold(e, summary, e.turns_recorded, {}, value)
      BY <2>1, <3>0, SummaryEffect
    <3>2. ASSUME Kept(s) PROVE Covered(value) /\ Fits(Since(value), "extract")
      <4>1. e.said \subseteq summary
        <5>1. CASE sessions[s] = None
          BY <5>1 DEF Opened, Fresh
        <5>2. CASE sessions[s] # None
          BY <1>0, <1>3, <1>18, <2>0, <3>0, <3>2, <5>2 DEF TurnsAreCovered
        <5> QED
          BY <5>1, <5>2
      <4>2. e.turns_recorded \in Nat
        BY <1>2, <2>0, <3>2
      <4>3. Since(value) = 0
        BY <3>1, <4>2 DEF Retold, Since
      <4>4. Covered(value)
        BY <3>1, <4>1 DEF Retold, Covered
      <4> QED
        BY <4>3, <4>4, NothingFits DEF Places, HalfWay
    <3>3. /\ pc' = [pc EXCEPT ![r] = "extract"]
          /\ OthersCarry(r)
      BY <2>1 DEF Goto, OthersCarry
    <3> QED
      BY <1>5, <2>0, <2>1, <3>1, <3>2, <3>3
  <2>2. CASE UNCHANGED <<sessions, lru>> /\ Disturb(r) /\ Goto(r, "extract")
    <3>1. /\ pc' = [pc EXCEPT ![r] = "extract"]
          /\ OthersCarry(r)
          /\ disturbed \subseteq disturbed' /\ s \in disturbed'
      BY <2>2 DEF Goto, Disturb, OthersCarry
    <3> QED
      BY <1>4, <2>0, <2>2, <3>1 DEF AloneIn, Kept
  <2>3. CASE UNCHANGED <<sessions, lru>> /\ Disturb(r) /\ Leave(r, "done")
    <3>1. disturbed \subseteq disturbed' /\ s \in disturbed' /\ pc' = [pc EXCEPT ![r] = "done"]
      BY <2>3 DEF Leave, Disturb
    <3> QED
      BY <1>4, <1>6, <2>0, <2>3, <3>1 DEF AloneIn, Kept
  <2> QED
    BY <1>15, <2>1, <2>2, <2>3 DEF Summarise
<1>16. CASE Extract(r)
  <2>0. pc[r] = "extract" /\ pc[r] \in Active /\ "done" \in Active \cup Ended
    BY <1>16 DEF Extract, Active, Places, Ended
  <2>1. UNCHANGED disturbed /\ Leave(r, "done") /\ pc' = [pc EXCEPT ![r] = "done"]
    BY <1>16 DEF Extract, Leave
  <2>2. Kept(s) => Covered(e) /\ Fits(Since(e), "done")
    BY <1>2, <2>0, FitsStays
  <2>3. CASE Write(s, merge_user_context(s, r))
    <3>0. PICK value : value = merge_user_context(s, r)
      OBVIOUS
    <3>1. Written(s, value) /\ Retold(e, e.summary, e.turns_summarised, {<<r, "fact">>}, value)
      BY <2>3, <3>0, ExtractEffect
    <3>2. Kept(s) => Covered(value) /\ Fits(Since(value), "done")
      BY <2>2, <3>1 DEF Retold, Covered, Since
    <3> QED
      BY <1>5, <1>6, <2>0, <2>1, <3>1, <3>2
  <2>4. CASE UNCHANGED <<sessions, lru>>
    BY <1>1, <1>4, <1>6, <2>0, <2>1, <2>2, <2>4
  <2> QED
    BY <1>16, <2>3, <2>4 DEF Extract
<1>17. CASE Cancel(r)
  <2>1. /\ disturbed \subseteq disturbed' /\ s \in disturbed' /\ UNCHANGED <<sessions, lru>>
        /\ Leave(r, "cancelled") /\ pc' = [pc EXCEPT ![r] = "cancelled"] /\ "cancelled" \in Ended
    BY <1>17 DEF Cancel, Disturb, Leave, Ended
  <2> QED
    BY <1>4, <1>6, <2>1 DEF AloneIn, Kept
<1> QED
  BY <1>8, <1>9, <1>11, <1>12, <1>13, <1>14, <1>15, <1>16, <1>17

LEMMA CoveredResetStep ==
    ASSUME MemoryInv, TurnsAreCovered, NEW s \in Sessions, reset_memory(s)
    PROVE  TurnsAreCovered'
<1>1. /\ disturbed' = disturbed \cup {s}
      /\ \A t \in Sessions \ {s} : sessions'[t] = sessions[t]
      /\ UNCHANGED <<pc, session, memory, transcript>>
  BY DEF reset_memory, MemoryInv, StoreTypes
<1>2. \A t : AtRest(t)' = AtRest(t)
  BY <1>1 DEF AtRest, UnderWay
<1>4. ASSUME NEW t \in Sessions \ disturbed', WholeNow(t)' PROVE WholeNow(t)
  BY <1>1, <1>4 DEF WholeNow, InWholeExchanges
<1>3. ASSUME NEW t \in Sessions \ disturbed', sessions'[t] # None, WholeNow(t)'
      PROVE  /\ Covered(sessions'[t])
             /\ \A q \in Runs : session[q] = t =>
                   /\ pc[q] \in Active \/ AtRest(t) => Fits(Since(sessions'[t]), pc[q])
                   /\ pc[q] = "summarise" => sessions'[t].said \subseteq memory[q] \cup transcript[q]
  BY <1>1, <1>3, <1>4 DEF TurnsAreCovered
<1> QED
  BY <1>1, <1>2, <1>3 DEF TurnsAreCovered

KeptTurns == Keepable => TurnsAreCovered

(* No turn of an undisturbed session leaves the window before a summary    *)
(* tells of it, whatever the settings for which NoTurnIsLost says so.      *)
THEOREM NoTurnIsLostHolds == Spec => []NoTurnIsLost
<1>1. Init => KeptTurns
  BY DEF Init, KeptTurns, TurnsAreCovered
<1>2. MemoryInv /\ OneRunKnows /\ HalfSaid /\ KeptTurns /\ [Next]_vars => KeptTurns'
  <2> SUFFICES ASSUME MemoryInv, OneRunKnows, HalfSaid, TurnsAreCovered, Keepable, [Next]_vars
               PROVE  TurnsAreCovered'
    BY DEF KeptTurns, Keepable, Tight
  <2>1. CASE UNCHANGED vars
    <3>1. \A t : AtRest(t)' = AtRest(t)
      BY <2>1 DEF vars, AtRest, UnderWay
    <3>2. \A t : WholeNow(t)' = WholeNow(t)
      BY <2>1 DEF vars, WholeNow, InWholeExchanges
    <3> QED
      BY <2>1, <3>1, <3>2 DEF vars, TurnsAreCovered
  <2>2. OneRunKnows'
    BY KnowsNext
  <2> QED
    BY <2>1, <2>2, CoveredRunStep, CoveredResetStep DEF Next
<1>3. MemoryInv /\ KeptTurns => NoTurnIsLost
  <2> SUFFICES ASSUME MemoryInv, KeptTurns,
                      NEW s \in Sessions \ disturbed, sessions[s] # None, KeepsUp(s),
                      NEW turn \in sessions[s].said
               PROVE  turn \in WindowOf(s) \/ turn \in SummaryOf(s)
    BY DEF NoTurnIsLost
  <2>1. sessions[s].turns \in Seq(Turns)
    BY DEF MemoryInv, SessionsFollow, Consistent, _Session
  <2>2. \A i \in 1 .. Len(sessions[s].turns) : sessions[s].turns[i] \in WindowOf(s)
    BY <2>1 DEF WindowOf, ToSet
  <2>3. Keepable /\ WholeNow(s)
    BY MemoryAssumption DEF KeepsUp, Keepable, Tight, WholeNow
  <2> QED
    BY <2>2, <2>3 DEF KeptTurns, TurnsAreCovered, Covered, SummaryOf
<1>4. MemoryInv /\ OneRunKnows /\ [Next]_vars => OneRunKnows'
  BY KnowsNext
<1>5. Init => HalfSaid
  BY DEF Init, HalfSaid, HalfWay
<1>6. MemoryInv /\ OneRunKnows /\ HalfSaid /\ [Next]_vars => HalfSaid'
  BY HalfSaidNext
<1> QED
  BY <1>1, <1>2, <1>3, <1>4, <1>5, <1>6, KnowsInit, MemoryInit, MemoryNext, PTL DEF Spec
=============================================================================
