------------------------ MODULE ManagedBackendProofs ------------------------
(***************************************************************************)
(* Proofs about ManagedBackend, for any number of tasks and answers, any   *)
(* limits and lifetimes: the backend implements LossyStore, the counter is *)
(* not evicted while fewer tasks run than entries fit, and the index of    *)
(* Redis is whole and bounded.                                             *)
(*                                                                         *)
(* BackendInv has the types, and one entry per key in the table.  The      *)
(* counter is safe because every entry used since has a task of its own    *)
(* that used it and has not read the version again (CounterInv); the index *)
(* because whatever exceeds its bound is accounted for by an add not yet   *)
(* counted, a count or a range that is still to be acted upon (TrimInv).   *)
(***************************************************************************)
EXTENDS ManagedBackend, FiniteSetTheorems, SequenceTheorems, TLAPS

-----------------------------------------------------------------------------
(* Sequences *)

(* A sequence without its i-th element. *)
LEMMA RemoveFacts ==
    ASSUME NEW S, NEW q \in Seq(S), NEW i \in 1 .. Len(q)
    PROVE  /\ RemoveAt(q, i) \in Seq(S)
           /\ Len(RemoveAt(q, i)) = Len(q) - 1
           /\ \A k \in 1 .. Len(q) - 1 : RemoveAt(q, i)[k] = IF k < i THEN q[k] ELSE q[k + 1]
<1> DEFINE front == SubSeq(q, 1, i - 1)  back == SubSeq(q, i + 1, Len(q))
<1>0. Len(q) \in Nat /\ i \in Nat /\ \A k \in 1 .. Len(q) : q[k] \in S
  OBVIOUS
<1>1. /\ front \in Seq(S) /\ Len(front) = i - 1
      /\ \A k \in 1 .. i - 1 : front[k] = q[k]
  BY <1>0, SubSeqProperties
<1>2. /\ back \in Seq(S) /\ Len(back) = Len(q) - i
      /\ \A k \in 1 .. Len(q) - i : back[k] = q[i + k]
  BY <1>0, SubSeqProperties
<1> HIDE DEF front, back
<1>3. /\ front \o back \in Seq(S)
      /\ Len(front \o back) = Len(front) + Len(back)
      /\ \A k \in 1 .. Len(front) + Len(back) :
            (front \o back)[k] = IF k <= Len(front) THEN front[k] ELSE back[k - Len(front)]
  BY <1>1, <1>2, ConcatProperties
<1>4. Len(front) + Len(back) = Len(q) - 1
  BY <1>0, <1>1, <1>2
<1>5. ASSUME NEW k \in 1 .. Len(q) - 1
      PROVE (front \o back)[k] = IF k < i THEN q[k] ELSE q[k + 1]
  <2>1. CASE k < i
    BY <1>0, <1>1, <1>3, <1>4, <2>1
  <2>2. CASE ~(k < i)
    <3>1. k - Len(front) \in 1 .. Len(q) - i /\ i + (k - Len(front)) = k + 1 /\ ~(k <= Len(front))
      BY <1>0, <1>1, <2>2
    <3> QED
      BY <1>2, <1>3, <1>4, <2>2, <3>1
  <2> QED
    BY <2>1, <2>2
<1> QED
  BY <1>3, <1>4, <1>5 DEF RemoveAt, front, back

(* A sequence of at most one element too many, without the oldest. *)
LEMMA NewestFacts ==
    ASSUME NEW S, NEW q \in Seq(S), NEW n \in Nat \ {0}, Len(q) <= n + 1
    PROVE  /\ Newest(q, n) \in Seq(S)
           /\ Len(Newest(q, n)) <= n
           /\ Len(q) <= n => Newest(q, n) = q
           /\ Len(q) = n + 1 =>
                /\ Len(Newest(q, n)) = n
                /\ \A m \in 1 .. n : Newest(q, n)[m] = q[m + 1]
<1>0. Len(q) \in Nat /\ n \in Nat /\ \A k \in 1 .. Len(q) : q[k] \in S
  OBVIOUS
<1>1. CASE Len(q) <= n
  BY <1>0, <1>1 DEF Newest
<1>2. CASE Len(q) = n + 1
  <2>1. Len(q) > n /\ Len(q) - n + 1 = 2 /\ 2 \in Int /\ Len(q) \in Int
    BY <1>0, <1>2
  <2>2. Newest(q, n) = SubSeq(q, 2, Len(q))
    BY <2>1 DEF Newest
  <2>3. \A k \in 2 .. Len(q) : q[k] \in S
    BY <1>0
  <2>4. /\ SubSeq(q, 2, Len(q)) \in Seq(S)
        /\ Len(SubSeq(q, 2, Len(q))) = IF 2 <= Len(q) THEN Len(q) - 2 + 1 ELSE 0
        /\ \A i \in 1 .. Len(q) - 2 + 1 : SubSeq(q, 2, Len(q))[i] = q[2 + i - 1]
    BY <2>1, <2>3, SubSeqProperties
  <2>5. Len(Newest(q, n)) = n
    BY <1>0, <1>2, <2>2, <2>4
  <2>6. ASSUME NEW m \in 1 .. n PROVE Newest(q, n)[m] = q[m + 1]
    BY <1>0, <1>2, <2>2, <2>4
  <2> QED
    BY <1>0, <1>2, <2>2, <2>4, <2>5, <2>6
<1> QED
  BY <1>0, <1>1, <1>2

-----------------------------------------------------------------------------
(* The table of the in-memory backend *)

(* One entry per key. *)
Table(t) ==
    /\ t \in Seq(Entries)
    /\ \A i, j \in 1 .. Len(t) : t[i].key = t[j].key => i = j

(* u is t without its entry for k, if it has one. *)
Thinner(t, u, k) ==
    /\ Table(u)
    /\ u = t \/ Len(u) = Len(t) - 1
    /\ \A m \in 1 .. Len(u) : u[m].key # k /\ \E i \in 1 .. Len(t) : u[m] = t[i]
    /\ \A i \in 1 .. Len(t) : t[i].key # k => \E m \in 1 .. Len(u) : u[m] = t[i]
    /\ \A m, n \in 1 .. Len(u) : m < n =>
          \E i, j \in 1 .. Len(t) : i < j /\ u[m] = t[i] /\ u[n] = t[j]

LEMMA WithoutFacts ==
    ASSUME Table(entries), NEW k
    PROVE  /\ Thinner(entries, Without(k), k)
           /\ Holds(k) => /\ Place(k) \in 1 .. Len(entries)
                          /\ entries[Place(k)] \in Entries /\ entries[Place(k)].key = k
                          /\ Len(Without(k)) = Len(entries) - 1
<1>1. entries \in Seq(Entries) /\ Len(entries) \in Nat /\ DOMAIN entries = 1 .. Len(entries)
  BY DEF Table
<1>2. CASE ~Holds(k)
  <2>1. Without(k) = entries /\ \A m \in 1 .. Len(entries) : entries[m].key # k
    BY <1>1, <1>2 DEF Holds, Without
  <2> QED
    BY <1>2, <2>1 DEF Thinner
<1>3. CASE Holds(k)
  <2>1. PICK i \in 1 .. Len(entries) : i = Place(k) /\ entries[i].key = k
    BY <1>1, <1>3 DEF Holds, Place
  <2>2. PICK t : t = RemoveAt(entries, i)
    OBVIOUS
  <2>3. /\ t \in Seq(Entries) /\ Len(t) = Len(entries) - 1
        /\ \A m \in 1 .. Len(entries) - 1 : t[m] = IF m < i THEN entries[m] ELSE entries[m + 1]
    BY <1>1, <2>2, RemoveFacts
  <2>4. ASSUME NEW m \in 1 .. Len(t)
        PROVE  \E l \in 1 .. Len(entries) :
                  l # i /\ t[m] = entries[l] /\ l = IF m < i THEN m ELSE m + 1
    BY <1>1, <2>3
  <2>5. \A m \in 1 .. Len(t) : t[m].key # k /\ \E l \in 1 .. Len(entries) : t[m] = entries[l]
    BY <2>1, <2>4 DEF Table
  <2>6. ASSUME NEW m \in 1 .. Len(t), NEW n \in 1 .. Len(t)
        PROVE  /\ t[m].key = t[n].key => m = n
               /\ m < n => \E x, y \in 1 .. Len(entries) :
                              x < y /\ t[m] = entries[x] /\ t[n] = entries[y]
    <3>1. PICK x \in 1 .. Len(entries) : t[m] = entries[x] /\ x = IF m < i THEN m ELSE m + 1
      BY <2>4
    <3>2. PICK y \in 1 .. Len(entries) : t[n] = entries[y] /\ y = IF n < i THEN n ELSE n + 1
      BY <2>4
    <3>3. t[m].key = t[n].key => x = y
      BY <3>1, <3>2 DEF Table
    <3>4. m < n => x < y
      BY <1>1, <2>3, <3>1, <3>2
    <3> QED
      BY <1>1, <2>3, <3>1, <3>2, <3>3, <3>4
  <2>7. ASSUME NEW l \in 1 .. Len(entries), entries[l].key # k
        PROVE  \E m \in 1 .. Len(t) : t[m] = entries[l]
    <3>1. l # i
      BY <2>1, <2>7
    <3>2. CASE l < i
      <4>1. l \in 1 .. Len(entries) - 1 /\ l \in 1 .. Len(t)
        BY <1>1, <2>3, <3>2
      <4> QED
        BY <2>3, <3>2, <4>1
    <3>3. CASE i < l
      <4>1. l - 1 \in 1 .. Len(entries) - 1 /\ ~(l - 1 < i) /\ (l - 1) + 1 = l /\ l - 1 \in 1 .. Len(t)
        BY <1>1, <2>3, <3>3
      <4> QED
        BY <2>3, <4>1
    <3> QED
      BY <1>1, <3>1, <3>2, <3>3
  <2>8. Table(t)
    BY <2>3, <2>6 DEF Table
  <2>9. Thinner(entries, t, k)
    BY <2>3, <2>5, <2>6, <2>7, <2>8 DEF Thinner
  <2>10. Without(k) = t /\ entries[Place(k)] = entries[i] /\ entries[i] \in Entries
    BY <1>1, <1>3, <2>1, <2>2 DEF Without
  <2> QED
    BY <2>1, <2>3, <2>9, <2>10
<1> QED
  BY <1>2, <1>3

(* w is t with e as its latest entry, in place of another for its key, and *)
(* without its oldest where t was full.                                    *)
Filed(t, w, e) ==
    /\ Table(w) /\ Len(w) <= max_entries
    /\ Len(w) \in Nat \ {0} /\ w[Len(w)] = e
    /\ \A m \in 1 .. Len(w) : w[m] = e \/ (w[m].key # e.key /\ \E i \in 1 .. Len(t) : w[m] = t[i])
    /\ \A m, n \in 1 .. Len(w) : m < n =>
          w[n] = e \/ \E i, j \in 1 .. Len(t) : i < j /\ w[m] = t[i] /\ w[n] = t[j]
    /\ \A i \in 1 .. Len(t) : t[i].key # e.key =>
          (\E m \in 1 .. Len(w) : w[m] = t[i]) \/ (i = 1 /\ Len(t) = max_entries)

(* The entry goes to the end of what is left without its key ... *)
Renewed(t, w, e) ==
    /\ Table(w)
    /\ Len(w) <= Len(t) + 1
    /\ Len(w) = Len(t) + 1 => \A m \in 1 .. Len(t) : w[m] = t[m]
    /\ Len(w) \in Nat \ {0} /\ w[Len(w)] = e
    /\ \A m \in 1 .. Len(w) : w[m] = e \/ (w[m].key # e.key /\ \E i \in 1 .. Len(t) : w[m] = t[i])
    /\ \A m, n \in 1 .. Len(w) : m < n =>
          w[n] = e \/ \E i, j \in 1 .. Len(t) : i < j /\ w[m] = t[i] /\ w[n] = t[j]
    /\ \A i \in 1 .. Len(t) : t[i].key # e.key => \E m \in 1 .. Len(w) : w[m] = t[i]

LEMMA AppendFacts ==
    ASSUME NEW t, Table(t), NEW e \in Entries, NEW u, Thinner(t, u, e.key)
    PROVE  Renewed(t, Append(u, e), e)
<1>1. /\ t \in Seq(Entries) /\ Len(t) \in Nat /\ u \in Seq(Entries) /\ Len(u) \in Nat
      /\ u = t \/ Len(u) = Len(t) - 1
  BY DEF Table, Thinner
<1>2. PICK w : w = Append(u, e)
  OBVIOUS
<1>3. /\ w \in Seq(Entries) /\ Len(w) = Len(u) + 1
      /\ \A m \in 1 .. Len(u) : w[m] = u[m]
      /\ w[Len(u) + 1] = e
  BY <1>1, <1>2
<1>4. \A m \in 1 .. Len(w) : (m = Len(w) /\ w[m] = e) \/ (m \in 1 .. Len(u) /\ w[m] = u[m])
  BY <1>1, <1>3
<1>5. \A m \in 1 .. Len(u) : u[m].key # e.key /\ \E i \in 1 .. Len(t) : u[m] = t[i]
  BY DEF Thinner
<1>6. ASSUME NEW m \in 1 .. Len(w)
      PROVE  w[m] = e \/ (w[m].key # e.key /\ \E i \in 1 .. Len(t) : w[m] = t[i])
  BY <1>4, <1>5
<1>7. ASSUME NEW m \in 1 .. Len(w), NEW n \in 1 .. Len(w), m < n
      PROVE  w[n] = e \/ \E i, j \in 1 .. Len(t) : i < j /\ w[m] = t[i] /\ w[n] = t[j]
  <2>1. CASE n = Len(w)
    BY <1>3, <2>1
  <2>2. CASE n # Len(w)
    <3>1. m \in 1 .. Len(u) /\ n \in 1 .. Len(u) /\ w[m] = u[m] /\ w[n] = u[n]
      BY <1>1, <1>3, <1>7, <2>2
    <3> QED
      BY <1>7, <3>1 DEF Thinner
  <2> QED
    BY <2>1, <2>2
<1>8. ASSUME NEW i \in 1 .. Len(t), t[i].key # e.key PROVE \E m \in 1 .. Len(w) : w[m] = t[i]
  <2>1. PICK m \in 1 .. Len(u) : u[m] = t[i]
    BY <1>8 DEF Thinner
  <2>2. m \in 1 .. Len(w) /\ w[m] = t[i]
    BY <1>1, <1>3, <2>1
  <2> QED
    BY <2>2
<1>9. ASSUME NEW m \in 1 .. Len(w), NEW n \in 1 .. Len(w), w[m].key = w[n].key
      PROVE  m = n
  <2>1. \A x, y \in 1 .. Len(u) : u[x].key = u[y].key => x = y
    BY DEF Thinner, Table
  <2>2. CASE w[m] = e /\ m = Len(w)
    BY <1>4, <1>5, <1>9, <2>2
  <2>3. CASE w[n] = e /\ n = Len(w)
    BY <1>4, <1>5, <1>9, <2>3
  <2> QED
    BY <1>4, <1>9, <2>1, <2>2, <2>3
<1>10. Table(w)
  BY <1>3, <1>9 DEF Table
<1>11. Len(w) <= Len(t) + 1 /\ Len(w) \in Nat \ {0} /\ w[Len(w)] = e
  BY <1>1, <1>3
<1>12. Len(w) = Len(t) + 1 => \A m \in 1 .. Len(t) : w[m] = t[m]
  BY <1>1, <1>3
<1> QED
  BY <1>2, <1>6, <1>7, <1>8, <1>10, <1>11, <1>12 DEF Renewed

(* ... and the oldest goes where that is one too many. *)
LEMMA FiledFacts ==
    ASSUME NEW t, Table(t), Len(t) <= max_entries, NEW e \in Entries, NEW w, Renewed(t, w, e)
    PROVE  Filed(t, Newest(w, max_entries), e)
<1>1. /\ t \in Seq(Entries) /\ Len(t) \in Nat /\ w \in Seq(Entries) /\ Len(w) \in Nat \ {0}
      /\ Len(w) <= max_entries + 1 /\ max_entries \in Nat \ {0}
      /\ w[Len(w)] = e
  BY BackendAssumption DEF Table, Renewed
<1>2. PICK x : x = Newest(w, max_entries)
  OBVIOUS
<1>3. /\ x \in Seq(Entries)
      /\ Len(x) <= max_entries
      /\ Len(w) <= max_entries => x = w
      /\ Len(w) = max_entries + 1 =>
           /\ Len(x) = max_entries
           /\ \A m \in 1 .. max_entries : x[m] = w[m + 1]
  BY <1>1, <1>2, NewestFacts
<1>4. CASE Len(w) <= max_entries
  BY <1>1, <1>2, <1>3, <1>4 DEF Renewed, Filed
<1>5. CASE Len(w) = max_entries + 1
  <2>1. /\ Len(t) = max_entries /\ Len(x) = max_entries
        /\ \A m \in 1 .. Len(t) : w[m] = t[m]
    BY <1>1, <1>3, <1>5 DEF Renewed
  <2>2. \A m \in 1 .. Len(x) : m + 1 \in 1 .. Len(w) /\ x[m] = w[m + 1]
    BY <1>1, <1>3, <1>5
  <2>3. Table(x)
    <3>1. ASSUME NEW m \in 1 .. Len(x), NEW n \in 1 .. Len(x), x[m].key = x[n].key PROVE m = n
      <4>1. \A i, j \in 1 .. Len(w) : w[i].key = w[j].key => i = j
        BY DEF Renewed, Table
      <4>2. m + 1 \in 1 .. Len(w) /\ n + 1 \in 1 .. Len(w) /\ w[m + 1].key = w[n + 1].key
        BY <2>2, <3>1
      <4>3. m + 1 = n + 1
        BY <4>1, <4>2
      <4> QED
        BY <4>3
    <3> QED
      BY <1>3, <3>1 DEF Table
  <2>4. Len(x) \in Nat \ {0} /\ x[Len(x)] = e
    BY <1>1, <1>5, <2>1, <2>2
  <2>5. \A m \in 1 .. Len(x) :
           x[m] = e \/ (x[m].key # e.key /\ \E i \in 1 .. Len(t) : x[m] = t[i])
    BY <2>2 DEF Renewed
  <2>6. ASSUME NEW m \in 1 .. Len(x), NEW n \in 1 .. Len(x), m < n
        PROVE  x[n] = e \/ \E i, j \in 1 .. Len(t) : i < j /\ x[m] = t[i] /\ x[n] = t[j]
    <3>1. m + 1 \in 1 .. Len(w) /\ n + 1 \in 1 .. Len(w) /\ m + 1 < n + 1
      BY <2>2, <2>6
    <3> QED
      BY <2>2, <3>1 DEF Renewed
  <2>7. ASSUME NEW i \in 1 .. Len(t)
        PROVE  (\E m \in 1 .. Len(x) : x[m] = t[i]) \/ i = 1
    <3>1. CASE i # 1
      <4>1. i - 1 \in 1 .. Len(x) /\ (i - 1) + 1 = i
        BY <1>1, <2>1, <3>1
      <4>2. x[i - 1] = t[i]
        BY <2>1, <2>2, <4>1
      <4> QED
        BY <4>1, <4>2
    <3> QED
      BY <3>1
  <2> QED
    BY <1>2, <1>3, <2>1, <2>3, <2>4, <2>5, <2>6, <2>7 DEF Filed
<1> QED
  BY <1>1, <1>4, <1>5

(* What get and set make of the table. *)
LEMMA GetFacts ==
    ASSUME Table(entries), Len(entries) <= max_entries, NEW k
    PROVE  /\ Usable(k) => /\ entries[Place(k)] \in Entries /\ entries[Place(k)].key = k
                           /\ Place(k) \in 1 .. Len(entries)
                           /\ Filed(entries, AfterGet(k), entries[Place(k)])
                           /\ Renewed(entries, AfterGet(k), entries[Place(k)])
           /\ ~Usable(k) => AfterGet(k) = Without(k)
<1>1. /\ Thinner(entries, Without(k), k)
      /\ Holds(k) => /\ Place(k) \in 1 .. Len(entries)
                     /\ entries[Place(k)] \in Entries /\ entries[Place(k)].key = k
                     /\ Len(Without(k)) = Len(entries) - 1
  BY WithoutFacts
<1>2. CASE Usable(k)
  <2>1. PICK e \in Entries : e = entries[Place(k)]
    BY <1>1, <1>2 DEF Usable
  <2>2. PICK w : w = AfterGet(k)
    OBVIOUS
  <2>3. /\ e.key = k /\ Place(k) \in 1 .. Len(entries) /\ Len(Without(k)) = Len(entries) - 1
        /\ w = Append(Without(k), e)
    BY <1>1, <1>2, <2>1, <2>2 DEF Usable, AfterGet
  <2>4. Renewed(entries, w, e)
    BY <1>1, <2>3, AppendFacts
  <2>5. Without(k) \in Seq(Entries) /\ Len(entries) \in Nat
    BY <1>1 DEF Thinner, Table
  <2>6. Len(w) <= max_entries
    BY <2>3, <2>5
  <2>7. Filed(entries, w, e)
    BY <2>4, <2>6 DEF Renewed, Filed
  <2> QED
    BY <1>2, <2>1, <2>2, <2>3, <2>4, <2>7
<1>3. CASE ~Usable(k)
  BY <1>3 DEF AfterGet
<1> QED
  BY <1>2, <1>3

LEMMA SetFacts ==
    ASSUME Table(entries), Len(entries) <= max_entries, now \in Nat,
           NEW k \in Keys, NEW v \in Values
    PROVE  \E e \in Entries :
              /\ e.key = k /\ e.value = v /\ Live(e.expires_at)
              /\ Filed(entries, AfterSet(k, v), e)
<1>1. PICK e : e = [key |-> k, value |-> v, expires_at |-> Expiry(k)]
  OBVIOUS
<1>2. Expiry(k) \in Nat /\ Live(Expiry(k))
  BY BackendAssumption DEF Expiry, Never, Live
<1>3. e \in Entries /\ e.key = k /\ e.value = v /\ Live(e.expires_at)
  BY <1>1, <1>2 DEF Entries
<1>4. Thinner(entries, Without(e.key), e.key)
  BY WithoutFacts
<1>5. Renewed(entries, Append(Without(e.key), e), e)
  BY <1>3, <1>4, AppendFacts
<1>6. Filed(entries, Newest(Append(Without(e.key), e), max_entries), e)
  BY <1>3, <1>5, FiledFacts
<1> QED
  BY <1>1, <1>3, <1>6 DEF AfterSet

-----------------------------------------------------------------------------
(* Types *)

Places == {"idle", "resolved", "got", "index_add", "zcard", "zrange", "trim"}
TaskStates == [pc : Places, key : Answers \cup {None}, excess : Nat, stale : SUBSET Answers]
Replies == (Keys \cup {None}) \X (Values \cup {None})

(* The in-memory backend, which is empty unless it is in use. *)
MemoryTyped ==
    /\ using \in {"memory", "redis", None}
    /\ now \in Nat
    /\ Table(entries) /\ Len(entries) <= max_entries
    /\ index \in Seq(Answers) /\ Len(index) <= index_max_entries
    /\ using # "memory" => entries = <<>> /\ index = <<>>

(* The keys of Redis, likewise. *)
KeysTyped ==
    /\ db \in [Keys -> Strings \cup {None}]
    /\ using # "redis" => \A k \in Keys : db[k] = None

(* The hash and the sorted set hold the same vectors and expire together.  *)
IndexTyped ==
    /\ hash = [of |-> Vectors, expires_at |-> hash.expires_at]
    /\ order = [of |-> Added, expires_at |-> order.expires_at]
    /\ Vectors \subseteq Answers /\ DOMAIN Added = Vectors
    /\ Added \in [Vectors -> Nat]
    /\ hash.expires_at \in Nat /\ order.expires_at = hash.expires_at

(* The tasks, and a key where one is needed. *)
TasksTyped ==
    /\ task \in [Tasks -> TaskStates]
    /\ reply \in [Tasks -> Replies]
    /\ \A t \in Tasks : task[t].pc \in {"got", "index_add"} => task[t].key \in Answers

BackendInv == MemoryTyped /\ KeysTyped /\ IndexTyped /\ TasksTyped

LEMMA EmptyTable == Table(<<>>) /\ Len(<<>>) <= max_entries /\ Len(<<>>) <= index_max_entries
BY BackendAssumption DEF Table

LEMMA FitsWithoutFacts ==
    ASSUME MemoryTyped, NEW k PROVE Table(Without(k)) /\ Len(Without(k)) <= max_entries
<1>1. Len(entries) \in Nat /\ max_entries \in Nat
  BY BackendAssumption DEF MemoryTyped, Table
<1>2. Thinner(entries, Without(k), k)
  BY WithoutFacts DEF MemoryTyped
<1>3. Table(Without(k)) /\ (Without(k) = entries \/ Len(Without(k)) = Len(entries) - 1)
  BY <1>2 DEF Thinner
<1> QED
  BY <1>1, <1>3 DEF MemoryTyped

LEMMA FitsGetFacts ==
    ASSUME MemoryTyped, NEW k PROVE Table(AfterGet(k)) /\ Len(AfterGet(k)) <= max_entries
BY GetFacts, FitsWithoutFacts DEF MemoryTyped, Filed

LEMMA FitsSetFacts ==
    ASSUME MemoryTyped, NEW k \in Keys, NEW v \in Values
    PROVE  Table(AfterSet(k, v)) /\ Len(AfterSet(k, v)) <= max_entries
BY SetFacts DEF MemoryTyped, Filed

LEMMA IndexFacts ==
    ASSUME MemoryTyped, NEW k \in Answers
    PROVE  /\ IndexWithout(k) \in Seq(Answers) /\ Len(IndexWithout(k)) <= index_max_entries
           /\ AfterIndexAdd(k) \in Seq(Answers) /\ Len(AfterIndexAdd(k)) <= index_max_entries
<1>1. /\ index \in Seq(Answers) /\ Len(index) \in Nat /\ Len(index) <= index_max_entries
      /\ index_max_entries \in Nat \ {0}
  BY BackendAssumption DEF MemoryTyped
<1>2. IndexWithout(k) \in Seq(Answers) /\ Len(IndexWithout(k)) <= index_max_entries
  <2>1. CASE k \in ToSet(index)
    <3>1. \E i \in 1 .. Len(index) : index[i] = k
      BY <1>1, <2>1 DEF ToSet
    <3>2. PICK i \in 1 .. Len(index) : i = CHOOSE j \in DOMAIN index : index[j] = k
      BY <1>1, <3>1
    <3>3. IndexWithout(k) = RemoveAt(index, i)
      BY <2>1, <3>2 DEF IndexWithout
    <3> QED
      BY <1>1, <3>3, RemoveFacts
  <2>2. CASE k \notin ToSet(index)
    BY <1>1, <2>2 DEF IndexWithout
  <2> QED
    BY <2>1, <2>2
<1>3. PICK q : q = Append(IndexWithout(k), k)
  OBVIOUS
<1>4. q \in Seq(Answers) /\ Len(q) <= index_max_entries + 1
  BY <1>1, <1>2, <1>3
<1>5. AfterIndexAdd(k) = Newest(q, index_max_entries)
  BY <1>3 DEF AfterIndexAdd
<1> QED
  BY <1>1, <1>2, <1>4, <1>5, NewestFacts

LEMMA MemoryStep == BackendInv /\ [Next]_vars => MemoryTyped'
<1> SUFFICES ASSUME BackendInv, [Next]_vars PROVE MemoryTyped'
  OBVIOUS
<1> USE DEF BackendInv
<1>0. MemoryTyped /\ \A t \in Tasks : task[t].pc \in {"got", "index_add"} => task[t].key \in Answers
  BY DEF TasksTyped
<1>1. /\ Counter \in Keys /\ Answers \subseteq Keys /\ "memory" # None /\ "redis" # "memory"
      /\ \A b \in Backends : b \in {"memory", "redis"}
  BY BackendAssumption DEF Counter, Keys, MemoryTyped
<1>2. ASSUME NEW t, NEW k, GetBy(t, k) PROVE MemoryTyped'
  BY <1>0, <1>2, FitsGetFacts DEF GetBy, MemoryTyped
<1>3. ASSUME NEW t, NEW k \in Keys, NEW v \in Values, SetBy(t, k, v) PROVE MemoryTyped'
  BY <1>0, <1>3, FitsSetFacts DEF SetBy, MemoryTyped, memory
<1>4. CASE start
  BY <1>0, <1>1, <1>4 DEF start, MemoryTyped, memory
<1>5. ASSUME NEW t \in Tasks, resolve(t) \/ bump(t) \/ get(t) \/ set(t) PROVE MemoryTyped'
  BY <1>1, <1>2, <1>3, <1>5 DEF resolve, bump, get, set
<1>6. ASSUME NEW t \in Tasks, finish(t) \/ zcard(t) \/ zrange(t) \/ trim(t) \/ _call_fails(t)
      PROVE  MemoryTyped'
  BY <1>0, <1>6 DEF finish, zcard, zrange, trim, _call_fails, MemoryTyped, memory
<1>7. ASSUME NEW t \in Tasks, delete(t) PROVE MemoryTyped'
  BY <1>0, <1>7, FitsWithoutFacts DEF delete, MemoryTyped, memory
<1>8. ASSUME NEW t \in Tasks, index_remove(t) PROVE MemoryTyped'
  <2>1. task[t].key \in Answers
    BY <1>0, <1>8 DEF index_remove, At
  <2> QED
    BY <1>0, <1>8, <2>1, IndexFacts DEF index_remove, MemoryTyped, memory
<1>9. ASSUME NEW t \in Tasks, index_add(t) PROVE MemoryTyped'
  <2>1. task[t].key \in Answers
    BY <1>0, <1>9 DEF index_add, At
  <2> QED
    BY <1>0, <1>9, <2>1, IndexFacts DEF index_add, MemoryTyped, memory
<1>10. CASE clear
  <2>1. CASE using = "memory"
    <3>1. entries' = <<>> /\ index' = <<>> /\ UNCHANGED <<using, now>>
      BY <1>10, <2>1 DEF clear
    <3>2. <<>> \in Seq(Answers)
      OBVIOUS
    <3> QED
      BY <1>0, <2>1, <3>1, <3>2, EmptyTable DEF MemoryTyped
  <2>2. CASE using # "memory"
    BY <1>0, <1>10, <2>2 DEF clear, MemoryTyped, memory
  <2> QED
    BY <2>1, <2>2
<1>11. CASE Tick
  BY <1>0, <1>11 DEF Tick, MemoryTyped, memory
<1>12. CASE UNCHANGED vars
  BY <1>0, <1>12 DEF vars, MemoryTyped
<1> QED
  BY <1>4, <1>5, <1>6, <1>7, <1>8, <1>9, <1>10, <1>11, <1>12 DEF Next

LEMMA KeysStep == BackendInv /\ [Next]_vars => KeysTyped'
<1> SUFFICES ASSUME BackendInv, [Next]_vars PROVE KeysTyped'
  OBVIOUS
<1>0. KeysTyped /\ using \in {"memory", "redis", None}
      /\ \A t \in Tasks : task[t].pc \in {"got", "index_add"} => task[t].key \in Answers
  BY DEF BackendInv, TasksTyped, MemoryTyped
<1>1. /\ Counter \in Keys /\ Answers \subseteq Keys /\ "redis" # None
  BY BackendAssumption DEF Counter, Keys
<1>2. ASSUME NEW t, NEW k, GetBy(t, k) PROVE KeysTyped'
  BY <1>0, <1>2 DEF GetBy, KeysTyped, redis
<1>3. ASSUME NEW t, NEW k \in Keys, NEW v \in Values, using # None, SetBy(t, k, v)
      PROVE  KeysTyped'
  <2>1. CASE using = "memory"
    BY <1>0, <1>3, <2>1 DEF SetBy, KeysTyped, redis
  <2>2. CASE using # "memory"
    <3>1. Expiry(k) \in Nat
      BY BackendAssumption DEF Expiry, Never, BackendInv, MemoryTyped
    <3>2. [value |-> v, expires_at |-> Expiry(k)] \in Strings
      BY <3>1 DEF Strings
    <3> QED
      BY <1>0, <1>3, <2>2, <3>2 DEF SetBy, KeysTyped
  <2> QED
    BY <2>1, <2>2
<1>4. CASE start
  BY <1>0, <1>1, <1>4 DEF start, KeysTyped, redis
<1>5. ASSUME NEW t \in Tasks, resolve(t) \/ bump(t) \/ get(t) \/ set(t) PROVE KeysTyped'
  BY <1>1, <1>2, <1>3, <1>5 DEF resolve, bump, get, set, At
<1>6. ASSUME NEW t \in Tasks, finish(t) \/ zcard(t) \/ zrange(t) \/ trim(t) \/ _call_fails(t)
      PROVE  KeysTyped'
  BY <1>0, <1>6 DEF finish, zcard, zrange, trim, _call_fails, KeysTyped, redis
<1>7. ASSUME NEW t \in Tasks, delete(t) PROVE KeysTyped'
  BY <1>0, <1>7 DEF delete, KeysTyped, redis
<1>8. ASSUME NEW t \in Tasks, index_remove(t) \/ index_add(t) PROVE KeysTyped'
  BY <1>0, <1>8 DEF index_remove, index_add, KeysTyped, redis
<1>9. CASE clear
  BY <1>0, <1>9 DEF clear, KeysTyped, redis
<1>10. CASE Tick
  BY <1>0, <1>10 DEF Tick, KeysTyped, Surviving
<1>11. CASE UNCHANGED vars
  BY <1>0, <1>11 DEF vars, KeysTyped
<1> QED
  BY <1>4, <1>5, <1>6, <1>7, <1>8, <1>9, <1>10, <1>11 DEF Next

LEMMA IndexStep == BackendInv /\ [Next]_vars => IndexTyped'
<1> SUFFICES ASSUME BackendInv, [Next]_vars PROVE IndexTyped'
  OBVIOUS
<1>0. IndexTyped /\ \A t \in Tasks : task[t].pc \in {"got", "index_add"} => task[t].key \in Answers
  BY DEF BackendInv, TasksTyped
<1>1. ttl \in Nat /\ now \in Nat
  BY BackendAssumption DEF BackendInv, MemoryTyped
<1>2. ASSUME UNCHANGED <<hash, order>> PROVE IndexTyped'
  BY <1>0, <1>2 DEF IndexTyped, Vectors, Added
<1>3. ASSUME hash' = Nothing, order' = NoOrder PROVE IndexTyped'
  BY <1>3 DEF IndexTyped, Vectors, Added, Nothing, NoOrder, Never
<1>4. ASSUME NEW ks, HdelZrem(ks) PROVE IndexTyped'
  <2>1. /\ hash' = [of |-> Vectors \ ks, expires_at |-> hash.expires_at]
        /\ order' = [of |-> [k \in DOMAIN Added \ ks |-> Added[k]], expires_at |-> order.expires_at]
    BY <1>0, <1>4 DEF HdelZrem, IndexTyped
  <2> QED
    BY <1>0, <2>1 DEF IndexTyped, Vectors, Added
<1>5. ASSUME NEW t, NEW k, GetBy(t, k) PROVE IndexTyped'
  BY <1>2, <1>5 DEF GetBy, redis
<1>6. ASSUME NEW t, NEW k, NEW v, SetBy(t, k, v) PROVE IndexTyped'
  BY <1>2, <1>6 DEF SetBy, redis
<1>7. CASE start
  BY <1>2, <1>7 DEF start, redis
<1>8. ASSUME NEW t \in Tasks, resolve(t) \/ bump(t) \/ get(t) \/ set(t) PROVE IndexTyped'
  BY <1>5, <1>6, <1>8 DEF resolve, bump, get, set
<1>9. ASSUME NEW t \in Tasks, finish(t) \/ delete(t) \/ zcard(t) \/ zrange(t) \/ _call_fails(t)
      PROVE  IndexTyped'
  BY <1>2, <1>9 DEF finish, delete, zcard, zrange, _call_fails, redis
<1>10. ASSUME NEW t \in Tasks, index_remove(t) PROVE IndexTyped'
  BY <1>2, <1>4, <1>10 DEF index_remove, redis
<1>11. ASSUME NEW t \in Tasks, trim(t) PROVE IndexTyped'
  BY <1>4, <1>11 DEF trim
<1>12. ASSUME NEW t \in Tasks, index_add(t) PROVE IndexTyped'
  <2>1. PICK k \in Answers : k = task[t].key
    BY <1>0, <1>12 DEF index_add, At
  <2>2. CASE using = "memory"
    BY <1>2, <1>12, <2>2 DEF index_add, redis
  <2>3. CASE using # "memory"
    <3>1. /\ hash' = [of |-> Vectors \cup {k}, expires_at |-> now + ttl]
          /\ order' = [of |-> [j \in DOMAIN Added \cup {k} |-> IF j = k THEN now ELSE Added[j]],
                       expires_at |-> now + ttl]
      BY <1>12, <2>1, <2>3 DEF index_add
    <3> QED
      BY <1>0, <1>1, <2>1, <3>1 DEF IndexTyped, Vectors, Added
  <2> QED
    BY <2>2, <2>3
<1>13. CASE clear
  BY <1>2, <1>3, <1>13 DEF clear, redis
<1>14. CASE Tick
  <2>1. \/ Surviving(hash, Nothing) = hash /\ Surviving(order, NoOrder) = order
        \/ Surviving(hash, Nothing) = Nothing /\ Surviving(order, NoOrder) = NoOrder
    BY <1>0 DEF Surviving, IndexTyped
  <2> QED
    BY <1>2, <1>3, <1>14, <2>1 DEF Tick
<1>15. CASE UNCHANGED vars
  BY <1>2, <1>15 DEF vars
<1> QED
  BY <1>7, <1>8, <1>9, <1>10, <1>11, <1>12, <1>13, <1>14, <1>15 DEF Next

(* What get answers is a value or nothing. *)
LEMMA ReplyFacts ==
    ASSUME BackendInv, NEW k \in Keys
    PROVE  /\ MemoryValue(k) \in Values \cup {None} /\ RedisValue(k) \in Values \cup {None}
           /\ MemoryValue(k) # None <=> Usable(k)
<1>1. Usable(k) => entries[Place(k)] \in Entries
  BY GetFacts DEF BackendInv, MemoryTyped
<1>2. MemoryValue(k) \in Values \cup {None} /\ (MemoryValue(k) # None <=> Usable(k))
  BY <1>1, BackendAssumption DEF MemoryValue, Entries
<1>3. RedisValue(k) \in Values \cup {None}
  BY DEF RedisValue, BackendInv, KeysTyped, Strings
<1> QED
  BY <1>2, <1>3

LEMMA OldestAreThere == ASSUME BackendInv, NEW n PROVE Oldest(n) \subseteq Answers
BY DEF Oldest, BackendInv, IndexTyped

LEMMA TasksStep == BackendInv /\ [Next]_vars => TasksTyped'
<1> SUFFICES ASSUME BackendInv, [Next]_vars PROVE TasksTyped'
  OBVIOUS
<1>0. TasksTyped
  BY DEF BackendInv
<1>1. Counter \in Keys /\ Answers \subseteq Keys /\ <<None, None>> \in Replies
  BY DEF Counter, Keys, Replies
<1>2. Idle \in TaskStates /\ Idle.pc = "idle"
  BY DEF Idle, TaskStates, Places
<1>3. ASSUME NEW t \in Tasks, NEW s \in TaskStates, s.pc \in {"got", "index_add"} => s.key \in Answers,
             task' = [task EXCEPT ![t] = s], reply' \in [Tasks -> Replies]
      PROVE  TasksTyped'
  BY <1>0, <1>3 DEF TasksTyped
<1>4. ASSUME NEW t, Used(t) PROVE reply' \in [Tasks -> Replies]
  BY <1>0, <1>1, <1>4 DEF Used, TasksTyped, NoReply
<1>5. ASSUME NEW t \in Tasks, NEW place \in Places, NEW k \in Answers \cup {None}, Goto(t, place, k),
             place \in {"got", "index_add"} => k \in Answers, reply' \in [Tasks -> Replies]
      PROVE  TasksTyped'
  <2>1. PICK s : s = [Idle EXCEPT !.pc = place, !.key = k]
    OBVIOUS
  <2>2. s \in TaskStates /\ s.pc = place /\ s.key = k
    BY <2>1 DEF Idle, TaskStates
  <2> QED
    BY <1>3, <1>5, <2>1, <2>2 DEF Goto
<1>6. ASSUME NEW t, NEW k \in Keys, GetBy(t, k) PROVE reply' \in [Tasks -> Replies]
  <2>1. <<k, IF using = "memory" THEN MemoryValue(k) ELSE RedisValue(k)>> \in Replies
    BY ReplyFacts DEF Replies
  <2> QED
    BY <1>0, <1>6, <2>1 DEF GetBy, TasksTyped
<1>7. ASSUME NEW t, NEW k, NEW v, SetBy(t, k, v) PROVE reply' \in [Tasks -> Replies]
  BY <1>4, <1>7 DEF SetBy
<1>8. {"idle", "resolved", "got", "index_add", "zcard"} \subseteq Places
  BY DEF Places
<1>9. reply \in [Tasks -> Replies]
  BY <1>0 DEF TasksTyped
<1>10. CASE start \/ clear \/ Tick \/ UNCHANGED vars
  BY <1>0, <1>10 DEF start, clear, Tick, vars, TasksTyped
<1>11. ASSUME NEW t \in Tasks, resolve(t) PROVE TasksTyped'
  BY <1>1, <1>5, <1>6, <1>8, <1>11 DEF resolve
<1>12. ASSUME NEW t \in Tasks, bump(t) PROVE TasksTyped'
  BY <1>5, <1>7, <1>8, <1>12 DEF bump
<1>13. ASSUME NEW t \in Tasks, get(t) PROVE TasksTyped'
  BY <1>1, <1>5, <1>6, <1>8, <1>13 DEF get
<1>14. ASSUME NEW t \in Tasks, set(t) PROVE TasksTyped'
  BY <1>5, <1>7, <1>8, <1>14 DEF set
<1>15. ASSUME NEW t \in Tasks, finish(t) \/ delete(t) \/ index_remove(t) PROVE TasksTyped'
  BY <1>4, <1>5, <1>8, <1>15 DEF finish, delete, index_remove
<1>16. ASSUME NEW t \in Tasks, index_add(t) PROVE TasksTyped'
  BY <1>5, <1>8, <1>9, <1>16 DEF index_add
<1>17. ASSUME NEW t \in Tasks, zcard(t) PROVE TasksTyped'
  <2>1. PICK n : n = Cardinality(DOMAIN Added) - index_max_entries
    OBVIOUS
  <2>2. /\ task' = [task EXCEPT ![t] = IF n <= 0 THEN Idle
                                       ELSE [Idle EXCEPT !.pc = "zrange", !.excess = n]]
        /\ UNCHANGED reply
    BY <1>17, <2>1 DEF zcard
  <2>3. n \in Int
    <3>1. IsFiniteSet(DOMAIN Added)
      BY BackendAssumption, FS_Subset DEF BackendInv, IndexTyped
    <3> QED
      BY <2>1, <3>1, FS_CardinalityType, BackendAssumption
  <2>4. ~(n <= 0) => [Idle EXCEPT !.pc = "zrange", !.excess = n] \in TaskStates
    <3>1. ~(n <= 0) => n \in Nat
      BY <2>3
    <3>2. Idle \in [pc : Places, key : Answers \cup {None}, excess : Nat, stale : SUBSET Answers]
      BY <1>2 DEF TaskStates
    <3>3. "zrange" \in Places
      BY DEF Places
    <3> QED
      BY <3>1, <3>2, <3>3 DEF TaskStates
  <2>5. [Idle EXCEPT !.pc = "zrange", !.excess = n].pc = "zrange"
    BY DEF Idle
  <2> QED
    BY <1>2, <1>3, <1>9, <2>2, <2>4, <2>5
<1>18. ASSUME NEW t \in Tasks, zrange(t) PROVE TasksTyped'
  <2>1. PICK stale : stale = Oldest(task[t].excess)
    OBVIOUS
  <2>2. /\ task' = [task EXCEPT ![t] = IF stale = {} THEN Idle
                                       ELSE [Idle EXCEPT !.pc = "trim", !.stale = stale]]
        /\ UNCHANGED reply
    BY <1>18, <2>1 DEF zrange
  <2>3. [Idle EXCEPT !.pc = "trim", !.stale = stale] \in TaskStates
    BY <2>1, OldestAreThere DEF Idle, TaskStates, Places
  <2>4. [Idle EXCEPT !.pc = "trim", !.stale = stale].pc = "trim"
    BY DEF Idle
  <2> QED
    BY <1>2, <1>3, <1>9, <2>2, <2>3, <2>4
<1>19. ASSUME NEW t \in Tasks, trim(t) PROVE TasksTyped'
  BY <1>5, <1>8, <1>9, <1>19 DEF trim
<1>20. ASSUME NEW t \in Tasks, _call_fails(t) PROVE TasksTyped'
  BY <1>4, <1>5, <1>8, <1>20 DEF _call_fails
<1> QED
  BY <1>10, <1>11, <1>12, <1>13, <1>14, <1>15, <1>16, <1>17, <1>18, <1>19, <1>20 DEF Next

LEMMA BackendInit == Init => BackendInv
<1> SUFFICES ASSUME Init PROVE BackendInv
  OBVIOUS
<1>1. MemoryTyped
  BY EmptyTable DEF Init, MemoryTyped
<1>2. KeysTyped
  BY DEF Init, KeysTyped
<1>3. IndexTyped
  BY DEF Init, IndexTyped, Nothing, NoOrder, Vectors, Added, Never
<1>4. TasksTyped
  BY DEF Init, TasksTyped, TaskStates, Idle, Places, NoReply, Replies
<1> QED
  BY <1>1, <1>2, <1>3, <1>4 DEF BackendInv

LEMMA BackendInvariant == Spec => []BackendInv
<1>1. BackendInv /\ [Next]_vars => BackendInv'
  BY MemoryStep, KeysStep, IndexStep, TasksStep DEF BackendInv
<1> QED
  BY <1>1, BackendInit, PTL DEF Spec

(* Every variable keeps its type, and table and index their bounds.        *)
THEOREM BackendTypes == Spec => []TypeOK
<1>1. BackendInv => TypeOK
  BY DEF BackendInv, MemoryTyped, KeysTyped, IndexTyped, TasksTyped, TypeOK, Table, TaskStates,
         Replies
<1> QED
  BY <1>1, BackendInvariant, PTL

-----------------------------------------------------------------------------
(* LossyStore *)

(* The value v of k is in force. *)
Current(k, v) ==
    \/ /\ using = "memory"
       /\ \E i \in 1 .. Len(entries) :
             entries[i].key = k /\ Live(entries[i].expires_at) /\ entries[i].value = v
    \/ using = "redis" /\ db[k] # None /\ db[k].value = v

(* Stored has exactly the values in force. *)
StoredIsCurrent ==
    \A k \in Keys :
        /\ Stored[k] = None \/ Current(k, Stored[k])
        /\ \A v : Current(k, v) => Stored[k] = v

LEMMA StoredFacts == BackendInv => StoredIsCurrent
<1> SUFFICES ASSUME BackendInv, NEW k \in Keys
             PROVE  /\ Stored[k] = None \/ Current(k, Stored[k])
                    /\ \A v : Current(k, v) => Stored[k] = v
  BY DEF StoredIsCurrent
<1>1. /\ Table(entries) /\ DOMAIN entries = 1 .. Len(entries)
      /\ "memory" # "redis"
  BY DEF BackendInv, MemoryTyped, Table
<1>2. ASSUME NEW v PROVE v \in InForce(k) <=> Current(k, v)
  BY <1>1 DEF InForce, Current, ToSet
<1>3. ASSUME NEW v, NEW w, Current(k, v), Current(k, w) PROVE v = w
  <2>1. CASE using = "memory"
    <3>1. PICK i \in 1 .. Len(entries) : entries[i].key = k /\ entries[i].value = v
      BY <1>3, <2>1 DEF Current
    <3>2. PICK j \in 1 .. Len(entries) : entries[j].key = k /\ entries[j].value = w
      BY <1>3, <2>1 DEF Current
    <3> QED
      BY <1>1, <3>1, <3>2 DEF Table
  <2>2. CASE using # "memory"
    BY <1>3, <2>2 DEF Current
  <2> QED
    BY <2>1, <2>2
<1>4. Stored[k] = IF InForce(k) = {} THEN None ELSE CHOOSE v \in InForce(k) : TRUE
  BY DEF Stored
<1>5. CASE InForce(k) = {}
  BY <1>2, <1>4, <1>5
<1>6. CASE InForce(k) # {}
  <2>1. Stored[k] \in InForce(k)
    BY <1>4, <1>6
  <2> QED
    BY <1>2, <1>3, <2>1
<1> QED
  BY <1>5, <1>6

LEMMA StoredFactsNext == BackendInv' => StoredIsCurrent'
BY StoredFacts, PTL

(* No value but those in force comes into force. *)
NothingNew(ks) == \A k \in ks : \A v : Current(k, v)' => Current(k, v)

LEMMA KeptFacts ==
    ASSUME StoredIsCurrent, StoredIsCurrent', NEW ks \in SUBSET Keys, NothingNew(ks)
    PROVE  \A k \in ks : Store!Kept(k)
<1> SUFFICES ASSUME NEW k \in ks, Stored'[k] # None PROVE Stored'[k] = Stored[k]
  BY DEF Store!Kept
<1>1. Current(k, Stored[k])'
  BY DEF StoredIsCurrent
<1> QED
  BY <1>1 DEF StoredIsCurrent, NothingNew

(* Entries and keys that only go, and a clock that only goes forward, make *)
(* nothing new.                                                            *)
LEMMA LosesOnly ==
    ASSUME BackendInv, using' = using, now' \in {now, now + 1},
           \A m \in 1 .. Len(entries') : \E i \in 1 .. Len(entries) : entries'[m] = entries[i],
           \A k \in Keys : db'[k] \in {db[k], None}
    PROVE  NothingNew(Keys)
<1>1. now \in Nat /\ \A i \in 1 .. Len(entries) : entries[i].expires_at \in Nat
  <2>1. now \in Nat /\ entries \in Seq(Entries)
    BY DEF BackendInv, MemoryTyped, Table
  <2>2. \A i \in 1 .. Len(entries) : entries[i] \in Entries
    BY <2>1
  <2> QED
    BY <2>1, <2>2 DEF Entries
<1>2. ASSUME NEW k \in Keys, NEW v, Current(k, v)' PROVE Current(k, v)
  <2>1. CASE using = "memory"
    <3>1. PICK m \in 1 .. Len(entries') :
             entries'[m].key = k /\ Live(entries[m].expires_at)' /\ entries'[m].value = v
      BY <1>2, <2>1 DEF Current
    <3>2. PICK i \in 1 .. Len(entries) : entries'[m] = entries[i]
      OBVIOUS
    <3>3. Live(entries[i].expires_at)
      BY <1>1, <3>1, <3>2 DEF Live
    <3> QED
      BY <2>1, <3>1, <3>2, <3>3 DEF Current
  <2>2. CASE using # "memory"
    BY <1>2, <2>2 DEF Current
  <2> QED
    BY <2>1, <2>2
<1> QED
  BY <1>2 DEF NothingNew

LEMMA GetAnswersStored ==
    ASSUME BackendInv, using # None, NEW k \in Keys
    PROVE  (IF using = "memory" THEN MemoryValue(k) ELSE RedisValue(k)) = Stored[k]
<1>1. /\ Stored[k] = None \/ Current(k, Stored[k])
      /\ \A v : Current(k, v) => Stored[k] = v
  BY StoredFacts DEF StoredIsCurrent
<1>2. CASE using = "memory"
  <2>1. DOMAIN entries = 1 .. Len(entries) /\ Table(entries)
    BY DEF BackendInv, MemoryTyped, Table
  <2>2. CASE Usable(k)
    <3>1. Current(k, entries[Place(k)].value)
      BY <1>2, <2>2, GetFacts DEF BackendInv, MemoryTyped, Usable, Current
    <3> QED
      BY <1>1, <1>2, <2>2, <3>1 DEF MemoryValue
  <2>3. CASE ~Usable(k)
    <3>1. ASSUME NEW v, Current(k, v) PROVE FALSE
      <4>1. PICK i \in 1 .. Len(entries) : entries[i].key = k /\ Live(entries[i].expires_at)
        BY <1>2, <3>1 DEF Current
      <4>2. Holds(k) /\ Place(k) \in 1 .. Len(entries) /\ entries[Place(k)].key = k
        BY <2>1, <4>1 DEF Holds, Place
      <4>3. Place(k) = i
        BY <2>1, <4>1, <4>2 DEF Table
      <4> QED
        BY <2>3, <4>1, <4>2, <4>3 DEF Usable
    <3> QED
      BY <1>1, <1>2, <2>3, <3>1 DEF MemoryValue
  <2> QED
    BY <2>2, <2>3
<1>3. CASE using = "redis"
  <2>1. db[k] # None => Current(k, db[k].value)
    BY <1>3 DEF Current
  <2>2. db[k] = None => Stored[k] = None
    BY <1>1, <1>3 DEF Current
  <2> QED
    BY <1>1, <1>3, <2>1, <2>2 DEF RedisValue
<1> QED
  BY <1>2, <1>3 DEF BackendInv, MemoryTyped

LEMMA GetImplements ==
    ASSUME BackendInv, BackendInv', using # None, NEW t \in Tasks, NEW k \in Keys, GetBy(t, k)
    PROVE  Store!Get(t)
<1>1. reply' = [reply EXCEPT ![t] = <<k, Stored[k]>>]
  BY GetAnswersStored DEF GetBy
<1>2. \A m \in 1 .. Len(entries') : \E i \in 1 .. Len(entries) : entries'[m] = entries[i]
  <2>1. CASE using = "memory" /\ Usable(k)
    <3>1. Filed(entries, AfterGet(k), entries[Place(k)]) /\ Place(k) \in 1 .. Len(entries)
      BY <2>1, GetFacts DEF BackendInv, MemoryTyped
    <3> QED
      BY <2>1, <3>1 DEF GetBy, Filed
  <2>2. CASE using = "memory" /\ ~Usable(k)
    <3>1. entries' = Without(k) /\ Thinner(entries, Without(k), k)
      BY <2>2, GetFacts, WithoutFacts DEF GetBy, BackendInv, MemoryTyped
    <3> QED
      BY <3>1 DEF Thinner
  <2>3. CASE using # "memory"
    BY <2>3 DEF GetBy
  <2> QED
    BY <2>1, <2>2, <2>3
<1>3. NothingNew(Keys)
  BY <1>2, LosesOnly DEF GetBy, redis
<1>4. \A other \in Keys : Store!Kept(other)
  BY <1>3, StoredFacts, StoredFactsNext, KeptFacts
<1> QED
  BY <1>1, <1>4 DEF Store!Get

LEMMA SetImplements ==
    ASSUME BackendInv, BackendInv', using # None,
           NEW t \in Tasks, NEW k \in Keys, NEW v \in Values, SetBy(t, k, v)
    PROVE  Store!Set(k)
<1>1. Store!Used
  BY DEF SetBy, Used, NoReply, Store!Used
<1>2. Current(k, v)' /\ NothingNew(Keys \ {k})
  <2>1. CASE using = "memory"
    <3>1. PICK e \in Entries : /\ e.key = k /\ e.value = v /\ Live(e.expires_at)
                               /\ Filed(entries, AfterSet(k, v), e)
      BY SetFacts DEF BackendInv, MemoryTyped
    <3>2. entries' = AfterSet(k, v) /\ using' = using /\ now' = now
      BY <2>1 DEF SetBy
    <3>3. Filed(entries, entries', e)
      BY <3>1, <3>2
    <3>4. Current(k, v)'
      <4>1. PICK m \in 1 .. Len(entries') : entries'[m] = e
        BY <3>3 DEF Filed
      <4>2. Live(entries[m].expires_at)'
        BY <3>1, <3>2, <4>1 DEF Live
      <4> QED
        BY <2>1, <3>1, <3>2, <4>1, <4>2 DEF Current
    <3>5. ASSUME NEW j \in Keys \ {k}, NEW x, Current(j, x)' PROVE Current(j, x)
      <4>1. PICK m \in 1 .. Len(entries') :
               entries'[m].key = j /\ Live(entries[m].expires_at)' /\ entries'[m].value = x
        BY <2>1, <3>2, <3>5 DEF Current
      <4>2. PICK i \in 1 .. Len(entries) : entries'[m] = entries[i]
        BY <3>1, <3>3, <4>1 DEF Filed
      <4>3. Live(entries[i].expires_at)
        BY <3>2, <4>1, <4>2 DEF Live
      <4> QED
        BY <2>1, <4>1, <4>2, <4>3 DEF Current
    <3> QED
      BY <3>4, <3>5 DEF NothingNew
  <2>2. CASE using = "redis"
    <3>1. /\ db' = [db EXCEPT ![k] = [value |-> v, expires_at |-> Expiry(k)]]
          /\ using' = using
      BY <2>2 DEF SetBy
    <3>2. [value |-> v, expires_at |-> Expiry(k)] \in Strings
      BY BackendAssumption DEF Expiry, Never, BackendInv, MemoryTyped, Strings
    <3>3. db'[k] = [value |-> v, expires_at |-> Expiry(k)] /\ db'[k] # None
          /\ \A j \in Keys \ {k} : db'[j] = db[j]
      BY <3>1, <3>2, BackendAssumption DEF BackendInv, KeysTyped
    <3>4. Current(k, v)'
      BY <2>2, <3>1, <3>3 DEF Current
    <3>5. NothingNew(Keys \ {k})
      BY <2>2, <3>1, <3>3 DEF NothingNew, Current
    <3> QED
      BY <3>4, <3>5
  <2> QED
    BY <2>1, <2>2 DEF BackendInv, MemoryTyped
<1>3. Stored'[k] = v
  BY <1>2, StoredFactsNext DEF StoredIsCurrent
<1>4. \A other \in Keys \ {k} : Store!Kept(other)
  BY <1>2, StoredFacts, StoredFactsNext, KeptFacts
<1> QED
  BY <1>1, <1>3, <1>4 DEF Store!Set

LEMMA ForgetImplements ==
    ASSUME BackendInv, BackendInv', NothingNew(Keys), Store!Used PROVE Store!Next
BY StoredFacts, StoredFactsNext, KeptFacts DEF Store!Forget, Store!Next

LEMMA StoreStep == BackendInv /\ BackendInv' /\ [Next]_vars => Store!Next
<1> SUFFICES ASSUME BackendInv, BackendInv', [Next]_vars PROVE Store!Next
  OBVIOUS
<1>0. /\ MemoryTyped /\ db \in [Keys -> Strings \cup {None}]
      /\ Counter \in Keys /\ Answers \subseteq Keys
      /\ \A t \in Tasks : task[t].pc \in {"got", "index_add"} => task[t].key \in Answers
      /\ now \in Nat
  BY DEF BackendInv, MemoryTyped, KeysTyped, TasksTyped, Counter, Keys
<1>1. ASSUME NEW t \in Tasks, Used(t) PROVE Store!Used
  BY <1>1 DEF Used, NoReply, Store!Used
<1>2. ASSUME UNCHANGED reply PROVE Store!Used
  BY <1>2 DEF Store!Used
<1>3. ASSUME UNCHANGED <<using, entries, db, now>> PROVE NothingNew(Keys)
  <2>1. \A m \in 1 .. Len(entries') : \E i \in 1 .. Len(entries) : entries'[m] = entries[i]
    BY <1>3
  <2> QED
    BY <1>3, <2>1, LosesOnly
<1>4. CASE start
  <2>1. /\ entries' = <<>> /\ UNCHANGED <<db, reply>>
        /\ \A k \in Keys : db[k] = None
        /\ "memory" # None /\ "redis" # None
    BY <1>4, BackendAssumption DEF start, BackendInv, MemoryTyped, KeysTyped, memory, redis
  <2>2. NothingNew(Keys)
    BY <2>1 DEF NothingNew, Current
  <2> QED
    BY <1>2, <2>1, <2>2, ForgetImplements
<1>5. ASSUME NEW t \in Tasks, NEW k \in Keys, GetBy(t, k), using # None PROVE Store!Next
  BY <1>5, GetImplements DEF Store!Next
<1>6. ASSUME NEW t \in Tasks, NEW k \in Keys, NEW v \in Values, SetBy(t, k, v), using # None
      PROVE  Store!Next
  BY <1>6, SetImplements DEF Store!Next
<1>7. ASSUME NEW t \in Tasks, resolve(t) \/ bump(t) \/ get(t) \/ set(t) PROVE Store!Next
  BY <1>0, <1>5, <1>6, <1>7 DEF resolve, bump, get, set, At
<1>8. ASSUME NEW t \in Tasks, finish(t) \/ _call_fails(t) PROVE Store!Next
  <2>1. Store!Used /\ UNCHANGED <<using, entries, db, now>>
    BY <1>1, <1>8 DEF finish, _call_fails, memory, redis
  <2> QED
    BY <1>3, <2>1, ForgetImplements
<1>9. ASSUME NEW t \in Tasks, zcard(t) \/ zrange(t) \/ trim(t) \/ index_add(t) PROVE Store!Next
  <2>1. UNCHANGED <<reply, using, entries, db, now>>
    BY <1>9 DEF zcard, zrange, trim, index_add, memory, redis
  <2> QED
    BY <1>2, <1>3, <2>1, ForgetImplements
<1>10. ASSUME NEW t \in Tasks, index_remove(t) PROVE Store!Next
  <2>1. Store!Used /\ UNCHANGED <<using, entries, db, now>>
    BY <1>1, <1>10 DEF index_remove, memory, redis
  <2> QED
    BY <1>3, <2>1, ForgetImplements
<1>11. ASSUME NEW t \in Tasks, delete(t) PROVE Store!Next
  <2>1. PICK k \in Keys : k = task[t].key
    BY <1>0, <1>11 DEF delete, At
  <2>2. Store!Used /\ UNCHANGED <<using, now>>
    BY <1>1, <1>11 DEF delete
  <2>3. \A m \in 1 .. Len(entries') : \E i \in 1 .. Len(entries) : entries'[m] = entries[i]
    <3>1. Thinner(entries, Without(k), k)
      BY <1>0, WithoutFacts DEF MemoryTyped
    <3>2. entries' = Without(k) \/ entries' = entries
      BY <1>11, <2>1 DEF delete, memory
    <3> QED
      BY <3>1, <3>2 DEF Thinner
  <2>4. \A j \in Keys : db'[j] \in {db[j], None}
    BY <1>0, <1>11, <2>1 DEF delete, redis
  <2> QED
    BY <2>2, <2>3, <2>4, LosesOnly, ForgetImplements
<1>12. CASE clear
  <2>1. UNCHANGED <<reply, using, now>>
    BY <1>12 DEF clear
  <2>2. \A m \in 1 .. Len(entries') : \E i \in 1 .. Len(entries) : entries'[m] = entries[i]
    BY <1>12 DEF clear, memory
  <2>3. \A j \in Keys : db'[j] \in {db[j], None}
    BY <1>0, <1>12 DEF clear, redis
  <2> QED
    BY <1>2, <2>1, <2>2, <2>3, LosesOnly, ForgetImplements
<1>13. CASE Tick
  <2>1. UNCHANGED <<reply, using>> /\ entries' = entries /\ now' = now + 1
    BY <1>13 DEF Tick, memory
  <2>2. \A m \in 1 .. Len(entries') : \E i \in 1 .. Len(entries) : entries'[m] = entries[i]
    BY <2>1
  <2>3. \A j \in Keys : db'[j] \in {db[j], None}
    BY <1>13 DEF Tick, Surviving
  <2> QED
    BY <1>2, <2>1, <2>2, <2>3, LosesOnly, ForgetImplements
<1>14. CASE UNCHANGED vars
  BY <1>2, <1>3, <1>14, ForgetImplements DEF vars
<1> QED
  BY <1>4, <1>7, <1>8, <1>9, <1>10, <1>11, <1>12, <1>13, <1>14 DEF Next

(* Whichever backend a start comes up with, whatever expires, is evicted,  *)
(* deleted, cleared or fails: a get answers the value last set or nothing. *)
THEOREM ImplementsStore == Spec => ImplementsLossyStore
<1>1. Init => Store!Init
  <2> SUFFICES ASSUME Init PROVE Store!Init
    OBVIOUS
  <2>1. \A k \in Keys : InForce(k) = {}
    BY BackendAssumption DEF Init, InForce, ToSet
  <2>2. Stored = [k \in Keys |-> None]
    BY <2>1 DEF Stored
  <2> QED
    BY <2>2 DEF Init, NoReply, Store!Init
<1>2. BackendInv /\ BackendInv' /\ [Next]_vars => [Store!Next]_<<Stored, reply>>
  BY StoreStep
<1> QED
  BY <1>1, <1>2, BackendInvariant, PTL DEF Spec, Store!Spec, ImplementsLossyStore

-----------------------------------------------------------------------------
(* The index of Redis *)

(* The vectors older than k, as ZRANGE orders them. *)
Before(k) == {j \in DOMAIN Added : \/ Added[j] < Added[k]
                                   \/ Added[j] = Added[k] /\ j < k}

(* Without its n oldest the index has n vectors less, or none. *)
LEMMA OldestFacts ==
    ASSUME BackendInv, NEW n \in Nat
    PROVE  Cardinality(Vectors \ Oldest(n))
             <= IF n <= Cardinality(Vectors) THEN Cardinality(Vectors) - n ELSE 0
<1> DEFINE V == Vectors
           R == V \ Oldest(n)
           m == Cardinality(V)
           f == [k \in R |-> Cardinality(Before(k))]
<1>1. /\ IsFiniteSet(V) /\ V \subseteq Nat /\ DOMAIN Added = V
      /\ \A k \in V : Added[k] \in Nat
  BY BackendAssumption, FS_Subset DEF BackendInv, IndexTyped
<1>2. m \in Nat
  BY <1>1, FS_CardinalityType
<1> HIDE DEF V, m
<1>3. ASSUME NEW k \in V
      PROVE  /\ IsFiniteSet(Before(k)) /\ Cardinality(Before(k)) \in 0 .. m - 1
  <2>1. Before(k) \subseteq V \ {k}
    BY <1>1, <1>3 DEF Before
  <2>2. IsFiniteSet(V \ {k}) /\ Cardinality(V \ {k}) = m - 1
    BY <1>1, <1>3, FS_RemoveElement DEF m
  <2>3. IsFiniteSet(Before(k)) /\ Cardinality(Before(k)) <= m - 1
    BY <2>1, <2>2, FS_Subset
  <2> QED
    BY <1>2, <2>3, FS_CardinalityType
<1>4. ASSUME NEW k \in V, NEW l \in V, k \in Before(l)
      PROVE  Cardinality(Before(k)) # Cardinality(Before(l))
  <2>1. ASSUME NEW j \in Before(k) PROVE j \in Before(l)
    <3>1. /\ j \in V /\ {j, k, l} \subseteq Nat /\ {Added[j], Added[k], Added[l]} \subseteq Nat
          /\ Added[j] < Added[k] \/ (Added[j] = Added[k] /\ j < k)
          /\ Added[k] < Added[l] \/ (Added[k] = Added[l] /\ k < l)
      BY <1>1, <1>4, <2>1 DEF Before
    <3>2. Added[j] < Added[l] \/ (Added[j] = Added[l] /\ j < l)
      BY <3>1
    <3> QED
      BY <1>1, <3>1, <3>2 DEF Before
  <2>2. k \notin Before(k)
    BY <1>1 DEF Before
  <2> QED
    BY <1>3, <1>4, <2>1, <2>2, FS_Subset
<1>5. ASSUME NEW k \in V, NEW l \in V, k # l PROVE k \in Before(l) \/ l \in Before(k)
  BY <1>1, <1>5 DEF Before
<1>6. \A k \in R : Cardinality(Before(k)) \in n .. m - 1
  <2>1. ASSUME NEW k \in R PROVE ~(Cardinality(Before(k)) < n)
    BY <1>1, <2>1 DEF Oldest, Before
  <2> QED
    BY <1>2, <1>3, <2>1
<1>7. f \in Injection(R, n .. m - 1)
  <2>1. f \in [R -> n .. m - 1]
    BY <1>6
  <2>2. \A k, l \in R : f[k] = f[l] => k = l
    BY <1>4, <1>5
  <2> QED
    BY <2>1, <2>2 DEF Injection, IsInjective
<1> HIDE DEF f, R
<1>8. m - 1 \in Int /\ n \in Int
  BY <1>2
<1>9. IsFiniteSet(n .. m - 1) /\ Cardinality(n .. m - 1) = IF n > m - 1 THEN 0 ELSE m - 1 - n + 1
  BY <1>8, FS_Interval
<1>10. IsFiniteSet(R) /\ Cardinality(R) <= Cardinality(n .. m - 1)
  BY <1>7, <1>9, FS_Injection
<1>11. Cardinality(R) <= IF n <= m THEN m - n ELSE 0
  BY <1>2, <1>9, <1>10, FS_CardinalityType
<1> QED
  BY <1>11 DEF R, V, m

(* Where the index exceeds its bound somebody will see to it, or has       *)
(* failed to: an add to be counted, a count that covers the excess, or a   *)
(* range that holds it.                                                    *)
TrimInv ==
    \/ untrimmed
    \/ \E t \in Tasks : task[t].pc = "zcard"
    \/ Cardinality(Vectors) <= index_max_entries
    \/ \E t \in Tasks : /\ task[t].pc = "zrange"
                        /\ Cardinality(Vectors) <= index_max_entries + task[t].excess
    \/ \E t \in Tasks : /\ task[t].pc = "trim"
                        /\ Cardinality(Vectors \ task[t].stale) <= index_max_entries

(* The tasks that trim go on where they were, with no more to do. *)
LEMMA ShrinksOnly ==
    ASSUME BackendInv, TrimInv, Vectors' \subseteq Vectors, untrimmed => untrimmed',
           \A t \in Tasks : task[t].pc \in {"zcard", "zrange", "trim"} => task'[t] = task[t]
    PROVE  TrimInv'
<1>1. IsFiniteSet(Vectors) /\ IsFiniteSet(Vectors')
  BY BackendAssumption, FS_Subset DEF BackendInv, IndexTyped
<1>2. Cardinality(Vectors) \in Nat /\ Cardinality(Vectors') \in Nat
      /\ Cardinality(Vectors') <= Cardinality(Vectors)
  BY <1>1, FS_CardinalityType, FS_Subset
<1>3. \A s : /\ IsFiniteSet(Vectors \ s) /\ IsFiniteSet(Vectors' \ s)
             /\ Cardinality(Vectors \ s) \in Nat /\ Cardinality(Vectors' \ s) \in Nat
             /\ Cardinality(Vectors' \ s) <= Cardinality(Vectors \ s)
  <2> TAKE s
  <2>1. IsFiniteSet(Vectors \ s) /\ Vectors' \ s \subseteq Vectors \ s
    BY <1>1, FS_Subset
  <2>2. IsFiniteSet(Vectors' \ s) /\ Cardinality(Vectors' \ s) <= Cardinality(Vectors \ s)
    BY <2>1, FS_Subset
  <2> QED
    BY <2>1, <2>2, FS_CardinalityType
<1>4. index_max_entries \in Nat /\ \A t \in Tasks : task[t].excess \in Nat
  BY BackendAssumption DEF BackendInv, TasksTyped, TaskStates
<1>5. CASE untrimmed \/ \E t \in Tasks : task[t].pc = "zcard"
  BY <1>5 DEF TrimInv
<1>6. CASE Cardinality(Vectors) <= index_max_entries
  BY <1>2, <1>4, <1>6 DEF TrimInv
<1>7. ASSUME NEW t \in Tasks, task[t].pc = "zrange",
             Cardinality(Vectors) <= index_max_entries + task[t].excess
      PROVE  TrimInv'
  <2>1. task'[t] = task[t] /\ Cardinality(Vectors') <= index_max_entries + task[t].excess
    BY <1>2, <1>4, <1>7
  <2> QED
    BY <1>7, <2>1 DEF TrimInv
<1>8. ASSUME NEW t \in Tasks, task[t].pc = "trim",
             Cardinality(Vectors \ task[t].stale) <= index_max_entries
      PROVE  TrimInv'
  <2>1. PICK s : s = task[t].stale
    OBVIOUS
  <2>2. /\ Cardinality(Vectors \ s) <= index_max_entries
        /\ Cardinality(Vectors \ s) \in Nat /\ Cardinality(Vectors' \ s) \in Nat
        /\ Cardinality(Vectors' \ s) <= Cardinality(Vectors \ s)
    BY <1>3, <1>8, <2>1
  <2>3. Cardinality(Vectors' \ s) <= index_max_entries
    BY <1>4, <2>2
  <2>4. task'[t] = task[t]
    BY <1>8
  <2> QED
    BY <1>8, <2>1, <2>3, <2>4 DEF TrimInv
<1> QED
  BY <1>5, <1>6, <1>7, <1>8 DEF TrimInv

LEMMA TrimStep == BackendInv /\ TrimInv /\ [Next]_vars => TrimInv'
<1> SUFFICES ASSUME BackendInv, TrimInv, [Next]_vars PROVE TrimInv'
  OBVIOUS
<1>0. /\ task \in [Tasks -> TaskStates]
      /\ index_max_entries \in Nat
      /\ IsFiniteSet(Vectors) /\ Cardinality(Vectors) \in Nat
  BY BackendAssumption, FS_Subset, FS_CardinalityType DEF BackendInv, TasksTyped, IndexTyped
<1>1. ASSUME NEW t \in Tasks, task[t].pc \notin {"zcard", "zrange", "trim"},
             \E s : task' = [task EXCEPT ![t] = s],
             Vectors' \subseteq Vectors, untrimmed => untrimmed'
      PROVE  TrimInv'
  <2>1. \A u \in Tasks : task[u].pc \in {"zcard", "zrange", "trim"} => task'[u] = task[u]
    BY <1>0, <1>1
  <2> QED
    BY <1>1, <2>1, ShrinksOnly
<1>2. UNCHANGED hash => Vectors' \subseteq Vectors
  BY DEF Vectors
<1>3. ASSUME NEW t \in Tasks, resolve(t) \/ get(t) PROVE TrimInv'
  <2>1. /\ task[t].pc \notin {"zcard", "zrange", "trim"} /\ (\E s : task' = [task EXCEPT ![t] = s])
        /\ UNCHANGED <<untrimmed, hash>>
    BY <1>3 DEF resolve, get, GetBy, At, Goto, redis
  <2> QED
    BY <1>1, <1>2, <2>1
<1>4. ASSUME NEW t \in Tasks, bump(t) \/ set(t) PROVE TrimInv'
  <2>1. /\ task[t].pc \notin {"zcard", "zrange", "trim"} /\ (\E s : task' = [task EXCEPT ![t] = s])
        /\ UNCHANGED <<untrimmed, hash>>
    BY <1>4 DEF bump, set, SetBy, At, Goto, redis
  <2> QED
    BY <1>1, <1>2, <2>1
<1>5. ASSUME NEW t \in Tasks, finish(t) \/ delete(t) PROVE TrimInv'
  <2>1. /\ task[t].pc \notin {"zcard", "zrange", "trim"} /\ (\E s : task' = [task EXCEPT ![t] = s])
        /\ UNCHANGED <<untrimmed, hash>>
    BY <1>5 DEF finish, delete, At, Goto, redis
  <2> QED
    BY <1>1, <1>2, <2>1
<1>6. ASSUME NEW t \in Tasks, index_remove(t) PROVE TrimInv'
  <2>1. /\ task[t].pc \notin {"zcard", "zrange", "trim"} /\ (\E s : task' = [task EXCEPT ![t] = s])
        /\ UNCHANGED untrimmed
    BY <1>6 DEF index_remove, At, Goto
  <2>2. hash' = hash \/ hash' = [hash EXCEPT !.of = Vectors \ {task[t].key}]
    BY <1>6 DEF index_remove, HdelZrem, redis
  <2>3. Vectors' \subseteq Vectors
    BY <2>2 DEF Vectors, BackendInv, IndexTyped
  <2> QED
    BY <1>1, <2>1, <2>3
<1>7. ASSUME NEW t \in Tasks, index_add(t) PROVE TrimInv'
  <2>1. CASE using = "memory"
    <3>1. /\ task[t].pc \notin {"zcard", "zrange", "trim"}
          /\ (\E s : task' = [task EXCEPT ![t] = s])
          /\ UNCHANGED <<untrimmed, hash>>
      BY <1>7, <2>1 DEF index_add, At, Goto, redis
    <3> QED
      BY <1>1, <1>2, <3>1
  <2>2. CASE using # "memory"
    <3>1. Goto(t, "zcard", None)
      BY <1>7, <2>2 DEF index_add
    <3>2. task'[t].pc = "zcard"
      BY <1>0, <3>1 DEF Goto, Idle
    <3> QED
      BY <3>2 DEF TrimInv
  <2> QED
    BY <2>1, <2>2
<1>8. ASSUME NEW t \in Tasks, zcard(t) PROVE TrimInv'
  <2>1. PICK n : n = Cardinality(DOMAIN Added) - index_max_entries
    OBVIOUS
  <2>2. /\ task' = [task EXCEPT ![t] = IF n <= 0 THEN Idle
                                       ELSE [Idle EXCEPT !.pc = "zrange", !.excess = n]]
        /\ Vectors' = Vectors
    BY <1>8, <2>1 DEF zcard, redis, Vectors
  <2>3. n \in Int /\ Cardinality(Vectors) = index_max_entries + n
    BY <1>0, <2>1 DEF BackendInv, IndexTyped
  <2>4. CASE n <= 0
    <3>1. Cardinality(Vectors) <= index_max_entries
      BY <1>0, <2>3, <2>4
    <3> QED
      BY <2>2, <3>1 DEF TrimInv
  <2>5. CASE ~(n <= 0)
    <3>1. task'[t].pc = "zrange" /\ task'[t].excess = n
      BY <1>0, <2>2, <2>5 DEF Idle
    <3>2. Cardinality(Vectors') <= index_max_entries + task'[t].excess
      BY <1>0, <2>2, <2>3, <3>1
    <3> QED
      BY <3>1, <3>2 DEF TrimInv
  <2> QED
    BY <2>4, <2>5
<1>9. ASSUME NEW t \in Tasks, zrange(t) PROVE TrimInv'
  <2>1. PICK stale : stale = Oldest(task[t].excess)
    OBVIOUS
  <2>2. /\ task[t].pc = "zrange"
        /\ task' = [task EXCEPT ![t] = IF stale = {} THEN Idle
                                       ELSE [Idle EXCEPT !.pc = "trim", !.stale = stale]]
        /\ Vectors' = Vectors /\ untrimmed' = untrimmed
    BY <1>9, <2>1 DEF zrange, redis, Vectors, At
  <2>3. CASE Cardinality(Vectors) <= index_max_entries + task[t].excess
    <3>1. PICK n \in Nat : n = task[t].excess
      BY <1>0 DEF TaskStates
    <3>2. IsFiniteSet(Vectors \ stale) /\ Cardinality(Vectors \ stale) \in Nat
      BY <1>0, FS_Subset, FS_CardinalityType
    <3>3. Cardinality(Vectors \ stale)
            <= IF n <= Cardinality(Vectors) THEN Cardinality(Vectors) - n ELSE 0
      BY <2>1, <3>1, OldestFacts
    <3>4. Cardinality(Vectors \ stale) <= index_max_entries
      BY <1>0, <2>3, <3>1, <3>2, <3>3
    <3>5. CASE stale = {}
      <4>1. Vectors' \ stale = Vectors'
        BY <3>5
      <4> QED
        BY <2>2, <3>4, <4>1 DEF TrimInv
    <3>6. CASE stale # {}
      <4>1. task'[t].pc = "trim" /\ task'[t].stale = stale
        BY <1>0, <2>2, <3>6 DEF Idle
      <4> QED
        BY <2>2, <3>4, <4>1 DEF TrimInv
    <3> QED
      BY <3>5, <3>6
  <2>4. ASSUME NEW u \in Tasks, u # t,
               \/ task[u].pc = "zcard"
               \/ task[u].pc = "zrange" /\ Cardinality(Vectors) <= index_max_entries + task[u].excess
               \/ task[u].pc = "trim" /\ Cardinality(Vectors \ task[u].stale) <= index_max_entries
        PROVE  TrimInv'
    <3>1. task'[u] = task[u]
      BY <1>0, <2>2, <2>4
    <3> QED
      BY <2>2, <2>4, <3>1 DEF TrimInv
  <2>5. CASE untrimmed \/ Cardinality(Vectors) <= index_max_entries
    BY <2>2, <2>5 DEF TrimInv
  <2> QED
    BY <2>2, <2>3, <2>4, <2>5 DEF TrimInv
<1>10. ASSUME NEW t \in Tasks, trim(t) PROVE TrimInv'
  <2>1. /\ task[t].pc = "trim" /\ UNCHANGED untrimmed
        /\ \E s : task' = [task EXCEPT ![t] = s]
        /\ hash' = [hash EXCEPT !.of = Vectors \ task[t].stale]
    BY <1>10 DEF trim, HdelZrem, Goto, At
  <2>2. Vectors' = Vectors \ task[t].stale
    BY <2>1 DEF Vectors, BackendInv, IndexTyped
  <2>3. CASE Cardinality(Vectors \ task[t].stale) <= index_max_entries
    BY <2>2, <2>3 DEF TrimInv
  <2>4. ASSUME NEW u \in Tasks, u # t PROVE task'[u] = task[u]
    BY <1>0, <2>1, <2>4
  <2>5. /\ IsFiniteSet(Vectors') /\ Cardinality(Vectors') \in Nat
        /\ Cardinality(Vectors') <= Cardinality(Vectors)
    BY <1>0, <2>2, FS_Subset, FS_CardinalityType
  <2>6. CASE untrimmed \/ Cardinality(Vectors) <= index_max_entries
    BY <1>0, <2>1, <2>5, <2>6 DEF TrimInv
  <2>7. ASSUME NEW u \in Tasks, u # t, task[u].pc = "zcard" PROVE TrimInv'
    BY <2>4, <2>7 DEF TrimInv
  <2>8. ASSUME NEW u \in Tasks, u # t, task[u].pc = "zrange",
               Cardinality(Vectors) <= index_max_entries + task[u].excess
        PROVE  TrimInv'
    <3>1. task'[u] = task[u] /\ task[u].excess \in Nat
      BY <1>0, <2>4, <2>8 DEF TaskStates
    <3>2. Cardinality(Vectors') <= index_max_entries + task[u].excess
      BY <1>0, <2>5, <2>8, <3>1
    <3> QED
      BY <2>8, <3>1, <3>2 DEF TrimInv
  <2>9. ASSUME NEW u \in Tasks, u # t, task[u].pc = "trim",
               Cardinality(Vectors \ task[u].stale) <= index_max_entries
        PROVE  TrimInv'
    <3>1. PICK s : s = task[u].stale
      OBVIOUS
    <3>2. IsFiniteSet(Vectors \ s) /\ Vectors' \ s \subseteq Vectors \ s
      BY <1>0, <2>2, FS_Subset
    <3>3. /\ Cardinality(Vectors \ s) \in Nat /\ Cardinality(Vectors' \ s) \in Nat
          /\ Cardinality(Vectors' \ s) <= Cardinality(Vectors \ s)
      BY <3>2, FS_Subset, FS_CardinalityType
    <3>4. task'[u] = task[u] /\ Cardinality(Vectors' \ s) <= index_max_entries
      BY <1>0, <2>4, <2>9, <3>1, <3>3
    <3> QED
      BY <2>9, <3>1, <3>4 DEF TrimInv
  <2> QED
    BY <2>1, <2>3, <2>6, <2>7, <2>8, <2>9 DEF TrimInv
<1>11. ASSUME NEW t \in Tasks, _call_fails(t) PROVE TrimInv'
  <2>1. CASE task[t].pc \in {"zcard", "zrange", "trim"}
    BY <1>11, <2>1 DEF _call_fails, TrimInv
  <2>2. CASE task[t].pc \notin {"zcard", "zrange", "trim"}
    <3>1. (\E s : task' = [task EXCEPT ![t] = s]) /\ UNCHANGED hash
      BY <1>11 DEF _call_fails, Goto, redis
    <3>2. untrimmed => untrimmed'
      BY <1>11 DEF _call_fails
    <3> QED
      BY <1>1, <1>2, <2>2, <3>1, <3>2
  <2> QED
    BY <2>1, <2>2
<1>12. CASE start \/ UNCHANGED vars
  <2>1. UNCHANGED <<hash, task, untrimmed>>
    BY <1>12 DEF start, vars, redis
  <2> QED
    BY <1>2, <2>1, ShrinksOnly
<1>13. CASE clear \/ Tick
  <2>1. UNCHANGED <<task, untrimmed>> /\ hash' \in {hash, Nothing}
    BY <1>13 DEF clear, Tick, redis, Surviving
  <2>2. Vectors' \subseteq Vectors
    BY <2>1 DEF Vectors, Nothing
  <2> QED
    BY <2>1, <2>2, ShrinksOnly
<1> QED
  BY <1>3, <1>4, <1>5, <1>6, <1>7, <1>8, <1>9, <1>10, <1>11, <1>12, <1>13 DEF Next

(* The hash and the sorted set of a namespace agree, and when no add is    *)
(* under way and none was left untrimmed the index is within its bound,    *)
(* however adds, trims, removals, failures and an expiry interleave.       *)
THEOREM IndexHolds == Spec => []IndexIsWhole
<1>1. Init => TrimInv
  BY BackendAssumption, FS_EmptySet DEF Init, TrimInv, Vectors, Nothing
<1>2. BackendInv /\ TrimInv => IndexIsWhole
  BY DEF BackendInv, IndexTyped, MemoryTyped, TrimInv, IndexIsWhole
<1> QED
  BY <1>1, <1>2, TrimStep, BackendInvariant, PTL DEF Spec

-----------------------------------------------------------------------------
(* The counter in memory *)

(* The entry of k has been used since that of the counter. *)
Later(t, k) ==
    \E c, i \in 1 .. Len(t) : c < i /\ t[c].key = Counter /\ t[i].key = k

(* The task has used the entry of k, and cannot use another before it      *)
(* reads the version again, unless it finds that one unusable.             *)
Spent(t, k) ==
    /\ t \in Tasks
    /\ task[t].pc # "resolved"
    /\ task[t].pc = "got" => task[t].key = k /\ reply[t][2] # None

(* Every such entry has a task of its own. *)
UsedBy(user) ==
    /\ \A k \in Keys : Later(entries, k) => Spent(user[k], k)
    /\ \A k, l \in Keys : Later(entries, k) /\ Later(entries, l) /\ user[k] = user[l] => k = l

Covered == \E user \in [Keys -> Tasks \cup {None}] : UsedBy(user)

CounterInv ==
    /\ \A i \in 1 .. Len(entries) : entries[i].key = Counter => entries[i].expires_at = Never
    /\ Covered

LEMMA LaterThinner ==
    ASSUME NEW t, NEW u, NEW x, Thinner(t, u, x), NEW k, Later(u, k)
    PROVE  Later(t, k) /\ k # x
<1>1. PICK c \in 1 .. Len(u), i \in 1 .. Len(u) : c < i /\ u[c].key = Counter /\ u[i].key = k
  BY DEF Later
<1>2. u[i].key # x
  BY DEF Thinner
<1>3. PICK d \in 1 .. Len(t), j \in 1 .. Len(t) : d < j /\ u[c] = t[d] /\ u[i] = t[j]
  BY <1>1 DEF Thinner
<1> QED
  BY <1>1, <1>2, <1>3 DEF Later

LEMMA LaterFiled ==
    ASSUME NEW t, NEW w, NEW e, Filed(t, w, e), NEW k, Later(w, k)
    PROVE  e.key # Counter /\ (k = e.key \/ Later(t, k))
<1>1. PICK c \in 1 .. Len(w), i \in 1 .. Len(w) : c < i /\ w[c].key = Counter /\ w[i].key = k
  BY DEF Later
<1>2. e.key # Counter
  <2>1. SUFFICES ASSUME e.key = Counter PROVE FALSE
    OBVIOUS
  <2>2. Len(w) \in 1 .. Len(w) /\ w[Len(w)] = e
    BY DEF Filed
  <2>3. c = Len(w)
    BY <1>1, <2>1, <2>2 DEF Filed, Table
  <2> QED
    BY <1>1, <2>3
<1>3. k = e.key \/ Later(t, k)
  BY <1>1, ZenonT(30) DEF Filed, Later
<1> QED
  BY <1>2, <1>3

(* The counter's entry has no lifetime, whatever is got and set. *)
LEMMA NeverExpires ==
    ASSUME BackendInv, CounterInv, [Next]_vars
    PROVE  \A i \in 1 .. Len(entries') : entries'[i].key = Counter => entries'[i].expires_at = Never
<1> DEFINE Same == \A m \in 1 .. Len(entries') : \E i \in 1 .. Len(entries) : entries'[m] = entries[i]
<1>0. /\ MemoryTyped /\ Counter \in Keys /\ Answers \subseteq Keys
      /\ \A i \in 1 .. Len(entries) : entries[i].key = Counter => entries[i].expires_at = Never
  BY DEF BackendInv, Counter, Keys, CounterInv
<1>1. CASE Same
  BY <1>0, <1>1
<1>2. ASSUME NEW t, NEW k, GetBy(t, k) PROVE Same
  <2>1. CASE using = "memory" /\ Usable(k)
    <3>1. Filed(entries, AfterGet(k), entries[Place(k)]) /\ Place(k) \in 1 .. Len(entries)
      BY <1>0, <2>1, GetFacts DEF MemoryTyped
    <3> QED
      BY <1>2, <2>1, <3>1 DEF GetBy, Filed
  <2>2. CASE using = "memory" /\ ~Usable(k)
    <3>1. entries' = Without(k) /\ Thinner(entries, Without(k), k)
      BY <1>0, <1>2, <2>2, GetFacts, WithoutFacts DEF GetBy, MemoryTyped
    <3> QED
      BY <3>1 DEF Thinner
  <2>3. CASE using # "memory"
    BY <1>2, <2>3 DEF GetBy
  <2> QED
    BY <2>1, <2>2, <2>3
<1>3. ASSUME NEW t, NEW k \in Keys, NEW v \in Values, SetBy(t, k, v)
      PROVE  \A i \in 1 .. Len(entries') :
                entries'[i].key = Counter => entries'[i].expires_at = Never
  <2>1. CASE using = "memory"
    <3>1. PICK e : e = [key |-> k, value |-> v, expires_at |-> Expiry(k)]
      OBVIOUS
    <3>2. e \in Entries /\ e.key = k /\ (k = Counter => e.expires_at = Never)
      BY <1>0, <3>1, BackendAssumption DEF Entries, Expiry, Never, MemoryTyped
    <3>3. Renewed(entries, Append(Without(k), e), e)
      BY <1>0, <3>2, WithoutFacts, AppendFacts DEF MemoryTyped
    <3>4. Filed(entries, AfterSet(k, v), e)
      BY <1>0, <3>1, <3>2, <3>3, FiledFacts DEF AfterSet, MemoryTyped
    <3>5. entries' = AfterSet(k, v)
      BY <1>3, <2>1 DEF SetBy
    <3> QED
      BY <1>0, <3>2, <3>4, <3>5 DEF Filed
  <2>2. CASE using # "memory"
    BY <1>0, <1>3, <2>2 DEF SetBy, memory
  <2> QED
    BY <2>1, <2>2
<1>4. ASSUME NEW t \in Tasks, resolve(t) \/ bump(t) \/ get(t) \/ set(t)
      PROVE  Same \/ \A i \in 1 .. Len(entries') :
                        entries'[i].key = Counter => entries'[i].expires_at = Never
  BY <1>0, <1>2, <1>3, <1>4 DEF resolve, bump, get, set
<1>5. ASSUME entries' = entries PROVE Same
  BY <1>5
<1>6. ASSUME NEW t \in Tasks, \/ finish(t) \/ index_remove(t) \/ index_add(t) \/ zcard(t)
                              \/ zrange(t) \/ trim(t) \/ _call_fails(t)
      PROVE  entries' = entries
  BY <1>6 DEF finish, index_remove, index_add, zcard, zrange, trim, _call_fails, memory
<1>7. CASE start \/ Tick \/ UNCHANGED vars
  <2>1. entries' = entries
    BY <1>7 DEF start, Tick, vars, memory
  <2> QED
    BY <1>1, <1>5, <2>1
<1>8. ASSUME NEW t \in Tasks, delete(t) PROVE Same
  <2>1. Thinner(entries, Without(task[t].key), task[t].key)
    BY <1>0, WithoutFacts DEF MemoryTyped
  <2>2. entries' = Without(task[t].key) \/ entries' = entries
    BY <1>8 DEF delete, memory
  <2> QED
    BY <2>1, <2>2 DEF Thinner
<1>9. CASE clear
  <2>1. entries' = <<>> \/ entries' = entries
    BY <1>9 DEF clear, memory
  <2> QED
    BY <1>1, <1>5, <2>1
<1> HIDE DEF Same
<1> QED
  BY <1>1, <1>4, <1>5, <1>6, <1>7, <1>8, <1>9 DEF Next

LEMMA NothingLater == ASSUME \A k \in Keys : ~Later(entries', k) PROVE Covered'
<1>1. PICK user \in [Keys -> Tasks \cup {None}] : user = [k \in Keys |-> None]
  OBVIOUS
<1>2. UsedBy(user)'
  BY DEF UsedBy
<1> QED
  BY <1>1, <1>2 DEF Covered

(* The same users will do, as long as they do not read the version.        *)
LEMMA SameUsers ==
    ASSUME NEW user \in [Keys -> Tasks \cup {None}], UsedBy(user),
           \A k \in Keys : Later(entries', k) => Later(entries, k) /\ Spent(user[k], k)'
    PROVE  Covered'
<1>1. UsedBy(user)'
  BY DEF UsedBy
<1> QED
  BY <1>1 DEF Covered

(* A task that had read the version has used the entry of k.               *)
LEMMA OneMoreUser ==
    ASSUME TasksTyped, NEW user \in [Keys -> Tasks \cup {None}], UsedBy(user),
           NEW t \in Tasks, task[t].pc = "resolved", NEW k \in Keys, Spent(t, k)',
           \A u \in Tasks \ {t} : task'[u] = task[u] /\ reply'[u] = reply[u],
           \A j \in Keys : Later(entries', j) => j = k \/ Later(entries, j)
    PROVE  Covered'
<1>1. PICK next \in [Keys -> Tasks \cup {None}] : next = [user EXCEPT ![k] = t]
  OBVIOUS
<1>2. next[k] = t /\ \A j \in Keys \ {k} : next[j] = user[j]
  BY <1>1
<1>3. ASSUME NEW j \in Keys \ {k}, Later(entries', j)
      PROVE  Later(entries, j) /\ user[j] # t /\ Spent(user[j], j)'
  <2>1. Later(entries, j) /\ Spent(user[j], j)
    BY <1>3 DEF UsedBy
  <2>2. user[j] # t /\ user[j] \in Tasks
    BY <2>1 DEF Spent
  <2> QED
    BY <2>1, <2>2 DEF Spent
<1>4. \A j \in Keys : Later(entries', j) => Spent(next[j], j)'
  BY <1>2, <1>3
<1>5. ASSUME NEW j \in Keys, NEW l \in Keys, Later(entries', j), Later(entries', l), next[j] = next[l]
      PROVE  j = l
  BY <1>2, <1>3, <1>5 DEF UsedBy
<1>6. UsedBy(next)'
  BY <1>4, <1>5 DEF UsedBy
<1> QED
  BY <1>6 DEF Covered

LEMMA NothingBeforeStart == ASSUME BackendInv, using # "memory", NEW k PROVE ~Later(entries, k)
BY DEF BackendInv, MemoryTyped, Later

(* Reading or writing the counter makes it the latest.                     *)
LEMMA CounterIsLatest ==
    ASSUME BackendInv, CounterInv, NEW t \in Tasks, resolve(t) \/ bump(t) PROVE Covered'
<1>1. /\ MemoryTyped /\ Counter \in Keys /\ DOMAIN entries = 1 .. Len(entries)
      /\ \A i \in 1 .. Len(entries) : entries[i].key = Counter => entries[i].expires_at = Never
  BY DEF BackendInv, MemoryTyped, Table, Counter, Keys, CounterInv
<1>2. CASE using # "memory"
  <2>1. entries' = entries
    BY <1>2 DEF resolve, bump, GetBy, SetBy, memory
  <2> QED
    BY <1>2, <2>1, NothingBeforeStart, NothingLater
<1>3. CASE using = "memory" /\ resolve(t)
  <2>1. entries' = AfterGet(Counter)
    BY <1>3 DEF resolve, GetBy
  <2>2. CASE Usable(Counter)
    <3>1. Filed(entries, entries', entries[Place(Counter)]) /\ entries[Place(Counter)].key = Counter
      BY <1>1, <2>1, <2>2, GetFacts DEF MemoryTyped
    <3> QED
      BY <3>1, LaterFiled, NothingLater
  <2>3. CASE ~Usable(Counter)
    <3>1. Thinner(entries, entries', Counter)
      BY <1>1, <2>1, <2>3, GetFacts, WithoutFacts DEF MemoryTyped
    <3>2. ASSUME NEW k, Later(entries', k) PROVE FALSE
      BY <3>1, <3>2 DEF Later, Thinner
    <3> QED
      BY <3>2, NothingLater
  <2> QED
    BY <2>2, <2>3
<1>4. CASE using = "memory" /\ bump(t)
  <2>1. PICK v \in Values : entries' = AfterSet(Counter, v)
    BY <1>4 DEF bump, SetBy
  <2>2. PICK e \in Entries : e.key = Counter /\ Filed(entries, entries', e)
    BY <1>1, <2>1, SetFacts DEF MemoryTyped
  <2> QED
    BY <2>2, LaterFiled, NothingLater
<1> QED
  BY <1>2, <1>3, <1>4

LEMMA CounterStep == BackendInv /\ CounterInv /\ [Next]_vars => CounterInv'
<1> SUFFICES ASSUME BackendInv, CounterInv, [Next]_vars PROVE Covered'
  BY NeverExpires DEF CounterInv
<1>0. /\ MemoryTyped /\ TasksTyped /\ Answers \subseteq Keys
      /\ task \in [Tasks -> TaskStates] /\ reply \in [Tasks -> Replies]
  BY DEF BackendInv, TasksTyped, Keys
<1>1. PICK user \in [Keys -> Tasks \cup {None}] : UsedBy(user)
  BY DEF CounterInv, Covered
<1>2. ASSUME NEW t \in Tasks, NEW u, NEW k, Spent(u, k),
             task'[t].pc \notin {"resolved", "got"} \/ u # t,
             \A x \in Tasks \ {t} : task'[x] = task[x] /\ reply'[x] = reply[x]
      PROVE  Spent(u, k)'
  BY <1>2 DEF Spent
<1>3. ASSUME NEW t \in Tasks, Used(t) \/ UNCHANGED reply \/ \E k : GetBy(t, k)
      PROVE  \A x \in Tasks \ {t} : reply'[x] = reply[x]
  BY <1>0, <1>3 DEF Used, GetBy
<1>4. ASSUME NEW t \in Tasks, \E s : task' = [task EXCEPT ![t] = s]
      PROVE  \A x \in Tasks \ {t} : task'[x] = task[x]
  BY <1>0, <1>4
<1>5. ASSUME UNCHANGED <<task, reply>>, entries' \in {entries, <<>>} PROVE Covered'
  <2>1. \A k \in Keys : Later(entries', k) => Later(entries, k)
    BY <1>5 DEF Later
  <2>2. \A k \in Keys : Later(entries, k) => Spent(user[k], k)'
    BY <1>1, <1>5 DEF UsedBy, Spent
  <2> QED
    BY <1>1, <2>1, <2>2, SameUsers
<1>6. CASE start \/ clear \/ Tick \/ UNCHANGED vars
  <2>1. UNCHANGED <<task, reply>> /\ entries' \in {entries, <<>>}
    BY <1>6 DEF start, clear, Tick, vars, memory
  <2> QED
    BY <1>5, <2>1
<1>7. ASSUME NEW t \in Tasks, resolve(t) \/ bump(t) PROVE Covered'
  BY <1>7, CounterIsLatest
<1>8. ASSUME NEW t \in Tasks, get(t) PROVE Covered'
  <2>1. PICK k \in Answers : task[t].pc = "resolved" /\ GetBy(t, k) /\ Goto(t, "got", k)
    BY <1>8 DEF get, At
  <2>2. /\ task'[t].pc = "got" /\ task'[t].key = k
        /\ \A u \in Tasks \ {t} : task'[u] = task[u] /\ reply'[u] = reply[u]
    BY <1>0, <1>3, <2>1 DEF Goto, Idle
  <2>3. CASE using # "memory"
    BY <2>1, <2>3, NothingBeforeStart, NothingLater DEF GetBy
  <2>4. CASE using = "memory" /\ Usable(k)
    <3>1. Filed(entries, entries', entries[Place(k)]) /\ entries[Place(k)].key = k
      BY <1>0, <2>1, <2>4, GetFacts DEF MemoryTyped, GetBy
    <3>2. \A j \in Keys : Later(entries', j) => j = k \/ Later(entries, j)
      BY <3>1, LaterFiled
    <3>3. reply'[t][2] # None
      <4>1. reply'[t] = <<k, MemoryValue(k)>>
        BY <1>0, <2>1, <2>4 DEF GetBy
      <4>2. MemoryValue(k) # None
        BY <1>0, <2>4, ReplyFacts
      <4> QED
        BY <4>1, <4>2
    <3>4. Spent(t, k)'
      BY <2>2, <3>3 DEF Spent
    <3> QED
      BY <1>0, <1>1, <2>1, <2>2, <3>2, <3>4, OneMoreUser
  <2>5. CASE using = "memory" /\ ~Usable(k)
    <3>1. Thinner(entries, entries', k)
      BY <1>0, <2>1, <2>5, GetFacts, WithoutFacts DEF MemoryTyped, GetBy
    <3>2. ASSUME NEW j \in Keys, Later(entries', j) PROVE Later(entries, j) /\ Spent(user[j], j)'
      <4>1. Later(entries, j) /\ Spent(user[j], j)
        BY <1>1, <3>1, <3>2, LaterThinner DEF UsedBy
      <4>2. user[j] # t
        BY <2>1, <4>1 DEF Spent
      <4> QED
        BY <1>2, <2>2, <4>1, <4>2
    <3> QED
      BY <1>1, <3>2, SameUsers
  <2> QED
    BY <2>3, <2>4, <2>5
<1>9. ASSUME NEW t \in Tasks, set(t) PROVE Covered'
  <2>1. PICK k \in Answers, v \in Values :
           task[t].pc = "resolved" /\ SetBy(t, k, v) /\ Goto(t, "index_add", k)
    BY <1>9 DEF set, At
  <2>2. /\ task'[t].pc = "index_add"
        /\ \A u \in Tasks \ {t} : task'[u] = task[u] /\ reply'[u] = reply[u]
    BY <1>0, <1>3, <2>1 DEF Goto, Idle, SetBy
  <2>3. CASE using # "memory"
    BY <2>1, <2>3, NothingBeforeStart, NothingLater DEF SetBy, memory
  <2>4. CASE using = "memory"
    <3>1. entries' = AfterSet(k, v)
      BY <2>1, <2>4 DEF SetBy
    <3>2. PICK e \in Entries : e.key = k /\ Filed(entries, entries', e)
      BY <1>0, <3>1, SetFacts DEF MemoryTyped
    <3>3. \A j \in Keys : Later(entries', j) => j = k \/ Later(entries, j)
      BY <3>2, LaterFiled
    <3>4. Spent(t, k)'
      BY <2>2 DEF Spent
    <3> QED
      BY <1>0, <1>1, <2>1, <2>2, <3>3, <3>4, OneMoreUser
  <2> QED
    BY <2>3, <2>4
<1>10. ASSUME NEW t \in Tasks, entries' = entries, task'[t].pc \notin {"resolved", "got"},
              \A u \in Tasks \ {t} : task'[u] = task[u] /\ reply'[u] = reply[u]
       PROVE  Covered'
  <2>1. \A k \in Keys : Later(entries, k) => Spent(user[k], k)'
    BY <1>1, <1>2, <1>10 DEF UsedBy
  <2> QED
    BY <1>1, <1>10, <2>1, SameUsers
<1>11. ASSUME NEW t \in Tasks, finish(t) \/ index_add(t) \/ _call_fails(t) \/ trim(t) PROVE Covered'
  <2>1. /\ entries' = entries
        /\ \E place : place \in {"idle", "zcard"} /\ Goto(t, place, None)
        /\ Used(t) \/ UNCHANGED reply
    BY <1>11 DEF finish, index_add, _call_fails, trim, memory
  <2>2. task'[t].pc \notin {"resolved", "got"}
    BY <1>0, <2>1 DEF Goto, Idle
  <2>3. \A u \in Tasks \ {t} : task'[u] = task[u] /\ reply'[u] = reply[u]
    BY <1>3, <1>4, <2>1 DEF Goto
  <2> QED
    BY <1>10, <2>1, <2>2, <2>3
<1>12. ASSUME NEW t \in Tasks, zcard(t) PROVE Covered'
  <2>1. /\ entries' = entries /\ UNCHANGED reply
        /\ \E n : task' = [task EXCEPT ![t] = IF n <= 0 THEN Idle
                                              ELSE [Idle EXCEPT !.pc = "zrange", !.excess = n]]
    BY <1>12 DEF zcard, memory
  <2>2. task'[t].pc \notin {"resolved", "got"}
    BY <1>0, <2>1 DEF Idle
  <2> QED
    BY <1>3, <1>4, <1>10, <2>1, <2>2
<1>13. ASSUME NEW t \in Tasks, zrange(t) PROVE Covered'
  <2>1. /\ entries' = entries /\ UNCHANGED reply
        /\ \E s : task' = [task EXCEPT ![t] = IF s = {} THEN Idle
                                              ELSE [Idle EXCEPT !.pc = "trim", !.stale = s]]
    BY <1>13 DEF zrange, memory
  <2>2. task'[t].pc \notin {"resolved", "got"}
    BY <1>0, <2>1 DEF Idle
  <2> QED
    BY <1>3, <1>4, <1>10, <2>1, <2>2
<1>14. ASSUME NEW t \in Tasks, delete(t) \/ index_remove(t) PROVE Covered'
  <2>1. PICK k : k = task[t].key
    OBVIOUS
  <2>2. task[t].pc = "got" /\ \A u \in Tasks \ {t} : task'[u] = task[u] /\ reply'[u] = reply[u]
    BY <1>3, <1>4, <1>14 DEF delete, index_remove, At, Goto
  <2>3. ASSUME NEW j \in Keys, Later(entries', j)
        PROVE  /\ Later(entries, j)
               /\ j # k \/ reply[t][2] = None
    <3>1. CASE entries' = entries /\ index_remove(t)
      BY <2>3, <3>1 DEF index_remove
    <3>2. CASE using # "memory" /\ delete(t)
      <4>1. entries' = entries
        BY <3>2 DEF delete, memory
      <4> QED
        BY <2>3, <3>2, <4>1, NothingBeforeStart
    <3>3. CASE using = "memory" /\ delete(t)
      <4>1. Thinner(entries, entries', k)
        BY <1>0, <2>1, <3>3, WithoutFacts DEF MemoryTyped, delete
      <4> QED
        BY <2>3, <4>1, LaterThinner
    <3>4. index_remove(t) => entries' = entries
      BY DEF index_remove, memory
    <3> QED
      BY <1>14, <3>1, <3>2, <3>3, <3>4
  <2>4. ASSUME NEW j \in Keys, Later(entries', j) PROVE Later(entries, j) /\ Spent(user[j], j)'
    <3>1. Later(entries, j) /\ Spent(user[j], j)
      BY <1>1, <2>3, <2>4 DEF UsedBy
    <3>2. user[j] # t
      BY <2>1, <2>2, <2>3, <2>4, <3>1 DEF Spent
    <3> QED
      BY <1>2, <2>2, <3>1, <3>2
  <2> QED
    BY <1>1, <2>4, SameUsers
<1> QED
  BY <1>6, <1>7, <1>8, <1>9, <1>11, <1>12, <1>13, <1>14 DEF Next

LEMMA CounterInvariant == Spec => []CounterInv
<1>1. Init => CounterInv
  <2>1. Init => \A k \in Keys : ~Later(entries, k)
    BY DEF Init, Later
  <2>2. (\A k \in Keys : ~Later(entries, k)) => Covered
    <3>1. PICK user \in [Keys -> Tasks \cup {None}] : user = [k \in Keys |-> None]
      OBVIOUS
    <3> QED
      BY <3>1 DEF Covered, UsedBy
  <2>3. Init => \A i \in 1 .. Len(entries) : entries[i].key = Counter => entries[i].expires_at = Never
    BY DEF Init
  <2> QED
    BY <2>1, <2>2, <2>3 DEF CounterInv
<1> QED
  BY <1>1, CounterStep, BackendInvariant, PTL DEF Spec

(* A full table whose oldest entry is the counter takes as many tasks as   *)
(* it has other entries, and none of them has just read the version.       *)
LEMMA FullTable ==
    ASSUME BackendInv, CounterInv, Len(entries) = max_entries, entries[1].key = Counter,
           NEW t \in Tasks, task[t].pc = "resolved"
    PROVE  max_entries <= Cardinality(Tasks)
<1>1. /\ max_entries \in Nat \ {0} /\ IsFiniteSet(Tasks)
      /\ Table(entries) /\ entries \in Seq(Entries)
      /\ \A i \in 1 .. max_entries : entries[i].key \in Keys
  <2>1. max_entries \in Nat \ {0} /\ IsFiniteSet(Tasks)
    BY BackendAssumption
  <2>2. Table(entries) /\ entries \in Seq(Entries)
    BY DEF BackendInv, MemoryTyped, Table
  <2>3. \A i \in 1 .. Len(entries) : entries[i] \in Entries
    BY <2>2
  <2> QED
    BY <2>1, <2>2, <2>3 DEF Entries
<1>2. PICK user \in [Keys -> Tasks \cup {None}] : UsedBy(user)
  BY DEF CounterInv, Covered
<1>3. ASSUME NEW i \in 2 .. max_entries
      PROVE  Later(entries, entries[i].key) /\ user[entries[i].key] \in Tasks \ {t}
  <2>1. Later(entries, entries[i].key)
    <3>1. 1 \in 1 .. Len(entries) /\ i \in 1 .. Len(entries) /\ 1 < i
      BY <1>1
    <3> QED
      BY <3>1 DEF Later
  <2>2. Spent(user[entries[i].key], entries[i].key)
    BY <1>1, <1>2, <2>1 DEF UsedBy
  <2> QED
    BY <2>1, <2>2 DEF Spent
<1>4. PICK f : f = [i \in 2 .. max_entries |-> user[entries[i].key]]
  OBVIOUS
<1>5. f \in [2 .. max_entries -> Tasks \ {t}]
  BY <1>3, <1>4
<1>6. ASSUME NEW i \in 2 .. max_entries, NEW j \in 2 .. max_entries, f[i] = f[j] PROVE i = j
  <2>1. entries[i].key = entries[j].key
    BY <1>1, <1>2, <1>3, <1>4, <1>6 DEF UsedBy
  <2> QED
    BY <1>1, <2>1 DEF Table
<1>7. f \in Injection(2 .. max_entries, Tasks \ {t})
  BY <1>5, <1>6 DEF Injection, IsInjective
<1>8. /\ IsFiniteSet(Tasks \ {t}) /\ Cardinality(Tasks \ {t}) = Cardinality(Tasks) - 1
      /\ Cardinality(Tasks) \in Nat
  BY <1>1, FS_RemoveElement, FS_CardinalityType
<1>9. Cardinality(2 .. max_entries) <= Cardinality(Tasks \ {t})
  BY <1>7, <1>8, FS_Injection
<1>10. Cardinality(2 .. max_entries) = IF 2 > max_entries THEN 0 ELSE max_entries - 2 + 1
  BY <1>1, FS_Interval
<1>11. 1 <= Cardinality(Tasks)
  BY <1>1, <1>8, FS_EmptySet
<1> QED
  BY <1>1, <1>8, <1>9, <1>10, <1>11

(* No get and no set of another key loses the counter, and its own keeps it. *)
LEMMA CounterStays ==
    ASSUME BackendInv, CounterInv, Cardinality(Tasks) < max_entries,
           Holds(Counter), [Next]_vars
    PROVE  Holds(Counter)' \/ entries' = <<>>
<1> DEFINE Kept(w) == \E m \in 1 .. Len(w) : w[m].key = Counter
<1>0. /\ MemoryTyped /\ Table(entries) /\ Len(entries) <= max_entries /\ Counter \in Keys
      /\ Counter \notin Answers /\ Answers \subseteq Keys
      /\ entries \in Seq(Entries) /\ DOMAIN entries = 1 .. Len(entries)
      /\ IsFiniteSet(Tasks) /\ Cardinality(Tasks) \in Nat /\ max_entries \in Nat
  BY BackendAssumption, FS_CardinalityType DEF BackendInv, MemoryTyped, Table, Counter, Keys
<1>1. PICK c \in 1 .. Len(entries) : entries[c].key = Counter
  BY <1>0 DEF Holds
<1>2. ASSUME Kept(entries') PROVE Holds(Counter)'
  <2>1. Table(entries')
    BY MemoryStep DEF MemoryTyped
  <2> QED
    BY <1>2, <2>1 DEF Holds, Table
<1>3. ASSUME entries' = entries PROVE Kept(entries')
  BY <1>1, <1>3
<1>4. ASSUME NEW k \in Answers, Thinner(entries, entries', k) PROVE Kept(entries')
  <2>1. entries[c].key # k
    BY <1>0, <1>1
  <2> QED
    BY <1>1, <1>4, <2>1 DEF Thinner
<1>5. ASSUME NEW e, e.key = Counter, Filed(entries, entries', e) PROVE Kept(entries')
  <2>1. Len(entries') \in 1 .. Len(entries') /\ entries'[Len(entries')].key = Counter
    BY <1>5 DEF Filed
  <2> QED
    BY <2>1
<1>6. ASSUME NEW t \in Tasks, NEW k \in Answers, GetBy(t, k) PROVE Kept(entries')
  <2>1. CASE using # "memory"
    BY <1>3, <1>6, <2>1 DEF GetBy
  <2>2. CASE using = "memory" /\ Usable(k)
    <3>1. Renewed(entries, entries', entries[Place(k)]) /\ entries[Place(k)].key = k
      BY <1>0, <1>6, <2>2, GetFacts DEF GetBy
    <3>2. PICK e : e = entries[Place(k)]
      OBVIOUS
    <3>3. entries[c].key # e.key /\ Renewed(entries, entries', e)
      BY <1>0, <1>1, <3>1, <3>2
    <3>4. \E m \in 1 .. Len(entries') : entries'[m] = entries[c]
      BY <1>1, <3>3 DEF Renewed
    <3> QED
      BY <1>1, <3>4
  <2>3. CASE using = "memory" /\ ~Usable(k)
    <3>1. entries' = Without(k) /\ Thinner(entries, Without(k), k)
      BY <1>0, <1>6, <2>3, GetFacts, WithoutFacts DEF GetBy
    <3> QED
      BY <1>4, <3>1
  <2> QED
    BY <2>1, <2>2, <2>3
<1>7. ASSUME NEW t \in Tasks, resolve(t) PROVE Kept(entries')
  <2>1. CASE using # "memory"
    BY <1>3, <1>7, <2>1 DEF resolve, GetBy
  <2>2. CASE using = "memory"
    <3>1. Place(Counter) \in 1 .. Len(entries) /\ entries[Place(Counter)].key = Counter
      BY <1>0, WithoutFacts
    <3>2. Usable(Counter)
      BY <3>1 DEF CounterInv, Usable, Live
    <3>3. Filed(entries, entries', entries[Place(Counter)])
      BY <1>0, <1>7, <2>2, <3>2, GetFacts DEF resolve, GetBy
    <3> QED
      BY <1>5, <3>1, <3>3
  <2> QED
    BY <2>1, <2>2
<1>8. ASSUME NEW t \in Tasks, bump(t) PROVE Kept(entries')
  <2>1. PICK v \in Values : SetBy(t, Counter, v)
    BY <1>8 DEF bump
  <2>2. CASE using # "memory"
    BY <1>3, <2>1, <2>2 DEF SetBy, memory
  <2>3. CASE using = "memory"
    <3>1. PICK e \in Entries : e.key = Counter /\ Filed(entries, entries', e)
      BY <1>0, <2>1, <2>3, SetFacts DEF SetBy, MemoryTyped
    <3> QED
      BY <1>5, <3>1
  <2> QED
    BY <2>2, <2>3
<1>9. ASSUME NEW t \in Tasks, set(t) PROVE Kept(entries')
  <2>1. PICK k \in Answers, v \in Values : task[t].pc = "resolved" /\ SetBy(t, k, v)
    BY <1>9 DEF set, At
  <2>2. CASE using # "memory"
    BY <1>3, <2>1, <2>2 DEF SetBy, memory
  <2>3. CASE using = "memory"
    <3>1. PICK e \in Entries : e.key = k /\ Filed(entries, entries', e)
      BY <1>0, <2>1, <2>3, SetFacts DEF SetBy, MemoryTyped
    <3>2. entries[c].key # e.key
      BY <1>0, <1>1, <3>1
    <3>3. (\E m \in 1 .. Len(entries') : entries'[m] = entries[c]) \/ (c = 1 /\ Len(entries) = max_entries)
      BY <1>1, <3>1, <3>2 DEF Filed
    <3>4. ASSUME c = 1, Len(entries) = max_entries PROVE FALSE
      <4>1. entries[1].key = Counter /\ task[t].pc = "resolved"
        BY <1>1, <2>1, <3>4
      <4>2. max_entries <= Cardinality(Tasks)
        BY <3>4, <4>1, FullTable
      <4> QED
        BY <1>0, <4>2
    <3> QED
      BY <1>1, <3>3, <3>4
  <2> QED
    BY <2>2, <2>3
<1>10. ASSUME NEW t \in Tasks, delete(t) PROVE Kept(entries')
  <2>1. task[t].key \in Answers
    BY <1>10 DEF delete, At, BackendInv, TasksTyped
  <2>2. Thinner(entries, Without(task[t].key), task[t].key)
    BY <1>0, WithoutFacts
  <2>3. entries' = Without(task[t].key) \/ entries' = entries
    BY <1>10 DEF delete, memory
  <2> QED
    BY <1>3, <1>4, <2>1, <2>2, <2>3
<1>11. ASSUME NEW t \in Tasks, \/ finish(t) \/ index_remove(t) \/ index_add(t) \/ zcard(t)
                               \/ zrange(t) \/ trim(t) \/ _call_fails(t)
       PROVE  entries' = entries
  BY <1>11 DEF finish, index_remove, index_add, zcard, zrange, trim, _call_fails, memory
<1>12. CASE start \/ clear \/ Tick \/ UNCHANGED vars
  <2>1. entries' \in {entries, <<>>}
    BY <1>12 DEF start, clear, Tick, vars, memory
  <2> QED
    BY <1>2, <1>3, <2>1
<1>13. ASSUME NEW t \in Tasks, get(t) PROVE Kept(entries')
  BY <1>6, <1>13 DEF get
<1> HIDE DEF Kept
<1> QED
  BY <1>2, <1>3, <1>7, <1>8, <1>9, <1>10, <1>11, <1>12, <1>13 DEF Next

(* The version counter is never evicted from the in-memory backend, only   *)
(* cleared with it, as long as fewer tasks use the backend at once than it *)
(* has entries: the default is 4096.                                       *)
THEOREM CounterSurvives ==
    ASSUME Cardinality(Tasks) < max_entries PROVE Spec => CounterIsNeverEvicted
<1>1. BackendInv /\ CounterInv /\ [Next]_vars => [Holds(Counter) => Holds(Counter)' \/ entries' = <<>>]_vars
  BY CounterStays
<1> QED
  BY <1>1, CounterInvariant, BackendInvariant, PTL DEF Spec, CounterIsNeverEvicted

=============================================================================
