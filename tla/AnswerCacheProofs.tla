------------------------- MODULE AnswerCacheProofs -------------------------
(***************************************************************************)
(* Proofs about AnswerCache, for any number of processes, requests,        *)
(* ingestions, questions and sessions, with failures of the backend at     *)
(* every call.                                                             *)
(*                                                                         *)
(* CacheInv says what each request carries at each place and that only     *)
(* accepted answers are held; that it is typed at all needs a bound on the *)
(* version, which is never more than the number of ingestions that are     *)
(* over.  AloneInv and FreshInv build on it, one for the conversations     *)
(* that requests see, the other for ingestions that share a process.  The  *)
(* last section shows that the ingestions the cache lives with implement   *)
(* IndexUpdate, for which ProgressInv ties an announcement to the bump     *)
(* that ends an ingestion and the bump to the rows written before it.      *)
(***************************************************************************)
EXTENDS AnswerCache, FiniteSetTheorems, TLAPS

-----------------------------------------------------------------------------
(* Ingestions *)

IngestPlaces == {"writing", "announce", "bump", "done", "failed"}

(* The ingestions that are over, announced or not. *)
Finished == {i \in Ingests : ingest[i].pc \in {"done", "failed"}}

IngestTypes ==
    /\ kb \in Versions \cup {None}
    /\ last_known \in [Processes -> Versions]
    /\ ingest \in [Ingests -> [pc : IngestPlaces, read : Versions \cup {None}]]
    /\ locked \in [Processes -> Ingests \cup {None}]
    /\ announced \subseteq Ingests
    /\ corpus \subseteq Chunks

(* An ingestion between the read and the write of its bump holds the lock. *)
BumpsAreLocked ==
    \A i \in Ingests : ingest[i].pc = "bump" =>
        locked[IngestAt[i]] = i /\ ingest[i].read \in Versions

(* No version in sight is above n. *)
AtMost(n) ==
    /\ kb # None => kb <= n
    /\ \A p \in Processes : last_known[p] <= n
    /\ \A i \in Ingests : ingest[i].pc = "bump" => ingest[i].read <= n

(* Each version is the work of an ingestion that is over. *)
VersionsAreSpent == AtMost(Cardinality(Finished))

IngestInv == IngestTypes /\ BumpsAreLocked /\ LocksAreReleased /\ VersionsAreSpent

LEMMA VersionTypes ==
    /\ Cardinality(Ingests) \in Nat
    /\ Versions \subseteq Nat
    /\ 0 \in Versions
    /\ \A n \in Nat : n <= Cardinality(Ingests) => n \in Versions
    /\ \A v \in Versions : v \in Nat /\ v <= Cardinality(Ingests) /\ v # None
<1>1. Cardinality(Ingests) \in Nat
  BY FS_CardinalityType, CacheAssumption
<1> QED
  BY <1>1, CacheAssumption DEF Versions

LEMMA FinishedCounts ==
  ASSUME NEW S, S \subseteq Ingests
  PROVE  /\ IsFiniteSet(S) /\ Cardinality(S) \in Nat
         /\ Cardinality(S) \in Versions
         /\ \A i \in Ingests : i \notin S =>
               /\ Cardinality(S \cup {i}) = Cardinality(S) + 1
               /\ Cardinality(S) + 1 \in Versions
<1>1. IsFiniteSet(S) /\ Cardinality(S) \in Nat /\ Cardinality(S) <= Cardinality(Ingests)
  BY FS_Subset, FS_CardinalityType, CacheAssumption
<1>2. ASSUME NEW i \in Ingests, i \notin S
      PROVE  Cardinality(S \cup {i}) = Cardinality(S) + 1 /\ Cardinality(S) + 1 \in Versions
  <2>1. Cardinality(S \cup {i}) = Cardinality(S) + 1
    BY <1>1, <1>2, FS_AddElement
  <2>2. S \cup {i} \subseteq Ingests
    BY <1>2
  <2>3. Cardinality(S \cup {i}) <= Cardinality(Ingests)
    BY <2>2, FS_Subset, CacheAssumption
  <2>4. Cardinality(S) + 1 \in Nat
    BY <1>1
  <2> QED
    BY <2>1, <2>3, <2>4, VersionTypes
<1> QED
  BY <1>1, <1>2, VersionTypes

(* The current version of a process is a version, and is spent. *)
LEMMA CurrentVersion ==
  ASSUME IngestInv, NEW p \in Processes
  PROVE  current(p) \in Versions /\ current(p) <= Cardinality(Finished)
BY DEF IngestInv, IngestTypes, VersionsAreSpent, AtMost, current

(* An ingestion that ends leaves room for one version more. *)
LEMMA OneMoreFinished ==
  ASSUME NEW i \in Ingests, i \notin Finished, Finished' = Finished \cup {i}
  PROVE  /\ Cardinality(Finished)' = Cardinality(Finished) + 1
         /\ Cardinality(Finished) + 1 \in Versions
         /\ Cardinality(Finished) \in Nat
<1>1. Finished \subseteq Ingests
  BY DEF Finished
<1> QED
  BY <1>1, FinishedCounts

LEMMA MoreIsEnough ==
  ASSUME IngestTypes, BumpsAreLocked, NEW n \in Nat, NEW m \in Nat, n <= m, AtMost(n)
  PROVE  AtMost(m)
<1>1. kb # None => kb \in Nat
  BY VersionTypes DEF IngestTypes
<1>2. \A p \in Processes : last_known[p] \in Nat
  BY VersionTypes DEF IngestTypes
<1>3. \A i \in Ingests : ingest[i].pc = "bump" => ingest[i].read \in Nat
  BY VersionTypes DEF BumpsAreLocked
<1> QED
  BY <1>1, <1>2, <1>3 DEF AtMost

LEMMA InitIngests == Init => IngestInv
<1> SUFFICES ASSUME Init PROVE IngestInv
  OBVIOUS
<1>1. IngestTypes
  BY VersionTypes DEF Init, IngestTypes, IngestPlaces
<1>2. BumpsAreLocked /\ LocksAreReleased
  BY DEF Init, BumpsAreLocked, LocksAreReleased
<1>3. Finished \subseteq Ingests
  BY DEF Finished
<1>4. Cardinality(Finished) \in Nat
  BY <1>3, FinishedCounts
<1>5. VersionsAreSpent
  BY <1>4 DEF Init, VersionsAreSpent, AtMost
<1> QED
  BY <1>1, <1>2, <1>5 DEF IngestInv

(* A lookup or a store that resolves the version. *)
LEMMA ResolvingKeepsIngests ==
  ASSUME IngestInv, NEW p \in Processes,
         last_known' = [last_known EXCEPT ![p] = current(p)],
         UNCHANGED <<kb, ingestVars>>
  PROVE  IngestInv'
<1>1. current(p) \in Versions /\ current(p) <= Cardinality(Finished)
  BY CurrentVersion
<1>2. Finished' = Finished
  BY DEF Finished, ingestVars
<1>3. IngestTypes'
  BY <1>1 DEF IngestInv, IngestTypes, ingestVars
<1>4. BumpsAreLocked' /\ LocksAreReleased'
  BY DEF IngestInv, BumpsAreLocked, LocksAreReleased, ingestVars
<1>5. VersionsAreSpent'
  BY <1>1, <1>2 DEF IngestInv, IngestTypes, VersionsAreSpent, AtMost, ingestVars
<1> QED
  BY <1>3, <1>4, <1>5 DEF IngestInv

(* What leaves the versions and the ingestions alone. *)
LEMMA RestKeepsIngests ==
  ASSUME IngestInv, UNCHANGED <<last_known, ingestVars>>, kb' \in {kb, None}
  PROVE  IngestInv'
<1>1. Finished' = Finished
  BY DEF Finished, ingestVars
<1> QED
  BY <1>1 DEF IngestInv, IngestTypes, BumpsAreLocked, LocksAreReleased, VersionsAreSpent,
              AtMost, ingestVars

LEMMA BatchKeepsIngests ==
  ASSUME IngestInv, NEW i \in Ingests, NEW b \in Batches, _index_batch(i, b)
  PROVE  IngestInv'
<1>1. Finished' = Finished
  BY DEF Finished, _index_batch, IngestInv, IngestTypes
<1>2. IngestTypes'
  BY DEF _index_batch, IngestInv, IngestTypes, IngestPlaces, Chunks, backendVars
<1>3. BumpsAreLocked' /\ LocksAreReleased'
  BY DEF _index_batch, IngestInv, IngestTypes, BumpsAreLocked, LocksAreReleased
<1>4. VersionsAreSpent'
  BY <1>1 DEF _index_batch, IngestInv, IngestTypes, VersionsAreSpent, AtMost, backendVars
<1> QED
  BY <1>2, <1>3, <1>4 DEF IngestInv

LEMMA LateWriteKeepsIngests ==
  ASSUME IngestInv, NEW i \in Ingests, NEW b \in Batches, LateWrite(i, b)
  PROVE  IngestInv'
<1>1. UNCHANGED <<kb, last_known, ingest, locked, announced>> /\ corpus' \subseteq Chunks
  BY DEF LateWrite, IngestInv, IngestTypes, Chunks, backendVars
<1>2. Finished' = Finished
  BY <1>1 DEF Finished
<1> QED
  BY <1>1, <1>2 DEF IngestInv, IngestTypes, BumpsAreLocked, LocksAreReleased, VersionsAreSpent,
                    AtMost

LEMMA FailedIngestKeepsIngests ==
  ASSUME IngestInv, NEW i \in Ingests, IngestFails(i)
  PROVE  IngestInv'
<1>1. i \notin Finished /\ Finished' = Finished \cup {i}
  BY DEF Finished, IngestFails, IngestInv, IngestTypes
<1>2. Cardinality(Finished)' = Cardinality(Finished) + 1 /\ Cardinality(Finished) \in Nat
  BY <1>1, OneMoreFinished
<1>3. IngestTypes'
  BY DEF IngestFails, IngestInv, IngestTypes, IngestPlaces, backendVars
<1>4. BumpsAreLocked' /\ LocksAreReleased'
  BY DEF IngestFails, IngestInv, IngestTypes, BumpsAreLocked, LocksAreReleased
<1>5. AtMost(Cardinality(Finished) + 1)
  BY <1>2, MoreIsEnough DEF IngestInv, VersionsAreSpent
<1>6. VersionsAreSpent'
  BY <1>2, <1>5 DEF IngestFails, IngestInv, IngestTypes, VersionsAreSpent, AtMost, backendVars
<1> QED
  BY <1>3, <1>4, <1>6 DEF IngestInv

LEMMA BumpReadKeepsIngests ==
  ASSUME IngestInv, NEW i \in Ingests, BumpRead(i)
  PROVE  IngestInv'
<1> DEFINE p == IngestAt[i]
<1>0. p \in Processes
  BY CacheAssumption
<1>1. current(p) \in Versions /\ current(p) <= Cardinality(Finished)
  BY <1>0, CurrentVersion
<1>2. Finished' = Finished
  BY DEF Finished, BumpRead, IngestInv, IngestTypes
<1>3. IngestTypes'
  BY <1>0, <1>1 DEF BumpRead, IngestInv, IngestTypes, IngestPlaces, backendVars
<1>4. BumpsAreLocked'
  BY <1>0, <1>1, CacheAssumption DEF BumpRead, IngestInv, IngestTypes, BumpsAreLocked
<1>5. LocksAreReleased'
  BY <1>0, CacheAssumption DEF BumpRead, IngestInv, IngestTypes, LocksAreReleased
<1>6. VersionsAreSpent'
  BY <1>0, <1>1, <1>2 DEF BumpRead, IngestInv, IngestTypes, VersionsAreSpent, AtMost, backendVars
<1> QED
  BY <1>3, <1>4, <1>5, <1>6 DEF IngestInv

(* A bump that is over, whatever it wrote: the version before or the next. *)
LEMMA BumpEndKeepsIngests ==
  ASSUME IngestInv, NEW i \in Ingests, NEW next,
         ingest[i].pc = "bump", next = NextVersion(ingest[i].read),
         kb' \in {kb, next},
         last_known' \in {last_known, [last_known EXCEPT ![IngestAt[i]] = next]},
         locked' = [locked EXCEPT ![IngestAt[i]] = None],
         ingest' = [ingest EXCEPT ![i] = [pc |-> "done", read |-> None]],
         announced' \subseteq Ingests, corpus' = corpus
  PROVE  IngestInv'
<1>0. IngestAt[i] \in Processes
  BY CacheAssumption
<1>1. i \notin Finished /\ Finished' = Finished \cup {i}
  BY DEF Finished, IngestInv, IngestTypes
<1>2. PICK n : n = Cardinality(Finished)
  OBVIOUS
<1>3. Cardinality(Finished)' = n + 1 /\ n \in Nat /\ n + 1 \in Versions
  BY <1>1, <1>2, OneMoreFinished
<1>4. ingest[i].read \in Versions /\ ingest[i].read <= n
  BY <1>2 DEF IngestInv, BumpsAreLocked, VersionsAreSpent, AtMost
<1>5. next \in Nat /\ next <= n + 1
  <2>1. PICK a \in Nat : a = ingest[i].read
    BY <1>4, VersionTypes
  <2>2. next = a + 1 /\ a <= n
    BY <1>4, <2>1 DEF NextVersion
  <2> QED
    BY <1>3, <2>2
<1>6. next \in Versions
  BY <1>3, <1>5, VersionTypes DEF Versions
<1>7. IngestTypes'
  BY <1>0, <1>6 DEF IngestInv, IngestTypes, IngestPlaces
<1>8. BumpsAreLocked'
  <2>1. \A j \in Ingests : j # i /\ ingest[j].pc = "bump" => IngestAt[j] # IngestAt[i]
    BY DEF IngestInv, BumpsAreLocked
  <2> QED
    BY <1>0, <2>1, CacheAssumption DEF IngestInv, IngestTypes, BumpsAreLocked
<1>9. LocksAreReleased'
  <2>1. locked[IngestAt[i]] = i
    BY DEF IngestInv, BumpsAreLocked
  <2> QED
    BY <1>0, <2>1, CacheAssumption DEF IngestInv, IngestTypes, LocksAreReleased
<1>10. AtMost(n + 1)
  BY <1>2, <1>3, MoreIsEnough DEF IngestInv, VersionsAreSpent
<1>11. AtMost(n + 1)'
  BY <1>0, <1>5, <1>10 DEF IngestInv, IngestTypes, AtMost
<1>12. VersionsAreSpent'
  BY <1>3, <1>11 DEF VersionsAreSpent
<1> QED
  BY <1>7, <1>8, <1>9, <1>12 DEF IngestInv

LEMMA BumpFailsKeepsIngests ==
  ASSUME IngestInv, NEW i \in Ingests, BumpFails(i)
  PROVE  IngestInv'
<1>1. CASE ingest[i].pc = "bump"
  BY <1>1, BumpEndKeepsIngests DEF BumpFails, IngestInv, IngestTypes
<1>2. CASE ingest[i].pc # "bump"
  <2>0. ingest[i].pc = "announce" /\ UNCHANGED <<kb, locked>>
    BY <1>2 DEF BumpFails
  <2>1. i \notin Finished /\ Finished' = Finished \cup {i}
    BY <2>0 DEF Finished, BumpFails, IngestInv, IngestTypes
  <2>2. Cardinality(Finished)' = Cardinality(Finished) + 1 /\ Cardinality(Finished) \in Nat
    BY <2>1, OneMoreFinished
  <2>3. IngestTypes'
    BY <2>0 DEF BumpFails, IngestInv, IngestTypes, IngestPlaces
  <2>4. BumpsAreLocked' /\ LocksAreReleased'
    BY <2>0 DEF BumpFails, IngestInv, IngestTypes, BumpsAreLocked, LocksAreReleased
  <2>5. AtMost(Cardinality(Finished) + 1)
    BY <2>2, MoreIsEnough DEF IngestInv, VersionsAreSpent
  <2>6. VersionsAreSpent'
    BY <2>0, <2>2, <2>5 DEF BumpFails, IngestInv, IngestTypes, VersionsAreSpent, AtMost
  <2> QED
    BY <2>3, <2>4, <2>6 DEF IngestInv
<1> QED
  BY <1>1, <1>2

LEMMA IngestsKeepTheInvariant ==
  ASSUME IngestInv, NEW i \in Ingests, Ingest(i)
  PROVE  IngestInv'
<1>1. CASE \E b \in Batches : _index_batch(i, b)
  BY <1>1, BatchKeepsIngests
<1>2. CASE BumpWrite(i)
  <2>1. announced' \subseteq Ingests
    BY <1>2 DEF BumpWrite, IngestInv, IngestTypes
  <2> QED
    BY <1>2, <2>1, BumpEndKeepsIngests DEF BumpWrite
<1> QED
  BY <1>1, <1>2, LateWriteKeepsIngests, FailedIngestKeepsIngests, BumpReadKeepsIngests, BumpFailsKeepsIngests DEF Ingest

(* Which actions leave the versions and the ingestions alone. *)
LEMMA RequestsKeepIngests ==
  ASSUME IngestInv, NEW r \in Requests, Begin(r) \/ Serve(r) \/ Abandon(r)
  PROVE  IngestInv'
<1>0. RequestAt[r] \in Processes
  BY CacheAssumption
<1>1. CASE Resolve(r)
  BY <1>0, <1>1, ResolvingKeepsIngests DEF Resolve
<1>2. CASE StoreResolve(r)
  BY <1>0, <1>2, ResolvingKeepsIngests DEF StoreResolve
<1>3. CASE UNCHANGED <<kb, last_known, ingestVars>>
  BY <1>3, RestKeepsIngests
<1>4. CASE ~Resolve(r) /\ ~StoreResolve(r)
  <2>1. UNCHANGED <<kb, last_known, ingestVars>>
    BY <1>4 DEF Begin, Serve, Abandon, LookupFails, _exact, Discard, _semantic, Probe,
                Unindex, _remember, LoadMemory, Retrieve, Finish, StoreSet, StoreIndex, StoreFails
  <2> QED
    BY <2>1, <1>3
<1> QED
  BY <1>1, <1>2, <1>4

LEMMA IngestsNext == IngestInv /\ [Next]_vars => IngestInv'
<1> SUFFICES ASSUME IngestInv, [Next]_vars PROVE IngestInv'
  OBVIOUS
<1>1. CASE \E r \in Requests : Begin(r) \/ Serve(r) \/ Abandon(r)
  BY <1>1, RequestsKeepIngests
<1>2. CASE \E i \in Ingests : Ingest(i)
  BY <1>2, IngestsKeepTheInvariant
<1>3. CASE UNCHANGED <<last_known, ingestVars>> /\ kb' \in {kb, None}
  BY <1>3, RestKeepsIngests
<1>4. CASE (\E k \in Keys : Evict(k) \/ Trim(k)) \/ Flush \/ Tick \/ UNCHANGED vars
  <2>1. UNCHANGED <<last_known, ingestVars>> /\ kb' \in {kb, None}
    BY <1>4 DEF Evict, Trim, Flush, Tick, vars, backendVars, ingestVars
  <2> QED
    BY <2>1, <1>3
<1> QED
  BY <1>1, <1>2, <1>4 DEF Next

(* The lock of a bump is held only by an ingestion between its read and    *)
(* its write: whichever backend call failed, no later ingestion of the     *)
(* process waits for a lock nobody will release.                           *)
THEOREM LocksHold == Spec => []LocksAreReleased
<1>1. IngestInv => LocksAreReleased
  BY DEF IngestInv
<1> QED
  BY <1>1, InitIngests, IngestsNext, PTL DEF Spec

-----------------------------------------------------------------------------
(* Requests and answers *)

Requested ==
    [pc : Places, question : Questions, session : Sessions \cup {None},
     overlapped : BOOLEAN, standalone : BOOLEAN, version : Versions \cup {None},
     lookedUp : Versions \cup {None}, known : SUBSET Ingests, key : Keys \cup {None},
     candidates : SUBSET Keys, basis : SUBSET Chunks, context : BOOLEAN,
     result : Entries \cup Carried \cup {None}]

(* An answer the critic stood behind. *)
Good(e) == e.answer \notin {"empty", "no_context"} /\ Accepts(e.verdict) /\ ~e.toolFailed

LookupPlaces == {"exact", "discard", "semantic", "probe", "unindex"}

(* What a request carries where it is. *)
Placed(x) ==
    /\ x.pc \in LookupPlaces \cup {"remember", "served"} => x.lookedUp \in Versions
    /\ x.pc \in {"exact", "discard", "unindex"} => x.key \in Keys
    /\ x.pc \in {"set", "index_add"} => x.version \in Versions
    /\ x.pc \in {"store", "set", "index_add"} => x.result \in StorableOutcomes
    /\ x.pc \in {"remember", "served"} => x.result \in Entries /\ Good(x.result)

BackendTypes ==
    /\ entries \in [Keys -> Entries \cup {None}]
    /\ index \subseteq Keys
    /\ now \in 0 .. MaxTime
    /\ flushes \in 0 .. Flushes
    /\ history \subseteq Sessions

OnlyGoodIsHeld == \A k \in Keys : entries[k] # None => Good(entries[k])

RequestInv ==
    /\ request \in [Requests -> Requested]
    /\ \A r \in Requests : Placed(request[r])

CacheInv == IngestInv /\ BackendTypes /\ OnlyGoodIsHeld /\ RequestInv

(* An accepted answer is no refusal: the refusal's verdict is insufficient. *)
LEMMA StorableIsGood ==
  ASSUME NEW res \in StorableOutcomes
  PROVE  res \in Carried /\ Good(res)
<1>1. PICK full \in LegalResults :
         res = [answer |-> full.answer, verdict |-> full.verdict, toolFailed |-> full.toolFailed]
  BY DEF StorableOutcomes, Outcomes
<1>2. full \in Results /\ Legal(full)
  BY DEF LegalResults
<1>3. res \in Carried
  BY <1>1, <1>2 DEF Results, Carried
<1>4. res.answer # "empty" /\ Accepts(res.verdict) /\ ~res.toolFailed
  BY DEF StorableOutcomes, Storable
<1>5. res.answer # "no_context"
  BY <1>1, <1>2, <1>4 DEF Legal, Accepts
<1> QED
  BY <1>3, <1>4, <1>5 DEF Good

LEMMA EntryIsGood ==
  ASSUME CacheInv, NEW r \in Requests, request[r].pc = "set"
  PROVE  /\ _entry(r) \in Entries /\ Good(_entry(r))
         /\ <<request[r].version, request[r].question>> \in Keys
<1>1. request[r].result \in Carried /\ Good(request[r].result)
  BY StorableIsGood DEF CacheInv, RequestInv, Placed
<1>2. request[r] \in Requested /\ request[r].version \in Versions
  BY DEF CacheInv, RequestInv, Placed
<1>3. now + ttl \in Nat
  BY CacheAssumption DEF CacheInv, BackendTypes
<1>4. _entry(r) \in Entries
  BY <1>1, <1>2, <1>3 DEF _entry, Entries, Carried, Requested
<1>5. Good(_entry(r))
  BY <1>1 DEF Good, _entry
<1> QED
  BY <1>2, <1>4, <1>5 DEF Keys, Requested

LEMMA InitCache == Init => CacheInv
<1> SUFFICES ASSUME Init PROVE CacheInv
  OBVIOUS
<1>1. IngestInv
  BY InitIngests
<1>2. BackendTypes /\ OnlyGoodIsHeld
  BY CacheAssumption DEF Init, BackendTypes, OnlyGoodIsHeld
<1>3. ASSUME NEW q \in Questions, NEW s \in Sessions \cup {None}
      PROVE  Bare("idle", q, s) \in Requested /\ Placed(Bare("idle", q, s))
  BY <1>3 DEF Bare, Requested, Places, Placed, LookupPlaces
<1>4. RequestInv
  BY <1>3 DEF Init, RequestInv
<1> QED
  BY <1>1, <1>2, <1>4 DEF CacheInv

(* A request that has moved carries what its place calls for, and no other *)
(* request has moved.                                                      *)
Moved(r) ==
    /\ request' \in [Requests -> Requested]
    /\ Placed(request'[r])
    /\ \A q \in Requests : q # r => request'[q] = request[q]

LEMMA EndMoves ==
  ASSUME CacheInv, NEW r \in Requests, NEW place \in {"answered", "raised"}, End(r, place)
  PROVE  Moved(r) /\ request'[r].pc = place
<1>1. request[r] \in Requested /\ request \in [Requests -> Requested]
  BY DEF CacheInv, RequestInv
<1>2. PICK x : x = Bare(place, request[r].question, request[r].session)
  OBVIOUS
<1>3. x \in Requested /\ Placed(x) /\ x.pc = place
  BY <1>1, <1>2 DEF Bare, Requested, Places, Ended, Placed, LookupPlaces
<1>4. request' = [request EXCEPT ![r] = x]
  BY <1>2 DEF End
<1> QED
  BY <1>1, <1>3, <1>4 DEF Moved

(* The reads of the lookup: what _read finds is good and of the version    *)
(* asked for.                                                              *)
LEMMA FoundIsGood ==
  ASSUME CacheInv, NEW k \in Keys, NEW v \in Versions
  PROVE  /\ Found(k, v) \in Entries \cup {None}
         /\ Found(k, v) # None => /\ Found(k, v) = entries[k]
                                  /\ Good(Found(k, v)) /\ Found(k, v).version = v
         /\ \A missed : PlaceAfter(k, v, missed) \in {missed, "remember", "discard"}
         /\ \A missed : missed # "remember" /\ PlaceAfter(k, v, missed) = "remember" =>
               Found(k, v) # None
BY DEF CacheInv, BackendTypes, OnlyGoodIsHeld, Found, PlaceAfter, Usable, matches

(* A request that changes some of what it carries. *)
LEMMA MovedBy ==
  ASSUME request \in [Requests -> Requested], NEW r \in Requests,
         request' = [q \in Requests |-> IF q = r THEN request'[r] ELSE request[q]],
         request'[r] \in Requested, Placed(request'[r])
  PROVE  Moved(r)
BY DEF Moved

LEMMA PlaceNames ==
  /\ {"idle", "resolve", "exact", "discard", "semantic", "probe", "unindex", "remember"}
        \subseteq Places
  /\ {"load", "retrieve", "finish", "store", "set", "index_add"} \subseteq Places
  /\ {"served", "answered", "raised"} \subseteq Places
BY DEF Places, Ended

(* What a request that begins does to request x, itself or another: it    *)
(* may mark it, and it moves only itself.                                  *)
Marked(x, y) ==
    /\ y.session = x.session /\ y.question = x.question
    /\ y.version = x.version /\ y.lookedUp = x.lookedUp /\ y.known = x.known
    /\ y.basis = x.basis /\ y.context = x.context /\ y.result = x.result
    /\ x.overlapped => y.overlapped

Still(x, y) == Marked(x, y) /\ y.pc = x.pc /\ y.standalone = x.standalone

Begun(r) ==
    /\ request' \in [Requests -> Requested]
    /\ \A q \in Requests : Placed(request'[q])
    /\ \A q \in Requests : q # r => Still(request[q], request'[q])
    /\ \A q \in Requests :
          q \in Companions(r) => request'[q].overlapped /\ request'[r].overlapped
    /\ Marked([request[r] EXCEPT !.overlapped = FALSE], request'[r])
    /\ request'[r].pc \in {"resolve", "load"}
    /\ request'[r].standalone <=> request[r].session \notin history

(* A request that begins carries nothing but marks. *)
LEMMA BeginPlace ==
  ASSUME NEW x \in Requested, NEW y, NEW place \in {"resolve", "load"},
         NEW alone \in BOOLEAN, NEW mark \in BOOLEAN,
         y = [x EXCEPT !.pc = place, !.standalone = alone, !.overlapped = mark]
  PROVE  y \in Requested /\ Placed(y)
<1>1. y.pc = place /\ place \in Places
  BY PlaceNames DEF Requested
<1>2. y \in Requested
  BY <1>1 DEF Requested
<1> QED
  BY <1>1, <1>2 DEF Placed, LookupPlaces

LEMMA BeginMoves ==
  ASSUME CacheInv, NEW r \in Requests, Begin(r) PROVE Begun(r)
<1>1. request \in [Requests -> Requested] /\ \A q \in Requests : Placed(request[q])
  BY DEF CacheInv, RequestInv
<1>2. PICK place \in {"resolve", "load"} : place = IF _is_standalone(r) THEN "resolve" ELSE "load"
  OBVIOUS
<1>3. PICK C \in SUBSET Requests : C = Companions(r)
  BY DEF Companions
<1>4. PICK alone \in BOOLEAN : alone = _is_standalone(r)
  BY DEF _is_standalone
<1>5. request' = [q \in Requests |->
          IF q = r THEN [request[r] EXCEPT !.pc = place, !.standalone = alone,
                                           !.overlapped = C # {}]
          ELSE [request[q] EXCEPT !.overlapped = @ \/ q \in C]]
  BY <1>2, <1>3, <1>4 DEF Begin
<1>6. /\ request'[r] = [request[r] EXCEPT !.pc = place, !.standalone = alone,
                                          !.overlapped = C # {}]
      /\ request'[r] \in Requested /\ Placed(request'[r])
  <2>1. request'[r] = [request[r] EXCEPT !.pc = place, !.standalone = alone,
                                         !.overlapped = C # {}]
    BY <1>5
  <2>2. request[r] \in Requested /\ (C # {}) \in BOOLEAN
    BY <1>1
  <2>3. request'[r] \in Requested /\ Placed(request'[r])
    BY <2>1, <2>2, BeginPlace
  <2> QED
    BY <2>1, <2>3
<1>7. ASSUME NEW q \in Requests, q # r
      PROVE  /\ request'[q] \in Requested /\ Placed(request'[q])
             /\ Still(request[q], request'[q])
             /\ q \in C => request'[q].overlapped
  <2>1. PICK mark \in BOOLEAN : mark = (request[q].overlapped \/ q \in C)
    OBVIOUS
  <2>2. request'[q] = [request[q] EXCEPT !.overlapped = mark]
    BY <1>5, <1>7, <2>1
  <2>3. request'[q] \in Requested
    BY <1>1, <2>2 DEF Requested
  <2>4. Placed(request'[q])
    BY <1>1, <2>2 DEF Requested, Placed
  <2>5. Still(request[q], request'[q]) /\ (q \in C => request'[q].overlapped)
    <3>1. PICK x : x = request[q] /\ x \in Requested
      BY <1>1
    <3>2. PICK y : y = request'[q]
      OBVIOUS
    <3>3. y = [x EXCEPT !.overlapped = mark]
      BY <2>2, <3>1, <3>2
    <3>4. /\ y.session = x.session /\ y.question = x.question
          /\ y.version = x.version /\ y.lookedUp = x.lookedUp /\ y.known = x.known
          /\ y.basis = x.basis /\ y.context = x.context /\ y.result = x.result
          /\ y.pc = x.pc /\ y.standalone = x.standalone /\ y.overlapped = mark
      BY <3>1, <3>3 DEF Requested
    <3> QED
      BY <2>1, <3>1, <3>2, <3>4 DEF Still, Marked
  <2> QED
    BY <2>3, <2>4, <2>5
<1>8. request' \in [Requests -> Requested] /\ \A q \in Requests : Placed(request'[q])
  BY <1>5, <1>6, <1>7
<1>9. ASSUME NEW q \in Requests, q \in Companions(r)
      PROVE  request'[q].overlapped /\ request'[r].overlapped
  <2>1. q \in C /\ q # r
    BY <1>3, <1>9 DEF Companions
  <2> QED
    BY <1>1, <1>6, <1>7, <2>1 DEF Requested
<1>10. /\ Marked([request[r] EXCEPT !.overlapped = FALSE], request'[r])
       /\ request'[r].pc \in {"resolve", "load"}
       /\ request'[r].standalone <=> request[r].session \notin history
  BY <1>1, <1>2, <1>4, <1>6 DEF Requested, Marked, _is_standalone, HasHistory
<1> QED
  BY <1>7, <1>8, <1>9, <1>10 DEF Begun

LEMMA LookupFailsMoves ==
  ASSUME CacheInv, NEW r \in Requests, LookupFails(r) PROVE Moved(r)
<1>1. request \in [Requests -> Requested] /\ request[r] \in Requested /\ Placed(request[r])
  BY DEF CacheInv, RequestInv
<1>2. request' = [request EXCEPT ![r].pc = "load", ![r].key = None, ![r].candidates = {}]
  BY DEF LookupFails
<1>3. request' = [q \in Requests |-> IF q = r THEN request'[r] ELSE request[q]]
  BY <1>1, <1>2
<1>4. request'[r] \in Requested
  BY <1>1, <1>2, PlaceNames DEF Requested
<1>5. Placed(request'[r])
  BY <1>1, <1>2 DEF Requested, Placed, LookupPlaces, LookupFails
<1> QED
  BY <1>1, <1>3, <1>4, <1>5, MovedBy

LEMMA ResolveMoves ==
  ASSUME CacheInv, NEW r \in Requests, Resolve(r) PROVE Moved(r)
<1>1. request \in [Requests -> Requested] /\ request[r] \in Requested /\ Placed(request[r])
  BY DEF CacheInv, RequestInv
<1>2. PICK v \in Versions : v = current(RequestAt[r])
  BY CurrentVersion, CacheAssumption DEF CacheInv
<1>3. PICK k \in Keys : k = <<v, request[r].question>>
  BY <1>1 DEF Keys, Requested
<1>4. announced \in SUBSET Ingests
  BY DEF CacheInv, IngestInv, IngestTypes
<1>5. request' = [request EXCEPT ![r].pc = "exact", ![r].lookedUp = v, ![r].key = k,
                                 ![r].known = announced]
  BY <1>2, <1>3, <1>4 DEF Resolve
<1>6. request' = [q \in Requests |-> IF q = r THEN request'[r] ELSE request[q]]
  BY <1>1, <1>5
<1>7. request'[r] \in Requested
  BY <1>1, <1>2, <1>3, <1>4, <1>5, PlaceNames DEF Requested
<1>8. Placed(request'[r])
  BY <1>1, <1>2, <1>3, <1>4, <1>5 DEF Requested, Placed, LookupPlaces, Resolve
<1> QED
  BY <1>1, <1>6, <1>7, <1>8, MovedBy

LEMMA ExactMoves ==
  ASSUME CacheInv, NEW r \in Requests, _exact(r) PROVE Moved(r)
<1>1. request \in [Requests -> Requested] /\ request[r] \in Requested /\ Placed(request[r])
  BY DEF CacheInv, RequestInv
<1>2. request[r].key \in Keys /\ request[r].lookedUp \in Versions
  BY <1>1 DEF _exact, Placed, LookupPlaces
<1>3. PICK e : e = Found(request[r].key, request[r].lookedUp)
  OBVIOUS
<1>4. PICK place : place = PlaceAfter(request[r].key, request[r].lookedUp, AfterExact)
  OBVIOUS
<1>5. e \in Entries \cup {None} /\ (e # None => e \in Entries /\ Good(e))
  BY <1>2, <1>3, FoundIsGood
<1>6. place \in {"semantic", "load", "remember", "discard"} /\ (place = "remember" => e # None)
  BY <1>2, <1>3, <1>4, FoundIsGood DEF AfterExact
<1>7. request' = [request EXCEPT ![r].pc = place, ![r].result = e]
  BY <1>2, <1>3, <1>4, <1>5, <1>6 DEF _exact
<1>8. request' = [q \in Requests |-> IF q = r THEN request'[r] ELSE request[q]]
  BY <1>1, <1>7
<1>9. request'[r] \in Requested
  BY <1>1, <1>2, <1>3, <1>4, <1>5, <1>6, <1>7, PlaceNames DEF Requested
<1>10. Placed(request'[r])
  BY <1>1, <1>2, <1>3, <1>4, <1>5, <1>6, <1>7 DEF Requested, Placed, LookupPlaces, _exact
<1> QED
  BY <1>1, <1>8, <1>9, <1>10, MovedBy

LEMMA DiscardMoves ==
  ASSUME CacheInv, NEW r \in Requests, Discard(r) PROVE Moved(r)
<1>1. request \in [Requests -> Requested] /\ request[r] \in Requested /\ Placed(request[r])
  BY DEF CacheInv, RequestInv
<1>2. PICK place \in {"unindex", "semantic", "load"} :
         Goto(r, place)
  BY DEF Discard, AfterExact
<1>3. request' = [request EXCEPT ![r].pc = place]
  BY <1>2 DEF Goto, Discard
<1>4. request' = [q \in Requests |-> IF q = r THEN request'[r] ELSE request[q]]
  BY <1>1, <1>3
<1>5. request'[r] \in Requested
  BY <1>1, <1>2, <1>3, PlaceNames DEF Requested
<1>6. Placed(request'[r])
  BY <1>1, <1>2, <1>3 DEF Requested, Placed, LookupPlaces, Goto, Discard
<1> QED
  BY <1>1, <1>4, <1>5, <1>6, MovedBy

LEMMA SemanticMoves ==
  ASSUME CacheInv, NEW r \in Requests, _semantic(r) PROVE Moved(r)
<1>1. request \in [Requests -> Requested] /\ request[r] \in Requested /\ Placed(request[r])
  BY DEF CacheInv, RequestInv
<1>2. PICK ks : ks = Candidates(request[r].question, request[r].lookedUp)
  OBVIOUS
<1>3. ks \subseteq Keys
  BY <1>2 DEF Candidates, CacheInv, BackendTypes
<1>4. request' = [request EXCEPT ![r].pc = "probe", ![r].candidates = ks]
  BY <1>2, <1>3 DEF _semantic
<1>5. request' = [q \in Requests |-> IF q = r THEN request'[r] ELSE request[q]]
  BY <1>1, <1>4
<1>6. request'[r] \in Requested
  BY <1>1, <1>2, <1>3, <1>4, PlaceNames DEF Requested
<1>7. Placed(request'[r])
  BY <1>1, <1>2, <1>3, <1>4 DEF Requested, Placed, LookupPlaces, _semantic
<1> QED
  BY <1>1, <1>5, <1>6, <1>7, MovedBy

LEMMA ProbeMoves ==
  ASSUME CacheInv, NEW r \in Requests, Probe(r) PROVE Moved(r)
<1>1. request \in [Requests -> Requested] /\ request[r] \in Requested /\ Placed(request[r])
  BY DEF CacheInv, RequestInv
<1>2. request[r].lookedUp \in Versions /\ request[r].candidates \subseteq Keys
  BY <1>1 DEF Probe, Requested, Placed, LookupPlaces
<1>3. CASE Goto(r, "load")
  <2>1. request' = [request EXCEPT ![r].pc = "load"]
    BY <1>3 DEF Goto
  <2>2. request' = [q \in Requests |-> IF q = r THEN request'[r] ELSE request[q]]
    BY <1>1, <2>1
  <2>3. request'[r] \in Requested
    BY <1>1, <1>3, <2>1, PlaceNames DEF Requested
  <2>4. Placed(request'[r])
    BY <1>1, <1>3, <2>1 DEF Requested, Placed, LookupPlaces, Goto
  <2> QED
    BY <1>1, <2>2, <2>3, <2>4, MovedBy
<1>4. ASSUME NEW k \in request[r].candidates,
             request' = [request EXCEPT ![r].pc = PlaceAfter(k, request[r].lookedUp, "unindex"),
                                        ![r].key = k,
                                        ![r].result = Found(k, request[r].lookedUp)]
      PROVE  Moved(r)
  <2>1. k \in Keys
    BY <1>2, <1>4
  <2>2. PICK e : e = Found(k, request[r].lookedUp)
    OBVIOUS
  <2>3. PICK place : place = PlaceAfter(k, request[r].lookedUp, "unindex")
    OBVIOUS
  <2>4. e \in Entries \cup {None} /\ (e # None => e \in Entries /\ Good(e))
    BY <1>2, <2>1, <2>2, FoundIsGood
  <2>5. place \in {"unindex", "remember", "discard"} /\ (place = "remember" => e # None)
    BY <1>2, <2>1, <2>2, <2>3, FoundIsGood
  <2>6. request' = [request EXCEPT ![r].pc = place, ![r].key = k, ![r].result = e]
    BY <1>4, <2>2, <2>3
  <2>7. request' = [q \in Requests |-> IF q = r THEN request'[r] ELSE request[q]]
    BY <1>1, <2>6
  <2>8. request'[r] \in Requested
    BY <1>1, <1>2, <2>1, <2>4, <2>5, <2>6, PlaceNames DEF Requested
  <2>9. Placed(request'[r])
    BY <1>1, <1>2, <2>1, <2>4, <2>5, <2>6 DEF Requested, Placed, LookupPlaces, Probe
  <2> QED
    BY <1>1, <2>7, <2>8, <2>9, MovedBy
<1> QED
  BY <1>3, <1>4 DEF Probe

LEMMA UnindexMoves ==
  ASSUME CacheInv, NEW r \in Requests, Unindex(r) PROVE Moved(r)
<1>1. request \in [Requests -> Requested] /\ request[r] \in Requested /\ Placed(request[r])
  BY DEF CacheInv, RequestInv
<1>2. PICK ks \in SUBSET Keys : ks = request[r].candidates \ {request[r].key}
  BY <1>1 DEF Requested
<1>3. request' = [request EXCEPT ![r].pc = "probe", ![r].candidates = ks]
  BY <1>2 DEF Unindex
<1>4. request' = [q \in Requests |-> IF q = r THEN request'[r] ELSE request[q]]
  BY <1>1, <1>3
<1>5. request'[r] \in Requested
  BY <1>1, <1>2, <1>3, PlaceNames DEF Requested
<1>6. Placed(request'[r])
  BY <1>1, <1>2, <1>3 DEF Requested, Placed, LookupPlaces, Unindex
<1> QED
  BY <1>1, <1>4, <1>5, <1>6, MovedBy

LEMMA RememberMoves ==
  ASSUME CacheInv, NEW r \in Requests, _remember(r) PROVE Moved(r)
<1>1. request \in [Requests -> Requested] /\ request[r] \in Requested /\ Placed(request[r])
  BY DEF CacheInv, RequestInv
<1>2. request' = [request EXCEPT ![r].pc = "served"]
  BY DEF Goto, _remember
<1>3. request' = [q \in Requests |-> IF q = r THEN request'[r] ELSE request[q]]
  BY <1>1, <1>2
<1>4. request'[r] \in Requested
  BY <1>1, <1>2, PlaceNames DEF Requested
<1>5. Placed(request'[r])
  BY <1>1, <1>2 DEF Requested, Placed, LookupPlaces, Goto, _remember
<1> QED
  BY <1>1, <1>3, <1>4, <1>5, MovedBy

LEMMA LoadMemoryMoves ==
  ASSUME CacheInv, NEW r \in Requests, LoadMemory(r) PROVE Moved(r)
<1>1. request \in [Requests -> Requested] /\ request[r] \in Requested /\ Placed(request[r])
  BY DEF CacheInv, RequestInv
<1>2. PICK c \in BOOLEAN : c = HasHistory(r)
  <2>1. HasHistory(r) \in BOOLEAN
    BY DEF HasHistory
  <2> QED
    BY <2>1, Zenon
<1>3. request' = [request EXCEPT ![r].pc = "retrieve", ![r].context = c,
                                 ![r].key = None, ![r].candidates = {}]
  BY <1>2 DEF LoadMemory
<1>4. request' = [q \in Requests |-> IF q = r THEN request'[r] ELSE request[q]]
  BY <1>1, <1>3
<1>5. request'[r] \in Requested
  BY <1>1, <1>2, <1>3, PlaceNames DEF Requested
<1>6. Placed(request'[r])
  BY <1>1, <1>2, <1>3 DEF Requested, Placed, LookupPlaces, LoadMemory
<1> QED
  BY <1>1, <1>4, <1>5, <1>6, MovedBy

LEMMA RetrieveMoves ==
  ASSUME CacheInv, NEW r \in Requests, Retrieve(r) PROVE Moved(r)
<1>1. request \in [Requests -> Requested] /\ request[r] \in Requested /\ Placed(request[r])
  BY DEF CacheInv, RequestInv
<1>2. corpus \in SUBSET Chunks
  BY DEF CacheInv, IngestInv, IngestTypes
<1>3. request' = [request EXCEPT ![r].pc = "finish", ![r].basis = corpus]
  BY <1>2 DEF Retrieve
<1>4. request' = [q \in Requests |-> IF q = r THEN request'[r] ELSE request[q]]
  BY <1>1, <1>3
<1>5. request'[r] \in Requested
  BY <1>1, <1>2, <1>3, PlaceNames DEF Requested
<1>6. Placed(request'[r])
  BY <1>1, <1>2, <1>3 DEF Requested, Placed, LookupPlaces, Retrieve
<1> QED
  BY <1>1, <1>4, <1>5, <1>6, MovedBy

LEMMA FinishMoves ==
  ASSUME CacheInv, NEW r \in Requests, Finish(r) PROVE Moved(r)
<1>1. request \in [Requests -> Requested] /\ request[r] \in Requested /\ Placed(request[r])
  BY DEF CacheInv, RequestInv
<1>2. CASE End(r, "answered")
  BY <1>2, EndMoves
<1>3. ASSUME NEW res \in StorableOutcomes,
             request' = [request EXCEPT ![r].pc = "store", ![r].result = res]
      PROVE  Moved(r)
  <2>1. res \in Carried
    BY StorableIsGood
  <2>2. request' = [request EXCEPT ![r].pc = "store", ![r].result = res]
    BY <1>3
  <2>3. request' = [q \in Requests |-> IF q = r THEN request'[r] ELSE request[q]]
    BY <1>1, <2>2
  <2>4. request'[r] \in Requested
    BY <1>1, <2>1, <2>2, PlaceNames DEF Requested
  <2>5. Placed(request'[r])
    BY <1>1, <2>2 DEF Requested, Placed, LookupPlaces
  <2> QED
    BY <1>1, <2>3, <2>4, <2>5, MovedBy
<1> QED
  BY <1>2, <1>3 DEF Finish

LEMMA StoreResolveMoves ==
  ASSUME CacheInv, NEW r \in Requests, StoreResolve(r) PROVE Moved(r)
<1>1. request \in [Requests -> Requested] /\ request[r] \in Requested /\ Placed(request[r])
  BY DEF CacheInv, RequestInv
<1>2. PICK v \in Versions : v = current(RequestAt[r])
  BY CurrentVersion, CacheAssumption DEF CacheInv
<1>3. request' = [request EXCEPT ![r].pc = "set", ![r].version = v]
  BY <1>2 DEF StoreResolve
<1>4. request' = [q \in Requests |-> IF q = r THEN request'[r] ELSE request[q]]
  BY <1>1, <1>3
<1>5. request'[r] \in Requested
  BY <1>1, <1>2, <1>3, PlaceNames DEF Requested
<1>6. Placed(request'[r])
  BY <1>1, <1>2, <1>3 DEF Requested, Placed, LookupPlaces, StoreResolve
<1> QED
  BY <1>1, <1>4, <1>5, <1>6, MovedBy

LEMMA StoreSetMoves ==
  ASSUME CacheInv, NEW r \in Requests, StoreSet(r) PROVE Moved(r)
<1>1. request \in [Requests -> Requested] /\ request[r] \in Requested /\ Placed(request[r])
  BY DEF CacheInv, RequestInv
<1>2. CASE End(r, "answered")
  BY <1>2, EndMoves
<1>3. CASE Goto(r, "index_add")
  <2>1. request' = [request EXCEPT ![r].pc = "index_add"]
    BY <1>3 DEF Goto, StoreSet
  <2>2. request' = [q \in Requests |-> IF q = r THEN request'[r] ELSE request[q]]
    BY <1>1, <2>1
  <2>3. request'[r] \in Requested
    BY <1>1, <1>3, <2>1, PlaceNames DEF Requested
  <2>4. Placed(request'[r])
    BY <1>1, <1>3, <2>1 DEF Requested, Placed, LookupPlaces, Goto, StoreSet
  <2> QED
    BY <1>1, <2>2, <2>3, <2>4, MovedBy
<1> QED
  BY <1>2, <1>3 DEF StoreSet

LEMMA RequestsMove ==
  ASSUME CacheInv, NEW r \in Requests, Serve(r) \/ Abandon(r)
  PROVE  Moved(r)
<1>1. CASE StoreIndex(r) \/ StoreFails(r) \/ Abandon(r)
  BY <1>1, EndMoves DEF StoreIndex, StoreFails, Abandon
<1> QED
  BY <1>1, LookupFailsMoves, ResolveMoves, ExactMoves, DiscardMoves, SemanticMoves,
     ProbeMoves, UnindexMoves, RememberMoves, LoadMemoryMoves, RetrieveMoves, FinishMoves,
     StoreResolveMoves, StoreSetMoves DEF Serve

(* What a step may do to the answers: drop some, or hold a new good one. *)
HeldAfter(old, new) ==
    /\ new \in [Keys -> Entries \cup {None}]
    /\ \A k \in Keys : new[k] \in {old[k], None} \/ Good(new[k])

LEMMA HeldStaysGood ==
  ASSUME OnlyGoodIsHeld, HeldAfter(entries, entries') PROVE OnlyGoodIsHeld'
BY DEF OnlyGoodIsHeld, HeldAfter

LEMMA RequestsKeepTheBackend ==
  ASSUME CacheInv, NEW r \in Requests, Begin(r) \/ Serve(r) \/ Abandon(r)
  PROVE  BackendTypes' /\ OnlyGoodIsHeld'
<1>1. request[r] \in Requested /\ Placed(request[r])
  BY DEF CacheInv, RequestInv
<1>2. CASE StoreSet(r)
  <2>1. _entry(r) \in Entries /\ Good(_entry(r))
        /\ <<request[r].version, request[r].question>> \in Keys
    BY <1>2, EntryIsGood DEF StoreSet
  <2>2. HeldAfter(entries, entries')
    BY <1>2, <2>1 DEF StoreSet, HeldAfter, CacheInv, BackendTypes
  <2> QED
    BY <1>2, <2>2, HeldStaysGood DEF StoreSet, HeldAfter, CacheInv, BackendTypes
<1>3. CASE Discard(r)
  <2>1. HeldAfter(entries, entries')
    BY <1>3 DEF Discard, HeldAfter, CacheInv, BackendTypes
  <2> QED
    BY <1>3, <2>1, HeldStaysGood DEF Discard, HeldAfter, CacheInv, BackendTypes
<1>4. CASE StoreIndex(r)
  <2>1. <<request[r].version, request[r].question>> \in Keys
    BY <1>1, <1>4 DEF StoreIndex, Requested, Placed, Keys
  <2> QED
    BY <1>4, <2>1 DEF StoreIndex, CacheInv, BackendTypes, OnlyGoodIsHeld
<1>5. CASE Unindex(r)
  BY <1>5 DEF Unindex, CacheInv, BackendTypes, OnlyGoodIsHeld
<1>6. CASE _remember(r) \/ Finish(r)
  <2>1. history' \subseteq Sessions
    BY <1>1, <1>6 DEF _remember, Finish, Recorded, Requested, CacheInv, BackendTypes
  <2>2. UNCHANGED <<entries, index, now, flushes>>
    BY <1>6 DEF _remember, Finish
  <2> QED
    BY <2>1, <2>2 DEF CacheInv, BackendTypes, OnlyGoodIsHeld
<1>7. CASE UNCHANGED <<entries, index, now, flushes, history>>
  BY <1>7 DEF CacheInv, BackendTypes, OnlyGoodIsHeld
<1>8. CASE ~(StoreSet(r) \/ Discard(r) \/ StoreIndex(r) \/ Unindex(r) \/ _remember(r) \/ Finish(r))
  <2>1. UNCHANGED <<entries, index, now, flushes, history>>
    BY <1>8 DEF Begin, Serve, Abandon, LookupFails, Resolve, _exact, _semantic, Probe,
                LoadMemory, Retrieve, StoreResolve, StoreFails
  <2> QED
    BY <1>7, <2>1
<1> QED
  BY <1>2, <1>3, <1>4, <1>5, <1>6, <1>8

LEMMA RestKeepsTheBackend ==
  ASSUME CacheInv,
         (\E i \in Ingests : Ingest(i)) \/ (\E k \in Keys : Evict(k) \/ Trim(k)) \/ Flush
         \/ Tick \/ UNCHANGED vars
  PROVE  BackendTypes' /\ OnlyGoodIsHeld' /\ request' = request
<1>1. CASE (\E i \in Ingests : Ingest(i)) \/ UNCHANGED vars
  BY <1>1 DEF Ingest, _index_batch, LateWrite, IngestFails, BumpRead, BumpWrite, BumpFails, vars,
              backendVars, CacheInv, BackendTypes, OnlyGoodIsHeld
<1>2. CASE \E k \in Keys : Evict(k) \/ Trim(k)
  BY <1>2 DEF Evict, Trim, CacheInv, BackendTypes, OnlyGoodIsHeld
<1>3. CASE Flush
  BY <1>3, CacheAssumption DEF Flush, CacheInv, BackendTypes, OnlyGoodIsHeld
<1>4. CASE Tick
  BY <1>4, CacheAssumption DEF Tick, backendVars, CacheInv, BackendTypes, OnlyGoodIsHeld
<1> QED
  BY <1>1, <1>2, <1>3, <1>4

LEMMA CacheNext == CacheInv /\ [Next]_vars => CacheInv'
<1> SUFFICES ASSUME CacheInv, [Next]_vars PROVE CacheInv'
  OBVIOUS
<1>1. IngestInv'
  BY IngestsNext DEF CacheInv
<1>2. ASSUME NEW r \in Requests, Begin(r) \/ Serve(r) \/ Abandon(r)
      PROVE  BackendTypes' /\ OnlyGoodIsHeld' /\ RequestInv'
  <2>1. CASE Begin(r)
    BY <2>1, BeginMoves, RequestsKeepTheBackend DEF Begun, RequestInv
  <2>2. CASE Serve(r) \/ Abandon(r)
    <3>1. RequestInv'
      BY <2>2, RequestsMove DEF Moved, RequestInv, CacheInv
    <3> QED
      BY <2>2, <3>1, RequestsKeepTheBackend
  <2> QED
    BY <1>2, <2>1, <2>2
<1>3. CASE (\E i \in Ingests : Ingest(i)) \/ (\E k \in Keys : Evict(k) \/ Trim(k)) \/ Flush
           \/ Tick \/ UNCHANGED vars
  <2>1. BackendTypes' /\ OnlyGoodIsHeld' /\ request' = request
    BY <1>3, RestKeepsTheBackend
  <2>2. RequestInv'
    BY <2>1 DEF CacheInv, RequestInv
  <2> QED
    BY <1>1, <2>1, <2>2 DEF CacheInv
<1> QED
  BY <1>1, <1>2, <1>3 DEF Next, CacheInv

LEMMA CacheAlways == Spec => []CacheInv
BY InitCache, CacheNext, PTL DEF Spec

(* Every variable keeps its type.  What needs an argument is the version:  *)
(* after any interleaving of bumps, failures and flushes it is at most the *)
(* number of ingestions that are over.                                     *)
THEOREM CacheTypes == Spec => []TypeOK
<1>1. ASSUME CacheInv PROVE TypeOK
  <2>1. IngestTypes /\ BackendTypes
    BY <1>1 DEF CacheInv, IngestInv
  <2>2. ASSUME NEW r \in Requests
        PROVE  /\ request[r].pc \in Places
               /\ request[r].version \in Versions \cup {None}
               /\ request[r].lookedUp \in Versions \cup {None}
               /\ request[r].key \in Keys \cup {None}
               /\ request[r].candidates \subseteq Keys
               /\ request[r].result \in Entries \cup Carried \cup {None}
    BY <1>1 DEF CacheInv, RequestInv, Requested
  <2> QED
    BY <2>1, <2>2 DEF IngestTypes, IngestPlaces, BackendTypes, TypeOK
<1> QED
  BY <1>1, CacheAlways, PTL

(* Whatever happens between the verdict and the hit, an answer served from *)
(* the cache is one the critic accepted: neither blank nor the refusal,    *)
(* and no tool call of its run had failed.                                 *)
THEOREM AcceptedHolds == Spec => []ServedAnswersWereAccepted
<1>1. CacheInv => ServedAnswersWereAccepted
  BY DEF CacheInv, RequestInv, Placed, Good, ServedAnswersWereAccepted, Served
<1> QED
  BY <1>1, CacheAlways, PTL

-----------------------------------------------------------------------------
(* Questions that stand alone *)

(* A request on the way to the end of its run, and one whose answer is     *)
(* being stored.                                                           *)
Running == {"resolve", "exact", "discard", "semantic", "probe", "unindex", "remember",
            "load", "retrieve", "finish"}
Storing == {"store", "set", "index_add"}

Active(x) == x.pc \in Running \cup Storing

(* What is known of a request x by itself ... *)
AloneAt(x) ==
    /\ x.pc = "idle" => ~x.context
    /\ x.standalone /\ x.context => x.overlapped
    /\ x.pc \in Storing => x.standalone

(* ... of two: if they are of one session, they overlap ...                *)
Apart(x, y) ==
    Active(x) /\ Active(y) /\ x.session # None /\ x.session = y.session => x.overlapped

(* ... and of one and the conversations recorded: while its run goes on,   *)
(* the conversation it saw empty is still empty, unless it overlaps.       *)
Unheard(x, told) ==
    x.standalone /\ x.pc \in Running /\ x.session \in told => x.overlapped

AloneInv ==
    /\ \A r \in Requests : AloneAt(request[r]) /\ Unheard(request[r], history)
    /\ \A r, q \in Requests : r # q => Apart(request[r], request[q])
    /\ StoredAnswersStandAlone

(* How a step changes x into y, as far as conversations go. *)
Kin(x, y) ==
    y.session = x.session /\ y.standalone = x.standalone /\ y.overlapped = x.overlapped

Same(x, y) == Kin(x, y) /\ y.context = x.context

Walks(x, y) == Same(x, y) /\ x.pc \in Running /\ y.pc \in Running \cup {"served"}

Loads(x, y, told) ==
    /\ Kin(x, y)
    /\ x.pc \in Running /\ y.pc \in Running
    /\ y.context <=> x.session \in told

Stores(x, y) ==
    /\ Same(x, y)
    /\ x.pc \in Storing \/ (x.pc = "finish" /\ x.standalone)
    /\ y.pc \in Storing

Ends(x, y) ==
    /\ x.pc \in Running \cup Storing
    /\ y.pc \in Ended /\ ~y.standalone

LEMMA EndEnds ==
  ASSUME CacheInv, NEW r \in Requests, NEW place \in {"answered", "raised"}, End(r, place),
         request[r].pc \in Running \cup Storing
  PROVE  Ends(request[r], request'[r])
<1>1. request[r] \in Requested /\ request \in [Requests -> Requested]
  BY DEF CacheInv, RequestInv
<1>2. PICK x : x = Bare(place, request[r].question, request[r].session)
  OBVIOUS
<1>3. x.pc = place /\ ~x.standalone
  BY <1>2 DEF Bare
<1>4. request'[r] = x
  BY <1>1, <1>2 DEF End
<1> QED
  BY <1>3, <1>4 DEF Ends, Ended

LEMMA LookupsWalk ==
  ASSUME CacheInv, NEW r \in Requests,
         LookupFails(r) \/ Resolve(r) \/ _exact(r) \/ Discard(r) \/ _semantic(r)
         \/ Probe(r) \/ Unindex(r) \/ _remember(r) \/ Retrieve(r)
  PROVE  Walks(request[r], request'[r])
<1>1. request \in [Requests -> Requested]
  BY DEF CacheInv, RequestInv
<1>2. CASE LookupFails(r)
  BY <1>1, <1>2 DEF LookupFails, Requested, Walks, Same, Kin, Running
<1>3. CASE Resolve(r)
  BY <1>1, <1>3 DEF Resolve, Requested, Walks, Same, Kin, Running
<1>4. CASE _exact(r)
  <2>1. PICK place \in {"semantic", "load", "remember", "discard"} :
           place = PlaceAfter(request[r].key, request[r].lookedUp, AfterExact)
    BY DEF PlaceAfter, AfterExact
  <2> QED
    BY <1>1, <1>4, <2>1 DEF _exact, Requested, Walks, Same, Kin, Running
<1>5. CASE Discard(r)
  <2>1. PICK place \in {"unindex", "semantic", "load"} : Goto(r, place)
    BY <1>5 DEF Discard, AfterExact
  <2> QED
    BY <1>1, <1>5, <2>1 DEF Discard, Goto, Requested, Walks, Same, Kin, Running
<1>6. CASE _semantic(r)
  BY <1>1, <1>6 DEF _semantic, Requested, Walks, Same, Kin, Running
<1>7. CASE Probe(r)
  <2>1. CASE Goto(r, "load")
    BY <1>1, <1>7, <2>1, ZenonT(30) DEF Probe, Goto, Requested, Walks, Same, Kin, Running
  <2>2. ASSUME NEW k \in request[r].candidates,
               request' = [request EXCEPT ![r].pc = PlaceAfter(k, request[r].lookedUp, "unindex"),
                                          ![r].key = k,
                                          ![r].result = Found(k, request[r].lookedUp)]
        PROVE  Walks(request[r], request'[r])
    <3>1. PICK place \in {"unindex", "remember", "discard"} :
             place = PlaceAfter(k, request[r].lookedUp, "unindex")
      BY DEF PlaceAfter
    <3>2. request[r].pc = "probe"
      BY <1>7 DEF Probe
    <3> QED
      BY <1>1, <2>2, <3>1, <3>2 DEF Requested, Walks, Same, Kin, Running
  <2> QED
    BY <1>7, <2>1, <2>2 DEF Probe
<1>8. CASE Unindex(r)
  BY <1>1, <1>8 DEF Unindex, Requested, Walks, Same, Kin, Running
<1>9. CASE _remember(r)
  BY <1>1, <1>9 DEF _remember, Goto, Requested, Walks, Same, Kin, Running
<1>10. CASE Retrieve(r)
  BY <1>1, <1>10 DEF Retrieve, Requested, Walks, Same, Kin, Running
<1> QED
  BY <1>2, <1>3, <1>4, <1>5, <1>6, <1>7, <1>8, <1>9, <1>10

LEMMA LoadMemoryLoads ==
  ASSUME CacheInv, NEW r \in Requests, LoadMemory(r)
  PROVE  Loads(request[r], request'[r], history)
<1>1. request \in [Requests -> Requested]
  BY DEF CacheInv, RequestInv
<1> QED
  BY <1>1 DEF LoadMemory, HasHistory, Requested, Loads, Kin, Running

LEMMA FinishOrStore ==
  ASSUME CacheInv, NEW r \in Requests,
         Finish(r) \/ StoreResolve(r) \/ StoreSet(r) \/ StoreIndex(r) \/ StoreFails(r) \/ Abandon(r)
  PROVE  Stores(request[r], request'[r]) \/ Ends(request[r], request'[r])
<1>1. request \in [Requests -> Requested]
  BY DEF CacheInv, RequestInv
<1>2. request[r].pc \in Running \cup Storing
  <2>1. request[r].pc \in Places
    BY <1>1 DEF Requested
  <2> QED
    BY <2>1 DEF Finish, StoreResolve, StoreSet, StoreIndex, StoreFails, Abandon, UnderWay, Running,
                Storing, Places
<1>3. CASE End(r, "answered") \/ End(r, "raised")
  BY <1>2, <1>3, EndEnds
<1>4. ASSUME request[r].pc = "finish", request[r].standalone, NEW res,
             request' = [request EXCEPT ![r].pc = "store", ![r].result = res]
      PROVE  Stores(request[r], request'[r])
  BY <1>1, <1>4 DEF Requested, Stores, Same, Kin, Storing
<1>5. CASE StoreResolve(r)
  BY <1>1, <1>5 DEF StoreResolve, Requested, Stores, Same, Kin, Storing
<1>6. CASE StoreSet(r) /\ Goto(r, "index_add")
  BY <1>1, <1>6 DEF StoreSet, Goto, Requested, Stores, Same, Kin, Storing
<1> QED
  BY <1>3, <1>4, <1>5, <1>6 DEF Finish, StoreSet, StoreIndex, StoreFails, Abandon

LEMMA AloneStep ==
  ASSUME NEW x, NEW y, NEW told, AloneAt(x), Unheard(x, told),
         Walks(x, y) \/ Loads(x, y, told) \/ Stores(x, y) \/ Ends(x, y)
  PROVE  /\ AloneAt(y) /\ Unheard(y, told)
         /\ \A z : Apart(x, z) => Apart(y, z)
         /\ \A z : Apart(z, x) => Apart(z, y)
<1>1. CASE Walks(x, y)
  BY <1>1 DEF Walks, Same, Kin, AloneAt, Unheard, Apart, Active, Running, Storing
<1>2. CASE Loads(x, y, told)
  BY <1>2 DEF Loads, Kin, AloneAt, Unheard, Apart, Active, Running, Storing
<1>3. CASE Stores(x, y)
  BY <1>3 DEF Stores, Same, Kin, AloneAt, Unheard, Apart, Active, Running, Storing
<1>4. CASE Ends(x, y)
  BY <1>4 DEF Ends, Ended, AloneAt, Unheard, Apart, Active, Running, Storing
<1> QED
  BY <1>1, <1>2, <1>3, <1>4

(* A request that only touches itself and, at the end of its run, tells    *)
(* the conversation.                                                       *)
LEMMA AloneWhenOneMoves ==
  ASSUME CacheInv, AloneInv, NEW r \in Requests, Moved(r),
         Walks(request[r], request'[r]) \/ Loads(request[r], request'[r], history)
         \/ Stores(request[r], request'[r]) \/ Ends(request[r], request'[r]),
         \/ history' = history
         \/ history' = Recorded(r) /\ Active(request[r]) /\ request'[r].pc \notin Running
  PROVE  /\ \A q \in Requests : AloneAt(request'[q]) /\ Unheard(request'[q], history')
         /\ \A q, t \in Requests : q # t => Apart(request'[q], request'[t])
<1>1. PICK x : x = request[r]
  OBVIOUS
<1>2. PICK y : y = request'[r]
  OBVIOUS
<1>3. PICK told : told = history
  OBVIOUS
<1>4. AloneAt(x) /\ Unheard(x, told)
  BY <1>1, <1>3 DEF AloneInv
<1>5. Walks(x, y) \/ Loads(x, y, told) \/ Stores(x, y) \/ Ends(x, y)
  BY <1>1, <1>2, <1>3
<1>6. /\ AloneAt(y) /\ Unheard(y, told)
      /\ \A z : Apart(x, z) => Apart(y, z)
      /\ \A z : Apart(z, x) => Apart(z, y)
  BY <1>4, <1>5, AloneStep
<1>7. \A q \in Requests : q # r => request'[q] = request[q]
  BY DEF Moved
<1>8. \A q, t \in Requests : q # t => Apart(request'[q], request'[t])
  BY <1>1, <1>2, <1>6, <1>7 DEF AloneInv
<1>9. ASSUME NEW q \in Requests
      PROVE  AloneAt(request'[q]) /\ Unheard(request'[q], history')
  <2>1. AloneAt(request'[q]) /\ Unheard(request'[q], history)
    BY <1>2, <1>3, <1>6, <1>7 DEF AloneInv
  <2>2. CASE history' = history
    BY <2>1, <2>2
  <2>3. CASE /\ history' = Recorded(r) /\ Active(request[r]) /\ request'[r].pc \notin Running
             /\ q = r
    BY <2>1, <2>3 DEF Unheard
  <2>4. CASE history' = Recorded(r) /\ Active(request[r]) /\ q # r
    <3>1. Apart(request[q], request[r]) /\ request'[q] = request[q]
      BY <1>7, <2>4 DEF AloneInv
    <3> QED
      BY <2>1, <2>4, <3>1 DEF Apart, Active, Unheard, Recorded
  <2> QED
    BY <2>2, <2>3, <2>4
<1> QED
  BY <1>8, <1>9

LEMMA AloneWhenOneBegins ==
  ASSUME CacheInv, AloneInv, NEW r \in Requests, Begin(r)
  PROVE  /\ \A q \in Requests : AloneAt(request'[q]) /\ Unheard(request'[q], history')
         /\ \A q, t \in Requests : q # t => Apart(request'[q], request'[t])
<1>1. request \in [Requests -> Requested] /\ Begun(r) /\ history' = history
  BY BeginMoves DEF CacheInv, RequestInv, Begin
<1>2. request[r].pc = "idle" /\ ~request[r].context
  BY DEF Begin, AloneInv, AloneAt
<1>3. /\ request'[r].pc \in {"resolve", "load"} /\ ~request'[r].context
      /\ request'[r].session = request[r].session
      /\ request'[r].standalone <=> request[r].session \notin history
  BY <1>1, <1>2 DEF Begun, Marked, Requested
<1>4. AloneAt(request'[r]) /\ Unheard(request'[r], history)
  BY <1>3 DEF AloneAt, Unheard, Running, Storing
<1>5. ASSUME NEW q \in Requests, q # r
      PROVE  AloneAt(request'[q]) /\ Unheard(request'[q], history)
  <2>1. Still(request[q], request'[q]) /\ AloneAt(request[q]) /\ Unheard(request[q], history)
    BY <1>1, <1>5 DEF Begun, AloneInv
  <2> QED
    BY <2>1 DEF Still, Marked, AloneAt, Unheard
<1>6. ASSUME NEW q \in Requests, q # r
      PROVE  Apart(request'[q], request'[r]) /\ Apart(request'[r], request'[q])
  <2>1. Still(request[q], request'[q])
    BY <1>1, <1>6 DEF Begun
  <2>2. ASSUME Active(request'[q]), request'[q].session = request'[r].session,
               request'[r].session # None
        PROVE  q \in Companions(r)
    <3>1. request[q].pc \notin {"idle"} \cup Ended
      BY <2>1, <2>2 DEF Still, Active, Running, Storing, Ended
    <3> QED
      BY <1>3, <1>6, <2>1, <2>2, <3>1 DEF Companions, UnderWay, Still, Marked
  <2> QED
    BY <1>1, <1>3, <2>2 DEF Begun, Apart
<1>7. ASSUME NEW q \in Requests, NEW t \in Requests, q # t, q # r, t # r
      PROVE  Apart(request'[q], request'[t])
  <2>1. Still(request[q], request'[q]) /\ Still(request[t], request'[t])
        /\ Apart(request[q], request[t])
    BY <1>1, <1>7 DEF Begun, AloneInv
  <2> QED
    BY <2>1 DEF Still, Marked, Apart, Active
<1>8. \A q \in Requests : AloneAt(request'[q]) /\ Unheard(request'[q], history')
  BY <1>1, <1>4, <1>5
<1>9. \A q, t \in Requests : q # t => Apart(request'[q], request'[t])
  BY <1>6, <1>7
<1> QED
  BY <1>8, <1>9

LEMMA RequestsStayAlone ==
  ASSUME CacheInv, AloneInv, NEW r \in Requests, Begin(r) \/ Serve(r) \/ Abandon(r)
  PROVE  /\ \A q \in Requests : AloneAt(request'[q]) /\ Unheard(request'[q], history')
         /\ \A q, t \in Requests : q # t => Apart(request'[q], request'[t])
<1>1. CASE Begin(r)
  BY <1>1, AloneWhenOneBegins
<1>2. CASE Serve(r) \/ Abandon(r)
  <2>1. Moved(r)
    BY <1>2, RequestsMove
  <2>2. Walks(request[r], request'[r]) \/ Loads(request[r], request'[r], history)
        \/ Stores(request[r], request'[r]) \/ Ends(request[r], request'[r])
    BY <1>2, LookupsWalk, LoadMemoryLoads, FinishOrStore DEF Serve
  <2>3. CASE Finish(r)
    <3>1. history' = Recorded(r) /\ Active(request[r])
      BY <2>3 DEF Finish, Active, Running
    <3>2. request'[r].pc \notin Running
      BY <2>3, FinishOrStore DEF Stores, Ends, Running, Storing, Ended
    <3> QED
      BY <2>1, <2>2, <3>1, <3>2, AloneWhenOneMoves
  <2>4. CASE _remember(r)
    <3>1. history' = Recorded(r) /\ Active(request[r])
      BY <2>4 DEF _remember, Active, Running
    <3>2. request'[r].pc \notin Running
      BY <2>4 DEF _remember, Goto, Running, CacheInv, RequestInv, Requested
    <3> QED
      BY <2>1, <2>2, <3>1, <3>2, AloneWhenOneMoves
  <2>5. CASE ~Finish(r) /\ ~_remember(r)
    <3>1. history' = history
      BY <1>2, <2>5 DEF Serve, Abandon, LookupFails, Resolve, _exact, Discard, _semantic, Probe,
            Unindex, LoadMemory, Retrieve, StoreResolve, StoreSet, StoreIndex, StoreFails
    <3> QED
      BY <2>1, <2>2, <3>1, AloneWhenOneMoves
  <2> QED
    BY <2>3, <2>4, <2>5
<1> QED
  BY <1>1, <1>2

(* Answers are only added by StoreSet. *)
LEMMA AnswersAreOnlyStored ==
  ASSUME CacheInv, [Next]_vars
  PROVE  \/ \A k \in Keys : entries'[k] \in {entries[k], None}
         \/ \E r \in Requests : StoreSet(r)
<1>1. CASE \E r \in Requests : Begin(r) \/ Serve(r) \/ Abandon(r)
  <2>1. PICK r \in Requests : Begin(r) \/ Serve(r) \/ Abandon(r)
    BY <1>1
  <2>2. CASE Discard(r)
    BY <2>2 DEF Discard, CacheInv, BackendTypes
  <2>3. CASE ~Discard(r) /\ ~StoreSet(r)
    <3>1. entries' = entries
      BY <2>1, <2>3 DEF Begin, Serve, Abandon, LookupFails, Resolve, _exact, _semantic, Probe,
            Unindex, _remember, LoadMemory, Retrieve, Finish, StoreResolve, StoreIndex, StoreFails
    <3> QED
      BY <3>1
  <2> QED
    BY <2>2, <2>3
<1>2. CASE (\E i \in Ingests : Ingest(i)) \/ Tick \/ UNCHANGED vars
  <2>1. entries' = entries
    BY <1>2 DEF Ingest, _index_batch, LateWrite, IngestFails, BumpRead, BumpWrite, BumpFails, Tick, vars,
                backendVars
  <2> QED
    BY <2>1
<1>3. CASE (\E k \in Keys : Evict(k) \/ Trim(k)) \/ Flush
  BY <1>3 DEF Evict, Trim, Flush, CacheInv, BackendTypes
<1> QED
  BY <1>1, <1>2, <1>3 DEF Next

LEMMA AloneNext == CacheInv /\ AloneInv /\ [Next]_vars => AloneInv'
<1> SUFFICES ASSUME CacheInv, AloneInv, [Next]_vars PROVE AloneInv'
  OBVIOUS
<1>1. /\ \A q \in Requests : AloneAt(request'[q]) /\ Unheard(request'[q], history')
      /\ \A q, t \in Requests : q # t => Apart(request'[q], request'[t])
  <2>1. CASE \E r \in Requests : Begin(r) \/ Serve(r) \/ Abandon(r)
    BY <2>1, RequestsStayAlone
  <2>2. CASE ~\E r \in Requests : Begin(r) \/ Serve(r) \/ Abandon(r)
    <3>1. UNCHANGED <<request, history>>
      BY <2>2 DEF Next, Ingest, _index_batch, LateWrite, IngestFails, BumpRead, BumpWrite, BumpFails,
                  Evict, Trim, Flush, Tick, vars
    <3> QED
      BY <3>1 DEF AloneInv
  <2> QED
    BY <2>1, <2>2
<1>2. StoredAnswersStandAlone'
  <2>1. CASE \A k \in Keys : entries'[k] \in {entries[k], None}
    BY <2>1 DEF AloneInv, StoredAnswersStandAlone
  <2>2. ASSUME NEW r \in Requests, StoreSet(r) PROVE StoredAnswersStandAlone'
    <3>1. request[r].context => request[r].overlapped
      BY <2>2 DEF StoreSet, AloneInv, AloneAt, Storing
    <3>2. _entry(r).context => _entry(r).overlapped
      BY <3>1 DEF _entry
    <3>3. entries' = [entries EXCEPT ![<<request[r].version, request[r].question>>] = _entry(r)]
          /\ entries \in [Keys -> Entries \cup {None}]
      BY <2>2 DEF StoreSet, CacheInv, BackendTypes
    <3> QED
      BY <3>2, <3>3 DEF AloneInv, StoredAnswersStandAlone
  <2> QED
    BY <2>1, <2>2, AnswersAreOnlyStored
<1> QED
  BY <1>1, <1>2 DEF AloneInv

LEMMA InitAlone == Init => AloneInv
<1> SUFFICES ASSUME Init PROVE AloneInv
  OBVIOUS
<1>1. ASSUME NEW q \in Questions, NEW s \in Sessions \cup {None}
      PROVE  LET x == Bare("idle", q, s) IN
             /\ x.pc = "idle" /\ ~x.context /\ ~x.standalone
  BY <1>1 DEF Bare
<1>2. \A r \in Requests : request[r].pc = "idle" /\ ~request[r].context /\ ~request[r].standalone
  BY <1>1 DEF Init
<1>3. StoredAnswersStandAlone
  BY DEF Init, StoredAnswersStandAlone
<1> QED
  BY <1>2, <1>3 DEF AloneInv, AloneAt, Unheard, Apart, Active, Running, Storing

(* A stored answer written with earlier turns of a conversation in sight   *)
(* is one whose request overlapped another of its session: a question      *)
(* found to stand alone at the start of its request still does when the    *)
(* run reads the conversation, for only a request of the same session      *)
(* records a turn in it.                                                   *)
THEOREM StandAloneHolds == Spec => []StoredAnswersStandAlone
<1>1. CacheInv /\ AloneInv /\ [Next]_vars => AloneInv'
  BY AloneNext
<1>2. AloneInv => StoredAnswersStandAlone
  BY DEF AloneInv
<1> QED
  BY <1>1, <1>2, InitAlone, CacheAlways, PTL DEF Spec

-----------------------------------------------------------------------------
(* Current answers, when every ingestion runs in one process and the       *)
(* backend does not lose its counter                                       *)

OneIngester == Flushes = 0 /\ \A i, j \in Ingests : IngestAt[i] = IngestAt[j]

(* The version every process resolves. *)
Cur == IF kb = None THEN 0 ELSE kb

(* Before the first bump no process has seen a version, and the bump under *)
(* way, of which there is one at most, writes the next one.                *)
OneCounter ==
    /\ kb = None => \A p \in Processes : last_known[p] = 0
    /\ \A i \in Ingests : ingest[i].pc = "bump" => ingest[i].read = Cur

(* What is announced, or about to be, is in the corpus. *)
AnnouncedIsWritten ==
    \A i \in Ingests : i \in announced \/ ingest[i].pc \in {"announce", "bump"} =>
        \A b \in Batches : <<i, b>> \in corpus

VersionInv == OneCounter /\ AnnouncedIsWritten

LEMMA CurIsCurrent ==
  ASSUME IngestInv, OneCounter
  PROVE  /\ Cur \in Versions /\ Cur \in Nat
         /\ \A p \in Processes : current(p) = Cur
BY VersionTypes DEF IngestInv, IngestTypes, OneCounter, Cur, current

LEMMA InitVersions == Init => VersionInv
BY DEF Init, VersionInv, OneCounter, AnnouncedIsWritten

LEMMA OneBumpAtATime ==
  ASSUME OneIngester, IngestInv, NEW i \in Ingests, NEW j \in Ingests,
         ingest[i].pc = "bump", ingest[j].pc = "bump"
  PROVE  i = j
BY DEF OneIngester, IngestInv, BumpsAreLocked

(* How a step may move the version: not at all, with nothing announced, or *)
(* to the next one.                                                        *)
Advances(old, new, heard, next) ==
    \/ new = old /\ next = heard
    \/ new = old + 1

LEMMA RequestsKeepVersions ==
  ASSUME CacheInv, VersionInv, NEW r \in Requests, Begin(r) \/ Serve(r) \/ Abandon(r)
  PROVE  VersionInv' /\ Cur' = Cur /\ announced' = announced /\ corpus' = corpus
<1>1. UNCHANGED <<kb, ingestVars>>
  BY DEF Begin, Serve, Abandon, LookupFails, Resolve, _exact, Discard, _semantic, Probe,
         Unindex, _remember, LoadMemory, Retrieve, Finish, StoreResolve, StoreSet, StoreIndex,
         StoreFails
<1>2. last_known' = last_known \/ last_known' = [last_known EXCEPT ![RequestAt[r]] = Cur]
  <2>1. current(RequestAt[r]) = Cur
    BY CurIsCurrent, CacheAssumption DEF CacheInv, VersionInv
  <2> QED
    BY <2>1 DEF Begin, Serve, Abandon, LookupFails, Resolve, _exact, Discard, _semantic, Probe,
         Unindex, _remember, LoadMemory, Retrieve, Finish, StoreResolve, StoreSet, StoreIndex,
         StoreFails
<1>3. Cur' = Cur
  BY <1>1 DEF Cur
<1>4. OneCounter'
  <2>1. kb' = None => \A p \in Processes : last_known'[p] = 0
    BY <1>1, <1>2 DEF VersionInv, OneCounter, Cur, CacheInv, IngestInv, IngestTypes
  <2> QED
    BY <1>1, <1>3, <2>1 DEF VersionInv, OneCounter, ingestVars
<1>5. AnnouncedIsWritten'
  BY <1>1 DEF VersionInv, AnnouncedIsWritten, ingestVars
<1> QED
  BY <1>1, <1>3, <1>4, <1>5 DEF VersionInv, ingestVars

LEMMA BatchKeepsVersions ==
  ASSUME CacheInv, VersionInv, NEW i \in Ingests, NEW b \in Batches, _index_batch(i, b)
  PROVE  VersionInv' /\ Cur' = Cur /\ announced' = announced /\ corpus \subseteq corpus'
<1>1. UNCHANGED <<kb, last_known, announced>> /\ corpus' = corpus \cup {<<i, b>>}
  BY DEF _index_batch, backendVars
<1>2. Cur' = Cur
  BY <1>1 DEF Cur
<1>3. OneCounter'
  BY <1>1, <1>2 DEF _index_batch, VersionInv, OneCounter, CacheInv, IngestInv, IngestTypes
<1>4. ASSUME NEW j \in Ingests, j \in announced' \/ ingest'[j].pc \in {"announce", "bump"},
             NEW c \in Batches
      PROVE  <<j, c>> \in corpus'
  <2>1. CASE j \in announced \/ ingest[j].pc \in {"announce", "bump"}
    BY <1>1, <2>1 DEF VersionInv, AnnouncedIsWritten
  <2>2. CASE j = i /\ ingest'[i].pc = "announce"
    <3>1. Written(i) \cup {b} = Batches
      BY <2>2 DEF _index_batch, CacheInv, IngestInv, IngestTypes
    <3> QED
      BY <1>1, <2>2, <3>1 DEF Written
  <2> QED
    BY <1>1, <1>4, <2>1, <2>2 DEF _index_batch, CacheInv, IngestInv, IngestTypes
<1>5. AnnouncedIsWritten'
  BY <1>4 DEF AnnouncedIsWritten
<1> QED
  BY <1>1, <1>2, <1>3, <1>5 DEF VersionInv

LEMMA LateWriteKeepsVersions ==
  ASSUME CacheInv, VersionInv, NEW i \in Ingests, NEW b \in Batches, LateWrite(i, b)
  PROVE  VersionInv' /\ Cur' = Cur /\ announced' = announced /\ corpus \subseteq corpus'
<1>1. UNCHANGED <<kb, last_known, ingest, announced>> /\ corpus \subseteq corpus'
  BY DEF LateWrite, backendVars
<1>2. Cur' = Cur
  BY <1>1 DEF Cur
<1>3. OneCounter' /\ AnnouncedIsWritten'
  BY <1>1, <1>2 DEF VersionInv, OneCounter, AnnouncedIsWritten
<1> QED
  BY <1>1, <1>2, <1>3 DEF VersionInv

LEMMA BumpReadKeepsVersions ==
  ASSUME CacheInv, VersionInv, NEW i \in Ingests, BumpRead(i)
  PROVE  VersionInv' /\ Cur' = Cur /\ announced' = announced /\ corpus' = corpus
<1>1. IngestAt[i] \in Processes /\ current(IngestAt[i]) = Cur
  BY CurIsCurrent, CacheAssumption DEF CacheInv, VersionInv
<1>2. UNCHANGED <<kb, announced, corpus>>
  BY DEF BumpRead, backendVars
<1>3. Cur' = Cur
  BY <1>2 DEF Cur
<1>4. kb' = None => \A p \in Processes : last_known'[p] = 0
  BY <1>1, <1>2 DEF BumpRead, VersionInv, OneCounter, Cur, CacheInv, IngestInv, IngestTypes
<1>5. OneCounter'
  BY <1>1, <1>3, <1>4 DEF BumpRead, VersionInv, OneCounter, CacheInv, IngestInv, IngestTypes
<1>6. AnnouncedIsWritten'
  BY <1>2 DEF BumpRead, VersionInv, AnnouncedIsWritten, CacheInv, IngestInv, IngestTypes
<1> QED
  BY <1>2, <1>3, <1>5, <1>6 DEF VersionInv

(* A bump that wrote moves the version by one, announced or not. *)
LEMMA BumpAdvances ==
  ASSUME OneIngester, CacheInv, VersionInv, NEW i \in Ingests, BumpWrite(i) \/ BumpFails(i)
  PROVE  /\ VersionInv' /\ corpus' = corpus
         /\ Advances(Cur, Cur', announced, announced')
<1>0. Cur \in Nat /\ IngestTypes
  BY CurIsCurrent DEF CacheInv, VersionInv, IngestInv
<1>1. corpus' = corpus
  BY DEF BumpWrite, BumpFails
<1>2. \A j \in Ingests : j # i => ingest'[j] = ingest[j]
  BY <1>0 DEF BumpWrite, BumpFails, IngestTypes
<1>3. ingest'[i].pc \in {"done", "failed"}
  BY <1>0 DEF BumpWrite, BumpFails, IngestTypes
<1>4. AnnouncedIsWritten'
  BY <1>1, <1>2, <1>3 DEF BumpWrite, BumpFails, VersionInv, AnnouncedIsWritten
<1>5. CASE ingest[i].pc = "bump" /\ kb' = NextVersion(ingest[i].read)
  <2>1. ingest[i].read = Cur
    BY <1>5 DEF VersionInv, OneCounter
  <2>2. PICK c \in Nat : c = Cur
    BY <1>0
  <2>3. kb' = c + 1
    BY <1>5, <2>1, <2>2 DEF NextVersion
  <2>5. kb' # None
    <3>1. PICK n \in Versions : n = c + 1
      <4>1. ingest[i].read \in Versions /\ ingest[i].read <= Cardinality(Finished)
        BY <1>5 DEF CacheInv, IngestInv, BumpsAreLocked, VersionsAreSpent, AtMost
      <4>2. Finished \subseteq Ingests /\ i \notin Finished
        BY <1>5 DEF Finished
      <4>3. Cardinality(Finished) \in Nat /\ Cardinality(Finished) + 1 \in Versions
        BY <4>2, FinishedCounts
      <4>4. c <= Cardinality(Finished)
        BY <2>1, <2>2, <4>1
      <4> QED
        BY <4>3, <4>4, VersionTypes DEF Versions
    <3> QED
      BY <2>3, <3>1, VersionTypes
  <2>6. Cur' = Cur + 1
    BY <2>2, <2>3, <2>5 DEF Cur
  <2>7. \A j \in Ingests : ingest'[j].pc # "bump"
    BY <1>2, <1>3, <1>5, OneBumpAtATime DEF CacheInv
  <2>8. OneCounter'
    BY <2>5, <2>7 DEF OneCounter
  <2> QED
    BY <1>1, <1>4, <2>6, <2>8 DEF VersionInv, Advances
<1>6. CASE BumpFails(i) /\ kb' = kb
  <2>1. UNCHANGED <<last_known, announced>>
    BY <1>6 DEF BumpFails
  <2>2. Cur' = Cur
    BY <1>6 DEF Cur
  <2>3. OneCounter'
    BY <1>2, <1>3, <1>6, <2>1, <2>2 DEF VersionInv, OneCounter
  <2> QED
    BY <1>1, <1>4, <2>1, <2>2, <2>3 DEF VersionInv, Advances
<1> QED
  BY <1>5, <1>6 DEF BumpWrite, BumpFails

LEMMA RestKeepsVersions ==
  ASSUME OneIngester, CacheInv, VersionInv,
         (\E i \in Ingests : IngestFails(i)) \/ (\E k \in Keys : Evict(k) \/ Trim(k)) \/ Flush
         \/ Tick \/ UNCHANGED vars
  PROVE  VersionInv' /\ Cur' = Cur /\ announced' = announced /\ corpus' = corpus
<1>1. ~Flush
  BY DEF Flush, OneIngester, CacheInv, BackendTypes
<1>2. UNCHANGED <<kb, last_known, announced, corpus>>
  BY <1>1 DEF IngestFails, Evict, Trim, Tick, vars, backendVars, ingestVars
<1>3. Cur' = Cur
  BY <1>2 DEF Cur
<1>4. \A j \in Ingests : ingest'[j] = ingest[j] \/ ingest'[j].pc = "failed"
  BY <1>1 DEF IngestFails, Evict, Trim, Tick, vars, ingestVars, CacheInv, IngestInv, IngestTypes
<1>5. OneCounter' /\ AnnouncedIsWritten'
  BY <1>2, <1>3, <1>4 DEF VersionInv, OneCounter, AnnouncedIsWritten
<1> QED
  BY <1>2, <1>3, <1>5 DEF VersionInv

(* What request x knows, when version c is current and these ingestions    *)
(* are announced: its lookup resolved that version or an earlier one, and  *)
(* if that one, it has heard of all of them.                               *)
Informed(x, c, heard) ==
    /\ x.known \subseteq heard
    /\ x.lookedUp # None => x.lookedUp <= c /\ (x.lookedUp = c => x.known = heard)

(* The same of a stored answer e: what it has seen. *)
UpToDate(e, c, heard) ==
    e.lookedUp # None => e.lookedUp <= c /\ (e.lookedUp = c => HasSeen(e, heard))

(* Two lookups of one version knew the same, and an answer whose run       *)
(* looked up a version has seen what any lookup of that version knew.      *)
Agree(x, y) == x.lookedUp # None /\ x.lookedUp = y.lookedUp => x.known = y.known
Backs(e, x) == e.lookedUp # None /\ e.lookedUp = x.lookedUp => HasSeen(e, x.known)

(* A run that has retrieved saw what its lookup knew, and so has an answer *)
(* found in the cache.                                                     *)
Grounded(x) == x.pc \in {"finish"} \cup Storing => HasSeen(x, x.known)
Shown(x) == x.pc \in {"remember", "served"} =>
    (x.result.lookedUp = x.result.version => HasSeen(x.result, x.known))

FreshInv ==
    /\ VersionInv
    /\ \A r \in Requests : /\ Informed(request[r], Cur, announced)
                           /\ Grounded(request[r]) /\ Shown(request[r])
    /\ \A r, q \in Requests : Agree(request[r], request[q])
    /\ \A k \in Keys : entries[k] # None =>
          /\ UpToDate(entries[k], Cur, announced)
          /\ \A r \in Requests : Backs(entries[k], request[r])

LEMMA InitFresh == Init => FreshInv
<1> SUFFICES ASSUME Init PROVE FreshInv
  OBVIOUS
<1>1. ASSUME NEW q \in Questions, NEW s \in Sessions \cup {None}
      PROVE  LET x == Bare("idle", q, s) IN x.pc = "idle" /\ x.lookedUp = None /\ x.known = {}
  BY <1>1 DEF Bare
<1>2. \A r \in Requests :
         request[r].pc = "idle" /\ request[r].lookedUp = None /\ request[r].known = {}
  BY <1>1 DEF Init
<1>3. \A k \in Keys : entries[k] = None
  BY DEF Init
<1> QED
  BY <1>2, <1>3, InitVersions
     DEF FreshInv, Informed, Grounded, Shown, Agree, Storing

(* A version that advances leaves every lookup and every answer behind. *)
LEMMA AdvanceKeepsRequests ==
  ASSUME NEW x, x.lookedUp \in Nat \cup {None}, NEW c \in Nat, NEW d, NEW heard, NEW next,
         Informed(x, c, heard), Advances(c, d, heard, next), heard \subseteq next
  PROVE  Informed(x, d, next)
<1>1. CASE d = c /\ next = heard
  BY <1>1
<1>2. CASE d = c + 1
  <2>1. x.lookedUp # None => x.lookedUp \in Nat /\ x.lookedUp <= c
    BY DEF Informed
  <2>2. x.lookedUp # None => x.lookedUp <= d /\ x.lookedUp # d
    BY <1>2, <2>1
  <2> QED
    BY <2>2 DEF Informed
<1> QED
  BY <1>1, <1>2 DEF Advances

LEMMA AdvanceKeepsAnswers ==
  ASSUME NEW e, e.lookedUp \in Nat \cup {None}, NEW c \in Nat, NEW d, NEW heard, NEW next,
         UpToDate(e, c, heard), Advances(c, d, heard, next)
  PROVE  UpToDate(e, d, next)
<1>1. CASE d = c /\ next = heard
  BY <1>1
<1>2. CASE d = c + 1
  <2>1. e.lookedUp # None => e.lookedUp \in Nat /\ e.lookedUp <= c
    BY DEF UpToDate
  <2>2. e.lookedUp # None => e.lookedUp <= d /\ e.lookedUp # d
    BY <1>2, <2>1
  <2> QED
    BY <2>2 DEF UpToDate
<1> QED
  BY <1>1, <1>2 DEF Advances

LEMMA VersionsNext ==
  ASSUME OneIngester, CacheInv, VersionInv, [Next]_vars
  PROVE  /\ VersionInv'
         /\ Advances(Cur, Cur', announced, announced')
         /\ announced \subseteq announced'
<1>1. CASE VersionInv' /\ Cur' = Cur /\ announced' = announced
  BY <1>1 DEF Advances
<1>2. CASE \E i \in Ingests : BumpWrite(i) \/ BumpFails(i)
  <2>1. announced \subseteq announced'
    BY <1>2 DEF BumpWrite, BumpFails
  <2> QED
    BY <1>2, <2>1, BumpAdvances
<1>3. CASE ~\E i \in Ingests : BumpWrite(i) \/ BumpFails(i)
  BY <1>1, <1>3, RequestsKeepVersions, BatchKeepsVersions, LateWriteKeepsVersions, BumpReadKeepsVersions,
     RestKeepsVersions DEF Next, Ingest
<1> QED
  BY <1>2, <1>3

(* Steps that are not a request's. *)
LEMMA FreshWhenNoneMoves ==
  ASSUME OneIngester, CacheInv, FreshInv, [Next]_vars, request' = request,
         \A k \in Keys : entries'[k] \in {entries[k], None}
  PROVE  FreshInv'
<1>1. /\ VersionInv' /\ Advances(Cur, Cur', announced, announced')
      /\ announced \subseteq announced'
  BY VersionsNext DEF FreshInv
<1>2. Cur \in Nat
  BY CurIsCurrent DEF CacheInv, FreshInv, VersionInv
<1>3. ASSUME NEW r \in Requests
      PROVE  Informed(request'[r], Cur', announced') /\ Grounded(request'[r]) /\ Shown(request'[r])
  <2>1. request[r].lookedUp \in Nat \cup {None}
    BY VersionTypes DEF CacheInv, RequestInv, Requested
  <2>2. Informed(request[r], Cur, announced) /\ Grounded(request[r]) /\ Shown(request[r])
    BY DEF FreshInv
  <2>3. Informed(request[r], Cur', announced')
    BY <1>1, <1>2, <2>1, <2>2, AdvanceKeepsRequests
  <2> QED
    BY <2>2, <2>3
<1>4. ASSUME NEW k \in Keys, entries'[k] # None
      PROVE  /\ UpToDate(entries'[k], Cur', announced')
             /\ \A r \in Requests : Backs(entries'[k], request'[r])
  <2>1. entries'[k] = entries[k] /\ entries[k] \in Entries
    BY <1>4 DEF CacheInv, BackendTypes
  <2>2. entries[k].lookedUp \in Nat \cup {None}
    BY <2>1, VersionTypes DEF Entries
  <2>3. UpToDate(entries[k], Cur, announced) /\ \A r \in Requests : Backs(entries[k], request[r])
    BY <1>4, <2>1 DEF FreshInv
  <2>4. UpToDate(entries[k], Cur', announced')
    BY <1>1, <1>2, <2>2, <2>3, AdvanceKeepsAnswers
  <2> QED
    BY <2>1, <2>3, <2>4
<1>5. \A r, q \in Requests : Agree(request'[r], request'[q])
  BY DEF FreshInv
<1> QED
  BY <1>1, <1>3, <1>4, <1>5 DEF FreshInv

(* What a request's step makes of its lookup: kept, resolved, or dropped. *)
Learns(x, y, c, heard) ==
    \/ y.lookedUp = x.lookedUp /\ y.known = x.known
    \/ y.lookedUp = c /\ y.known = heard
    \/ y.lookedUp = None /\ y.known = {}

LEMMA LearningKeepsFresh ==
  ASSUME NEW x, NEW y, NEW c \in Nat, NEW heard, Informed(x, c, heard), Learns(x, y, c, heard)
  PROVE  /\ Informed(y, c, heard) /\ Agree(y, y)
         /\ \A z : Informed(z, c, heard) /\ Agree(x, z) => Agree(y, z)
         /\ \A z : Informed(z, c, heard) /\ Agree(z, x) => Agree(z, y)
         /\ \A e : UpToDate(e, c, heard) /\ Backs(e, x) => Backs(e, y)
<1>1. CASE y.lookedUp = x.lookedUp /\ y.known = x.known
  BY <1>1 DEF Informed, Agree, Backs
<1>2. CASE y.lookedUp = c /\ y.known = heard
  BY <1>2 DEF Informed, Agree, Backs, UpToDate
<1>3. CASE y.lookedUp = None /\ y.known = {}
  BY <1>3 DEF Informed, Agree, Backs
<1> QED
  BY <1>1, <1>2, <1>3 DEF Learns

(* A step that stays clear of the places Grounded and Shown speak of, or   *)
(* moves between them with what they speak of.                             *)
Carries(x, y) ==
    /\ y.lookedUp = x.lookedUp /\ y.known = x.known
    /\ \/ y.pc \notin {"finish"} \cup Storing
       \/ x.pc \in {"finish"} \cup Storing /\ y.basis = x.basis
    /\ \/ y.pc \notin {"remember", "served"}
       \/ x.pc \in {"remember", "served"} /\ y.result = x.result

LEMMA CarryingKeepsFresh ==
  ASSUME NEW x, NEW y, NEW c, NEW heard, Grounded(x), Shown(x), Carries(x, y)
  PROVE  Learns(x, y, c, heard) /\ Grounded(y) /\ Shown(y)
BY DEF Grounded, Shown, Carries, Learns, HasSeen

(* What a step of r leaves behind. *)
StaysFresh(r) ==
    /\ Learns(request[r], request'[r], Cur, announced)
    /\ Grounded(request'[r]) /\ Shown(request'[r])

LEMMA CarryingStaysFresh ==
  ASSUME FreshInv, NEW r \in Requests, Carries(request[r], request'[r])
  PROVE  StaysFresh(r)
<1>1. Grounded(request[r]) /\ Shown(request[r])
  BY DEF FreshInv
<1> QED
  BY <1>1, CarryingKeepsFresh DEF StaysFresh

LEMMA EndStaysFresh ==
  ASSUME CacheInv, NEW r \in Requests, NEW place \in {"answered", "raised"}, End(r, place)
  PROVE  StaysFresh(r)
<1>1. PICK y : y = Bare(place, request[r].question, request[r].session)
  OBVIOUS
<1>2. request'[r] = y
  BY <1>1 DEF End, CacheInv, RequestInv
<1>3. y.lookedUp = None /\ y.known = {} /\ y.pc = place
  BY <1>1 DEF Bare
<1> QED
  BY <1>2, <1>3 DEF StaysFresh, Learns, Grounded, Shown, Storing

LEMMA ResolveStaysFresh ==
  ASSUME CacheInv, FreshInv, NEW r \in Requests, Resolve(r)
  PROVE  StaysFresh(r)
<1>1. current(RequestAt[r]) = Cur
  BY CurIsCurrent, CacheAssumption DEF CacheInv, FreshInv, VersionInv
<1>2. PICK c : c = Cur
  OBVIOUS
<1>3. PICK k : k = <<current(RequestAt[r]), request[r].question>>
  OBVIOUS
<1>4. request' = [request EXCEPT ![r].pc = "exact", ![r].lookedUp = c, ![r].key = k,
                                 ![r].known = announced]
  BY <1>1, <1>2, <1>3 DEF Resolve
<1>5. request'[r].pc = "exact" /\ request'[r].lookedUp = c /\ request'[r].known = announced
  BY <1>4 DEF CacheInv, RequestInv, Requested
<1> QED
  BY <1>2, <1>5 DEF StaysFresh, Learns, Grounded, Shown, Storing

(* A hit of the cache: the answer is of the version looked up. *)
LEMMA FoundIsShown ==
  ASSUME CacheInv, FreshInv, NEW r \in Requests, NEW k \in Keys, request[r].lookedUp \in Versions,
         NEW e, e = Found(k, request[r].lookedUp), e # None,
         e.lookedUp = e.version
  PROVE  HasSeen(e, request[r].known)
<1>1. e = entries[k] /\ e.version = request[r].lookedUp
  BY FoundIsGood
<1>2. Backs(e, request[r])
  BY <1>1 DEF FreshInv
<1>3. e.lookedUp # None
  BY <1>1, VersionTypes
<1> QED
  BY <1>1, <1>2, <1>3 DEF Backs

LEMMA ReadStaysFresh ==
  ASSUME CacheInv, FreshInv, NEW r \in Requests, NEW k \in Keys, request[r].lookedUp \in Versions,
         NEW missed \in {"semantic", "load", "unindex"}, NEW y, y = request'[r],
         y.lookedUp = request[r].lookedUp, y.known = request[r].known,
         y.pc = PlaceAfter(k, request[r].lookedUp, missed),
         y.result = Found(k, request[r].lookedUp)
  PROVE  StaysFresh(r)
<1>1. y.pc \in {missed, "remember", "discard"} /\ (y.pc = "remember" => y.result # None)
  BY FoundIsGood
<1>2. PICK e : e = y.result
  OBVIOUS
<1>3. e # None /\ e.lookedUp = e.version => HasSeen(e, request[r].known)
  BY <1>2, FoundIsShown
<1>4. Shown(y)
  BY <1>1, <1>2, <1>3 DEF Shown
<1> QED
  BY <1>1, <1>4 DEF StaysFresh, Learns, Grounded, Storing

LEMMA ExactStaysFresh ==
  ASSUME CacheInv, FreshInv, NEW r \in Requests, _exact(r)
  PROVE  StaysFresh(r)
<1>1. request \in [Requests -> Requested]
  BY DEF CacheInv, RequestInv
<1>2. request[r].key \in Keys /\ request[r].lookedUp \in Versions
  BY DEF _exact, CacheInv, RequestInv, Placed, LookupPlaces
<1>3. PICK place : place = PlaceAfter(request[r].key, request[r].lookedUp, AfterExact)
  OBVIOUS
<1>4. PICK e : e = Found(request[r].key, request[r].lookedUp)
  OBVIOUS
<1>5. request' = [request EXCEPT ![r].pc = place, ![r].result = e]
  BY <1>3, <1>4 DEF _exact
<1>6. /\ request'[r].lookedUp = request[r].lookedUp /\ request'[r].known = request[r].known
      /\ request'[r].pc = place /\ request'[r].result = e
  BY <1>1, <1>5 DEF Requested
<1>7. AfterExact \in {"semantic", "load", "unindex"}
  BY DEF AfterExact
<1> QED
  BY <1>2, <1>3, <1>4, <1>6, <1>7, ReadStaysFresh

LEMMA ProbeStaysFresh ==
  ASSUME CacheInv, FreshInv, NEW r \in Requests, Probe(r)
  PROVE  StaysFresh(r)
<1>1. request \in [Requests -> Requested]
  BY DEF CacheInv, RequestInv
<1>2. request[r].candidates \subseteq Keys /\ request[r].lookedUp \in Versions
  BY DEF Probe, CacheInv, RequestInv, Requested, Placed, LookupPlaces
<1>3. CASE Goto(r, "load")
  <2>1. Carries(request[r], request'[r])
    BY <1>1, <1>3 DEF Goto, Requested, Carries, Storing
  <2> QED
    BY <2>1, CarryingStaysFresh
<1>4. ASSUME NEW k \in request[r].candidates,
             request' = [request EXCEPT ![r].pc = PlaceAfter(k, request[r].lookedUp, "unindex"),
                                        ![r].key = k,
                                        ![r].result = Found(k, request[r].lookedUp)]
      PROVE  StaysFresh(r)
  <2>1. PICK place : place = PlaceAfter(k, request[r].lookedUp, "unindex")
    OBVIOUS
  <2>2. PICK e : e = Found(k, request[r].lookedUp)
    OBVIOUS
  <2>3. request' = [request EXCEPT ![r].pc = place, ![r].key = k, ![r].result = e]
    BY <1>4, <2>1, <2>2
  <2>4. /\ request'[r].lookedUp = request[r].lookedUp /\ request'[r].known = request[r].known
        /\ request'[r].pc = place /\ request'[r].result = e
    BY <1>1, <2>3 DEF Requested
  <2>5. k \in Keys
    BY <1>2, <1>4
  <2> QED
    BY <1>2, <2>1, <2>2, <2>4, <2>5, ReadStaysFresh
<1> QED
  BY <1>3, <1>4 DEF Probe

(* A retrieval sees everything announced, and so all its lookup knew. *)
LEMMA RetrieveStaysFresh ==
  ASSUME CacheInv, FreshInv, NEW r \in Requests, Retrieve(r)
  PROVE  StaysFresh(r)
<1>1. request \in [Requests -> Requested]
  BY DEF CacheInv, RequestInv
<1>2. /\ request'[r].lookedUp = request[r].lookedUp /\ request'[r].known = request[r].known
      /\ request'[r].pc = "finish" /\ request'[r].basis = corpus
  BY <1>1 DEF Retrieve, Requested
<1>3. request[r].known \subseteq announced /\ announced \subseteq Ingests
  BY DEF FreshInv, Informed, CacheInv, IngestInv, IngestTypes
<1>4. announced \X Batches \subseteq corpus
  BY <1>3 DEF FreshInv, VersionInv, AnnouncedIsWritten
<1>5. request[r].known \X Batches \subseteq corpus
  BY <1>3, <1>4
<1>6. Grounded(request'[r]) /\ Shown(request'[r])
  BY <1>2, <1>5 DEF Grounded, Shown, HasSeen
<1> QED
  BY <1>2, <1>6 DEF StaysFresh, Learns

LEMMA OthersStayFresh ==
  ASSUME CacheInv, FreshInv, NEW r \in Requests,
         LookupFails(r) \/ Discard(r) \/ _semantic(r) \/ Unindex(r) \/ _remember(r)
         \/ LoadMemory(r) \/ Finish(r) \/ StoreResolve(r) \/ StoreSet(r)
  PROVE  StaysFresh(r)
<1>1. request \in [Requests -> Requested]
  BY DEF CacheInv, RequestInv
<1>2. CASE End(r, "answered")
  BY <1>2, EndStaysFresh
<1>3. CASE Carries(request[r], request'[r])
  BY <1>3, CarryingStaysFresh
<1>5. CASE LookupFails(r)
  <2>1. Carries(request[r], request'[r])
    BY <1>1, <1>5 DEF LookupFails, Requested, Carries, Storing
  <2> QED
    BY <2>1, <1>3
<1>6. CASE Discard(r)
  <2>1. PICK place \in {"unindex", "semantic", "load"} : Goto(r, place)
    BY <1>6 DEF Discard, AfterExact
  <2>2. Carries(request[r], request'[r])
    BY <1>1, <2>1 DEF Goto, Requested, Carries, Storing
  <2> QED
    BY <2>2, <1>3
<1>7. CASE _semantic(r)
  <2>1. Carries(request[r], request'[r])
    BY <1>1, <1>7 DEF _semantic, Requested, Carries, Storing
  <2> QED
    BY <2>1, <1>3
<1>8. CASE Unindex(r)
  <2>1. Carries(request[r], request'[r])
    BY <1>1, <1>8 DEF Unindex, Requested, Carries, Storing
  <2> QED
    BY <2>1, <1>3
<1>9. CASE _remember(r)
  <2>1. Carries(request[r], request'[r])
    BY <1>1, <1>9 DEF _remember, Goto, Requested, Carries, Storing
  <2> QED
    BY <2>1, <1>3
<1>10. CASE LoadMemory(r)
  <2>1. Carries(request[r], request'[r])
    BY <1>1, <1>10 DEF LoadMemory, Requested, Carries, Storing
  <2> QED
    BY <2>1, <1>3
<1>11. CASE Finish(r) /\ ~End(r, "answered")
  <2>1. PICK res \in StorableOutcomes :
           request' = [request EXCEPT ![r].pc = "store", ![r].result = res]
    BY <1>11 DEF Finish
  <2>2. request[r].pc = "finish"
    BY <1>11 DEF Finish
  <2>3. Carries(request[r], request'[r])
    BY <1>1, <2>1, <2>2 DEF Requested, Carries, Storing
  <2> QED
    BY <2>3, <1>3
<1>12. CASE StoreResolve(r)
  <2>1. Carries(request[r], request'[r])
    BY <1>1, <1>12 DEF StoreResolve, Requested, Carries, Storing
  <2> QED
    BY <2>1, <1>3
<1>13. CASE StoreSet(r) /\ Goto(r, "index_add")
  <2>1. Carries(request[r], request'[r])
    BY <1>1, <1>13 DEF StoreSet, Goto, Requested, Carries, Storing
  <2> QED
    BY <2>1, <1>3
<1> QED
  BY <1>2, <1>5, <1>6, <1>7, <1>8, <1>9, <1>10, <1>11, <1>12, <1>13 DEF StoreSet

LEMMA RequestsStayFresh ==
  ASSUME CacheInv, FreshInv, NEW r \in Requests, Serve(r) \/ Abandon(r)
  PROVE  StaysFresh(r)
<1>1. CASE StoreIndex(r) \/ StoreFails(r) \/ Abandon(r)
  BY <1>1, EndStaysFresh DEF StoreIndex, StoreFails, Abandon
<1> QED
  BY <1>1, ResolveStaysFresh, ExactStaysFresh, ProbeStaysFresh, RetrieveStaysFresh,
     OthersStayFresh DEF Serve

(* What a request writes was seen by its own run, under its own lookup. *)
LEMMA StoredIsFresh ==
  ASSUME CacheInv, FreshInv, NEW r \in Requests, StoreSet(r)
  PROVE  /\ UpToDate(_entry(r), Cur, announced)
         /\ \A q \in Requests : Backs(_entry(r), request[q])
<1>1. PICK e : e = _entry(r)
  OBVIOUS
<1>2. e.lookedUp = request[r].lookedUp /\ e.basis = request[r].basis
  BY <1>1 DEF _entry
<1>3. HasSeen(request[r], request[r].known)
  BY DEF StoreSet, FreshInv, Grounded, Storing
<1>4. HasSeen(e, request[r].known)
  BY <1>2, <1>3 DEF HasSeen
<1>5. UpToDate(e, Cur, announced)
  BY <1>2, <1>4 DEF FreshInv, Informed, UpToDate
<1>6. \A q \in Requests : Backs(e, request[q])
  BY <1>2, <1>4 DEF FreshInv, Agree, Backs
<1> QED
  BY <1>1, <1>5, <1>6

(* The answers a step leaves behind, before the step's request moves on. *)
LEMMA AnswersStayFresh ==
  ASSUME CacheInv, FreshInv,
         \/ \A k \in Keys : entries'[k] \in {entries[k], None}
         \/ \E r \in Requests : StoreSet(r)
  PROVE  \A k \in Keys : entries'[k] # None =>
            /\ UpToDate(entries'[k], Cur, announced)
            /\ \A q \in Requests : Backs(entries'[k], request[q])
<1>1. CASE \A k \in Keys : entries'[k] \in {entries[k], None}
  BY <1>1 DEF FreshInv
<1>2. ASSUME NEW r \in Requests, StoreSet(r), NEW k \in Keys, entries'[k] # None
      PROVE  /\ UpToDate(entries'[k], Cur, announced)
             /\ \A q \in Requests : Backs(entries'[k], request[q])
  <2>1. entries'[k] = _entry(r) \/ entries'[k] = entries[k]
    BY <1>2 DEF StoreSet, CacheInv, BackendTypes
  <2> QED
    BY <1>2, <2>1, StoredIsFresh DEF FreshInv
<1> QED
  BY <1>1, <1>2

(* A request that begins tells none of them anything. *)
LEMMA FreshWhenOneBegins ==
  ASSUME CacheInv, FreshInv, NEW r \in Requests, Begin(r)
  PROVE  FreshInv'
<1>1. VersionInv' /\ Cur' = Cur /\ announced' = announced
  BY RequestsKeepVersions DEF FreshInv
<1>2. entries' = entries /\ request[r].pc = "idle" /\ Begun(r)
  BY BeginMoves DEF Begin
<1>3. ASSUME NEW q \in Requests
      PROVE  /\ request'[q].lookedUp = request[q].lookedUp
             /\ request'[q].known = request[q].known
             /\ Grounded(request'[q]) /\ Shown(request'[q])
  <2>1. Grounded(request[q]) /\ Shown(request[q])
    BY DEF FreshInv
  <2>2. CASE q = r
    <3>1. request[r] \in Requested
      BY DEF CacheInv, RequestInv
    <3> QED
      BY <1>2, <2>2, <3>1 DEF Begun, Marked, Requested, Grounded, Shown, Storing
  <2>3. CASE q # r
    <3>1. Still(request[q], request'[q])
      BY <1>2, <2>3 DEF Begun
    <3> QED
      BY <2>1, <3>1 DEF Still, Marked, Grounded, Shown, HasSeen
  <2> QED
    BY <2>2, <2>3
<1>4. \A q \in Requests : Informed(request'[q], Cur', announced')
  BY <1>1, <1>3 DEF FreshInv, Informed
<1>5. \A q, t \in Requests : Agree(request'[q], request'[t])
  BY <1>3 DEF FreshInv, Agree
<1>6. ASSUME NEW k \in Keys, entries'[k] # None
      PROVE  /\ UpToDate(entries'[k], Cur', announced')
             /\ \A q \in Requests : Backs(entries'[k], request'[q])
  BY <1>1, <1>2, <1>3, <1>6 DEF FreshInv, UpToDate, Backs
<1> QED
  BY <1>1, <1>3, <1>4, <1>5, <1>6 DEF FreshInv

LEMMA FreshWhenOneMoves ==
  ASSUME CacheInv, FreshInv, NEW r \in Requests, Serve(r) \/ Abandon(r),
         \/ \A k \in Keys : entries'[k] \in {entries[k], None}
         \/ \E q \in Requests : StoreSet(q)
  PROVE  FreshInv'
<1>1. VersionInv' /\ Cur' = Cur /\ announced' = announced
  BY RequestsKeepVersions DEF FreshInv
<1>2. StaysFresh(r)
  BY RequestsStayFresh
<1>3. \A q \in Requests : q # r => request'[q] = request[q]
  BY RequestsMove DEF Moved
<1>4. PICK x : x = request[r]
  OBVIOUS
<1>5. PICK y : y = request'[r]
  OBVIOUS
<1>6. PICK c \in Nat : c = Cur
  BY CurIsCurrent DEF CacheInv, FreshInv, VersionInv
<1>7. Informed(x, c, announced) /\ Learns(x, y, c, announced)
  BY <1>2, <1>4, <1>5, <1>6 DEF FreshInv, StaysFresh
<1>8. /\ Informed(y, c, announced) /\ Agree(y, y)
      /\ \A z : Informed(z, c, announced) /\ Agree(x, z) => Agree(y, z)
      /\ \A z : Informed(z, c, announced) /\ Agree(z, x) => Agree(z, y)
      /\ \A e : UpToDate(e, c, announced) /\ Backs(e, x) => Backs(e, y)
  BY <1>7, LearningKeepsFresh
<1>9. \A q \in Requests : Informed(request[q], c, announced)
  BY <1>6 DEF FreshInv
<1>10. ASSUME NEW q \in Requests
       PROVE  /\ Informed(request'[q], Cur', announced')
              /\ Grounded(request'[q]) /\ Shown(request'[q])
  <2>1. CASE q = r
    BY <1>1, <1>2, <1>5, <1>6, <1>8, <2>1 DEF StaysFresh
  <2>2. CASE q # r
    BY <1>1, <1>3, <2>2 DEF FreshInv
  <2> QED
    BY <2>1, <2>2
<1>11. ASSUME NEW q \in Requests, NEW t \in Requests
       PROVE  Agree(request'[q], request'[t])
  <2>1. Agree(request[q], request[t]) /\ Agree(x, request[t]) /\ Agree(request[q], x)
    BY <1>4 DEF FreshInv
  <2>2. CASE q = r /\ t = r
    BY <1>5, <1>8, <2>2
  <2>3. CASE q = r /\ t # r
    BY <1>3, <1>5, <1>8, <1>9, <2>1, <2>3
  <2>4. CASE q # r /\ t = r
    BY <1>3, <1>5, <1>8, <1>9, <2>1, <2>4
  <2>5. CASE q # r /\ t # r
    BY <1>3, <2>1, <2>5
  <2> QED
    BY <2>2, <2>3, <2>4, <2>5
<1>12. ASSUME NEW k \in Keys, entries'[k] # None
       PROVE  /\ UpToDate(entries'[k], Cur', announced')
              /\ \A q \in Requests : Backs(entries'[k], request'[q])
  <2>1. PICK e : e = entries'[k]
    OBVIOUS
  <2>2. UpToDate(e, c, announced) /\ \A q \in Requests : Backs(e, request[q])
    BY <1>6, <1>12, <2>1, AnswersStayFresh
  <2>3. Backs(e, y)
    BY <1>4, <1>8, <2>2
  <2>4. \A q \in Requests : Backs(e, request'[q])
    BY <1>3, <1>5, <2>2, <2>3
  <2> QED
    BY <1>1, <1>6, <2>1, <2>2, <2>4
<1> QED
  BY <1>1, <1>10, <1>11, <1>12 DEF FreshInv

LEMMA FreshNext == OneIngester /\ CacheInv /\ FreshInv /\ [Next]_vars => FreshInv'
<1> SUFFICES ASSUME OneIngester, CacheInv, FreshInv, [Next]_vars PROVE FreshInv'
  OBVIOUS
<1>1. \/ \A k \in Keys : entries'[k] \in {entries[k], None}
      \/ \E r \in Requests : StoreSet(r)
  BY AnswersAreOnlyStored
<1>2. CASE \E r \in Requests : Begin(r) \/ Serve(r) \/ Abandon(r)
  BY <1>1, <1>2, FreshWhenOneBegins, FreshWhenOneMoves
<1>3. CASE ~\E r \in Requests : Begin(r) \/ Serve(r) \/ Abandon(r)
  <2>1. request' = request
    BY <1>3, RestKeepsTheBackend DEF Next
  <2>2. \A k \in Keys : entries'[k] \in {entries[k], None}
    BY <1>1, <1>3 DEF Serve
  <2> QED
    BY <2>1, <2>2, FreshWhenNoneMoves
<1> QED
  BY <1>2, <1>3

(* When the ingestions run in one process, as they do behind the upload    *)
(* endpoint of a single replica, and the backend keeps its counter, an     *)
(* answer served from the cache has seen every ingestion announced when    *)
(* the request looked it up, provided it was stored under the version its  *)
(* own run had looked up: for any number of ingestions and of processes    *)
(* that serve, although a bump is a read and a write that may each fail,   *)
(* the write after it took effect.                                         *)
THEOREM CurrentHolds == ASSUME OneIngester PROVE Spec => []ServedAnswersAreCurrent
<1>1. CacheInv /\ FreshInv /\ [Next]_vars => FreshInv'
  BY FreshNext
<1>2. FreshInv => ServedAnswersAreCurrent
  BY DEF FreshInv, Shown, ServedAnswersAreCurrent, Served
<1> QED
  BY <1>1, <1>2, InitFresh, CacheAlways, PTL DEF Spec

-----------------------------------------------------------------------------
(* The ingestions as updates of the index *)

updateVars == <<corpus, [i \in Ingests |-> {i} \X Batches], [i \in Ingests |-> Progress(i)]>>

(* What is announced has ended with its bump, and what is being announced  *)
(* is written.                                                             *)
ProgressInv ==
    /\ IngestInv
    /\ \A i \in Ingests :
          /\ i \in announced => ingest[i].pc = "done"
          /\ ingest[i].pc \in {"announce", "bump"} => Written(i) = Batches /\ Batches # {}

Updated == ProgressInv' /\ [Update!Next]_updateVars

(* The rest of the system leaves the ingestions where they are. *)
LEMMA OthersDoNotUpdate ==
    ASSUME ProgressInv, IngestInv', UNCHANGED ingestVars
    PROVE  Updated
<1>1. \A i \in Ingests : Written(i)' = Written(i) /\ Progress(i)' = Progress(i)
  BY DEF ingestVars, Written, Progress
<1>2. ProgressInv'
  BY <1>1 DEF ProgressInv, ingestVars
<1>3. UNCHANGED updateVars
  BY <1>1 DEF updateVars, ingestVars
<1> QED BY <1>2, <1>3 DEF Updated

(* An ingestion that moves, the others staying where they are. *)
LEMMA OneProgresses ==
    ASSUME NEW i \in Ingests, \A j \in Ingests \ {i} : Progress(j)' = Progress(j)
    PROVE  [j \in Ingests |-> Progress(j)]'
               = [[j \in Ingests |-> Progress(j)] EXCEPT ![i] = Progress(i)']
OBVIOUS

LEMMA BatchUpdates ==
    ASSUME ProgressInv, IngestInv', NEW i \in Ingests, NEW b \in Batches, _index_batch(i, b)
    PROVE  Updated
<1>1. /\ ingest[i].pc = "writing" /\ corpus' = corpus \cup {<<i, b>>}
      /\ ingest' = [ingest EXCEPT ![i].pc =
                       IF Written(i) \cup {b} = Batches THEN "announce" ELSE "writing"]
      /\ announced' = announced
  BY DEF _index_batch
<1>2. /\ Written(i)' = Written(i) \cup {b}
      /\ \A j \in Ingests \ {i} : Written(j)' = Written(j)
  BY <1>1 DEF Written
<1>3. /\ ingest'[i].pc = IF Written(i) \cup {b} = Batches THEN "announce" ELSE "writing"
      /\ \A j \in Ingests \ {i} : ingest'[j] = ingest[j]
  BY <1>1 DEF ProgressInv, IngestInv, IngestTypes
<1>4. \A j \in Ingests : Progress(j)' = Progress(j)
  BY <1>1, <1>2, <1>3 DEF ProgressInv, Progress
<1>5. ProgressInv'
  BY <1>1, <1>2, <1>3 DEF ProgressInv
<1>6. Update!Next
  <2>1. Progress(i) = "writing"
    BY <1>1 DEF ProgressInv, Progress
  <2>2. corpus \subseteq corpus' /\ corpus' \ corpus \subseteq {i} \X Batches
    BY <1>1
  <2>3. Update!Write(i)
    BY <1>4, <2>1, <2>2 DEF Update!Write
  <2> QED BY <2>3 DEF Update!Next
<1> QED BY <1>5, <1>6 DEF Updated

(* An ingestion that is over without having announced anything: it failed  *)
(* while it was writing, or its bump did.                                  *)
LEMMA EndUpdates ==
    ASSUME ProgressInv, IngestInv', NEW i \in Ingests,
           \/ ingest[i].pc = "writing" /\ ingest'[i].pc = "failed"
           \/ ingest[i].pc \in {"announce", "bump"} /\ ingest'[i].pc = "done",
           \A j \in Ingests \ {i} : ingest'[j] = ingest[j],
           UNCHANGED <<corpus, announced>>
    PROVE  Updated
<1>1. \A j \in Ingests : Written(j)' = Written(j)
  BY DEF Written
<1>2. ProgressInv'
  BY <1>1 DEF ProgressInv
<1>3. \A j \in Ingests \ {i} : Progress(j)' = Progress(j)
  BY <1>1 DEF Progress
<1>4. Progress(i) = "writing" /\ Progress(i)' = ingest'[i].pc
  BY <1>1 DEF ProgressInv, Progress
<1>5. [j \in Ingests |-> Progress(j)]'
          = [[j \in Ingests |-> Progress(j)] EXCEPT ![i] = Progress(i)']
  BY <1>3, OneProgresses
<1>6. CASE ingest'[i].pc = "done"
  <2>1. {i} \X Batches \subseteq corpus
    BY <1>6 DEF ProgressInv, Written
  <2>2. Update!Complete(i)
    BY <1>4, <1>5, <1>6, <2>1 DEF Update!Complete, Update!Stored
  <2> QED BY <1>2, <2>2 DEF Updated, Update!Next
<1>7. CASE ingest'[i].pc = "failed"
  <2>1. Update!Fail(i)
    BY <1>4, <1>5, <1>7 DEF Update!Fail
  <2> QED BY <1>2, <2>1 DEF Updated, Update!Next
<1> QED BY <1>6, <1>7

(* A row of a call that was given up. *)
LEMMA LateWriteUpdates ==
    ASSUME ProgressInv, IngestInv', NEW i \in Ingests, NEW b \in Batches, LateWrite(i, b)
    PROVE  Updated
<1>1. /\ ingest[i].pc = "failed" /\ corpus' = corpus \cup {<<i, b>>}
      /\ UNCHANGED <<ingest, announced>>
  BY DEF LateWrite
<1>2. \A j \in Ingests \ {i} : Written(j)' = Written(j)
  BY <1>1 DEF Written
<1>3. \A j \in Ingests : Progress(j)' = Progress(j)
  BY <1>1 DEF Progress
<1>4. ProgressInv'
  BY <1>1, <1>2 DEF ProgressInv
<1>5. Progress(i) = "failed"
  BY <1>1 DEF ProgressInv, Progress
<1>6. corpus \subseteq corpus' /\ corpus' \ corpus \subseteq {i} \X Batches
  BY <1>1
<1>7. Update!Write(i)
  BY <1>3, <1>5, <1>6 DEF Update!Write
<1> QED BY <1>4, <1>7 DEF Updated, Update!Next

LEMMA BumpUpdates ==
    ASSUME ProgressInv, IngestInv', NEW i \in Ingests, BumpWrite(i)
    PROVE  Updated
<1>1. /\ ingest[i].pc = "bump" /\ announced' = announced \cup {i} /\ corpus' = corpus
      /\ ingest' = [ingest EXCEPT ![i] = [pc |-> "done", read |-> None]]
  BY DEF BumpWrite
<1>2. /\ ingest'[i].pc = "done"
      /\ \A j \in Ingests \ {i} : ingest'[j] = ingest[j]
  BY <1>1 DEF ProgressInv, IngestInv, IngestTypes
<1>3. \A j \in Ingests : Written(j)' = Written(j)
  BY <1>1 DEF Written
<1>4. ProgressInv'
  BY <1>1, <1>2, <1>3 DEF ProgressInv
<1>5. \A j \in Ingests \ {i} : Progress(j)' = Progress(j)
  BY <1>1, <1>2, <1>3 DEF Progress
<1>6. Progress(i) = "writing" /\ Progress(i)' = "announced"
  BY <1>1 DEF ProgressInv, Progress
<1>7. [j \in Ingests |-> Progress(j)]'
          = [[j \in Ingests |-> Progress(j)] EXCEPT ![i] = "announced"]
  BY <1>5, <1>6, OneProgresses
<1>8. {i} \X Batches \subseteq corpus /\ {i} \X Batches # {}
  <2>1. Written(i) = Batches /\ Batches # {}
    BY <1>1 DEF ProgressInv
  <2>2. \A b \in Batches : <<i, b>> \in corpus
    BY <2>1 DEF Written
  <2>3. {i} \X Batches \subseteq corpus
    BY <2>2
  <2>4. PICK b \in Batches : TRUE
    BY <2>1
  <2>5. <<i, b>> \in {i} \X Batches
    OBVIOUS
  <2> QED
    BY <2>3, <2>5
<1>9. Update!Announce(i)
  <2>1. [j \in Ingests |-> Progress(j)][i] = "writing"
    BY <1>6
  <2>2. [j \in Ingests |-> {j} \X Batches][i] = {i} \X Batches
    OBVIOUS
  <2>3. Update!Stored(i)
    BY <1>8, <2>2 DEF Update!Stored
  <2>4. [j \in Ingests |-> {j} \X Batches][i] # {}
    BY <1>8, <2>2
  <2> QED
    BY <1>1, <1>7, <2>1, <2>3, <2>4 DEF Update!Announce
<1> QED BY <1>4, <1>9 DEF Updated, Update!Next

LEMMA IngestUpdates ==
    ASSUME ProgressInv, IngestInv', NEW i \in Ingests, Ingest(i)
    PROVE  Updated
<1>0. ingest \in [Ingests -> [pc : IngestPlaces, read : Versions \cup {None}]]
  BY DEF ProgressInv, IngestInv, IngestTypes
<1>1. CASE IngestFails(i)
  BY <1>0, <1>1, EndUpdates DEF IngestFails
<1>2. CASE BumpFails(i)
  BY <1>0, <1>2, EndUpdates DEF BumpFails
<1>3. CASE BumpRead(i)
  <2>1. /\ ingest[i].pc = "announce" /\ ingest'[i].pc = "bump"
        /\ \A j \in Ingests \ {i} : ingest'[j] = ingest[j]
        /\ UNCHANGED <<corpus, announced>>
    BY <1>0, <1>3 DEF BumpRead
  <2>2. \A j \in Ingests : Written(j)' = Written(j) /\ Progress(j)' = Progress(j)
    BY <2>1 DEF Written, Progress
  <2>3. ProgressInv'
    BY <2>1, <2>2 DEF ProgressInv
  <2>4. UNCHANGED updateVars
    BY <2>1, <2>2 DEF updateVars
  <2> QED BY <2>3, <2>4 DEF Updated
<1> QED BY <1>1, <1>2, <1>3, BatchUpdates, LateWriteUpdates, BumpUpdates DEF Ingest

(* The ingestions of the cache do what IndexUpdate promises: nothing is    *)
(* announced before all of it is stored, nothing is written once it has    *)
(* been or once the ingestion has succeeded, and one that failed writes    *)
(* only its own rows, however lookups, stores, bumps and failures          *)
(* interleave.                                                             *)
THEOREM ImplementsUpdate == Spec => IngestionsAreIndexUpdates
<1>1. Init => ProgressInv /\ Update!Init
  <2> SUFFICES ASSUME Init PROVE ProgressInv /\ Update!Init
    OBVIOUS
  <2>1. ProgressInv
    BY InitIngests DEF Init, ProgressInv
  <2>2. Update!Init
    BY DEF Init, Update!Init, Progress
  <2> QED BY <2>1, <2>2
<1>2. ProgressInv /\ [Next]_vars => ProgressInv' /\ [Update!Next]_updateVars
  <2> SUFFICES ASSUME ProgressInv, [Next]_vars PROVE Updated
    BY DEF Updated
  <2>1. IngestInv'
    BY IngestsNext DEF ProgressInv
  <2>2. CASE UNCHANGED ingestVars
    BY <2>1, <2>2, OthersDoNotUpdate
  <2>3. CASE \E i \in Ingests : Ingest(i)
    BY <2>1, <2>3, IngestUpdates
  <2>4. ASSUME NEW r \in Requests, Begin(r) \/ Serve(r) \/ Abandon(r) PROVE UNCHANGED ingestVars
    BY <2>4 DEF Begin, Serve, Abandon, LookupFails, Resolve, _exact, Discard, _semantic, Probe,
                Unindex, _remember, LoadMemory, Retrieve, Finish, StoreResolve, StoreSet,
                StoreIndex, StoreFails
  <2>5. ASSUME (\E k \in Keys : Evict(k) \/ Trim(k)) \/ Flush \/ Tick \/ UNCHANGED vars
        PROVE  UNCHANGED ingestVars
    BY <2>5 DEF Evict, Trim, Flush, Tick, vars, ingestVars
  <2> QED BY <2>2, <2>3, <2>4, <2>5 DEF Next
<1> QED BY <1>1, <1>2, PTL DEF Spec, IngestionsAreIndexUpdates, Update!Spec, updateVars
=============================================================================
