-------------------------- MODULE IngestionProofs ---------------------------
(***************************************************************************)
(* Proofs about Ingestion, for any number of documents and batches and any *)
(* limits: the indexer's limiter is exact, the directory of an upload is   *)
(* there as long as its file is read and gone when its handler is, an      *)
(* ingestion implements IndexUpdate, components run only while what they   *)
(* use runs, and uploads and retries keep to their limits.                 *)
(***************************************************************************)
EXTENDS Ingestion, FiniteSetTheorems, TLAPS

-----------------------------------------------------------------------------
(* The containers, for any number of callers (the actions of Lifecycle):   *)
(* what has started is always the beginning of the order of registration,  *)
(* and that order names each component once, after all it is constructed   *)
(* with; which of the three orders it is does not matter beyond that.      *)

(* The first n components of the container. *)
Prefix(n) == {Order[i] : i \in 1 .. n}

(* What is started is always the beginning of the order of registration. *)
IsPrefix(set) ==
    /\ IsFiniteSet(set)
    /\ Cardinality(set) \in 0 .. Len(Order)
    /\ set = Prefix(Cardinality(set))

Stages == {"idle", "waiting", "starting", "serving", "refused", "failed", "cancelled", "closing",
           "stopped"}

LifecycleTypes ==
    /\ stage \in [Tasks -> Stages]
    /\ DOMAIN live = Tasks
    /\ DOMAIN opened = Tasks
    /\ {container, holder} \subseteq Callers \cup {None}

(* What has started in a container is the beginning of the order.  What is *)
(* open was opened by it, unless the last start failed half way, and until *)
(* the container is closed everything it opened is.                        *)
ComponentsFollow(t) ==
    /\ IsPrefix(live[t])
    /\ opened[t] \subseteq Resources
    /\ stage[t] = "stopped" => live[t] = {}
    /\ stage[t] # "failed" => opened[t] \subseteq live[t]
    /\ stage[t] \notin {"closing", "stopped"} => live[t] \cap Resources \subseteq opened[t]

(* Main serves a complete container and never queues for the lock. *)
MainFollows ==
    /\ stage[Main] # "waiting"
    /\ stage[Main] = "serving" => Cardinality(live[Main]) = Len(Order)

(* The container that is shared is complete, and until there is one only   *)
(* the holder of the lock builds it.                                       *)
SharingFollows ==
    /\ container # None =>
         /\ Cardinality(live[container]) = Len(Order)
         /\ \A t \in Callers : stage[t] # "starting"
    /\ \A t \in Callers :
         /\ stage[t] = "starting" => holder = t
         /\ stage[t] = "serving" => container # None

LifecycleInv ==
    /\ LifecycleTypes
    /\ \A t \in Tasks : ComponentsFollow(t)
    /\ MainFollows
    /\ SharingFollows

-----------------------------------------------------------------------------
(* An order of registration is sound if no component is registered twice,  *)
(* and each after what it is constructed with.                             *)
Sound(order) ==
    /\ Len(order) \in Nat
    /\ \A i, j \in 1 .. Len(order) : order[i] = order[j] => i = j
    /\ \A i \in 1 .. Len(order) : \A component \in Uses(order[i]) :
          \E j \in 1 .. i - 1 : order[j] = component
    /\ (\E i \in 1 .. Len(order) : order[i] = "pipeline") =>
          /\ \E i \in 1 .. Len(order) : order[i] = "embeddings"
          /\ \E i \in 1 .. Len(order) : order[i] = "store"

(* Those of the code are. *)
LEMMA OrderFacts == Sound(Order)
<1>1. Sound(build_ingestion_container)
  <2> DEFINE order == build_ingestion_container
  <2>1. Len(order) = 8 /\ \A i, j \in 1 .. 8 : order[i] = order[j] => i = j
    BY DEF build_ingestion_container
  <2>2. ASSUME NEW i \in 1 .. 8, NEW component \in Uses(order[i])
        PROVE  \E j \in 1 .. i - 1 : order[j] = component
    BY <2>2 DEF build_ingestion_container, Uses, ConstructedWith
  <2>3. order[1] = "embeddings" /\ order[2] = "store"
    BY DEF build_ingestion_container
  <2> QED
    BY <2>1, <2>2, <2>3 DEF Sound
<1>2. Sound(<<"memory">>)
  <2>1. Uses("memory") = {}
    BY DEF Uses, ConstructedWith
  <2> QED
    BY <2>1 DEF Sound
<1>3. ASSUME keyed PROVE Sound(build_container)
  <2> DEFINE order == build_container
  <2>1. Len(order) = 14
    BY <1>3 DEF build_container
  <2>2. \A i, j \in 1 .. 14 : order[i] = order[j] => i = j
    BY <1>3 DEF build_container
  <2>3. ASSUME NEW i \in 1 .. 14, NEW component \in Uses(order[i])
        PROVE  \E j \in 1 .. i - 1 : order[j] = component
    BY <1>3, <2>3 DEF build_container, Uses, ConstructedWith
  <2>4. order[2] = "embeddings" /\ order[4] = "store"
    BY <1>3 DEF build_container
  <2> QED
    BY <2>1, <2>2, <2>3, <2>4 DEF Sound
<1>4. ASSUME ~keyed PROVE build_container = <<"memory">>
  BY <1>4 DEF build_container
<1> QED
  BY <1>1, <1>2, <1>3, <1>4 DEF Order

(* A process does not change its order. *)
LEMMA SameOrder ==
    ASSUME UNCHANGED <<deployment, keyed>>
    PROVE  /\ Order' = Order
           /\ \A set : IsPrefix(set)' <=> IsPrefix(set)
BY DEF Order, build_container, IsPrefix, Prefix

(* Nothing started is a beginning of the order ... *)
LEMMA EmptyPrefix == IsPrefix({})
BY FS_EmptySet, OrderFacts DEF Sound, IsPrefix, Prefix

(* ... the next component makes a longer one ... *)
LEMMA PrefixGrows ==
    ASSUME NEW set, IsPrefix(set), Cardinality(set) < Len(Order)
    PROVE  IsPrefix(set \cup {Order[Cardinality(set) + 1]})
<1> DEFINE n == Cardinality(set)  component == Order[n + 1]  larger == set \cup {component}
<1>1. n \in Nat /\ n + 1 \in 1 .. Len(Order) /\ set = Prefix(n) /\ IsFiniteSet(set)
  BY OrderFacts DEF Sound, IsPrefix
<1> HIDE DEF n
<1>2. component \notin set
  BY <1>1, OrderFacts DEF Sound, Prefix
<1>3. IsFiniteSet(larger) /\ Cardinality(larger) = n + 1
  BY <1>1, <1>2, FS_AddElement DEF n
<1>4. larger = Prefix(n + 1)
  BY <1>1 DEF Prefix
<1> HIDE DEF larger
<1>5. IsPrefix(larger)
  BY <1>1, <1>3, <1>4, OrderFacts DEF Sound, IsPrefix
<1> QED
  BY <1>5 DEF larger, n

(* ... and without the last a shorter one. *)
LEMMA PrefixShrinks ==
    ASSUME NEW set, IsPrefix(set), set # {}
    PROVE  /\ ToClose(set) \in set
           /\ IsPrefix(set \ {ToClose(set)})
<1> DEFINE n == Cardinality(set)  component == Order[n]  smaller == set \ {component}
<1>1. n \in 1 .. Len(Order) /\ set = Prefix(n) /\ IsFiniteSet(set)
  BY OrderFacts, FS_EmptySet DEF IsPrefix, Prefix
<1> HIDE DEF n
<1>2. component \in set
  BY <1>1 DEF Prefix
<1>3. IsFiniteSet(smaller) /\ Cardinality(smaller) = n - 1
  BY <1>1, <1>2, FS_RemoveElement DEF n
<1>4. smaller = Prefix(n - 1)
  BY <1>1, OrderFacts DEF Sound, Prefix
<1> HIDE DEF smaller
<1>5. IsPrefix(smaller)
  BY <1>1, <1>3, <1>4, OrderFacts DEF Sound, IsPrefix
<1> QED
  BY <1>2, <1>5 DEF smaller, ToClose, n

(* What a component uses has started if it has. *)
LEMMA PrefixIsClosed ==
    ASSUME NEW set, IsPrefix(set), NEW component \in set
    PROVE  Uses(component) \subseteq set
<1> DEFINE n == Cardinality(set)
<1>1. n \in 0 .. Len(Order) /\ set = Prefix(n)
  BY DEF IsPrefix
<1> HIDE DEF n
<1>2. PICK i \in 1 .. n : component = Order[i]
  BY <1>1 DEF Prefix
<1>3. ASSUME NEW used \in Uses(component) PROVE used \in set
  <2>1. i \in 1 .. Len(Order)
    BY <1>1, OrderFacts DEF Sound
  <2>2. PICK j \in 1 .. i - 1 : Order[j] = used
    BY <1>2, <1>3, <2>1, OrderFacts DEF Sound
  <2>3. j \in 1 .. n
    BY <1>1, OrderFacts DEF Sound
  <2> QED
    BY <1>1, <2>2, <2>3 DEF Prefix
<1> QED
  BY <1>3

(* A container that has started as many components as there are has them   *)
(* all.                                                                    *)
LEMMA PrefixIsComplete ==
    ASSUME NEW set, IsPrefix(set), Cardinality(set) = Len(Order), Registered("pipeline")
    PROVE  {"embeddings", "store"} \subseteq set
BY OrderFacts DEF Sound, IsPrefix, Prefix, Registered

-----------------------------------------------------------------------------
(* The invariant holds before anything is built ... *)
LEMMA LifecycleStarts == LifecycleInit => LifecycleInv
BY EmptyPrefix, LifecycleAssumption
DEF LifecycleInit, LifecycleInv, LifecycleTypes, ComponentsFollow, MainFollows, SharingFollows,
    Tasks, Stages

(* The components of a task that a step leaves alone. *)
LEMMA OthersFollow ==
    ASSUME NEW t \in Tasks, ComponentsFollow(t), UNCHANGED <<deployment, keyed>>,
           stage'[t] = stage[t], live'[t] = live[t], opened'[t] = opened[t]
    PROVE  ComponentsFollow(t)'
BY SameOrder DEF ComponentsFollow

(* A task moves on and leaves the components as they are. *)
LEMMA MoveFollows ==
    ASSUME LifecycleInv, UNCHANGED <<deployment, keyed, live, opened>>, NEW t \in Tasks,
           NEW place \in Stages \ {"failed", "stopped"}, stage[t] \notin {"failed", "stopped"},
           stage[t] = "closing" => place = "closing",
           Move(t, place)
    PROVE  \A task \in Tasks : ComponentsFollow(task)'
<1> SUFFICES ASSUME NEW task \in Tasks PROVE ComponentsFollow(task)'
  OBVIOUS
<1> QED
  BY SameOrder DEF LifecycleInv, LifecycleTypes, ComponentsFollow, Move

(* ... and every step of a container keeps it. *)
LEMMA LifecycleStep ==
    ASSUME LifecycleInv, LifecycleNext \/ BeginShutdown
    PROVE  LifecycleInv'
<1> USE LifecycleAssumption DEF LifecycleInv, Tasks
<1>0. Len(Order) \in Nat
  BY OrderFacts DEF Sound
<1>1. CASE Begin
  <2>1. \A t \in Tasks : ComponentsFollow(t)'
    BY <1>1, MoveFollows DEF Begin, Stages
  <2> QED
    BY <1>1, <2>1, SameOrder DEF Begin, Move, LifecycleTypes, MainFollows, SharingFollows, Stages
<1>2. CASE CloseNext
  <2> DEFINE component == ToClose(live[Main])
  <2>1. IsPrefix(live[Main]) /\ component \in live[Main] /\ IsPrefix(live[Main] \ {component})
    BY <1>2, PrefixShrinks DEF CloseNext, ComponentsFollow
  <2>2. ComponentsFollow(Main)'
    BY <1>2, <2>1, SameOrder
    DEF CloseNext, ComponentsFollow, LifecycleTypes, Closes, Resources
  <2>3. ASSUME NEW t \in Tasks \ {Main} PROVE ComponentsFollow(t)'
    BY <1>2, OthersFollow DEF CloseNext, LifecycleTypes
  <2> QED
    BY <1>2, <2>2, <2>3, SameOrder
    DEF CloseNext, LifecycleTypes, MainFollows, SharingFollows
<1>3. CASE Stopped
  <2>1. ASSUME NEW t \in Tasks PROVE ComponentsFollow(t)'
    BY <1>3, SameOrder DEF Stopped, Move, LifecycleTypes, ComponentsFollow
  <2> QED
    BY <1>3, <2>1, SameOrder DEF Stopped, Move, LifecycleTypes, MainFollows, SharingFollows, Stages
<1>4. CASE BeginShutdown
  <2>1. ASSUME NEW t \in Tasks PROVE ComponentsFollow(t)'
    BY <1>4, MoveFollows DEF BeginShutdown, Stages
  <2> QED
    BY <1>4, <2>1, SameOrder
    DEF BeginShutdown, Move, LifecycleTypes, MainFollows, SharingFollows, Stages
<1>5. ASSUME NEW t \in Tasks, Call(t) PROVE LifecycleInv'
  <2>1. \A task \in Tasks : ComponentsFollow(task)'
    BY <1>5, MoveFollows DEF Call, Stages
  <2> QED
    BY <1>5, <2>1, SameOrder DEF Call, Move, LifecycleTypes, MainFollows, SharingFollows, Stages
<1>6. ASSUME NEW t \in Tasks, Reuse(t) PROVE LifecycleInv'
  <2>1. Given \in {"serving", "refused"}
    BY DEF Given
  <2>2. \A task \in Tasks : ComponentsFollow(task)'
    BY <1>6, <2>1, MoveFollows DEF Reuse, Stages
  <2> QED
    BY <1>6, <2>1, <2>2, SameOrder
    DEF Reuse, Move, LifecycleTypes, MainFollows, SharingFollows, Stages
<1>7. ASSUME NEW t \in Tasks, Build(t) PROVE LifecycleInv'
  <2>1. \A task \in Tasks : ComponentsFollow(task)'
    BY <1>7, MoveFollows DEF Build, Stages
  <2> QED
    BY <1>7, <2>1, SameOrder DEF Build, Move, LifecycleTypes, MainFollows, SharingFollows, Stages
<1>8. ASSUME NEW t \in Tasks, StartNext(t) PROVE LifecycleInv'
  <2> DEFINE component == Order[Cardinality(live[t]) + 1]
  <2>1. IsPrefix(live[t]) /\ IsPrefix(live[t] \cup {component})
    BY <1>8, PrefixGrows DEF StartNext, ComponentsFollow
  <2> HIDE DEF component
  <2>2. /\ live' = [live EXCEPT ![t] = @ \cup {component}]
        /\ opened' = [opened EXCEPT ![t] = @ \cup ({component} \cap Resources)]
        /\ stage[t] = "starting"
        /\ UNCHANGED <<deployment, keyed, stage, container, holder>>
    BY <1>8 DEF StartNext, component
  <2>3. ComponentsFollow(t)'
    BY <2>1, <2>2, SameOrder DEF ComponentsFollow, LifecycleTypes
  <2>4. ASSUME NEW task \in Tasks \ {t} PROVE ComponentsFollow(task)'
    BY <2>2, OthersFollow DEF LifecycleTypes
  <2> QED
    BY <2>2, <2>3, <2>4, SameOrder DEF LifecycleTypes, MainFollows, SharingFollows
<1>9. ASSUME NEW t \in Tasks, StartFails(t) PROVE LifecycleInv'
  <2>1. PICK held \in SUBSET {"store"} : opened' = [opened EXCEPT ![t] = @ \cup held]
    BY <1>9 DEF StartFails
  <2>2. /\ stage[t] = "starting"
        /\ Move(t, "failed")
        /\ holder' = Released(t)
        /\ UNCHANGED <<deployment, keyed, live, container>>
    BY <1>9 DEF StartFails
  <2>3. ComponentsFollow(t)'
    BY <2>1, <2>2, SameOrder DEF ComponentsFollow, LifecycleTypes, Resources, Move
  <2>4. ASSUME NEW task \in Tasks \ {t} PROVE ComponentsFollow(task)'
    BY <2>1, <2>2, OthersFollow DEF LifecycleTypes, Move
  <2> QED
    BY <2>1, <2>2, <2>3, <2>4, SameOrder
    DEF Move, Released, LifecycleTypes, MainFollows, SharingFollows, Stages
<1>10. ASSUME NEW t \in Tasks, Started(t) PROVE LifecycleInv'
  <2>1. Given \in {"serving", "refused"}
    BY DEF Given
  <2>2. \A task \in Tasks : ComponentsFollow(task)'
    BY <1>10, <2>1, MoveFollows DEF Started, Stages
  <2>3. LifecycleTypes' /\ MainFollows'
    BY <1>10, <2>1, SameOrder
    DEF Started, Move, Released, LifecycleTypes, MainFollows, Stages
  <2>4. SharingFollows'
    BY <1>10, <2>1, SameOrder
    DEF Started, Move, Released, LifecycleTypes, SharingFollows
  <2> QED
    BY <2>2, <2>3, <2>4
<1>11. ASSUME NEW t \in Tasks, CancelCaller(t) PROVE LifecycleInv'
  <2>1. \A task \in Tasks : ComponentsFollow(task)'
    BY <1>11, MoveFollows DEF CancelCaller, Stages
  <2> QED
    BY <1>11, <2>1, SameOrder
    DEF CancelCaller, Move, Released, LifecycleTypes, MainFollows, SharingFollows, Stages
<1> QED
  BY <1>1, <1>2, <1>3, <1>4, <1>5, <1>6, <1>7, <1>8, <1>9, <1>10, <1>11 DEF LifecycleNext

(* It says that containers come up and go down in order. *)
LEMMA LifecycleSafe == LifecycleInv => ContainersAreOrderly
<1> SUFFICES ASSUME LifecycleInv PROVE ContainersAreOrderly
  OBVIOUS
<1>1. ASSUME NEW t \in Tasks, NEW component \in live[t] PROVE Uses(component) \subseteq live[t]
  BY PrefixIsClosed DEF LifecycleInv, ComponentsFollow
<1>2. stage[Main] = "stopped" => opened[Main] = {}
  BY DEF LifecycleInv, ComponentsFollow, Tasks
<1> QED
  BY <1>1, <1>2 DEF LifecycleInv, SharingFollows, ContainersAreOrderly

-----------------------------------------------------------------------------
(* The documents and their batches *)

AtWork == {"embedding", "calling", "backoff"}
Pending == AtWork \cup {"waiting"}
Places == {"idle", "spooling", "checking", "reading", "chunking", "indexing", "announcing",
           "ended"}

(* The parts of the state the invariants are about have their types. *)
Types ==
    /\ pc \in [Documents -> Places]
    /\ job \in [Jobs -> Over \cup Pending]
    /\ IsFiniteSet(borrowers)

(* A batch waits or is at work only while its document is being indexed. *)
JobsFollow == \A j \in Jobs : job[j] \in Pending => pc[j[1]] = "indexing"

(* The invariant of the batches. *)
BatchInv == Types /\ LimiterIsExact /\ JobsFollow

(* The directory is there from the start of the spooling to the end, and   *)
(* the file in it is read in between.                                      *)
DirectoriesFollow ==
    /\ pc \in [Documents -> Places]
    /\ workspace \subseteq Documents
    /\ threads \subseteq Documents
    /\ \A d \in Documents :
         /\ d \in workspace => pc[d] # "ended"
         /\ d \in threads => pc[d] = "reading"
         /\ Api /\ pc[d] \notin {"idle", "ended"} => d \in workspace

-----------------------------------------------------------------------------
(* The batches *)

(* The jobs of a document are the jobs that name it. *)
LEMMA JobFacts ==
    /\ \A j \in Jobs : j[1] \in Documents /\ j \in JobsOf(j[1])
    /\ \A d \in Documents : \A j \in JobsOf(d) : j \in Jobs /\ j[1] = d
    /\ \A d \in Documents : _batched(d) \subseteq JobsOf(d)
BY DEF Jobs, JobsOf, _batched

(* A step of a document none of whose batches is pending. *)
LEMMA PlaceStep ==
    ASSUME BatchInv, NEW d \in Documents, NEW place \in Places, Goto(d, place),
           \A j \in JobsOf(d) : job[j] \notin Pending,
           UNCHANGED <<job, borrowers>>
    PROVE  BatchInv'
<1> USE DEF BatchInv
<1>1. Types'
  BY DEF Types, Goto
<1>2. LimiterIsExact'
  BY DEF LimiterIsExact
<1>3. JobsFollow'
  <2> SUFFICES ASSUME NEW j \in Jobs, job[j] \in Pending PROVE pc'[j[1]] = "indexing"
    BY DEF JobsFollow
  <2>1. j[1] # d
    BY JobFacts
  <2> QED
    BY <2>1, JobFacts DEF JobsFollow, Types, Goto
<1> QED
  BY <1>1, <1>2, <1>3

(* A step that moves one batch among the places at work, or out of them    *)
(* with its token.                                                         *)
LEMMA AdvanceStep ==
    ASSUME BatchInv, NEW j \in Jobs, NEW place \in AtWork \cup Over,
           job[j] \in AtWork, Advance(j, place), UNCHANGED pc,
           borrowers' = IF place \in AtWork THEN borrowers ELSE borrowers \ {j}
    PROVE  BatchInv'
<1> USE DEF BatchInv
<1>0. place \in Over => place \notin AtWork
  BY DEF Over, AtWork
<1>1. IsFiniteSet(borrowers') /\ Cardinality(borrowers') <= max_concurrent_batches
  <2>1. CASE place \in AtWork
    BY <2>1 DEF Types, LimiterIsExact
  <2>2. CASE place \notin AtWork
    <3>1. borrowers \ {j} \subseteq borrowers
      OBVIOUS
    <3>2. /\ IsFiniteSet(borrowers \ {j})
          /\ Cardinality(borrowers \ {j}) <= Cardinality(borrowers)
      BY <3>1, FS_Subset DEF Types
    <3>3. Cardinality(borrowers \ {j}) \in Nat /\ Cardinality(borrowers) \in Nat
      BY <3>2, FS_CardinalityType DEF Types
    <3> QED
      BY <2>2, <3>2, <3>3, IngestionAssumption DEF LimiterIsExact
  <2> QED
    BY <2>1, <2>2
<1>2. Types'
  BY <1>1 DEF Types, Advance, Pending
<1>3. borrowers' = {i \in Jobs : job'[i] \in {"embedding", "calling", "backoff"}}
  BY <1>0 DEF LimiterIsExact, Types, Advance, AtWork
<1>4. JobsFollow'
  BY DEF JobsFollow, Types, Advance, AtWork, Pending, Over
<1> QED
  BY <1>1, <1>2, <1>3, <1>4 DEF LimiterIsExact

(* A task takes a token: the limiter has one left. *)
LEMMA AcquireStep ==
    ASSUME BatchInv, NEW j \in Jobs, Acquire(j)
    PROVE  BatchInv'
<1> USE DEF BatchInv, Acquire
<1>1. IsFiniteSet(borrowers') /\ Cardinality(borrowers') <= max_concurrent_batches
  <2>1. j \notin borrowers
    BY DEF LimiterIsExact
  <2>2. /\ IsFiniteSet(borrowers \cup {j})
        /\ Cardinality(borrowers \cup {j}) = Cardinality(borrowers) + 1
    BY <2>1, FS_AddElement DEF Types
  <2>3. Cardinality(borrowers) \in Nat
    BY FS_CardinalityType DEF Types
  <2> QED
    BY <2>2, <2>3, IngestionAssumption
<1>2. Types'
  BY <1>1 DEF Types, Advance, Pending, AtWork, uploadVars
<1>3. borrowers' = {i \in Jobs : job'[i] \in {"embedding", "calling", "backoff"}}
  BY DEF LimiterIsExact, Types, Advance
<1>4. JobsFollow'
  BY DEF JobsFollow, Types, Advance, AtWork, Pending, uploadVars
<1> QED
  BY <1>1, <1>2, <1>3, <1>4 DEF LimiterIsExact

(* A group is cancelled: of its tasks only those in a thread stay.         *)
LEMMA CancelStep ==
    ASSUME BatchInv, NEW d \in Documents, NEW ending \in SUBSET JobsOf(d), NEW place \in Over,
           CancelGroup(d, ending, place), UNCHANGED pc
    PROVE  BatchInv'
<1> USE DEF BatchInv
<1> DEFINE gone == ending \cup Interrupted(d)
<1>0. /\ ending \subseteq Jobs
      /\ "cancelled" \in Over
      /\ \A state \in Over : state \notin Pending
      /\ Interrupted(d) \subseteq Jobs
  BY JobFacts DEF Over, Pending, AtWork, Interrupted
<1>1. IsFiniteSet(borrowers') /\ Cardinality(borrowers') <= max_concurrent_batches
  <2>1. borrowers' \subseteq borrowers
    BY DEF CancelGroup
  <2>2. IsFiniteSet(borrowers') /\ Cardinality(borrowers') <= Cardinality(borrowers)
    BY <2>1, FS_Subset DEF Types
  <2>3. Cardinality(borrowers') \in Nat /\ Cardinality(borrowers) \in Nat
    BY <2>2, FS_CardinalityType DEF Types
  <2> QED
    BY <2>2, <2>3, IngestionAssumption DEF LimiterIsExact
<1>2. \A i \in Jobs : job'[i] = IF i \in ending THEN place
                                ELSE IF i \in Interrupted(d) THEN "cancelled" ELSE job[i]
  BY <1>0 DEF CancelGroup
<1>3. Types'
  <2>1. job' \in [Jobs -> Over \cup Pending]
    BY <1>0, <1>2 DEF CancelGroup, Types
  <2> QED
    BY <1>1, <2>1 DEF Types
<1>4. borrowers' = {i \in Jobs : job'[i] \in {"embedding", "calling", "backoff"}}
  <2>1. borrowers' = borrowers \ (ending \cup Interrupted(d))
    BY DEF CancelGroup
  <2>2. place \notin {"embedding", "calling", "backoff"}
    BY DEF Over
  <2> QED
    BY <1>2, <2>1, <2>2 DEF LimiterIsExact
<1>5. JobsFollow'
  BY <1>0, <1>2 DEF JobsFollow
<1> QED
  BY <1>1, <1>3, <1>4, <1>5 DEF LimiterIsExact

(* The document's batches are over, or there are none yet. *)
LEMMA NothingPending ==
    ASSUME BatchInv, NEW d \in Documents, pc[d] # "indexing" \/ GroupIsOver(d)
    PROVE  \A j \in JobsOf(d) : job[j] \notin Pending
BY JobFacts DEF BatchInv, JobsFollow, GroupIsOver, Over, Pending, AtWork

(* The steps of a handler outside the index. *)
LEMMA HandlerStep ==
    ASSUME BatchInv, NEW d \in Documents,
           \/ Submit(d) \/ _spool(d) \/ _reject_if_not_a_pdf(d) \/ NextSource(d)
           \/ ReadReturns(d) \/ ReadFails(d) \/ IndexReturns(d) \/ Bump(d) \/ _announce(d)
           \/ Abandon(d)
    PROVE  BatchInv'
<1>1. \/ pc[d] # "indexing"
      \/ GroupIsOver(d)
  BY DEF Submit, _spool, _reject_if_not_a_pdf, NextSource, ReadReturns, ReadFails, IndexReturns,
         Bump, _announce, Abandon
<1>2. \A j \in JobsOf(d) : job[j] \notin Pending
  BY <1>1, NothingPending
<1>3. UNCHANGED <<job, borrowers>>
  BY DEF Submit, _spool, _reject_if_not_a_pdf, NextSource, ReadReturns, ReadFails, IndexReturns,
         Bump, _announce, Abandon, jobVars, storeVars
<1>4. \/ UNCHANGED pc
      \/ \E place \in Places : Goto(d, place)
  BY DEF Submit, _spool, _reject_if_not_a_pdf, NextSource, ReadReturns, ReadFails, IndexReturns,
         Bump, _announce, Abandon, Leave, Places, uploadVars
<1> QED
  BY <1>2, <1>3, <1>4, PlaceStep DEF BatchInv, Types, LimiterIsExact, JobsFollow

(* A task is made for every batch. *)
LEMMA ChunkStep ==
    ASSUME BatchInv, NEW d \in Documents, Chunk(d)
    PROVE  BatchInv'
<1> USE DEF BatchInv, Chunk
<1>1. \A j \in JobsOf(d) : job[j] \notin Pending
  BY NothingPending
<1>2. \A j \in Jobs : /\ j \in _batched(d) => j[1] = d /\ job'[j] = "waiting"
                      /\ j \notin _batched(d) => job'[j] = job[j]
  BY JobFacts
<1>3. Types'
  BY <1>2 DEF Types, Goto, Places, Pending
<1>4. borrowers' = {j \in Jobs : job'[j] \in {"embedding", "calling", "backoff"}}
  BY <1>1, <1>2, JobFacts DEF LimiterIsExact, Pending, AtWork
<1>5. JobsFollow'
  BY <1>1, <1>2, JobFacts DEF JobsFollow, Goto, Types
<1> QED
  BY <1>3, <1>4, <1>5 DEF LimiterIsExact

(* The deadline: a group is cancelled, an announcement given up. *)
LEMMA DeadlineStep ==
    ASSUME BatchInv, NEW d \in Documents, Deadline(d)
    PROVE  BatchInv'
<1>1. CASE pc[d] = "indexing"
  <2>1. CancelGroup(d, {}, "cancelled") /\ UNCHANGED pc
    BY <1>1 DEF Deadline
  <2> QED
    BY <2>1, CancelStep DEF Over
<1>2. CASE pc[d] # "indexing"
  <2>1. UNCHANGED <<job, borrowers>> /\ (UNCHANGED pc \/ Goto(d, "ended"))
    BY <1>2 DEF Deadline, Leave
  <2>2. \A j \in JobsOf(d) : job[j] \notin Pending
    BY <1>2, NothingPending
  <2> QED
    BY <2>1, <2>2, PlaceStep DEF Places, BatchInv, Types, LimiterIsExact, JobsFollow
<1> QED
  BY <1>1, <1>2

(* A batch that fails is at work, and its document with it. *)
LEMMA FailStep ==
    ASSUME BatchInv, NEW j \in Jobs, NEW lost, FailBatch(j, lost), UNCHANGED pc
    PROVE  BatchInv'
<1>1. CancelGroup(j[1], {j}, "failed")
  BY DEF FailBatch
<1>2. j[1] \in Documents /\ {j} \in SUBSET JobsOf(j[1])
  BY JobFacts
<1> QED
  BY <1>1, <1>2, CancelStep DEF Over

(* The steps of a batch. *)
LEMMA BatchStep ==
    ASSUME BatchInv, NEW j \in Jobs, JobStep(j)
    PROVE  BatchInv'
<1>0. UNCHANGED pc
  BY DEF JobStep, Acquire, Embedded, EmbedFails, CallReturns, CallAgain, CallFails, uploadVars
<1>1. CASE Acquire(j)
  BY <1>1, AcquireStep
<1>2. CASE Embedded(j)
  BY <1>0, <1>2, AdvanceStep DEF Embedded, AtWork
<1>3. CASE EmbedFails(j)
  BY <1>0, <1>3, FailStep DEF EmbedFails
<1>4. CASE CallReturns(j)
  BY <1>0, <1>4, AdvanceStep DEF CallReturns, AtWork, Over
<1>5. CASE CallAgain(j)
  BY <1>0, <1>5, AdvanceStep DEF CallAgain, AtWork
<1>6. ASSUME NEW error \in StoreErrors, CallFails(j, error) PROVE BatchInv'
  <2>1. \/ \E lost : FailBatch(j, lost)
        \/ Advance(j, "cancelled") /\ borrowers' = borrowers \ {j}
        \/ Advance(j, "backoff") /\ UNCHANGED borrowers
    BY <1>6 DEF CallFails
  <2>2. job[j] \in AtWork
    BY <1>6 DEF CallFails, AtWork
  <2>3. CASE \E lost : FailBatch(j, lost)
    BY <1>0, <2>3, FailStep
  <2>4. CASE Advance(j, "cancelled") /\ borrowers' = borrowers \ {j}
    BY <1>0, <2>2, <2>4, AdvanceStep DEF Over, AtWork
  <2>5. CASE Advance(j, "backoff") /\ UNCHANGED borrowers
    BY <1>0, <2>2, <2>5, AdvanceStep DEF AtWork
  <2> QED
    BY <2>1, <2>3, <2>4, <2>5
<1> QED
  BY <1>1, <1>2, <1>3, <1>4, <1>5, <1>6 DEF JobStep

(* The invariant of the batches holds at first ... *)
LEMMA BatchInit == Init => BatchInv
<1> SUFFICES ASSUME Init PROVE BatchInv
  OBVIOUS
<1>1. Types
  BY FS_EmptySet DEF Init, IngestionInit, Types, Places, Over
<1>2. LimiterIsExact
  BY FS_EmptySet, IngestionAssumption DEF Init, IngestionInit, LimiterIsExact
<1>3. JobsFollow
  BY DEF Init, IngestionInit, JobsFollow, Pending, AtWork
<1> QED
  BY <1>1, <1>2, <1>3 DEF BatchInv

(* ... and every step keeps it. *)
LEMMA BatchNext == BatchInv /\ [Next]_vars => BatchInv'
<1> SUFFICES ASSUME BatchInv, [Next]_vars PROVE BatchInv'
  OBVIOUS
<1>1. ASSUME UNCHANGED ingestionVars PROVE BatchInv'
  BY <1>1 DEF ingestionVars, BatchInv, Types, LimiterIsExact, JobsFollow
<1>2. ASSUME NEW d \in Documents, Submit(d) \/ NextSource(d) \/ DocumentStep(d) \/ Deadline(d)
      PROVE  BatchInv'
  BY <1>2, HandlerStep, ChunkStep, DeadlineStep DEF DocumentStep
<1>3. ASSUME NEW j \in Jobs, JobStep(j) PROVE BatchInv'
  BY <1>3, BatchStep
<1>4. ASSUME NEW j \in Jobs, LateCommit(j) PROVE BatchInv'
  BY <1>4 DEF LateCommit, uploadVars, BatchInv, Types, LimiterIsExact, JobsFollow
<1> QED
  BY <1>1, <1>2, <1>3, <1>4 DEF Next, vars, Shutdown

(* The tokens of the indexer's limiter are held by exactly the batches at  *)
(* work, never more of them than max_concurrent_batches over all documents *)
(* of a process, whatever fails, is cancelled or lingers in a thread.      *)
THEOREM LimiterHolds == Spec => []LimiterIsExact
BY BatchInit, BatchNext, PTL DEF Spec, BatchInv

-----------------------------------------------------------------------------
(* The directories *)

(* A step is one of a container, or no container notices it. *)
LEMMA ContainerStep ==
    ASSUME [Next]_vars
    PROVE  \/ LifecycleNext /\ UNCHANGED ingestionVars
           \/ Shutdown
           \/ UNCHANGED lifecycleVars
<1>1. ASSUME NEW d \in Documents, Submit(d) \/ NextSource(d) \/ DocumentStep(d) \/ Deadline(d)
      PROVE  UNCHANGED lifecycleVars
  BY <1>1 DEF Submit, NextSource, DocumentStep, _spool, _reject_if_not_a_pdf, ReadReturns,
              ReadFails, Chunk, IndexReturns, Bump, _announce, Abandon, Deadline
<1>2. ASSUME NEW j \in Jobs, JobStep(j) \/ LateCommit(j) PROVE UNCHANGED lifecycleVars
  BY <1>2 DEF JobStep, Acquire, Embedded, EmbedFails, CallReturns, CallAgain, CallFails, LateCommit
<1> QED
  BY <1>1, <1>2 DEF Next, vars

(* A process does not change its deployment. *)
LEMMA SameDeployment == ASSUME [Next]_vars PROVE UNCHANGED deployment
<1>1. ASSUME LifecycleNext PROVE UNCHANGED deployment
  BY <1>1 DEF LifecycleNext, Begin, CloseNext, Stopped, Call, Reuse, Build, StartNext, StartFails,
              Started, CancelCaller
<1>2. ASSUME Shutdown PROVE UNCHANGED deployment
  BY <1>2 DEF Shutdown, BeginShutdown
<1> QED
  BY <1>1, <1>2, ContainerStep DEF lifecycleVars

(* Whoever leaves takes the directory along; its file is read no more. *)
LEMMA LeaveStep ==
    ASSUME DirectoriesFollow, UNCHANGED deployment, NEW d \in Documents, NEW status,
           Leave(d, status), threads' \subseteq threads, d \notin threads'
    PROVE  DirectoriesFollow'
BY DEF DirectoriesFollow, Leave, Goto, Places, Api

(* A handler goes on, and with it the directory. *)
LEMMA OnwardStep ==
    ASSUME DirectoriesFollow, UNCHANGED deployment, NEW d \in Documents,
           NEW place \in Places \ {"idle", "ended"}, Goto(d, place),
           workspace' = workspace \/ workspace' = workspace \cup {d},
           Api => d \in workspace',
           threads' = IF place = "reading" THEN threads \cup {d} ELSE threads \ {d}
    PROVE  DirectoriesFollow'
BY DEF DirectoriesFollow, Goto, Places, Api

(* Nothing the directories depend on changes. *)
LEMMA StillStep ==
    ASSUME DirectoriesFollow, UNCHANGED <<deployment, pc, workspace, threads>>
    PROVE  DirectoriesFollow'
BY DEF DirectoriesFollow, Api

(* The steps of a handler. *)
LEMMA DirectoryStep ==
    ASSUME DirectoriesFollow, UNCHANGED deployment, NEW d \in Documents,
           Submit(d) \/ NextSource(d) \/ DocumentStep(d) \/ Deadline(d)
    PROVE  DirectoriesFollow'
<1> USE DEF Places
<1>0. /\ pc[d] # "reading" => d \notin threads
      /\ Api /\ pc[d] \notin {"idle", "ended"} => d \in workspace
  BY DEF DirectoriesFollow
<1>1. CASE Submit(d)
  <2>1. UNCHANGED threads /\ pc[d] = "idle"
    BY <1>1 DEF Submit
  <2>2. \/ \E status : Leave(d, status)
        \/ Goto(d, "spooling") /\ workspace' = workspace \cup {d}
    BY <1>1 DEF Submit
  <2> QED
    BY <1>0, <2>1, <2>2, LeaveStep, OnwardStep
<1>2. CASE NextSource(d)
  <2>1. pc[d] = "idle" /\ ~Api
    BY <1>2 DEF NextSource, Api
  <2>2. \/ Leave(d, 1) /\ UNCHANGED threads
        \/ Goto(d, "reading") /\ threads' = threads \cup {d} /\ UNCHANGED workspace
    BY <1>2 DEF NextSource
  <2> QED
    BY <1>0, <2>1, <2>2, LeaveStep, OnwardStep
<1>3. CASE _spool(d)
  <2>1. UNCHANGED threads /\ pc[d] = "spooling"
    BY <1>3 DEF _spool
  <2>2. \/ \E status : Leave(d, status)
        \/ UNCHANGED <<pc, workspace>>
        \/ Goto(d, "checking") /\ UNCHANGED workspace
    BY <1>3 DEF _spool
  <2> QED
    BY <1>0, <2>1, <2>2, LeaveStep, OnwardStep, StillStep
<1>4. CASE _reject_if_not_a_pdf(d)
  <2>1. pc[d] = "checking"
    BY <1>4 DEF _reject_if_not_a_pdf
  <2>2. \/ Leave(d, 422) /\ UNCHANGED threads
        \/ Goto(d, "reading") /\ threads' = threads \cup {d} /\ UNCHANGED workspace
    BY <1>4 DEF _reject_if_not_a_pdf
  <2> QED
    BY <1>0, <2>1, <2>2, LeaveStep, OnwardStep
<1>5. CASE ReadReturns(d)
  <2>1. pc[d] = "reading" /\ threads' = threads \ {d}
    BY <1>5 DEF ReadReturns
  <2>2. \/ \E status : Leave(d, status)
        \/ Goto(d, "chunking") /\ UNCHANGED workspace
    BY <1>5 DEF ReadReturns
  <2> QED
    BY <1>0, <2>1, <2>2, LeaveStep, OnwardStep
<1>6. CASE ReadFails(d) \/ Abandon(d)
  BY <1>6, LeaveStep DEF ReadFails, Abandon
<1>7. CASE Chunk(d)
  BY <1>0, <1>7, OnwardStep DEF Chunk
<1>8. CASE IndexReturns(d)
  <2>1. UNCHANGED threads /\ pc[d] = "indexing"
    BY <1>8 DEF IndexReturns
  <2>2. \/ \E status : Leave(d, status)
        \/ Goto(d, "announcing") /\ UNCHANGED workspace
    BY <1>8 DEF IndexReturns
  <2> QED
    BY <1>0, <2>1, <2>2, LeaveStep, OnwardStep
<1>9. CASE Bump(d)
  BY <1>9, StillStep DEF Bump, uploadVars
<1>10. CASE _announce(d)
  BY <1>0, <1>10, LeaveStep DEF _announce
<1>11. CASE Deadline(d)
  <2>1. \/ pc[d] = "announcing" /\ Leave(d, 504)
        \/ UNCHANGED <<pc, workspace>>
    BY <1>11 DEF Deadline
  <2> QED
    BY <1>0, <1>11, <2>1, LeaveStep, StillStep DEF Deadline
<1> QED
  BY <1>1, <1>2, <1>3, <1>4, <1>5, <1>6, <1>7, <1>8, <1>9, <1>10, <1>11 DEF DocumentStep

LEMMA DirectoriesNext == DirectoriesFollow /\ [Next]_vars => DirectoriesFollow'
<1> SUFFICES ASSUME DirectoriesFollow, [Next]_vars PROVE DirectoriesFollow'
  OBVIOUS
<1>0. UNCHANGED deployment
  BY SameDeployment
<1>1. ASSUME UNCHANGED ingestionVars PROVE DirectoriesFollow'
  BY <1>0, <1>1, StillStep DEF ingestionVars
<1>2. ASSUME NEW d \in Documents, Submit(d) \/ NextSource(d) \/ DocumentStep(d) \/ Deadline(d)
      PROVE  DirectoriesFollow'
  BY <1>0, <1>2, DirectoryStep
<1>3. ASSUME NEW j \in Jobs, JobStep(j) \/ LateCommit(j) PROVE UNCHANGED uploadVars
  BY <1>3 DEF JobStep, Acquire, Embedded, EmbedFails, CallReturns, CallAgain, CallFails, LateCommit
<1> QED
  BY <1>0, <1>1, <1>2, <1>3, StillStep DEF Next, vars, Shutdown, uploadVars

(* The directory of an upload is removed when its handler ends, however it *)
(* ends, and is there as long as a worker thread reads the file in it.     *)
THEOREM WorkspacesHold == Spec => []WorkspacesAreRemoved
<1>1. Init => DirectoriesFollow
  BY DEF Init, IngestionInit, DirectoriesFollow, Places
<1>2. DirectoriesFollow /\ [Next]_vars => DirectoriesFollow'
  BY DirectoriesNext
<1>3. DirectoriesFollow => WorkspacesAreRemoved
  BY DEF DirectoriesFollow, WorkspacesAreRemoved
<1> QED
  BY <1>1, <1>2, <1>3, PTL DEF Spec

-----------------------------------------------------------------------------
(* The rows *)

(* A document has an outcome when it has ended, is announced last, and     *)
(* then has rows; all of them are in the store when it is announced or     *)
(* succeeds, and stay there.                                               *)
DocumentsFollow ==
    /\ file \in Submissions
    /\ outcome \in [Documents -> Statuses \cup {None}]
    /\ \A d \in Documents :
         /\ outcome[d] = None <=> pc[d] # "ended"
         /\ d \in announced => pc[d] \in {"announcing", "ended"}
         /\ pc[d] \in {"chunking", "indexing", "announcing"} => Wanted(d) # {}
         /\ pc[d] = "announcing" \/ d \in announced \/ outcome[d] \in {0, 201} =>
               Wanted(d) \subseteq corpus

(* The batches of a document that is indexed all have a task, none that is *)
(* not has one, a batch that was written is in the store, and one that was *)
(* cancelled has a reason.                                                 *)
RowsFollow ==
    \A j \in Jobs :
        /\ job[j] # "none" => j \in _batched(j[1])
        /\ job[j] = "written" => chunk_id(j) \in corpus
        /\ pc[j[1]] = "indexing" /\ j \in _batched(j[1]) => job[j] # "none"
        /\ pc[j[1]] = "indexing" /\ job[j] = "cancelled" => Cancelled(j[1])

(* What a server has yet to commit are rows of batches that have a task.   *)
LateFollows == late \subseteq {j \in Jobs : job[j] # "none"}

UpdateInv == BatchInv /\ DocumentsFollow /\ RowsFollow /\ LateFollows

updateVars == <<corpus, [d \in Documents |-> Wanted(d)], [d \in Documents |-> Progress(d)]>>

(* What a document is to write depends on its file alone. *)
LEMMA SameRows ==
    ASSUME UNCHANGED file
    PROVE  /\ \A d : _batched(d)' = _batched(d) /\ Wanted(d)' = Wanted(d)
           /\ \A j : chunk_id(j)' = chunk_id(j)
           /\ UNCHANGED [d \in Documents |-> Wanted(d)]
BY DEF _batched, Wanted, chunk_id

(* The rows of a document's batches are its own; with no text it has none, *)
(* otherwise at least one.                                                 *)
LEMMA RowFacts ==
    ASSUME file \in Submissions, NEW d \in Documents
    PROVE  /\ \A j \in _batched(d) : chunk_id(j) \in Wanted(d)
           /\ Wanted(d) = {} <=> Len(file[d].batches) = 0
<1>1. Len(file[d].batches) \in 0 .. MaxBatches /\ MaxBatches \in Nat
  BY IngestionAssumption
<1>2. ASSUME Len(file[d].batches) = 0 PROVE Wanted(d) = {}
  BY <1>2, <1>1 DEF Wanted, _batched, JobsOf
<1>3. ASSUME Len(file[d].batches) # 0 PROVE Wanted(d) # {}
  <2>1. <<d, 1>> \in _batched(d)
    BY <1>3, <1>1 DEF _batched, JobsOf
  <2> QED
    BY <2>1 DEF Wanted
<1> QED
  BY <1>2, <1>3 DEF Wanted

(* The end of an ingestion is a failure, or a completion with its rows in  *)
(* the store.                                                              *)
LEMMA EndIsAnUpdate ==
    ASSUME DocumentsFollow, pc \in [Documents -> Places], NEW d \in Documents,
           NEW status \in Statuses,
           Leave(d, status), UNCHANGED <<file, corpus, announced>>, pc[d] # "ended",
           status \in {0, 201} => Wanted(d) \subseteq corpus
    PROVE  DocumentsFollow' /\ Update!Next
<1>1. /\ outcome' = [outcome EXCEPT ![d] = status]
      /\ pc' = [pc EXCEPT ![d] = "ended"]
  BY DEF Leave, Goto
<1>2. status # None /\ outcome[d] = None
  BY IngestionAssumption DEF DocumentsFollow
<1>3. DocumentsFollow'
  BY <1>1, <1>2, SameRows DEF DocumentsFollow
<1>4. [e \in Documents |-> Progress(e)]' =
        [[e \in Documents |-> Progress(e)]
            EXCEPT ![d] = IF status \in {0, 201} THEN "done" ELSE "failed"]
  BY <1>1, <1>2 DEF Progress, DocumentsFollow
<1>5. [e \in Documents |-> Progress(e)][d] \in {"writing", "announced"}
  BY <1>2 DEF Progress
<1>6. CASE status \in {0, 201}
  BY <1>3, <1>4, <1>5, <1>6, SameRows, ZenonT(30) DEF Update!Next, Update!Complete, Update!Stored
<1>7. CASE status \notin {0, 201}
  BY <1>3, <1>4, <1>5, <1>7, SameRows DEF Update!Next, Update!Fail
<1> QED
  BY <1>3, <1>6, <1>7

(* A document that goes on to another place does nothing in IndexUpdate. *)
LEMMA MoveIsNoUpdate ==
    ASSUME DocumentsFollow, pc \in [Documents -> Places], NEW d \in Documents,
           NEW place \in Places \ {"idle", "ended"}, Goto(d, place),
           pc[d] \notin {"announcing", "ended"},
           UNCHANGED <<file, corpus, announced, outcome>>,
           place \in {"chunking", "indexing", "announcing"} => Wanted(d) # {},
           place = "announcing" => Wanted(d) \subseteq corpus
    PROVE  DocumentsFollow' /\ UNCHANGED updateVars
BY SameRows DEF DocumentsFollow, Goto, Progress, updateVars

(* A batch's rows reach the store while its document is indexed. *)
LEMMA RowsAreAnUpdate ==
    ASSUME DocumentsFollow, NEW d \in Documents, pc[d] = "indexing",
           UNCHANGED <<file, pc, announced, outcome>>,
           corpus \subseteq corpus', corpus' \ corpus \subseteq Wanted(d)
    PROVE  DocumentsFollow' /\ Update!Next
<1>1. DocumentsFollow'
  BY SameRows DEF DocumentsFollow
<1>2. UNCHANGED [e \in Documents |-> Progress(e)]
  BY DEF Progress
<1>3. [e \in Documents |-> Progress(e)][d] = "writing"
  BY DEF Progress, DocumentsFollow
<1> QED
  BY <1>1, <1>2, <1>3, SameRows DEF Update!Next, Update!Write

(* The version is announced once. *)
LEMMA BumpIsAnUpdate ==
    ASSUME DocumentsFollow, NEW d \in Documents, Bump(d)
    PROVE  DocumentsFollow' /\ [Update!Next]_updateVars
<1> USE DEF Bump, uploadVars, jobVars, storeVars
<1>1. DocumentsFollow'
  BY SameRows DEF DocumentsFollow
<1>2. /\ outcome[d] = None
      /\ Wanted(d) # {} /\ Wanted(d) \subseteq corpus
  BY DEF DocumentsFollow
<1>3. CASE d \in announced
  BY <1>1, <1>3, SameRows DEF Progress, updateVars
<1>4. CASE d \notin announced
  <2>1. [e \in Documents |-> Progress(e)]' =
          [[e \in Documents |-> Progress(e)] EXCEPT ![d] = "announced"]
    BY <1>2, <1>4 DEF Progress
  <2>2. [e \in Documents |-> Progress(e)][d] = "writing"
    BY <1>2, <1>4 DEF Progress
  <2> QED
    BY <1>1, <1>2, <2>1, <2>2, SameRows DEF Update!Next, Update!Announce, Update!Stored
<1> QED
  BY <1>3, <1>4

(* The batches' rows depend on the jobs, the store and the reasons for a   *)
(* cancellation alone.                                                     *)
LEMMA RowsStay ==
    ASSUME RowsFollow, UNCHANGED <<file, job>>, doomed \subseteq doomed', corpus \subseteq corpus',
           \A d \in Documents : pc'[d] = "indexing" => pc[d] = "indexing"
    PROVE  RowsFollow'
BY SameRows, JobFacts DEF RowsFollow, Cancelled

(* One batch moves: into its row, if it is said to be written, or out of a *)
(* group that is cancelled.                                                *)
LEMMA RowsAdvance ==
    ASSUME RowsFollow, Types, NEW j \in Jobs, NEW place, Advance(j, place),
           UNCHANGED <<file, pc, doomed>>, corpus \subseteq corpus',
           job[j] \notin {"none", "failed"}, place # "none",
           place = "written" => chunk_id(j) \in corpus',
           place = "cancelled" => Cancelled(j[1])
    PROVE  RowsFollow'
<1>1. \A i \in Jobs : job'[i] = IF i = j THEN place ELSE job[i]
  BY DEF Advance, Types
<1>2. \A d \in Documents : Cancelled(d) => Cancelled(d)'
  BY <1>1, JobFacts DEF Cancelled
<1> QED
  BY <1>1, <1>2, SameRows, JobFacts DEF RowsFollow

(* A group is cancelled for a reason: a batch that failed or the deadline. *)
LEMMA RowsCancelled ==
    ASSUME RowsFollow, Types, NEW d \in Documents, NEW ending \in SUBSET JobsOf(d),
           NEW place \in {"failed", "cancelled"},
           CancelGroup(d, ending, place), UNCHANGED <<file, pc>>, doomed \subseteq doomed',
           corpus \subseteq corpus',
           \A j \in ending : job[j] \in AtWork,
           \/ d \in doomed'
           \/ place = "failed" /\ ending # {}
    PROVE  RowsFollow'
<1>0. ending \subseteq Jobs
  BY JobFacts
<1>1. \A i \in Jobs : job'[i] = IF i \in ending THEN place
                                ELSE IF i \in Interrupted(d) THEN "cancelled" ELSE job[i]
  BY DEF CancelGroup
<1>2. \A i \in ending \cup Interrupted(d) : job[i] \in Pending /\ i \in JobsOf(d)
  BY DEF Interrupted, AtWork, Pending
<1>3. Cancelled(d)'
  BY <1>0, <1>1 DEF Cancelled
<1>4. \A e \in Documents : Cancelled(e) => Cancelled(e)'
  BY <1>1, <1>2, JobFacts DEF Cancelled, Pending, AtWork
<1>5. ASSUME NEW j \in Jobs
      PROVE  /\ job'[j] # "none" => j \in _batched(j[1])'
             /\ job'[j] = "written" => chunk_id(j)' \in corpus'
             /\ pc'[j[1]] = "indexing" /\ j \in _batched(j[1])' => job'[j] # "none"
             /\ pc'[j[1]] = "indexing" /\ job'[j] = "cancelled" => Cancelled(j[1])'
  <2>1. CASE j \in ending \cup Interrupted(d)
    <3>1. j[1] = d /\ job[j] # "none"
      BY <1>2, <2>1, JobFacts DEF Pending, AtWork
    <3>2. job'[j] \in {"failed", "cancelled"}
      BY <1>1, <2>1
    <3> QED
      BY <1>3, <1>5, <3>1, <3>2, SameRows DEF RowsFollow
  <2>2. CASE j \notin ending \cup Interrupted(d)
    BY <1>1, <1>4, <1>5, <2>2, SameRows, JobFacts DEF RowsFollow
  <2> QED
    BY <2>1, <2>2
<1> QED
  BY <1>5 DEF RowsFollow

Updated == DocumentsFollow' /\ RowsFollow' /\ [Update!Next]_updateVars

(* A handler that ends. *)
LEMMA EndStep ==
    ASSUME UpdateInv, NEW d \in Documents, NEW status \in Statuses, Leave(d, status),
           UNCHANGED <<file, corpus, announced, job>>, doomed \subseteq doomed',
           pc[d] # "ended", status \in {0, 201} => Wanted(d) \subseteq corpus
    PROVE  Updated
<1>1. \A e \in Documents : pc'[e] = "indexing" => pc[e] = "indexing"
  BY DEF Leave, Goto, UpdateInv, BatchInv, Types
<1> QED
  BY <1>1, EndIsAnUpdate, RowsStay DEF UpdateInv, BatchInv, Types, Updated

(* A handler that goes on, but not into the index. *)
LEMMA MoveStep ==
    ASSUME UpdateInv, NEW d \in Documents,
           NEW place \in Places \ {"idle", "ended", "indexing"}, Goto(d, place),
           pc[d] \notin {"announcing", "ended"},
           UNCHANGED <<file, corpus, announced, outcome, job, doomed>>,
           place \in {"chunking", "announcing"} => Wanted(d) # {},
           place = "announcing" => Wanted(d) \subseteq corpus
    PROVE  Updated
<1>1. \A e \in Documents : pc'[e] = "indexing" => pc[e] = "indexing"
  BY DEF Goto, UpdateInv, BatchInv, Types
<1> QED
  BY <1>1, MoveIsNoUpdate, RowsStay DEF UpdateInv, BatchInv, Types, Updated

(* Nothing IndexUpdate tells of changes. *)
LEMMA IdleStep ==
    ASSUME UpdateInv, UNCHANGED <<file, pc, corpus, announced, outcome, job, doomed>>
    PROVE  Updated
<1>1. DocumentsFollow' /\ UNCHANGED updateVars
  BY SameRows DEF UpdateInv, DocumentsFollow, Progress, updateVars
<1> QED
  BY <1>1, RowsStay DEF UpdateInv, Updated

(* A task for every batch: none had one before. *)
LEMMA TasksStep ==
    ASSUME UpdateInv, NEW d \in Documents, Chunk(d)
    PROVE  Updated
<1> USE DEF Chunk, storeVars
<1>1. Wanted(d) # {}
  BY DEF UpdateInv, DocumentsFollow
<1>2. DocumentsFollow' /\ UNCHANGED updateVars
  BY <1>1, MoveIsNoUpdate DEF UpdateInv, BatchInv, Types, Places
<1>3. \A j \in Jobs : job'[j] = IF j \in _batched(d) THEN "waiting" ELSE job[j]
  OBVIOUS
<1>4. \A e \in Documents : e # d /\ Cancelled(e) => Cancelled(e)'
  BY <1>3, JobFacts DEF Cancelled
<1>5. ASSUME NEW j \in Jobs
      PROVE  /\ job'[j] # "none" => j \in _batched(j[1])'
             /\ job'[j] = "written" => chunk_id(j)' \in corpus'
             /\ pc'[j[1]] = "indexing" /\ j \in _batched(j[1])' => job'[j] # "none"
             /\ pc'[j[1]] = "indexing" /\ job'[j] = "cancelled" => Cancelled(j[1])'
  <2>1. CASE j[1] = d
    BY <1>3, <1>5, <2>1, SameRows DEF UpdateInv, RowsFollow
  <2>2. CASE j[1] # d
    <3>1. j \notin _batched(d) /\ pc'[j[1]] = pc[j[1]] /\ j[1] \in Documents
      BY <2>2, JobFacts DEF Goto, UpdateInv, BatchInv, Types
    <3> QED
      BY <1>3, <1>4, <1>5, <2>2, <3>1, SameRows DEF UpdateInv, RowsFollow
  <2> QED
    BY <2>1, <2>2
<1> QED
  BY <1>2, <1>5 DEF RowsFollow, Updated

(* A group that is over with no failure and no deadline has written all    *)
(* its batches.                                                            *)
LEMMA AllWritten ==
    ASSUME UpdateInv, NEW d \in Documents, pc[d] = "indexing", GroupIsOver(d), ~Cancelled(d)
    PROVE  Wanted(d) # {} /\ Wanted(d) \subseteq corpus
<1>1. \A j \in _batched(d) : job[j] = "written"
  BY JobFacts DEF UpdateInv, RowsFollow, GroupIsOver, Over, Cancelled
<1> QED
  BY <1>1, JobFacts DEF UpdateInv, DocumentsFollow, RowsFollow, Wanted

(* The statuses of the handler and of the command. *)
LEMMA StatusFacts ==
    /\ Succeeded \in Statuses
    /\ \A status \in {500, 502} : Failed(status) \in Statuses /\ Failed(status) \notin {0, 201}
    /\ \A status \in {1, 413, 422, 502, 504} : status \in Statuses /\ status \notin {0, 201}
BY DEF Statuses, Succeeded, Failed

(* The steps of a document. *)
LEMMA DocumentIsAnUpdate ==
    ASSUME UpdateInv, NEW d \in Documents, Submit(d) \/ NextSource(d) \/ DocumentStep(d)
    PROVE  Updated
<1> USE StatusFacts DEF Places
<1>1. CASE Submit(d)
  <2>1. /\ UNCHANGED <<file, corpus, announced, job, doomed>> /\ pc[d] = "idle"
        /\ \/ Leave(d, 502)
           \/ Leave(d, 422)
           \/ Goto(d, "spooling") /\ UNCHANGED outcome
    BY <1>1 DEF Submit, jobVars, storeVars
  <2> QED
    BY <2>1, EndStep, MoveStep
<1>2. CASE NextSource(d)
  <2>1. /\ UNCHANGED <<file, corpus, announced, job, doomed>> /\ pc[d] = "idle"
        /\ \/ Leave(d, 1)
           \/ Goto(d, "reading") /\ UNCHANGED outcome
    BY <1>2 DEF NextSource, jobVars, storeVars
  <2> QED
    BY <2>1, EndStep, MoveStep
<1>3. CASE _spool(d)
  <2>1. /\ UNCHANGED <<file, corpus, announced, job, doomed>> /\ pc[d] = "spooling"
        /\ \/ Leave(d, 413)
           \/ Leave(d, 422)
           \/ UNCHANGED <<pc, outcome>>
           \/ Goto(d, "checking") /\ UNCHANGED outcome
    BY <1>3 DEF _spool, jobVars, storeVars
  <2> QED
    BY <2>1, EndStep, MoveStep, IdleStep
<1>4. CASE _reject_if_not_a_pdf(d)
  <2>1. /\ UNCHANGED <<file, corpus, announced, job, doomed>> /\ pc[d] = "checking"
        /\ \/ Leave(d, 422)
           \/ Goto(d, "reading") /\ UNCHANGED outcome
    BY <1>4 DEF _reject_if_not_a_pdf, jobVars, storeVars
  <2> QED
    BY <2>1, EndStep, MoveStep
<1>5. CASE ReadReturns(d)
  <2>1. UNCHANGED <<file, corpus, announced, job, doomed>> /\ pc[d] = "reading"
    BY <1>5 DEF ReadReturns, jobVars, storeVars
  <2>2. CASE Len(file[d].batches) = 0
    <3>1. Wanted(d) = {}
      BY <2>2, RowFacts DEF UpdateInv, DocumentsFollow
    <3> QED
      BY <1>5, <2>1, <2>2, <3>1, EndStep DEF ReadReturns
  <2>3. CASE Len(file[d].batches) # 0
    <3>1. Wanted(d) # {}
      BY <2>3, RowFacts DEF UpdateInv, DocumentsFollow
    <3> QED
      BY <1>5, <2>1, <2>3, <3>1, MoveStep DEF ReadReturns
  <2> QED
    BY <2>2, <2>3
<1>6. CASE ReadFails(d)
  BY <1>6, EndStep DEF ReadFails, jobVars, storeVars
<1>7. CASE Chunk(d)
  BY <1>7, TasksStep
<1>8. CASE IndexReturns(d)
  <2>1. /\ UNCHANGED <<file, corpus, announced, job, doomed>>
        /\ pc[d] = "indexing" /\ GroupIsOver(d)
        /\ \/ Leave(d, Failed(500))
           \/ Leave(d, 504)
           \/ Goto(d, "announcing") /\ ~Cancelled(d) /\ UNCHANGED outcome
    BY <1>8 DEF IndexReturns, jobVars, storeVars, Cancelled
  <2> QED
    BY <2>1, EndStep, MoveStep, AllWritten
<1>9. CASE Bump(d)
  <2>1. RowsFollow'
    BY <1>9, RowsStay DEF Bump, uploadVars, jobVars, storeVars, UpdateInv
  <2> QED
    BY <1>9, <2>1, BumpIsAnUpdate DEF UpdateInv, Updated
<1>10. CASE _announce(d)
  <2>1. Wanted(d) \subseteq corpus
    BY <1>10 DEF _announce, UpdateInv, DocumentsFollow
  <2> QED
    BY <1>10, <2>1, EndStep DEF _announce, jobVars, storeVars
<1>11. CASE Abandon(d)
  BY <1>11, EndStep DEF Abandon, jobVars, storeVars
<1> QED
  BY <1>1, <1>2, <1>3, <1>4, <1>5, <1>6, <1>7, <1>8, <1>9, <1>10, <1>11 DEF DocumentStep

(* Calls that are given up write nothing but their rows, now or later. *)
LEMMA GiveUpFacts ==
    ASSUME NEW calls, GiveUp(calls)
    PROVE  /\ late' \subseteq late \cup calls
           /\ corpus \subseteq corpus'
           /\ corpus' \ corpus \subseteq {chunk_id(i) : i \in calls}
BY DEF GiveUp

(* The rows of a document's batches are its own. *)
LEMMA FlightFacts ==
    ASSUME UpdateInv, NEW d \in Documents, NEW calls \in SUBSET JobsOf(d),
           \A i \in calls : job[i] # "none"
    PROVE  {chunk_id(i) : i \in calls} \subseteq Wanted(d)
<1>1. \A i \in calls : i \in Jobs /\ i[1] = d
  BY JobFacts
<1>2. \A i \in calls : i \in _batched(d)
  BY <1>1 DEF UpdateInv, RowsFollow
<1> QED
  BY <1>2 DEF Wanted

LEMMA InFlightFacts ==
    ASSUME NEW d \in Documents
    PROVE  InFlight(d) \subseteq JobsOf(d) /\ \A i \in InFlight(d) : job[i] = "calling"
BY DEF InFlight

(* The deadline. *)
LEMMA DeadlineIsAnUpdate ==
    ASSUME UpdateInv, NEW d \in Documents, Deadline(d)
    PROVE  Updated
<1>1. UNCHANGED <<file, announced>> /\ doomed' = doomed \cup {d} /\ pc[d] # "ended"
  BY DEF Deadline
<1>2. CASE pc[d] = "indexing"
  <2>1. /\ CancelGroup(d, {}, "cancelled")
        /\ UNCHANGED <<pc, outcome>>
        /\ GiveUp(InFlight(d))
    BY <1>2 DEF Deadline
  <2>2. corpus \subseteq corpus' /\ corpus' \ corpus \subseteq Wanted(d)
    BY <2>1, InFlightFacts, GiveUpFacts, FlightFacts
  <2>3. RowsFollow'
    BY <1>1, <2>1, <2>2, RowsCancelled DEF UpdateInv, BatchInv
  <2> QED
    BY <1>1, <1>2, <2>1, <2>2, <2>3, RowsAreAnUpdate DEF UpdateInv, Updated
<1>3. CASE pc[d] = "announcing"
  BY <1>1, <1>3, EndStep, StatusFacts DEF Deadline, storeVars
<1>4. CASE pc[d] \notin {"indexing", "announcing"}
  <2>1. UNCHANGED <<pc, outcome, job, corpus>>
    BY <1>4 DEF Deadline, storeVars
  <2>2. DocumentsFollow' /\ UNCHANGED updateVars
    BY <1>1, <2>1, SameRows DEF UpdateInv, DocumentsFollow, Progress, updateVars
  <2> QED
    BY <1>1, <2>1, <2>2, RowsStay DEF UpdateInv, Updated
<1> QED
  BY <1>2, <1>3, <1>4

(* A batch that fails, and the rows that got through. *)
LEMMA FailureIsAnUpdate ==
    ASSUME UpdateInv, NEW j \in Jobs, job[j] \in AtWork, NEW lost \in SUBSET {j},
           FailBatch(j, lost), UNCHANGED <<file, pc, announced, outcome, doomed>>
    PROVE  Updated
<1>1. /\ j[1] \in Documents /\ {j} \in SUBSET JobsOf(j[1])
      /\ pc[j[1]] = "indexing"
      /\ chunk_id(j) \in Wanted(j[1])
  BY JobFacts, RowFacts
     DEF UpdateInv, BatchInv, JobsFollow, DocumentsFollow, RowsFollow, AtWork, Pending
<1>2. corpus \subseteq corpus' /\ corpus' \ corpus \subseteq Wanted(j[1])
  <2>1. PICK calls : calls = (InFlight(j[1]) \ {j}) \cup lost
    OBVIOUS
  <2>2. GiveUp(calls)
    BY <2>1 DEF FailBatch
  <2>3. calls \in SUBSET JobsOf(j[1]) /\ \A i \in calls : job[i] # "none"
    BY <1>1, <2>1, InFlightFacts DEF AtWork
  <2>4. {chunk_id(i) : i \in calls} \subseteq Wanted(j[1])
    BY <1>1, <2>3, FlightFacts
  <2> QED
    BY <2>2, <2>4, GiveUpFacts
<1>3. RowsFollow'
  BY <1>1, <1>2, RowsCancelled DEF FailBatch, UpdateInv, BatchInv
<1> QED
  BY <1>1, <1>2, <1>3, RowsAreAnUpdate DEF UpdateInv, Updated

(* The steps of a batch. *)
LEMMA BatchIsAnUpdate ==
    ASSUME UpdateInv, NEW j \in Jobs, JobStep(j)
    PROVE  Updated
<1>0. UNCHANGED <<file, pc, announced, outcome, doomed>>
  BY DEF JobStep, Acquire, Embedded, EmbedFails, CallReturns, CallAgain, CallFails, uploadVars
<1>1. ASSUME job[j] \in AtWork
      PROVE  j[1] \in Documents /\ pc[j[1]] = "indexing" /\ chunk_id(j) \in Wanted(j[1])
  BY <1>1, JobFacts, RowFacts
     DEF UpdateInv, BatchInv, JobsFollow, DocumentsFollow, RowsFollow, AtWork, Pending
<1>2. CASE Acquire(j) \/ Embedded(j) \/ CallAgain(j)
  <2>1. /\ UNCHANGED corpus
        /\ job[j] \in Pending
        /\ \E place \in AtWork : Advance(j, place)
    BY <1>2 DEF Acquire, Embedded, CallAgain, AtWork, Pending, storeVars
  <2>2. RowsFollow'
    BY <1>0, <2>1, RowsAdvance DEF UpdateInv, BatchInv, AtWork, Pending
  <2>3. DocumentsFollow' /\ UNCHANGED updateVars
    BY <1>0, <2>1, SameRows DEF UpdateInv, DocumentsFollow, Progress, updateVars
  <2> QED
    BY <2>2, <2>3 DEF Updated
<1>3. CASE EmbedFails(j)
  BY <1>0, <1>3, FailureIsAnUpdate DEF EmbedFails, AtWork
<1>4. CASE CallReturns(j)
  <2>1. job[j] = "calling" /\ Advance(j, "written") /\ corpus' = corpus \cup {chunk_id(j)}
    BY <1>4 DEF CallReturns
  <2>2. RowsFollow'
    BY <1>0, <2>1, RowsAdvance DEF UpdateInv, BatchInv
  <2> QED
    BY <1>0, <1>1, <2>1, <2>2, RowsAreAnUpdate DEF UpdateInv, Updated, AtWork
<1>5. ASSUME NEW error \in StoreErrors, CallFails(j, error) PROVE Updated
  <2>1. job[j] = "calling"
    BY <1>5 DEF CallFails
  <2>2. PICK lost \in SUBSET {j} : lost = Lost(j, error)
    BY DEF Lost
  <2>3. CASE FailBatch(j, lost)
    BY <1>0, <2>1, <2>3, FailureIsAnUpdate DEF AtWork
  <2>4. CASE /\ GiveUp(lost)
             /\ \/ Cancelled(j[1]) /\ Advance(j, "cancelled")
                \/ Advance(j, "backoff")
    <3>1. corpus \subseteq corpus' /\ corpus' \ corpus \subseteq {chunk_id(j)}
      BY <2>4, GiveUpFacts
    <3>2. RowsFollow'
      BY <1>0, <2>1, <2>4, <3>1, RowsAdvance DEF UpdateInv, BatchInv
    <3>3. chunk_id(j) \in Wanted(j[1]) /\ j[1] \in Documents /\ pc[j[1]] = "indexing"
      BY <1>1, <2>1 DEF AtWork
    <3>4. corpus' \ corpus \subseteq Wanted(j[1])
      BY <3>1, <3>3
    <3> QED
      BY <1>0, <3>1, <3>2, <3>3, <3>4, RowsAreAnUpdate DEF UpdateInv, Updated
  <2> QED
    BY <1>5, <2>2, <2>3, <2>4 DEF CallFails
<1> QED
  BY <1>2, <1>3, <1>4, <1>5 DEF JobStep, Acquire

(* A row that comes late is its document's, and if that was announced or   *)
(* has succeeded, it is there already.                                     *)
LEMMA LateCommitIsAnUpdate ==
    ASSUME UpdateInv, NEW j \in Jobs, LateCommit(j)
    PROVE  Updated
<1>1. PICK d \in Documents : d = j[1]
  BY JobFacts
<1>2. /\ UNCHANGED <<file, pc, announced, outcome, job, doomed>>
      /\ corpus' = corpus \cup {chunk_id(j)}
  BY DEF LateCommit, uploadVars
<1>3. chunk_id(j) \in Wanted(d)
  <2>1. j \in late /\ job[j] # "none"
    BY DEF LateCommit, UpdateInv, LateFollows
  <2>2. j \in _batched(d)
    BY <1>1, <2>1 DEF UpdateInv, RowsFollow
  <2> QED
    BY <2>2 DEF Wanted
<1>4. RowsFollow'
  BY <1>2, RowsStay DEF UpdateInv
<1>5. DocumentsFollow'
  BY <1>2, SameRows DEF UpdateInv, DocumentsFollow
<1>6. UNCHANGED [e \in Documents |-> Progress(e)]
  BY <1>2 DEF Progress
<1>7. CASE chunk_id(j) \in corpus
  BY <1>2, <1>4, <1>5, <1>6, <1>7, SameRows DEF Updated, updateVars
<1>8. CASE chunk_id(j) \notin corpus
  <2>1. [e \in Documents |-> Progress(e)][d] \in {"writing", "failed"}
    BY <1>3, <1>8 DEF Progress, UpdateInv, DocumentsFollow
  <2>2. corpus \subseteq corpus' /\ corpus' \ corpus \subseteq Wanted(d)
    BY <1>2, <1>3
  <2>3. Update!Write(d)
    BY <1>6, <2>1, <2>2 DEF Update!Write
  <2> QED
    BY <1>2, <1>4, <1>5, <2>3, SameRows DEF Updated, Update!Next
<1> QED
  BY <1>7, <1>8

(* What is given up had a task, and a batch that has one keeps it. *)
Keeps(before, after) == \A i \in Jobs : before[i] # "none" => after[i] # "none"

LEMMA LateStays ==
    ASSUME LateFollows, Keeps(job, job'),
           late' \subseteq late \cup {j \in Jobs : job[j] # "none"}
    PROVE  LateFollows'
BY DEF LateFollows, Keeps

LEMMA CancelKeeps ==
    ASSUME NEW d, NEW ending, NEW place, place # "none", CancelGroup(d, ending, place)
    PROVE  Keeps(job, job')
BY DEF CancelGroup, Keeps

LEMMA AdvanceKeeps ==
    ASSUME Types, NEW j \in Jobs, NEW place, place # "none", Advance(j, place)
    PROVE  Keeps(job, job')
BY DEF Advance, Keeps, Types

LEMMA FailBatchKeeps ==
    ASSUME LateFollows, NEW j \in Jobs, job[j] \in AtWork, NEW lost \in SUBSET {j},
           FailBatch(j, lost)
    PROVE  LateFollows'
<1>1. Keeps(job, job')
  BY CancelKeeps DEF FailBatch
<1>2. PICK calls : calls = (InFlight(j[1]) \ {j}) \cup lost
  OBVIOUS
<1>3. calls \subseteq {i \in Jobs : job[i] # "none"}
  BY <1>2, JobFacts, InFlightFacts DEF AtWork
<1>4. GiveUp(calls)
  BY <1>2 DEF FailBatch
<1>5. late' \subseteq late \cup calls
  BY <1>4, GiveUpFacts
<1> QED
  BY <1>1, <1>3, <1>5, LateStays

LEMMA LateNext == Types /\ LateFollows /\ [Next]_vars => LateFollows'
<1> SUFFICES ASSUME Types, LateFollows, [Next]_vars PROVE LateFollows'
  OBVIOUS
<1>1. ASSUME UNCHANGED ingestionVars PROVE LateFollows'
  BY <1>1 DEF ingestionVars, LateFollows
<1>2. ASSUME UNCHANGED <<job, late>> PROVE LateFollows'
  BY <1>2 DEF LateFollows
<1>3. ASSUME NEW d \in Documents, Submit(d) \/ NextSource(d) \/ DocumentStep(d)
      PROVE  LateFollows'
  <2>1. CASE Chunk(d)
    <3>1. Keeps(job, job') /\ late' = late
      BY <2>1 DEF Chunk, Keeps, storeVars
    <3> QED
      BY <3>1, LateStays
  <2>2. CASE ~Chunk(d)
    <3>1. UNCHANGED <<job, late>>
      BY <1>3, <2>2 DEF Submit, NextSource, DocumentStep, _spool, _reject_if_not_a_pdf,
            ReadReturns, ReadFails, IndexReturns, Bump, _announce, Abandon, jobVars, storeVars
    <3> QED
      BY <1>2, <3>1
  <2> QED
    BY <2>1, <2>2
<1>4. ASSUME NEW d \in Documents, Deadline(d) PROVE LateFollows'
  <2>1. CASE pc[d] = "indexing"
    <3>1. CancelGroup(d, {}, "cancelled") /\ GiveUp(InFlight(d))
      BY <1>4, <2>1 DEF Deadline
    <3>2. InFlight(d) \subseteq {i \in Jobs : job[i] # "none"}
      BY JobFacts, InFlightFacts
    <3>3. late' \subseteq late \cup InFlight(d)
      BY <3>1, GiveUpFacts
    <3> QED
      BY <3>1, <3>2, <3>3, CancelKeeps, LateStays
  <2>2. CASE pc[d] # "indexing"
    <3>1. UNCHANGED <<job, late>>
      BY <1>4, <2>2 DEF Deadline, storeVars
    <3> QED
      BY <1>2, <3>1
  <2> QED
    BY <2>1, <2>2
<1>5. ASSUME NEW j \in Jobs, JobStep(j) PROVE LateFollows'
  <2>1. CASE Acquire(j) \/ Embedded(j) \/ CallReturns(j) \/ CallAgain(j)
    <3>1. late' = late /\ \E place : place # "none" /\ Advance(j, place)
      BY <2>1 DEF Acquire, Embedded, CallReturns, CallAgain, storeVars
    <3> QED
      BY <3>1, AdvanceKeeps, LateStays
  <2>2. CASE EmbedFails(j)
    BY <2>2, FailBatchKeeps DEF EmbedFails, AtWork
  <2>3. ASSUME NEW error \in StoreErrors, CallFails(j, error) PROVE LateFollows'
    <3>1. PICK lost \in SUBSET {j} : lost = Lost(j, error)
      BY DEF Lost
    <3>2. job[j] = "calling"
      BY <2>3 DEF CallFails
    <3>3. CASE FailBatch(j, lost)
      BY <3>2, <3>3, FailBatchKeeps DEF AtWork
    <3>4. CASE GiveUp(lost) /\ \E place : place # "none" /\ Advance(j, place)
      <4>1. Keeps(job, job')
        BY <3>4, AdvanceKeeps
      <4>2. late' \subseteq late \cup {j}
        BY <3>4, GiveUpFacts
      <4> QED
        BY <3>2, <4>1, <4>2, LateStays
    <3> QED
      BY <2>3, <3>1, <3>3, <3>4 DEF CallFails
  <2> QED
    BY <1>5, <2>1, <2>2, <2>3 DEF JobStep
<1>6. ASSUME NEW j \in Jobs, LateCommit(j) PROVE LateFollows'
  BY <1>6 DEF LateCommit, LateFollows
<1> QED
  BY <1>1, <1>3, <1>4, <1>5, <1>6 DEF Next, vars, Shutdown

(* An ingestion implements IndexUpdate: it writes nothing but rows of its  *)
(* own, announces the version and reports success only when all of them    *)
(* are in the store, and writes nothing after that; what reaches the store *)
(* after a failure are rows of its own that it had given up.               *)
THEOREM ImplementsUpdate == Spec => ImplementsIndexUpdate
<1>1. Init => UpdateInv /\ Update!Init
  <2> SUFFICES ASSUME Init PROVE UpdateInv /\ Update!Init
    OBVIOUS
  <2> USE DEF Init, IngestionInit
  <2>1. BatchInv
    BY BatchInit
  <2>2. DocumentsFollow
    BY IngestionAssumption DEF DocumentsFollow, Statuses
  <2>3. RowsFollow
    BY JobFacts DEF RowsFollow
  <2>4. LateFollows
    BY DEF LateFollows
  <2>5. Update!Init
    BY DEF Update!Init, Progress
  <2> QED
    BY <2>1, <2>2, <2>3, <2>4, <2>5 DEF UpdateInv
<1>2. UpdateInv /\ [Next]_vars => UpdateInv' /\ [Update!Next]_updateVars
  <2> SUFFICES ASSUME UpdateInv, [Next]_vars PROVE UpdateInv' /\ [Update!Next]_updateVars
    OBVIOUS
  <2>1. BatchInv'
    BY BatchNext DEF UpdateInv
  <2>2. ASSUME UNCHANGED ingestionVars PROVE Updated
    BY <2>2, IdleStep DEF ingestionVars
  <2>3. ASSUME NEW d \in Documents, Submit(d) \/ NextSource(d) \/ DocumentStep(d) \/ Deadline(d)
        PROVE  Updated
    BY <2>3, DocumentIsAnUpdate, DeadlineIsAnUpdate
  <2>4. ASSUME NEW j \in Jobs, JobStep(j) \/ LateCommit(j) PROVE Updated
    BY <2>4, BatchIsAnUpdate, LateCommitIsAnUpdate
  <2>5. Updated
    BY <2>2, <2>3, <2>4 DEF Next, vars, Shutdown
  <2>6. LateFollows'
    BY LateNext DEF UpdateInv, BatchInv
  <2> QED
    BY <2>1, <2>5, <2>6 DEF UpdateInv, Updated
<1> QED
  BY <1>1, <1>2, PTL DEF Spec, ImplementsIndexUpdate, Update!Spec, updateVars
-----------------------------------------------------------------------------
(* The containers *)

(* A document is taken up when the process serves, by a container with a   *)
(* pipeline, and the process does not stop before it has ended.            *)
DocumentsAreServed ==
    \A d \in Documents :
        pc[d] \notin {"idle", "ended"} => stage[Main] = "serving" /\ Registered("pipeline")

(* The steps of the process keep the invariant of the containers. *)
LEMMA ContainersNext == LifecycleInv /\ [Next]_vars => LifecycleInv'
<1> SUFFICES ASSUME LifecycleInv, [Next]_vars PROVE LifecycleInv'
  OBVIOUS
<1>1. ASSUME UNCHANGED lifecycleVars PROVE LifecycleInv'
  <2>1. ASSUME NEW t \in Tasks PROVE ComponentsFollow(t)'
    BY <1>1, OthersFollow DEF LifecycleInv, lifecycleVars
  <2> QED
    BY <1>1, <2>1, SameOrder DEF LifecycleInv, LifecycleTypes, MainFollows, SharingFollows, lifecycleVars
<1> QED
  BY <1>1, ContainerStep, LifecycleStep DEF Shutdown

(* The indexer's task group, the endpoint's handler and the command's loop *)
(* all end before the process closes what they use.                        *)
LEMMA ServedStep ==
    ASSUME BatchInv, LifecycleInv, DocumentsAreServed, [Next]_vars
    PROVE  DocumentsAreServed'
<1> USE DEF BatchInv, Types
<1>1. ASSUME LifecycleNext, UNCHANGED ingestionVars PROVE DocumentsAreServed'
  <2>1. UNCHANGED <<deployment, keyed, pc>>
    BY <1>1 DEF LifecycleNext, Begin, CloseNext, Stopped, Call, Reuse, Build, StartNext,
                StartFails, Started, CancelCaller, ingestionVars
  <2>2. ASSUME stage[Main] = "serving" PROVE stage'[Main] = "serving"
    BY <1>1, <2>2, LifecycleAssumption
    DEF LifecycleNext, Begin, CloseNext, Stopped, Call, Reuse, Build, StartNext, StartFails,
        Started, CancelCaller, Move, LifecycleInv, LifecycleTypes, Tasks
  <2> QED
    BY <2>1, <2>2, SameOrder DEF DocumentsAreServed, Registered
<1>2. ASSUME Shutdown PROVE DocumentsAreServed'
  BY <1>2 DEF Shutdown, DocumentsAreServed, ingestionVars
<1>3. ASSUME UNCHANGED lifecycleVars, UNCHANGED pc PROVE DocumentsAreServed'
  BY <1>3, SameOrder DEF DocumentsAreServed, lifecycleVars, Registered
<1>4. ASSUME UNCHANGED lifecycleVars, NEW d \in Documents, NEW place, Goto(d, place),
              \/ place = "ended"
              \/ stage[Main] = "serving" /\ Registered("pipeline")
       PROVE  DocumentsAreServed'
  BY <1>4, SameOrder DEF DocumentsAreServed, Goto, lifecycleVars, Registered
<1>5. ASSUME NEW d \in Documents, Submit(d) PROVE DocumentsAreServed'
  <2>1. UNCHANGED lifecycleVars /\ stage[Main] = "serving"
    BY <1>5 DEF Submit
  <2>2. ASSUME ~Registered("pipeline") PROVE Goto(d, "ended")
    BY <1>5, <2>2 DEF Submit, Leave
  <2>3. Goto(d, "ended") \/ Goto(d, "spooling")
    BY <1>5 DEF Submit, Leave
  <2> QED
    BY <1>4, <2>1, <2>2, <2>3
<1>6. ASSUME NEW d \in Documents, NextSource(d) PROVE DocumentsAreServed'
  <2>1. UNCHANGED lifecycleVars /\ stage[Main] = "serving"
    BY <1>6 DEF NextSource
  <2>2. Order = build_ingestion_container
    BY <1>6 DEF NextSource, Order
  <2>3. Len(Order) = 8 /\ Order[8] = "pipeline"
    BY <2>2 DEF build_ingestion_container
  <2>4. Registered("pipeline")
    BY <2>3 DEF Registered
  <2>5. Goto(d, "ended") \/ Goto(d, "reading")
    BY <1>6 DEF NextSource, Leave
  <2> QED
    BY <1>4, <2>1, <2>4, <2>5
<1>7. ASSUME NEW d \in Documents, DocumentStep(d) \/ Deadline(d) PROVE DocumentsAreServed'
  <2>1. UNCHANGED lifecycleVars
    BY <1>7 DEF DocumentStep, _spool, _reject_if_not_a_pdf, ReadReturns, ReadFails, Chunk,
                IndexReturns, Bump, _announce, Abandon, Deadline
  <2>2. pc[d] \notin {"idle", "ended"}
    BY <1>7 DEF DocumentStep, _spool, _reject_if_not_a_pdf, ReadReturns, ReadFails, Chunk,
                IndexReturns, Bump, _announce, Abandon, Deadline
  <2>3. UNCHANGED pc \/ \E place : Goto(d, place)
    BY <1>7 DEF DocumentStep, _spool, _reject_if_not_a_pdf, ReadReturns, ReadFails, Chunk,
                IndexReturns, Bump, _announce, Abandon, Deadline, Leave, uploadVars
  <2>4. stage[Main] = "serving" /\ Registered("pipeline")
    BY <2>2 DEF DocumentsAreServed
  <2> QED
    BY <1>3, <1>4, <2>1, <2>3, <2>4
<1>8. ASSUME NEW j \in Jobs, JobStep(j) \/ LateCommit(j) PROVE DocumentsAreServed'
  <2>1. UNCHANGED <<lifecycleVars, uploadVars>>
    BY <1>8 DEF JobStep, Acquire, Embedded, EmbedFails, CallReturns, CallAgain, CallFails, LateCommit
  <2> QED
    BY <1>3, <2>1 DEF uploadVars
<1>9. ASSUME UNCHANGED vars PROVE DocumentsAreServed'
  BY <1>3, <1>9 DEF vars, ingestionVars
<1> QED
  BY <1>1, <1>2, <1>5, <1>6, <1>7, <1>8, <1>9 DEF Next

(* A container starts its components after what they use and closes them   *)
(* before it, a process that has shut down holds nothing, and the agent    *)
(* server's callers share one complete container, however many they are.   *)
THEOREM ContainersHold == Spec => []ContainersAreOrderly
<1>1. Init => LifecycleInv
  BY LifecycleStarts DEF Init
<1> QED
  BY <1>1, ContainersNext, LifecycleSafe, PTL DEF Spec

(* No batch at work finds the embedding service or the vector store before *)
(* its start or after its close.                                           *)
THEOREM NothingClosedHolds == Spec => []NothingIsUsedClosed
<1> DEFINE Inv == BatchInv /\ LifecycleInv /\ DocumentsAreServed
<1>1. Init => Inv
  <2>1. Init => DocumentsAreServed
    BY DEF Init, IngestionInit, DocumentsAreServed
  <2> QED
    BY <2>1, BatchInit, LifecycleStarts DEF Init
<1>2. Inv /\ [Next]_vars => Inv'
  BY BatchNext, ContainersNext, ServedStep
<1>3. Inv => NothingIsUsedClosed
  <2> SUFFICES ASSUME Inv, NEW j \in Jobs, job[j] \in {"embedding", "calling", "backoff"}
               PROVE  {"embeddings", "store"} \subseteq opened[Main]
    BY DEF NothingIsUsedClosed
  <2>1. pc[j[1]] = "indexing" /\ j[1] \in Documents
    BY JobFacts DEF BatchInv, JobsFollow, Pending, AtWork
  <2>2. stage[Main] = "serving" /\ Registered("pipeline")
    BY <2>1 DEF DocumentsAreServed
  <2>3. ComponentsFollow(Main) /\ Cardinality(live[Main]) = Len(Order)
    BY <2>2 DEF LifecycleInv, MainFollows, Tasks
  <2>4. {"embeddings", "store"} \subseteq live[Main]
    BY <2>2, <2>3, PrefixIsComplete DEF ComponentsFollow
  <2> QED
    BY <2>2, <2>3, <2>4 DEF ComponentsFollow, Resources
<1> QED
  BY <1>1, <1>2, <1>3, PTL DEF Spec

-----------------------------------------------------------------------------
(* The types, and the limits they hold *)

(* A batch that is to call again has attempts left, so that none makes     *)
(* more calls than retry_attempts; no upload is spooled beyond its limit.  *)
CountsFollow ==
    /\ remote \in BOOLEAN
    /\ file \in Submissions
    /\ spooled \in [Documents -> 0 .. MAX_UPLOAD_PARTS]
    /\ doomed \subseteq Documents
    /\ announced \subseteq Documents
    /\ outcome \in [Documents -> Statuses \cup {None}]
    /\ attempt \in [Jobs -> 0 .. retry_attempts]
    /\ \A j \in Jobs : job[j] = "backoff" => attempt[j] < retry_attempts

(* The steps that count nothing. *)
LEMMA SameCounts ==
    ASSUME CountsFollow, UNCHANGED <<remote, file, spooled, attempt>>,
           doomed' \subseteq Documents, announced' \subseteq Documents,
           outcome' \in [Documents -> Statuses \cup {None}],
           \A j \in Jobs : job'[j] = "backoff" => job[j] = "backoff"
    PROVE  CountsFollow'
BY DEF CountsFollow

(* Whoever leaves has an outcome. *)
LEMMA LeavesWithStatus ==
    ASSUME CountsFollow, NEW d \in Documents, NEW status \in Statuses, Leave(d, status)
    PROVE  outcome' \in [Documents -> Statuses \cup {None}]
BY DEF CountsFollow, Leave

LEMMA DocumentCounts ==
    ASSUME CountsFollow, Types, NEW d \in Documents,
           Submit(d) \/ NextSource(d) \/ DocumentStep(d) \/ Deadline(d)
    PROVE  CountsFollow'
<1>0. {0, 1, 201, 413, 422, 500, 502, 504} \subseteq Statuses
  BY DEF Statuses
<1>1. Succeeded \in Statuses /\ \A status \in Statuses : Failed(status) \in Statuses
  BY <1>0 DEF Succeeded, Failed
<1>2. outcome \in [Documents -> Statuses \cup {None}] /\ doomed \cup {d} \subseteq Documents
      /\ announced \cup {d} \subseteq Documents
  BY DEF CountsFollow
<1>3. CASE Submit(d)
  <2>1. outcome' = outcome \/ \E status \in Statuses : Leave(d, status)
    BY <1>0, <1>3 DEF Submit
  <2> QED
    BY <1>2, <1>3, <2>1, SameCounts, LeavesWithStatus DEF Submit, jobVars, storeVars
<1>4. CASE NextSource(d)
  <2>1. outcome' = outcome \/ \E status \in Statuses : Leave(d, status)
    BY <1>0, <1>4 DEF NextSource
  <2> QED
    BY <1>2, <1>4, <2>1, SameCounts, LeavesWithStatus DEF NextSource, jobVars, storeVars
<1>5. CASE _spool(d)
  <2>1. CASE spooled' = spooled
    <3>1. outcome' = outcome \/ \E status \in Statuses : Leave(d, status)
      BY <1>0, <1>5 DEF _spool
    <3> QED
      BY <1>2, <1>5, <2>1, <3>1, SameCounts, LeavesWithStatus DEF _spool, jobVars, storeVars
  <2>2. CASE spooled' # spooled
    <3>1. /\ spooled[d] + 1 <= MAX_UPLOAD_PARTS
          /\ spooled' = [spooled EXCEPT ![d] = @ + 1]
          /\ outcome' = outcome
      <4>1. spooled[d] \in 0 .. MAX_UPLOAD_PARTS
        BY DEF CountsFollow
      <4> QED BY <1>5, <2>2, <4>1, IngestionAssumption DEF _spool
    <3>2. spooled' \in [Documents -> 0 .. MAX_UPLOAD_PARTS]
      BY <3>1, IngestionAssumption DEF CountsFollow
    <3> QED
      BY <1>5, <3>1, <3>2 DEF _spool, CountsFollow, jobVars, storeVars
  <2> QED BY <2>1, <2>2
<1>6. CASE _reject_if_not_a_pdf(d)
  <2>1. outcome' = outcome \/ \E status \in Statuses : Leave(d, status)
    BY <1>0, <1>6 DEF _reject_if_not_a_pdf
  <2> QED
    BY <1>2, <1>6, <2>1, SameCounts, LeavesWithStatus DEF _reject_if_not_a_pdf, jobVars, storeVars
<1>7. CASE ReadReturns(d)
  <2>1. outcome' = outcome \/ \E status \in Statuses : Leave(d, status)
    BY <1>1, <1>7 DEF ReadReturns
  <2> QED
    BY <1>2, <1>7, <2>1, SameCounts, LeavesWithStatus DEF ReadReturns, jobVars, storeVars
<1>8. CASE ReadFails(d)
  <2>1. \E status \in Statuses : Leave(d, status)
    BY <1>0, <1>1, <1>8 DEF ReadFails
  <2> QED
    BY <1>2, <1>8, <2>1, SameCounts, LeavesWithStatus DEF ReadFails, jobVars, storeVars
<1>9. CASE Chunk(d)
  <2>1. \A j \in Jobs : job'[j] \in {"waiting", job[j]}
    BY <1>9 DEF Chunk
  <2> QED
    BY <1>2, <1>9, <2>1, SameCounts DEF Chunk
<1>10. CASE IndexReturns(d)
  <2>1. outcome' = outcome \/ \E status \in Statuses : Leave(d, status)
    BY <1>0, <1>1, <1>10 DEF IndexReturns
  <2> QED
    BY <1>2, <1>10, <2>1, SameCounts, LeavesWithStatus DEF IndexReturns, jobVars, storeVars
<1>11. CASE Bump(d)
  BY <1>2, <1>11, SameCounts DEF Bump, uploadVars, jobVars, storeVars
<1>12. CASE _announce(d)
  BY <1>1, <1>2, <1>12, SameCounts, LeavesWithStatus DEF _announce, jobVars, storeVars
<1>13. CASE Abandon(d)
  BY <1>0, <1>2, <1>13, SameCounts, LeavesWithStatus DEF Abandon, jobVars, storeVars
<1>14. CASE Deadline(d)
  <2>1. outcome' = outcome \/ \E status \in Statuses : Leave(d, status)
    BY <1>0, <1>14 DEF Deadline
  <2>2. \A j \in Jobs : job'[j] \in {"cancelled", job[j]}
    BY <1>14 DEF Deadline, CancelGroup
  <2> QED
    BY <1>2, <1>14, <2>1, <2>2, SameCounts, LeavesWithStatus DEF Deadline
<1> QED
  BY <1>3, <1>4, <1>5, <1>6, <1>7, <1>8, <1>9, <1>10, <1>11, <1>12, <1>13, <1>14
  DEF DocumentStep

LEMMA JobCounts ==
    ASSUME CountsFollow, Types, NEW j \in Jobs, JobStep(j)
    PROVE  CountsFollow'
<1>0. /\ outcome \in [Documents -> Statuses \cup {None}]
      /\ doomed \subseteq Documents /\ announced \subseteq Documents
      /\ attempt \in [Jobs -> 0 .. retry_attempts] /\ retry_attempts \in Nat \ {0}
      /\ job \in [Jobs -> Over \cup Pending]
  BY RetryAssumption DEF CountsFollow, Types
<1>1. CASE Acquire(j) \/ CallReturns(j)
  <2>1. \A i \in Jobs : job'[i] \in {"embedding", "written", job[i]}
    BY <1>0, <1>1 DEF Acquire, CallReturns, Advance
  <2> QED
    BY <1>0, <1>1, <2>1, SameCounts DEF Acquire, CallReturns, uploadVars
<1>2. CASE Embedded(j)
  <2>1. /\ attempt' = [attempt EXCEPT ![j] = 1] /\ job' = [job EXCEPT ![j] = "calling"]
        /\ UNCHANGED <<remote, file, spooled, doomed, outcome, announced>>
    BY <1>2 DEF Embedded, Advance, uploadVars
  <2>2. attempt' \in [Jobs -> 0 .. retry_attempts]
    BY <1>0, <2>1
  <2>3. \A i \in Jobs : job'[i] = "backoff" => job[i] = "backoff" /\ attempt'[i] = attempt[i]
    BY <1>0, <2>1
  <2> QED
    BY <2>1, <2>2, <2>3 DEF CountsFollow
<1>3. CASE CallAgain(j)
  <2>1. /\ job[j] = "backoff"
        /\ attempt' = [attempt EXCEPT ![j] = @ + 1] /\ job' = [job EXCEPT ![j] = "calling"]
        /\ UNCHANGED <<remote, file, spooled, doomed, outcome, announced>>
    BY <1>3 DEF CallAgain, Advance, uploadVars
  <2>2. attempt[j] < retry_attempts
    BY <2>1 DEF CountsFollow
  <2>3. attempt' \in [Jobs -> 0 .. retry_attempts]
    BY <1>0, <2>1, <2>2
  <2>4. \A i \in Jobs : job'[i] = "backoff" => job[i] = "backoff" /\ attempt'[i] = attempt[i]
    BY <1>0, <2>1
  <2> QED
    BY <2>1, <2>3, <2>4 DEF CountsFollow
<1>4. CASE EmbedFails(j)
  <2>1. \A i \in Jobs : job'[i] \in {"failed", "cancelled", job[i]}
    BY <1>4 DEF EmbedFails, FailBatch, CancelGroup
  <2> QED
    BY <1>0, <1>4, <2>1, SameCounts DEF EmbedFails, uploadVars
<1>5. ASSUME NEW error \in StoreErrors, CallFails(j, error) PROVE CountsFollow'
  <2>0. UNCHANGED <<remote, file, spooled, doomed, outcome, announced, attempt>>
    BY <1>5 DEF CallFails, uploadVars
  <2>1. CASE Reraises(attempt[j], Wrapped(error))
    <3>1. \A i \in Jobs : job'[i] \in {"failed", "cancelled", job[i]}
      BY <1>5, <2>1 DEF CallFails, FailBatch, CancelGroup
    <3> QED
      BY <1>0, <2>0, <3>1, SameCounts
  <2>2. CASE ~Reraises(attempt[j], Wrapped(error))
    <3>1. attempt[j] < retry_attempts
      BY <1>0, <2>2 DEF Reraises
    <3>2. \A i \in Jobs : job'[i] = "backoff" => i = j \/ job[i] = "backoff"
      BY <1>0, <1>5, <2>2 DEF CallFails, Advance
    <3> QED
      BY <2>0, <3>1, <3>2 DEF CountsFollow
  <2> QED BY <2>1, <2>2
<1> QED
  BY <1>1, <1>2, <1>3, <1>4, <1>5 DEF JobStep

LEMMA CountsNext == BatchInv /\ CountsFollow /\ [Next]_vars => CountsFollow'
<1> SUFFICES ASSUME BatchInv, CountsFollow, [Next]_vars PROVE CountsFollow'
  OBVIOUS
<1>1. ASSUME UNCHANGED ingestionVars PROVE CountsFollow'
  BY <1>1 DEF ingestionVars, CountsFollow
<1>2. ASSUME NEW j \in Jobs, LateCommit(j) PROVE CountsFollow'
  BY <1>2 DEF LateCommit, uploadVars, CountsFollow
<1> QED
  BY <1>1, <1>2, DocumentCounts, JobCounts DEF Next, Shutdown, vars, BatchInv

(* A process keeps what it was started with. *)
LEMMA SameProcess ==
    ASSUME deployment \in {"api", "cli", "agent_server"}, keyed \in BOOLEAN, [Next]_vars
    PROVE  deployment' \in {"api", "cli", "agent_server"} /\ keyed' \in BOOLEAN
<1>1. ASSUME LifecycleNext PROVE UNCHANGED <<deployment, keyed>>
  BY <1>1 DEF LifecycleNext, Begin, CloseNext, Stopped, Call, Reuse, Build, StartNext, StartFails,
              Started, CancelCaller
<1>2. ASSUME Shutdown PROVE UNCHANGED <<deployment, keyed>>
  BY <1>2 DEF Shutdown, BeginShutdown
<1> QED
  BY <1>1, <1>2, ContainerStep DEF lifecycleVars

(* Ingestion and the process it runs in keep their types: no upload is     *)
(* spooled beyond MAX_UPLOAD_BYTES, and no batch calls the store more than *)
(* retry_attempts times, whatever fails and is cancelled around it.        *)
THEOREM IngestionTypes == Spec => []TypeOK
<1> DEFINE Process == deployment \in {"api", "cli", "agent_server"} /\ keyed \in BOOLEAN
           Inv == BatchInv /\ DirectoriesFollow /\ LifecycleInv /\ CountsFollow /\ Process
                  /\ LateFollows
<1>1. Init => Inv
  <2>1. Init => CountsFollow
    BY RetryAssumption, IngestionAssumption DEF Init, IngestionInit, CountsFollow
  <2>2. Init => DirectoriesFollow
    BY DEF Init, IngestionInit, DirectoriesFollow, Places
  <2>3. Init => Process /\ LateFollows
    BY DEF Init, LifecycleInit, IngestionInit, LateFollows
  <2> QED
    BY <2>1, <2>2, <2>3, BatchInit, LifecycleStarts DEF Init
<1>2. Inv /\ [Next]_vars => Inv'
  BY BatchNext, DirectoriesNext, ContainersNext, CountsNext, SameProcess, LateNext DEF BatchInv
<1>3. Inv => TypeOK
  <2> SUFFICES ASSUME Inv PROVE TypeOK
    OBVIOUS
  <2>1. LifecycleTypeOK
    BY DEF LifecycleTypeOK, LifecycleInv, LifecycleTypes, ComponentsFollow, Stages
  <2>2. borrowers \subseteq Jobs /\ job \in [Jobs -> Over \cup {"waiting", "embedding", "calling", "backoff"}]
    BY DEF BatchInv, LimiterIsExact, Types, Pending, AtWork
  <2>3. pc \in [Documents -> Places] /\ workspace \subseteq Documents /\ threads \subseteq Documents
    BY DEF DirectoriesFollow
  <2> QED
    BY <2>1, <2>2, <2>3 DEF TypeOK, CountsFollow, LateFollows, Places
<1> QED
  BY <1>1, <1>2, <1>3, PTL DEF Spec
=============================================================================
