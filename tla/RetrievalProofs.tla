-------------------------- MODULE RetrievalProofs --------------------------
(***************************************************************************)
(* Proofs about Retrieval, for any documents, settings and queries.        *)
(*                                                                         *)
(* What the recursive functions of the module compute is established by    *)
(* the least-number principle: SetInduction for a property of 0 .. n, and  *)
(* Recursion for the existence of the function.  On them rest what the     *)
(* algorithms return, for lists of any length: Ranked and Chosen, the      *)
(* fusion of two rankings (FuseFacts), the sweep of the redundancy stage   *)
(* (RedundancyFacts), the budget (BudgetFacts).                            *)
(*                                                                         *)
(* The inductive invariant SearchInv says what a search holds between its  *)
(* steps: the limits it asks the store for follow from the query and the   *)
(* settings (AskedFollows), no document is listed twice (FoundOnce), and   *)
(* what belongs to another stage of the search is empty (NothingElsewhere). *)
(***************************************************************************)
EXTENDS Retrieval, FiniteSetTheorems, SequenceTheorems, WellFoundedInduction, TLAPS

-----------------------------------------------------------------------------
(* Induction and recursion *)

(* The least number of a set that is missing has a predecessor in it.      *)
LEMMA SetInduction ==
    ASSUME NEW N \in Nat, NEW T, 0 \in T,
           \A n \in 1 .. N : n - 1 \in T => n \in T
    PROVE  0 .. N \subseteq T
<1> DEFINE Rest == (0 .. N) \ T
<1> SUFFICES ASSUME Rest # {} PROVE FALSE
  OBVIOUS
<1>1. Rest \subseteq Nat
  OBVIOUS
<1>2. PICK m \in Rest : \A n \in Rest : <<n, m>> \notin OpToRel(<, Nat)
  <2> HIDE DEF Rest
  <2> QED BY <1>1, NatLessThanWellFounded, WFMin
<1>3. \A n \in Rest : ~ n < m
  BY <1>1, <1>2 DEF OpToRel
<1>4. m \in 1 .. N /\ m - 1 \in 0 .. N
  OBVIOUS
<1> QED BY <1>3, <1>4

(* The steps of a recursive definition stay among its values. *)
StaysIn(step, N, V) == \A n \in 1 .. N : \A v \in V : step[n][v] \in V

Solves(f, N, V, b, step) ==
    /\ f \in [0 .. N -> V]
    /\ f[0] = b
    /\ \A n \in 1 .. N : f[n] = step[n][f[n - 1]]

(* A recursive definition over 0 .. N has a solution.                      *)
LEMMA Recursion ==
    ASSUME NEW N \in Nat, NEW V, NEW b \in V, NEW step, StaysIn(step, N, V)
    PROVE  \E f : Solves(f, N, V, b, step)
<1> DEFINE T == {m \in 0 .. N : \E f : Solves(f, m, V, b, step)}
<1>1. 0 \in T
  <2>1. Solves([n \in 0 .. 0 |-> b], 0, V, b, step)
    BY DEF Solves
  <2> QED BY <2>1
<1>2. \A n \in 1 .. N : n - 1 \in T => n \in T
  <2> SUFFICES ASSUME NEW n \in 1 .. N, n - 1 \in T PROVE n \in T
    OBVIOUS
  <2>1. PICK f : Solves(f, n - 1, V, b, step)
    OBVIOUS
  <2>2. /\ f \in [0 .. n - 1 -> V] /\ f[0] = b
        /\ \A i \in 1 .. n - 1 : f[i] = step[i][f[i - 1]]
    BY <2>1 DEF Solves
  <2> DEFINE g == [i \in 0 .. n |-> IF i = n THEN step[n][f[n - 1]] ELSE f[i]]
  <2>3. g \in [0 .. n -> V]
    <3>1. step[n][f[n - 1]] \in V
      BY <2>2 DEF StaysIn
    <3> QED BY <2>2, <3>1
  <2>4. g[0] = b
    BY <2>2
  <2>5. ASSUME NEW i \in 1 .. n PROVE g[i] = step[i][g[i - 1]]
    <3>1. g[i - 1] = f[i - 1]
      OBVIOUS
    <3>2. CASE i = n
      BY <3>1, <3>2
    <3>3. CASE i # n
      <4>1. i \in 1 .. n - 1 /\ g[i] = f[i]
        BY <3>3
      <4> QED BY <2>2, <3>1, <4>1
    <3> QED BY <3>2, <3>3
  <2>6. Solves(g, n, V, b, step)
    <3> HIDE DEF g
    <3> QED BY <2>3, <2>4, <2>5 DEF Solves
  <2> HIDE DEF g
  <2> QED BY <2>6
<1> HIDE DEF T
<1>3. 0 .. N \subseteq T
  BY <1>1, <1>2, SetInduction
<1> QED BY <1>3 DEF T

-----------------------------------------------------------------------------
(* Rankings *)

(* A strict order in which any two elements are comparable. *)
Orders(R, S) ==
    /\ \A a \in S : <<a, a>> \notin R
    /\ \A a, b \in S : a # b => <<a, b>> \in R \/ <<b, a>> \in R
    /\ \A a, b, c \in S : <<a, b>> \in R /\ <<b, c>> \in R => <<a, c>> \in R

(* Ranked lists every element of its set once, in its order.               *)
LEMMA RankedFacts ==
    ASSUME NEW S, IsFiniteSet(S), NEW R, Orders(R, S)
    PROVE  /\ Cardinality(S) \in Nat
           /\ Ranked(S, R) \in [1 .. Cardinality(S) -> S]
           /\ \A d \in S : \E i \in 1 .. Cardinality(S) : Ranked(S, R)[i] = d
           /\ \A i, j \in 1 .. Cardinality(S) : 
                 /\ Ranked(S, R)[i] = Ranked(S, R)[j] => i = j
                 /\ <<Ranked(S, R)[i], Ranked(S, R)[j]>> \in R <=> i < j
<1> DEFINE n == Cardinality(S)
           Before(d) == {e \in S : <<e, d>> \in R}
           place == [d \in S |-> Cardinality(Before(d))]
<1>0. n \in Nat
  BY FS_CardinalityType
<1>1. ASSUME NEW d \in S
      PROVE  IsFiniteSet(Before(d)) /\ place[d] \in 0 .. n - 1
  <2>1. Before(d) \in SUBSET S /\ Before(d) # S
    BY DEF Orders
  <2>2. /\ IsFiniteSet(Before(d)) /\ Cardinality(Before(d)) <= n
        /\ Cardinality(Before(d)) # n
    <3> HIDE DEF Before
    <3> QED BY <2>1, FS_Subset
  <2>3. Cardinality(Before(d)) \in Nat
    BY <2>2, FS_CardinalityType
  <2> QED BY <1>0, <2>2, <2>3
<1>2. ASSUME NEW a \in S, NEW b \in S, <<a, b>> \in R
      PROVE  place[a] < place[b]
  <2>1. Before(a) \in SUBSET Before(b) /\ Before(a) # Before(b)
    BY <1>2 DEF Orders
  <2>2. /\ Cardinality(Before(a)) <= Cardinality(Before(b))
        /\ Cardinality(Before(a)) # Cardinality(Before(b))
    <3> HIDE DEF Before
    <3> QED BY <1>1, <2>1, FS_Subset
  <2>3. /\ place[a] = Cardinality(Before(a)) /\ place[b] = Cardinality(Before(b))
        /\ place[a] \in Int /\ place[b] \in Int
    <3>1. place[a] \in 0 .. n - 1 /\ place[b] \in 0 .. n - 1
      BY <1>1
    <3>2. place[a] \in Int /\ place[b] \in Int
      <4> HIDE DEF place, n
      <4> QED BY <1>0, <3>1
    <3> QED BY <3>2
  <2> HIDE DEF place, Before
  <2> QED BY <2>2, <2>3
<1>3. \A a, b \in S : a # b => place[a] # place[b]
  <2> SUFFICES ASSUME NEW a \in S, NEW b \in S, a # b PROVE place[a] # place[b]
    OBVIOUS
  <2>1. <<a, b>> \in R \/ <<b, a>> \in R
    BY DEF Orders
  <2>2. place[a] \in Int /\ place[b] \in Int
    BY <1>1, <1>0
  <2>3. place[a] < place[b] \/ place[b] < place[a]
    BY <1>2, <2>1
  <2> HIDE DEF place
  <2> QED BY <2>2, <2>3
<1>4. \A k \in 0 .. n - 1 : \E d \in S : place[d] = k
  <2>1. place \in Injection(S, 0 .. n - 1)
    <3>1. place \in [S -> 0 .. n - 1]
      BY <1>1
    <3> HIDE DEF place
    <3> QED BY <1>3, <3>1 DEF Injection, IsInjective
  <2>2. IsFiniteSet(0 .. n - 1) /\ Cardinality(0 .. n - 1) = n
    BY <1>0, FS_Interval
  <2>3. place \in Surjection(S, 0 .. n - 1)
    <3> HIDE DEF place
    <3> QED BY <2>1, <2>2, FS_Injection
  <2> HIDE DEF place
  <2> QED BY <2>3 DEF Surjection
<1> DEFINE r == Ranked(S, R)
<1>5. ASSUME NEW i \in 1 .. n PROVE r[i] \in S /\ place[r[i]] = i - 1
  <2>1. \E d \in S : Cardinality(Before(d)) = i - 1
    <3>1. i - 1 \in 0 .. n - 1
      BY <1>0
    <3> HIDE DEF Before, n
    <3> QED BY <1>4, <3>1
  <2>2. r[i] = CHOOSE d \in S : Cardinality(Before(d)) = i - 1
    BY DEF Ranked
  <2>3. r[i] \in S /\ Cardinality(Before(r[i])) = i - 1
    <3> HIDE DEF r, Before
    <3> QED BY <2>1, <2>2
  <2> HIDE DEF r, Before
  <2> QED BY <2>3
<1>6. r \in [1 .. n -> S]
  <2> DEFINE element(i) == CHOOSE d \in S : Cardinality(Before(d)) = i - 1
  <2>1. r = [i \in 1 .. n |-> element(i)]
    BY DEF Ranked
  <2>2. \A i \in 1 .. n : r[i] \in S
    BY <1>5
  <2> HIDE DEF r, element, n
  <2> QED BY <2>1, <2>2
<1>7. ASSUME NEW d \in S PROVE \E i \in 1 .. n : r[i] = d
  <2>1. place[d] + 1 \in 1 .. n /\ (place[d] + 1) - 1 = place[d]
    <3>1. place[d] \in 0 .. n - 1
      BY <1>1
    <3> HIDE DEF place, n
    <3> QED BY <1>0, <3>1
  <2>2. /\ r[place[d] + 1] \in S
        /\ place[r[place[d] + 1]] = place[d]
    <3> HIDE DEF place, r
    <3> QED BY <1>5, <2>1
  <2>3. r[place[d] + 1] = d
    <3> HIDE DEF place, r
    <3> QED BY <1>3, <2>2
  <2> HIDE DEF place, r
  <2> QED BY <2>1, <2>3
<1>8. ASSUME NEW i \in 1 .. n, NEW j \in 1 .. n
      PROVE  /\ r[i] = r[j] => i = j
             /\ <<r[i], r[j]>> \in R <=> i < j
  <2>1. r[i] \in S /\ r[j] \in S /\ place[r[i]] = i - 1 /\ place[r[j]] = j - 1
    BY <1>5
  <2>2. i \in Int /\ j \in Int
    BY <1>0
  <2>3. <<r[i], r[j]>> \in R => place[r[i]] < place[r[j]]
    BY <1>2, <2>1
  <2>4. r[i] # r[j] /\ <<r[i], r[j]>> \notin R => place[r[j]] < place[r[i]]
    BY <1>2, <2>1 DEF Orders
  <2> HIDE DEF place, r
  <2> QED BY <2>1, <2>2, <2>3, <2>4
<1> HIDE DEF r
<1> QED BY <1>0, <1>6, <1>7, <1>8 DEF r

(* Chosen keeps the elements at the positions it is given, in their order. *)
LEMMA ChosenFacts ==
    ASSUME NEW S, NEW s \in Seq(S), NEW I \in SUBSET (1 .. Len(s))
    PROVE  /\ Chosen(s, I) \in Seq(S)
           /\ Len(Chosen(s, I)) <= Len(s)
           /\ I # {} => Chosen(s, I) # <<>>
           /\ I = {} => Chosen(s, I) = <<>>
           /\ \E at \in [1 .. Len(Chosen(s, I)) -> I] :
                 /\ \A k \in 1 .. Len(Chosen(s, I)) : Chosen(s, I)[k] = s[at[k]]
                 /\ \A i \in I : \E k \in 1 .. Len(Chosen(s, I)) : at[k] = i
                 /\ \A j, k \in 1 .. Len(Chosen(s, I)) : j < k <=> at[j] < at[k]
<1> DEFINE R == {p \in I \X I : p[1] < p[2]}
           at == Ranked(I, R)
           n == Cardinality(I)
           c == Chosen(s, I)
<1>1. Len(s) \in Nat /\ s \in [1 .. Len(s) -> S]
  OBVIOUS
<1>2. IsFiniteSet(I) /\ n \in Nat /\ n <= Len(s)
  <2>1. IsFiniteSet(1 .. Len(s)) /\ Cardinality(1 .. Len(s)) = Len(s)
    <3> DEFINE m == Len(s)
    <3>1. m \in Nat
      BY <1>1
    <3> HIDE DEF m
    <3>2. IsFiniteSet(1 .. m) /\ Cardinality(1 .. m) = m
      BY <3>1, FS_Interval
    <3> QED BY <3>2 DEF m
  <2> QED BY <2>1, FS_Subset, FS_CardinalityType
<1>3. Orders(R, I)
  <2>1. I \subseteq Int
    BY <1>1
  <2>2. \A a, b \in I : <<a, b>> \in R <=> a < b
    OBVIOUS
  <2> HIDE DEF R
  <2> QED BY <2>1, <2>2 DEF Orders
<1>4. /\ at \in [1 .. n -> I]
      /\ \A i \in I : \E k \in 1 .. n : at[k] = i
      /\ \A j, k \in 1 .. n : <<at[j], at[k]>> \in R <=> j < k
  <2> HIDE DEF R
  <2> QED BY <1>2, <1>3, RankedFacts
<1>5. c = [k \in 1 .. n |-> s[at[k]]]
  <2>1. DOMAIN at = 1 .. n
    BY <1>4
  <2> QED BY <2>1 DEF Chosen
<1>6. c \in Seq(S) /\ Len(c) = n
  <2>1. \A k \in 1 .. n : s[at[k]] \in S
    BY <1>1, <1>4
  <2> HIDE DEF at, c, n
  <2> QED BY <1>2, <1>5, <2>1
<1>7. \A j, k \in 1 .. n : j < k <=> at[j] < at[k]
  <2>1. \A j, k \in 1 .. n : at[j] \in I /\ at[k] \in I
    BY <1>4
  <2>2. \A j, k \in 1 .. n : <<at[j], at[k]>> \in R <=> at[j] < at[k]
    <3> HIDE DEF at
    <3> QED BY <2>1
  <2> HIDE DEF at, R
  <2> QED BY <1>4, <2>2
<1>8. (n = 0 <=> I = {})
  BY <1>2, FS_EmptySet
<1>9. \A k \in 1 .. n : c[k] = s[at[k]]
  BY <1>5
<1>10. Len(c) <= Len(s) /\ (I # {} => c # <<>>) /\ (I = {} => c = <<>>)
  <2> HIDE DEF c, n
  <2>1. c = <<>> <=> Len(c) = 0
    BY <1>6, EmptySeq
  <2> QED BY <1>2, <1>6, <1>8, <2>1
<1>11. \E f \in [1 .. Len(c) -> I] :
         /\ \A k \in 1 .. Len(c) : c[k] = s[f[k]]
         /\ \A i \in I : \E k \in 1 .. Len(c) : f[k] = i
         /\ \A j, k \in 1 .. Len(c) : j < k <=> f[j] < f[k]
  <2> HIDE DEF c, at, n
  <2> QED BY <1>4, <1>6, <1>7, <1>9
<1> QED BY <1>6, <1>10, <1>11

-----------------------------------------------------------------------------
(* Scores, lengths and pages *)

Inputs ==
    /\ settings \in Settings
    /\ query \in Queries
    /\ embedding \in [Documents -> Embeddings]
    /\ content \in [Documents -> Contents]

LEMMA Extremes ==
    \A a, b \in Int : /\ Max({a, b}) = IF a >= b THEN a ELSE b
                      /\ Min({a, b}) = IF a <= b THEN a ELSE b
<1> SUFFICES ASSUME NEW a \in Int, NEW b \in Int
             PROVE  /\ Max({a, b}) = IF a >= b THEN a ELSE b
                    /\ Min({a, b}) = IF a <= b THEN a ELSE b
  OBVIOUS
<1> DEFINE m == IF a >= b THEN a ELSE b
           l == IF a <= b THEN a ELSE b
<1>1. /\ m \in {a, b} /\ \A y \in {a, b} : m >= y
      /\ \A x \in {a, b} : (\A y \in {a, b} : x >= y) => x = m
  OBVIOUS
<1>2. /\ l \in {a, b} /\ \A y \in {a, b} : l <= y
      /\ \A x \in {a, b} : (\A y \in {a, b} : x <= y) => x = l
  OBVIOUS
<1> HIDE DEF m, l
<1>3. Max({a, b}) = m
  BY <1>1 DEF Max
<1>4. Min({a, b}) = l
  BY <1>2 DEF Min
<1> QED BY <1>3, <1>4 DEF m, l

LEMMA LengthFacts == \A n \in Nat : Length(n) \in Nat \ {0}
BY Extremes DEF Length

(* A page is the beginning of the ranking. *)
LEMMA PageFacts ==
    ASSUME NEW S, NEW hs \in Seq(S), NEW n \in Nat
    PROVE  /\ Page(hs, n) \in Seq(S)
           /\ Len(Page(hs, n)) = IF n <= Len(hs) THEN n ELSE Len(hs)
           /\ \A i \in 1 .. Len(Page(hs, n)) : Page(hs, n)[i] = hs[i]
<1> DEFINE m == IF n <= Len(hs) THEN n ELSE Len(hs)
<1>1. /\ Len(hs) \in Nat /\ m \in Nat /\ m <= Len(hs)
      /\ \A i \in 1 .. Len(hs) : hs[i] \in S
  OBVIOUS
<1>2. Page(hs, n) = SubSeq(hs, 1, m)
  <2> DEFINE l == Len(hs)
  <2>1. l \in Int /\ n \in Int
    BY <1>1
  <2> HIDE DEF l
  <2>2. Min({n, l}) = IF n <= l THEN n ELSE l
    BY <2>1, Extremes
  <2> QED BY <2>2 DEF Page, l
<1>3. \A i \in 1 .. m : hs[i] \in S
  BY <1>1
<1> HIDE DEF m
<1>4. /\ SubSeq(hs, 1, m) \in Seq(S)
      /\ Len(SubSeq(hs, 1, m)) = m
      /\ \A i \in 1 .. m : SubSeq(hs, 1, m)[i] = hs[i]
  BY <1>1, <1>3, SubSeqProperties
<1> QED BY <1>2, <1>4 DEF m

LEMMA Naturals == \A a, b \in Nat : a * b \in Nat /\ a + b \in Nat
OBVIOUS

LEMMA UnitFacts == Unit \in Nat
BY RetrievalAssumption, Naturals DEF Unit

(* What the settings and the query are. *)
LEMMA SettingsFacts ==
    ASSUME Inputs
    PROVE  /\ {settings.top_k, settings.multiplier, settings.max_characters, settings.rrf_k}
                 \subseteq Nat \ {0}
           /\ settings.fetch_k \in Nat
           /\ settings.default_search_type \in SearchTypes
           /\ {settings.score_threshold, settings.min_relevance} \subseteq Nat
           /\ settings.dense_weight \in 0 .. 2
           /\ {settings.compression_enabled, settings.sentence_level, settings.sparse}
                 \subseteq BOOLEAN
           /\ query.search_type \in SearchTypes \cup {None}
           /\ query.compress \in BOOLEAN \cup {None}
           /\ page \in Nat \ {0}
<1>1. /\ settings.score_threshold \in 0 .. Unit /\ settings.min_relevance \in 0 .. Unit
  BY RetrievalAssumption DEF Inputs
<1>2. {settings.score_threshold, settings.min_relevance} \subseteq Nat
  BY <1>1, UnitFacts
<1>3. page \in Nat \ {0}
  BY RetrievalAssumption DEF Inputs, page, Or
<1> QED BY RetrievalAssumption, <1>2, <1>3 DEF Inputs

LEMMA DocumentsFacts == IsFiniteSet(Documents) /\ Cardinality(Documents) \in Nat
BY RetrievalAssumption, FS_CardinalityType

(* The scores of fusion are fractions with a natural denominator. *)
LEMMA ProductFacts ==
    ASSUME Inputs
    PROVE  RankProduct \in Nat
<1> DEFINE N == Cardinality(Documents)
           k == settings.rrf_k
           step == [n \in 1 .. N |-> [v \in Nat |-> v * (k + n)]]
           Product == CHOOSE f : f = [n \in 0 .. N |-> IF n = 0 THEN 1 ELSE f[n - 1] * (k + n)]
<1>1. N \in Nat /\ k \in Nat
  BY DocumentsFacts, SettingsFacts
<1>2. StaysIn(step, N, Nat)
  BY <1>1, Naturals DEF StaysIn
<1>3. PICK f : Solves(f, N, Nat, 1, step)
  <2> HIDE DEF N, step
  <2> QED BY <1>1, <1>2, Recursion
<1>4. /\ f \in [0 .. N -> Nat] /\ f[0] = 1
      /\ \A n \in 1 .. N : f[n] = f[n - 1] * (k + n)
  <2>1. \A n \in 1 .. N : \A v \in Nat : step[n][v] = v * (k + n)
    OBVIOUS
  <2>2. f \in [0 .. N -> Nat] /\ f[0] = 1
    BY <1>3 DEF Solves
  <2>3. ASSUME NEW n \in 1 .. N PROVE f[n] = f[n - 1] * (k + n)
    <3> HIDE DEF N, step, k
    <3>1. f[n - 1] \in Nat
      BY <1>1, <2>2
    <3>2. f[n] = step[n][f[n - 1]]
      BY <1>3 DEF Solves
    <3> QED BY <2>1, <3>1, <3>2
  <2> QED BY <2>2, <2>3
<1>5. f = [n \in 0 .. N |-> IF n = 0 THEN 1 ELSE f[n - 1] * (k + n)]
  <2> HIDE DEF N, step, k
  <2> QED BY <1>1, <1>4
<1>6. Product = [n \in 0 .. N |-> IF n = 0 THEN 1 ELSE Product[n - 1] * (k + n)]
  <2> HIDE DEF N, k
  <2> QED BY <1>5, Zenon
<1>7. \A n \in 0 .. N : Product[n] \in Nat
  <2> DEFINE T == {n \in 0 .. N : Product[n] \in Nat}
  <2>1. 0 \in T
    <3> HIDE DEF Product, N, k
    <3> QED BY <1>1, <1>6
  <2>2. \A n \in 1 .. N : n - 1 \in T => n \in T
    <3> SUFFICES ASSUME NEW n \in 1 .. N, n - 1 \in T PROVE n \in T
      OBVIOUS
    <3> HIDE DEF Product, N, k
    <3>1. Product[n] = Product[n - 1] * (k + n)
      BY <1>1, <1>6
    <3>2. Product[n - 1] \in Nat /\ k + n \in Nat
      BY <1>1
    <3> QED BY <1>1, <3>1, <3>2, Naturals
  <2> HIDE DEF Product, N, T
  <2>3. 0 .. N \subseteq T
    BY <1>1, <2>1, <2>2, SetInduction
  <2> QED BY <2>3 DEF T
<1>8. RankProduct = Product[N]
  BY DEF RankProduct, Products, Inputs
<1> HIDE DEF Product, N
<1> QED BY <1>1, <1>7, <1>8

LEMMA FineFacts ==
    ASSUME Inputs
    PROVE  \A x \in Nat : Fine(x) \in Nat
BY ProductFacts, Naturals DEF Fine

LEMMA CosineFacts ==
    \A u, v \in Embeddings \cup {Target} : cosine_similarity(u, v) \in Int
<1>1. \A u \in Embeddings \cup {Target} : u[1] \in Int /\ u[2] \in Int
  BY RetrievalAssumption
<1>2. \A a, b, c, d \in Int : a * b + c * d \in Int
  OBVIOUS
<1> QED BY <1>1, <1>2 DEF cosine_similarity

LEMMA RelevanceFacts ==
    ASSUME Inputs
    PROVE  \A d \in Documents : Relevance(d) \in Int
BY CosineFacts DEF Inputs, Relevance

LEMMA ScoreFacts == \A x \in Int : distance_to_score(x) \in Nat
<1> SUFFICES ASSUME NEW x \in Int PROVE distance_to_score(x) \in Nat
  OBVIOUS
<1> DEFINE m == IF 0 >= Unit - x THEN 0 ELSE Unit - x
<1>1. Unit \in Int /\ Unit - x \in Int /\ m \in Nat
  BY UnitFacts
<1>2. Max({0, Unit - x}) = m
  BY <1>1, Extremes
<1>3. Min({Unit, m}) \in Nat
  <2> HIDE DEF m
  <2> QED BY <1>1, UnitFacts, Extremes
<1> QED BY <1>2, <1>3 DEF distance_to_score

(* A greater distance never scores more. *)
LEMMA ScoresFall ==
    \A x, y \in Int : x <= y => distance_to_score(x) >= distance_to_score(y)
<1> SUFFICES ASSUME NEW x \in Int, NEW y \in Int, x <= y
             PROVE  distance_to_score(x) >= distance_to_score(y)
  OBVIOUS
<1> DEFINE m(d) == IF 0 >= Unit - d THEN 0 ELSE Unit - d
           s(d) == IF Unit <= m(d) THEN Unit ELSE m(d)
<1>1. Unit \in Nat
  BY UnitFacts
<1>2. \A d \in Int : distance_to_score(d) = s(d)
  <2> SUFFICES ASSUME NEW d \in Int PROVE distance_to_score(d) = s(d)
    OBVIOUS
  <2>1. Unit - d \in Int /\ m(d) \in Int
    BY <1>1
  <2>2. Max({0, Unit - d}) = m(d)
    BY <2>1, Extremes
  <2>3. Min({Unit, m(d)}) = s(d)
    <3> HIDE DEF m
    <3> QED BY <1>1, <2>1, Extremes DEF s
  <2> QED BY <2>2, <2>3 DEF distance_to_score
<1>3. s(x) >= s(y)
  BY <1>1
<1> QED BY <1>2, <1>3

LEMMA FineGrows ==
    ASSUME Inputs
    PROVE  \A x, y \in Nat : x >= y => Fine(x) >= Fine(y)
<1>1. RankProduct \in Nat
  BY ProductFacts
<1>2. \A x, y, p \in Nat : x >= y => x * 2 * p >= y * 2 * p
  OBVIOUS
<1> QED BY <1>1, <1>2 DEF Fine

LEMMA HitFacts ==
    ASSUME Inputs, NEW d \in Documents, NEW score \in Nat
    PROVE  Hit(d, score) \in Hits /\ Hit(d, score).id = d /\ Hit(d, score).score = score
<1>1. Len(content[d]) \in Nat
  BY RetrievalAssumption DEF Inputs
<1>2. Length(Len(content[d])) \in Nat \ {0}
  BY <1>1, LengthFacts
<1> QED BY <1>2 DEF Hit, Hits

(* No document is in the ranking twice. *)
Unique(hs) == IsInjective(Ids(hs))

LEMMA UniqueFacts ==
    ASSUME NEW hs \in Seq(Hits)
    PROVE  /\ Unique(hs) <=> \A i, j \in 1 .. Len(hs) : hs[i].id = hs[j].id => i = j
           /\ Ids(hs) \in Seq(Documents)
           /\ Len(Ids(hs)) = Len(hs)
           /\ \A i \in 1 .. Len(hs) : Ids(hs)[i] = hs[i].id
<1>1. /\ Len(hs) \in Nat /\ DOMAIN hs = 1 .. Len(hs)
      /\ \A i \in 1 .. Len(hs) : hs[i] \in Hits
  OBVIOUS
<1>2. \A i \in 1 .. Len(hs) : hs[i].id \in Documents
  BY <1>1 DEF Hits
<1>3. Ids(hs) = [i \in 1 .. Len(hs) |-> hs[i].id]
  BY <1>1 DEF Ids
<1>4. Ids(hs) \in Seq(Documents) /\ Len(Ids(hs)) = Len(hs)
  BY <1>1, <1>2, <1>3
<1> QED BY <1>3, <1>4 DEF Unique, IsInjective

LEMMA UniqueChosen ==
    ASSUME NEW hs \in Seq(Hits), NEW I \in SUBSET (1 .. Len(hs)), Unique(hs)
    PROVE  Unique(Chosen(hs, I))
<1> DEFINE c == Chosen(hs, I)
<1>1. c \in Seq(Hits)
  BY ChosenFacts
<1>2. PICK at \in [1 .. Len(c) -> I] :
         /\ \A k \in 1 .. Len(c) : c[k] = hs[at[k]]
         /\ \A j, k \in 1 .. Len(c) : j < k <=> at[j] < at[k]
  <2> HIDE DEF c
  <2> QED BY ChosenFacts, SMTT(20) DEF c
<1> HIDE DEF c
<1>3. ASSUME NEW j \in 1 .. Len(c), NEW k \in 1 .. Len(c), c[j].id = c[k].id
      PROVE  j = k
  <2>1. at[j] \in 1 .. Len(hs) /\ at[k] \in 1 .. Len(hs)
    BY <1>2
  <2>2. at[j] = at[k]
    BY <1>2, <1>3, <2>1, UniqueFacts
  <2>3. Len(c) \in Nat /\ Len(hs) \in Nat
    BY <1>1
  <2> QED BY <1>2, <2>1, <2>2, <2>3
<1> QED BY <1>1, <1>3, UniqueFacts DEF c

LEMMA UniquePage ==
    ASSUME NEW hs \in Seq(Hits), NEW n \in Nat, Unique(hs)
    PROVE  Unique(Page(hs, n))
<1>1. Page(hs, n) \in Seq(Hits) /\ Len(Page(hs, n)) \in Nat /\ Len(hs) \in Nat
  BY PageFacts
<1>2. Len(Page(hs, n)) <= Len(hs)
  BY <1>1, PageFacts
<1>3. ASSUME NEW i \in 1 .. Len(Page(hs, n)), NEW j \in 1 .. Len(Page(hs, n)),
             Page(hs, n)[i].id = Page(hs, n)[j].id
      PROVE  i = j
  <2>1. i \in 1 .. Len(hs) /\ j \in 1 .. Len(hs)
    BY <1>1, <1>2
  <2> QED BY <1>3, <2>1, PageFacts, UniqueFacts
<1> QED BY <1>1, <1>3, UniqueFacts

(* The higher the score the better the rank. *)
Descending(hs) == \A i, j \in 1 .. Len(hs) : i < j => hs[i].score >= hs[j].score

LEMMA DescendingPage ==
    ASSUME NEW hs \in Seq(Hits), NEW n \in Nat, Descending(hs)
    PROVE  Descending(Page(hs, n))
<1>1. /\ Page(hs, n) \in Seq(Hits) /\ Len(hs) \in Nat
      /\ Len(Page(hs, n)) <= Len(hs)
      /\ \A i \in 1 .. Len(Page(hs, n)) : Page(hs, n)[i] = hs[i]
  BY PageFacts
<1>2. Len(Page(hs, n)) \in Nat
  BY <1>1
<1>3. 1 .. Len(Page(hs, n)) \subseteq 1 .. Len(hs)
  BY <1>1, <1>2
<1> QED BY <1>1, <1>3 DEF Descending

LEMMA DescendingChosen ==
    ASSUME NEW hs \in Seq(Hits), NEW I \in SUBSET (1 .. Len(hs)), Descending(hs)
    PROVE  Descending(Chosen(hs, I))
<1> DEFINE c == Chosen(hs, I)
<1>1. PICK at \in [1 .. Len(c) -> I] :
         /\ \A k \in 1 .. Len(c) : c[k] = hs[at[k]]
         /\ \A j, k \in 1 .. Len(c) : j < k <=> at[j] < at[k]
  <2> HIDE DEF c
  <2> QED BY ChosenFacts, SMTT(20) DEF c
<1> HIDE DEF c
<1>2. \A k \in 1 .. Len(c) : at[k] \in 1 .. Len(hs)
  BY <1>1
<1>3. Descending(c)
  BY <1>1, <1>2 DEF Descending
<1> QED BY <1>3 DEF c

-----------------------------------------------------------------------------
(* The store, and the positions that are kept *)

LEMMA NearerOrders ==
    ASSUME Inputs
    PROVE  Orders(Nearer, Documents)
<1>1. \A d \in Documents : Relevance(d) \in Int /\ d \in Int
  BY RelevanceFacts, RetrievalAssumption
<1>2. \A a, b \in Documents :
         <<a, b>> \in Nearer <=>
            \/ Relevance(a) > Relevance(b)
            \/ Relevance(a) = Relevance(b) /\ a < b
  BY DEF Nearer
<1> QED BY <1>1, <1>2 DEF Orders

LEMMA SearchFacts ==
    ASSUME Inputs, NEW n \in Nat
    PROVE  /\ search_by_vector(n) \in Seq(Hits)
           /\ Len(search_by_vector(n)) <= n
           /\ Unique(search_by_vector(n))
           /\ Descending(search_by_vector(n))
<1> DEFINE all == Ranked(Documents, Nearer)
           ranked == Page(all, n)
           m == Cardinality(Documents)
           found == search_by_vector(n)
<1>1. /\ m \in Nat /\ all \in [1 .. m -> Documents]
      /\ \A i, j \in 1 .. m : all[i] = all[j] => i = j
      /\ \A i, j \in 1 .. m : i < j => <<all[i], all[j]>> \in Nearer
  <2>1. Orders(Nearer, Documents) /\ IsFiniteSet(Documents)
    BY NearerOrders, DocumentsFacts
  <2>2. m \in Nat /\ all \in [1 .. m -> Documents]
    BY <2>1, RankedFacts
  <2>3. \A i, j \in 1 .. m : all[i] = all[j] => i = j
    BY <2>1, RankedFacts, ZenonT(30)
  <2>4. \A i, j \in 1 .. m : i < j => <<all[i], all[j]>> \in Nearer
    BY <2>1, RankedFacts
  <2> QED BY <2>2, <2>3, <2>4
<1>2. all \in Seq(Documents) /\ Len(all) = m
  <2> HIDE DEF all, m
  <2> QED BY <1>1
<1>3. /\ ranked \in Seq(Documents) /\ Len(ranked) <= n /\ Len(ranked) <= m
      /\ \A i \in 1 .. Len(ranked) : ranked[i] = all[i]
  <2> HIDE DEF all, m
  <2> QED BY <1>1, <1>2, PageFacts
<1>4. /\ Len(ranked) \in Nat /\ DOMAIN ranked = 1 .. Len(ranked)
      /\ \A i \in 1 .. Len(ranked) : ranked[i] \in Documents
  <2> HIDE DEF ranked
  <2> QED BY <1>3
<1> DEFINE score(i) == Fine(distance_to_score(Unit - Relevance(ranked[i])))
<1>5. \A i \in 1 .. Len(ranked) : score(i) \in Nat
  <2> SUFFICES ASSUME NEW i \in 1 .. Len(ranked) PROVE score(i) \in Nat
    OBVIOUS
  <2>1. Unit - Relevance(ranked[i]) \in Int
    <3> HIDE DEF ranked
    <3> QED BY <1>4, RelevanceFacts, UnitFacts
  <2> HIDE DEF ranked
  <2> QED BY <2>1, ScoreFacts, FineFacts
<1>6. found = [i \in 1 .. Len(ranked) |-> Hit(ranked[i], score(i))]
  BY <1>4 DEF search_by_vector
<1>7. \A i \in 1 .. Len(ranked) :
         /\ Hit(ranked[i], score(i)) \in Hits
         /\ Hit(ranked[i], score(i)).id = ranked[i]
         /\ Hit(ranked[i], score(i)).score = score(i)
  <2> HIDE DEF ranked, score
  <2> QED BY <1>4, <1>5, HitFacts
<1>8. /\ found \in Seq(Hits) /\ Len(found) = Len(ranked)
      /\ \A i \in 1 .. Len(ranked) : found[i].id = ranked[i] /\ found[i].score = score(i)
  <2> HIDE DEF ranked, score, found
  <2> QED BY <1>4, <1>6, <1>7
<1>9. \A i, j \in 1 .. Len(found) : found[i].id = found[j].id => i = j
  <2> HIDE DEF ranked, found, all, m
  <2> QED BY <1>1, <1>3, <1>4, <1>8
<1>10. Unique(found)
  <2> HIDE DEF found
  <2> QED BY <1>8, <1>9, UniqueFacts
<1>11. Descending(found)
  <2> SUFFICES ASSUME NEW i \in 1 .. Len(ranked), NEW j \in 1 .. Len(ranked), i < j
               PROVE  score(i) >= score(j)
    <3> HIDE DEF ranked, found, score
    <3> QED BY <1>8 DEF Descending
  <2>1. <<ranked[i], ranked[j]>> \in Nearer
    <3> HIDE DEF ranked, all, m
    <3> QED BY <1>1, <1>3, <1>4
  <2>2. ranked[i] \in Documents /\ ranked[j] \in Documents
    <3> HIDE DEF ranked
    <3> QED BY <1>4
  <2> HIDE DEF ranked
  <2> DEFINE a == Relevance(ranked[i])  b == Relevance(ranked[j])
  <2>3. a \in Int /\ b \in Int /\ Unit \in Int /\ a >= b
    BY <2>1, <2>2, RelevanceFacts, UnitFacts DEF Nearer
  <2>4. Unit - a \in Int /\ Unit - b \in Int /\ Unit - a <= Unit - b
    <3> HIDE DEF a, b
    <3> QED BY <2>3
  <2>5. distance_to_score(Unit - a) >= distance_to_score(Unit - b)
    <3> HIDE DEF a, b
    <3> QED BY <2>4, ScoresFall
  <2>6. distance_to_score(Unit - a) \in Nat /\ distance_to_score(Unit - b) \in Nat
    <3> HIDE DEF a, b
    <3> QED BY <2>4, ScoreFacts
  <2> QED BY <2>5, <2>6, FineGrows
<1> HIDE DEF found, ranked
<1> QED BY <1>3, <1>8, <1>10, <1>11 DEF found

(* What KeptOf computes: a hit is kept unless an earlier one that is kept  *)
(* is near to it.                                                          *)
LEMMA KeptFacts ==
    ASSUME NEW S, NEW hs \in Seq(S)
    PROVE  /\ KeptOf(hs)[0] = {}
           /\ \A n \in 0 .. Len(hs) : KeptOf(hs)[n] \in SUBSET (1 .. n)
           /\ \A n \in 1 .. Len(hs) :
                 KeptOf(hs)[n] = IF \E k \in KeptOf(hs)[n - 1] : Near(hs[n], hs[k])
                                 THEN KeptOf(hs)[n - 1] ELSE KeptOf(hs)[n - 1] \cup {n}
<1> DEFINE N == Len(hs)
           V == SUBSET (1 .. N)
           next(n, v) == IF \E k \in v : Near(hs[n], hs[k]) THEN v ELSE v \cup {n}
           step == [n \in 1 .. N |-> [v \in V |-> next(n, v)]]
           Kept == CHOOSE f : f = [n \in 0 .. N |->
                      IF n = 0 THEN {}
                      ELSE IF \E k \in f[n - 1] : Near(hs[n], hs[k]) THEN f[n - 1]
                      ELSE f[n - 1] \cup {n}]
<1>1. N \in Nat /\ {} \in V
  OBVIOUS
<1>2. \A n \in 1 .. N : \A v \in V : step[n][v] = next(n, v) /\ next(n, v) \in V
  <2> SUFFICES ASSUME NEW n \in 1 .. N, NEW v \in V
               PROVE  step[n][v] = next(n, v) /\ next(n, v) \in V
    OBVIOUS
  <2>1. next(n, v) \in V
    OBVIOUS
  <2>2. step[n][v] = next(n, v)
    <3> HIDE DEF next, V, N
    <3> QED OBVIOUS
  <2> QED BY <2>1, <2>2
<1>3. PICK f : Solves(f, N, V, {}, step)
  <2>1. StaysIn(step, N, V)
    <3> HIDE DEF step, V, N, next
    <3> QED BY <1>2 DEF StaysIn
  <2> HIDE DEF N, step, V
  <2> QED BY <1>1, <2>1, Recursion
<1>4. /\ f \in [0 .. N -> V] /\ f[0] = {}
      /\ \A n \in 1 .. N : f[n] = next(n, f[n - 1])
  <2> HIDE DEF N, step, V, next
  <2> QED BY <1>1, <1>2, <1>3 DEF Solves
<1>5. f = [n \in 0 .. N |-> IF n = 0 THEN {} ELSE next(n, f[n - 1])]
  <2> HIDE DEF N, step, V, next
  <2> QED BY <1>1, <1>4
<1>6. Kept = [n \in 0 .. N |->
                 IF n = 0 THEN {}
                 ELSE IF \E k \in Kept[n - 1] : Near(hs[n], hs[k]) THEN Kept[n - 1]
                 ELSE Kept[n - 1] \cup {n}]
  <2> HIDE DEF N
  <2> QED BY <1>5, Zenon
<1>7. /\ Kept[0] = {}
      /\ \A n \in 1 .. N :
            Kept[n] = IF \E k \in Kept[n - 1] : Near(hs[n], hs[k])
                      THEN Kept[n - 1] ELSE Kept[n - 1] \cup {n}
  <2> HIDE DEF Kept, N
  <2>1. 0 \in 0 .. N /\ \A n \in 1 .. N : n \in 0 .. N /\ n # 0
    BY <1>1
  <2>2. Kept[0] = {}
    BY <1>6, <2>1
  <2>3. ASSUME NEW n \in 1 .. N
        PROVE  Kept[n] = IF \E k \in Kept[n - 1] : Near(hs[n], hs[k])
                         THEN Kept[n - 1] ELSE Kept[n - 1] \cup {n}
    BY <1>6, <2>1, Zenon
  <2> QED BY <2>2, <2>3
<1>8. KeptOf(hs) = Kept
  BY DEF KeptOf
<1>9. \A n \in 0 .. N : Kept[n] \in SUBSET (1 .. n)
  <2> DEFINE T == {n \in 0 .. N : Kept[n] \in SUBSET (1 .. n)}
  <2> HIDE DEF Kept, N
  <2>1. 0 \in T
    BY <1>1, <1>7
  <2>2. ASSUME NEW n \in 1 .. N, n - 1 \in T PROVE n \in T
    <3>1. Kept[n] \subseteq Kept[n - 1] \cup {n}
      BY <1>7
    <3> QED BY <1>1, <2>2, <3>1
  <2> HIDE DEF T
  <2>3. 0 .. N \subseteq T
    BY <1>1, <2>1, <2>2, SetInduction
  <2> QED BY <2>3 DEF T
<1> HIDE DEF Kept
<1> QED BY <1>7, <1>8, <1>9

(* What Spent computes. *)
LEMMA SpentFacts ==
    ASSUME NEW hs \in Seq(Hits)
    PROVE  /\ Spent(hs)[0] = 0
           /\ \A n \in 0 .. Len(hs) : Spent(hs)[n] \in Nat
           /\ \A n \in 1 .. Len(hs) : Spent(hs)[n] = Spent(hs)[n - 1] + hs[n].length
<1> DEFINE N == Len(hs)
           step == [n \in 1 .. N |-> [v \in Nat |-> v + hs[n].length]]
           Sum == CHOOSE f : f = [n \in 0 .. N |-> IF n = 0 THEN 0 ELSE f[n - 1] + hs[n].length]
<1>1. N \in Nat /\ \A n \in 1 .. N : hs[n].length \in Nat
  <2>1. N \in Nat /\ \A n \in 1 .. N : hs[n] \in Hits
    OBVIOUS
  <2>2. \A h \in Hits : h.length \in Nat
    BY DEF Hits
  <2> QED BY <2>1, <2>2
<1>2. StaysIn(step, N, Nat) /\ \A n \in 1 .. N : \A v \in Nat : step[n][v] = v + hs[n].length
  BY <1>1 DEF StaysIn
<1>3. PICK f : Solves(f, N, Nat, 0, step)
  <2> HIDE DEF N, step
  <2> QED BY <1>1, <1>2, Recursion
<1>4. /\ f \in [0 .. N -> Nat] /\ f[0] = 0
      /\ \A n \in 1 .. N : f[n] = f[n - 1] + hs[n].length
  <2>2. f \in [0 .. N -> Nat] /\ f[0] = 0
    BY <1>3 DEF Solves
  <2>3. ASSUME NEW n \in 1 .. N PROVE f[n] = f[n - 1] + hs[n].length
    <3> HIDE DEF N, step
    <3>1. f[n - 1] \in Nat
      BY <1>1, <2>2
    <3>2. f[n] = step[n][f[n - 1]]
      BY <1>3 DEF Solves
    <3> QED BY <1>2, <3>1, <3>2
  <2> QED BY <2>2, <2>3
<1>5. f = [n \in 0 .. N |-> IF n = 0 THEN 0 ELSE f[n - 1] + hs[n].length]
  <2> HIDE DEF N, step
  <2> QED BY <1>1, <1>4
<1>6. Sum = [n \in 0 .. N |-> IF n = 0 THEN 0 ELSE Sum[n - 1] + hs[n].length]
  <2> HIDE DEF N
  <2> QED BY <1>5, Zenon
<1>7. /\ Sum[0] = 0
      /\ \A n \in 1 .. N : Sum[n] = Sum[n - 1] + hs[n].length
  <2> DEFINE body == [n \in 0 .. N |-> IF n = 0 THEN 0 ELSE Sum[n - 1] + hs[n].length]
  <2>1. 0 \in 0 .. N /\ \A n \in 1 .. N : n \in 0 .. N /\ n # 0
    BY <1>1
  <2> HIDE DEF Sum, N
  <2>2. body[0] = 0 /\ \A n \in 1 .. N : body[n] = Sum[n - 1] + hs[n].length
    BY <2>1, Zenon
  <2>3. Sum = body
    BY <1>6
  <2> HIDE DEF body
  <2> QED BY <2>2, <2>3, Zenon
<1>8. Spent(hs) = Sum
  BY DEF Spent
<1>9. \A n \in 0 .. N : Sum[n] \in Nat
  <2> DEFINE T == {n \in 0 .. N : Sum[n] \in Nat}
  <2> HIDE DEF Sum, N
  <2>1. 0 \in T
    BY <1>1, <1>7
  <2>2. ASSUME NEW n \in 1 .. N, n - 1 \in T PROVE n \in T
    BY <1>1, <1>7, <2>2
  <2> HIDE DEF T
  <2>3. 0 .. N \subseteq T
    BY <1>1, <2>1, <2>2, SetInduction
  <2> QED BY <2>3 DEF T
<1> HIDE DEF Sum
<1> QED BY <1>7, <1>8, <1>9

-----------------------------------------------------------------------------
(* The stages of compression *)

LEMMA AboveFacts ==
    ASSUME NEW hs \in Seq(Hits), NEW bar, Unique(hs)
    PROVE  LET c == Chosen(hs, Above(hs, bar))
           IN  /\ c \in Seq(Hits) /\ Unique(c) /\ Len(c) <= Len(hs)
               /\ (\E h \in ToSet(hs) : h.score >= Fine(bar)) => c # <<>>
<1> DEFINE I == Above(hs, bar)
<1>1. I \in SUBSET (1 .. Len(hs))
  BY DEF Above
<1>2. (\E h \in ToSet(hs) : h.score >= Fine(bar)) => I # {}
  BY DEF Above, ToSet
<1> HIDE DEF I
<1>3. /\ Chosen(hs, I) \in Seq(Hits) /\ Len(Chosen(hs, I)) <= Len(hs)
      /\ I # {} => Chosen(hs, I) # <<>>
  BY <1>1, ChosenFacts
<1>4. Unique(Chosen(hs, I))
  BY <1>1, UniqueChosen
<1> QED BY <1>2, <1>3, <1>4 DEF I

LEMMA NearFacts ==
    ASSUME Inputs
    PROVE  \A a, b \in Hits : Near(a, b) => Near(b, a)
<1> SUFFICES ASSUME NEW a \in Hits, NEW b \in Hits, Near(a, b) PROVE Near(b, a)
  OBVIOUS
<1> DEFINE u == embedding[a.id]  v == embedding[b.id]
<1>1. u \in Int \X Int /\ v \in Int \X Int
  BY RetrievalAssumption DEF Inputs, Hits
<1>2. u[1] \in Int /\ u[2] \in Int /\ v[1] \in Int /\ v[2] \in Int
  <2> HIDE DEF u, v
  <2> QED BY <1>1
<1>3. \A x, y \in Int : x * y = y * x
  OBVIOUS
<1>4. u[1] * v[1] + u[2] * v[2] = v[1] * u[1] + v[2] * u[2]
  <2> HIDE DEF u, v
  <2> QED BY <1>2, <1>3
<1> QED BY <1>4 DEF Near, cosine_similarity

(* Of the hits, the kept ones are not near each other, each other one is   *)
(* near one of better rank that is kept, and the first is kept.            *)
LEMMA KeptIsThinned ==
    ASSUME Inputs, NEW hs \in Seq(Hits)
    PROVE  LET K == KeptOf(hs)[Len(hs)]
           IN  /\ K \in SUBSET (1 .. Len(hs))
               /\ Len(hs) > 0 => 1 \in K
               /\ \A i, j \in K : i # j => ~ Near(hs[i], hs[j])
               /\ \A i \in (1 .. Len(hs)) \ K :
                     \E k \in K : k \in 1 .. i - 1 /\ Near(hs[i], hs[k])
<1> DEFINE N == Len(hs)
           Kept == KeptOf(hs)
           Good(n) == /\ n > 0 => 1 \in Kept[n]
                      /\ \A i, j \in Kept[n] : i # j => ~ Near(hs[i], hs[j])
                      /\ \A i \in (1 .. n) \ Kept[n] :
                            \E k \in Kept[n] : k \in 1 .. i - 1 /\ Near(hs[i], hs[k])
           T == {n \in 0 .. N : Good(n)}
<1>1. N \in Nat /\ \A n \in 1 .. N : hs[n] \in Hits
  OBVIOUS
<1>2. /\ Kept[0] = {}
      /\ \A n \in 0 .. N : Kept[n] \in SUBSET (1 .. n)
      /\ \A n \in 1 .. N : Kept[n] = IF \E k \in Kept[n - 1] : Near(hs[n], hs[k])
                                     THEN Kept[n - 1] ELSE Kept[n - 1] \cup {n}
  BY KeptFacts
<1> HIDE DEF Kept, N
<1>3. 0 \in T
  BY <1>1, <1>2
<1>4. ASSUME NEW n \in 1 .. N, n - 1 \in T PROVE n \in T
  <2>0. n - 1 \in 0 .. N /\ Good(n - 1) /\ Kept[n - 1] \in SUBSET (1 .. n - 1)
    BY <1>1, <1>2, <1>4
  <2>1. CASE \E k \in Kept[n - 1] : Near(hs[n], hs[k])
    <3>1. Kept[n] = Kept[n - 1]
      BY <1>2, <2>1
    <3>2. PICK k \in Kept[n - 1] : Near(hs[n], hs[k])
      BY <2>1
    <3>3. k \in 1 .. n - 1
      BY <2>0
    <3>4. \A i \in (1 .. n) \ Kept[n] : \E l \in Kept[n] : l \in 1 .. i - 1 /\ Near(hs[i], hs[l])
      <4> SUFFICES ASSUME NEW i \in (1 .. n) \ Kept[n]
                   PROVE  \E l \in Kept[n] : l \in 1 .. i - 1 /\ Near(hs[i], hs[l])
        OBVIOUS
      <4>1. CASE i = n
        BY <3>1, <3>2, <3>3, <4>1
      <4>2. CASE i # n
        <5>1. i \in (1 .. n - 1) \ Kept[n - 1]
          BY <1>1, <3>1, <4>2
        <5> QED BY <2>0, <3>1, <5>1
      <4> QED BY <4>1, <4>2
    <3>5. n > 0 => 1 \in Kept[n]
      BY <1>1, <2>0, <3>1, <3>3
    <3> QED BY <1>1, <2>0, <3>1, <3>4, <3>5
  <2>2. CASE ~ \E k \in Kept[n - 1] : Near(hs[n], hs[k])
    <3>1. Kept[n] = Kept[n - 1] \cup {n}
      BY <1>2, <2>2
    <3>2. \A i, j \in Kept[n] : i # j => ~ Near(hs[i], hs[j])
      <4> SUFFICES ASSUME NEW i \in Kept[n], NEW j \in Kept[n], i # j
                   PROVE  ~ Near(hs[i], hs[j])
        OBVIOUS
      <4>1. i \in 1 .. N /\ j \in 1 .. N
        BY <1>1, <1>2
      <4>2. CASE i \in Kept[n - 1] /\ j \in Kept[n - 1]
        BY <2>0, <4>2
      <4>3. CASE i = n
        BY <2>2, <3>1, <4>3
      <4>4. CASE j = n
        <5>1. ~ Near(hs[j], hs[i])
          BY <2>2, <3>1, <4>4
        <5> QED BY <1>1, <4>1, <5>1, NearFacts
      <4> QED BY <3>1, <4>2, <4>3, <4>4
    <3>3. ASSUME NEW i \in (1 .. n) \ Kept[n]
          PROVE  \E k \in Kept[n] : k \in 1 .. i - 1 /\ Near(hs[i], hs[k])
      <4>1. i \in (1 .. n - 1) \ Kept[n - 1]
        BY <1>1, <3>1
      <4> QED BY <2>0, <3>1, <4>1
    <3>4. 1 \in Kept[n]
      <4>1. CASE n = 1
        BY <3>1, <4>1
      <4>2. CASE n # 1
        <5>1. n - 1 > 0
          BY <1>1, <4>2
        <5> QED BY <2>0, <3>1, <5>1
      <4> QED BY <4>1, <4>2
    <3> QED BY <1>1, <3>2, <3>3, <3>4
  <2> QED BY <2>1, <2>2
<1>5. N \in T
  <2> HIDE DEF T
  <2>1. 0 .. N \subseteq T
    BY <1>1, <1>3, <1>4, SetInduction
  <2> QED BY <1>1, <2>1
<1>6. Good(N) /\ Kept[N] \in SUBSET (1 .. N)
  BY <1>1, <1>2, <1>5
<1> QED BY <1>6 DEF Kept, N

(* What RedundantCopiesAreDropped says of one pass. *)
Stays(h, after) == h.id \in ToSet(Ids(after))

Thinned(before, after) ==
    \A i, j \in DOMAIN before :
       /\ Stays(before[i], after) /\ Stays(before[j], after) /\ i # j =>
             ~ Near(before[i], before[j])
       /\ i = j /\ ~ Stays(before[i], after) =>
             \E k \in 1 .. i - 1 : Stays(before[k], after) /\ Near(before[i], before[k])

LEMMA RedundancyFacts ==
    ASSUME Inputs, NEW hs \in Seq(Hits), Unique(hs)
    PROVE  LET c == RedundancyCompressor(hs)
           IN  /\ c \in Seq(Hits) /\ Unique(c) /\ Len(c) <= Len(hs)
               /\ hs # <<>> => c # <<>>
               /\ Thinned(hs, c)
<1> DEFINE K == KeptOf(hs)[Len(hs)]
           c == Chosen(hs, K)
<1>0. Len(hs) \in Nat /\ DOMAIN hs = 1 .. Len(hs) /\ (hs # <<>> => Len(hs) > 0)
  BY EmptySeq
<1>1. /\ K \in SUBSET (1 .. Len(hs))
      /\ Len(hs) > 0 => 1 \in K
      /\ \A i, j \in K : i # j => ~ Near(hs[i], hs[j])
      /\ \A i \in (1 .. Len(hs)) \ K : \E k \in K : k \in 1 .. i - 1 /\ Near(hs[i], hs[k])
  BY KeptIsThinned
<1> HIDE DEF K
<1>2. /\ c \in Seq(Hits) /\ Len(c) <= Len(hs)
      /\ K # {} => c # <<>>
  BY <1>1, ChosenFacts
<1>3. Unique(c)
  BY <1>1, UniqueChosen
<1>4. PICK at \in [1 .. Len(c) -> K] :
         /\ \A k \in 1 .. Len(c) : c[k] = hs[at[k]]
         /\ \A i \in K : \E k \in 1 .. Len(c) : at[k] = i
  <2> HIDE DEF c
  <2> QED BY <1>1, ChosenFacts, SMTT(20) DEF c
<1> HIDE DEF c
<1>5. \A i \in 1 .. Len(hs) : Stays(hs[i], c) <=> i \in K
  <2>1. ToSet(Ids(c)) = {c[k].id : k \in 1 .. Len(c)}
    <3>1. DOMAIN Ids(c) = 1 .. Len(c) /\ \A k \in 1 .. Len(c) : Ids(c)[k] = c[k].id
      BY <1>2 DEF Ids
    <3> QED BY <3>1 DEF ToSet
  <2> SUFFICES ASSUME NEW i \in 1 .. Len(hs) PROVE Stays(hs[i], c) <=> i \in K
    OBVIOUS
  <2>2. ASSUME i \in K PROVE Stays(hs[i], c)
    BY <1>4, <2>1, <2>2 DEF Stays
  <2>3. ASSUME Stays(hs[i], c) PROVE i \in K
    <3>1. PICK k \in 1 .. Len(c) : hs[i].id = c[k].id
      BY <2>1, <2>3 DEF Stays
    <3>2. at[k] \in K /\ hs[i].id = hs[at[k]].id
      BY <1>4, <3>1
    <3>3. i = at[k]
      BY <1>1, <3>2, UniqueFacts
    <3> QED BY <3>2, <3>3
  <2> QED BY <2>2, <2>3
<1>6. Thinned(hs, c)
  <2>1. ASSUME NEW i \in 1 .. Len(hs), NEW j \in 1 .. Len(hs),
               Stays(hs[i], c), Stays(hs[j], c), i # j
        PROVE  ~ Near(hs[i], hs[j])
    BY <1>1, <1>5, <2>1
  <2>2. ASSUME NEW i \in 1 .. Len(hs), ~ Stays(hs[i], c)
        PROVE  \E k \in 1 .. i - 1 : Stays(hs[k], c) /\ Near(hs[i], hs[k])
    <3>1. PICK k \in K : k \in 1 .. i - 1 /\ Near(hs[i], hs[k])
      BY <1>1, <1>5, <2>2
    <3> QED BY <1>1, <1>5, <3>1
  <2> QED BY <1>0, <2>1, <2>2 DEF Thinned
<1> QED BY <1>0, <1>1, <1>2, <1>3, <1>6 DEF c, K, RedundancyCompressor

(* In descending order, the copy that is kept scores no less. *)
LEMMA BestIsKept ==
    ASSUME Inputs, NEW hs \in Seq(Hits), Descending(hs)
    PROVE  \A h \in ToSet(hs) \ ToSet(RedundancyCompressor(hs)) :
              \E k \in ToSet(RedundancyCompressor(hs)) : Near(h, k) /\ k.score >= h.score
<1> DEFINE K == KeptOf(hs)[Len(hs)]
           c == Chosen(hs, K)
<1>1. /\ K \in SUBSET (1 .. Len(hs))
      /\ \A i \in (1 .. Len(hs)) \ K : \E k \in K : k \in 1 .. i - 1 /\ Near(hs[i], hs[k])
  BY KeptIsThinned
<1> HIDE DEF K
<1>2. /\ c \in Seq(Hits)
      /\ \A i \in K : \E k \in 1 .. Len(c) : c[k] = hs[i]
  <2>1. PICK at \in [1 .. Len(c) -> K] :
           /\ \A k \in 1 .. Len(c) : c[k] = hs[at[k]]
           /\ \A i \in K : \E k \in 1 .. Len(c) : at[k] = i
    <3> HIDE DEF c
    <3> QED BY <1>1, ChosenFacts, SMTT(20) DEF c
  <2>2. c \in Seq(Hits)
    BY <1>1, ChosenFacts
  <2> HIDE DEF c
  <2> QED BY <2>1, <2>2
<1> HIDE DEF c
<1>3. \A i \in K : hs[i] \in ToSet(c)
  <2>1. DOMAIN c = 1 .. Len(c)
    BY <1>2
  <2> QED BY <1>2, <2>1 DEF ToSet
<1>4. ASSUME NEW h \in ToSet(hs) \ ToSet(c)
      PROVE  \E k \in ToSet(c) : Near(h, k) /\ k.score >= h.score
  <2>1. PICK i \in 1 .. Len(hs) : h = hs[i]
    <3>1. DOMAIN hs = 1 .. Len(hs)
      OBVIOUS
    <3> QED BY <1>4, <3>1 DEF ToSet
  <2>2. i \notin K
    BY <1>3, <1>4, <2>1
  <2>3. PICK k \in K : k \in 1 .. i - 1 /\ Near(hs[i], hs[k])
    BY <1>1, <2>2
  <2>4. k < i /\ k \in 1 .. Len(hs)
    BY <1>1, <2>3
  <2>5. hs[k].score >= hs[i].score
    BY <2>4 DEF Descending
  <2> QED BY <1>3, <2>1, <2>3, <2>5
<1> QED BY <1>4 DEF c, K, RedundancyCompressor

LEMMA SentenceFacts ==
    ASSUME Inputs, NEW hs \in Seq(Hits), Unique(hs)
    PROVE  LET c == SentenceCompressor(hs)
           IN  /\ c \in Seq(Hits) /\ Unique(c) /\ Len(c) = Len(hs)
<1> DEFINE Relevant(sentences) ==
               {n \in DOMAIN sentences : sentences[n] >= settings.min_relevance}
           length(i) == Length(Cardinality(Relevant(content[hs[i].id])))
           c == [i \in DOMAIN hs |-> [hs[i] EXCEPT !.length = length(i)]]
<1>1. Len(hs) \in Nat /\ DOMAIN hs = 1 .. Len(hs) /\ \A i \in 1 .. Len(hs) : hs[i] \in Hits
  OBVIOUS
<1>2. ASSUME NEW i \in 1 .. Len(hs) PROVE length(i) \in Nat \ {0}
  <2>1. content[hs[i].id] \in Seq(-Unit .. Unit)
    BY <1>1, RetrievalAssumption DEF Inputs, Hits
  <2> DEFINE m == Len(content[hs[i].id])
  <2>2. m \in Nat /\ DOMAIN content[hs[i].id] = 1 .. m
    BY <2>1
  <2>3. IsFiniteSet(1 .. m)
    <3> HIDE DEF m
    <3> QED BY <2>2, FS_Interval
  <2>4. Relevant(content[hs[i].id]) \in SUBSET (1 .. m)
    BY <2>2
  <2>5. Cardinality(Relevant(content[hs[i].id])) \in Nat
    <3> HIDE DEF Relevant, m
    <3> QED BY <2>3, <2>4, FS_Subset, FS_CardinalityType
  <2> QED BY <2>5, LengthFacts
<1>3. ASSUME NEW i \in 1 .. Len(hs)
      PROVE  c[i] \in Hits /\ c[i].id = hs[i].id
  <2>1. c[i] = [hs[i] EXCEPT !.length = length(i)]
    BY <1>1
  <2>2. hs[i] \in Hits /\ length(i) \in Nat \ {0}
    BY <1>1, <1>2
  <2> HIDE DEF c, length
  <2> QED BY <2>1, <2>2 DEF Hits
<1>4. c \in Seq(Hits) /\ Len(c) = Len(hs)
  <2>1. c = [i \in 1 .. Len(hs) |-> c[i]]
    BY <1>1
  <2> HIDE DEF c
  <2> QED BY <1>1, <1>3, <2>1
<1>5. Unique(c)
  <2>1. \A i, j \in 1 .. Len(c) : c[i].id = c[j].id => i = j
    <3> HIDE DEF c
    <3> QED BY <1>3, <1>4, UniqueFacts
  <2> HIDE DEF c
  <2> QED BY <1>4, <2>1, UniqueFacts
<1>6. SentenceCompressor(hs) = c
  BY DEF SentenceCompressor
<1> HIDE DEF c
<1> QED BY <1>4, <1>5, <1>6

LEMMA SpentGrows ==
    ASSUME NEW hs \in Seq(Hits)
    PROVE  \A n \in 0 .. Len(hs) : \A i \in 0 .. n : Spent(hs)[i] <= Spent(hs)[n]
<1> DEFINE N == Len(hs)
           sum == Spent(hs)
           T == {n \in 0 .. N : \A i \in 0 .. n : sum[i] <= sum[n]}
<1>1. /\ N \in Nat
      /\ \A n \in 0 .. N : sum[n] \in Nat
      /\ \A n \in 1 .. N : sum[n - 1] <= sum[n]
  <2>1. \A n \in 1 .. N : hs[n] \in Hits
    OBVIOUS
  <2>2. \A h \in Hits : h.length \in Nat
    BY DEF Hits
  <2>3. /\ N \in Nat
        /\ \A n \in 0 .. N : sum[n] \in Nat
        /\ \A n \in 1 .. N : sum[n] = sum[n - 1] + hs[n].length
    BY SpentFacts
  <2> HIDE DEF sum, N
  <2> QED BY <2>1, <2>2, <2>3, SMTT(20)
<1> HIDE DEF N, sum
<1>2. 0 \in T
  BY <1>1
<1>3. ASSUME NEW n \in 1 .. N, n - 1 \in T PROVE n \in T
  <2> SUFFICES ASSUME NEW i \in 0 .. n PROVE sum[i] <= sum[n]
    BY <1>1
  <2>1. CASE i = n
    BY <1>1, <2>1
  <2>2. CASE i # n
    <3>1. i \in 0 .. n - 1 /\ sum[i] <= sum[n - 1]
      BY <1>1, <1>3, <2>2
    <3> QED BY <1>1, <3>1
  <2> QED BY <2>1, <2>2
<1> HIDE DEF T
<1>4. 0 .. N \subseteq T
  BY <1>1, <1>2, <1>3, SetInduction
<1> QED BY <1>4 DEF T, N, sum

(* The beginning of a ranking has spent what the ranking had by then.      *)
LEMMA SpentPage ==
    ASSUME NEW hs \in Seq(Hits), NEW m \in Nat
    PROVE  LET p == Page(hs, m)
           IN  \A n \in 0 .. Len(p) : Spent(p)[n] = Spent(hs)[n]
<1> DEFINE p == Page(hs, m)
           N == Len(p)
           T == {n \in 0 .. N : Spent(p)[n] = Spent(hs)[n]}
<1>1. /\ p \in Seq(Hits) /\ N \in Nat /\ N <= Len(hs) /\ Len(hs) \in Nat
      /\ \A i \in 1 .. N : p[i] = hs[i]
  BY PageFacts
<1> HIDE DEF p
<1>2. 0 \in T
  BY <1>1, SpentFacts
<1>3. ASSUME NEW n \in 1 .. N, n - 1 \in T PROVE n \in T
  <2>1. Spent(p)[n] = Spent(p)[n - 1] + p[n].length
    BY <1>1, SpentFacts
  <2>2. n \in 1 .. Len(hs) /\ p[n] = hs[n]
    BY <1>1
  <2>3. Spent(hs)[n] = Spent(hs)[n - 1] + hs[n].length
    BY <2>2, SpentFacts
  <2> QED BY <1>1, <1>3, <2>1, <2>2, <2>3
<1>4. 0 .. N \subseteq T
  <2> HIDE DEF T, N
  <2> QED BY <1>1, <1>2, <1>3, SetInduction
<1> QED BY <1>4 DEF p

(* The hits that fit are the first ones.                                   *)
LEMMA FittingFacts ==
    ASSUME Inputs, NEW hs \in Seq(Hits)
    PROVE  LET F == Fitting(hs)
           IN  /\ F \in 0 .. Len(hs)
               /\ F > 0 => Spent(hs)[F] <= settings.max_characters
               /\ Len(hs) > 0 /\ Spent(hs)[1] <= settings.max_characters => F > 0
<1> DEFINE N == Len(hs)
           sum == Spent(hs)
           D == {n \in 1 .. N : sum[n] <= settings.max_characters}
           F == Cardinality(D)
<1>1. /\ N \in Nat /\ DOMAIN hs = 1 .. N
      /\ \A n \in 0 .. N : sum[n] \in Nat
      /\ \A n \in 0 .. N : \A i \in 0 .. n : sum[i] <= sum[n]
  BY SpentFacts, SpentGrows
<1>2. Fitting(hs) = F
  BY <1>1 DEF Fitting
<1> HIDE DEF N, sum
<1>3. IsFiniteSet(1 .. N) /\ Cardinality(1 .. N) = N
  BY <1>1, FS_Interval
<1>4. /\ D \in SUBSET (1 .. N) /\ IsFiniteSet(D) /\ F \in Nat /\ F <= N
      /\ F = 0 <=> D = {}
  <2>1. D \in SUBSET (1 .. N)
    OBVIOUS
  <2> HIDE DEF D
  <2>2. IsFiniteSet(D) /\ F <= N
    BY <1>3, <2>1, FS_Subset
  <2>3. F \in Nat
    BY <2>2, FS_CardinalityType
  <2>4. F = 0 <=> D = {}
    BY <2>2, FS_EmptySet
  <2> QED BY <2>1, <2>2, <2>3, <2>4
<1>5. D = 1 .. F
  <2>1. ASSUME NEW n \in D PROVE n <= F
    <3>1. n \in Nat /\ 1 .. n \in SUBSET D
      <4> SUFFICES ASSUME NEW i \in 1 .. n PROVE i \in D
        BY <1>1
      <4>1. i \in 1 .. N /\ sum[i] <= sum[n] /\ sum[i] \in Nat /\ sum[n] \in Nat
        BY <1>1
      <4>2. sum[n] <= settings.max_characters
        OBVIOUS
      <4>3. settings.max_characters \in Int
        BY SettingsFacts
      <4> QED BY <4>1, <4>2, <4>3
    <3>2. Cardinality(1 .. n) = n /\ n \in Nat
      BY <3>1, FS_Interval
    <3> HIDE DEF D
    <3> QED BY <1>4, <3>1, <3>2, FS_Subset
  <2>2. D \in SUBSET (1 .. F)
    <3> HIDE DEF F
    <3> QED BY <1>1, <1>4, <2>1
  <2>3. IsFiniteSet(1 .. F) /\ Cardinality(1 .. F) = F
    <3> HIDE DEF F
    <3> QED BY <1>4, FS_Interval
  <2> HIDE DEF D
  <2> QED BY <2>2, <2>3, FS_Subset
<1>6. F > 0 => sum[F] <= settings.max_characters
  <2>1. ASSUME F > 0 PROVE F \in D
    <3> HIDE DEF F, D
    <3> QED BY <1>4, <1>5, <2>1
  <2> QED BY <2>1
<1>7. N > 0 /\ sum[1] <= settings.max_characters => F > 0
  <2>1. N > 0 /\ sum[1] <= settings.max_characters => 1 \in D
    BY <1>1
  <2> HIDE DEF D
  <2> QED BY <1>4, <2>1
<1> HIDE DEF F
<1> QED BY <1>1, <1>2, <1>4, <1>6, <1>7 DEF N, sum

LEMMA BudgetFacts ==
    ASSUME Inputs, NEW hs \in Seq(Hits), Unique(hs), hs # <<>>
    PROVE  LET c == BudgetCompressor(hs)
           IN  /\ c \in Seq(Hits) /\ Unique(c) /\ c # <<>> /\ Len(c) <= Len(hs)
               /\ Spent(c)[Len(c)] <= settings.max_characters
<1> DEFINE c == BudgetCompressor(hs)
           max == settings.max_characters
<1>1. /\ max \in Nat \ {0} /\ Len(hs) \in Nat /\ Len(hs) > 0
      /\ hs[1] \in Hits
  BY SettingsFacts, EmptySeq
<1>2. hs[1].length \in Nat \ {0}
  BY <1>1 DEF Hits
<1>3. CASE hs[1].length > max
  <2> DEFINE h == [hs[1] EXCEPT !.length = max]
  <2>1. c = <<h>>
    BY <1>3 DEF BudgetCompressor
  <2>2. h \in Hits /\ h.length = max
    BY <1>1 DEF Hits
  <2> HIDE DEF h, c
  <2>3. c \in Seq(Hits) /\ Len(c) = 1 /\ c[1] = h /\ c # <<>>
    BY <2>1, <2>2
  <2>4. Unique(c)
    BY <2>3, UniqueFacts
  <2>5. Spent(c)[1] = Spent(c)[0] + c[1].length /\ Spent(c)[0] = 0
    BY <2>3, SpentFacts
  <2>6. Spent(c)[Len(c)] = max
    BY <1>1, <2>2, <2>3, <2>5
  <2> QED BY <1>1, <2>3, <2>4, <2>6 DEF c
<1>4. CASE ~ hs[1].length > max
  <2> DEFINE F == Fitting(hs)
  <2>1. c = Page(hs, F)
    BY <1>4 DEF BudgetCompressor
  <2>2. Spent(hs)[1] = Spent(hs)[0] + hs[1].length /\ Spent(hs)[0] = 0
    BY <1>1, SpentFacts
  <2>3. Spent(hs)[1] <= max
    BY <1>1, <1>2, <1>4, <2>2
  <2>4. F \in Nat /\ F <= Len(hs) /\ F > 0 /\ Spent(hs)[F] <= max
    BY <1>1, <2>3, FittingFacts
  <2> HIDE DEF F, c
  <2>5. c \in Seq(Hits) /\ Len(c) = F
    BY <1>1, <2>1, <2>4, PageFacts
  <2>6. Unique(c)
    BY <2>1, <2>4, UniquePage
  <2>7. Spent(c)[F] = Spent(hs)[F]
    BY <2>1, <2>4, <2>5, SpentPage
  <2>8. c # <<>>
    BY <2>4, <2>5
  <2> QED BY <2>4, <2>5, <2>6, <2>7, <2>8 DEF c
<1> QED BY <1>3, <1>4

(* What a page spends the whole ranking spends.                            *)
LEMMA PageWithinBudget ==
    ASSUME NEW hs \in Seq(Hits), NEW n \in Nat, NEW max \in Nat,
           Spent(hs)[Len(hs)] <= max
    PROVE  Spent(Page(hs, n))[Len(Page(hs, n))] <= max
<1> DEFINE p == Page(hs, n)
<1>1. p \in Seq(Hits) /\ Len(p) \in Nat /\ Len(hs) \in Nat /\ Len(p) <= Len(hs)
  <2>1. p \in Seq(Hits) /\ Len(p) \in Nat /\ Len(hs) \in Nat
    BY PageFacts
  <2>2. Len(p) = IF n <= Len(hs) THEN n ELSE Len(hs)
    BY PageFacts
  <2> HIDE DEF p
  <2> QED BY <2>1, <2>2
<1>2. Spent(p)[Len(p)] = Spent(hs)[Len(p)]
  BY <1>1, SpentPage
<1>3. Spent(hs)[Len(p)] <= Spent(hs)[Len(hs)]
  BY <1>1, SpentGrows
<1>4. Spent(hs)[Len(p)] \in Nat /\ Spent(hs)[Len(hs)] \in Nat
  BY <1>1, SpentFacts
<1> QED BY <1>2, <1>3, <1>4

-----------------------------------------------------------------------------
(* Fusion *)

LEMMA RankFacts ==
    ASSUME NEW S, NEW l \in Seq(S), IsInjective(l)
    PROVE  /\ \A d \in ToSet(l) : RankOf(d, l) \in 1 .. Len(l) /\ l[RankOf(d, l)] = d
           /\ \A i \in 1 .. Len(l) : l[i] \in ToSet(l) /\ RankOf(l[i], l) = i
<1>1. DOMAIN l = 1 .. Len(l)
  OBVIOUS
<1>2. ASSUME NEW d \in ToSet(l) PROVE RankOf(d, l) \in 1 .. Len(l) /\ l[RankOf(d, l)] = d
  <2>1. \E i \in DOMAIN l : l[i] = d
    BY DEF ToSet
  <2> QED BY <1>1, <2>1 DEF RankOf
<1>3. ASSUME NEW i \in 1 .. Len(l) PROVE l[i] \in ToSet(l) /\ RankOf(l[i], l) = i
  <2>1. l[i] \in ToSet(l)
    BY <1>1 DEF ToSet
  <2> QED BY <1>1, <1>2, <2>1 DEF IsInjective
<1> QED BY <1>2, <1>3

LEMMA Quotients ==
    \A p \in Nat : \A x, y \in Nat \ {0} :
       p \div x \in Nat /\ (x < y => p \div x >= p \div y)
OBVIOUS

LEMMA ProductsGrow == \A a, b, c \in Nat : b >= c => a * b >= a * c
OBVIOUS

(* A better rank never has the smaller share.                              *)
LEMMA ShareFacts ==
    ASSUME Inputs, NEW l \in Seq(Documents), IsInjective(l), NEW w \in Nat
    PROVE  /\ \A d \in Documents : Share(d, l, w) \in Nat
           /\ \A a, b \in ToSet(l) : RankOf(a, l) < RankOf(b, l) => Share(a, l, w) >= Share(b, l, w)
<1> DEFINE k == settings.rrf_k
           q(d) == RankProduct \div (k + RankOf(d, l))
<1>1. /\ k \in Nat \ {0} /\ RankProduct \in Nat /\ w * Unit \in Nat
      /\ Len(l) \in Nat
  BY SettingsFacts, ProductFacts, UnitFacts, Naturals
<1>2. \A d \in ToSet(l) : RankOf(d, l) \in 1 .. Len(l)
  BY RankFacts
<1>3. \A d \in ToSet(l) : k + RankOf(d, l) \in Nat \ {0}
  BY <1>1, <1>2
<1>4. \A d \in ToSet(l) : q(d) \in Nat
  BY <1>1, <1>3, Quotients
<1>5. \A d \in ToSet(l) : Share(d, l, w) = (w * Unit) * q(d)
  BY DEF Share
<1>6. \A d \in Documents : Share(d, l, w) \in Nat
  <2> SUFFICES ASSUME NEW d \in Documents PROVE Share(d, l, w) \in Nat
    OBVIOUS
  <2>1. CASE d \in ToSet(l)
    <3> HIDE DEF q
    <3> QED BY <1>1, <1>4, <1>5, <2>1, Naturals
  <2>2. CASE d \notin ToSet(l)
    BY <2>2 DEF Share
  <2> QED BY <2>1, <2>2
<1>7. ASSUME NEW a \in ToSet(l), NEW b \in ToSet(l), RankOf(a, l) < RankOf(b, l)
      PROVE  Share(a, l, w) >= Share(b, l, w)
  <2>1. k + RankOf(a, l) < k + RankOf(b, l)
    BY <1>1, <1>2, <1>7
  <2>2. q(a) >= q(b)
    BY <1>1, <1>3, <2>1, Quotients
  <2> HIDE DEF q
  <2> QED BY <1>1, <1>4, <1>5, <2>2, ProductsGrow
<1> QED BY <1>6, <1>7

(* Every document of the lists is named once, those of the dense side at   *)
(* their rank there.                                                       *)
LEMMA NamedFacts ==
    ASSUME NEW dense \in Seq(Documents), NEW sparse \in Seq(Documents),
           IsInjective(dense), IsInjective(sparse)
    PROVE  LET named == Named(dense, sparse)
           IN  /\ named \in Seq(Documents) /\ IsInjective(named)
               /\ ToSet(dense) \subseteq ToSet(named)
               /\ \A d \in ToSet(dense) : RankOf(d, named) = RankOf(d, dense)
<1> DEFINE I == {i \in DOMAIN sparse : sparse[i] \notin ToSet(dense)}
           rest == Chosen(sparse, I)
           named == dense \o rest
<1>1. /\ Len(dense) \in Nat /\ DOMAIN dense = 1 .. Len(dense)
      /\ Len(sparse) \in Nat /\ DOMAIN sparse = 1 .. Len(sparse)
  OBVIOUS
<1>2. I \in SUBSET (1 .. Len(sparse)) /\ \A i \in I : sparse[i] \notin ToSet(dense)
  BY <1>1
<1> HIDE DEF I
<1>3. rest \in Seq(Documents)
  BY <1>2, ChosenFacts
<1>4. PICK at \in [1 .. Len(rest) -> I] :
         /\ \A k \in 1 .. Len(rest) : rest[k] = sparse[at[k]]
         /\ \A j, k \in 1 .. Len(rest) : j < k <=> at[j] < at[k]
  <2> HIDE DEF rest
  <2> QED BY <1>2, ChosenFacts, SMTT(20) DEF rest
<1> HIDE DEF rest
<1>5. Len(rest) \in Nat
  BY <1>3
<1>6. /\ named \in Seq(Documents) /\ Len(named) = Len(dense) + Len(rest)
      /\ DOMAIN named = 1 .. Len(named)
      /\ \A i \in 1 .. Len(dense) : named[i] = dense[i]
      /\ \A i \in 1 .. Len(rest) : named[Len(dense) + i] = rest[i]
  BY <1>1, <1>3, <1>5, ConcatProperties
<1> HIDE DEF named
<1>7. ASSUME NEW i \in 1 .. Len(named), NEW j \in 1 .. Len(named), named[i] = named[j], i < j
      PROVE  FALSE
  <2>1. CASE j <= Len(dense)
    <3>1. i \in 1 .. Len(dense) /\ j \in 1 .. Len(dense)
      BY <1>1, <1>5, <1>6, <1>7, <2>1
    <3>2. dense[i] = dense[j]
      BY <1>6, <1>7, <3>1
    <3>3. i = j
      BY <1>1, <3>1, <3>2 DEF IsInjective
    <3> QED BY <1>1, <1>7, <3>1, <3>3
  <2>2. CASE j > Len(dense)
    <3>1. /\ j - Len(dense) \in 1 .. Len(rest)
          /\ Len(dense) + (j - Len(dense)) = j
      BY <1>1, <1>5, <1>6, <2>2
    <3>2. /\ named[j] = sparse[at[j - Len(dense)]] /\ at[j - Len(dense)] \in I
      BY <1>4, <1>6, <3>1
    <3>3. CASE i <= Len(dense)
      <4>1. i \in 1 .. Len(dense) /\ named[i] \in ToSet(dense)
        BY <1>1, <1>5, <1>6, <3>3 DEF ToSet
      <4> QED BY <1>2, <1>7, <3>2, <4>1
    <3>4. CASE i > Len(dense)
      <4>1. /\ i - Len(dense) \in 1 .. Len(rest)
            /\ Len(dense) + (i - Len(dense)) = i
            /\ i - Len(dense) < j - Len(dense)
        BY <1>1, <1>5, <1>6, <1>7, <3>4
      <4>2. /\ named[i] = sparse[at[i - Len(dense)]] /\ at[i - Len(dense)] \in I
        BY <1>4, <1>6, <4>1
      <4>3. at[i - Len(dense)] < at[j - Len(dense)]
        BY <1>4, <3>1, <4>1
      <4>4. at[i - Len(dense)] = at[j - Len(dense)]
        BY <1>1, <1>2, <1>7, <3>2, <4>2 DEF IsInjective
      <4>5. at[i - Len(dense)] \in Int
        BY <1>1, <1>2, <4>2
      <4> QED BY <4>3, <4>4, <4>5
    <3> QED BY <1>1, <1>5, <1>6, <3>3, <3>4
  <2> QED BY <1>1, <1>5, <1>6, <2>1, <2>2
<1>8. IsInjective(named)
  BY <1>1, <1>5, <1>6, <1>7 DEF IsInjective
<1>9. ASSUME NEW d \in ToSet(dense)
      PROVE  d \in ToSet(named) /\ RankOf(d, named) = RankOf(d, dense)
  <2>1. RankOf(d, dense) \in 1 .. Len(dense) /\ dense[RankOf(d, dense)] = d
    BY RankFacts
  <2>2. RankOf(d, dense) \in 1 .. Len(named) /\ named[RankOf(d, dense)] = d
    BY <1>1, <1>5, <1>6, <2>1
  <2> QED BY <1>6, <1>8, <2>2, RankFacts
<1> QED BY <1>6, <1>8, <1>9 DEF named, rest, I, Named

(* Fusion ranks what the lists name, each document once, and what comes    *)
(* first in both lists comes first in the ranking.                         *)
LEMMA FuseFacts ==
    ASSUME Inputs, NEW dense \in Seq(Documents), NEW sparse \in Seq(Documents),
           IsInjective(dense), IsInjective(sparse)
    PROVE  LET hs == _fuse(dense, sparse)
           IN  /\ hs \in Seq(Hits) /\ Unique(hs) /\ Descending(hs)
               /\ \A i, j \in 1 .. Len(hs) :
                     /\ hs[i].id \in ToSet(dense) /\ hs[j].id \in ToSet(dense)
                     /\ hs[i].id \in ToSet(sparse) /\ hs[j].id \in ToSet(sparse)
                     /\ RankOf(hs[i].id, dense) < RankOf(hs[j].id, dense)
                     /\ RankOf(hs[i].id, sparse) < RankOf(hs[j].id, sparse)
                     => i < j
<1> DEFINE named == Named(dense, sparse)
           D == ToSet(named)
           Score(d) == reciprocal_rank_fusion(d, dense, sparse)
           score == [d \in D |-> Score(d)]
           R == {p \in D \X D :
                    \/ score[p[1]] > score[p[2]]
                    \/ score[p[1]] = score[p[2]] /\ RankOf(p[1], named) < RankOf(p[2], named)}
           ranked == Ranked(D, R)
           n == Cardinality(D)
           hs == _fuse(dense, sparse)
<1>1. /\ named \in Seq(Documents) /\ IsInjective(named)
      /\ ToSet(dense) \subseteq D
      /\ \A d \in ToSet(dense) : RankOf(d, named) = RankOf(d, dense)
  BY NamedFacts
<1> HIDE DEF named
<1>2. D \in SUBSET Documents /\ IsFiniteSet(D)
  <2>1. D \in SUBSET Documents
    BY <1>1 DEF ToSet
  <2> HIDE DEF D
  <2> QED BY <2>1, DocumentsFacts, FS_Subset
<1>3. \A d \in D : RankOf(d, named) \in Int /\ named[RankOf(d, named)] = d
  BY <1>1, RankFacts
<1>4. settings.dense_weight \in Nat /\ 2 - settings.dense_weight \in Nat
  BY SettingsFacts
<1>5. \A d \in Documents :
         /\ Share(d, dense, settings.dense_weight) \in Nat
         /\ Share(d, sparse, 2 - settings.dense_weight) \in Nat
         /\ Score(d) \in Nat
  <2>1. \A d \in Documents :
         /\ Share(d, dense, settings.dense_weight) \in Nat
         /\ Share(d, sparse, 2 - settings.dense_weight) \in Nat
    BY <1>4, ShareFacts
  <2> QED BY <2>1, Naturals DEF reciprocal_rank_fusion
<1>6. \A d \in D : score[d] = Score(d) /\ score[d] \in Nat
  BY <1>2, <1>5
<1>7. \A a, b \in D : <<a, b>> \in R <=>
         \/ score[a] > score[b]
         \/ score[a] = score[b] /\ RankOf(a, named) < RankOf(b, named)
  <2> HIDE DEF score, D
  <2> QED OBVIOUS
<1> HIDE DEF D, score, R
<1>8. Orders(R, D)
  <2>1. \A a, b \in D : RankOf(a, named) = RankOf(b, named) => a = b
    BY <1>3
  <2>2. \A d \in D : score[d] \in Int /\ RankOf(d, named) \in Int
    BY <1>3, <1>6
  <2>3. \A a \in D : <<a, a>> \notin R
    BY <1>7, <2>2
  <2>4. \A a, b \in D : a # b => <<a, b>> \in R \/ <<b, a>> \in R
    BY <1>7, <2>1, <2>2
  <2>5. \A a, b, c \in D : <<a, b>> \in R /\ <<b, c>> \in R => <<a, c>> \in R
    BY <1>7, <2>2
  <2> QED BY <2>3, <2>4, <2>5 DEF Orders
<1>9. /\ n \in Nat /\ ranked \in [1 .. n -> D]
      /\ \A i, j \in 1 .. n : ranked[i] = ranked[j] => i = j
      /\ \A i, j \in 1 .. n : <<ranked[i], ranked[j]>> \in R <=> i < j
  <2>1. n \in Nat /\ ranked \in [1 .. n -> D]
    BY <1>2, <1>8, RankedFacts
  <2>3. \A i, j \in 1 .. n : <<ranked[i], ranked[j]>> \in R <=> i < j
    BY <1>2, <1>8, RankedFacts
  <2>2. \A i, j \in 1 .. n : ranked[i] = ranked[j] => i = j
    <3> SUFFICES ASSUME NEW i \in 1 .. n, NEW j \in 1 .. n, ranked[i] = ranked[j], i # j
                 PROVE  FALSE
      OBVIOUS
    <3>1. i < j \/ j < i
      BY <2>1
    <3>2. <<ranked[i], ranked[i]>> \in R
      BY <2>3, <3>1
    <3>3. ranked[i] \in D
      BY <2>1
    <3> QED BY <1>8, <3>2, <3>3 DEF Orders
  <2> QED BY <2>1, <2>2, <2>3
<1>10. hs = [i \in 1 .. n |-> Hit(ranked[i], score[ranked[i]])]
  <2>1. DOMAIN ranked = 1 .. n
    BY <1>9
  <2>2. hs = [i \in DOMAIN ranked |-> Hit(ranked[i], score[ranked[i]])]
    BY DEF _fuse, named, D, score, R
  <2> HIDE DEF hs, ranked, n
  <2> QED BY <2>1, <2>2
<1> HIDE DEF ranked, n, hs
<1>11. \A i \in 1 .. n :
          /\ ranked[i] \in D /\ ranked[i] \in Documents
          /\ Hit(ranked[i], score[ranked[i]]) \in Hits
          /\ Hit(ranked[i], score[ranked[i]]).id = ranked[i]
          /\ Hit(ranked[i], score[ranked[i]]).score = score[ranked[i]]
  BY <1>2, <1>6, <1>9, HitFacts
<1>12. /\ hs \in Seq(Hits) /\ Len(hs) = n
       /\ \A i \in 1 .. n : hs[i].id = ranked[i] /\ hs[i].score = score[ranked[i]]
  <2> DEFINE h(i) == Hit(ranked[i], score[ranked[i]])
  <2>1. hs = [i \in 1 .. n |-> h(i)]
    BY <1>10
  <2>2. \A i \in 1 .. n : h(i) \in Hits /\ h(i).id = ranked[i] /\ h(i).score = score[ranked[i]]
    BY <1>11
  <2> HIDE DEF h
  <2>3. hs \in [1 .. n -> Hits] /\ n \in Nat
    BY <1>9, <2>1, <2>2
  <2>4. hs \in Seq(Hits) /\ Len(hs) = n
    BY <2>3
  <2>5. \A i \in 1 .. n : hs[i] = h(i)
    BY <2>1
  <2> QED BY <2>2, <2>4, <2>5
<1>13. Unique(hs)
  <2>1. \A i, j \in 1 .. Len(hs) : hs[i].id = hs[j].id => i = j
    BY <1>9, <1>12
  <2> QED BY <1>12, <2>1, UniqueFacts
<1>14. ASSUME NEW i \in 1 .. n, NEW j \in 1 .. n,
              ranked[i] \in ToSet(dense), ranked[j] \in ToSet(dense),
              ranked[i] \in ToSet(sparse), ranked[j] \in ToSet(sparse),
              RankOf(ranked[i], dense) < RankOf(ranked[j], dense),
              RankOf(ranked[i], sparse) < RankOf(ranked[j], sparse)
       PROVE  i < j
  <2> DEFINE a == ranked[i]  b == ranked[j]
  <2>1. a \in D /\ b \in D /\ a \in Documents /\ b \in Documents
    BY <1>11
  <2>2. /\ Share(a, dense, settings.dense_weight) >= Share(b, dense, settings.dense_weight)
        /\ Share(a, sparse, 2 - settings.dense_weight) >= Share(b, sparse, 2 - settings.dense_weight)
    BY <1>4, <1>14, ShareFacts
  <2>3. score[a] >= score[b]
    <3>1. /\ score[a] = Share(a, dense, settings.dense_weight)
                        + Share(a, sparse, 2 - settings.dense_weight)
          /\ score[b] = Share(b, dense, settings.dense_weight)
                        + Share(b, sparse, 2 - settings.dense_weight)
      BY <1>6, <2>1 DEF reciprocal_rank_fusion
    <3> HIDE DEF a, b
    <3> QED BY <1>5, <2>1, <2>2, <3>1
  <2>4. RankOf(a, named) < RankOf(b, named)
    BY <1>1, <1>14
  <2>5. score[a] \in Int /\ score[b] \in Int
    BY <1>6, <2>1
  <2>6. <<a, b>> \in R
    <3> HIDE DEF a, b
    <3> QED BY <1>7, <2>1, <2>3, <2>4, <2>5
  <2> QED BY <1>9, <2>6
<1>15. Descending(hs)
  <2> SUFFICES ASSUME NEW i \in 1 .. n, NEW j \in 1 .. n, i < j
               PROVE  score[ranked[i]] >= score[ranked[j]]
    BY <1>12 DEF Descending
  <2>1. ranked[i] \in D /\ ranked[j] \in D /\ <<ranked[i], ranked[j]>> \in R
    BY <1>9
  <2> QED BY <1>6, <1>7, <2>1
<1> QED BY <1>12, <1>13, <1>14, <1>15 DEF hs

-----------------------------------------------------------------------------
(* The invariant *)

Retrieving == {"mmr", "above_threshold", "sparse"}

(* Nothing is found before the search, and nothing is left of it when it   *)
(* fails.                                                                  *)
NothingElsewhere ==
    /\ pc \in {"build", "hybrid", "vector", "search", "dependency_error", "validation_error"} =>
          hits = <<>>
    /\ pc # "mmr" => pool = <<>>
    /\ pc \notin {"compress"} \cup Ends => lists = None /\ stage = 1
    /\ pc = "compress" => hits # <<>> /\ stage <= Len(default_pipeline)

(* The base retriever is asked for the page, or for more where the result  *)
(* is compressed.                                                          *)
AskedFollows ==
    /\ pc # "build" =>
          /\ retriever.base \in {"vector", "hybrid"}
          /\ asked.top_k = page * (IF retriever.compresses THEN settings.multiplier ELSE 1)
    /\ pc = "search" => asked.fetch_k \in Nat
    /\ pc = "compress" => retriever.compresses

(* Each document is found once, and no more than were asked for.           *)
FoundOnce ==
    /\ Unique(hits)
    /\ Unique(pool)
    /\ \A i \in DOMAIN hits, j \in DOMAIN pool : hits[i].id # pool[j].id
    /\ pc \in Retrieving => Len(hits) <= asked.top_k
    /\ pc = "documents" => Len(hits) <= page

SearchInv ==
    /\ Inputs
    /\ TypeOK
    /\ trail \in Seq(Seq(Hits))
    /\ NothingElsewhere
    /\ AskedFollows
    /\ FoundOnce

LEMMA InputsStay ==
    ASSUME Inputs, UNCHANGED inputs
    PROVE  /\ Inputs' /\ settings' = settings /\ page' = page
           /\ default_pipeline' = default_pipeline
BY DEF Inputs, inputs, page, default_pipeline

(* The order of the stages. *)
LEMMA PipelineFacts ==
    /\ Len(default_pipeline) \in {3, 4}
    /\ default_pipeline[1] = "threshold"
    /\ default_pipeline[2] = "redundancy"
    /\ Len(default_pipeline) = 4 => default_pipeline[3] = "sentences"
    /\ default_pipeline[Len(default_pipeline)] = "budget"
<1> DEFINE a == <<"threshold", "redundancy">>
           b == IF settings.sentence_level THEN <<"sentences">> ELSE <<>>
           c == <<"budget">>
           Names == {"threshold", "redundancy", "sentences", "budget"}
<1>1. /\ a \in Seq(Names) /\ Len(a) = 2 /\ a[1] = "threshold" /\ a[2] = "redundancy"
      /\ c \in Seq(Names) /\ Len(c) = 1 /\ c[1] = "budget"
  <2>1. a \in Seq(Names) /\ c \in Seq(Names)
    OBVIOUS
  <2>2. Len(a) = 2 /\ a[1] = "threshold" /\ a[2] = "redundancy"
    OBVIOUS
  <2>3. Len(c) = 1 /\ c[1] = "budget"
    OBVIOUS
  <2> QED BY <2>1, <2>2, <2>3
<1>2. /\ b \in Seq(Names) /\ Len(b) \in {0, 1}
      /\ Len(b) = 1 => b[1] = "sentences"
  <2>1. CASE settings.sentence_level
    <3>1. b = <<"sentences">>
      BY <2>1
    <3> HIDE DEF b
    <3> QED BY <3>1
  <2>2. CASE ~ settings.sentence_level
    <3>1. b = <<>>
      BY <2>2
    <3> HIDE DEF b
    <3> QED BY <3>1
  <2> QED BY <2>1, <2>2
<1>3. default_pipeline = (a \o b) \o c
  BY DEF default_pipeline
<1> HIDE DEF a, b, c, Names
<1>4. /\ a \o b \in Seq(Names) /\ Len(a \o b) = 2 + Len(b)
      /\ (a \o b)[1] = "threshold" /\ (a \o b)[2] = "redundancy"
      /\ Len(b) = 1 => (a \o b)[3] = "sentences"
  <2>1. /\ a \o b \in Seq(Names) /\ Len(a \o b) = Len(a) + Len(b)
        /\ \A i \in 1 .. Len(a) + Len(b) :
              (a \o b)[i] = IF i <= Len(a) THEN a[i] ELSE b[i - Len(a)]
    BY <1>1, <1>2, ConcatProperties
  <2> QED BY <1>1, <1>2, <2>1
<1> DEFINE ab == a \o b
<1> HIDE DEF ab
<1>5. /\ ab \in Seq(Names) /\ Len(ab) \in {2, 3}
      /\ ab[1] = "threshold" /\ ab[2] = "redundancy"
      /\ Len(ab) = 3 => ab[3] = "sentences"
  BY <1>2, <1>4 DEF ab
<1>6. /\ Len(ab \o c) = Len(ab) + 1
      /\ \A i \in 1 .. Len(ab) : (ab \o c)[i] = ab[i]
      /\ (ab \o c)[Len(ab) + 1] = "budget"
  BY <1>1, <1>5, ConcatProperties, SMTT(20)
<1>7. default_pipeline = ab \o c
  BY <1>3 DEF ab
<1> QED BY <1>5, <1>6, <1>7

LEMMA AskedFacts ==
    ASSUME SearchInv, pc # "build"
    PROVE  /\ asked.top_k \in Nat
           /\ page \in Nat
           /\ ~ retriever.compresses => asked.top_k = page
<1>1. page \in Nat \ {0} /\ settings.multiplier \in Nat \ {0}
  BY SettingsFacts DEF SearchInv
<1>2. page * settings.multiplier \in Nat /\ page * 1 = page
  BY <1>1, Naturals
<1>3. asked.top_k = page * (IF retriever.compresses THEN settings.multiplier ELSE 1)
  BY DEF SearchInv, AskedFollows
<1> QED BY <1>1, <1>2, <1>3

LEMMA EmptyFacts ==
    /\ <<>> \in Seq(Hits) /\ Len(<<>>) = 0
    /\ Unique(<<>>)
    /\ <<>> \in Seq(Seq(Hits))
<1>1. <<>> \in Seq(Hits) /\ Len(<<>>) = 0 /\ <<>> \in Seq(Seq(Hits))
  OBVIOUS
<1>2. Unique(<<>>)
  <2> DEFINE none == <<>>
  <2>1. none \in Seq(Hits) /\ 1 .. Len(none) = {}
    BY <1>1
  <2> HIDE DEF none
  <2>2. Unique(none)
    BY <2>1, UniqueFacts
  <2> QED BY <2>2 DEF none
<1> QED BY <1>1, <1>2

LEMMA SearchInit == Init => SearchInv
<1> SUFFICES ASSUME Init PROVE SearchInv
  OBVIOUS
<1> USE DEF Init
<1>1. Inputs
  BY DEF Inputs
<1>2. TypeOK /\ trail \in Seq(Seq(Hits))
  BY EmptyFacts DEF TypeOK
<1>3. NothingElsewhere /\ AskedFollows
  BY DEF NothingElsewhere, AskedFollows, Ends
<1>4. FoundOnce
  BY EmptyFacts DEF FoundOnce, Retrieving
<1> QED BY <1>1, <1>2, <1>3, <1>4 DEF SearchInv

LEMMA BuildStep == SearchInv /\ for_query => SearchInv'
<1> SUFFICES ASSUME SearchInv, for_query PROVE SearchInv'
  OBVIOUS
<1> DEFINE strategy == Or(query.search_type, settings.default_search_type)
           compressed == Or(query.compress, settings.compression_enabled)
           width == page * (IF compressed THEN settings.multiplier ELSE 1)
<1>0. Inputs /\ TypeOK /\ trail \in Seq(Seq(Hits)) /\ NothingElsewhere /\ FoundOnce
  BY DEF SearchInv
<1>1. /\ pc = "build" /\ pc' = retriever'.base
      /\ retriever' = [base |-> IF strategy = "hybrid" THEN "hybrid" ELSE "vector",
                       compresses |-> compressed]
      /\ asked' = [asked EXCEPT !.top_k = width, !.search_type = query.search_type]
      /\ UNCHANGED <<inputs, pool, hits, lists, trail, stage>>
  BY DEF for_query
<1>2. Inputs' /\ settings' = settings /\ page' = page /\ default_pipeline' = default_pipeline
  BY <1>0, <1>1, InputsStay
<1>3. compressed \in BOOLEAN
  BY <1>0, SettingsFacts DEF Or
<1>4. width \in Nat
  <2>1. page \in Nat /\ settings.multiplier \in Nat
    BY <1>0, SettingsFacts
  <2> QED BY <2>1, Naturals
<1>5. query.search_type \in SearchTypes \cup {None}
  BY <1>0, SettingsFacts
<1> HIDE DEF strategy, compressed, width
<1>6. /\ retriever'.base \in {"vector", "hybrid"} /\ retriever'.compresses = compressed
      /\ retriever' \in [base : {"vector", "hybrid", None}, compresses : BOOLEAN]
  BY <1>1, <1>3
<1>7. /\ asked'.top_k = width
      /\ asked' \in [top_k : Nat \cup {None}, search_type : SearchTypes \cup {None},
                     fetch_k : Nat \cup {None}]
  BY <1>0, <1>1, <1>4, <1>5 DEF TypeOK
<1>8. TypeOK'
  BY <1>0, <1>1, <1>6, <1>7 DEF TypeOK
<1>9. NothingElsewhere'
  BY <1>0, <1>1, <1>2, <1>6 DEF NothingElsewhere, Ends
<1>10. AskedFollows'
  <2>1. asked'.top_k = page' * (IF retriever'.compresses THEN settings'.multiplier ELSE 1)
    BY <1>2, <1>6, <1>7 DEF width
  <2> QED BY <1>1, <1>6, <2>1 DEF AskedFollows
<1>11. FoundOnce'
  BY <1>0, <1>1, <1>6 DEF FoundOnce, Retrieving
<1> QED BY <1>0, <1>1, <1>2, <1>8, <1>9, <1>10, <1>11 DEF SearchInv

LEMMA HybridStep == SearchInv /\ hybrid => SearchInv'
<1> SUFFICES ASSUME SearchInv, hybrid PROVE SearchInv'
  OBVIOUS
<1>0. Inputs /\ TypeOK /\ trail \in Seq(Seq(Hits)) /\ NothingElsewhere /\ AskedFollows /\ FoundOnce
  BY DEF SearchInv
<1>1. /\ pc = "hybrid" /\ pc' = "vector"
      /\ asked' = [asked EXCEPT !.search_type = None]
      /\ UNCHANGED <<inputs, retriever, pool, hits, lists, trail, stage>>
  BY DEF hybrid
<1>2. Inputs' /\ settings' = settings /\ page' = page /\ default_pipeline' = default_pipeline
  BY <1>0, <1>1, InputsStay
<1>3. /\ asked'.top_k = asked.top_k
      /\ asked' \in [top_k : Nat \cup {None}, search_type : SearchTypes \cup {None},
                     fetch_k : Nat \cup {None}]
  BY <1>0, <1>1 DEF TypeOK
<1>4. TypeOK'
  BY <1>0, <1>1, <1>3 DEF TypeOK
<1>5. NothingElsewhere' /\ FoundOnce'
  BY <1>0, <1>1, <1>2 DEF NothingElsewhere, FoundOnce, Retrieving, Ends
<1>6. AskedFollows'
  BY <1>0, <1>1, <1>2, <1>3 DEF AskedFollows
<1> QED BY <1>0, <1>1, <1>2, <1>4, <1>5, <1>6 DEF SearchInv

LEMMA PrepareStep == SearchInv /\ prepare => SearchInv'
<1> SUFFICES ASSUME SearchInv, prepare PROVE SearchInv'
  OBVIOUS
<1> DEFINE type == Or(asked.search_type, settings.default_search_type)
           fetch == Max({settings.fetch_k, asked.top_k})
<1>0. Inputs /\ TypeOK /\ trail \in Seq(Seq(Hits)) /\ NothingElsewhere /\ AskedFollows /\ FoundOnce
  BY DEF SearchInv
<1>1. /\ pc = "vector"
      /\ IF type \in {"similarity", "mmr"}
         THEN /\ asked' = [asked EXCEPT !.search_type = type, !.fetch_k = fetch]
              /\ pc' = "search"
         ELSE pc' = "validation_error" /\ asked' = asked
      /\ UNCHANGED <<inputs, retriever, pool, hits, lists, trail, stage>>
  BY DEF prepare
<1>2. Inputs' /\ settings' = settings /\ page' = page /\ default_pipeline' = default_pipeline
  BY <1>0, <1>1, InputsStay
<1>3. fetch \in Nat
  <2>1. settings.fetch_k \in Nat /\ asked.top_k \in Nat
    BY <1>0, <1>1, SettingsFacts, AskedFacts
  <2> QED BY <2>1, Extremes
<1> HIDE DEF type, fetch
<1>4. /\ asked'.top_k = asked.top_k
      /\ pc' = "search" => asked'.fetch_k \in Nat
      /\ asked' \in [top_k : Nat \cup {None}, search_type : SearchTypes \cup {None},
                     fetch_k : Nat \cup {None}]
  BY <1>0, <1>1, <1>3 DEF TypeOK, SearchTypes
<1>5. pc' \in {"search", "validation_error"}
  BY <1>1
<1>6. TypeOK'
  BY <1>0, <1>1, <1>4, <1>5 DEF TypeOK, Ends
<1>7. NothingElsewhere' /\ FoundOnce'
  BY <1>0, <1>1, <1>2, <1>5 DEF NothingElsewhere, FoundOnce, Retrieving, Ends
<1>8. AskedFollows'
  BY <1>0, <1>1, <1>2, <1>4, <1>5 DEF AskedFollows
<1> QED BY <1>0, <1>1, <1>2, <1>6, <1>7, <1>8 DEF SearchInv

LEMMA SearchStep == SearchInv /\ search => SearchInv'
<1> SUFFICES ASSUME SearchInv, search PROVE SearchInv'
  OBVIOUS
<1>0. Inputs /\ TypeOK /\ trail \in Seq(Seq(Hits)) /\ NothingElsewhere /\ AskedFollows /\ FoundOnce
  BY DEF SearchInv
<1>1. /\ pc = "search"
      /\ \/ pool' = search_by_vector(asked.fetch_k) /\ pc' = "mmr" /\ hits' = hits
         \/ hits' = search_by_vector(asked.top_k) /\ pc' = "above_threshold" /\ pool' = pool
      /\ UNCHANGED <<inputs, retriever, asked, lists, trail, stage>>
  BY DEF search
<1>2. Inputs' /\ settings' = settings /\ page' = page /\ default_pipeline' = default_pipeline
  BY <1>0, <1>1, InputsStay
<1>3. asked.top_k \in Nat /\ asked.fetch_k \in Nat /\ hits = <<>> /\ pool = <<>>
  BY <1>0, <1>1, AskedFacts DEF AskedFollows, NothingElsewhere
<1>4. /\ pool' \in Seq(Hits) /\ Unique(pool') /\ hits' \in Seq(Hits) /\ Unique(hits')
      /\ Len(hits') <= asked.top_k
      /\ hits' = <<>> \/ pool' = <<>>
  <2>1. CASE pool' = search_by_vector(asked.fetch_k) /\ pc' = "mmr" /\ hits' = hits
    <3>1. pool' \in Seq(Hits) /\ Unique(pool')
      BY <1>0, <1>3, <2>1, SearchFacts
    <3>2. hits' = <<>> /\ hits' \in Seq(Hits) /\ Unique(hits') /\ Len(hits') = 0
      BY <1>3, <2>1, EmptyFacts
    <3> QED BY <1>3, <3>1, <3>2
  <2>2. CASE hits' = search_by_vector(asked.top_k) /\ pc' = "above_threshold" /\ pool' = pool
    <3>1. hits' \in Seq(Hits) /\ Unique(hits') /\ Len(hits') <= asked.top_k
      BY <1>0, <1>3, <2>2, SearchFacts
    <3>2. pool' = <<>> /\ pool' \in Seq(Hits) /\ Unique(pool')
      BY <1>3, <2>2, EmptyFacts
    <3> QED BY <3>1, <3>2
  <2> QED BY <1>1, <2>1, <2>2
<1>5. TypeOK'
  BY <1>0, <1>1, <1>4 DEF TypeOK
<1>6. NothingElsewhere'
  BY <1>0, <1>1, <1>2, <1>3 DEF NothingElsewhere, Ends
<1>7. AskedFollows'
  BY <1>0, <1>1, <1>2 DEF AskedFollows
<1>8. FoundOnce'
  BY <1>1, <1>4 DEF FoundOnce
<1> QED BY <1>0, <1>1, <1>2, <1>5, <1>6, <1>7, <1>8 DEF SearchInv

(* A ranking without one of its hits. *)
LEMMA RemoveFacts ==
    ASSUME NEW S, NEW q \in Seq(S), NEW i \in 1 .. Len(q)
    PROVE  /\ RemoveAt(q, i) \in Seq(S)
           /\ Len(RemoveAt(q, i)) = Len(q) - 1
           /\ \A k \in 1 .. Len(q) - 1 : RemoveAt(q, i)[k] = IF k < i THEN q[k] ELSE q[k + 1]
<1> DEFINE front == SubSeq(q, 1, i - 1)  back == SubSeq(q, i + 1, Len(q))
<1>0. Len(q) \in Nat /\ i \in Nat /\ \A k \in 1 .. Len(q) : q[k] \in S
  OBVIOUS
<1>1. /\ front \in Seq(S) /\ Len(front) = i - 1
      /\ \A k \in 1 .. i - 1 : front[k] = q[k]
  BY <1>0, SubSeqProperties
<1>2. /\ back \in Seq(S) /\ Len(back) = Len(q) - i
      /\ \A k \in 1 .. Len(q) - i : back[k] = q[i + k]
  <2>1. \A k \in i + 1 .. Len(q) : q[k] \in S
    BY <1>0
  <2>2. /\ back \in Seq(S) /\ Len(back) = IF i + 1 <= Len(q) THEN Len(q) - (i + 1) + 1 ELSE 0
        /\ \A k \in 1 .. Len(q) - (i + 1) + 1 : back[k] = q[(i + 1) + k - 1]
    BY <1>0, <2>1, SubSeqProperties
  <2>3. \A k \in 1 .. Len(q) - i : back[k] = q[i + k]
    BY <1>0, <2>2
  <2> QED BY <1>0, <2>2, <2>3
<1>3. RemoveAt(q, i) = front \o back
  BY DEF RemoveAt
<1> HIDE DEF front, back
<1>4. front \o back \in Seq(S) /\ Len(front \o back) = Len(q) - 1
  BY <1>0, <1>1, <1>2
<1>5. ASSUME NEW k \in 1 .. Len(q) - 1
      PROVE  (front \o back)[k] = IF k < i THEN q[k] ELSE q[k + 1]
  <2>0. k \in Nat
    BY <1>0
  <2>1. CASE k < i
    <3>1. k \in 1 .. Len(front) /\ k \in 1 .. i - 1
      BY <1>0, <1>1, <2>0, <2>1
    <3>2. (front \o back)[k] = front[k]
      BY <1>1, <1>2, <3>1, ConcatProperties
    <3> QED BY <1>1, <2>1, <3>1, <3>2
  <2>2. CASE ~ k < i
    <3>1. k - Len(front) \in 1 .. Len(back) /\ i + (k - Len(front)) = k + 1
      BY <1>0, <1>1, <1>2, <2>0, <2>2
    <3>2. (front \o back)[k] = back[k - Len(front)]
      BY <1>0, <1>1, <1>2, <2>0, <2>2
    <3>3. back[k - Len(front)] = q[i + (k - Len(front))]
      BY <1>2, <3>1
    <3> QED BY <2>2, <3>1, <3>2, <3>3
  <2> QED BY <2>1, <2>2
<1> QED BY <1>3, <1>4, <1>5

(* MMR moves one of the candidates to the hits.                            *)
LEMMA MoveFacts ==
    ASSUME NEW hs \in Seq(Hits), NEW q \in Seq(Hits), NEW i \in 1 .. Len(q),
           Unique(hs), Unique(q),
           \A k \in 1 .. Len(hs), j \in 1 .. Len(q) : hs[k].id # q[j].id
    PROVE  LET more == Append(hs, q[i])
               rest == RemoveAt(q, i)
           IN  /\ more \in Seq(Hits) /\ Len(more) = Len(hs) + 1 /\ Unique(more)
               /\ rest \in Seq(Hits) /\ Unique(rest)
               /\ \A k \in 1 .. Len(more), j \in 1 .. Len(rest) : more[k].id # rest[j].id
<1> DEFINE more == Append(hs, q[i])
           rest == RemoveAt(q, i)
<1>0. Len(hs) \in Nat /\ Len(q) \in Nat /\ i \in Nat
  OBVIOUS
<1>1. /\ more \in Seq(Hits) /\ Len(more) = Len(hs) + 1
      /\ \A k \in 1 .. Len(hs) : more[k] = hs[k]
      /\ more[Len(hs) + 1] = q[i]
  BY AppendProperties
<1>2. /\ rest \in Seq(Hits) /\ Len(rest) = Len(q) - 1
      /\ \A k \in 1 .. Len(q) - 1 : rest[k] = IF k < i THEN q[k] ELSE q[k + 1]
  BY RemoveFacts
<1> HIDE DEF more, rest
<1>3. \A k, j \in 1 .. Len(hs) : hs[k].id = hs[j].id => k = j
  BY UniqueFacts
<1>4. \A k, j \in 1 .. Len(q) : q[k].id = q[j].id => k = j
  BY UniqueFacts
<1>5. \A k, j \in 1 .. Len(more) : more[k].id = more[j].id => k = j
  <2> SUFFICES ASSUME NEW k \in 1 .. Len(more), NEW j \in 1 .. Len(more),
                      more[k].id = more[j].id, k < j
               PROVE  FALSE
    BY <1>0, <1>1
  <2>1. k \in 1 .. Len(hs)
    BY <1>0, <1>1
  <2>2. CASE j = Len(hs) + 1
    BY <1>1, <2>1, <2>2
  <2>3. CASE j # Len(hs) + 1
    <3>1. j \in 1 .. Len(hs)
      BY <1>0, <1>1, <2>3
    <3> QED BY <1>1, <1>3, <2>1, <3>1
  <2> QED BY <2>2, <2>3
<1>6. ASSUME NEW j \in 1 .. Len(rest)
      PROVE  \E l \in 1 .. Len(q) : rest[j] = q[l] /\ l # i /\ l = IF j < i THEN j ELSE j + 1
  BY <1>0, <1>2
<1>7. \A k, j \in 1 .. Len(rest) : rest[k].id = rest[j].id => k = j
  <2> SUFFICES ASSUME NEW k \in 1 .. Len(rest), NEW j \in 1 .. Len(rest),
                      rest[k].id = rest[j].id
               PROVE  k = j
    OBVIOUS
  <2>1. PICK l \in 1 .. Len(q) : rest[j] = q[l] /\ l = IF j < i THEN j ELSE j + 1
    BY <1>6
  <2>2. PICK m \in 1 .. Len(q) : rest[k] = q[m] /\ m = IF k < i THEN k ELSE k + 1
    BY <1>6
  <2>3. l = m
    BY <1>4, <2>1, <2>2
  <2> QED BY <1>0, <1>2, <2>1, <2>2, <2>3
<1>8. ASSUME NEW k \in 1 .. Len(more), NEW j \in 1 .. Len(rest)
      PROVE  more[k].id # rest[j].id
  <2>1. PICK l \in 1 .. Len(q) : rest[j] = q[l] /\ l # i
    BY <1>6
  <2>2. CASE k = Len(hs) + 1
    BY <1>1, <1>4, <2>1, <2>2
  <2>3. CASE k # Len(hs) + 1
    <3>1. k \in 1 .. Len(hs)
      BY <1>0, <1>1, <2>3
    <3> QED BY <1>1, <2>1, <3>1
  <2> QED BY <2>2, <2>3
<1>9. Unique(more) /\ Unique(rest)
  BY <1>1, <1>2, <1>5, <1>7, UniqueFacts
<1> QED BY <1>1, <1>2, <1>8, <1>9 DEF more, rest

LEMMA SelectStep == SearchInv /\ mmr => SearchInv'
<1> SUFFICES ASSUME SearchInv, mmr PROVE SearchInv'
  OBVIOUS
<1>0. Inputs /\ TypeOK /\ trail \in Seq(Seq(Hits)) /\ NothingElsewhere /\ AskedFollows /\ FoundOnce
  BY DEF SearchInv
<1>1. /\ pc = "mmr"
      /\ UNCHANGED <<inputs, retriever, asked, lists, trail, stage>>
  BY DEF mmr
<1>2. Inputs' /\ settings' = settings /\ page' = page /\ default_pipeline' = default_pipeline
  BY <1>0, <1>1, InputsStay
<1>3. /\ hits \in Seq(Hits) /\ pool \in Seq(Hits) /\ Unique(hits) /\ Unique(pool)
      /\ DOMAIN pool = 1 .. Len(pool) /\ DOMAIN hits = 1 .. Len(hits)
      /\ \A k \in 1 .. Len(hits), j \in 1 .. Len(pool) : hits[k].id # pool[j].id
      /\ Len(hits) <= asked.top_k /\ asked.top_k \in Nat /\ Len(hits) \in Nat
  <2>1. hits \in Seq(Hits) /\ pool \in Seq(Hits)
    BY <1>0 DEF TypeOK
  <2>2. DOMAIN pool = 1 .. Len(pool) /\ DOMAIN hits = 1 .. Len(hits) /\ Len(hits) \in Nat
    BY <2>1
  <2> QED BY <1>0, <1>1, <2>1, <2>2, AskedFacts DEF FoundOnce, Retrieving
<1>4. CASE pool # <<>> /\ Len(hits) < asked.top_k
  <2>1. PICK i \in Best : hits' = Append(hits, pool[i]) /\ pool' = RemoveAt(pool, i) /\ pc' = pc
    BY <1>4 DEF mmr
  <2>2. i \in 1 .. Len(pool)
    BY <1>3 DEF Best
  <2>3. /\ hits' \in Seq(Hits) /\ Len(hits') = Len(hits) + 1 /\ Unique(hits')
        /\ pool' \in Seq(Hits) /\ Unique(pool')
        /\ \A k \in 1 .. Len(hits'), j \in 1 .. Len(pool') : hits'[k].id # pool'[j].id
    BY <1>3, <2>1, <2>2, MoveFacts
  <2>4. DOMAIN pool' = 1 .. Len(pool') /\ DOMAIN hits' = 1 .. Len(hits')
    BY <2>3
  <2>5. TypeOK'
    BY <1>0, <1>1, <2>1, <2>3 DEF TypeOK
  <2>6. NothingElsewhere' /\ AskedFollows'
    BY <1>0, <1>1, <1>2, <2>1 DEF NothingElsewhere, AskedFollows, Ends
  <2>7. Len(hits') <= asked'.top_k
    BY <1>1, <1>3, <1>4, <2>3
  <2>8. FoundOnce'
    BY <1>1, <2>1, <2>3, <2>4, <2>7 DEF FoundOnce
  <2> QED BY <1>0, <1>1, <1>2, <2>5, <2>6, <2>8 DEF SearchInv
<1>5. CASE ~ (pool # <<>> /\ Len(hits) < asked.top_k)
  <2>1. pool' = <<>> /\ pc' = "above_threshold" /\ hits' = hits
    BY <1>5 DEF mmr
  <2>2. pool' \in Seq(Hits) /\ Unique(pool') /\ DOMAIN pool' = {}
    BY <2>1, EmptyFacts
  <2>3. TypeOK'
    BY <1>0, <1>1, <2>1, <2>2 DEF TypeOK
  <2>4. NothingElsewhere' /\ AskedFollows'
    BY <1>0, <1>1, <1>2, <2>1 DEF NothingElsewhere, AskedFollows, Ends
  <2>5. FoundOnce'
    BY <1>0, <1>1, <1>3, <2>1, <2>2 DEF FoundOnce
  <2> QED BY <1>0, <1>1, <1>2, <2>3, <2>4, <2>5 DEF SearchInv
<1> QED BY <1>4, <1>5

(* How a complete result of the base retriever goes on.                    *)
LEMMA AfterFacts ==
    ASSUME SearchInv, pc \in {"above_threshold", "sparse"},
           UNCHANGED <<inputs, retriever, asked, pool, trail, stage>>,
           hits' \in Seq(Hits), Unique(hits'), Len(hits') <= asked.top_k,
           pc' = AfterBase(hits')
    PROVE  SearchInv'
<1>0. Inputs /\ TypeOK /\ trail \in Seq(Seq(Hits)) /\ NothingElsewhere /\ AskedFollows /\ FoundOnce
  BY DEF SearchInv
<1>1. pc \notin {"build", "compress"} \cup Ends
  BY DEF Ends
<1>2. Inputs' /\ settings' = settings /\ page' = page /\ default_pipeline' = default_pipeline
  BY <1>0, InputsStay
<1>3. /\ asked.top_k \in Nat /\ page \in Nat
      /\ ~ retriever.compresses => asked.top_k = page
  BY <1>1, AskedFacts
<1>4. /\ pc' = IF retriever.compresses /\ hits' # <<>> THEN "compress" ELSE "documents"
      /\ pc' \in {"compress", "documents"}
  BY DEF AfterBase
<1>5. TypeOK'
  BY <1>0, <1>4 DEF TypeOK, Ends
<1>6. stage = 1 /\ 1 <= Len(default_pipeline) /\ pool = <<>>
  BY <1>0, <1>1, PipelineFacts DEF NothingElsewhere
<1>7. NothingElsewhere'
  BY <1>2, <1>4, <1>6 DEF NothingElsewhere, Ends
<1>8. AskedFollows'
  BY <1>0, <1>1, <1>2, <1>4 DEF AskedFollows
<1>9. FoundOnce'
  <2>1. Unique(pool') /\ DOMAIN pool' = {}
    BY <1>6, EmptyFacts
  <2>2. ASSUME pc' = "documents" PROVE Len(hits') <= page'
    <3>1. CASE retriever.compresses
      <4>1. hits' = <<>>
        BY <1>4, <2>2, <3>1
      <4> QED BY <1>2, <1>3, <4>1, EmptyFacts
    <3>2. CASE ~ retriever.compresses
      BY <1>2, <1>3, <3>2
    <3> QED BY <3>1, <3>2
  <2> QED BY <1>4, <2>1, <2>2 DEF FoundOnce, Retrieving
<1> QED BY <1>0, <1>2, <1>5, <1>7, <1>8, <1>9 DEF SearchInv

LEMMA ThresholdStep == SearchInv /\ _above_threshold => SearchInv'
<1> SUFFICES ASSUME SearchInv, _above_threshold PROVE SearchInv'
  OBVIOUS
<1>0. Inputs /\ TypeOK /\ trail \in Seq(Seq(Hits)) /\ NothingElsewhere /\ AskedFollows /\ FoundOnce
  BY DEF SearchInv
<1>1. /\ pc = "above_threshold"
      /\ hits' = Chosen(hits, Above(hits, settings.score_threshold))
      /\ pc' = IF retriever.base = "hybrid" /\ settings.sparse THEN "sparse" ELSE AfterBase(hits')
      /\ UNCHANGED <<inputs, retriever, asked, pool, lists, trail, stage>>
  BY DEF _above_threshold
<1>2. /\ hits \in Seq(Hits) /\ Unique(hits) /\ Len(hits) <= asked.top_k
      /\ asked.top_k \in Nat /\ Len(hits) \in Nat
  <2>1. hits \in Seq(Hits)
    BY <1>0 DEF TypeOK
  <2> QED BY <1>0, <1>1, <2>1, AskedFacts DEF FoundOnce, Retrieving
<1>3. hits' \in Seq(Hits) /\ Unique(hits') /\ Len(hits') <= Len(hits)
  BY <1>1, <1>2, AboveFacts
<1>4. Len(hits') <= asked.top_k
  <2>1. Len(hits') \in Nat
    BY <1>3
  <2> QED BY <1>2, <1>3, <2>1
<1>5. CASE pc' = "sparse"
  <2>1. Inputs' /\ settings' = settings /\ page' = page /\ default_pipeline' = default_pipeline
    BY <1>0, <1>1, InputsStay
  <2>2. TypeOK'
    BY <1>0, <1>1, <1>3, <1>5 DEF TypeOK
  <2>3. NothingElsewhere' /\ AskedFollows'
    BY <1>0, <1>1, <1>5, <2>1 DEF NothingElsewhere, AskedFollows, Ends
  <2>4. pool = <<>> /\ DOMAIN pool' = {}
    BY <1>0, <1>1 DEF NothingElsewhere
  <2>5. FoundOnce'
    BY <1>0, <1>1, <1>3, <1>4, <1>5, <2>4, EmptyFacts DEF FoundOnce
  <2> QED BY <1>0, <1>1, <2>1, <2>2, <2>3, <2>5 DEF SearchInv
<1>6. CASE pc' # "sparse"
  <2>1. pc' = AfterBase(hits')
    BY <1>1, <1>6
  <2> QED BY <1>1, <1>3, <1>4, <2>1, AfterFacts
<1> QED BY <1>5, <1>6

(* What a fused result is. *)
LEMMA FusedFacts ==
    ASSUME SearchInv, fuse
    PROVE  /\ hits' \in Seq(Hits) /\ Unique(hits') /\ Len(hits') <= asked.top_k
           /\ Descending(hits')
           /\ \A i, j \in 1 .. Len(hits') :
                 LET a == hits'[i].id  b == hits'[j].id
                 IN  (\A n \in 1 .. 2 :
                        /\ a \in ToSet(lists'[n]) /\ b \in ToSet(lists'[n])
                        /\ RankOf(a, lists'[n]) < RankOf(b, lists'[n]))
                     => i < j
<1>0. Inputs /\ TypeOK /\ trail \in Seq(Seq(Hits)) /\ NothingElsewhere /\ AskedFollows /\ FoundOnce
  BY DEF SearchInv
<1>1. PICK sparse \in SparseRankings :
         /\ lists' = <<Ids(hits), sparse>>
         /\ hits' = Page(_fuse(Ids(hits), sparse), asked.top_k)
  BY DEF fuse
<1>2. Ids(hits) \in Seq(Documents) /\ IsInjective(Ids(hits))
  BY <1>0, UniqueFacts DEF TypeOK, FoundOnce, Unique
<1>3. sparse \in Seq(Documents) /\ IsInjective(sparse)
  <2>1. PICK n \in 0 .. Cardinality(Documents) : sparse \in [1 .. n -> Documents]
    BY DEF SparseRankings
  <2>2. n \in Nat
    BY DocumentsFacts
  <2>3. sparse \in Seq(Documents)
    BY <2>1, <2>2
  <2> QED BY <2>3 DEF SparseRankings
<1>4. asked.top_k \in Nat
  BY AskedFacts DEF fuse
<1> DEFINE all == _fuse(Ids(hits), sparse)
<1>5. /\ all \in Seq(Hits) /\ Unique(all) /\ Descending(all)
      /\ \A i, j \in 1 .. Len(all) :
            /\ all[i].id \in ToSet(Ids(hits)) /\ all[j].id \in ToSet(Ids(hits))
            /\ all[i].id \in ToSet(sparse) /\ all[j].id \in ToSet(sparse)
            /\ RankOf(all[i].id, Ids(hits)) < RankOf(all[j].id, Ids(hits))
            /\ RankOf(all[i].id, sparse) < RankOf(all[j].id, sparse)
            => i < j
  BY <1>0, <1>2, <1>3, FuseFacts
<1> HIDE DEF all
<1>6. hits' \in Seq(Hits) /\ Unique(hits') /\ Descending(hits')
  BY <1>1, <1>4, <1>5, PageFacts, UniquePage, DescendingPage DEF all
<1>7. /\ Len(hits') \in Nat /\ Len(all) \in Nat
      /\ Len(hits') <= Len(all) /\ Len(hits') <= asked.top_k
      /\ \A i \in 1 .. Len(hits') : hits'[i] = all[i]
  <2>1. /\ Len(hits') = IF asked.top_k <= Len(all) THEN asked.top_k ELSE Len(all)
        /\ \A i \in 1 .. Len(hits') : hits'[i] = all[i]
    BY <1>1, <1>4, <1>5, PageFacts DEF all
  <2>2. Len(all) \in Nat
    BY <1>5
  <2> QED BY <1>4, <2>1, <2>2
<1>8. lists'[1] = Ids(hits) /\ lists'[2] = sparse
  BY <1>1
<1>9. ASSUME NEW i \in 1 .. Len(hits'), NEW j \in 1 .. Len(hits'),
             \A n \in 1 .. 2 :
                /\ hits'[i].id \in ToSet(lists'[n]) /\ hits'[j].id \in ToSet(lists'[n])
                /\ RankOf(hits'[i].id, lists'[n]) < RankOf(hits'[j].id, lists'[n])
      PROVE  i < j
  <2>1. i \in 1 .. Len(all) /\ j \in 1 .. Len(all) /\ hits'[i] = all[i] /\ hits'[j] = all[j]
    BY <1>7
  <2>2. 1 \in 1 .. 2 /\ 2 \in 1 .. 2
    OBVIOUS
  <2> QED BY <1>5, <1>8, <1>9, <2>1, <2>2
<1> QED BY <1>6, <1>7, <1>9

LEMMA FuseStep == SearchInv /\ fuse => SearchInv'
<1> SUFFICES ASSUME SearchInv, fuse PROVE SearchInv'
  OBVIOUS
<1>1. /\ pc = "sparse" /\ pc' = AfterBase(hits')
      /\ UNCHANGED <<inputs, retriever, asked, pool, trail, stage>>
  BY DEF fuse
<1> QED BY <1>1, FusedFacts, AfterFacts

(* Where a stage stands in the pipeline. *)
LEMMA StagePlaces ==
    ASSUME SearchInv, pc = "compress"
    PROVE  /\ Len(default_pipeline) \in {3, 4} /\ stage \in 1 .. 4
           /\ stage \in 1 .. 2 => stage # Len(default_pipeline)
           /\ stage > 2 /\ stage # Len(default_pipeline) =>
                 stage = 3 /\ Len(default_pipeline) = 4
<1>1. ASSUME NEW l \in {3, 4}, NEW s \in 1 .. 5, s <= l
      PROVE  /\ s \in 1 .. 4
             /\ s \in 1 .. 2 => s # l
             /\ s > 2 /\ s # l => s = 3 /\ l = 4
  BY <1>1
<1>2. stage \in 1 .. 5 /\ stage <= Len(default_pipeline)
  BY DEF SearchInv, TypeOK, NothingElsewhere
<1>3. Len(default_pipeline) \in {3, 4}
  BY PipelineFacts
<1> QED BY <1>1, <1>2, <1>3

(* What a stage of the pipeline leaves. *)
LEMMA StageFacts ==
    ASSUME SearchInv, pc = "compress"
    PROVE  LET kept == compress(default_pipeline[stage], hits)
           IN  /\ kept \in Seq(Hits) /\ Unique(kept)
               /\ stage > 1 => kept # <<>>
               /\ stage = 1 /\ (\E h \in ToSet(hits) : h.score >= Fine(settings.min_relevance)) =>
                     kept # <<>>
               /\ stage = 2 => Thinned(hits, kept)
               /\ stage = Len(default_pipeline) =>
                     Spent(kept)[Len(kept)] <= settings.max_characters
<1> DEFINE kept == compress(default_pipeline[stage], hits)
<1>1. /\ Inputs /\ hits \in Seq(Hits) /\ Unique(hits) /\ hits # <<>>
      /\ stage \in 1 .. 5 /\ stage <= Len(default_pipeline)
  BY DEF SearchInv, TypeOK, FoundOnce, NothingElsewhere
<1>2. /\ Len(default_pipeline) \in {3, 4} /\ stage \in 1 .. 4
      /\ stage \in 1 .. 2 => stage # Len(default_pipeline)
      /\ stage > 2 /\ stage # Len(default_pipeline) => stage = 3 /\ Len(default_pipeline) = 4
  BY StagePlaces
<1>3. CASE stage = 1
  <2>1. kept = Chosen(hits, Above(hits, settings.min_relevance))
    BY <1>3, PipelineFacts DEF compress, ScoreThresholdCompressor
  <2>2. /\ kept \in Seq(Hits) /\ Unique(kept)
        /\ (\E h \in ToSet(hits) : h.score >= Fine(settings.min_relevance)) => kept # <<>>
    BY <1>1, <2>1, AboveFacts
  <2>3. ~ stage > 1 /\ stage # 2 /\ stage # Len(default_pipeline)
    BY <1>2, <1>3
  <2> QED BY <1>3, <2>2, <2>3
<1>4. CASE stage = 2
  <2>1. kept = RedundancyCompressor(hits)
    BY <1>4, PipelineFacts DEF compress
  <2> QED BY <1>1, <1>2, <1>4, <2>1, RedundancyFacts
<1>5. CASE stage > 2 /\ stage = Len(default_pipeline)
  <2>1. kept = BudgetCompressor(hits)
    BY <1>5, PipelineFacts DEF compress
  <2> QED BY <1>1, <1>2, <1>5, <2>1, BudgetFacts
<1>6. CASE stage > 2 /\ stage # Len(default_pipeline)
  <2>1. stage = 3 /\ Len(default_pipeline) = 4
    BY <1>2, <1>6
  <2>2. kept = SentenceCompressor(hits)
    BY <2>1, PipelineFacts DEF compress
  <2>3. kept \in Seq(Hits) /\ Unique(kept) /\ Len(kept) = Len(hits)
    BY <1>1, <2>2, SentenceFacts
  <2>4. kept # <<>>
    <3> HIDE DEF kept
    <3> QED BY <1>1, <2>3, EmptySeq
  <2> QED BY <2>1, <2>3, <2>4
<1> QED BY <1>1, <1>2, <1>3, <1>4, <1>5, <1>6

(* A step of the pipeline. *)
LEMMA RunFacts ==
    ASSUME SearchInv, _run_pipeline
    PROVE  LET kept == compress(default_pipeline[stage], hits)
               over == stage = Len(default_pipeline) \/ kept = <<>>
           IN  /\ pc = "compress"
               /\ hits' = IF over THEN Page(kept, page) ELSE kept
               /\ pc' = IF over THEN "documents" ELSE "compress"
               /\ UNCHANGED <<inputs, retriever, asked, pool, lists>>
               /\ stage' = stage + 1 /\ stage \in 1 .. 4
               /\ trail' \in Seq(Seq(Hits)) /\ Len(trail') = stage
               /\ trail'[stage] = hits
               /\ \A i \in 1 .. stage - 1 : trail'[i] = trail[i]
               /\ hits' \in Seq(Hits) /\ Unique(hits')
               /\ over => Len(hits') <= page
               /\ kept # <<>> => hits' # <<>>
               /\ stage = 2 => ~ over
<1> DEFINE kept == compress(default_pipeline[stage], hits)
           over == stage = Len(default_pipeline) \/ kept = <<>>
<1>1. /\ pc = "compress"
      /\ hits' = IF over THEN Page(kept, page) ELSE kept
      /\ pc' = IF over THEN "documents" ELSE "compress"
      /\ UNCHANGED <<inputs, retriever, asked, pool, lists>>
      /\ stage' = stage + 1
      /\ trail' = Append(trail, hits)
  BY DEF _run_pipeline
<1>2. /\ Inputs /\ hits \in Seq(Hits) /\ trail \in Seq(Seq(Hits)) /\ Len(trail) = stage - 1
      /\ stage \in 1 .. 5 /\ stage <= Len(default_pipeline)
  BY <1>1 DEF SearchInv, TypeOK, NothingElsewhere
<1>3. /\ Len(default_pipeline) \in {3, 4} /\ stage \in 1 .. 4
      /\ stage \in 1 .. 2 => stage # Len(default_pipeline)
  BY <1>1, StagePlaces
<1>4. kept \in Seq(Hits) /\ Unique(kept) /\ (stage = 2 => kept # <<>>)
  BY <1>1, <1>3, StageFacts
<1>5. page \in Nat \ {0}
  BY <1>2, SettingsFacts
<1> HIDE DEF kept
<1>6. /\ trail' \in Seq(Seq(Hits)) /\ Len(trail') = stage
      /\ trail'[stage] = hits
      /\ \A i \in 1 .. stage - 1 : trail'[i] = trail[i]
  BY <1>1, <1>2, AppendProperties
<1>7. stage = 2 => ~ over
  BY <1>3, <1>4
<1>8. CASE over
  <2>1. hits' = Page(kept, page)
    BY <1>1, <1>8
  <2>2. hits' \in Seq(Hits) /\ Len(hits') = IF page <= Len(kept) THEN page ELSE Len(kept)
    BY <1>4, <1>5, <2>1, PageFacts
  <2>3. Unique(hits')
    BY <1>4, <1>5, <2>1, UniquePage
  <2>4. Len(kept) \in Nat /\ (kept # <<>> => Len(kept) > 0)
    BY <1>4, EmptySeq
  <2>5. Len(hits') <= page /\ (kept # <<>> => Len(hits') > 0)
    BY <1>5, <2>2, <2>4
  <2>6. kept # <<>> => hits' # <<>>
    BY <2>2, <2>5, EmptyFacts
  <2> QED BY <1>1, <1>3, <1>6, <1>7, <2>2, <2>3, <2>5, <2>6 DEF kept
<1>9. CASE ~ over
  <2>1. hits' = kept
    BY <1>1, <1>9
  <2> QED BY <1>1, <1>3, <1>4, <1>6, <1>7, <1>9, <2>1 DEF kept
<1> QED BY <1>8, <1>9

LEMMA RunStep == SearchInv /\ _run_pipeline => SearchInv'
<1> SUFFICES ASSUME SearchInv, _run_pipeline PROVE SearchInv'
  OBVIOUS
<1> DEFINE kept == compress(default_pipeline[stage], hits)
           over == stage = Len(default_pipeline) \/ kept = <<>>
<1>0. Inputs /\ TypeOK /\ NothingElsewhere /\ AskedFollows /\ FoundOnce
  BY DEF SearchInv
<1>1. /\ pc = "compress"
      /\ hits' = IF over THEN Page(kept, page) ELSE kept
      /\ pc' = IF over THEN "documents" ELSE "compress"
      /\ UNCHANGED <<inputs, retriever, asked, pool, lists>>
      /\ stage' = stage + 1 /\ stage \in 1 .. 4
      /\ trail' \in Seq(Seq(Hits)) /\ Len(trail') = stage
      /\ hits' \in Seq(Hits) /\ Unique(hits')
      /\ over => Len(hits') <= page
      /\ kept # <<>> => hits' # <<>>
  BY RunFacts
<1> HIDE DEF kept
<1>2. Inputs' /\ settings' = settings /\ page' = page /\ default_pipeline' = default_pipeline
  BY <1>0, <1>1, InputsStay
<1>3. pc' \in {"compress", "documents"}
  BY <1>1
<1>4. TypeOK'
  BY <1>0, <1>1, <1>3, SMTT(20) DEF TypeOK, Ends
<1>5. stage <= Len(default_pipeline) /\ Len(default_pipeline) \in {3, 4}
  BY <1>0, <1>1, PipelineFacts DEF NothingElsewhere
<1>6. NothingElsewhere'
  <2>1. pool' = <<>>
    BY <1>0, <1>1 DEF NothingElsewhere
  <2>2. pc' = "compress" => hits' # <<>> /\ stage' <= Len(default_pipeline')
    BY <1>1, <1>2, <1>5
  <2> QED BY <1>3, <2>1, <2>2 DEF NothingElsewhere, Ends
<1>7. AskedFollows'
  BY <1>0, <1>1, <1>2, <1>3 DEF AskedFollows
<1>8. FoundOnce'
  <2>1. Unique(pool') /\ DOMAIN pool' = {}
    BY <1>0, <1>1, EmptyFacts DEF NothingElsewhere
  <2>2. pc' = "documents" => Len(hits') <= page'
    BY <1>1, <1>2
  <2> QED BY <1>1, <1>3, <2>1, <2>2 DEF FoundOnce, Retrieving
<1> QED BY <1>1, <1>2, <1>4, <1>6, <1>7, <1>8 DEF SearchInv

LEMMA ErrorStep == SearchInv /\ DependencyError => SearchInv'
<1> SUFFICES ASSUME SearchInv, DependencyError PROVE SearchInv'
  OBVIOUS
<1>0. Inputs /\ TypeOK /\ trail \in Seq(Seq(Hits)) /\ NothingElsewhere /\ AskedFollows /\ FoundOnce
  BY DEF SearchInv
<1>1. /\ pc \in {"search", "sparse", "compress"}
      /\ pc' = "dependency_error" /\ hits' = <<>>
      /\ UNCHANGED <<inputs, retriever, asked, pool, lists, trail, stage>>
  BY DEF DependencyError
<1>2. Inputs' /\ settings' = settings /\ page' = page /\ default_pipeline' = default_pipeline
  BY <1>0, <1>1, InputsStay
<1>3. TypeOK'
  BY <1>0, <1>1, EmptyFacts DEF TypeOK, Ends
<1>4. NothingElsewhere' /\ AskedFollows'
  BY <1>0, <1>1, <1>2 DEF NothingElsewhere, AskedFollows, Ends
<1>5. FoundOnce'
  <2>1. pool = <<>>
    BY <1>0, <1>1 DEF NothingElsewhere
  <2> QED BY <1>0, <1>1, <2>1, EmptyFacts DEF FoundOnce, Retrieving
<1> QED BY <1>0, <1>1, <1>2, <1>3, <1>4, <1>5 DEF SearchInv

LEMMA SearchStutter == SearchInv /\ UNCHANGED vars => SearchInv'
<1> SUFFICES ASSUME SearchInv, UNCHANGED vars PROVE SearchInv'
  OBVIOUS
<1>0. Inputs /\ TypeOK /\ trail \in Seq(Seq(Hits)) /\ NothingElsewhere /\ AskedFollows /\ FoundOnce
  BY DEF SearchInv
<1>1. UNCHANGED <<inputs, pc, retriever, asked, pool, hits, lists, trail, stage>>
  BY DEF vars, inputs
<1>2. Inputs' /\ settings' = settings /\ page' = page /\ default_pipeline' = default_pipeline
  BY <1>0, <1>1, InputsStay
<1>3. TypeOK' /\ NothingElsewhere' /\ AskedFollows' /\ FoundOnce'
  BY <1>0, <1>1, <1>2 DEF TypeOK, NothingElsewhere, AskedFollows, FoundOnce
<1> QED BY <1>0, <1>1, <1>2, <1>3 DEF SearchInv

LEMMA SearchNext == SearchInv /\ [Next]_vars => SearchInv'
BY BuildStep, HybridStep, PrepareStep, SearchStep, SelectStep, ThresholdStep, FuseStep,
   RunStep, ErrorStep, SearchStutter DEF Next

-----------------------------------------------------------------------------
(* The theorems *)

(* What a search holds between its steps. *)
THEOREM SearchAlways == Spec => []SearchInv
BY SearchInit, SearchNext, PTL DEF Spec

(* Every variable has its type. *)
THEOREM RetrievalTypes == Spec => []TypeOK
<1>1. SearchInv => TypeOK
  BY DEF SearchInv
<1> QED BY <1>1, SearchAlways, PTL

(* A result never exceeds the page the caller asked for and never names a  *)
(* document twice, whatever the strategy, the settings and the query.      *)
THEOREM ResultsArePages == Spec => []ResultIsAPage
<1>1. SearchInv => ResultIsAPage
  <2> SUFFICES ASSUME SearchInv, pc \in Ends PROVE Len(hits) <= page /\ IsInjective(Ids(hits))
    BY DEF ResultIsAPage
  <2>1. page \in Nat
    BY AskedFacts DEF Ends
  <2>2. CASE pc = "documents"
    BY <2>2 DEF SearchInv, FoundOnce, Unique
  <2>3. CASE pc # "documents"
    <3>1. hits = <<>>
      BY <2>3 DEF SearchInv, NothingElsewhere, Ends
    <3> QED BY <2>1, <3>1, EmptyFacts DEF Unique
  <2> QED BY <2>2, <2>3
<1> QED BY <1>1, SearchAlways, PTL

(* Fusion never reverses what both rankings agree on. *)
THEOREM AgreementIsKept == Spec => []FusionKeepsAgreement
<1>1. Init => FusionKeepsAgreement
  BY DEF Init, FusionKeepsAgreement
<1>2. SearchInv /\ FusionKeepsAgreement /\ [Next]_vars => FusionKeepsAgreement'
  <2> SUFFICES ASSUME SearchInv, FusionKeepsAgreement, [Next]_vars
               PROVE  FusionKeepsAgreement'
    OBVIOUS
  <2>0. NothingElsewhere /\ TypeOK /\ trail \in Seq(Seq(Hits))
    BY DEF SearchInv
  <2>1. ASSUME pc \notin {"compress"} \cup Ends, lists' = lists PROVE FusionKeepsAgreement'
    BY <2>0, <2>1 DEF NothingElsewhere, FusionKeepsAgreement
  <2>2. CASE for_query \/ hybrid \/ prepare \/ search \/ mmr \/ _above_threshold
    <3>1. pc \notin {"compress"} \cup Ends /\ lists' = lists
      BY <2>2 DEF for_query, hybrid, prepare, search, mmr, _above_threshold, Ends
    <3> QED BY <2>1, <3>1
  <2>3. CASE fuse
    <3>1. /\ hits' \in Seq(Hits)
          /\ \A i, j \in 1 .. Len(hits') :
                LET a == hits'[i].id  b == hits'[j].id
                IN  (\A n \in 1 .. 2 :
                       /\ a \in ToSet(lists'[n]) /\ b \in ToSet(lists'[n])
                       /\ RankOf(a, lists'[n]) < RankOf(b, lists'[n]))
                    => i < j
      BY <2>3, FusedFacts
    <3>2. DOMAIN hits' = 1 .. Len(hits')
      BY <3>1
    <3>3. ASSUME NEW i \in 1 .. Len(hits'), NEW j \in 1 .. Len(hits'),
                 {hits'[i].id, hits'[j].id} \subseteq ToSet(lists'[1]),
                 {hits'[i].id, hits'[j].id} \subseteq ToSet(lists'[2]),
                 RankOf(hits'[i].id, lists'[1]) < RankOf(hits'[j].id, lists'[1]),
                 RankOf(hits'[i].id, lists'[2]) < RankOf(hits'[j].id, lists'[2])
          PROVE  i < j
      <4>1. \A n \in 1 .. 2 : n = 1 \/ n = 2
        OBVIOUS
      <4>2. \A n \in 1 .. 2 :
               /\ hits'[i].id \in ToSet(lists'[n]) /\ hits'[j].id \in ToSet(lists'[n])
               /\ RankOf(hits'[i].id, lists'[n]) < RankOf(hits'[j].id, lists'[n])
        BY <3>3, <4>1
      <4> QED BY <3>1, <4>2
    <3> QED BY <3>2, <3>3 DEF FusionKeepsAgreement
  <2>4. CASE _run_pipeline
    <3>1. trail' # <<>>
      <4>1. Len(trail') = stage /\ stage \in 1 .. 4
        BY <2>4, RunFacts
      <4> QED BY <4>1, EmptyFacts
    <3> QED BY <3>1 DEF FusionKeepsAgreement
  <2>5. CASE DependencyError
    <3>1. DOMAIN hits' = {}
      BY <2>5 DEF DependencyError
    <3> QED BY <3>1 DEF FusionKeepsAgreement
  <2>6. CASE UNCHANGED vars
    BY <2>6 DEF vars, FusionKeepsAgreement
  <2> QED BY <2>2, <2>3, <2>4, <2>5, <2>6 DEF Next
<1> QED BY <1>1, <1>2, SearchAlways, PTL DEF Spec

(* A pipeline drops the near-duplicates of what it keeps, and nothing else *)
(* as redundant, however many documents it compares.                       *)
THEOREM CopiesAreDropped == Spec => []RedundantCopiesAreDropped
<1> DEFINE Drops == pc \in {"compress", "documents"} /\ stage > 2 =>
                       Thinned(trail[2], IF stage = 3 THEN hits ELSE trail[3])
<1>1. Init => Drops
  BY DEF Init
<1>2. SearchInv /\ Drops /\ [Next]_vars => Drops'
  <2> SUFFICES ASSUME SearchInv, Drops, [Next]_vars,
                      pc' \in {"compress", "documents"}, stage' > 2
               PROVE  Thinned(trail[2], IF stage = 3 THEN hits ELSE trail[3])'
    OBVIOUS
  <2>0. NothingElsewhere /\ TypeOK /\ Inputs
    BY DEF SearchInv
  <2>1. ASSUME pc \notin {"compress"} \cup Ends, stage' = stage PROVE FALSE
    BY <2>0, <2>1 DEF NothingElsewhere
  <2>2. CASE for_query \/ hybrid \/ prepare \/ search \/ mmr \/ _above_threshold \/ fuse
    <3>1. pc \notin {"compress"} \cup Ends /\ stage' = stage
      BY <2>2 DEF for_query, hybrid, prepare, search, mmr, _above_threshold, fuse, Ends
    <3> QED BY <2>1, <3>1
  <2>3. CASE _run_pipeline
    <3> DEFINE kept == compress(default_pipeline[stage], hits)
               over == stage = Len(default_pipeline) \/ kept = <<>>
    <3>1. /\ pc = "compress" /\ stage' = stage + 1 /\ stage \in 1 .. 4
          /\ UNCHANGED inputs
          /\ hits' = IF over THEN Page(kept, page) ELSE kept
          /\ stage = 2 => ~ over
          /\ trail'[stage] = hits
          /\ \A i \in 1 .. stage - 1 : trail'[i] = trail[i]
      BY <2>3, RunFacts
    <3>2. stage = 2 => Thinned(hits, kept)
      BY <3>1, StageFacts
    <3> HIDE DEF kept
    <3>3. \A a, b : Thinned(a, b)' <=> Thinned(a, b)
      BY <3>1 DEF inputs, Thinned, Stays, Near
    <3>4. CASE stage = 2
      <4>1. trail'[2] = hits /\ hits' = kept /\ stage' = 3
        BY <3>1, <3>4
      <4> QED BY <3>2, <3>3, <3>4, <4>1
    <3>5. CASE stage = 3
      <4>1. trail'[2] = trail[2] /\ trail'[3] = hits /\ stage' = 4
        BY <3>1, <3>5
      <4>2. Thinned(trail[2], hits)
        BY <3>1, <3>5
      <4> QED BY <3>3, <4>1, <4>2
    <3>6. CASE stage = 4
      <4>1. trail'[2] = trail[2] /\ trail'[3] = trail[3] /\ stage' = 5
        BY <3>1, <3>6
      <4>2. Thinned(trail[2], trail[3])
        BY <3>1, <3>6
      <4> QED BY <3>3, <4>1, <4>2
    <3> QED BY <3>1, <3>4, <3>5, <3>6
  <2>4. CASE DependencyError
    BY <2>4 DEF DependencyError
  <2>5. CASE UNCHANGED vars
    <3>1. Thinned(trail[2], IF stage = 3 THEN hits ELSE trail[3])
      BY <2>5 DEF vars
    <3> QED BY <2>5, <3>1 DEF vars, Thinned, Stays, Near
  <2> QED BY <2>2, <2>3, <2>4, <2>5 DEF Next
<1>3. Drops => RedundantCopiesAreDropped
  BY DEF RedundantCopiesAreDropped, Thinned, Stays
<1> HIDE DEF Drops
<1> QED BY <1>1, <1>2, <1>3, SearchAlways, PTL DEF Spec

(* A hit above the bar leaves context within the budget, whichever stages  *)
(* the pipeline has and whatever the documents' lengths.                   *)
THEOREM GoodHitsLeaveContext == Spec => []GoodHitsYieldContext
<1>1. Init => GoodHitsYieldContext
  BY DEF Init, GoodHitsYieldContext
<1>2. SearchInv /\ GoodHitsYieldContext /\ [Next]_vars => GoodHitsYieldContext'
  <2> SUFFICES ASSUME SearchInv, GoodHitsYieldContext, [Next]_vars,
                      (pc = "documents" /\ trail # <<>>)'
               PROVE  GoodHitsYieldContext'
    BY DEF GoodHitsYieldContext
  <2>0. NothingElsewhere /\ TypeOK /\ Inputs /\ TypeOK' /\ trail' \in Seq(Seq(Hits))
    BY SearchNext DEF SearchInv
  <2>1. ASSUME pc \notin {"compress"} \cup Ends, trail' = trail PROVE FALSE
    BY <2>0, <2>1 DEF NothingElsewhere, TypeOK, SearchInv
  <2>2. CASE for_query \/ hybrid \/ prepare \/ search \/ mmr \/ _above_threshold \/ fuse
    <3>1. pc \notin {"compress"} \cup Ends /\ trail' = trail
      BY <2>2 DEF for_query, hybrid, prepare, search, mmr, _above_threshold, fuse, Ends
    <3> QED BY <2>1, <3>1
  <2>3. CASE _run_pipeline
    <3> DEFINE kept == compress(default_pipeline[stage], hits)
               over == stage = Len(default_pipeline) \/ kept = <<>>
               good(hs) == \E h \in ToSet(hs) : h.score >= Fine(settings.min_relevance)
    <3>1. /\ pc = "compress" /\ stage \in 1 .. 4 /\ UNCHANGED inputs
          /\ pc' = IF over THEN "documents" ELSE "compress"
          /\ hits' = IF over THEN Page(kept, page) ELSE kept
          /\ trail'[stage] = hits
          /\ hits' \in Seq(Hits)
          /\ kept # <<>> => hits' # <<>>
      BY <2>3, RunFacts
    <3>2. /\ kept \in Seq(Hits)
          /\ stage > 1 => kept # <<>>
          /\ stage = 1 /\ good(hits) => kept # <<>>
          /\ stage = Len(default_pipeline) => Spent(kept)[Len(kept)] <= settings.max_characters
      BY <3>1, StageFacts
    <3> HIDE DEF kept
    <3>3. over /\ hits' = Page(kept, page) /\ settings' = settings
      BY <3>1 DEF inputs
    <3>4. good(trail'[1]) => hits' # <<>>
      BY <3>1, <3>2
    <3>5. \A h \in ToSet(hits') : h.length > 0
      <4>1. \A i \in DOMAIN hits' : hits'[i] \in Hits
        BY <3>1
      <4> QED BY <4>1 DEF ToSet, Hits
    <3>6. Spent(hits')[Len(hits')] <= settings.max_characters
      <4>1. settings.max_characters \in Nat /\ page \in Nat
        BY <2>0, SettingsFacts
      <4>2. Spent(kept)[Len(kept)] <= settings.max_characters
        <5>1. CASE kept = <<>>
          <6>1. Len(kept) = 0 /\ Spent(kept)[0] = 0
            BY <3>2, <5>1, EmptyFacts, SpentFacts
          <6> QED BY <4>1, <6>1
        <5>2. CASE kept # <<>>
          BY <3>2, <3>3, <5>2
        <5> QED BY <5>1, <5>2
      <4> QED BY <3>2, <3>3, <4>1, <4>2, PageWithinBudget
    <3>7. Spent(hits)' = Spent(hits') /\ Fine(settings.min_relevance)' = Fine(settings.min_relevance)
      BY <3>3 DEF Spent, Fine, RankProduct, Products
    <3> QED BY <3>3, <3>4, <3>5, <3>6, <3>7 DEF GoodHitsYieldContext
  <2>4. CASE DependencyError
    BY <2>4 DEF DependencyError
  <2>5. CASE UNCHANGED vars
    BY <2>5 DEF vars, GoodHitsYieldContext, Fine, RankProduct, Products
  <2> QED BY <2>2, <2>3, <2>4, <2>5 DEF Next
<1> QED BY <1>1, <1>2, SearchAlways, PTL DEF Spec
(* Hits found by similarity, or fused, come in the order of their scores   *)
(* until copies have been dropped.                                         *)
Sorted ==
    /\ pc = "mmr" => asked.search_type = "mmr"
    /\ /\ pc \in {"above_threshold", "sparse", "compress"} /\ stage \in 1 .. 2
       /\ asked.search_type = "similarity" \/ lists # None
       => Descending(hits)

LEMMA SortedNext == SearchInv /\ Sorted /\ [Next]_vars => Sorted'
<1> SUFFICES ASSUME SearchInv, Sorted, [Next]_vars PROVE Sorted'
  OBVIOUS
<1>0. NothingElsewhere /\ TypeOK /\ Inputs /\ FoundOnce /\ hits \in Seq(Hits)
  BY DEF SearchInv, TypeOK
<1>1. CASE for_query \/ hybrid \/ prepare
  <2>1. pc' \in {"vector", "hybrid", "search", "validation_error"}
    <3>1. ASSUME for_query PROVE pc' \in {"vector", "hybrid"}
      BY <3>1 DEF for_query
    <3> QED BY <1>1, <3>1 DEF hybrid, prepare
  <2> QED BY <2>1 DEF Sorted
<1>2. CASE search
  <2>1. CASE asked.search_type = "mmr"
    BY <1>2, <2>1 DEF search, Sorted
  <2>2. CASE asked.search_type # "mmr"
    <3>1. pc' = "above_threshold" /\ hits' = search_by_vector(asked.top_k)
      BY <1>2, <2>2 DEF search
    <3>2. asked.top_k \in Nat
      BY <1>2, AskedFacts DEF search
    <3>3. Descending(hits')
      BY <1>0, <3>1, <3>2, SearchFacts
    <3> QED BY <3>1, <3>3 DEF Sorted
  <2> QED BY <2>1, <2>2
<1>3. CASE mmr
  <2>1. pc = "mmr" /\ asked' = asked /\ lists' = lists
    BY <1>3 DEF mmr
  <2>2. asked'.search_type = "mmr" /\ lists' = None
    BY <1>0, <2>1 DEF NothingElsewhere, Sorted, Ends
  <2> QED BY <2>2 DEF Sorted
<1>4. CASE _above_threshold
  <2>1. /\ pc = "above_threshold" /\ pc' # "mmr" /\ asked' = asked /\ lists' = lists
        /\ hits' = Chosen(hits, Above(hits, settings.score_threshold))
    BY <1>4 DEF _above_threshold, AfterBase
  <2>2. lists = None /\ stage = 1
    BY <1>0, <2>1 DEF NothingElsewhere, Ends
  <2>3. ASSUME asked.search_type = "similarity" PROVE Descending(hits')
    <3>1. Descending(hits)
      BY <2>1, <2>2, <2>3 DEF Sorted
    <3>2. Above(hits, settings.score_threshold) \in SUBSET (1 .. Len(hits))
      BY <1>0 DEF Above
    <3> QED BY <1>0, <2>1, <3>1, <3>2, DescendingChosen
  <2> QED BY <2>1, <2>2, <2>3 DEF Sorted
<1>5. CASE fuse
  <2>1. pc' # "mmr"
    BY <1>5 DEF fuse, AfterBase
  <2> QED BY <1>5, <2>1, FusedFacts DEF Sorted
<1>6. CASE _run_pipeline
  <2> DEFINE kept == compress(default_pipeline[stage], hits)
  <2>1. /\ pc = "compress" /\ pc' # "mmr" /\ stage' = stage + 1 /\ stage \in 1 .. 4
        /\ asked' = asked /\ lists' = lists
        /\ pc' = "compress" => hits' = kept
    BY <1>6, RunFacts
  <2>2. ASSUME stage = 1, Descending(hits) PROVE Descending(kept)
    <3>1. kept = Chosen(hits, Above(hits, settings.min_relevance))
      BY <2>2, PipelineFacts DEF compress, ScoreThresholdCompressor
    <3>2. Above(hits, settings.min_relevance) \in SUBSET (1 .. Len(hits))
      BY <1>0 DEF Above
    <3> QED BY <1>0, <2>2, <3>1, <3>2, DescendingChosen
  <2>3. pc' \notin {"above_threshold", "sparse"}
    BY <1>6, RunFacts
  <2> HIDE DEF kept
  <2>4. stage' \in 1 .. 2 => stage = 1
    BY <2>1
  <2> QED BY <2>1, <2>2, <2>3, <2>4 DEF Sorted
<1>7. CASE DependencyError
  BY <1>7 DEF DependencyError, Sorted
<1>8. CASE UNCHANGED vars
  BY <1>8 DEF vars, Sorted, Descending
<1> QED BY <1>1, <1>2, <1>3, <1>4, <1>5, <1>6, <1>7, <1>8 DEF Next

(* Of near-duplicates found by similarity, or fused, the one that scores   *)
(* highest is kept, however many there are.                                *)
THEOREM BestCopiesAreKept == Spec => []BestCopyIsKept
<1>1. Init => Sorted /\ BestCopyIsKept
  BY DEF Init, Sorted, BestCopyIsKept, HigherScoringCopyIsKept
<1>2. SearchInv /\ Sorted /\ BestCopyIsKept /\ [Next]_vars => BestCopyIsKept'
  <2> SUFFICES ASSUME SearchInv, Sorted, BestCopyIsKept, [Next]_vars,
                      pc' = "compress", stage' = 3,
                      asked'.search_type = "similarity" \/ lists' # None
               PROVE  HigherScoringCopyIsKept'
    BY DEF BestCopyIsKept, HigherScoringCopyIsKept
  <2>0. NothingElsewhere /\ TypeOK /\ Inputs /\ hits \in Seq(Hits)
    BY DEF SearchInv, TypeOK
  <2>1. ASSUME pc \notin {"compress"} \cup Ends, stage' = stage PROVE FALSE
    BY <2>0, <2>1 DEF NothingElsewhere
  <2>2. CASE for_query \/ hybrid \/ prepare \/ search \/ mmr \/ _above_threshold \/ fuse
    <3>1. pc \notin {"compress"} \cup Ends /\ stage' = stage
      BY <2>2 DEF for_query, hybrid, prepare, search, mmr, _above_threshold, fuse, Ends
    <3> QED BY <2>1, <3>1
  <2>3. CASE _run_pipeline
    <3> DEFINE kept == compress(default_pipeline[stage], hits)
    <3>1. /\ pc = "compress" /\ stage' = stage + 1 /\ stage \in 1 .. 4
          /\ UNCHANGED inputs /\ asked' = asked /\ lists' = lists
          /\ hits' = kept
          /\ trail'[stage] = hits
      BY <2>3, RunFacts
    <3>2. stage = 2
      BY <3>1
    <3>3. kept = RedundancyCompressor(hits)
      BY <3>2, PipelineFacts DEF compress
    <3> HIDE DEF kept
    <3>4. Descending(hits)
      BY <3>1, <3>2 DEF Sorted
    <3>5. \A h \in ToSet(hits) \ ToSet(kept) :
             \E k \in ToSet(kept) : Near(h, k) /\ k.score >= h.score
      BY <2>0, <3>3, <3>4, BestIsKept
    <3>6. \A a, b : Near(a, b)' <=> Near(a, b)
      BY <3>1 DEF inputs, Near
    <3>7. trail'[2] = hits /\ hits' = kept
      BY <3>1, <3>2
    <3> QED BY <3>5, <3>6, <3>7 DEF HigherScoringCopyIsKept
  <2>4. CASE DependencyError
    BY <2>4 DEF DependencyError
  <2>5. CASE UNCHANGED vars
    BY <2>5 DEF vars, BestCopyIsKept, HigherScoringCopyIsKept, Near
  <2> QED BY <2>2, <2>3, <2>4, <2>5 DEF Next
<1> QED BY <1>1, <1>2, SortedNext, SearchAlways, PTL DEF Spec

(* Where the default strategy is not a hybrid one, every strategy a query  *)
(* may name is served.                                                     *)
THEOREM StrategiesAreServed ==
    ASSUME \A s \in Settings : s.default_search_type # "hybrid"
    PROVE  Spec => []EveryStrategyIsServed
<1> DEFINE Serves(type) == Or(type, settings.default_search_type) \in {"similarity", "mmr"}
           Inv == (pc = "vector" => Serves(asked.search_type)) /\ EveryStrategyIsServed
<1>1. Init => Inv
  BY DEF Init, EveryStrategyIsServed
<1>2. SearchInv /\ Inv /\ [Next]_vars => Inv'
  <2> SUFFICES ASSUME SearchInv, Inv, [Next]_vars PROVE Inv'
    OBVIOUS
  <2>0. /\ Inputs /\ TypeOK
        /\ settings.default_search_type \in {"similarity", "mmr"}
    BY RetrievalAssumption DEF SearchInv, Inputs, SearchTypes
  <2>1. CASE for_query
    <3> DEFINE strategy == Or(query.search_type, settings.default_search_type)
    <3>1. /\ UNCHANGED settings /\ asked'.search_type = query.search_type
          /\ pc' = IF strategy = "hybrid" THEN "hybrid" ELSE "vector"
      BY <2>0, <2>1 DEF for_query, inputs, TypeOK
    <3>2. strategy \in SearchTypes
      BY <2>0, RetrievalAssumption DEF Inputs, Or, SearchTypes
    <3> QED BY <3>1, <3>2 DEF SearchTypes, EveryStrategyIsServed
  <2>2. CASE hybrid
    <3>1. UNCHANGED settings /\ asked'.search_type = None /\ pc' = "vector"
      BY <2>0, <2>2 DEF hybrid, inputs, TypeOK
    <3> QED BY <2>0, <3>1 DEF Or, EveryStrategyIsServed
  <2>3. CASE prepare
    BY <2>3 DEF prepare, EveryStrategyIsServed
  <2>4. CASE search \/ mmr \/ _above_threshold \/ fuse \/ _run_pipeline \/ DependencyError
    <3>1. pc' \notin {"vector", "validation_error"}
      <4>1. ASSUME fuse \/ _above_threshold PROVE pc' \in {"sparse", "compress", "documents"}
        BY <4>1 DEF fuse, _above_threshold, AfterBase
      <4>2. ASSUME _run_pipeline PROVE pc' \in {"compress", "documents"}
        BY <4>2 DEF _run_pipeline
      <4>3. ASSUME mmr PROVE pc' \in {"mmr", "above_threshold"}
        BY <4>3 DEF mmr
      <4> QED BY <2>4, <4>1, <4>2, <4>3 DEF search, DependencyError
    <3> QED BY <3>1 DEF EveryStrategyIsServed
  <2>5. CASE UNCHANGED vars
    BY <2>5 DEF vars, EveryStrategyIsServed
  <2> QED BY <2>1, <2>2, <2>3, <2>4, <2>5 DEF Next
<1>3. Inv => EveryStrategyIsServed
  OBVIOUS
<1> HIDE DEF Inv
<1> QED BY <1>1, <1>2, <1>3, SearchAlways, PTL DEF Spec
=============================================================================
