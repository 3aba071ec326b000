------------------------- MODULE GitHubBrokerProofs -------------------------
(***************************************************************************)
(* What an agent has when it pulled a repository page by page, for any     *)
(* repository, any sizes of files and pages and any moves of the branch:   *)
(* TypeOK, SnapshotIsWhole, that no page outgrows the broker's limits and  *)
(* that every call brings the pull nearer to its end.                      *)
(*                                                                         *)
(* The state is small, and most of the work is about what one answer is    *)
(* computed with: the listing of a tree, the slice of it that a page is,   *)
(* and the fold that fills the page.  A fold is a function defined by      *)
(* recursion on the subsets of a set, which the prover sees as a CHOOSE;   *)
(* so first of all such a function exists, and then what it computes       *)
(* follows by induction, here on the size of the set or on a prefix of the *)
(* page.                                                                   *)
(***************************************************************************)
EXTENDS GitHubBroker, SequenceTheorems, FiniteSetTheorems, TLAPS

-----------------------------------------------------------------------------
(* Induction and recursion *)

LEMMA LessOnNat == \A x, y \in Nat : <<x, y>> \in OpToRel(<, Nat) <=> x < y
BY DEF OpToRel

(* Induction over the numbers, for a set where the library has a predicate:*)
(* the least number that is not in the set would follow one that is.       *)
LEMMA SetInduction ==
  ASSUME NEW S, 0 \in S, \A n \in Nat : n \in S => n + 1 \in S
  PROVE  Nat \subseteq S
<1> SUFFICES ASSUME Nat \ S # {} PROVE FALSE
  OBVIOUS
<1>1. PICK x \in Nat \ S : \A y \in Nat \ S : ~(<<y, x>> \in OpToRel(<, Nat))
  <2>1. (Nat \ S) \subseteq Nat
    OBVIOUS
  <2> QED BY <2>1, WFMin, NatLessThanWellFounded
<1>2. \A y \in Nat \ S : ~(y < x)
  BY <1>1, LessOnNat
<1>3. x # 0 /\ x - 1 \in Nat /\ x - 1 < x
  OBVIOUS
<1>4. x - 1 \in S
  BY <1>2, <1>3
<1> QED BY <1>3, <1>4

LEMMA OneLess ==
  ASSUME NEW s, IsFiniteSet(s), NEW c \in s, NEW n \in Nat, Cardinality(s) = n + 1
  PROVE  IsFiniteSet(s \ {c}) /\ Cardinality(s \ {c}) = n
<1>1. Cardinality(s \ {c}) = Cardinality(s) - 1
  BY FS_RemoveElement
<1> QED BY <1>1, FS_RemoveElement

(* The function that a fold over a finite set defines: from base, one step *)
(* for each element, the one that ch chooses last.                         *)
IsFold(g, S, base, ch, step) ==
  g = [s \in SUBSET S |->
         IF s = {} THEN base ELSE step[<<ch[s], g[s \ {ch[s]}]>>]]

LEMMA FoldExists ==
  ASSUME NEW S, IsFiniteSet(S), NEW V, NEW base \in V,
         NEW ch, \A s \in (SUBSET S) \ {{}} : ch[s] \in s,
         NEW step \in [S \X V -> V]
  PROVE  \E g \in [SUBSET S -> V] : IsFold(g, S, base, ch, step)
<1> DEFINE Small(n) == {s \in SUBSET S : Cardinality(s) <= n}
           Step(g, s) == IF s = {} THEN base ELSE step[<<ch[s], g[s \ {ch[s]}]>>]
           Good == {n \in Nat : \E g \in [Small(n) -> V] : \A s \in Small(n) : g[s] = Step(g, s)}
<1>1. \A s \in SUBSET S : IsFiniteSet(s) /\ Cardinality(s) \in Nat
  BY FS_Subset, FS_CardinalityType
<1>2. \A s \in (SUBSET S) \ {{}} : /\ ch[s] \in s /\ ch[s] \in S
                                   /\ s \ {ch[s]} \in SUBSET S
                                   /\ Cardinality(s \ {ch[s]}) = Cardinality(s) - 1
  BY <1>1, FS_RemoveElement
<1>3. 0 \in Good
  <2>1. Small(0) = {{}}
    BY <1>1, FS_EmptySet
  <2>2. [s \in Small(0) |-> base] \in [Small(0) -> V]
    OBVIOUS
  <2> QED BY <2>1, <2>2
<1>4. ASSUME NEW n \in Nat, n \in Good PROVE n + 1 \in Good
  <2>1. PICK g \in [Small(n) -> V] : \A s \in Small(n) : g[s] = Step(g, s)
    BY <1>4
  <2> DEFINE h == [s \in Small(n + 1) |-> Step(g, s)]
  <2>2. \A s \in Small(n + 1) : s # {} => s \ {ch[s]} \in Small(n)
    <3> TAKE s \in Small(n + 1)
    <3> HAVE s # {}
    <3>1. s \in (SUBSET S) \ {{}} /\ Cardinality(s) \in Nat /\ Cardinality(s) <= n + 1
      BY <1>1
    <3> QED BY <3>1, <1>2
  <2>3. \A s \in Small(n + 1) : Step(g, s) \in V
    <3> TAKE s \in Small(n + 1)
    <3>1. CASE s = {}
      BY <3>1
    <3>2. CASE s # {}
      <4>1. g[s \ {ch[s]}] \in V /\ ch[s] \in S
        BY <3>2, <2>2, <1>2
      <4> QED BY <4>1, <3>2
    <3> QED BY <3>1, <3>2
  <2>4. h \in [Small(n + 1) -> V]
    BY <2>3
  <2>5. \A s \in Small(n) : s \in Small(n + 1) /\ h[s] = g[s]
    <3>1. \A s \in Small(n) : s \in Small(n + 1)
      BY <1>1
    <3> QED BY <3>1, <2>1
  <2>6. \A s \in Small(n + 1) : h[s] = Step(h, s)
    BY <2>2, <2>5
  <2>7. \E k \in [Small(n + 1) -> V] : \A s \in Small(n + 1) : k[s] = Step(k, s)
    <3> HIDE DEF h, Small, Step
    <3> QED BY <2>4, <2>6
  <2> HIDE DEF h, Small, Step
  <2> QED BY <2>7
<1> HIDE DEF Good
<1>5. Cardinality(S) \in Good
  BY <1>1, <1>3, <1>4, SetInduction
<1> USE DEF Good
<1>6. PICK g \in [Small(Cardinality(S)) -> V] :
        \A s \in Small(Cardinality(S)) : g[s] = Step(g, s)
  BY <1>5
<1>7. Small(Cardinality(S)) = SUBSET S
  BY FS_Subset
<1>8. g = [s \in SUBSET S |-> Step(g, s)]
  BY <1>6, <1>7
<1> QED BY <1>6, <1>7, <1>8 DEF IsFold

-----------------------------------------------------------------------------
(* How long some files are together *)

Total(F) == MapThenSumSet(LAMBDA f : Size[f[1]], F)

AreTexts(F) == IsFiniteSet(F) /\ \A f \in F : Size[f[1]] \in Nat

Adds(g, F) ==
  g = [s \in SUBSET F |->
         IF s = {} THEN 0
         ELSE Size[(CHOOSE x \in s : TRUE)[1]] + g[s \ {CHOOSE x \in s : TRUE}]]

LEMMA AddsExists ==
  ASSUME NEW F, AreTexts(F)
  PROVE  \E g \in [SUBSET F -> Nat] : Adds(g, F)
<1> DEFINE ch == [s \in SUBSET F |-> CHOOSE x \in s : TRUE]
           step == [y \in F \X Nat |-> Size[y[1][1]] + y[2]]
<1>1. \A s \in (SUBSET F) \ {{}} : ch[s] \in s /\ ch[s] = CHOOSE x \in s : TRUE
  OBVIOUS
<1>2. step \in [F \X Nat -> Nat]
  BY DEF AreTexts
<1>3. PICK g \in [SUBSET F -> Nat] : IsFold(g, F, 0, ch, step)
  <2> HIDE DEF ch, step
  <2> QED BY <1>1, <1>2, FoldExists DEF AreTexts
<1>4. ASSUME NEW s \in SUBSET F
      PROVE  (IF s = {} THEN 0 ELSE step[<<ch[s], g[s \ {ch[s]}]>>])
             = (IF s = {} THEN 0
                ELSE Size[(CHOOSE x \in s : TRUE)[1]] + g[s \ {CHOOSE x \in s : TRUE}])
  <2>1. CASE s # {}
    <3>1. ch[s] \in F /\ g[s \ {ch[s]}] \in Nat
      BY <1>1, <2>1
    <3>2. \A a \in F, b \in Nat : step[<<a, b>>] = Size[a[1]] + b
      <4> TAKE a \in F, b \in Nat
      <4>1. <<a, b>> \in F \X Nat /\ <<a, b>>[1] = a /\ <<a, b>>[2] = b
        OBVIOUS
      <4> QED BY <4>1
    <3> HIDE DEF step, ch
    <3> QED BY <3>1, <3>2, <1>1, <2>1
  <2> QED BY <2>1
<1>5. Adds(g, F)
  BY <1>3, <1>4 DEF IsFold, Adds
<1> QED BY <1>5

(* What the sum over a set of files is does not depend on the set that the *)
(* recursion is over.                                                      *)
LEMMA AddsAgree ==
  ASSUME NEW F, IsFiniteSet(F), NEW E \in SUBSET F,
         NEW g, Adds(g, E), NEW h, Adds(h, F)
  PROVE  \A s \in SUBSET E : g[s] = h[s]
<1> DEFINE Same == {n \in Nat : \A s \in SUBSET E : Cardinality(s) = n => g[s] = h[s]}
<1>1. \A s \in SUBSET E : IsFiniteSet(s) /\ Cardinality(s) \in Nat /\ s \in SUBSET F
  BY FS_Subset, FS_CardinalityType
<1>2. 0 \in Same
  BY <1>1, FS_EmptySet DEF Adds
<1>3. ASSUME NEW n \in Nat, n \in Same PROVE n + 1 \in Same
  <2> SUFFICES ASSUME NEW s \in SUBSET E, Cardinality(s) = n + 1 PROVE g[s] = h[s]
    OBVIOUS
  <2> DEFINE c == CHOOSE x \in s : TRUE
  <2>1. s # {} /\ c \in s
    BY FS_EmptySet
  <2>2. s \ {c} \in SUBSET E /\ Cardinality(s \ {c}) = n
    <3> HIDE DEF c
    <3> QED BY <1>1, <2>1, OneLess
  <2>3. g[s \ {c}] = h[s \ {c}]
    BY <1>3, <2>2
  <2>4. g[s] = Size[c[1]] + g[s \ {c}]
    BY <2>1 DEF Adds
  <2>5. h[s] = Size[c[1]] + h[s \ {c}]
    BY <1>1, <2>1 DEF Adds
  <2> QED BY <2>3, <2>4, <2>5
<1>4. Nat \subseteq Same
  <2> HIDE DEF Same
  <2> QED BY <1>2, <1>3, SetInduction
<1> QED BY <1>1, <1>4

LEMMA TotalOfPart ==
  ASSUME NEW F, AreTexts(F), NEW g, Adds(g, F), NEW E \in SUBSET F
  PROVE  Total(E) = g[E]
<1>1. AreTexts(E)
  BY FS_Subset DEF AreTexts
<1> DEFINE G == CHOOSE g1 : g1 = [s \in SUBSET E |->
                  IF s = {} THEN 0
                  ELSE Size[(CHOOSE x \in s : TRUE)[1]] + g1[s \ {CHOOSE x \in s : TRUE}]]
<1>2. Total(E) = G[E]
  BY DEF Total, MapThenSumSet, MapThenFoldSet
<1>3. Adds(G, E)
  <2>1. \E g1 : g1 = [s \in SUBSET E |->
                  IF s = {} THEN 0
                  ELSE Size[(CHOOSE x \in s : TRUE)[1]] + g1[s \ {CHOOSE x \in s : TRUE}]]
    <3>1. PICK g1 : Adds(g1, E)
      BY <1>1, AddsExists
    <3> QED BY <3>1 DEF Adds
  <2> QED BY <2>1 DEF Adds
<1> HIDE DEF G
<1>4. IsFiniteSet(F)
  BY DEF AreTexts
<1>5. \A s \in SUBSET E : G[s] = g[s]
  BY <1>3, <1>4, AddsAgree
<1> QED BY <1>2, <1>5

(* The sum over no file is 0, over a set of files a number, and a further  *)
(* file adds its length.                                                   *)
LEMMA TotalOfNone == Total({}) = 0
<1>1. AreTexts({})
  BY FS_EmptySet DEF AreTexts
<1>2. PICK g : Adds(g, {})
  BY <1>1, AddsExists
<1>3. Total({}) = g[{}]
  BY <1>1, <1>2, TotalOfPart
<1> QED BY <1>2, <1>3 DEF Adds

LEMMA TotalIsNumber ==
  ASSUME NEW F, AreTexts(F)
  PROVE  Total(F) \in Nat
<1>1. PICK g \in [SUBSET F -> Nat] : Adds(g, F)
  BY AddsExists
<1>2. Total(F) = g[F]
  BY <1>1, TotalOfPart
<1> QED BY <1>1, <1>2

LEMMA TotalWithOneMore ==
  ASSUME NEW F, AreTexts(F), NEW x, x \notin F, Size[x[1]] \in Nat
  PROVE  Total(F \cup {x}) = Total(F) + Size[x[1]]
<1> DEFINE U == F \cup {x}
<1>1. AreTexts(U)
  BY FS_AddElement DEF AreTexts
<1>2. PICK g \in [SUBSET U -> Nat] : Adds(g, U)
  BY <1>1, AddsExists
<1> HIDE DEF U
<1> DEFINE Fine == {n \in Nat : \A s \in SUBSET U : \A y \in U \ s :
                      Cardinality(s) = n => g[s \cup {y}] = g[s] + Size[y[1]]}
<1>3. \A s \in SUBSET U : IsFiniteSet(s) /\ Cardinality(s) \in Nat
  BY <1>1, FS_Subset, FS_CardinalityType DEF AreTexts
<1>4. \A s \in SUBSET U : \A c : c = (CHOOSE z \in s : TRUE) /\ s # {} =>
        c \in s /\ g[s] = Size[c[1]] + g[s \ {c}]
  BY <1>2 DEF Adds
<1>5. g[{}] = 0
  BY <1>2 DEF Adds
<1>6. \A y \in U : Size[y[1]] \in Nat
  BY <1>1 DEF AreTexts
<1>7. 0 \in Fine
  <2> SUFFICES ASSUME NEW y \in U PROVE g[{y}] = g[{}] + Size[y[1]]
    BY <1>3, FS_EmptySet
  <2>1. (CHOOSE z \in {y} : TRUE) = y
    OBVIOUS
  <2>2. PICK s \in SUBSET U : s = {y} /\ s \ {y} = {}
    OBVIOUS
  <2>3. g[s] = Size[y[1]] + g[s \ {y}]
    BY <1>4, <2>1, <2>2
  <2>4. Size[y[1]] \in Nat
    BY <1>6
  <2>5. g[s \ {y}] = 0 /\ g[s] = g[{y}]
    BY <1>5, <2>2, Zenon
  <2> QED BY <1>5, <2>3, <2>4, <2>5
<1>8. ASSUME NEW n \in Nat, n \in Fine PROVE n + 1 \in Fine
  <2> SUFFICES ASSUME NEW s \in SUBSET U, NEW y \in U \ s, Cardinality(s) = n + 1
               PROVE  g[s \cup {y}] = g[s] + Size[y[1]]
    OBVIOUS
  <2> DEFINE T == s \cup {y}
             c == CHOOSE z \in T : TRUE
  <2>1. c \in T /\ T \in SUBSET U /\ g[T] = Size[c[1]] + g[T \ {c}]
    BY <1>4
  <2> HIDE DEF c
  <2>2. CASE c = y
    <3>1. T \ {c} = s
      BY <2>2
    <3>2. g[s] \in Nat /\ Size[y[1]] \in Nat
      BY <1>2, <1>6
    <3>3. g[T] = Size[y[1]] + g[s]
      BY <2>1, <2>2, <3>1
    <3> HIDE DEF T
    <3>4. g[T] = g[s] + Size[y[1]]
      BY <3>2, <3>3
    <3> QED BY <3>4 DEF T
  <2>3. CASE c \in s
    <3> DEFINE r == s \ {c}
    <3>1. r \in SUBSET U /\ Cardinality(r) = n /\ y \in U \ r /\ c \in U \ r
      BY <1>3, <2>3, OneLess
    <3>2. T \ {c} = r \cup {y} /\ s = r \cup {c}
      BY <2>3
    <3>3. g[r \cup {y}] = g[r] + Size[y[1]] /\ g[r \cup {c}] = g[r] + Size[c[1]]
      BY <1>8, <3>1
    <3>4. g[r] \in Nat /\ Size[y[1]] \in Nat /\ Size[c[1]] \in Nat
      BY <1>2, <1>6, <3>1
    <3>5. g[T] = Size[c[1]] + g[r \cup {y}] /\ g[s] = g[r \cup {c}]
      BY <2>1, <3>2
    <3> HIDE DEF r, T
    <3>6. g[T] = g[s] + Size[y[1]]
      BY <3>3, <3>4, <3>5
    <3> QED BY <3>6 DEF T
  <2> QED BY <2>1, <2>2, <2>3
<1>9. Nat \subseteq Fine
  <2> HIDE DEF Fine
  <2> QED BY <1>7, <1>8, SetInduction
<1>10. F \in SUBSET U /\ x \in U \ F /\ F \cup {x} = U
  BY DEF U
<1>11. g[F \cup {x}] = g[F] + Size[x[1]]
  BY <1>3, <1>9, <1>10
<1> QED BY <1>1, <1>2, <1>10, <1>11, TotalOfPart

-----------------------------------------------------------------------------
(* The listing of a tree *)

Count(t) == Cardinality(DOMAIN t)

LEMMA TreeIsFinite ==
  ASSUME NEW t, IsTree(t)
  PROVE  /\ IsFiniteSet(DOMAIN t)
         /\ Count(t) \in Nat
         /\ DOMAIN t \subseteq Nat
BY BrokerAssumption, FS_Subset, FS_CardinalityType DEF IsTree, Count

LEMMA RankOfFile ==
  ASSUME NEW t, IsTree(t)
  PROVE  /\ \A p \in DOMAIN t : Rank(p, t) \in 1..Count(t)
         /\ \A p, q \in DOMAIN t : p < q => Rank(p, t) < Rank(q, t)
<1> DEFINE UpTo(p) == {q \in DOMAIN t : q <= p}
<1>1. \A p \in DOMAIN t : IsFiniteSet(UpTo(p)) /\ Cardinality(UpTo(p)) \in Nat
                          /\ Cardinality(UpTo(p)) <= Count(t)
  <2> TAKE p \in DOMAIN t
  <2>1. UpTo(p) \in SUBSET DOMAIN t
    OBVIOUS
  <2> QED BY <2>1, TreeIsFinite, FS_Subset, FS_CardinalityType DEF Count
<1>2. ASSUME NEW p \in DOMAIN t PROVE Cardinality(UpTo(p)) # 0
  <2>1. p \in UpTo(p)
    BY TreeIsFinite
  <2>2. UpTo(p) # {}
    BY <2>1
  <2> QED BY <1>1, <2>2, FS_EmptySet
<1>3. ASSUME NEW p \in DOMAIN t, NEW q \in DOMAIN t, p < q
      PROVE  Cardinality(UpTo(p)) < Cardinality(UpTo(q))
  <2>1. UpTo(p) \in SUBSET UpTo(q) /\ q \in UpTo(q) /\ q \notin UpTo(p)
    BY <1>3, TreeIsFinite
  <2>2. UpTo(p) # UpTo(q)
    BY <2>1
  <2> HIDE DEF UpTo
  <2> QED BY <1>1, <2>1, <2>2, FS_Subset
<1> QED BY <1>1, <1>2, <1>3, TreeIsFinite DEF Rank

(* Every place of the listing is that of one file.                         *)
LEMMA FileOfRank ==
  ASSUME NEW t, IsTree(t), NEW k \in 1..Count(t)
  PROVE  \E p \in DOMAIN t : Rank(p, t) = k
<1> DEFINE rank == [p \in DOMAIN t |-> Rank(p, t)]
<1>1. rank \in [DOMAIN t -> 1..Count(t)]
  BY RankOfFile
<1>2. \A p, q \in DOMAIN t : rank[p] = rank[q] => p = q
  BY RankOfFile, TreeIsFinite
<1>3. rank \in Injection(DOMAIN t, 1..Count(t))
  BY <1>1, <1>2 DEF Injection, IsInjective
<1>4. IsFiniteSet(1..Count(t)) /\ Cardinality(1..Count(t)) = Count(t)
  BY TreeIsFinite, FS_Interval
<1>5. rank \in Surjection(DOMAIN t, 1..Count(t))
  BY <1>3, <1>4, FS_Injection DEF Count
<1>6. \A m \in 1..Count(t) : \E p \in DOMAIN t : rank[p] = m
  BY <1>5 DEF Surjection
<1> QED BY <1>6

(* A listing has every file of the tree once, at its rank.                 *)
LEMMA ListingOfTree ==
  ASSUME NEW t, IsTree(t)
  PROVE  /\ Listing(t) \in Seq(DOMAIN t)
         /\ Len(Listing(t)) = Count(t)
         /\ \A k \in 1..Count(t) : Listing(t)[k] \in DOMAIN t /\ Rank(Listing(t)[k], t) = k
         /\ \A p \in DOMAIN t : Listing(t)[Rank(p, t)] = p
<1>1. \A k \in 1..Count(t) : Listing(t)[k] \in DOMAIN t /\ Rank(Listing(t)[k], t) = k
  BY FileOfRank DEF Listing, Count
<1>2. Listing(t) \in [1..Count(t) -> DOMAIN t]
  BY <1>1 DEF Listing, Count
<1>3. Listing(t) \in Seq(DOMAIN t) /\ Len(Listing(t)) = Count(t)
  BY <1>2, TreeIsFinite
<1>4. ASSUME NEW p \in DOMAIN t PROVE Listing(t)[Rank(p, t)] = p
  <2>1. Rank(p, t) \in 1..Count(t)
    BY RankOfFile
  <2> DEFINE q == Listing(t)[Rank(p, t)]
  <2>2. q \in DOMAIN t /\ Rank(q, t) = Rank(p, t)
    BY <1>1, <2>1
  <2> HIDE DEF q
  <2>3. q = p
    BY <2>1, <2>2, RankOfFile, TreeIsFinite
  <2> QED BY <2>3 DEF q
<1> QED BY <1>1, <1>3, <1>4

(* The page that starts after the first `from` files has the next ones: as *)
(* many as there are, up to PageSize, and none when the tree is shorter.   *)
PageLen(t, from) ==
  IF from >= Count(t) THEN 0
  ELSE IF from + PageSize <= Count(t) THEN PageSize ELSE Count(t) - from

LEMMA SliceOfListing ==
  ASSUME NEW t, IsTree(t), NEW from \in Nat
  PROVE  LET page == Slice(Listing(t), from)
         IN  /\ page \in Seq(DOMAIN t)
             /\ Len(page) = PageLen(t, from)
             /\ PageLen(t, from) \in Nat
             /\ \A k \in 1..Len(page) :
                  from + k \in 1..Count(t) /\ page[k] = Listing(t)[from + k]
<1> DEFINE n == Count(t)
           m == Min({from + PageSize, Len(Listing(t))})
<1>1. n \in Nat /\ Len(Listing(t)) = n /\ PageSize \in Nat \ {0}
  BY TreeIsFinite, ListingOfTree, BrokerAssumption
<1>2. m = IF from + PageSize <= n THEN from + PageSize ELSE n
  <2>1. \E x \in {from + PageSize, n} : \A y \in {from + PageSize, n} : x <= y
    BY <1>1
  <2>2. m \in {from + PageSize, n} /\ \A y \in {from + PageSize, n} : m <= y
    BY <1>1, <2>1 DEF Min
  <2> HIDE DEF m
  <2> QED BY <1>1, <2>2
<1> HIDE DEF m
<1>3. m \in Int /\ from + 1 \in Int /\ \A i \in from + 1 .. m : Listing(t)[i] \in DOMAIN t
  BY <1>1, <1>2, ListingOfTree
<1>4. /\ SubSeq(Listing(t), from + 1, m) \in Seq(DOMAIN t)
      /\ Len(SubSeq(Listing(t), from + 1, m)) = IF from + 1 <= m THEN m - (from + 1) + 1 ELSE 0
      /\ \A i \in 1 .. m - (from + 1) + 1 :
           SubSeq(Listing(t), from + 1, m)[i] = Listing(t)[(from + 1) + i - 1]
  <2> DEFINE L == Listing(t)
             a == from + 1
  <2>1. a \in Int /\ m \in Int /\ \A i \in a..m : L[i] \in DOMAIN t
    BY <1>3
  <2> HIDE DEF L, a
  <2>2. /\ SubSeq(L, a, m) \in Seq(DOMAIN t)
        /\ Len(SubSeq(L, a, m)) = IF a <= m THEN m - a + 1 ELSE 0
        /\ \A i \in 1 .. m - a + 1 : SubSeq(L, a, m)[i] = L[a + i - 1]
    BY <2>1, SubSeqProperties
  <2> QED BY <2>2 DEF L, a
<1> DEFINE page == SubSeq(Listing(t), from + 1, m)
<1>5. Slice(Listing(t), from) = page
  BY DEF Slice, m
<1>6. page \in Seq(DOMAIN t) /\ Len(page) = PageLen(t, from) /\ PageLen(t, from) \in Nat
  BY <1>1, <1>2, <1>4 DEF PageLen
<1>7. ASSUME NEW k \in 1..Len(page)
      PROVE  from + k \in 1..n /\ page[k] = Listing(t)[from + k]
  <2>1. k \in 1 .. m - (from + 1) + 1 /\ from + k \in 1..n /\ (from + 1) + k - 1 = from + k
    BY <1>1, <1>2, <1>6 DEF PageLen
  <2> QED BY <1>4, <2>1
<1> QED BY <1>5, <1>6, <1>7

-----------------------------------------------------------------------------
(* The files of a page *)

NoFile == [paths |-> <<>>, bytes |-> 0]

(* What filling the page does with its next file.                          *)
Fill(got, p) ==
  IF Fits(p, got.bytes)
  THEN [paths |-> Append(got.paths, p), bytes |-> got.bytes + Size[p]]
  ELSE got

Fills(g, page) ==
  g = [s \in SUBSET DOMAIN page |->
         IF s = {} THEN NoFile ELSE Fill(g[s \ {Max(s)}], page[Max(s)])]

Filling == [paths : Seq(Path), bytes : Nat]

LEMMA FillType ==
  ASSUME NEW got \in Filling, NEW p \in Path
  PROVE  Fill(got, p) \in Filling
<1>1. CASE Fits(p, got.bytes)
  <2>1. Size[p] \in Nat
    BY <1>1, BrokerAssumption DEF Fits
  <2>2. got.bytes + Size[p] \in Nat /\ Append(got.paths, p) \in Seq(Path)
    BY <2>1, AppendProperties DEF Filling
  <2> QED BY <1>1, <2>2 DEF Fill, Filling
<1> QED BY <1>1 DEF Fill

LEMMA MaxOfSome ==
  ASSUME NEW n \in Nat, NEW s \in SUBSET (1..n), s # {}
  PROVE  Max(s) \in s /\ \A y \in s : Max(s) >= y
<1> DEFINE Below == {d \in Nat : n - d \in s}
<1>1. Below \subseteq Nat /\ Below # {}
  <2>1. PICK x \in s : TRUE
    OBVIOUS
  <2>2. n - x \in Nat /\ n - (n - x) = x
    OBVIOUS
  <2> QED BY <2>1, <2>2
<1> HIDE DEF Below
<1>2. PICK d \in Below : \A e \in Below : ~(<<e, d>> \in OpToRel(<, Nat))
  BY <1>1, WFMin, NatLessThanWellFounded
<1>3. ASSUME NEW e \in Below PROVE e >= d
  <2>1. e \in Nat /\ d \in Nat
    BY <1>1
  <2>2. ~(e < d)
    BY <1>2, <2>1, LessOnNat
  <2> QED BY <2>1, <2>2
<1>4. n - d \in s /\ \A y \in s : n - d >= y
  <2>1. n - d \in s
    BY DEF Below
  <2>2. ASSUME NEW y \in s PROVE n - d >= y
    <3>1. n - y \in Nat /\ n - (n - y) = y
      OBVIOUS
    <3>2. n - y \in Below
      BY <3>1 DEF Below
    <3> QED BY <1>1, <1>3, <3>2
  <2> QED BY <2>1, <2>2
<1> QED BY <1>4 DEF Max

(* Files is that fold, over the places of the page from the last one down. *)
LEMMA FilesIsFold ==
  ASSUME NEW page \in Seq(Path)
  PROVE  \E g : Fills(g, page) /\ Files(page) = g[DOMAIN page].paths
<1> DEFINE D == DOMAIN page
           ch == [s \in SUBSET D |-> Max(s)]
           step == [y \in D \X Filling |-> Fill(y[2], page[y[1]])]
<1>1. D = 1..Len(page) /\ Len(page) \in Nat
  OBVIOUS
<1>2. IsFiniteSet(D)
  BY <1>1, FS_Interval
<1>3. \A s \in (SUBSET D) \ {{}} : ch[s] \in s
  BY <1>1, MaxOfSome
<1>4. \A i \in D : page[i] \in Path
  OBVIOUS
<1>5. \A i \in D, got \in Filling : Fill(got, page[i]) \in Filling
  BY <1>4, FillType
<1>6. step \in [D \X Filling -> Filling]
  BY <1>5
<1>7. NoFile \in Filling
  BY DEF NoFile, Filling
<1>8. PICK g \in [SUBSET D -> Filling] : IsFold(g, D, NoFile, ch, step)
  <2> HIDE DEF ch, step, D
  <2> QED BY <1>2, <1>3, <1>6, <1>7, FoldExists
<1>9. ASSUME NEW s \in SUBSET D
      PROVE  (IF s = {} THEN NoFile ELSE step[<<ch[s], g[s \ {ch[s]}]>>])
             = (IF s = {} THEN NoFile ELSE Fill(g[s \ {Max(s)}], page[Max(s)]))
  <2>1. CASE s # {}
    <3>1. ch[s] = Max(s) /\ ch[s] \in D /\ g[s \ {ch[s]}] \in Filling
      BY <1>3, <2>1
    <3>2. \A i \in D, got \in Filling : step[<<i, got>>] = Fill(got, page[i])
      <4> TAKE i \in D, got \in Filling
      <4>1. <<i, got>> \in D \X Filling /\ <<i, got>>[1] = i /\ <<i, got>>[2] = got
        OBVIOUS
      <4> QED BY <4>1
    <3>3. step[<<ch[s], g[s \ {ch[s]}]>>] = Fill(g[s \ {ch[s]}], page[ch[s]])
      BY <3>1, <3>2
    <3> HIDE DEF step, ch
    <3> QED BY <3>1, <3>3, <2>1
  <2> QED BY <2>1
<1>10. Fills(g, page)
  BY <1>8, <1>9 DEF IsFold, Fills
<1> DEFINE G == CHOOSE g1 : g1 = [s \in SUBSET DOMAIN page |->
                  IF s = {} THEN [paths |-> <<>>, bytes |-> 0]
                  ELSE IF Fits(page[Max(s)], g1[s \ {Max(s)}].bytes)
                       THEN [paths |-> Append(g1[s \ {Max(s)}].paths, page[Max(s)]),
                             bytes |-> g1[s \ {Max(s)}].bytes + Size[page[Max(s)]]]
                       ELSE g1[s \ {Max(s)}]]
<1>11. Files(page) = G[DOMAIN page].paths
  BY DEF Files, FoldLeft, MapThenFoldSet
<1>12. Fills(G, page)
  BY <1>10 DEF Fills, Fill, NoFile
<1> HIDE DEF G
<1> QED BY <1>11, <1>12

LEMMA FillsByPrefix ==
  ASSUME NEW page \in Seq(Path), NEW g, Fills(g, page)
  PROVE  /\ g[1..0] = NoFile
         /\ \A k \in Nat : k + 1 \in DOMAIN page =>
              g[1..(k + 1)] = Fill(g[1..k], page[k + 1])
<1>1. 1..0 = {}
  OBVIOUS
<1>2. g[1..0] = NoFile
  BY <1>1 DEF Fills
<1>3. ASSUME NEW k \in Nat, k + 1 \in DOMAIN page
      PROVE  g[1..(k + 1)] = Fill(g[1..k], page[k + 1])
  <2> DEFINE s == 1..(k + 1)
             m == Max(s)
  <2>1. s \in SUBSET DOMAIN page /\ s # {} /\ k + 1 \in s /\ k + 1 \in Nat
    <3>1. Len(page) \in Nat /\ \A i : i \in DOMAIN page <=> i \in 1..Len(page)
      OBVIOUS
    <3>2. k + 1 <= Len(page)
      BY <1>3, <3>1
    <3> QED BY <3>1, <3>2
  <2>2. m \in s /\ \A y \in s : m >= y
    <3>1. s \in SUBSET (1..(k + 1))
      OBVIOUS
    <3> HIDE DEF s
    <3> QED BY <2>1, <3>1, MaxOfSome
  <2> HIDE DEF m
  <2>3. m = k + 1
    BY <2>2
  <2>4. s \ {m} = 1..k
    BY <2>3
  <2> HIDE DEF s
  <2>5. g[s] = Fill(g[s \ {m}], page[m])
    BY <2>1 DEF Fills, m
  <2> QED BY <2>3, <2>4, <2>5 DEF s
<1> QED BY <1>2, <1>3

LEMMA RangeOfAppend ==
  ASSUME NEW S, NEW seq \in Seq(S), NEW e \in S
  PROVE  Range(Append(seq, e)) = Range(seq) \cup {e}
<1> DEFINE new == Append(seq, e)
<1>1. /\ DOMAIN seq = 1..Len(seq) /\ Len(seq) \in Nat
      /\ DOMAIN new = 1..(Len(seq) + 1)
      /\ \A i \in 1..Len(seq) : new[i] = seq[i]
      /\ new[Len(seq) + 1] = e
  BY AppendProperties
<1>2. \A i \in DOMAIN new : new[i] \in Range(seq) \cup {e}
  BY <1>1 DEF Range
<1>3. \A i \in DOMAIN seq : i \in DOMAIN new /\ seq[i] = new[i]
  BY <1>1
<1>4. Len(seq) + 1 \in DOMAIN new
  BY <1>1
<1> HIDE DEF new
<1>5. Range(new) \subseteq Range(seq) \cup {e}
  BY <1>2 DEF Range
<1>6. Range(seq) \cup {e} \subseteq Range(new)
  BY <1>1, <1>3, <1>4 DEF Range
<1> QED BY <1>5, <1>6 DEF new

(* What is true of the files of a page once its first k places are done.   *)
Kept(t, paths) == {<<p, t[p]>> : p \in Range(paths)}

DoneUpTo(t, page, got, k) ==
  /\ got \in Filling
  /\ got.bytes <= PageLimit
  /\ Range(got.paths) \subseteq {page[i] : i \in 1..k}
  /\ \A p \in Range(got.paths) : Size[p] \in 0..FileLimit
  /\ AreTexts(Kept(t, got.paths))
  /\ Cardinality(Kept(t, got.paths)) <= k
  /\ Total(Kept(t, got.paths)) = got.bytes
  /\ \A i \in 1..k : Fits(page[i], 0) =>
       page[i] \in Range(got.paths) \/ got.bytes + Size[page[i]] > PageLimit

LEMMA FillNone ==
  ASSUME NEW t, NEW page
  PROVE  DoneUpTo(t, page, NoFile, 0)
<1>1. Range(NoFile.paths) = {} /\ NoFile.paths \in Seq(Path) /\ NoFile.bytes = 0
  BY DEF NoFile, Range
<1>2. Kept(t, NoFile.paths) = {}
  BY <1>1 DEF Kept
<1>3. AreTexts({}) /\ Cardinality({}) = 0
  BY FS_EmptySet DEF AreTexts
<1>4. NoFile \in Filling
  BY DEF NoFile, Filling
<1>5. AreTexts(Kept(t, NoFile.paths)) /\ Cardinality(Kept(t, NoFile.paths)) = 0
      /\ Total(Kept(t, NoFile.paths)) = 0
  BY <1>2, <1>3, TotalOfNone, Zenon
<1> QED BY <1>1, <1>4, <1>5, BrokerAssumption DEF DoneUpTo

LEMMA FillOne ==
  ASSUME NEW t, NEW page \in Seq(Path), NEW k \in Nat, k + 1 \in 1..Len(page),
         \A i, j \in 1..Len(page) : page[i] = page[j] => i = j,
         NEW got, DoneUpTo(t, page, got, k)
  PROVE  DoneUpTo(t, page, Fill(got, page[k + 1]), k + 1)
<1> DEFINE p == page[k + 1]
           new == Fill(got, p)
<1>1. p \in Path /\ new \in Filling
  BY FillType DEF DoneUpTo
<1>2. {page[i] : i \in 1..(k + 1)} = {page[i] : i \in 1..k} \cup {p}
  OBVIOUS
<1>3. p \notin {page[i] : i \in 1..k}
  OBVIOUS
<1>4. got.bytes \in Nat /\ got.paths \in Seq(Path) /\ got.bytes <= PageLimit
      /\ Cardinality(Kept(t, got.paths)) <= k /\ Cardinality(Kept(t, got.paths)) \in Nat
  BY FS_CardinalityType DEF DoneUpTo, Filling, AreTexts
<1>5. CASE Fits(p, got.bytes)
  <2>1. Size[p] \in Nat /\ got.bytes + Size[p] <= PageLimit
    BY <1>1, <1>5, BrokerAssumption DEF Fits
  <2>2. new.paths = Append(got.paths, p) /\ new.bytes = got.bytes + Size[p]
    BY <1>5 DEF Fill
  <2>3. Range(new.paths) = Range(got.paths) \cup {p}
    BY <1>1, <1>4, <2>2, RangeOfAppend
  <2>4. Kept(t, new.paths) = Kept(t, got.paths) \cup {<<p, t[p]>>}
    BY <2>3 DEF Kept
  <2>5. <<p, t[p]>> \notin Kept(t, got.paths)
    BY <1>3 DEF Kept, DoneUpTo
  <2>6. AreTexts(Kept(t, got.paths)) /\ Total(Kept(t, got.paths)) = got.bytes
    BY DEF DoneUpTo
  <2> DEFINE x == <<p, t[p]>>
             F == Kept(t, got.paths)
  <2>7. x[1] = p
    OBVIOUS
  <2>8. /\ AreTexts(F \cup {x})
        /\ Cardinality(F \cup {x}) = Cardinality(F) + 1
        /\ Total(F \cup {x}) = Total(F) + Size[x[1]]
    <3> HIDE DEF x, F
    <3>1. x \notin F /\ AreTexts(F) /\ Size[x[1]] \in Nat
      BY <2>1, <2>5, <2>6, <2>7 DEF x, F
    <3> QED BY <3>1, TotalWithOneMore, FS_AddElement DEF AreTexts
  <2>9. /\ AreTexts(Kept(t, new.paths))
        /\ Cardinality(Kept(t, new.paths)) = Cardinality(F) + 1
        /\ Total(Kept(t, new.paths)) = Total(F) + Size[p]
    <3> HIDE DEF new, F, x
    <3> QED BY <2>4, <2>7, <2>8, Zenon DEF x, F
  <2>10. Range(new.paths) \subseteq {page[i] : i \in 1..(k + 1)}
    BY <1>2, <2>3 DEF DoneUpTo
  <2>14. \A q \in Range(new.paths) : Size[q] \in 0..FileLimit
    <3>1. Size[p] \in 0..FileLimit
      BY <1>5, <2>1, BrokerAssumption DEF Fits
    <3> HIDE DEF new, p
    <3> QED BY <2>3, <3>1 DEF DoneUpTo
  <2>11. ASSUME NEW i \in 1..(k + 1), Fits(page[i], 0)
         PROVE  page[i] \in Range(new.paths) \/ new.bytes + Size[page[i]] > PageLimit
    <3>1. CASE i = k + 1
      BY <2>3, <3>1
    <3>2. CASE i \in 1..k
      <4>1. page[i] \in Range(got.paths) \/ got.bytes + Size[page[i]] > PageLimit
        BY <2>11, <3>2 DEF DoneUpTo
      <4>2. page[i] \in Path /\ Size[page[i]] \in Nat
        <5>1. i \in 1..Len(page) /\ page[i] \in Path
          BY <3>2
        <5> QED BY <5>1, <2>11, BrokerAssumption DEF Fits
      <4>3. got.bytes + Size[page[i]] > PageLimit => new.bytes + Size[page[i]] > PageLimit
        BY <1>4, <2>1, <2>2, <4>2, BrokerAssumption
      <4> QED BY <2>3, <4>1, <4>3
    <3> QED BY <3>1, <3>2
  <2> HIDE DEF new
  <2>12. new.bytes <= PageLimit /\ Total(Kept(t, new.paths)) = new.bytes
         /\ Cardinality(Kept(t, new.paths)) <= k + 1
    BY <1>4, <2>1, <2>2, <2>6, <2>9
  <2>13. DoneUpTo(t, page, new, k + 1)
    BY <1>1, <2>14, <2>9, <2>10, <2>11, <2>12 DEF DoneUpTo
  <2> QED BY <2>13 DEF new
<1>6. CASE ~Fits(p, got.bytes)
  <2>1. new = got
    BY <1>6 DEF Fill
  <2>2. ASSUME Fits(p, 0) PROVE got.bytes + Size[p] > PageLimit
    <3>1. Size[p] \in Nat
      BY <1>1, <2>2, BrokerAssumption DEF Fits
    <3> QED BY <1>4, <1>6, <2>2, <3>1, BrokerAssumption DEF Fits
  <2>3. \A i \in 1..(k + 1) : i \in 1..k \/ page[i] = p
    OBVIOUS
  <2>4. Range(got.paths) \subseteq {page[i] : i \in 1..(k + 1)}
    BY <1>2 DEF DoneUpTo
  <2> HIDE DEF new, p
  <2>5. DoneUpTo(t, page, got, k + 1)
    BY <1>4, <2>2, <2>3, <2>4 DEF DoneUpTo
  <2> QED BY <2>1, <2>5 DEF new, p
<1> QED BY <1>5, <1>6

LEMMA FilesOfPage ==
  ASSUME NEW t, NEW page \in Seq(Path),
         \A i, j \in 1..Len(page) : page[i] = page[j] => i = j
  PROVE  \E got : Files(page) = got.paths /\ DoneUpTo(t, page, got, Len(page))
<1>1. PICK g : Fills(g, page) /\ Files(page) = g[DOMAIN page].paths
  BY FilesIsFold
<1>2. DOMAIN page = 1..Len(page) /\ Len(page) \in Nat
  OBVIOUS
<1> DEFINE Done == {k \in Nat : k <= Len(page) => DoneUpTo(t, page, g[1..k], k)}
<1>3. 0 \in Done
  <2>1. DoneUpTo(t, page, g[1..0], 0)
    BY <1>1, FillsByPrefix, FillNone
  <2> QED BY <2>1
<1>4. ASSUME NEW k \in Nat, k \in Done PROVE k + 1 \in Done
  <2> SUFFICES ASSUME k + 1 <= Len(page) PROVE DoneUpTo(t, page, g[1..(k + 1)], k + 1)
    OBVIOUS
  <2>1. k + 1 \in 1..Len(page) /\ k + 1 \in DOMAIN page /\ k <= Len(page)
    BY <1>2
  <2>2. DoneUpTo(t, page, g[1..k], k)
    BY <1>4, <2>1
  <2>3. DoneUpTo(t, page, Fill(g[1..k], page[k + 1]), k + 1)
    BY <2>1, <2>2, FillOne
  <2>4. g[1..(k + 1)] = Fill(g[1..k], page[k + 1])
    BY <1>1, <2>1, FillsByPrefix
  <2> QED BY <2>3, <2>4
<1>5. Len(page) \in Done
  <2> HIDE DEF Done
  <2> QED BY <1>2, <1>3, <1>4, SetInduction
<1>6. DoneUpTo(t, page, g[1..Len(page)], Len(page))
  BY <1>2, <1>5
<1>7. Files(page) = g[1..Len(page)].paths
  <2>1. g[DOMAIN page] = g[1..Len(page)]
    BY <1>2, Zenon
  <2> QED BY <1>1, <2>1
<1> QED BY <1>6, <1>7

-----------------------------------------------------------------------------
(* What an answer promises *)

(* The place of a page in the listing of its snapshot.                     *)
Ranks(page) == page.cursor + 1 .. page.next

(* Every file of the answer is one of its ranks, and every text file of    *)
(* these ranks is in the answer, unless there was no room for it.          *)
AnswerIsFair(page) ==
  LET t == page.snapshot
  IN  /\ \A f \in page.files :
           f[1] \in DOMAIN t /\ f = <<f[1], t[f[1]]>> /\ Rank(f[1], t) \in Ranks(page)
      /\ \A p \in DOMAIN t : Rank(p, t) \in Ranks(page) /\ Fits(p, 0) =>
           <<p, t[p]>> \in page.files \/ Total(page.files) + Size[p] > PageLimit

AnswerIsBounded(page) ==
  /\ IsFiniteSet(page.files)
  /\ Cardinality(page.files) <= PageSize
  /\ Total(page.files) <= PageLimit
  /\ \A f \in page.files : Size[f[1]] \in 0..FileLimit

LEMMA AnswerShape ==
  ASSUME NEW t, IsTree(t), NEW from \in Nat
  PROVE  LET page == Answer(t, from)
         IN  /\ page.snapshot = t /\ page.cursor = from
             /\ page.next \in Nat /\ page.next >= from /\ page.more \in BOOLEAN
             /\ page.next = from + Len(Slice(Listing(t), from))
             /\ page.more => from < page.next /\ page.next < Count(t)
             /\ ~page.more => page.next >= Count(t)
             /\ page.files = Kept(t, Files(Slice(Listing(t), from)))
<1> DEFINE page == Answer(t, from)
           len == Len(Slice(Listing(t), from))
<1>1. /\ page.snapshot = t /\ page.cursor = from
      /\ page.next = from + len
      /\ page.more \in BOOLEAN /\ (page.more <=> from + len < Count(t))
      /\ page.files = Kept(t, Files(Slice(Listing(t), from)))
  <2>1. page = [snapshot |-> t, cursor |-> from, next |-> from + len,
                more |-> from + len < Count(t),
                files |-> Kept(t, Files(Slice(Listing(t), from)))]
    BY Zenon DEF Answer, Kept, Count
  <2> HIDE DEF page, len
  <2>2. page.more = (from + len < Count(t))
    BY <2>1, Zenon
  <2>3. /\ page.snapshot = t /\ page.cursor = from /\ page.next = from + len
        /\ page.files = Kept(t, Files(Slice(Listing(t), from)))
    BY <2>1, Zenon
  <2>4. (from + len < Count(t)) \in BOOLEAN
    OBVIOUS
  <2>5. page.more \in BOOLEAN /\ (page.more <=> from + len < Count(t))
    BY <2>2, <2>4, Zenon
  <2> QED BY <2>3, <2>5
<1>2. len = PageLen(t, from) /\ PageLen(t, from) \in Nat /\ Count(t) \in Nat
  BY SliceOfListing, TreeIsFinite
<1>3. PageSize \in Nat \ {0}
  BY BrokerAssumption
<1> HIDE DEF page, len
<1>4. page.more => from < page.next /\ page.next < Count(t)
  BY <1>1, <1>2, <1>3 DEF PageLen
<1> QED BY <1>1, <1>2, <1>4 DEF page, len

(* An answer keeps both promises, whatever the tree and the cursor.        *)
LEMMA AnswerFilesOf ==
  ASSUME NEW t, IsTree(t), NEW from \in Nat
  PROVE  AnswerIsFair(Answer(t, from)) /\ AnswerIsBounded(Answer(t, from))
<1> DEFINE a == Answer(t, from)
           page == Slice(Listing(t), from)
<1>1. /\ a.snapshot = t /\ a.cursor = from /\ a.next = from + Len(page)
      /\ a.files = Kept(t, Files(page))
  BY AnswerShape
<1>2. /\ page \in Seq(DOMAIN t) /\ Len(page) = PageLen(t, from) /\ Len(page) \in Nat
      /\ \A k \in 1..Len(page) :
           from + k \in 1..Count(t) /\ page[k] = Listing(t)[from + k]
  BY SliceOfListing
<1>3. page \in Seq(Path)
  <2> HIDE DEF page
  <2> QED BY <1>2 DEF IsTree
<1> HIDE DEF a, page
<1>4. \A k \in 1..Len(page) : page[k] \in DOMAIN t /\ Rank(page[k], t) = from + k
  BY <1>2, ListingOfTree
<1>5. \A i, j \in 1..Len(page) : page[i] = page[j] => i = j
  BY <1>2, <1>4
<1>6. PICK got : Files(page) = got.paths /\ DoneUpTo(t, page, got, Len(page))
  BY <1>3, <1>5, FilesOfPage
<1>7. /\ a.files = Kept(t, got.paths)
      /\ got.bytes \in Nat /\ got.bytes <= PageLimit
      /\ Range(got.paths) \subseteq {page[i] : i \in 1..Len(page)}
      /\ \A p \in Range(got.paths) : Size[p] \in 0..FileLimit
      /\ IsFiniteSet(a.files) /\ Cardinality(a.files) <= Len(page)
      /\ Total(a.files) = got.bytes
      /\ \A i \in 1..Len(page) : Fits(page[i], 0) =>
           page[i] \in Range(got.paths) \/ Total(a.files) + Size[page[i]] > PageLimit
  <2>1. a.files = Kept(t, got.paths)
    BY <1>1, <1>6
  <2>2. /\ IsFiniteSet(Kept(t, got.paths)) /\ Cardinality(Kept(t, got.paths)) <= Len(page)
        /\ Total(Kept(t, got.paths)) = got.bytes
    BY <1>6 DEF DoneUpTo, AreTexts
  <2>3. IsFiniteSet(a.files) /\ Cardinality(a.files) <= Len(page) /\ Total(a.files) = got.bytes
    BY <2>1, <2>2, Zenon
  <2> QED BY <1>6, <2>1, <2>3 DEF DoneUpTo, Filling
<1>8. AnswerIsBounded(a)
  <2>1. Cardinality(a.files) <= PageSize
    <3>1. Cardinality(a.files) \in Nat
      BY <1>7, FS_CardinalityType
    <3> QED BY <1>2, <1>7, <3>1, BrokerAssumption, TreeIsFinite DEF PageLen
  <2>2. \A f \in a.files : Size[f[1]] \in 0..FileLimit
    BY <1>7 DEF Kept
  <2> QED BY <1>7, <2>1, <2>2 DEF AnswerIsBounded
<1>9. AnswerIsFair(a)
  <2>1. ASSUME NEW f \in a.files
        PROVE  f[1] \in DOMAIN t /\ f = <<f[1], t[f[1]]>> /\ Rank(f[1], t) \in Ranks(a)
    <3>1. PICK p \in Range(got.paths) : f = <<p, t[p]>>
      BY <1>7, <2>1 DEF Kept
    <3>2. PICK i \in 1..Len(page) : p = page[i]
      BY <1>7
    <3>3. f[1] = p /\ p \in DOMAIN t /\ Rank(p, t) = from + i
      BY <1>4, <3>1, <3>2
    <3> QED BY <1>1, <1>2, <3>1, <3>3 DEF Ranks
  <2>2. ASSUME NEW p \in DOMAIN t, Rank(p, t) \in Ranks(a), Fits(p, 0)
        PROVE  <<p, t[p]>> \in a.files \/ Total(a.files) + Size[p] > PageLimit
    <3> DEFINE k == Rank(p, t) - from
    <3>1. k \in 1..Len(page) /\ from + k = Rank(p, t)
      BY <1>1, <1>2, <2>2, RankOfFile, TreeIsFinite DEF Ranks
    <3>2. page[k] = Listing(t)[Rank(p, t)]
      BY <1>2, <3>1
    <3>3. page[k] = p
      BY <3>2, ListingOfTree
    <3> HIDE DEF k
    <3>4. p \in Range(got.paths) \/ Total(a.files) + Size[p] > PageLimit
      BY <1>7, <2>2, <3>1, <3>3
    <3> QED BY <1>7, <3>4 DEF Kept
  <2> QED BY <1>1, <2>1, <2>2 DEF AnswerIsFair
<1> QED BY <1>8, <1>9 DEF a

-----------------------------------------------------------------------------
(* The inductive invariant *)

(* SnapshotIsWhole says nothing of a pull that is under way, nor how pages *)
(* lie in a listing, and so is not inductive.  What is: the pages are      *)
(* answers, one after the other and up to the cursor, without a gap; and   *)
(* when the pull is at its end, one of them has said that it is the last.  *)
PagesAreAnswers ==
  \A page \in pages :
    /\ IsTree(page.snapshot) /\ page.cursor \in Nat
    /\ page = Answer(page.snapshot, page.cursor)

PagesBehind ==
  cursor # None =>
    \A page \in pages : page.cursor < page.next /\ page.next <= cursor

PagesApart ==
  \A page, other \in pages :
    page # other => page.next <= other.cursor \/ other.next <= page.cursor

PagesCover ==
  /\ cursor # None => \A r \in 1..cursor : \E page \in pages : r \in Ranks(page)
  /\ cursor = None => \E last \in pages :
       ~last.more /\ \A r \in 1..last.next : \E page \in pages : r \in Ranks(page)

BrokerInv ==
  /\ IsTree(tree) /\ moves \in 0..MaxMoves /\ cursor \in Nat \cup {None}
  /\ PagesAreAnswers
  /\ PagesBehind
  /\ PagesApart
  /\ PagesCover

LEMMA BrokerInit == Init => BrokerInv
<1> SUFFICES ASSUME Init PROVE BrokerInv
  OBVIOUS
<1>1. IsTree(tree)
  BY DEF Init, Tree, IsTree
<1>2. cursor # None /\ 1..cursor = {} /\ pages = {}
  BY BrokerAssumption DEF Init
<1>3. moves \in 0..MaxMoves /\ cursor \in Nat \cup {None}
  BY BrokerAssumption DEF Init
<1> QED BY <1>1, <1>2, <1>3
        DEF BrokerInv, PagesAreAnswers, PagesBehind, PagesApart, PagesCover

LEMMA MoveKeepsInv ==
  ASSUME BrokerInv, NEW t, IsTree(t), Move(t)
  PROVE  BrokerInv'
<1>1. tree' = t /\ moves' \in 0..MaxMoves /\ cursor' = cursor /\ pages' = pages
  BY BrokerAssumption DEF BrokerInv, Move
<1>2. IsTree(tree)'
  BY <1>1 DEF IsTree
<1>3. PagesAreAnswers' /\ PagesBehind' /\ PagesApart' /\ PagesCover'
  BY <1>1 DEF BrokerInv, PagesAreAnswers, PagesBehind, PagesApart, PagesCover, Ranks
<1> QED BY <1>1, <1>2, <1>3 DEF BrokerInv

LEMMA PullKeepsInv ==
  ASSUME BrokerInv, PullRepository
  PROVE  BrokerInv'
<1> DEFINE a == Answer(tree, cursor)
<1>1. /\ IsTree(tree) /\ cursor \in Nat /\ cursor # None
      /\ PagesAreAnswers /\ PagesBehind /\ PagesApart /\ PagesCover
  BY DEF BrokerInv, PullRepository
<1>2. /\ pages' = pages \cup {a}
      /\ cursor' = IF a.more THEN a.next ELSE None
      /\ tree' = tree /\ moves' = moves
  BY DEF PullRepository
<1>3. /\ a.snapshot = tree /\ a.cursor = cursor
      /\ a.next \in Nat /\ a.next >= cursor
      /\ a.more => cursor < a.next
  BY <1>1, AnswerShape
<1>4. a = Answer(a.snapshot, a.cursor)
  BY <1>3, Zenon
<1> HIDE DEF a
<1>5. a.next # None
  BY <1>3, BrokerAssumption
<1>6. ASSUME NEW page \in pages PROVE page.cursor \in Nat /\ page.next \in Nat
  <2>1. /\ IsTree(page.snapshot) /\ page.cursor \in Nat
        /\ page = Answer(page.snapshot, page.cursor)
    BY <1>1 DEF PagesAreAnswers
  <2>2. Answer(page.snapshot, page.cursor).next \in Nat
    BY <2>1, AnswerShape
  <2> QED BY <2>1, <2>2, Zenon
<1>7. PagesAreAnswers'
  BY <1>1, <1>2, <1>3, <1>4 DEF PagesAreAnswers
<1>8. PagesBehind'
  <2> SUFFICES ASSUME cursor' # None, NEW page \in pages'
               PROVE  page.cursor < page.next /\ page.next <= cursor'
    BY DEF PagesBehind
  <2>1. a.more /\ cursor' = a.next
    BY <1>2
  <2>2. CASE page = a
    BY <1>1, <1>3, <2>1, <2>2
  <2>3. CASE page \in pages
    <3>1. page.cursor < page.next /\ page.next <= cursor
      BY <1>1, <2>3 DEF PagesBehind
    <3> QED BY <1>1, <1>3, <1>6, <2>1, <2>3, <3>1
  <2> QED BY <1>2, <2>2, <2>3
<1>9. PagesApart'
  <2>1. \A page \in pages : page.next <= a.cursor
    BY <1>1, <1>3 DEF PagesBehind
  <2>2. \A page, other \in pages \cup {a} :
          page # other => page.next <= other.cursor \/ other.next <= page.cursor
    BY <1>1, <2>1 DEF PagesApart
  <2> QED BY <1>2, <2>2 DEF PagesApart
<1>10. PagesCover'
  <2>1. ASSUME NEW r \in 1..a.next
        PROVE  \E page \in pages' : r \in Ranks(page)
    <3>1. CASE r <= cursor
      <4>1. r \in 1..cursor
        BY <1>1, <3>1
      <4> QED BY <1>1, <1>2, <4>1 DEF PagesCover
    <3>2. CASE r > cursor
      <4>1. r \in Ranks(a)
        BY <1>1, <1>3, <3>2 DEF Ranks
      <4> QED BY <1>2, <4>1
    <3> QED BY <1>1, <3>1, <3>2
  <2>2. CASE a.more
    <3>1. cursor' = a.next /\ cursor' # None
      BY <1>2, <1>5, <2>2
    <3>2. \A r \in 1..cursor' : \E page \in pages' : r \in Ranks(page)
      BY <2>1, <3>1
    <3> QED BY <3>1, <3>2 DEF PagesCover, Ranks
  <2>3. CASE ~a.more
    <3>1. cursor' = None /\ a \in pages'
      BY <1>2, <2>3
    <3>2. \E last \in pages' :
            ~last.more /\ \A r \in 1..last.next : \E page \in pages' : r \in Ranks(page)
      BY <2>1, <2>3, <3>1
    <3> QED BY <3>1, <3>2 DEF PagesCover, Ranks
  <2> QED BY <2>2, <2>3
<1>11. IsTree(tree)' /\ moves' \in 0..MaxMoves /\ cursor' \in Nat \cup {None}
  BY <1>1, <1>2, <1>3 DEF BrokerInv, IsTree
<1> QED BY <1>7, <1>8, <1>9, <1>10, <1>11 DEF BrokerInv

LEMMA BrokerNext == BrokerInv /\ [Next]_vars => BrokerInv'
<1> SUFFICES ASSUME BrokerInv, [Next]_vars PROVE BrokerInv'
  OBVIOUS
<1>1. CASE PullRepository
  BY <1>1, PullKeepsInv
<1>2. ASSUME NEW p \in Path, NEW sha \in Blob \cup {None}, NEW blob \in Blob,
             PutFile(p, sha, blob)
      PROVE  BrokerInv'
  <2> DEFINE t == [q \in DOMAIN tree \cup {p} |-> IF q = p THEN blob ELSE tree[q]]
  <2>1. IsTree(t)
    BY DEF BrokerInv, IsTree
  <2>2. Move(t)
    BY <1>2 DEF PutFile
  <2> HIDE DEF t
  <2> QED BY <2>1, <2>2, MoveKeepsInv
<1>3. CASE Push
  <2>1. PICK t \in Tree : Move(t)
    BY <1>3 DEF Push
  <2>2. IsTree(t)
    BY DEF Tree, IsTree
  <2> QED BY <2>1, <2>2, MoveKeepsInv
<1>4. CASE UNCHANGED vars
  BY <1>4 DEF vars, BrokerInv, IsTree, PagesAreAnswers, PagesBehind, PagesApart,
              PagesCover, Ranks
<1> QED BY <1>1, <1>2, <1>3, <1>4 DEF Next

(* The pages and the cursor are always as BrokerInv says.                  *)
THEOREM BrokerInvariant == Spec => []BrokerInv
BY BrokerInit, BrokerNext, PTL DEF Spec
-----------------------------------------------------------------------------
(* Theorems *)

(* What BrokerInv says of one page.                                        *)
LEMMA PageOfPull ==
  ASSUME BrokerInv, NEW page \in pages
  PROVE  /\ IsTree(page.snapshot)
         /\ page.cursor \in Nat /\ page.next \in Nat /\ page.more \in BOOLEAN
         /\ ~page.more => page.next >= Count(page.snapshot)
         /\ AnswerIsFair(page) /\ AnswerIsBounded(page)
<1>1. /\ IsTree(page.snapshot) /\ page.cursor \in Nat
      /\ page = Answer(page.snapshot, page.cursor)
  BY DEF BrokerInv, PagesAreAnswers
<1> DEFINE a == Answer(page.snapshot, page.cursor)
<1>2. /\ a.next \in Nat /\ a.more \in BOOLEAN
      /\ ~a.more => a.next >= Count(page.snapshot)
      /\ AnswerIsFair(a) /\ AnswerIsBounded(a)
  BY <1>1, AnswerShape, AnswerFilesOf
<1> QED BY <1>1, <1>2, Zenon

(* Trees, cursors and pages have the types of the variables' comments.     *)
THEOREM BrokerTypeOK == Spec => []TypeOK
<1>1. BrokerInv => TypeOK
  <2> SUFFICES ASSUME BrokerInv PROVE TypeOK
    OBVIOUS
  <2>1. ASSUME NEW page \in pages PROVE page.files \subseteq Path \X Blob
    <3> SUFFICES ASSUME NEW f \in page.files PROVE f \in Path \X Blob
      OBVIOUS
    <3> DEFINE t == page.snapshot
    <3>1. IsTree(t) /\ f[1] \in DOMAIN t /\ f = <<f[1], t[f[1]]>>
      BY PageOfPull DEF AnswerIsFair
    <3> HIDE DEF t
    <3>2. f[1] \in Path /\ t[f[1]] \in Blob
      BY <3>1 DEF IsTree
    <3> QED BY <3>1, <3>2
  <2> QED BY <2>1, PageOfPull DEF TypeOK, BrokerInv
<1> QED BY <1>1, BrokerInvariant, PTL

(* No file is on two pages: its rank would be in both of them.             *)
LEMMA NoFileTwice ==
  ASSUME BrokerInv, NEW page \in pages, NEW other \in pages, page # other,
         page.snapshot = other.snapshot
  PROVE  page.files \cap other.files = {}
<1> SUFFICES ASSUME NEW f \in page.files, f \in other.files PROVE FALSE
  OBVIOUS
<1> DEFINE t == page.snapshot
<1>1. IsTree(t) /\ f[1] \in DOMAIN t /\ Rank(f[1], t) \in Ranks(page)
  BY PageOfPull DEF AnswerIsFair
<1>2. Rank(f[1], t) \in Ranks(other)
  BY PageOfPull DEF AnswerIsFair
<1> HIDE DEF t
<1>3. Rank(f[1], t) \in Nat
  BY <1>1, RankOfFile, TreeIsFinite
<1>4. page.next <= other.cursor \/ other.next <= page.cursor
  BY DEF BrokerInv, PagesApart
<1> QED BY <1>1, <1>2, <1>3, <1>4, PageOfPull DEF Ranks

(* At the end of a pull of one snapshot, every rank is on some page.       *)
LEMMA EveryRankPulled ==
  ASSUME BrokerInv, cursor = None, NEW t,
         \A page \in pages : page.snapshot = t, NEW p \in DOMAIN t
  PROVE  \E page \in pages : Rank(p, t) \in Ranks(page)
<1>1. PICK last \in pages :
        ~last.more /\ \A r \in 1..last.next : \E page \in pages : r \in Ranks(page)
  BY DEF BrokerInv, PagesCover
<1>2. IsTree(t) /\ last.next \in Nat /\ last.next >= Count(t)
  BY <1>1, PageOfPull
<1>3. Rank(p, t) \in 1..last.next
  BY <1>2, RankOfFile, TreeIsFinite
<1> QED BY <1>1, <1>3

(* When all pages of a pull name one snapshot, no file is twice or of      *)
(* another tree, and at the end of the pull every text file within the     *)
(* bounds is there, or its page had no room for it.                        *)
THEOREM BrokerSnapshotIsWhole == Spec => []SnapshotIsWhole
<1>1. BrokerInv => SnapshotIsWhole
  <2> SUFFICES ASSUME BrokerInv, NEW t, \A page \in pages : page.snapshot = t
               PROVE  /\ \A page, other \in pages :
                           page # other => page.files \cap other.files = {}
                      /\ \A page \in pages : \A f \in page.files :
                           f[1] \in DOMAIN t /\ f[2] = t[f[1]]
                      /\ cursor = None =>
                           \A p \in DOMAIN t : Fits(p, 0) /\ ~Crowded(p, t) =>
                             \E page \in pages : <<p, t[p]>> \in page.files
    BY DEF SnapshotIsWhole
  <2>1. \A page, other \in pages : page # other => page.files \cap other.files = {}
    BY NoFileTwice
  <2>2. ASSUME NEW page \in pages, NEW f \in page.files
        PROVE  f[1] \in DOMAIN t /\ f[2] = t[f[1]]
    <3>1. f[1] \in DOMAIN t /\ f = <<f[1], t[f[1]]>>
      BY PageOfPull DEF AnswerIsFair
    <3> QED BY <3>1
  <2>3. ASSUME cursor = None, NEW p \in DOMAIN t, Fits(p, 0), ~Crowded(p, t)
        PROVE  \E page \in pages : <<p, t[p]>> \in page.files
    <3>1. PICK page \in pages : Rank(p, t) \in Ranks(page)
      BY <2>3, EveryRankPulled
    <3>2. <<p, t[p]>> \in page.files \/ Total(page.files) + Size[p] > PageLimit
      BY <2>3, <3>1, PageOfPull DEF AnswerIsFair
    <3>3. ~(Total(page.files) + Size[p] > PageLimit)
      BY <2>3, <3>1 DEF Crowded, Ranks, Total
    <3> QED BY <3>2, <3>3
  <2> QED BY <2>1, <2>2, <2>3
<1> QED BY <1>1, BrokerInvariant, PTL

(* No page outgrows the limits of the broker: at most PageSize files, none *)
(* longer than FileLimit, and together no longer than PageLimit.           *)
THEOREM BrokerPagesAreBounded == Spec => [](\A page \in pages : AnswerIsBounded(page))
<1>1. BrokerInv => \A page \in pages : AnswerIsBounded(page)
  BY PageOfPull
<1> QED BY <1>1, BrokerInvariant, PTL

(* Every call brings the pull to its end or its cursor forward, and the    *)
(* cursor stays below the number of paths: so, whatever happens to the     *)
(* branch, a pull takes at most one call for each path, or a single one.   *)
(* This is why PullEnds holds when the agent goes on.                      *)
PullGoesOn ==
  PullRepository => cursor' = None \/ (cursor < cursor' /\ cursor' < Cardinality(Path))

THEOREM BrokerPullGoesOn == Spec => [][PullGoesOn]_vars
<1>1. BrokerInv /\ [Next]_vars => [PullGoesOn]_vars
  <2> SUFFICES ASSUME BrokerInv, PullRepository, cursor' # None
               PROVE  cursor < cursor' /\ cursor' < Cardinality(Path)
    BY DEF PullGoesOn
  <2> DEFINE a == Answer(tree, cursor)
  <2>1. IsTree(tree) /\ cursor \in Nat
    BY DEF BrokerInv, PullRepository
  <2>2. a.more /\ cursor' = a.next
    BY DEF PullRepository
  <2>3. cursor < cursor' /\ cursor' < Count(tree) /\ cursor' \in Nat
    BY <2>1, <2>2, AnswerShape
  <2>4. Count(tree) \in Nat /\ Cardinality(Path) \in Nat /\ Count(tree) <= Cardinality(Path)
    BY <2>1, BrokerAssumption, FS_Subset, FS_CardinalityType DEF IsTree, Count
  <2> QED BY <2>3, <2>4
<1> QED BY <1>1, BrokerInvariant, PTL DEF Spec
=============================================================================
