----------------------- MODULE ArchiveSelectionProofs -----------------------
(***************************************************************************)
(* Proofs about the archive and what is chosen of it: the closure under    *)
(* dependencies and the order return what they promise, for every archive; *)
(* and of every database the archive is finite, with edges of known shape. *)
(*                                                                         *)
(* Closure and order are recursive functions; what is claimed of them is   *)
(* argued by the smallest set at which it would fail.                      *)
(***************************************************************************)
EXTENDS ArchiveSelection, TLAPS, FiniteSetTheorems, WellFoundedInduction

(* The types of entries, and all entries there could be.                   *)
Satellites == {"column", "table-data", "materialized-view-data", "sequence-state",
               "large-object-data", "sequence-ownership", "large-object-metadata",
               "ownership", "comment", "acl"}
Types == Kinds \cup Satellites
EntrySpace == [t : Types, o : Ids, g : Nat]

(* Every type has a priority.                                              *)
LEMMA PriorityIsNumber ==
  ASSUME NEW e, e.t \in Types
  PROVE  Priority(e) \in 0..120 /\ SectionOf(e) \in 0..2
<1>1. SectionOf(e) \in 0..2
  BY DEF SectionOf
<1>2. Priority(e) \in 0..120
  BY SMTT(200) DEF Priority, Types, Kinds, Satellites
<1>3. QED
  BY <1>1, <1>2

(* No two types of a section have the same priority.                       *)
LEMMA PriorityTellsType ==
  ASSUME NEW d, NEW e, d.t \in Types, e.t \in Types,
         SectionOf(d) = SectionOf(e), Priority(d) = Priority(e)
  PROVE  d.t = e.t
  BY SMTT(100) DEF Priority, SectionOf, Types, Kinds, Satellites, PreData, Data

(* A set of numbers that is not empty has a least one.                     *)
LEMMA LeastNumber ==
  ASSUME NEW S, S \subseteq Nat, S # {}
  PROVE  \E m \in S : \A k \in S : m <= k
<1>1. PICK m \in S : \A k \in S : ~ (<<k, m>> \in OpToRel(<, Nat))
  BY NatLessThanWellFounded, WFMin
<1>2. \A k \in S : ~ (k < m)
  BY <1>1 DEF OpToRel
<1>3. QED
  BY <1>2

(* Section, priority and identity order all entries, none before itself.   *)
LEMMA EarlierIsOrder ==
  ASSUME NEW naming \in {"asc", "desc"}
  PROVE  /\ \A d \in EntrySpace : ~ Earlier(d, d, naming)
         /\ \A d, e \in EntrySpace : d # e => Earlier(d, e, naming) \/ Earlier(e, d, naming)
         /\ \A c, d, e \in EntrySpace :
              Earlier(c, d, naming) /\ Earlier(d, e, naming) => Earlier(c, e, naming)
<1>1. \A e \in EntrySpace : /\ Priority(e) \in Nat /\ SectionOf(e) \in Nat
                            /\ e.o \in Nat /\ e.g \in Nat
  <2>1. \A e \in EntrySpace : e.o \in Nat /\ e.g \in Nat
    BY CatalogAssumption DEF EntrySpace
  <2>2. \A e \in EntrySpace : Priority(e) \in 0..120 /\ SectionOf(e) \in 0..2
    BY PriorityIsNumber DEF EntrySpace
  <2>3. QED
    BY <2>1, <2>2
<1>2. ASSUME NEW d \in EntrySpace, NEW e \in EntrySpace, d # e
      PROVE  Earlier(d, e, naming) \/ Earlier(e, d, naming)
  <2>1. d.t = e.t /\ d.o = e.o /\ d.g = e.g => d = e
    BY DEF EntrySpace
  <2>2. SectionOf(d) = SectionOf(e) /\ Priority(d) = Priority(e) => d.t = e.t
    BY PriorityTellsType DEF EntrySpace
  <2>3. /\ Priority(e) \in Nat /\ SectionOf(e) \in Nat /\ e.o \in Nat /\ e.g \in Nat
        /\ Priority(d) \in Nat /\ SectionOf(d) \in Nat /\ d.o \in Nat /\ d.g \in Nat
    BY <1>1
  <2>4. QED
    BY <1>2, <2>1, <2>2, <2>3 DEF Earlier
<1>3. \A d \in EntrySpace : ~ Earlier(d, d, naming)
  BY <1>1 DEF Earlier
<1>4. ASSUME NEW c \in EntrySpace, NEW d \in EntrySpace, NEW e \in EntrySpace,
             Earlier(c, d, naming), Earlier(d, e, naming)
      PROVE  Earlier(c, e, naming)
  <2>1. /\ Priority(e) \in Nat /\ SectionOf(e) \in Nat /\ e.o \in Nat /\ e.g \in Nat
        /\ Priority(d) \in Nat /\ SectionOf(d) \in Nat /\ d.o \in Nat /\ d.g \in Nat
        /\ Priority(c) \in Nat /\ SectionOf(c) \in Nat /\ c.o \in Nat /\ c.g \in Nat
    BY <1>1
  <2>2. QED
    BY <1>4, <2>1 DEF Earlier
<1>5. QED
  BY <1>2, <1>3, <1>4

(* Of finitely many entries there is a first, which First chooses.         *)
LEMMA FirstIsEarliest ==
  ASSUME NEW naming \in {"asc", "desc"},
         NEW S, S \subseteq EntrySpace, IsFiniteSet(S), S # {}
  PROVE  /\ First(S, naming) \in S
         /\ \A d \in S \ {First(S, naming)} : Earlier(First(S, naming), d, naming)
<1> DEFINE Before(e) == {d \in S : Earlier(d, e, naming)}
           Sizes == {Cardinality(Before(e)) : e \in S}
<1>1. \A e \in S : IsFiniteSet(Before(e)) /\ Cardinality(Before(e)) \in Nat
  BY FS_Subset, FS_CardinalityType
<1>2. PICK m \in Sizes : \A k \in Sizes : m <= k
  <2> HIDE DEF Before
  <2>1. Sizes \subseteq Nat /\ Sizes # {}
    BY <1>1
  <2>2. QED
    BY <2>1, LeastNumber
<1>3. PICK e \in S : Cardinality(Before(e)) = m
  OBVIOUS
<1>4. Before(e) = {}
  <2> SUFFICES ASSUME NEW d \in Before(e) PROVE FALSE
    OBVIOUS
  <2>1. Before(d) \subseteq Before(e) /\ d \notin Before(d) /\ d \in S
    BY EarlierIsOrder
  <2>2. Cardinality(Before(d)) \in Sizes
    BY <2>1
  <2> HIDE DEF Before, Sizes
  <2>3. /\ Cardinality(Before(d)) <= Cardinality(Before(e))
        /\ Cardinality(Before(d)) # Cardinality(Before(e))
    BY <1>1, <2>1, FS_Subset
  <2>4. QED
    BY <1>1, <1>2, <1>3, <2>1, <2>2, <2>3
<1>5. \A d \in S \ {e} : Earlier(e, d, naming)
  <2>1. \A d \in S : ~ Earlier(d, e, naming)
    BY <1>4
  <2>2. QED
    BY <2>1, EarlierIsOrder
<1>6. QED
  BY <1>5 DEF First

-----------------------------------------------------------------------------
(* What holds at 0 and passes from each number to the next holds up to N.  *)
LEMMA UpTo ==
  ASSUME NEW N \in Nat, NEW S, 0 \in S, \A n \in 1..N : n - 1 \in S => n \in S
  PROVE  N \in S
<1> DEFINE missing == {n \in 0..N : n \notin S}
<1> SUFFICES ASSUME missing # {} PROVE FALSE
  OBVIOUS
<1>1. missing \subseteq Nat
  OBVIOUS
<1>2. PICK m \in missing : \A k \in missing : m <= k
  BY <1>1, LeastNumber
<1>3. m \in 1..N /\ m - 1 \in 0..N /\ ~(m <= m - 1)
  OBVIOUS
<1>4. m - 1 \in S
  BY <1>2, <1>3
<1>5. QED
  BY <1>3, <1>4

(* The entry the sort takes next, and those it leaves.                     *)
Foremost(T, edges, naming) == First(Ready(T, edges), naming)
Rest(T, edges, naming) == T \ {Foremost(T, edges, naming)}

(* The entry taken is one whose edges are all behind, the first of them.   *)
LEMMA ReadyEntries ==
  ASSUME NEW naming \in {"asc", "desc"}, NEW edges,
         NEW T, T \subseteq EntrySpace, IsFiniteSet(T), Ready(T, edges) # {},
         NEW next, next = First(Ready(T, edges), naming),
         NEW rest, rest = T \ {next}
  PROVE  /\ next \in T /\ next \in Ready(T, edges)
         /\ \A d \in Ready(T, edges) \ {next} : Earlier(next, d, naming)
         /\ IsFiniteSet(rest)
         /\ Cardinality(T) \in Nat \ {0}
         /\ Cardinality(rest) = Cardinality(T) - 1
<1>1. Ready(T, edges) \subseteq T
  BY DEF Ready
<1>2. IsFiniteSet(Ready(T, edges))
  BY <1>1, FS_Subset
<1>3. next \in Ready(T, edges) /\ \A d \in Ready(T, edges) \ {next} : Earlier(next, d, naming)
  BY <1>1, <1>2, FirstIsEarliest
<1>4. IsFiniteSet(rest) /\ Cardinality(rest) = Cardinality(T) - 1
  BY <1>1, <1>3, FS_RemoveElement
<1>5. Cardinality(T) \in Nat /\ Cardinality(rest) \in Nat
  BY <1>4, FS_CardinalityType
<1>6. QED
  BY <1>1, <1>3, <1>4, <1>5

(* The sort is defined: the next entry, and then the sort of the others.   *)
LEMMA SortingStep ==
  ASSUME NEW naming \in {"asc", "desc"}, NEW edges,
         NEW selected, selected \subseteq EntrySpace, IsFiniteSet(selected),
         NEW T, T \subseteq selected
  PROVE  /\ Ready(T, edges) = {} => Sorting(selected, edges, naming)[T] = <<>>
         /\ Ready(T, edges) # {} =>
              Sorting(selected, edges, naming)[T]
                = <<Foremost(T, edges, naming)>>
                    \o Sorting(selected, edges, naming)[Rest(T, edges, naming)]
<1> DEFINE Next1(X) == First(Ready(X, edges), naming)
           Step(v, X) == IF Ready(X, edges) = {} THEN <<>>
                         ELSE <<Next1(X)>> \o v[X \ {Next1(X)}]
           Small(n) == {X \in SUBSET selected : Cardinality(X) <= n}
           Defined(n) == \E v : v = [X \in Small(n) |-> Step(v, X)]
           S == {n \in Nat : Defined(n)}
           N == Cardinality(selected)
<1>1. \A X \in SUBSET selected : IsFiniteSet(X) /\ Cardinality(X) \in 0..N /\ N \in Nat
  BY FS_Subset, FS_CardinalityType
<1>2. N \in Nat /\ Small(N) = SUBSET selected
  BY <1>1, FS_CardinalityType
<1>3. \A X \in SUBSET selected : Ready(X, edges) # {} =>
        /\ X \ {Next1(X)} \in SUBSET selected
        /\ Cardinality(X) \in Nat \ {0}
        /\ Cardinality(X \ {Next1(X)}) = Cardinality(X) - 1
  <2> SUFFICES ASSUME NEW X \in SUBSET selected, Ready(X, edges) # {},
                      NEW n, n = Next1(X), NEW rest, rest = X \ {n}
               PROVE  /\ rest \in SUBSET selected
                      /\ Cardinality(X) \in Nat \ {0}
                      /\ Cardinality(rest) = Cardinality(X) - 1
    OBVIOUS
  <2>1. IsFiniteSet(X) /\ X \subseteq EntrySpace
    BY <1>1
  <2>2. QED
    BY <2>1, ReadyEntries
<1> HIDE DEF Next1
<1>4. 0 \in S
  <2> DEFINE w == [X \in Small(0) |-> <<>>]
  <2>1. \A X \in Small(0) : Ready(X, edges) = {}
    <3> SUFFICES ASSUME NEW X \in Small(0), Ready(X, edges) # {} PROVE FALSE
      OBVIOUS
    <3>1. Cardinality(X) \in Nat \ {0} /\ Cardinality(X) <= 0
      BY <1>3
    <3>2. QED
      BY <3>1
  <2>2. w = [X \in Small(0) |-> Step(w, X)]
    <3> HIDE DEF Small
    <3>1. \A X \in Small(0) : w[X] = Step(w, X)
      BY <2>1
    <3>2. QED
      BY <3>1
  <2>3. Defined(0)
    BY <2>2
  <2>4. QED
    BY <2>3
<1>5. ASSUME NEW n \in 1..N, n - 1 \in S PROVE n \in S
  <2>1. PICK v : v = [X \in Small(n - 1) |-> Step(v, X)]
    BY <1>5
  <2> DEFINE w == [X \in Small(n) |-> IF X \in Small(n - 1) THEN v[X] ELSE Step(v, X)]
  <2>2. \A X \in Small(n) : w[X] = Step(w, X)
    <3> SUFFICES ASSUME NEW X \in Small(n) PROVE w[X] = Step(w, X)
      OBVIOUS
    <3>1. w[X] = Step(v, X)
      BY <2>1
    <3>2. CASE Ready(X, edges) = {}
      BY <3>1, <3>2
    <3>3. CASE Ready(X, edges) # {}
      <4>1. X \ {Next1(X)} \in Small(n - 1) /\ X \ {Next1(X)} \in Small(n)
        BY <1>1, <1>3, <3>3
      <4> HIDE DEF Small
      <4>2. w[X \ {Next1(X)}] = v[X \ {Next1(X)}]
        BY <4>1
      <4>3. QED
        BY <3>1, <3>3, <4>2
    <3>4. QED
      BY <3>2, <3>3
  <2>3. w = [X \in Small(n) |-> Step(w, X)]
    <3> HIDE DEF Small
    <3>1. QED
      BY <2>2
  <2>4. Defined(n)
    BY <2>3
  <2>5. n \in Nat
    BY <1>2
  <2> HIDE DEF Defined
  <2>6. QED
    BY <2>4, <2>5
<1>6. Defined(N)
  <2>1. N \in S
    <3> HIDE DEF S, N
    <3>1. QED
      BY <1>2, <1>4, <1>5, UpTo
  <2>2. QED
    BY <2>1
<1>7. \E v : v = [X \in SUBSET selected |-> Step(v, X)]
  BY <1>2, <1>6
<1>8. Sorting(selected, edges, naming) = CHOOSE v : v = [X \in SUBSET selected |-> Step(v, X)]
  BY DEF Sorting, Next1
<1>9. Sorting(selected, edges, naming)
        = [X \in SUBSET selected |-> Step(Sorting(selected, edges, naming), X)]
  BY <1>7, <1>8
<1>10. QED
  BY <1>9 DEF Next1, Foremost, Rest

(* What the order of a set of entries is to be: no entry twice, each after *)
(* the targets of its edges, before the later ones that were as ready as   *)
(* it, by section, and, when as long as the set, of all of it.             *)
Distinct(s) == \A i, j \in 1..Len(s) : s[i] = s[j] => i = j
Behind(s, T, edges) ==
    \A i \in 1..Len(s) : \A d \in edges :
        d.from = s[i] /\ d.to \in T => \E j \in 1..(i - 1) : s[j] = d.to
ReadyAt(s, i, j, edges) ==
    \A d \in edges : d.from = s[j] => \A k \in i..Len(s) : s[k] # d.to
InOrder(s, edges, naming) ==
    \A i, j \in 1..Len(s) : i < j /\ ReadyAt(s, i, j, edges) => Earlier(s[i], s[j], naming)
BySection(s) == \A i, j \in 1..Len(s) : i < j => SectionOf(s[i]) <= SectionOf(s[j])
Whole(s, T) ==
    /\ Len(s) <= Cardinality(T)
    /\ Len(s) = Cardinality(T) => T \subseteq {s[i] : i \in 1..Len(s)}
Arranged(s, T, edges, naming) ==
    /\ s \in Seq(T) /\ Distinct(s) /\ Behind(s, T, edges) /\ Whole(s, T)
    /\ InOrder(s, edges, naming)
    /\ SectionsAgree(T, edges) => BySection(s)

(* An arrangement of the others stays one with the next entry in front.    *)
LEMMA ArrangedStep ==
  ASSUME NEW naming \in {"asc", "desc"}, NEW edges,
         NEW T, T \subseteq EntrySpace, IsFiniteSet(T),
         Ready(T, edges) # {},
         NEW n, n = First(Ready(T, edges), naming),
         NEW r, Arranged(r, T \ {n}, edges, naming)
  PROVE  Arranged(<<n>> \o r, T, edges, naming)
<1> DEFINE s == <<n>> \o r
<1>1. /\ n \in T /\ n \in Ready(T, edges)
      /\ \A d \in Ready(T, edges) \ {n} : Earlier(n, d, naming)
      /\ Cardinality(T) \in Nat \ {0}
      /\ Cardinality(T \ {n}) = Cardinality(T) - 1
  <2> DEFINE next == First(Ready(T, edges), naming)
  <2>1. /\ next \in T /\ next \in Ready(T, edges)
        /\ \A d \in Ready(T, edges) \ {next} : Earlier(next, d, naming)
        /\ Cardinality(T) \in Nat \ {0}
        /\ Cardinality(T \ {next}) = Cardinality(T) - 1
    BY ReadyEntries
  <2> HIDE DEF next
  <2>2. n = next
    BY DEF next
  <2>3. QED
    BY <2>1, <2>2
<1>2. r \in Seq(T \ {n}) /\ r \in Seq(T) /\ Len(r) \in Nat
  BY DEF Arranged
<1>3. /\ s \in Seq(T) /\ Len(s) = Len(r) + 1 /\ s[1] = n
      /\ \A i \in 1..Len(r) : s[i + 1] = r[i]
      /\ \A i \in 1..Len(r) : r[i] \in T /\ r[i] # n
  BY <1>1, <1>2
<1> HIDE DEF s
<1>4. \A i \in 1..Len(s) : i = 1 \/ (i - 1 \in 1..Len(r) /\ s[i] = r[i - 1])
  <2> SUFFICES ASSUME NEW i \in 1..Len(s), i # 1
               PROVE  i - 1 \in 1..Len(r) /\ s[i] = r[i - 1]
    OBVIOUS
  <2>1. i - 1 \in 1..Len(r) /\ (i - 1) + 1 = i
    BY <1>2, <1>3
  <2>2. QED
    BY <1>3, <2>1
<1>5. Distinct(s)
  <2> SUFFICES ASSUME NEW i \in 1..Len(s), NEW j \in 1..Len(s), s[i] = s[j] PROVE i = j
    BY DEF Distinct
  <2>1. CASE i = 1 \/ j = 1
    BY <1>3, <1>4, <2>1
  <2>2. CASE i # 1 /\ j # 1
    <3>1. i - 1 = j - 1
      BY <1>4, <2>2 DEF Arranged, Distinct
    <3>2. QED
      BY <1>2, <1>3, <3>1
  <2>3. QED
    BY <2>1, <2>2
<1>6. Behind(s, T, edges)
  <2> SUFFICES ASSUME NEW i \in 1..Len(s), NEW d \in edges, d.from = s[i], d.to \in T
               PROVE  \E j \in 1..(i - 1) : s[j] = d.to
    BY DEF Behind
  <2>1. i # 1
    BY <1>1, <1>3 DEF Ready
  <2>2. i - 1 \in 1..Len(r) /\ s[i] = r[i - 1] /\ 1 \in 1..(i - 1)
    BY <1>2, <1>3, <1>4, <2>1
  <2>3. CASE d.to = n
    BY <1>3, <2>2, <2>3
  <2>4. CASE d.to # n
    <3>1. PICK j \in 1..((i - 1) - 1) : r[j] = d.to
      BY <2>2, <2>4 DEF Arranged, Behind
    <3>2. j \in 1..Len(r) /\ j + 1 \in 1..(i - 1)
      BY <1>2, <2>2
    <3>3. s[j + 1] = d.to
      BY <1>3, <3>1, <3>2
    <3>4. QED
      BY <3>2, <3>3
  <2>5. QED
    BY <2>3, <2>4
<1>7. \A x \in T : SectionOf(x) \in 0..2
  BY PriorityIsNumber DEF EntrySpace
<1>8. SectionsAgree(T, edges) /\ Len(r) > 0 => SectionOf(n) <= SectionOf(r[1])
  <2> SUFFICES ASSUME SectionsAgree(T, edges), Len(r) > 0 PROVE SectionOf(n) <= SectionOf(r[1])
    OBVIOUS
  <2>1. 1 \in 1..Len(r) /\ r[1] \in T \ {n}
    BY <1>2, <1>3
  <2>2. \A d \in edges : d.from = r[1] => d.to \notin T \ {n}
    <3>1. \A j \in 1..(1 - 1) : FALSE
      OBVIOUS
    <3>2. QED
      BY <2>1, <3>1 DEF Arranged, Behind
  <2>3. CASE r[1] \in Ready(T, edges)
    <3>1. Earlier(n, r[1], naming)
      BY <1>1, <2>1, <2>3
    <3>2. QED
      BY <1>1, <1>7, <2>1, <3>1 DEF Earlier
  <2>4. CASE r[1] \notin Ready(T, edges)
    <3>1. PICK d \in edges : d.from = r[1] /\ d.to \in T
      BY <2>1, <2>4 DEF Ready
    <3>2. d.to = n
      BY <2>2, <3>1
    <3>3. QED
      BY <1>1, <2>1, <3>1, <3>2 DEF SectionsAgree
  <2>5. QED
    BY <2>3, <2>4
<1>9. SectionsAgree(T, edges) => BySection(s)
  <2> SUFFICES ASSUME SectionsAgree(T, edges),
                      NEW i \in 1..Len(s), NEW j \in 1..Len(s), i < j
               PROVE  SectionOf(s[i]) <= SectionOf(s[j])
    BY DEF BySection
  <2>1. BySection(r)
    <3>1. SectionsAgree(T \ {n}, edges)
      BY DEF SectionsAgree
    <3>2. QED
      BY <3>1 DEF Arranged
  <2>2. j # 1 /\ j - 1 \in 1..Len(r) /\ s[j] = r[j - 1]
    <3>1. j # 1
      OBVIOUS
    <3>2. QED
      BY <1>4, <3>1
  <2>3. CASE i # 1
    <3>1. i - 1 \in 1..Len(r) /\ s[i] = r[i - 1] /\ i - 1 < j - 1
      BY <1>2, <1>4, <2>3
    <3>2. QED
      BY <2>1, <2>2, <3>1 DEF BySection
  <2>4. CASE i = 1
    <3>1. Len(r) > 0 /\ 1 \in 1..Len(r)
      BY <1>2, <2>2
    <3>2. SectionOf(r[1]) <= SectionOf(r[j - 1])
      <4>1. CASE j - 1 = 1
        BY <1>3, <1>7, <2>2, <4>1
      <4>2. CASE 1 < j - 1
        BY <2>1, <2>2, <3>1, <4>2 DEF BySection
      <4>3. QED
        BY <2>2, <4>1, <4>2
    <3>3. /\ SectionOf(n) \in 0..2 /\ SectionOf(r[1]) \in 0..2
          /\ SectionOf(r[j - 1]) \in 0..2
      BY <1>1, <1>3, <1>7, <2>2, <3>1
    <3>4. QED
      BY <1>3, <1>8, <2>2, <2>4, <3>1, <3>2, <3>3
  <2>5. QED
    BY <2>3, <2>4
<1>10. Whole(s, T)
  <2>1. Len(s) <= Cardinality(T)
    BY <1>1, <1>2, <1>3 DEF Arranged, Whole
  <2>2. ASSUME Len(s) = Cardinality(T), NEW x \in T PROVE \E i \in 1..Len(s) : x = s[i]
    <3>1. CASE x = n
      <4>1. 1 \in 1..Len(s)
        BY <1>2, <1>3
      <4>2. QED
        BY <1>3, <3>1, <4>1
    <3>2. CASE x # n
      <4>1. Len(r) = Cardinality(T \ {n})
        BY <1>1, <1>2, <1>3, <2>2
      <4>2. PICK i \in 1..Len(r) : r[i] = x
        BY <2>2, <3>2, <4>1 DEF Arranged, Whole
      <4>3. i + 1 \in 1..Len(s) /\ s[i + 1] = x
        BY <1>2, <1>3, <4>2
      <4>4. QED
        BY <4>3
    <3>3. QED
      BY <3>1, <3>2
  <2>3. QED
    BY <2>1, <2>2 DEF Whole
<1>11. InOrder(s, edges, naming)
  <2> SUFFICES ASSUME NEW i \in 1..Len(s), NEW j \in 1..Len(s), i < j, ReadyAt(s, i, j, edges)
               PROVE  Earlier(s[i], s[j], naming)
    BY DEF InOrder
  <2>1. j - 1 \in 1..Len(r) /\ s[j] = r[j - 1]
    <3>1. j # 1
      OBVIOUS
    <3>2. QED
      BY <1>4, <3>1
  <2>2. CASE i = 1
    <3>1. ASSUME NEW d \in edges, d.from = s[j], d.to \in T PROVE FALSE
      <4>1. PICK k \in 1..(j - 1) : s[k] = d.to
        BY <1>6, <3>1 DEF Behind
      <4>2. k \in i..Len(s)
        BY <1>2, <1>3, <2>2
      <4>3. QED
        BY <3>1, <4>1, <4>2 DEF ReadyAt
    <3>2. s[j] \in Ready(T, edges) \ {n}
      BY <1>3, <2>1, <3>1 DEF Ready
    <3>3. QED
      BY <1>1, <1>3, <2>2, <3>2
  <2>3. CASE i # 1
    <3>1. i - 1 \in 1..Len(r) /\ s[i] = r[i - 1] /\ i - 1 < j - 1
      BY <1>2, <1>4, <2>3
    <3>2. ReadyAt(r, i - 1, j - 1, edges)
      <4> SUFFICES ASSUME NEW d \in edges, d.from = r[j - 1], NEW k \in (i - 1)..Len(r)
                   PROVE  r[k] # d.to
        BY DEF ReadyAt
      <4>1. k \in 1..Len(r) /\ k + 1 \in i..Len(s)
        BY <1>2, <1>3, <2>3, <3>1
      <4>2. s[k + 1] # d.to
        BY <2>1, <4>1 DEF ReadyAt
      <4>3. QED
        BY <1>3, <4>1, <4>2
    <3>3. QED
      BY <2>1, <3>1, <3>2 DEF Arranged, InOrder
  <2>4. QED
    BY <2>2, <2>3
<1>12. Arranged(s, T, edges, naming)
  BY <1>3, <1>5, <1>6, <1>9, <1>10, <1>11 DEF Arranged
<1>13. QED
  BY <1>12 DEF s

(* So what the sort returns is an arrangement if it is for the others.     *)
LEMMA ArrangedAt ==
  ASSUME NEW naming \in {"asc", "desc"}, NEW edges,
         NEW selected, selected \subseteq EntrySpace, IsFiniteSet(selected),
         NEW X, X \subseteq selected,
         Ready(X, edges) # {} =>
           Arranged(Sorting(selected, edges, naming)[Rest(X, edges, naming)],
                    Rest(X, edges, naming), edges, naming)
  PROVE  Arranged(Sorting(selected, edges, naming)[X], X, edges, naming)
<1> DEFINE sorted == Sorting(selected, edges, naming)[X]
           next == Foremost(X, edges, naming)
           rest == Rest(X, edges, naming)
<1>1. /\ Ready(X, edges) = {} => sorted = <<>>
      /\ Ready(X, edges) # {} => sorted = <<next>> \o Sorting(selected, edges, naming)[rest]
  BY SortingStep, SMTT(60)
<1>2. X \subseteq EntrySpace /\ IsFiniteSet(X) /\ Cardinality(X) \in Nat
  BY FS_Subset, FS_CardinalityType
<1>3. CASE Ready(X, edges) = {}
  <2>1. sorted = <<>>
    BY <1>1, <1>3
  <2> HIDE DEF sorted
  <2>2. Len(sorted) = 0 /\ sorted \in Seq(X) /\ \A i \in 1..Len(sorted) : FALSE
    BY <2>1
  <2>3. Whole(sorted, X)
    <3>1. Cardinality(X) = 0 => X = {}
      BY <1>2, FS_EmptySet
    <3>2. QED
      BY <1>2, <2>2, <3>1 DEF Whole
  <2>4. Arranged(sorted, X, edges, naming)
    BY <2>2, <2>3 DEF Arranged, Distinct, Behind, BySection, InOrder
  <2>5. QED
    BY <2>4 DEF sorted
<1>4. CASE Ready(X, edges) # {}
  <2> DEFINE n == First(Ready(X, edges), naming)
             r == Sorting(selected, edges, naming)[rest]
  <2>1. next = n /\ rest = X \ {n}
    BY DEF Foremost, Rest
  <2>2. sorted = <<next>> \o r /\ Arranged(r, rest, edges, naming)
    BY <1>1, <1>4
  <2> HIDE DEF sorted, next, rest, r
  <2>3. Arranged(r, X \ {n}, edges, naming)
    BY <2>1, <2>2
  <2>4. Arranged(<<n>> \o r, X, edges, naming)
    <3> HIDE DEF n
    <3>1. n = First(Ready(X, edges), naming)
      BY DEF n
    <3>2. QED
      BY <1>2, <1>4, <2>3, <3>1, ArrangedStep
  <2>5. Arranged(sorted, X, edges, naming)
    BY <2>1, <2>2, <2>4
  <2>6. QED
    BY <2>5 DEF sorted
<1>5. QED
  BY <1>3, <1>4

(* One entry fewer is left.                                                *)
LEMMA RestIsSmaller ==
  ASSUME NEW naming \in {"asc", "desc"}, NEW edges,
         NEW X, X \subseteq EntrySpace, IsFiniteSet(X), Ready(X, edges) # {}
  PROVE  /\ Rest(X, edges, naming) \subseteq X
         /\ Cardinality(X) \in Nat \ {0}
         /\ Cardinality(Rest(X, edges, naming)) = Cardinality(X) - 1
<1> DEFINE n == First(Ready(X, edges), naming)
           rest == Rest(X, edges, naming)
<1>1. rest = X \ {n}
  BY DEF Foremost, Rest
<1>2. n = First(Ready(X, edges), naming)
  OBVIOUS
<1> HIDE DEF n, rest
<1>3. Cardinality(X) \in Nat \ {0} /\ Cardinality(rest) = Cardinality(X) - 1
  BY <1>1, <1>2, ReadyEntries
<1>4. rest \subseteq X
  BY <1>1
<1>5. QED
  BY <1>3, <1>4 DEF rest

(* The order of any selection is an arrangement of it: DependencyGraph.ts  *)
(* sorts each entry behind what it depends on, and keeps the sections      *)
(* apart.                                                                  *)
THEOREM OrderedIsArranged ==
  ASSUME NEW naming \in {"asc", "desc"}, NEW edges,
         NEW selected, selected \subseteq EntrySpace, IsFiniteSet(selected)
  PROVE  Arranged(Ordered(selected, edges, naming), selected, edges, naming)
<1> DEFINE Fine(X) == Arranged(Sorting(selected, edges, naming)[X], X, edges, naming)
           S == {n \in Nat : \A X \in SUBSET selected : Cardinality(X) = n => Fine(X)}
           N == Cardinality(selected)
<1>1. \A X \in SUBSET selected :
        X \subseteq EntrySpace /\ IsFiniteSet(X) /\ Cardinality(X) \in Nat
  BY FS_Subset, FS_CardinalityType
<1>2. ASSUME NEW X \in SUBSET selected,
             Ready(X, edges) # {} => Fine(Rest(X, edges, naming))
      PROVE  Fine(X)
  <2>1. Ready(X, edges) # {} =>
           Arranged(Sorting(selected, edges, naming)[Rest(X, edges, naming)],
                    Rest(X, edges, naming), edges, naming)
    BY <1>2
  <2>2. X \subseteq selected
    OBVIOUS
  <2> HIDE DEF N, S, Fine
  <2>3. Arranged(Sorting(selected, edges, naming)[X], X, edges, naming)
    BY <2>1, <2>2, ArrangedAt
  <2>4. QED
    BY <2>3 DEF Fine
<1> HIDE DEF Fine
<1>3. \A X \in SUBSET selected : Ready(X, edges) # {} =>
         /\ Rest(X, edges, naming) \in SUBSET selected
         /\ Cardinality(X) \in Nat \ {0}
         /\ Cardinality(Rest(X, edges, naming)) = Cardinality(X) - 1
  <2> SUFFICES ASSUME NEW X \in SUBSET selected, Ready(X, edges) # {}
               PROVE  /\ Rest(X, edges, naming) \in SUBSET selected
                      /\ Cardinality(X) \in Nat \ {0}
                      /\ Cardinality(Rest(X, edges, naming)) = Cardinality(X) - 1
    OBVIOUS
  <2>1. X \subseteq EntrySpace /\ IsFiniteSet(X)
    BY <1>1
  <2> HIDE DEF N, S
  <2>2. /\ Rest(X, edges, naming) \subseteq X
        /\ Cardinality(X) \in Nat \ {0}
        /\ Cardinality(Rest(X, edges, naming)) = Cardinality(X) - 1
    BY <2>1, RestIsSmaller
  <2>3. QED
    BY <2>2
<1>4. 0 \in S
  <2> SUFFICES ASSUME NEW X \in SUBSET selected, Cardinality(X) = 0 PROVE Fine(X)
    OBVIOUS
  <2>1. QED
    BY <1>2, <1>3
<1>5. ASSUME NEW n \in 1..N, n - 1 \in S PROVE n \in S
  <2>1. n \in Nat
    BY <1>1
  <2>2. ASSUME NEW X \in SUBSET selected, Cardinality(X) = n PROVE Fine(X)
    BY <1>2, <1>3, <1>5, <2>2
  <2>3. QED
    BY <2>1, <2>2
<1>6. N \in S
  <2>1. N \in Nat
    BY <1>1
  <2> HIDE DEF N, S
  <2>2. QED
    BY <1>4, <1>5, <2>1, UpTo
<1>7. Fine(selected)
  BY <1>6
<1>8. QED
  BY <1>7 DEF Ordered, Fine

-----------------------------------------------------------------------------
(* Steps within a set, and what is closed under them.                      *)
Within(U, steps) == \A d \in steps : d.to \in U
Closed(T, steps) == \A d \in steps : d.from \in T => d.to \in T

(* Each pass adds a member, or the set is closed.                          *)
LEMMA GrowsOrCloses ==
  ASSUME NEW U, IsFiniteSet(U), NEW steps, Within(U, steps), NEW T \in SUBSET U
  PROVE  /\ WithTargets(T, steps) \in SUBSET U
         /\ T \subseteq WithTargets(T, steps)
         /\ IsFiniteSet(U \ T) /\ Cardinality(U \ T) \in Nat
         /\ WithTargets(T, steps) = T => Closed(T, steps)
         /\ WithTargets(T, steps) # T =>
              /\ Cardinality(U \ T) # 0
              /\ Cardinality(U \ WithTargets(T, steps)) <= Cardinality(U \ T) - 1
<1> DEFINE V == WithTargets(T, steps)
<1>1. V \in SUBSET U /\ T \subseteq V
  BY DEF WithTargets, Within
<1>2. V = T => Closed(T, steps)
  BY DEF WithTargets, Closed
<1>3. /\ IsFiniteSet(U \ T) /\ Cardinality(U \ T) \in Nat
      /\ IsFiniteSet(U \ V) /\ Cardinality(U \ V) \in Nat
  <2> HIDE DEF V
  <2>1. IsFiniteSet(U \ T) /\ IsFiniteSet(U \ V)
    BY FS_Difference
  <2>2. QED
    BY <2>1, FS_CardinalityType
<1> HIDE DEF V
<1>4. ASSUME V # T
      PROVE  Cardinality(U \ T) # 0 /\ Cardinality(U \ V) <= Cardinality(U \ T) - 1
  <2> DEFINE A == U \ T
             B == U \ V
  <2>1. B \in SUBSET A /\ A # B
    BY <1>1, <1>4
  <2>2. IsFiniteSet(A) /\ Cardinality(A) \in Nat /\ Cardinality(B) \in Nat
    BY <1>3
  <2> HIDE DEF A, B
  <2>3. Cardinality(B) <= Cardinality(A) /\ Cardinality(A) # Cardinality(B)
    BY <2>1, <2>2, FS_Subset
  <2>4. Cardinality(A) # 0 /\ Cardinality(B) <= Cardinality(A) - 1
    BY <2>2, <2>3
  <2>5. QED
    BY <2>4 DEF A, B
<1>5. QED
  BY <1>1, <1>2, <1>3, <1>4 DEF V

(* The closure is defined: of a set that a pass leaves alone it is the     *)
(* set.                                                                    *)
LEMMA ClosingStep ==
  ASSUME NEW U, IsFiniteSet(U), NEW steps, Within(U, steps)
  PROVE  \A T \in SUBSET U :
           Closing(U, steps)[T]
             = IF WithTargets(T, steps) = T THEN T
               ELSE Closing(U, steps)[WithTargets(T, steps)]
<1> DEFINE V(T) == WithTargets(T, steps)
           Step(v, T) == IF V(T) = T THEN T ELSE v[V(T)]
           Late(n) == {T \in SUBSET U : Cardinality(U \ T) <= n}
           Defined(n) == \E v : v = [T \in Late(n) |-> Step(v, T)]
           S == {n \in Nat : Defined(n)}
           N == Cardinality(U)
<1>1. \A T \in SUBSET U : /\ V(T) \in SUBSET U
                          /\ Cardinality(U \ T) \in Nat
                          /\ V(T) # T => /\ Cardinality(U \ T) # 0
                                         /\ Cardinality(U \ V(T)) <= Cardinality(U \ T) - 1
  BY GrowsOrCloses
<1>2. N \in Nat /\ Late(N) = SUBSET U
  <2>1. N \in Nat
    BY FS_CardinalityType
  <2>2. ASSUME NEW T \in SUBSET U PROVE Cardinality(U \ T) <= N
    <3>1. U \ T \in SUBSET U
      OBVIOUS
    <3>2. QED
      BY <3>1, FS_Subset
  <2>3. QED
    BY <2>1, <2>2
<1> HIDE DEF V
<1>3. 0 \in S
  <2> DEFINE w == [T \in Late(0) |-> T]
  <2>1. ASSUME NEW T \in Late(0) PROVE V(T) = T
    <3>1. T \in SUBSET U /\ Cardinality(U \ T) <= 0
      OBVIOUS
    <3>2. Cardinality(U \ T) \in Nat /\ (V(T) # T => Cardinality(U \ T) # 0)
      BY <1>1, <3>1
    <3> HIDE DEF Late
    <3>3. QED
      BY <3>1, <3>2
  <2>2. w = [T \in Late(0) |-> Step(w, T)]
    <3> HIDE DEF Late
    <3>1. \A T \in Late(0) : w[T] = Step(w, T)
      BY <2>1
    <3>2. QED
      BY <3>1
  <2>3. Defined(0)
    BY <2>2
  <2>4. QED
    BY <2>3
<1>4. ASSUME NEW n \in 1..N, n - 1 \in S PROVE n \in S
  <2>1. PICK v : v = [T \in Late(n - 1) |-> Step(v, T)]
    BY <1>4
  <2> DEFINE w == [T \in Late(n) |-> IF T \in Late(n - 1) THEN v[T] ELSE Step(v, T)]
  <2>2. \A T \in Late(n) : w[T] = Step(w, T)
    <3> SUFFICES ASSUME NEW T \in Late(n) PROVE w[T] = Step(w, T)
      OBVIOUS
    <3>1. w[T] = Step(v, T)
      BY <2>1
    <3>2. CASE V(T) = T
      BY <3>1, <3>2
    <3>3. CASE V(T) # T
      <4>1. V(T) \in Late(n - 1) /\ V(T) \in Late(n)
        <5>1. T \in SUBSET U /\ Cardinality(U \ T) <= n
          OBVIOUS
        <5>2. /\ V(T) \in SUBSET U
              /\ Cardinality(U \ T) \in Nat /\ Cardinality(U \ V(T)) \in Nat
              /\ Cardinality(U \ V(T)) <= Cardinality(U \ T) - 1
          BY <1>1, <3>3, <5>1
        <5>3. n \in Nat
          BY <1>2
        <5>4. Cardinality(U \ V(T)) <= n - 1 /\ Cardinality(U \ V(T)) <= n
          BY <5>1, <5>2, <5>3
        <5>5. QED
          BY <5>2, <5>4
      <4> HIDE DEF Late
      <4>2. w[V(T)] = v[V(T)]
        BY <4>1
      <4>3. QED
        BY <3>1, <3>3, <4>2
    <3>4. QED
      BY <3>2, <3>3
  <2>3. w = [T \in Late(n) |-> Step(w, T)]
    <3> HIDE DEF Late
    <3>1. QED
      BY <2>2
  <2>4. Defined(n)
    BY <2>3
  <2>5. n \in Nat
    BY <1>2
  <2> HIDE DEF Defined
  <2>6. QED
    BY <2>4, <2>5
<1>5. Defined(N)
  <2>1. N \in S
    <3> HIDE DEF S, N
    <3>1. QED
      BY <1>2, <1>3, <1>4, UpTo
  <2>2. QED
    BY <2>1
<1>6. \E v : v = [T \in SUBSET U |-> Step(v, T)]
  BY <1>2, <1>5
<1>7. Closing(U, steps) = CHOOSE v : v = [T \in SUBSET U |-> Step(v, T)]
  BY DEF Closing, V
<1>8. Closing(U, steps) = [T \in SUBSET U |-> Step(Closing(U, steps), T)]
  BY <1>6, <1>7
<1>9. QED
  BY <1>8 DEF V

(* The closure of a set has it, stays where the steps stay, is closed, and *)
(* is in every closed set that has it.  So, whatever the filter takes, no  *)
(* selected entry lacks a dependency that the mode and the sections allow, *)
(* and nothing they exclude is selected (ArchiveSelection.ts,              *)
(* includeDependencies).                                                   *)
THEOREM ClosureIsClosed ==
  ASSUME NEW U, IsFiniteSet(U), NEW steps, Within(U, steps), NEW S0 \in SUBSET U
  PROVE  /\ S0 \subseteq Closing(U, steps)[S0]
         /\ Closing(U, steps)[S0] \subseteq U
         /\ Closed(Closing(U, steps)[S0], steps)
         /\ \A X : S0 \subseteq X /\ Closed(X, steps) => Closing(U, steps)[S0] \subseteq X
<1> DEFINE C(T) == Closing(U, steps)[T]
           V(T) == WithTargets(T, steps)
           Least(T) == \A X : T \subseteq X /\ Closed(X, steps) => C(T) \subseteq X
           Fine(T) == /\ T \subseteq C(T) /\ C(T) \subseteq U /\ Closed(C(T), steps)
                      /\ Least(T)
           Sizes == {Cardinality(U \ T) : T \in {X \in SUBSET U : ~ Fine(X)}}
<1>1. \A T \in SUBSET U : /\ V(T) \in SUBSET U /\ T \subseteq V(T)
                          /\ Cardinality(U \ T) \in Nat
                          /\ V(T) = T => Closed(T, steps)
                          /\ V(T) # T => /\ Cardinality(U \ T) # 0
                                         /\ Cardinality(U \ V(T)) <= Cardinality(U \ T) - 1
  BY GrowsOrCloses
<1>2. \A T \in SUBSET U : C(T) = IF V(T) = T THEN T ELSE C(V(T))
  BY ClosingStep
<1> HIDE DEF C, V, Least
<1>3. \A T \in SUBSET U : Fine(T)
  <2> SUFFICES ASSUME Sizes # {} PROVE FALSE
    OBVIOUS
  <2>1. Sizes \subseteq Nat
    BY <1>1
  <2>2. PICK m \in Sizes : \A k \in Sizes : m <= k
    <3> HIDE DEF Sizes
    <3>1. QED
      BY <2>1, LeastNumber
  <2>3. PICK T \in SUBSET U : ~ Fine(T) /\ Cardinality(U \ T) = m
    BY <2>2
  <2>4. V(T) # T
    <3> SUFFICES ASSUME V(T) = T PROVE Fine(T)
      BY <2>3
    <3>1. C(T) = T
      BY <1>2
    <3>2. Least(T)
      BY <3>1 DEF Least
    <3>3. QED
      BY <1>1, <3>1, <3>2
  <2>5. Fine(V(T))
    <3>1. V(T) \in SUBSET U /\ Cardinality(U \ V(T)) \in Nat /\ m \in Nat
          /\ Cardinality(U \ V(T)) <= m - 1
      BY <1>1, <2>3, <2>4
    <3>2. ~ Fine(V(T)) => Cardinality(U \ V(T)) \in Sizes
      BY <3>1
    <3> HIDE DEF Fine, Sizes
    <3>3. QED
      BY <2>2, <3>1, <3>2
  <2>6. Least(T)
    <3>1. C(T) = C(V(T)) /\ Least(V(T))
      BY <1>2, <2>4, <2>5
    <3>2. ASSUME NEW X, T \subseteq X, Closed(X, steps) PROVE V(T) \subseteq X
      BY <3>2 DEF V, WithTargets, Closed
    <3>3. QED
      BY <3>1, <3>2 DEF Least
  <2>7. C(T) = C(V(T)) /\ T \subseteq V(T)
    BY <1>1, <1>2, <2>4
  <2>8. Fine(T)
    <3> HIDE DEF Sizes
    <3>1. QED
      BY <2>5, <2>6, <2>7
  <2>9. QED
    BY <2>3, <2>8
<1>4. Fine(S0)
  BY <1>3
<1>5. QED
  BY <1>4 DEF C, Least

-----------------------------------------------------------------------------
(* The entries an archive of the catalog can have.                         *)
Grantees == {0} \cup UNION {Catalog[o].grants : o \in Ids}
Possible == [t : Types, o : Ids, g : Grantees]

(* There are finitely many types of entries, by section and priority.      *)
LEMMA TypesAreFinite == IsFiniteSet(Types)
<1> DEFINE Rank == [t \in Types |-> <<SectionOf(Entry(t, 0)), Priority(Entry(t, 0))>>]
           Ranks == (0..2) \X (0..120)
<1>1. \A t \in Types : Entry(t, 0).t = t
  BY DEF Entry
<1>2. \A t \in Types : SectionOf(Entry(t, 0)) \in 0..2 /\ Priority(Entry(t, 0)) \in 0..120
  BY <1>1, PriorityIsNumber
<1>3. \A s, t \in Types : Rank[s] = Rank[t] => s = t
  <2> SUFFICES ASSUME NEW s \in Types, NEW t \in Types, Rank[s] = Rank[t] PROVE s = t
    OBVIOUS
  <2> DEFINE d == Entry(s, 0)
             e == Entry(t, 0)
  <2>1. d.t = s /\ e.t = t
    BY <1>1
  <2>2. SectionOf(d) = SectionOf(e) /\ Priority(d) = Priority(e)
    OBVIOUS
  <2> HIDE DEF d, e
  <2>3. d.t = e.t
    BY <2>1, <2>2, PriorityTellsType
  <2>4. QED
    BY <2>1, <2>3
<1>4. Rank \in Injection(Types, Ranks)
  <2>1. Rank \in [Types -> Ranks]
    BY <1>2
  <2> HIDE DEF Rank, Ranks
  <2>2. QED
    BY <1>3, <2>1 DEF Injection, IsInjective
<1>5. IsFiniteSet(Ranks)
  <2>1. \A n \in Nat : IsFiniteSet(0..n)
    <3> SUFFICES ASSUME NEW n \in Nat PROVE IsFiniteSet(0..n)
      OBVIOUS
    <3>1. 0 \in Int /\ n \in Int
      OBVIOUS
    <3>2. QED
      BY <3>1, FS_Interval
  <2>2. IsFiniteSet(0..2) /\ IsFiniteSet(0..120)
    BY <2>1
  <2>3. QED
    BY <2>1, <2>2, FS_Product
<1>6. QED
  BY <1>4, <1>5, FS_Injection

(* Finitely many roles are granted something.                              *)
LEMMA GranteesAreFinite == IsFiniteSet(Grantees) /\ Grantees \subseteq Nat
<1> DEFINE Lists == {Catalog[o].grants : o \in Ids}
           f == [o \in Ids |-> Catalog[o].grants]
<1>1. f \in Surjection(Ids, Lists)
  BY DEF Surjection
<1>2. IsFiniteSet(Lists)
  <2> HIDE DEF f, Lists
  <2>1. QED
    BY <1>1, FS_Surjection, CatalogAssumption
<1>3. IsFiniteSet(UNION Lists)
  <2>1. \A T \in Lists : IsFiniteSet(T)
    BY CatalogAssumption
  <2>2. QED
    BY <1>2, <2>1, FS_UNION
<1>4. IsFiniteSet(Grantees)
  BY <1>3, FS_Singleton, FS_Union DEF Grantees
<1>5. QED
  BY <1>4, CatalogAssumption DEF Grantees

(* So there are finitely many entries.                                     *)
LEMMA PossibleIsFinite == IsFiniteSet(Possible) /\ Possible \subseteq EntrySpace
<1> DEFINE Triples == Types \X (Ids \X Grantees)
           Made(p) == [t |-> p[1], o |-> p[2][1], g |-> p[2][2]]
           f == [p \in Triples |-> Made(p)]
<1>1. f \in Surjection(Triples, Possible)
  <2>1. f \in [Triples -> Possible]
    BY DEF Possible
  <2>2. ASSUME NEW e \in Possible PROVE \E p \in Triples : f[p] = e
    <3>1. <<e.t, <<e.o, e.g>> >> \in Triples
      BY DEF Possible
    <3>2. Made(<<e.t, <<e.o, e.g>> >>) = e
      BY DEF Possible
    <3>3. QED
      BY <3>1, <3>2
  <2> HIDE DEF f, Triples
  <2>3. QED
    BY <2>1, <2>2 DEF Surjection
<1>2. IsFiniteSet(Triples)
  BY TypesAreFinite, GranteesAreFinite, CatalogAssumption, FS_Product
<1>3. IsFiniteSet(Possible)
  <2> HIDE DEF f, Triples
  <2>1. QED
    BY <1>1, <1>2, FS_Surjection
<1>4. QED
  BY <1>3, GranteesAreFinite DEF Possible, EntrySpace

(* Where an entry of the archive comes from.                               *)
LEMMA EntryOrigin ==
  ASSUME NEW db, NEW inc
  PROVE  /\ \A o \in Planned(db, inc) : ObjectEntry(o) \in Entries(db, inc)
         /\ \A e \in Entries(db, inc) :
              \/ \E o \in Planned(db, inc) :
                   \/ e = ObjectEntry(o)
                   \/ \E t \in SatelliteTypes(o, db) : e = Entry(t, o)
              \/ \E o \in db : e \in MetadataEntries(o)
<1>1. \A o, e : e \in EntriesOf(o, db) <=>
                  \/ e = ObjectEntry(o)
                  \/ \E t \in SatelliteTypes(o, db) : e = Entry(t, o)
  BY DEF EntriesOf
<1>2. \A e : e \in Entries(db, inc) <=> \/ \E o \in Planned(db, inc) : e \in EntriesOf(o, db)
                                        \/ \E o \in db : e \in MetadataEntries(o)
  <2>1. \A e : e \in Described(db, inc) <=> \E o \in Planned(db, inc) : e \in EntriesOf(o, db)
    BY DEF Described
  <2>2. \A e : e \in Metadata(db) <=> \E o \in db : e \in MetadataEntries(o)
    BY DEF Metadata
  <2>3. QED
    BY <2>1, <2>2 DEF Entries
<1>3. \A o \in Planned(db, inc) : ObjectEntry(o) \in Entries(db, inc)
  BY <1>1, <1>2
<1>4. \A e \in Entries(db, inc) :
        \/ \E o \in Planned(db, inc) : \/ e = ObjectEntry(o)
                                        \/ \E t \in SatelliteTypes(o, db) : e = Entry(t, o)
        \/ \E o \in db : e \in MetadataEntries(o)
  BY <1>1, <1>2
<1>5. QED
  BY <1>3, <1>4

(* An entry is about an introspected object; one whose type is a kind is   *)
(* the entry of an object of that kind.                                    *)
LEMMA EntryShape ==
  ASSUME NEW db, db \subseteq Ids, NEW inc, NEW e \in Entries(db, inc)
  PROVE  /\ e \in Possible /\ e.o \in db
         /\ e.t \in Kinds => e = ObjectEntry(e.o) /\ e.o \in Planned(db, inc)
<1>1. Planned(db, inc) \subseteq db
  BY DEF Planned
<1>2. \A o \in db : o \in Ids /\ Kind(o) \in Kinds /\ Catalog[o].grants \subseteq Grantees
  BY CatalogAssumption DEF Grantees
<1>3. Satellites \cap Kinds = {} /\ Satellites \subseteq Types /\ Kinds \subseteq Types
      /\ 0 \in Grantees
  BY DEF Satellites, Kinds, Types, Grantees
<1>4. CASE \E o \in Planned(db, inc) : e = ObjectEntry(o)
  <2>1. PICK o \in Planned(db, inc) : e = ObjectEntry(o)
    BY <1>4
  <2>2. o \in db /\ Kind(o) \in Kinds
    BY <1>1, <1>2
  <2>3. e = [t |-> Kind(o), o |-> o, g |-> 0]
    BY <2>1 DEF ObjectEntry, Entry
  <2>4. e.o = o
    BY <2>3
  <2>5. e \in Possible
    BY <1>2, <1>3, <2>2, <2>3 DEF Possible
  <2>6. QED
    BY <2>1, <2>2, <2>4, <2>5
<1>5. CASE \E o \in Planned(db, inc) : \E t \in SatelliteTypes(o, db) : e = Entry(t, o)
  <2>1. PICK o \in Planned(db, inc) : \E t \in SatelliteTypes(o, db) : e = Entry(t, o)
    BY <1>5
  <2>2. PICK t \in SatelliteTypes(o, db) : e = Entry(t, o)
    BY <2>1
  <2>3. t \in Satellites
    BY DEF SatelliteTypes, Satellites
  <2>4. o \in db /\ e = [t |-> t, o |-> o, g |-> 0]
    BY <1>1, <2>2 DEF Entry
  <2>5. QED
    BY <1>2, <1>3, <2>3, <2>4 DEF Possible
<1>6. CASE \E o \in db : e \in MetadataEntries(o)
  <2>1. PICK o \in db : e \in MetadataEntries(o)
    BY <1>6
  <2>2. PICK t \in {"comment", "ownership", "acl"}, g \in Grantees :
              e = [t |-> t, o |-> o, g |-> g]
    BY <1>2, <1>3, <2>1 DEF MetadataEntries, Entry
  <2>3. t \in Satellites
    BY <2>2 DEF Satellites
  <2>4. QED
    BY <1>2, <1>3, <2>2, <2>3 DEF Possible
<1>7. QED
  BY <1>4, <1>5, <1>6, EntryOrigin

(* The archive is a finite set of entries.                                 *)
LEMMA EntriesAreFinite ==
  ASSUME NEW db, db \subseteq Ids, NEW inc
  PROVE  Entries(db, inc) \subseteq EntrySpace /\ IsFiniteSet(Entries(db, inc))
<1>1. Entries(db, inc) \subseteq Possible
  BY EntryShape
<1>2. QED
  BY <1>1, PossibleIsFinite, FS_Subset

(* The extension of a member has an entry wherever the member has one.     *)
LEMMA ExtensionEntry ==
  ASSUME NEW db, db \subseteq Ids, \A o \in db : Ext(o) # 0 => Ext(o) \in db,
         NEW inc, NEW e \in Entries(db, inc), MemberOf(e) # 0
  PROVE  /\ e.t \in Kinds
         /\ Entry("extension", MemberOf(e)) \in Entries(db, inc)
<1>1. e.o \in db
  BY EntryShape
<1>2. e.t = Kind(e.o) /\ MemberOf(e) = Ext(e.o)
  BY DEF MemberOf
<1>3. e.t \in Kinds
  BY <1>1, <1>2, CatalogAssumption
<1> DEFINE x == Ext(e.o)
<1>4. x \in db /\ Kind(x) = "extension"
  BY <1>1, <1>2, CatalogAssumption
<1> HIDE DEF x
<1>5. x \in Planned(db, inc)
  BY <1>4 DEF Planned, OptionalKinds
<1>6. Entry("extension", x) \in Entries(db, inc)
  <2>1. ObjectEntry(x) = Entry("extension", x)
    BY <1>4 DEF ObjectEntry
  <2>2. ObjectEntry(x) \in Entries(db, inc)
    BY <1>5, EntryOrigin
  <2>3. QED
    BY <2>1, <2>2
<1>7. QED
  BY <1>2, <1>3, <1>6 DEF x

(* A hard edge leads to an object or to the columns of a table; only a     *)
(* sequence's state has one to table rows.                                 *)
LEMMA HardTargetTypes ==
  ASSUME NEW db, db \subseteq Ids, NEW e, NEW x \in HardTargets(e, db), x.o \in Ids
  PROVE  \/ x.t \in Kinds \cup {"column"}
         \/ e.t = "sequence-state" /\ x.t = "table-data"
<1>1. \A o : ObjectEntry(o).t = Kind(o) /\ ObjectEntry(o).o = o
  BY DEF ObjectEntry, Entry
<1>2. \A t, o : Entry(t, o).t = t /\ Entry(t, o).o = o
  BY DEF Entry
<1>3. "schema" \in Kinds /\ Kind(x.o) \in Kinds
  BY CatalogAssumption DEF Kinds
<1>4. x \in SchemaEdges(e) => x.t = "schema"
  BY <1>2 DEF SchemaEdges
<1>5. x \in ReferenceEdges(e) => x.t = Kind(x.o)
  BY <1>1 DEF ReferenceEdges, Resolved
<1>6. x \in ColumnEdges(e, db) => x.t = "column"
  BY <1>2 DEF ColumnEdges
<1>7. x \in ParentEdges(e) => x.t = Kind(x.o)
  BY <1>1 DEF ParentEdges
<1>8. x \in SemanticEdges(e, db) =>
        x.t = Kind(x.o) \/ (e.t = "sequence-state" /\ x.t = "table-data")
  BY <1>1, <1>2 DEF SemanticEdges
<1>9. QED
  BY <1>3, <1>4, <1>5, <1>6, <1>7, <1>8 DEF HardTargets, CatalogEdges

(* The edges of an archive join its entries, and the hard ones are of that *)
(* shape.                                                                  *)
LEMMA EdgeShape ==
  ASSUME NEW db, db \subseteq Ids, \A o \in db : Ext(o) # 0 => Ext(o) \in db,
         NEW inc, NEW es, es = Entries(db, inc), NEW d \in Edges(es, db)
  PROVE  /\ d.from \in es /\ d.to \in es
         /\ d.hard => \/ d.to.t \in Kinds \cup {"column"}
                      \/ d.from.t = "sequence-state" /\ d.to.t = "table-data"
<1> DEFINE Hard == UNION {{[from |-> e, to |-> x, hard |-> TRUE]
                             : x \in (HardTargets(e, db) \cap es) \ {e}} : e \in es}
           Soft == UNION {{[from |-> e, to |-> x, hard |-> FALSE]
                             : x \in Preferences(e) \cap es} : e \in es}
           Good(x) == /\ x.from \in es /\ x.to \in es
                      /\ x.hard => \/ x.to.t \in Kinds \cup {"column"}
                                   \/ x.from.t = "sequence-state" /\ x.to.t = "table-data"
<1>1. ASSUME NEW x \in Hard PROVE Good(x)
  <2>1. PICK e \in es : \E y \in (HardTargets(e, db) \cap es) \ {e} :
               x = [from |-> e, to |-> y, hard |-> TRUE]
    OBVIOUS
  <2>2. PICK y \in HardTargets(e, db) \cap es : x = [from |-> e, to |-> y, hard |-> TRUE]
    BY <2>1
  <2>3. y.o \in Ids
    BY EntryShape
  <2>4. \/ y.t \in Kinds \cup {"column"}
        \/ e.t = "sequence-state" /\ y.t = "table-data"
    BY <2>3, HardTargetTypes
  <2>5. QED
    BY <2>2, <2>4
<1>2. ASSUME NEW x \in Soft PROVE Good(x) /\ ~ x.hard
  OBVIOUS
<1>3. Edges(es, db) = WithExtensions(Hard \cup Soft) \cup MemberEdges(es)
  BY DEF Edges
<1> HIDE DEF Hard, Soft
<1>4. \A e \in es : MemberOf(e) # 0 => Entry("extension", MemberOf(e)) \in es
  BY ExtensionEntry
<1>5. \A y : Entry("extension", y).t \in Kinds
  BY DEF Entry, Kinds
<1>6. ASSUME NEW x \in MemberEdges(es) PROVE Good(x)
  BY <1>4, <1>5 DEF MemberEdges
<1>7. ASSUME NEW x \in WithExtensions(Hard \cup Soft) PROVE Good(x)
  <2>1. CASE x \in Hard \cup Soft
    BY <1>1, <1>2, <2>1
  <2>2. CASE x \notin Hard \cup Soft
    <3>1. PICK y \in Hard \cup Soft :
                 /\ MemberOf(y.to) # 0
                 /\ x = [from |-> y.from, to |-> Entry("extension", MemberOf(y.to)),
                         hard |-> TRUE]
      BY <2>2 DEF WithExtensions
    <3>2. y.from \in es /\ y.to \in es
      BY <1>1, <1>2
    <3>3. QED
      BY <1>4, <1>5, <3>1, <3>2
  <2>3. QED
    BY <2>1, <2>2
<1>8. Good(d)
  BY <1>3, <1>6, <1>7
<1>9. QED
  BY <1>8
=============================================================================
