------------------------ MODULE OptimalParentsProofs -----------------------
(***************************************************************************)
(* What cmd/optimalparents computes, for any CA certificates: the search   *)
(* finds a shortest way to every root that can be reached, and the         *)
(* parent listed for a key leads on to a better one until a root is        *)
(* reached that a log accepts.                                             *)
(***************************************************************************)
EXTENDS OptimalParents, Sequences, FiniteSetTheorems, WellFoundedInduction, TLAPS

\* What is true of 0, and of each number after one of which it is true, is true of all.
LEMMA UpTo ==
  ASSUME NEW n \in Nat, NEW S, 0 \in S, \A i \in 0..(n - 1) : i \in S => i + 1 \in S
  PROVE  \A i \in 0..n : i \in S
<1> DEFINE Without == {i \in 0..n : i \notin S}
           R == OpToRel(<, Nat)
<1>1. SUFFICES ASSUME Without # {} PROVE FALSE
  OBVIOUS
<1>2. IsWellFoundedOn(R, Nat)
  BY NatLessThanWellFounded
<1>3. \A k, m \in Nat : <<k, m>> \in R <=> k < m
  BY DEF OpToRel
<1> HIDE DEF R
<1> Without \subseteq Nat
  OBVIOUS
<1>4. PICK m \in Without : \A k \in Without : ~(<<k, m>> \in R)
  <2> HIDE DEF Without
  <2> QED
    BY <1>1, <1>2, WFMin, Zenon
<1>5. m \in 0..n /\ m \notin S /\ m # 0
  OBVIOUS
<1>6. m - 1 \in 0..(n - 1) /\ m - 1 \in 0..n /\ (m - 1) + 1 = m
  BY <1>5
<1>7. m - 1 \in S
  <2>1. <<m - 1, m>> \in R
    BY <1>3, <1>5, <1>6
  <2>2. m - 1 \notin Without
    BY <1>4, <2>1
  <2> QED
    BY <1>6, <2>2
<1> QED
  BY <1>5, <1>6, <1>7

---------------------------------------------------------------------------
(***************************************************************************)
(* The search, step by step.                                               *)
(***************************************************************************)

Started(c) == [level |-> {c}, visited |-> {c}, chains |-> {}]

NewParents(before, cas) == (UNION {findParents(d, cas) : d \in before.level}) \ before.visited

Grown(before, n, cas) ==
  LET parents == NewParents(before, cas)
      roots   == {p \in parents : SelfSigned(p)}
  IN  [level   |-> parents \ roots,
       visited |-> before.visited \cup parents,
       chains  |-> before.chains \cup {[last |-> r, length |-> n + 1] : r \in roots}]

IsSearch(f, c, cas, n) ==
  f = [i \in 0..n |-> IF i = 0 THEN Started(c) ELSE Grown(f[i - 1], i, cas)]

\* There are searches of every depth.
LEMMA SearchExists ==
  ASSUME NEW c, NEW cas, NEW n \in Nat
  PROVE  \E f : IsSearch(f, c, cas, n)
<1> DEFINE Depths == {i \in Nat : \E f : IsSearch(f, c, cas, i)}
<1>1. 0 \in Depths
  <2> DEFINE f == [i \in 0..0 |-> Started(c)]
  <2>1. IsSearch(f, c, cas, 0)
    BY DEF IsSearch
  <2> QED
    BY <2>1
<1>2. ASSUME NEW i \in 0..(n - 1), i \in Depths
      PROVE  i + 1 \in Depths
  <2>1. i \in Nat /\ i + 1 \in Nat
    OBVIOUS
  <2>2. PICK f : IsSearch(f, c, cas, i)
    BY <1>2
  <2> DEFINE g == [j \in 0..(i + 1) |-> IF j <= i THEN f[j] ELSE Grown(f[i], i + 1, cas)]
  <2>3. ASSUME NEW j \in 0..(i + 1)
        PROVE  g[j] = IF j = 0 THEN Started(c) ELSE Grown(g[j - 1], j, cas)
    <3>1. CASE j = 0
      BY <2>1, <2>2, <3>1 DEF IsSearch
    <3>2. CASE j \in 1..i
      <4>1. j \in 0..i /\ j - 1 \in 0..(i + 1) /\ j - 1 <= i /\ j <= i /\ j # 0
        BY <2>1, <3>2
      <4>2. f[j] = Grown(f[j - 1], j, cas)
        BY <2>2, <4>1 DEF IsSearch
      <4>3. g[j] = f[j] /\ g[j - 1] = f[j - 1]
        BY <4>1
      <4> HIDE DEF g
      <4> QED
        BY <4>1, <4>2, <4>3
    <3>3. CASE j = i + 1
      <4>1. j - 1 = i /\ ~(j <= i) /\ j # 0 /\ i \in 0..(i + 1) /\ i <= i
        BY <2>1, <3>3
      <4>2. g[j] = Grown(f[i], i + 1, cas) /\ g[i] = f[i]
        BY <4>1
      <4> HIDE DEF g
      <4> QED
        BY <3>3, <4>1, <4>2
    <3> QED
      BY <2>1, <3>1, <3>2, <3>3
  <2>4. g = [j \in 0..(i + 1) |-> g[j]]
    OBVIOUS
  <2> HIDE DEF g
  <2>5. IsSearch(g, c, cas, i + 1)
    BY <2>3, <2>4 DEF IsSearch
  <2> QED
    BY <2>1, <2>5
<1> HIDE DEF Depths
<1>3. n \in Depths
  BY <1>1, <1>2, UpTo
<1> QED
  BY <1>3 DEF Depths

\* So Search is what its steps lead to (main.go of cmd/optimalparents).
LEMMA SearchSteps ==
  ASSUME NEW c, NEW cas, IsFiniteSet(cas)
  PROVE  \E f : /\ f[0] = Started(c)
                /\ \A i \in 1..Cardinality(cas) : f[i] = Grown(f[i - 1], i, cas)
                /\ Search(c, cas) = f[Cardinality(cas)]
<1>1. Cardinality(cas) \in Nat
  BY FS_CardinalityType
<1> DEFINE f == CHOOSE g : IsSearch(g, c, cas, Cardinality(cas))
<1>2. IsSearch(f, c, cas, Cardinality(cas))
  BY <1>1, SearchExists
<1>3. Search(c, cas) = f[Cardinality(cas)]
  BY DEF Search, IsSearch, Started, Grown, NewParents
<1> HIDE DEF f
<1>4. f[0] = Started(c)
  BY <1>1, <1>2 DEF IsSearch
<1>5. ASSUME NEW i \in 1..Cardinality(cas)
      PROVE  f[i] = Grown(f[i - 1], i, cas)
  <2>1. i \in 0..Cardinality(cas) /\ i # 0
    BY <1>1
  <2> QED
    BY <1>2, <2>1 DEF IsSearch
<1> QED
  BY <1>3, <1>4, <1>5

---------------------------------------------------------------------------
(***************************************************************************)
(* Ways from a certificate to those above it.                              *)
(***************************************************************************)

IsWay(w, c, d, n, cas) ==
  /\ w \in [0..n -> cas]
  /\ w[0] = c /\ w[n] = d
  /\ \A i \in 0..(n - 1) : ~SelfSigned(w[i]) /\ w[i + 1] \in findParents(w[i], cas)

\* n certifications lead from c to d, none of them made by a root.
Way(c, d, n, cas) == \E w : IsWay(w, c, d, n, cas)

LEMMA ParentsType ==
  ASSUME NEW c, NEW cas, NEW p \in findParents(c, cas)
  PROVE  p \in cas /\ p # c /\ c.aki # NoKey /\ p.ski = c.aki
<1> QED
  BY DEF findParents

LEMMA NoSteps ==
  ASSUME NEW cas, NEW c \in cas
  PROVE  Way(c, c, 0, cas)
<1>1. IsWay([i \in 0..0 |-> c], c, c, 0, cas)
  BY DEF IsWay
<1> QED
  BY <1>1 DEF Way

LEMMA LastStep ==
  ASSUME NEW cas, NEW c, NEW d, NEW n \in Nat, Way(c, d, n, cas), ~SelfSigned(d),
         NEW p \in findParents(d, cas)
  PROVE  Way(c, p, n + 1, cas)
<1>1. PICK w : IsWay(w, c, d, n, cas)
  BY DEF Way
<1>2. p \in cas
  BY ParentsType
<1> DEFINE v == [i \in 0..(n + 1) |-> IF i <= n THEN w[i] ELSE p]
<1>3. v \in [0..(n + 1) -> cas]
  BY <1>1, <1>2 DEF IsWay
<1>4. v[0] = c /\ v[n] = d /\ v[n + 1] = p
  BY <1>1 DEF IsWay
<1>5. \A i \in 0..n : v[i] = w[i]
  OBVIOUS
<1> HIDE DEF v
<1>6. ASSUME NEW i \in 0..((n + 1) - 1)
      PROVE  ~SelfSigned(v[i]) /\ v[i + 1] \in findParents(v[i], cas)
  <2>1. CASE i = n
    BY <1>4, <2>1
  <2>2. CASE i # n
    <3>1. i \in 0..(n - 1) /\ i \in 0..n /\ i + 1 \in 0..n
      BY <2>2
    <3> QED
      BY <1>1, <1>5, <3>1 DEF IsWay
  <2> QED
    BY <2>1, <2>2
<1> QED
  BY <1>3, <1>4, <1>6 DEF Way, IsWay

LEMMA FirstStep ==
  ASSUME NEW cas, NEW c \in cas, ~SelfSigned(c), NEW p \in findParents(c, cas),
         NEW d, NEW n \in Nat, Way(p, d, n, cas)
  PROVE  Way(c, d, n + 1, cas)
<1>1. PICK w : IsWay(w, p, d, n, cas)
  BY DEF Way
<1> DEFINE v == [i \in 0..(n + 1) |-> IF i = 0 THEN c ELSE w[i - 1]]
<1>2. v \in [0..(n + 1) -> cas]
  <2>1. ASSUME NEW i \in 0..(n + 1)
        PROVE  v[i] \in cas
    <3>1. i # 0 => i - 1 \in 0..n
      OBVIOUS
    <3> QED
      BY <1>1, <3>1 DEF IsWay
  <2> QED
    BY <2>1
<1>3. v[0] = c /\ v[1] = p /\ v[n + 1] = d
  BY <1>1 DEF IsWay
<1>4. \A i \in 1..(n + 1) : v[i] = w[i - 1]
  OBVIOUS
<1> HIDE DEF v
<1>5. ASSUME NEW i \in 0..((n + 1) - 1)
      PROVE  ~SelfSigned(v[i]) /\ v[i + 1] \in findParents(v[i], cas)
  <2>1. CASE i = 0
    BY <1>3, <2>1
  <2>2. CASE i # 0
    <3>1. i \in 1..(n + 1) /\ i + 1 \in 1..(n + 1) /\ i - 1 \in 0..(n - 1)
          /\ (i + 1) - 1 = (i - 1) + 1
      BY <2>2
    <3>2. v[i] = w[i - 1] /\ v[i + 1] = w[(i - 1) + 1]
      BY <1>4, <3>1
    <3> QED
      BY <1>1, <3>1, <3>2 DEF IsWay
  <2> QED
    BY <2>1, <2>2
<1> QED
  BY <1>2, <1>3, <1>5 DEF Way, IsWay

LEMMA WithoutFirstStep ==
  ASSUME NEW cas, NEW c, NEW d, NEW n \in Nat, Way(c, d, n + 1, cas)
  PROVE  \E p \in findParents(c, cas) : Way(p, d, n, cas)
<1>1. PICK w : IsWay(w, c, d, n + 1, cas)
  BY DEF Way
<1> DEFINE v == [i \in 0..n |-> w[i + 1]]
<1>2. v \in [0..n -> cas] /\ v[0] = w[1] /\ v[n] = d
  BY <1>1 DEF IsWay
<1>3. \A i \in 0..n : v[i] = w[i + 1]
  OBVIOUS
<1> HIDE DEF v
<1>4. ASSUME NEW i \in 0..(n - 1)
      PROVE  ~SelfSigned(v[i]) /\ v[i + 1] \in findParents(v[i], cas)
  <2>1. i \in 0..n /\ i + 1 \in 0..n /\ i + 1 \in 0..((n + 1) - 1)
    OBVIOUS
  <2>2. v[i] = w[i + 1] /\ v[i + 1] = w[(i + 1) + 1]
    BY <1>3, <2>1
  <2> QED
    BY <1>1, <2>1, <2>2 DEF IsWay
<1>5. w[1] \in findParents(c, cas)
  BY <1>1 DEF IsWay
<1>6. IsWay(v, w[1], d, n, cas)
  BY <1>2, <1>4 DEF IsWay
<1> QED
  BY <1>5, <1>6 DEF Way

---------------------------------------------------------------------------
(***************************************************************************)
(* The search finds the ways there are.                                    *)
(***************************************************************************)

\* What the search has after n steps: ways of n certifications to those just reached; the
\* parents of all the others; and for each root a chain, as long as a way to it.
Searched(b, n, c, cas) ==
  /\ b.level \subseteq b.visited /\ b.visited \subseteq cas
  /\ \A d \in b.level : ~SelfSigned(d) /\ Way(c, d, n, cas)
  /\ \A d \in b.visited \ b.level : ~SelfSigned(d) => findParents(d, cas) \subseteq b.visited
  /\ \A d \in b.visited : SelfSigned(d) =>
       \E k \in 2..(n + 1) : [last |-> d, length |-> k] \in b.chains
  /\ \A ch \in b.chains : \E r \in cas, k \in 2..(n + 1) :
       ch = [last |-> r, length |-> k] /\ SelfSigned(r) /\ Way(c, r, k - 1, cas)
  /\ b.level # {} => Cardinality(b.visited) >= n + 1

LEMMA StartIsSearched ==
  ASSUME NEW cas, NEW c \in cas, ~SelfSigned(c)
  PROVE  Searched(Started(c), 0, c, cas)
<1>1. Cardinality({c}) = 1
  BY FS_Singleton
<1>2. Way(c, c, 0, cas)
  BY NoSteps
<1> QED
  BY <1>1, <1>2 DEF Searched, Started

LEMMA StepIsSearched ==
  ASSUME NEW cas, IsFiniteSet(cas), NEW c \in cas, NEW n \in Nat,
         NEW b, Searched(b, n, c, cas),
         NEW a, a = Grown(b, n + 1, cas)
  PROVE  Searched(a, n + 1, c, cas)
<1> DEFINE new == NewParents(b, cas)
           roots == {p \in new : SelfSigned(p)}
<1>1. /\ a.level = new \ roots
      /\ a.visited = b.visited \cup new
      /\ a.chains = b.chains \cup {[last |-> r, length |-> (n + 1) + 1] : r \in roots}
  BY DEF Grown
<1>2. new \subseteq cas /\ new \cap b.visited = {}
  BY ParentsType DEF NewParents
<1>3. \A d \in b.level : findParents(d, cas) \subseteq b.visited \cup new
  BY DEF NewParents
<1>4. \A p \in new : \E d \in b.level : p \in findParents(d, cas)
  BY DEF NewParents
<1>5. ASSUME NEW p \in new
      PROVE  Way(c, p, n + 1, cas)
  <2>1. PICK d \in b.level : p \in findParents(d, cas)
    BY <1>4
  <2> QED
    BY <2>1, LastStep DEF Searched
<1> HIDE DEF new
<1>6. a.level \subseteq a.visited /\ a.visited \subseteq cas
  BY <1>1, <1>2 DEF Searched
<1>7. \A d \in a.level : ~SelfSigned(d) /\ Way(c, d, n + 1, cas)
  BY <1>1, <1>5
<1>8. ASSUME NEW d \in a.visited \ a.level, ~SelfSigned(d)
      PROVE  findParents(d, cas) \subseteq a.visited
  <2>1. d \in b.visited
    BY <1>1, <1>8
  <2>2. CASE d \in b.level
    BY <1>1, <1>3, <2>2
  <2>3. CASE d \notin b.level
    BY <1>1, <1>8, <2>1, <2>3 DEF Searched
  <2> QED
    BY <2>2, <2>3
<1>9. ASSUME NEW d \in a.visited, SelfSigned(d)
      PROVE  \E k \in 2..((n + 1) + 1) : [last |-> d, length |-> k] \in a.chains
  <2>1. CASE d \in b.visited
    <3>1. PICK k \in 2..(n + 1) : [last |-> d, length |-> k] \in b.chains
      BY <1>9, <2>1 DEF Searched
    <3>2. k \in 2..((n + 1) + 1)
      OBVIOUS
    <3> QED
      BY <1>1, <3>1, <3>2
  <2>2. CASE d \in roots
    <3>1. [last |-> d, length |-> (n + 1) + 1] \in a.chains
      BY <1>1, <2>2
    <3>2. (n + 1) + 1 \in 2..((n + 1) + 1)
      OBVIOUS
    <3> QED
      BY <3>1, <3>2
  <2> QED
    BY <1>1, <1>9, <2>1, <2>2
<1>10. ASSUME NEW ch \in a.chains
       PROVE  \E r \in cas, k \in 2..((n + 1) + 1) :
                ch = [last |-> r, length |-> k] /\ SelfSigned(r) /\ Way(c, r, k - 1, cas)
  <2>1. CASE ch \in b.chains
    <3>1. PICK r \in cas, k \in 2..(n + 1) :
            ch = [last |-> r, length |-> k] /\ SelfSigned(r) /\ Way(c, r, k - 1, cas)
      BY <2>1 DEF Searched
    <3>2. k \in 2..((n + 1) + 1)
      OBVIOUS
    <3> QED
      BY <3>1, <3>2
  <2>2. CASE ch \notin b.chains
    <3>1. PICK r \in roots : ch = [last |-> r, length |-> (n + 1) + 1]
      BY <1>1, <2>2
    <3>2. r \in cas /\ SelfSigned(r) /\ Way(c, r, n + 1, cas)
      BY <1>2, <1>5
    <3>3. PICK k \in 2..((n + 1) + 1) : k = (n + 1) + 1
      OBVIOUS
    <3>4. k - 1 = n + 1
      BY <3>3
    <3> QED
      BY <3>1, <3>2, <3>3, <3>4
  <2> QED
    BY <2>1, <2>2
<1>11. ASSUME a.level # {}
       PROVE  Cardinality(a.visited) >= (n + 1) + 1
  <2>1. PICK p \in new : TRUE
    BY <1>1, <1>11
  <2>2. b.level # {}
    BY <1>4, <2>1
  <2>3. /\ IsFiniteSet(b.visited) /\ IsFiniteSet(a.visited)
        /\ b.visited \cup {p} \subseteq a.visited /\ p \notin b.visited
    BY <1>1, <1>2, <1>6, <2>1, FS_Subset DEF Searched
  <2>4. /\ IsFiniteSet(b.visited \cup {p})
        /\ Cardinality(b.visited \cup {p}) = Cardinality(b.visited) + 1
    BY <2>3, FS_AddElement
  <2>5. /\ Cardinality(b.visited \cup {p}) <= Cardinality(a.visited)
        /\ Cardinality(b.visited) \in Nat /\ Cardinality(a.visited) \in Nat
    BY <2>3, FS_Subset, FS_CardinalityType
  <2>6. Cardinality(b.visited) >= n + 1
    BY <2>2 DEF Searched
  <2> QED
    BY <2>4, <2>5, <2>6
<1> QED
  BY <1>6, <1>7, <1>8, <1>9, <1>10, <1>11 DEF Searched

\* The whole search: every step of it, and nothing is left to look at in the end.
LEMMA WholeSearch ==
  ASSUME NEW cas, IsFiniteSet(cas), NEW c \in cas, ~SelfSigned(c)
  PROVE  \E f : /\ \A i \in 0..Cardinality(cas) : Searched(f[i], i, c, cas)
                /\ \A i \in 1..Cardinality(cas) : f[i] = Grown(f[i - 1], i, cas)
                /\ Search(c, cas) = f[Cardinality(cas)]
                /\ f[0] = Started(c)
                /\ f[Cardinality(cas)].level = {}
<1> DEFINE n == Cardinality(cas)
<1>1. n \in Nat
  BY FS_CardinalityType
<1>2. PICK f : /\ f[0] = Started(c)
               /\ \A i \in 1..n : f[i] = Grown(f[i - 1], i, cas)
               /\ Search(c, cas) = f[n]
  BY SearchSteps
<1> DEFINE Good == {i \in Nat : Searched(f[i], i, c, cas)}
<1>3. 0 \in Good
  BY <1>2, StartIsSearched
<1>4. ASSUME NEW i \in 0..(n - 1), i \in Good
      PROVE  i + 1 \in Good
  <2>1. i \in Nat /\ i + 1 \in 1..n /\ (i + 1) - 1 = i /\ i + 1 \in Nat
    BY <1>1
  <2>2. f[i + 1] = Grown(f[i], i + 1, cas)
    BY <1>2, <2>1
  <2>3. Searched(f[i], i, c, cas)
    BY <1>4
  <2>4. Searched(f[i + 1], i + 1, c, cas)
    BY <2>1, <2>2, <2>3, StepIsSearched
  <2> QED
    BY <2>1, <2>4
<1> HIDE DEF Good
<1>5. \A i \in 0..n : i \in Good
  BY <1>1, <1>3, <1>4, UpTo
<1>6. \A i \in 0..n : Searched(f[i], i, c, cas)
  BY <1>5 DEF Good
<1>7. f[n].level = {}
  <2>1. Searched(f[n], n, c, cas)
    BY <1>1, <1>6
  <2>2. PICK visited : visited = f[n].visited
    OBVIOUS
  <2>3. visited \subseteq cas /\ (f[n].level # {} => Cardinality(visited) >= n + 1)
    BY <2>1, <2>2 DEF Searched
  <2>4. Cardinality(visited) <= n /\ Cardinality(visited) \in Nat
    BY <2>3, FS_Subset, FS_CardinalityType
  <2> QED
    BY <1>1, <2>3, <2>4
<1> QED
  BY <1>2, <1>6, <1>7

\* A chain that is found is a way to a root.
LEMMA FoundIsWay ==
  ASSUME NEW cas, IsFiniteSet(cas), NEW c \in cas, ~SelfSigned(c),
         NEW ch \in Search(c, cas).chains
  PROVE  \E r \in cas, k \in 2..(Cardinality(cas) + 1) :
           ch = [last |-> r, length |-> k] /\ SelfSigned(r) /\ Way(c, r, k - 1, cas)
<1>1. Cardinality(cas) \in Nat
  BY FS_CardinalityType
<1>2. PICK b : b = Search(c, cas) /\ Searched(b, Cardinality(cas), c, cas)
  BY <1>1, WholeSearch
<1> QED
  BY <1>2 DEF Searched

\* Every way to a root is found, or a shorter one.
LEMMA WayIsFound ==
  ASSUME NEW cas, IsFiniteSet(cas), NEW c \in cas, ~SelfSigned(c),
         NEW r, SelfSigned(r), NEW n \in Nat, Way(c, r, n, cas)
  PROVE  \E k \in 2..(n + 1) : [last |-> r, length |-> k] \in Search(c, cas).chains
<1> DEFINE N == Cardinality(cas)
           At(i) == IF i <= N THEN i ELSE N
<1>1. N \in Nat
  BY FS_CardinalityType
<1>2. PICK f : /\ \A i \in 0..N : Searched(f[i], i, c, cas)
               /\ \A i \in 1..N : f[i] = Grown(f[i - 1], i, cas)
               /\ Search(c, cas) = f[N]
               /\ f[0] = Started(c)
               /\ f[N].level = {}
  BY WholeSearch
<1>3. PICK w : IsWay(w, c, r, n, cas)
  BY DEF Way
<1> HIDE DEF N
\* What has been found once stays found.
<1>4. \A i \in 0..N : f[i].chains \subseteq f[N].chains
  <2> DEFINE Kept == {j \in 0..N : f[N - j].chains \subseteq f[N].chains}
  <2>1. 0 \in Kept
    BY <1>1
  <2>2. ASSUME NEW j \in 0..(N - 1), j \in Kept
        PROVE  j + 1 \in Kept
    <3>1. N - j \in 1..N /\ (N - j) - 1 = N - (j + 1) /\ j + 1 \in 0..N
      BY <1>1
    <3>2. f[N - j] = Grown(f[N - (j + 1)], N - j, cas)
      BY <1>2, <3>1
    <3>3. f[N - (j + 1)].chains \subseteq f[N - j].chains
      BY <3>2 DEF Grown
    <3>4. f[N - j].chains \subseteq f[N].chains
      BY <2>2
    <3> QED
      BY <3>1, <3>3, <3>4
  <2> HIDE DEF Kept
  <2>3. \A j \in 0..N : j \in Kept
    BY <1>1, <2>1, <2>2, UpTo
  <2> SUFFICES ASSUME NEW i \in 0..N
               PROVE  f[i].chains \subseteq f[N].chains
    OBVIOUS
  <2>4. N - i \in 0..N /\ N - (N - i) = i
    BY <1>1
  <2>5. N - i \in Kept
    BY <2>3, <2>4
  <2> QED
    BY <2>4, <2>5 DEF Kept
\* The search keeps up with the way.
<1>5. \A i \in 0..n : w[i] \in f[At(i)].visited
  <2> DEFINE Met == {i \in 0..n : w[i] \in f[At(i)].visited}
  <2>1. 0 \in Met
    <3>1. At(0) = 0 /\ 0 \in 0..n
      BY <1>1
    <3>2. c \in f[0].visited
      BY <1>2 DEF Started
    <3> QED
      BY <1>3, <3>1, <3>2 DEF IsWay
  <2>2. ASSUME NEW i \in 0..(n - 1), i \in Met
        PROVE  i + 1 \in Met
    <3>1. w[i] \in f[At(i)].visited /\ At(i) \in 0..N
      BY <1>1, <2>2
    <3>2. ~SelfSigned(w[i]) /\ w[i + 1] \in findParents(w[i], cas)
      BY <1>3 DEF IsWay
    <3>3. Searched(f[At(i)], At(i), c, cas)
      BY <1>2, <3>1
    <3>4. w[i] \notin f[At(i)].level => w[i + 1] \in f[At(i)].visited
      BY <3>1, <3>2, <3>3 DEF Searched
    <3>5. CASE i < N
      <4>1. At(i) = i /\ At(i + 1) = i + 1 /\ i + 1 \in 1..N /\ (i + 1) - 1 = i
        BY <1>1, <3>5
      <4>2. f[i + 1] = Grown(f[i], i + 1, cas)
        BY <1>2, <4>1
      <4>3. f[i + 1].visited = f[i].visited \cup NewParents(f[i], cas)
        BY <4>2 DEF Grown
      <4>4. w[i] \in f[i].level => w[i + 1] \in f[i + 1].visited
        BY <3>2, <4>3 DEF NewParents
      <4>5. w[i + 1] \in f[i + 1].visited
        BY <3>4, <4>1, <4>3, <4>4
      <4> QED
        BY <4>1, <4>5
    <3>6. CASE N <= i
      <4>1. At(i) = N /\ At(i + 1) = N
        BY <1>1, <3>6
      <4>2. w[i + 1] \in f[N].visited
        BY <1>2, <3>4, <4>1
      <4> QED
        BY <4>1, <4>2
    <3> QED
      BY <1>1, <3>5, <3>6
  <2> HIDE DEF Met
  <2>3. \A i \in 0..n : i \in Met
    BY <2>1, <2>2, UpTo
  <2> QED
    BY <2>3 DEF Met
<1>6. At(n) \in 0..N /\ At(n) <= n
  BY <1>1
<1>7. r \in f[At(n)].visited
  BY <1>3, <1>5 DEF IsWay
<1> HIDE DEF At
<1>8. PICK k \in 2..(At(n) + 1) : [last |-> r, length |-> k] \in f[At(n)].chains
  BY <1>2, <1>6, <1>7 DEF Searched
<1>9. k \in 2..(n + 1)
  BY <1>1, <1>6
<1> QED
  BY <1>2, <1>4, <1>6, <1>8, <1>9

---------------------------------------------------------------------------
\* From a certificate through which a root is reached, one of its parents is the root, or
\* reaches it through fewer.
LEMMA SomeParentIsCloser ==
  ASSUME NEW cas, IsFiniteSet(cas), NEW c \in cas, ~SelfSigned(c),
         NEW r, NEW k \in Nat, [last |-> r, length |-> k] \in Search(c, cas).chains
  PROVE  /\ SelfSigned(r) /\ r \in cas /\ k \in 2..(Cardinality(cas) + 1)
         /\ \E p \in findParents(c, cas) :
              \/ p = r
              \/ ~SelfSigned(p) /\ \E m \in 2..(k - 1) : [last |-> r, length |-> m] \in Search(p, cas).chains
<1>1. PICK r1 \in cas, k1 \in 2..(Cardinality(cas) + 1) :
        /\ [last |-> r, length |-> k] = [last |-> r1, length |-> k1]
        /\ SelfSigned(r1) /\ Way(c, r1, k1 - 1, cas)
  BY FoundIsWay
<1>2. r = r1 /\ k = k1
  BY <1>1
<1>3. SelfSigned(r) /\ r \in cas /\ k \in 2..(Cardinality(cas) + 1) /\ Way(c, r, k - 1, cas)
  BY <1>1, <1>2
<1>4. PICK n \in Nat : n + 1 = k - 1
  <2>1. k - 2 \in Nat /\ (k - 2) + 1 = k - 1
    BY <1>3
  <2> QED
    BY <2>1
<1>5. PICK p \in findParents(c, cas) : Way(p, r, n, cas)
  BY <1>3, <1>4, WithoutFirstStep
<1>6. CASE n = 0
  BY <1>3, <1>5, <1>6 DEF Way, IsWay
<1>7. CASE n # 0
  <2>1. ~SelfSigned(p) /\ p \in cas
    BY <1>5, <1>7, ParentsType DEF Way, IsWay
  <2>2. PICK m \in 2..(n + 1) : [last |-> r, length |-> m] \in Search(p, cas).chains
    BY <1>3, <1>5, <2>1, WayIsFound
  <2>3. m \in 2..(k - 1)
    BY <1>4
  <2> QED
    BY <1>3, <2>1, <2>2, <2>3
<1> QED
  BY <1>3, <1>6, <1>7

\* If a parent of a certificate reaches a root, so does the certificate.
LEMMA ReachesWhatParentsReach ==
  ASSUME NEW cas, IsFiniteSet(cas), NEW c \in cas, ~SelfSigned(c),
         NEW p \in findParents(c, cas),
         SelfSigned(p) \/ Search(p, cas).chains # {}
  PROVE  Search(c, cas).chains # {}
<1>1. p \in cas
  BY ParentsType
<1>2. \E r \in cas, n \in Nat : SelfSigned(r) /\ Way(p, r, n, cas)
  <2>1. CASE SelfSigned(p)
    BY <1>1, <2>1, NoSteps
  <2>2. CASE ~SelfSigned(p)
    <3>1. PICK ch : ch \in Search(p, cas).chains
      BY <2>2
    <3>2. PICK r \in cas, k \in 2..(Cardinality(cas) + 1) :
            SelfSigned(r) /\ Way(p, r, k - 1, cas)
      BY <1>1, <2>2, <3>1, FoundIsWay
    <3>3. k - 1 \in Nat
      BY FS_CardinalityType
    <3> QED
      BY <3>2, <3>3
  <2> QED
    BY <2>1, <2>2
<1>3. PICK r \in cas, n \in Nat : SelfSigned(r) /\ Way(p, r, n, cas)
  BY <1>2
<1>4. Way(c, r, n + 1, cas)
  BY <1>3, FirstStep
<1>5. n + 1 \in Nat
  OBVIOUS
<1> QED
  BY <1>3, <1>4, <1>5, WayIsFound

---------------------------------------------------------------------------
(***************************************************************************)
(* The comparison of parents.                                              *)
(***************************************************************************)

\* What the tool takes for granted of the CA certificates: they have a key, and no two of
\* them the same hash.
Distinct(cas) ==
  /\ IsFiniteSet(cas)
  /\ \A c \in cas : c.hash \in Nat /\ c.notAfter \in Nat /\ c.ski # NoKey
  /\ \A c, d \in cas : c.hash = d.hash => c = d

Ranks(r) ==
  r.score \in Nat /\ r.length \in Nat /\ r.cert.notAfter \in Nat /\ r.cert.hash \in Nat

\* A finite set of results has one that is not bettered: the one that fewest better.
LEMMA NotBettered ==
  ASSUME NEW S, IsFiniteSet(S), S # {}, \A r \in S : Ranks(r)
  PROVE  \E s \in S : \A t \in S : ~Better(t, s)
<1> DEFINE Above(s) == {t \in S : Better(t, s)}
           Counts == {Cardinality(Above(s)) : s \in S}
           R == OpToRel(<, Nat)
<1>1. \A s \in S : Above(s) \subseteq S /\ IsFiniteSet(Above(s)) /\ Cardinality(Above(s)) \in Nat
  BY FS_Subset, FS_CardinalityType
<1>2. IsWellFoundedOn(R, Nat)
  BY NatLessThanWellFounded
<1>3. \A k, m \in Nat : <<k, m>> \in R <=> k < m
  BY DEF OpToRel
<1> HIDE DEF R
<1>4. Counts \subseteq Nat /\ Counts # {}
  BY <1>1
<1>5. PICK m \in Counts : \A k \in Counts : ~(<<k, m>> \in R)
  <2> HIDE DEF Counts
  <2> QED
    BY <1>2, <1>4, WFMin, Zenon
<1>6. PICK s \in S : m = Cardinality(Above(s))
  OBVIOUS
<1>7. ASSUME NEW t \in S, Better(t, s)
      PROVE  FALSE
  <2>1. Above(t) \subseteq Above(s)
    <3> SUFFICES ASSUME NEW u \in S, Better(u, t)
                 PROVE  Better(u, s)
      OBVIOUS
    <3>1. Ranks(s) /\ Ranks(t) /\ Ranks(u)
      OBVIOUS
    <3> QED
      BY <1>7, <3>1 DEF Better, Ranks
  <2>2. t \in Above(s) /\ t \notin Above(t)
    <3>1. Ranks(t)
      OBVIOUS
    <3> QED
      BY <1>7, <3>1 DEF Better, Ranks
  <2>3. PICK many, few : many = Above(s) /\ few = Above(t)
    OBVIOUS
  <2>4. few \subseteq many /\ few # many /\ IsFiniteSet(many) /\ IsFiniteSet(few)
    BY <1>1, <2>1, <2>2, <2>3
  <2>5. Cardinality(few) < Cardinality(many)
    BY <2>4, FS_Subset, FS_CardinalityType
  <2>6. Cardinality(few) \in Counts /\ Cardinality(few) \in Nat /\ m = Cardinality(many) /\ m \in Nat
    BY <1>1, <1>6, <2>3
  <2> QED
    BY <1>3, <1>5, <2>5, <2>6
<1> QED
  BY <1>6, <1>7

---------------------------------------------------------------------------
(***************************************************************************)
(* The parent listed for a key.                                            *)
(***************************************************************************)

\* The results for a key that some log can use, and the best of them.
Scoring(key, cas, logs, accepted) ==
  {r \in UNION {{[cert |-> c, length |-> ch.length, score |-> Score(ch, logs, accepted)] :
                   ch \in buildChains(c, cas)} : c \in {d \in cas : d.ski = key}} : r.score > 0}

Best(key, cas, logs, accepted) ==
  {s \in Scoring(key, cas, logs, accepted) :
     \A t \in Scoring(key, cas, logs, accepted) : ~Better(t, s)}

LEMMA ListedIsBest ==
  ASSUME NEW key, NEW cas, NEW logs, NEW accepted
  PROVE  OptimalParent(key, cas, logs, accepted) = {r.cert : r \in Best(key, cas, logs, accepted)}
<1> QED
  BY DEF OptimalParent, Best, Scoring

LEMMA ChainType ==
  ASSUME NEW cas, IsFiniteSet(cas), NEW c \in cas, NEW ch \in buildChains(c, cas)
  PROVE  /\ \E last \in cas, k \in 1..(Cardinality(cas) + 1) : ch = [last |-> last, length |-> k]
         /\ \/ ch = [last |-> c, length |-> 1] /\ (SelfSigned(c) \/ Search(c, cas).chains = {})
            \/ ~SelfSigned(c) /\ ch \in Search(c, cas).chains
<1>1. Cardinality(cas) \in Nat
  BY FS_CardinalityType
<1>2. CASE ch = [last |-> c, length |-> 1] /\ (SelfSigned(c) \/ Search(c, cas).chains = {})
  <2>1. 1 \in 1..(Cardinality(cas) + 1)
    BY <1>1
  <2> QED
    BY <1>2, <2>1
<1>3. CASE ~SelfSigned(c) /\ ch \in Search(c, cas).chains
  <2>1. PICK r \in cas, k \in 2..(Cardinality(cas) + 1) : ch = [last |-> r, length |-> k]
    BY <1>3, FoundIsWay
  <2>2. k \in 1..(Cardinality(cas) + 1)
    OBVIOUS
  <2> QED
    BY <1>3, <2>1, <2>2
<1> QED
  BY <1>2, <1>3 DEF buildChains

LEMMA ScoreType ==
  ASSUME NEW ch, NEW logs, IsFiniteSet(logs), NEW accepted
  PROVE  /\ Score(ch, logs, accepted) \in 0..Cardinality(logs)
         /\ Score(ch, logs, accepted) > 0
              => \E l \in logs \cap DOMAIN accepted : ch.last \in accepted[l]
<1> DEFINE S == {l \in logs \cap DOMAIN accepted : ch.last \in accepted[l]}
<1>1. /\ S \subseteq logs /\ Score(ch, logs, accepted) = Cardinality(S)
  BY DEF Score
<1> HIDE DEF S
<1>2. Cardinality(S) \in Nat /\ Cardinality(logs) \in Nat /\ Cardinality(S) <= Cardinality(logs)
  BY <1>1, FS_Subset, FS_CardinalityType
<1>3. S = {} => Cardinality(S) = 0
  BY FS_EmptySet
<1>4. Cardinality(S) > 0 => S # {}
  BY <1>3
<1> QED
  BY <1>1, <1>2, <1>4 DEF S

\* A result is that of a chain.
LEMMA ResultType ==
  ASSUME NEW key, NEW cas, Distinct(cas), NEW logs, IsFiniteSet(logs), NEW accepted,
         NEW r \in Scoring(key, cas, logs, accepted)
  PROVE  /\ Ranks(r) /\ r.cert \in cas /\ r.cert.ski = key /\ r.score > 0
         /\ r = [cert |-> r.cert, length |-> r.length, score |-> r.score]
         /\ r.length \in 1..(Cardinality(cas) + 1) /\ r.score \in 0..Cardinality(logs)
         /\ \E ch \in buildChains(r.cert, cas) :
              r.length = ch.length /\ r.score = Score(ch, logs, accepted)
<1>1. PICK c \in cas : \E ch \in buildChains(c, cas) :
        /\ c.ski = key
        /\ r = [cert |-> c, length |-> ch.length, score |-> Score(ch, logs, accepted)]
        /\ r.score > 0
  BY DEF Scoring
<1> PICK ch \in buildChains(c, cas) :
      r = [cert |-> c, length |-> ch.length, score |-> Score(ch, logs, accepted)]
  BY <1>1
<1>2. r.cert = c /\ r.length = ch.length /\ r.score = Score(ch, logs, accepted)
  BY <1>1
<1>3. r.score \in 0..Cardinality(logs) /\ Cardinality(logs) \in Nat
  BY <1>2, ScoreType, FS_CardinalityType
<1>4. r.length \in 1..(Cardinality(cas) + 1) /\ Cardinality(cas) \in Nat
  <2>1. IsFiniteSet(cas)
    BY DEF Distinct
  <2>2. PICK last \in cas, k \in 1..(Cardinality(cas) + 1) : ch = [last |-> last, length |-> k]
    BY <2>1, ChainType
  <2> QED
    BY <1>2, <2>1, <2>2, FS_CardinalityType
<1>5. Ranks(r)
  <2>1. r.score \in Nat /\ r.length \in Nat
    BY <1>3, <1>4
  <2> QED
    BY <1>2, <2>1 DEF Ranks, Distinct
<1> QED
  BY <1>1, <1>2, <1>3, <1>4, <1>5

\* The results are finitely many.
LEMMA ScoringFinite ==
  ASSUME NEW key, NEW cas, Distinct(cas), NEW logs, IsFiniteSet(logs), NEW accepted
  PROVE  IsFiniteSet(Scoring(key, cas, logs, accepted))
<1> DEFINE lengths == 1..(Cardinality(cas) + 1)
           scores  == 0..Cardinality(logs)
           triples == (cas \X lengths) \X scores
           f == [t \in triples |-> [cert |-> t[1][1], length |-> t[1][2], score |-> t[2]]]
           all == {f[t] : t \in triples}
<1>1. IsFiniteSet(cas) /\ Cardinality(cas) \in Nat /\ Cardinality(logs) \in Nat
  BY FS_CardinalityType DEF Distinct
<1>2. IsFiniteSet(lengths) /\ IsFiniteSet(scores)
  BY <1>1, FS_Interval
<1>3. IsFiniteSet(triples)
  <2> HIDE DEF lengths, scores
  <2>1. IsFiniteSet(cas \X lengths)
    BY <1>1, <1>2, FS_Product
  <2> QED
    BY <1>2, <2>1, FS_Product
<1>4. IsFiniteSet(all)
  <2>1. DOMAIN f = triples /\ f = [t \in triples |-> f[t]]
    OBVIOUS
  <2> HIDE DEF f, triples
  <2>2. f \in Surjection(triples, all)
    BY <2>1 DEF Surjection
  <2> QED
    BY <1>3, <2>2, FS_Surjection
<1>5. ASSUME NEW r \in Scoring(key, cas, logs, accepted)
      PROVE  r \in all
  <2>1. /\ r.cert \in cas /\ r.length \in lengths /\ r.score \in scores
        /\ r = [cert |-> r.cert, length |-> r.length, score |-> r.score]
    BY ResultType
  <2> DEFINE t == <<<<r.cert, r.length>>, r.score>>
  <2>2. t \in triples
    BY <2>1
  <2>3. f[t] = [cert |-> r.cert, length |-> r.length, score |-> r.score]
    BY <2>2
  <2> HIDE DEF f, triples, t
  <2> QED
    BY <2>1, <2>2, <2>3
<1> HIDE DEF all
<1> QED
  BY <1>4, <1>5, FS_Subset

\* One result is best, if there are any.
LEMMA OneIsBest ==
  ASSUME NEW key, NEW cas, Distinct(cas), NEW logs, IsFiniteSet(logs), NEW accepted
  PROVE  /\ Scoring(key, cas, logs, accepted) # {} => Best(key, cas, logs, accepted) # {}
         /\ \A r, s \in Best(key, cas, logs, accepted) : r = s
<1> DEFINE S == Scoring(key, cas, logs, accepted)
<1>1. IsFiniteSet(S) /\ \A r \in S : Ranks(r)
  BY ScoringFinite, ResultType
<1>2. S # {} => \E s \in S : \A t \in S : ~Better(t, s)
  <2> HIDE DEF S
  <2> QED
    BY <1>1, NotBettered
<1>3. ASSUME NEW r \in Best(key, cas, logs, accepted), NEW s \in Best(key, cas, logs, accepted)
      PROVE  r = s
  <2>1. r \in S /\ s \in S /\ ~Better(r, s) /\ ~Better(s, r)
    BY DEF Best
  <2>2. /\ Ranks(r) /\ Ranks(s) /\ r.cert \in cas /\ s.cert \in cas
        /\ r = [cert |-> r.cert, length |-> r.length, score |-> r.score]
        /\ s = [cert |-> s.cert, length |-> s.length, score |-> s.score]
    BY <2>1, ResultType
  <2>3. r.score = s.score /\ r.length = s.length /\ r.cert.hash = s.cert.hash
    BY <2>1, <2>2 DEF Better, Ranks
  <2>4. r.cert = s.cert
    BY <2>2, <2>3 DEF Distinct
  <2> QED
    BY <2>2, <2>3, <2>4
<1> QED
  BY <1>2, <1>3 DEF Best

---------------------------------------------------------------------------
(***************************************************************************)
(* From parent to parent.                                                  *)
(***************************************************************************)

\* More logs, or as many by a shorter chain.
Improves(s, r) == s.score > r.score \/ (s.score = r.score /\ s.length < r.length)

ReachesRoot(c, cas) == ~SelfSigned(c) /\ Search(c, cas).chains # {}

\* A listed parent that is a root, or reaches none, is itself accepted by a log.
LEMMA RootIsAccepted ==
  ASSUME NEW key, NEW cas, Distinct(cas), NEW logs, IsFiniteSet(logs), NEW accepted,
         NEW r \in Best(key, cas, logs, accepted), ~ReachesRoot(r.cert, cas)
  PROVE  \E l \in logs \cap DOMAIN accepted : r.cert \in accepted[l]
<1>1. r \in Scoring(key, cas, logs, accepted) /\ IsFiniteSet(cas)
  BY DEF Best, Distinct
<1>2. r.cert \in cas /\ r.score > 0
  BY <1>1, ResultType
<1>3. PICK ch \in buildChains(r.cert, cas) : r.score = Score(ch, logs, accepted)
  BY <1>1, ResultType
<1>4. ch = [last |-> r.cert, length |-> 1]
  <2>1. \/ ch = [last |-> r.cert, length |-> 1]
        \/ ~SelfSigned(r.cert) /\ ch \in Search(r.cert, cas).chains
    BY <1>1, <1>2, ChainType
  <2> QED
    BY <2>1 DEF ReachesRoot
<1>5. ch.last = r.cert
  BY <1>4
<1> QED
  BY <1>2, <1>3, <1>5, ScoreType

\* One that reaches a root is followed by a better one.
LEMMA NextImproves ==
  ASSUME NEW key, NEW cas, Distinct(cas), NEW logs, IsFiniteSet(logs), NEW accepted,
         NEW r \in Best(key, cas, logs, accepted), ReachesRoot(r.cert, cas)
  PROVE  \E s \in Best(r.cert.aki, cas, logs, accepted) : Improves(s, r)
<1> DEFINE c == r.cert
<1>1. r \in Scoring(key, cas, logs, accepted) /\ IsFiniteSet(cas)
  BY DEF Best, Distinct
<1>2. c \in cas /\ ~SelfSigned(c) /\ Ranks(r) /\ r.score > 0
  BY <1>1, ResultType DEF ReachesRoot
<1>3. PICK ch \in buildChains(c, cas) :
        r.length = ch.length /\ r.score = Score(ch, logs, accepted)
  BY <1>1, ResultType
<1>4. ch \in Search(c, cas).chains
  BY <1>2 DEF buildChains, ReachesRoot
<1>5. PICK root \in cas, k \in 2..(Cardinality(cas) + 1) : ch = [last |-> root, length |-> k]
  BY <1>1, <1>2, <1>4, FoundIsWay
<1>6. k \in Nat /\ r.length = k /\ [last |-> root, length |-> k] \in Search(c, cas).chains
  BY <1>3, <1>4, <1>5
<1>7. /\ SelfSigned(root)
      /\ \E p \in findParents(c, cas) :
           \/ p = root
           \/ ~SelfSigned(p) /\ \E m \in 2..(k - 1) :
                                  [last |-> root, length |-> m] \in Search(p, cas).chains
  BY <1>1, <1>2, <1>6, SomeParentIsCloser
<1>8. PICK p \in findParents(c, cas), m \in 1..(k - 1) :
        [last |-> root, length |-> m] \in buildChains(p, cas)
  <2>1. PICK p \in findParents(c, cas) :
           \/ p = root
           \/ ~SelfSigned(p) /\ \E m \in 2..(k - 1) :
                                  [last |-> root, length |-> m] \in Search(p, cas).chains
    BY <1>7
  <2>2. CASE p = root
    <3>1. [last |-> root, length |-> 1] \in buildChains(p, cas)
      BY <1>7, <2>2 DEF buildChains
    <3>2. 1 \in 1..(k - 1)
      BY <1>5
    <3> QED
      BY <3>1, <3>2
  <2>3. CASE ~SelfSigned(p) /\ \E m \in 2..(k - 1) :
                                  [last |-> root, length |-> m] \in Search(p, cas).chains
    <3>1. PICK m \in 2..(k - 1) : [last |-> root, length |-> m] \in Search(p, cas).chains
      BY <2>3
    <3>2. [last |-> root, length |-> m] \in buildChains(p, cas)
      BY <2>3, <3>1 DEF buildChains
    <3>3. m \in 1..(k - 1)
      OBVIOUS
    <3> QED
      BY <3>2, <3>3
  <2> QED
    BY <2>1, <2>2, <2>3
<1>9. p \in cas /\ p.ski = c.aki
  BY ParentsType
<1>10. Score([last |-> root, length |-> m], logs, accepted) = r.score
  BY <1>3, <1>5 DEF Score
<1> DEFINE t == [cert |-> p, length |-> m, score |-> r.score]
<1>11. t \in Scoring(c.aki, cas, logs, accepted)
  <2>1. PICK new : new = [last |-> root, length |-> m]
    OBVIOUS
  <2>2. new \in buildChains(p, cas) /\ new.length = m /\ Score(new, logs, accepted) = r.score
    BY <1>8, <1>10, <2>1
  <2>3. t = [cert |-> p, length |-> new.length, score |-> Score(new, logs, accepted)]
    BY <2>2
  <2>4. t.score > 0
    BY <1>2
  <2> QED
    BY <1>9, <2>2, <2>3, <2>4 DEF Scoring
<1>12. PICK s \in Best(c.aki, cas, logs, accepted) : TRUE
  BY <1>11, OneIsBest
<1>13. Ranks(s) /\ ~Better(t, s)
  BY <1>11, <1>12, ResultType DEF Best
<1>14. Improves(s, r)
  <2>1. t.score = r.score /\ t.length = m /\ m < k /\ m \in Nat
    BY <1>6
  <2> HIDE DEF t, c
  <2> QED
    BY <1>2, <1>6, <1>13, <2>1 DEF Better, Improves, Ranks
<1> QED
  BY <1>12, <1>14

---------------------------------------------------------------------------
(***************************************************************************)
(* Chains that follow the table (pki/discovery.go:110-135).                *)
(***************************************************************************)

\* After the first certificate, each is the parent listed for the one before it; it is no
\* root and comes once.
Follows(chain, cas, logs, accepted) ==
  \A i \in 2..Len(chain) :
    /\ chain[i] \in OptimalParent(chain[i - 1].aki, cas, logs, accepted)
    /\ ~SelfSigned(chain[i])
    /\ \A j \in 1..Len(chain) : chain[i] = chain[j] => i = j

\* No two of its CA certificates have one key.
LEMMA FollowedKeys ==
  ASSUME NEW D, NEW chain \in Seq(D), NEW cas, Distinct(cas), NEW logs, IsFiniteSet(logs),
         NEW accepted, Follows(chain, cas, logs, accepted)
  PROVE  /\ \A i \in 2..Len(chain) :
              /\ chain[i] \in cas /\ chain[i].ski = chain[i - 1].aki /\ chain[i - 1].aki # NoKey
              /\ \E r \in Best(chain[i].ski, cas, logs, accepted) : r.cert = chain[i]
         /\ \A i \in 2..Len(chain) :
              \A c \in OptimalParent(chain[i].ski, cas, logs, accepted) : c = chain[i]
         /\ \A i, j \in 2..Len(chain) : chain[i].ski = chain[j].ski => i = j
<1>1. ASSUME NEW i \in 2..Len(chain)
      PROVE  /\ chain[i] \in cas /\ chain[i].ski = chain[i - 1].aki /\ chain[i - 1].aki # NoKey
             /\ \E r \in Best(chain[i].ski, cas, logs, accepted) : r.cert = chain[i]
  <2>1. PICK r \in Best(chain[i - 1].aki, cas, logs, accepted) : r.cert = chain[i]
    BY ListedIsBest DEF Follows
  <2>2. r.cert \in cas /\ r.cert.ski = chain[i - 1].aki
    BY ResultType DEF Best
  <2> QED
    BY <2>1, <2>2 DEF Distinct
<1>2. ASSUME NEW i \in 2..Len(chain), NEW c \in OptimalParent(chain[i].ski, cas, logs, accepted)
      PROVE  c = chain[i]
  <2>1. PICK r \in Best(chain[i].ski, cas, logs, accepted) : r.cert = c
    BY ListedIsBest
  <2>2. PICK s \in Best(chain[i].ski, cas, logs, accepted) : s.cert = chain[i]
    BY <1>1
  <2> QED
    BY <2>1, <2>2, OneIsBest
<1>3. ASSUME NEW i \in 2..Len(chain), NEW j \in 2..Len(chain), chain[i].ski = chain[j].ski
      PROVE  i = j
  <2>1. chain[j] \in OptimalParent(chain[i].ski, cas, logs, accepted)
    BY <1>1, <1>3, ListedIsBest
  <2>2. chain[i] = chain[j]
    BY <1>2, <2>1
  <2> QED
    BY <2>2 DEF Follows
<1> QED
  BY <1>1, <1>2, <1>3

\* From a certificate of the chain that a later one leads back to, a root is reached.
LEMMA ReachedFromBefore ==
  ASSUME NEW D, NEW chain \in Seq(D), NEW cas, Distinct(cas), NEW logs, IsFiniteSet(logs),
         NEW accepted, Follows(chain, cas, logs, accepted),
         NEW j \in 1..Len(chain), chain[j] \in cas, ~SelfSigned(chain[j]),
         ReachesRoot(chain[Len(chain)], cas)
  PROVE  \A i \in j..Len(chain) : ReachesRoot(chain[i], cas)
<1> DEFINE L == Len(chain)
<1>1. L \in Nat /\ L - j \in Nat /\ IsFiniteSet(cas)
  BY DEF Distinct
<1> DEFINE S == {i \in 0..(L - j) : ReachesRoot(chain[L - i], cas)}
<1>2. 0 \in S
  BY <1>1
<1>3. ASSUME NEW i \in 0..((L - j) - 1), i \in S
      PROVE  i + 1 \in S
  <2> DEFINE k == L - i
  <2>1. k \in 2..L /\ k - 1 \in j..L /\ k - 1 = L - (i + 1) /\ i + 1 \in 0..(L - j)
    BY <1>1
  <2>2. ReachesRoot(chain[k], cas)
    BY <1>3
  <2> HIDE DEF k, L
  <2>3. chain[k] \in cas /\ chain[k].ski = chain[k - 1].aki /\ chain[k - 1].aki # NoKey
    BY <2>1, FollowedKeys DEF L
  <2>4. chain[k - 1] \in cas /\ ~SelfSigned(chain[k - 1])
    <3>1. CASE k - 1 = j
      BY <3>1
    <3>2. CASE k - 1 # j
      <4>1. k - 1 \in 2..Len(chain)
        BY <1>1, <2>1, <3>2 DEF L
      <4>2. chain[k - 1] \in cas
        BY <4>1, FollowedKeys
      <4>3. ~SelfSigned(chain[k - 1])
        BY <4>1 DEF Follows
      <4> QED
        BY <4>2, <4>3
    <3> QED
      BY <3>1, <3>2
  <2>5. chain[k] # chain[k - 1]
    <3>1. k \in 2..Len(chain) /\ k - 1 \in 1..Len(chain) /\ k # k - 1
      BY <1>1, <2>1 DEF L
    <3> QED
      BY <3>1 DEF Follows
  <2>6. chain[k] \in findParents(chain[k - 1], cas)
    BY <2>3, <2>5 DEF findParents
  <2>7. Search(chain[k - 1], cas).chains # {}
    BY <1>1, <2>2, <2>4, <2>6, ReachesWhatParentsReach DEF ReachesRoot
  <2>8. ReachesRoot(chain[k - 1], cas)
    BY <2>4, <2>7 DEF ReachesRoot
  <2> QED
    BY <2>1, <2>8
<1> HIDE DEF S
<1>4. \A i \in 0..(L - j) : i \in S
  BY <1>1, <1>2, <1>3, UpTo
<1>5. ASSUME NEW i \in j..L PROVE ReachesRoot(chain[i], cas)
  <2>1. L - i \in 0..(L - j) /\ L - (L - i) = i
    BY <1>1
  <2>2. L - i \in S
    BY <1>4, <2>1
  <2>3. ReachesRoot(chain[L - (L - i)], cas)
    BY <2>2 DEF S
  <2> HIDE DEF L
  <2> QED
    BY <2>1, <2>3
<1> QED
  BY <1>5

LEMMA ImprovesFurther ==
  ASSUME NEW r, NEW s, NEW t, Ranks(r), Ranks(s), Ranks(t), Improves(s, r), Improves(t, s)
  PROVE  Improves(t, r)
<1> QED
  BY DEF Improves, Ranks

\* Along a chain, as long as a root is reached, what is listed improves.
LEMMA ImprovesAlong ==
  ASSUME NEW D, NEW chain \in Seq(D), NEW cas, Distinct(cas), NEW logs, IsFiniteSet(logs),
         NEW accepted, Follows(chain, cas, logs, accepted),
         NEW j \in 1..Len(chain), NEW s \in Best(chain[j].ski, cas, logs, accepted),
         s.cert = chain[j], \A i \in j..Len(chain) : ReachesRoot(chain[i], cas)
  PROVE  \E t \in Best(chain[Len(chain)].ski, cas, logs, accepted) :
           t.cert = chain[Len(chain)] /\ (t = s \/ Improves(t, s))
<1> DEFINE L == Len(chain)
           After(i) == \E t \in Best(chain[j + i].ski, cas, logs, accepted) :
                         t.cert = chain[j + i] /\ (t = s \/ Improves(t, s))
           T == {i \in 0..(L - j) : After(i)}
<1>1. L \in Nat /\ L - j \in Nat
  OBVIOUS
<1>2. 0 \in T
  <2>1. j + 0 = j
    OBVIOUS
  <2>2. After(0)
    BY <2>1
  <2> QED
    BY <1>1, <2>2
<1>3. ASSUME NEW i \in 0..((L - j) - 1), i \in T
      PROVE  i + 1 \in T
  <2>1. PICK t \in Best(chain[j + i].ski, cas, logs, accepted) :
                t.cert = chain[j + i] /\ (t = s \/ Improves(t, s))
    BY <1>3
  <2> DEFINE k == j + i
  <2>2. k \in j..L /\ k + 1 \in 2..L /\ j + (i + 1) = k + 1 /\ i + 1 \in 0..(L - j)
        /\ (k + 1) - 1 = k
    BY <1>1
  <2>3. t \in Best(chain[k].ski, cas, logs, accepted) /\ t.cert = chain[k]
    BY <2>1
  <2> HIDE DEF k, L, After, T
  <2>4. ReachesRoot(t.cert, cas)
    BY <2>2, <2>3 DEF L
  <2>5. PICK u \in Best(chain[k].aki, cas, logs, accepted) : Improves(u, t)
    BY <2>3, <2>4, NextImproves
  <2>6. chain[k + 1].ski = chain[k].aki
    BY <2>2, FollowedKeys DEF L
  <2>7. u.cert = chain[k + 1]
    <3>1. u.cert \in OptimalParent(chain[k + 1].ski, cas, logs, accepted)
      BY <2>5, <2>6, ListedIsBest
    <3> QED
      BY <2>2, <3>1, FollowedKeys DEF L
  <2>8. Ranks(s) /\ Ranks(t) /\ Ranks(u)
    <3>1. /\ s \in Scoring(chain[j].ski, cas, logs, accepted)
          /\ t \in Scoring(chain[k].ski, cas, logs, accepted)
          /\ u \in Scoring(chain[k].aki, cas, logs, accepted)
      BY <2>3, <2>5 DEF Best
    <3> QED
      BY <3>1, ResultType
  <2>9. Improves(u, s)
    <3>1. CASE t = s
      BY <2>5, <3>1
    <3>2. CASE Improves(t, s)
      BY <2>5, <2>8, <3>2, ImprovesFurther
    <3> QED
      BY <2>1, <3>1, <3>2
  <2>10. After(i + 1)
    <3>1. u \in Best(chain[k + 1].ski, cas, logs, accepted)
      BY <2>5, <2>6
    <3> QED
      BY <2>2, <2>7, <2>9, <3>1 DEF After
  <2> QED
    BY <2>2, <2>10 DEF T
<1> HIDE DEF T
<1>4. \A i \in 0..(L - j) : i \in T
  BY <1>1, <1>2, <1>3, UpTo
<1>5. L - j \in 0..(L - j) /\ j + (L - j) = L
  BY <1>1
<1>6. After(L - j)
  BY <1>4, <1>5 DEF T
<1> QED
  BY <1>5, <1>6

\* A chain that follows the table until that lists nothing more than a root, or a certificate
\* of the chain, ends with a certificate that a log of the list accepts or that is signed by
\* one it accepts, with another key than those of the chain (pki/discovery.go:110,
\* cmd/optimalparents): each parent listed is better than the one before it, as it is
\* accepted by more logs or nearer to a root, so that the best of a key is never circular.
THEOREM FollowedChainIsAccepted ==
  ASSUME NEW D, NEW chain \in Seq(D), Len(chain) > 1,
         NEW cas, Distinct(cas), NEW logs, IsFiniteSet(logs), NEW accepted,
         Follows(chain, cas, logs, accepted),
         \A p \in OptimalParent(chain[Len(chain)].aki, cas, logs, accepted) :
           SelfSigned(p) \/ \E j \in 1..Len(chain) : p = chain[j]
  PROVE  \E l \in logs \cap DOMAIN accepted :
           \/ chain[Len(chain)] \in accepted[l]
           \/ /\ chain[Len(chain)].aki # NoKey
              /\ \E r \in accepted[l] : /\ r.ski = chain[Len(chain)].aki
                                       /\ \A i \in 2..Len(chain) : r.ski # chain[i].ski
<1> DEFINE L == Len(chain)
           c == chain[L]
<1>1. L \in 2..L /\ L \in 1..L /\ L \in Nat
  OBVIOUS
<1>2. PICK r \in Best(c.ski, cas, logs, accepted) : r.cert = c
  BY <1>1, FollowedKeys
<1>3. ~SelfSigned(c)
  BY <1>1 DEF Follows
<1>4. CASE ~ReachesRoot(c, cas)
  BY <1>2, <1>4, RootIsAccepted
<1>5. CASE ReachesRoot(c, cas)
  <2>1. PICK s \in Best(c.aki, cas, logs, accepted) : Improves(s, r)
    BY <1>2, <1>5, NextImproves
  <2> DEFINE p == s.cert
  <2>2. p \in OptimalParent(c.aki, cas, logs, accepted)
    BY <2>1, ListedIsBest
  <2>3. s \in Scoring(c.aki, cas, logs, accepted) /\ r \in Scoring(c.ski, cas, logs, accepted)
    BY <1>2, <2>1 DEF Best
  <2>4. p \in cas /\ p.ski = c.aki /\ Ranks(s) /\ Ranks(r)
    BY <2>3, ResultType
  <2>5. c.aki # NoKey
    BY <2>4 DEF Distinct
  <2>6. CASE SelfSigned(p)
    <3>1. ~ReachesRoot(p, cas)
      BY <2>6 DEF ReachesRoot
    <3>2. PICK l \in logs \cap DOMAIN accepted : p \in accepted[l]
      BY <2>1, <3>1, RootIsAccepted
    <3>3. ASSUME NEW i \in 2..L, p.ski = chain[i].ski PROVE FALSE
      <4>1. p \in OptimalParent(chain[i].ski, cas, logs, accepted)
        BY <2>2, <2>4, <3>3
      <4>2. p = chain[i]
        BY <4>1, FollowedKeys
      <4> QED
        BY <2>6, <4>2 DEF Follows
    <3> QED
      BY <2>4, <2>5, <3>2, <3>3
  <2>7. ASSUME ~SelfSigned(p) PROVE FALSE
    <3>1. PICK j \in 1..L : p = chain[j]
      BY <2>2, <2>7
    <3>2. \A i \in j..L : ReachesRoot(chain[i], cas)
      BY <1>5, <2>4, <2>7, <3>1, ReachedFromBefore
    <3>3. s \in Best(chain[j].ski, cas, logs, accepted)
      BY <2>1, <2>4, <3>1
    <3>4. PICK t \in Best(c.ski, cas, logs, accepted) : t.cert = c /\ (t = s \/ Improves(t, s))
      BY <3>1, <3>2, <3>3, ImprovesAlong
    <3>5. t = r
      BY <1>2, <3>4, OneIsBest
    <3>6. ~Improves(r, r)
      BY <2>4 DEF Improves, Ranks
    <3>7. CASE t = s
      BY <2>1, <3>5, <3>6, <3>7
    <3>8. CASE Improves(t, s)
      BY <2>1, <2>4, <3>5, <3>6, <3>8, ImprovesFurther
    <3> QED
      BY <3>4, <3>7, <3>8
  <2> QED
    BY <2>6, <2>7
<1> QED
  BY <1>4, <1>5
============================================================================
