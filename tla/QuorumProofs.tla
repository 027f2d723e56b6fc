---------------------------- MODULE QuorumProofs ---------------------------
(***************************************************************************)
(* What the operators of QuorumState guarantee, whatever the strategy, the *)
(* request and the successes: the bookkeeping tells the truth about the    *)
(* SCTs that were kept, an answer that was thrown away is never missed,    *)
(* and the trim ends with a quorum of the right size.                      *)
(***************************************************************************)
EXTENDS QuorumState, FiniteSetTheorems, WellFoundedInduction, TLAPS

---------------------------------------------------------------------------
(***************************************************************************)
(* Counting.                                                               *)
(***************************************************************************)

\* A set of numbers that is not empty has a least one.
LEMMA LeastNumber ==
  ASSUME NEW S \in SUBSET Nat, S # {}
  PROVE  \E m \in S : \A k \in S : m <= k
<1> DEFINE R == OpToRel(<, Nat)
<1>1. IsWellFoundedOn(R, Nat)
  BY NatLessThanWellFounded
<1>2. \A k, m \in Nat : <<k, m>> \in R <=> k < m
  BY DEF OpToRel
<1> HIDE DEF R
<1>3. PICK m \in S : \A k \in S : ~(<<k, m>> \in R)
  BY <1>1, WFMin, Zenon
<1>4. ASSUME NEW k \in S
      PROVE  m <= k
  <2>1. m \in Nat /\ k \in Nat
    OBVIOUS
  <2>2. ~(k < m)
    BY <1>2, <1>3, <2>1
  <2> QED
    BY <2>1, <2>2
<1> QED
  BY <1>4

\* So has one that is bounded a greatest one.
LEMMA GreatestNumber ==
  ASSUME NEW n \in Nat, NEW S \in SUBSET (1..n), S # {}
  PROVE  \E m \in S : \A k \in S : k <= m
<1> DEFINE T == {n - k : k \in S}
<1>1. T \in SUBSET Nat /\ T # {}
  <2>1. \A k \in S : n - k \in Nat
    OBVIOUS
  <2>2. PICK s : s \in S
    OBVIOUS
  <2>3. n - s \in T
    BY <2>2
  <2> QED
    BY <2>1, <2>3
<1> HIDE DEF T
<1>2. PICK t \in T : \A u \in T : t <= u
  BY <1>1, LeastNumber
<1> USE DEF T
<1>3. PICK m \in S : t = n - m
  BY <1>2
<1>4. ASSUME NEW k \in S
      PROVE  k <= m
  <2>1. n - m <= n - k
    BY <1>2, <1>3
  <2> QED
    BY <2>1
<1> QED
  BY <1>4

\* The subsets of a sequence's positions are finite.
LEMMA PositionsFinite ==
  ASSUME NEW n \in Nat, NEW S \in SUBSET (1..n)
  PROVE  IsFiniteSet(S) /\ Cardinality(S) \in Nat
<1>1. IsFiniteSet(1..n)
  BY FS_Interval
<1> QED
  BY <1>1, FS_Subset, FS_CardinalityType

\* "The first few of S": those with fewer than n others before them are n, or all.
LEMMA FirstFew ==
  ASSUME NEW top \in Nat, NEW S \in SUBSET (1..top), NEW n \in Nat
  PROVE  LET D == {i \in S : Cardinality({j \in S : j < i}) < n}
         IN  /\ Cardinality(D) <= n
             /\ D = S \/ Cardinality(D) = n
<1> DEFINE before(i) == {j \in S : j < i}
           D == {i \in S : Cardinality(before(i)) < n}
<1>1. \A i \in S : /\ before(i) \in SUBSET (1..top)
                   /\ \A j \in S : j \in before(i) <=> j < i
                   /\ before(i) \subseteq S
  OBVIOUS
<1> HIDE DEF before
<1>2. D \in SUBSET S /\ \A i \in S : i \in D <=> Cardinality(before(i)) < n
  OBVIOUS
<1> HIDE DEF D
<1>3. \A i \in S : IsFiniteSet(before(i)) /\ Cardinality(before(i)) \in Nat
  BY <1>1, PositionsFinite
<1>4. D \in SUBSET (1..top) /\ IsFiniteSet(D) /\ Cardinality(D) \in Nat
  <2>1. D \in SUBSET (1..top)
    BY <1>2
  <2> QED
    BY <2>1, PositionsFinite
<1>5. Cardinality(D) <= n
  <2>1. CASE D = {}
    <3>1. Cardinality(D) = 0
      BY <2>1, FS_EmptySet
    <3> QED
      BY <3>1
  <2>2. CASE D # {}
    <3>1. PICK m \in D : \A k \in D : k <= m
      BY <1>4, <2>2, GreatestNumber
    <3>2. m \in S /\ m \in 1..top /\ Cardinality(before(m)) < n
      BY <1>2, <1>4
    <3>3. ASSUME NEW k \in D, k # m
          PROVE  k \in before(m)
      <4>1. k \in S /\ k \in 1..top /\ k <= m
        BY <1>2, <1>4, <3>1
      <4>2. k < m
        BY <3>2, <3>3, <4>1
      <4> QED
        BY <1>1, <3>2, <4>1, <4>2
    <3>4. D \subseteq before(m) \cup {m}
      BY <3>3
    <3>5. IsFiniteSet(before(m)) /\ Cardinality(before(m)) \in Nat
      BY <1>3, <3>2
    <3>6. /\ IsFiniteSet(before(m) \cup {m})
          /\ Cardinality(before(m) \cup {m}) \in {Cardinality(before(m)), Cardinality(before(m)) + 1}
      BY <3>5, FS_AddElement
    <3>7. Cardinality(D) <= Cardinality(before(m) \cup {m})
      BY <3>4, <3>6, FS_Subset
    <3> QED
      BY <1>4, <3>2, <3>5, <3>6, <3>7
  <2> QED
    BY <2>1, <2>2
<1>6. ASSUME D # S
      PROVE  Cardinality(D) = n
  <2>1. S \ D # {} /\ S \ D \subseteq 1..top
    BY <1>2, <1>6
  <2>2. PICK m \in S \ D : \A k \in S \ D : m <= k
    <3>1. S \ D \in SUBSET Nat
      BY <2>1
    <3> QED
      BY <2>1, <3>1, LeastNumber
  <2>3. m \in S /\ m \in 1..top /\ ~(Cardinality(before(m)) < n)
    BY <1>2
  <2>4. ASSUME NEW k \in before(m)
        PROVE  k \in D
    <3>1. k \in S /\ k < m /\ k \in 1..top
      BY <1>1, <2>3
    <3> QED
      BY <2>2, <2>3, <3>1
  <2>5. before(m) \in SUBSET D
    BY <2>4
  <2>6. Cardinality(before(m)) <= Cardinality(D)
    BY <1>4, <2>5, FS_Subset
  <2> QED
    BY <1>3, <1>4, <1>5, <2>3, <2>6
<1> QED
  BY <1>5, <1>6 DEF D, before

\* A choice that is filled up, in order, from those that are free reaches n, or takes
\* them all.
LEMMA FillUp ==
  ASSUME NEW top \in Nat, NEW chosen \in SUBSET (1..top), NEW free \in SUBSET (1..top),
         chosen \cap free = {}, NEW n \in Nat, Cardinality(chosen) <= n
  PROVE  LET new == chosen \cup
                      {i \in free : Cardinality(chosen) + Cardinality({j \in free : j < i}) < n}
         IN  /\ Cardinality(new) <= n
             /\ new = chosen \cup free \/ Cardinality(new) = n
<1> DEFINE before(i) == {j \in free : j < i}
           room == n - Cardinality(chosen)
           D == {i \in free : Cardinality(chosen) + Cardinality(before(i)) < n}
           E == {i \in free : Cardinality(before(i)) < room}
<1>1. /\ IsFiniteSet(chosen) /\ Cardinality(chosen) \in Nat
      /\ IsFiniteSet(free)
      /\ \A i \in free : Cardinality(before(i)) \in Nat
  <2>1. \A i \in free : before(i) \in SUBSET (1..top)
    OBVIOUS
  <2> HIDE DEF before
  <2> QED
    BY <2>1, PositionsFinite
<1>2. room \in Nat
  BY <1>1
<1>3. D = E
  <2>1. ASSUME NEW i \in free
        PROVE  Cardinality(chosen) + Cardinality(before(i)) < n <=> Cardinality(before(i)) < room
    <3>1. Cardinality(before(i)) \in Nat
      BY <1>1
    <3> HIDE DEF before
    <3> QED
      BY <1>1, <3>1
  <2> HIDE DEF before, room
  <2> QED
    BY <2>1
<1>4. Cardinality(E) <= room /\ (E = free \/ Cardinality(E) = room)
  <2> HIDE DEF room
  <2> QED
    BY <1>2, FirstFew
<1>5. E \subseteq free
  OBVIOUS
<1> HIDE DEF E
<1>6. Cardinality(chosen \cup E) = Cardinality(chosen) + Cardinality(E) /\ Cardinality(E) \in Nat
  <2>1. IsFiniteSet(E) /\ Cardinality(E) \in Nat
    BY <1>1, <1>5, FS_Subset, FS_CardinalityType
  <2>2. chosen \cap E = {} /\ Cardinality({}) = 0
    BY <1>5, FS_EmptySet
  <2>3. Cardinality(chosen \cup E) = Cardinality(chosen) + Cardinality(E) - 0
    BY <1>1, <2>1, <2>2, FS_Union
  <2> QED
    BY <1>1, <2>1, <2>3
<1>7. Cardinality(chosen \cup E) <= n
      /\ (chosen \cup E = chosen \cup free \/ Cardinality(chosen \cup E) = n)
  BY <1>1, <1>4, <1>6
<1> QED
  BY <1>3, <1>7 DEF D, before

\* A function has no more values than arguments, and as many if they all differ.
LEMMA ImageCardinality ==
  ASSUME NEW S, IsFiniteSet(S), NEW f
  PROVE  /\ IsFiniteSet({f[x] : x \in S})
         /\ Cardinality({f[x] : x \in S}) <= Cardinality(S)
         /\ (\A x, y \in S : f[x] = f[y] => x = y)
              => Cardinality({f[x] : x \in S}) = Cardinality(S)
<1> DEFINE T == {f[x] : x \in S}
           g == [x \in S |-> f[x]]
<1>1. g \in Surjection(S, T)
  BY DEF Surjection
<1>2. (\A x, y \in S : f[x] = f[y] => x = y) => g \in Injection(S, T)
  BY DEF Injection, IsInjective
<1> HIDE DEF g, T
<1>3. /\ IsFiniteSet(T) /\ Cardinality(T) <= Cardinality(S)
      /\ Cardinality(T) = Cardinality(S) <=> g \in Injection(S, T)
  BY <1>1, FS_Surjection
<1> QED
  BY <1>2, <1>3 DEF T

---------------------------------------------------------------------------
(***************************************************************************)
(* The bookkeeping.                                                        *)
(***************************************************************************)

GotLogs(qs) == {qs.got[k] : k \in DOMAIN qs.got}

\* quorumState tells the truth about the successes it has kept: they are of
\* different logs, and its other fields summarise them.
Bookkeeping(qs, strategy) ==
  /\ qs.got \in Seq(DOMAIN strategy)
  /\ \A j, k \in DOMAIN qs.got : qs.got[j] = qs.got[k] => j = k
  /\ qs.operators = OperatorsAt(qs, strategy, DOMAIN qs.got)
  /\ qs.hasRFC6962SCT = (OfType(qs, strategy, DOMAIN qs.got, "LOGTYPE_RFC6962") # {})
  /\ qs.hasStaticSCT = (OfType(qs, strategy, DOMAIN qs.got, "LOGTYPE_STATIC") # {})

\* What was thrown away of the answers of the logs in answered could not matter.
Weighed(qs, sr, strategy, answered) ==
  /\ GotLogs(qs) \subseteq answered
  /\ answered = GotLogs(qs) \/ Len(qs.got) >= sr.SCTs
  /\ \/ {strategy[i].Operator : i \in answered} \subseteq qs.operators
     \/ Cardinality(qs.operators) >= sr.Operators
  /\ sr.RequireAtLeastOneRFC6962SCT /\ (\E i \in answered : strategy[i].LogType = "LOGTYPE_RFC6962")
       => qs.hasRFC6962SCT

\* There are no more operators in a selection than entries, and as many if no two
\* entries are of one operator.
LEMMA OperatorCount ==
  ASSUME NEW qs, NEW strategy, NEW D, qs.got \in Seq(D), NEW P \in SUBSET (DOMAIN qs.got)
  PROVE  /\ IsFiniteSet(P) /\ Cardinality(P) \in Nat
         /\ IsFiniteSet(OperatorsAt(qs, strategy, P))
         /\ Cardinality(OperatorsAt(qs, strategy, P)) \in Nat
         /\ Cardinality(OperatorsAt(qs, strategy, P)) <= Cardinality(P)
         /\ (\A j, k \in P : strategy[qs.got[j]].Operator = strategy[qs.got[k]].Operator => j = k)
              => Cardinality(OperatorsAt(qs, strategy, P)) = Cardinality(P)
<1> DEFINE f == [k \in P |-> strategy[qs.got[k]].Operator]
<1>1. IsFiniteSet(P) /\ Cardinality(P) \in Nat
  <2>1. DOMAIN qs.got = 1..Len(qs.got) /\ Len(qs.got) \in Nat
    OBVIOUS
  <2> QED
    BY <2>1, PositionsFinite
<1>2. \A k \in P : f[k] = strategy[qs.got[k]].Operator
  OBVIOUS
<1>3. OperatorsAt(qs, strategy, P) = {f[k] : k \in P}
  BY DEF OperatorsAt
<1> HIDE DEF f
<1>4. /\ IsFiniteSet({f[k] : k \in P})
      /\ Cardinality({f[k] : k \in P}) <= Cardinality(P)
      /\ (\A j, k \in P : f[j] = f[k] => j = k) => Cardinality({f[k] : k \in P}) = Cardinality(P)
  BY <1>1, ImageCardinality
<1>5. Cardinality({f[k] : k \in P}) \in Nat
  BY <1>4, FS_CardinalityType
<1> QED
  BY <1>1, <1>2, <1>3, <1>4, <1>5

\* As many logs are kept as entries.
LEMMA GotCount ==
  ASSUME NEW qs, NEW strategy, Bookkeeping(qs, strategy), NEW P \in SUBSET (DOMAIN qs.got)
  PROVE  /\ DOMAIN qs.got = 1..Len(qs.got) /\ Len(qs.got) \in Nat
         /\ Cardinality({qs.got[k] : k \in P}) = Cardinality(P)
         /\ Cardinality(DOMAIN qs.got) = Len(qs.got)
         /\ IsFiniteSet(GotLogs(qs)) /\ Cardinality(GotLogs(qs)) = Len(qs.got)
         /\ IsFiniteSet(qs.operators) /\ Cardinality(qs.operators) \in Nat
<1>1. qs.got \in Seq(DOMAIN strategy)
  BY DEF Bookkeeping
<1>2. DOMAIN qs.got = 1..Len(qs.got) /\ Len(qs.got) \in Nat
  BY <1>1
<1>3. IsFiniteSet(1..Len(qs.got)) /\ Cardinality(1..Len(qs.got)) = Len(qs.got)
  BY <1>2, FS_Interval
<1>4. IsFiniteSet(P) /\ IsFiniteSet(DOMAIN qs.got)
  BY <1>2, <1>3, FS_Subset
<1>5. \A j, k \in DOMAIN qs.got : qs.got[j] = qs.got[k] => j = k
  BY DEF Bookkeeping
<1>6. Cardinality({qs.got[k] : k \in P}) = Cardinality(P)
  BY <1>4, <1>5, ImageCardinality
<1>7. /\ IsFiniteSet({qs.got[k] : k \in DOMAIN qs.got})
      /\ Cardinality({qs.got[k] : k \in DOMAIN qs.got}) = Cardinality(DOMAIN qs.got)
  BY <1>4, <1>5, ImageCardinality
<1>8. IsFiniteSet(qs.operators) /\ Cardinality(qs.operators) \in Nat
  <2>1. qs.operators = OperatorsAt(qs, strategy, DOMAIN qs.got)
    BY DEF Bookkeeping
  <2> QED
    BY <1>1, <2>1, OperatorCount
<1> QED
  BY <1>2, <1>3, <1>6, <1>7, <1>8 DEF GotLogs

\* A quorum is one of the logs that were kept.
LEMMA MetIsCompliant ==
  ASSUME NEW qs, NEW sr, NEW strategy, Bookkeeping(qs, strategy), isQuorumMet(qs, sr)
  PROVE  Compliant(sr, strategy, GotLogs(qs))
<1>1. {strategy[i].Operator : i \in GotLogs(qs)} = qs.operators
  BY DEF Bookkeeping, GotLogs, OperatorsAt
<1>2. Cardinality(GotLogs(qs)) = Len(qs.got)
  BY GotCount
<1>3. qs.hasRFC6962SCT => \E i \in GotLogs(qs) : strategy[i].LogType = "LOGTYPE_RFC6962"
  BY DEF Bookkeeping, GotLogs, OfType
<1> QED
  BY <1>1, <1>2, <1>3 DEF Compliant, isQuorumMet

\* If all the answers make a quorum, those that were kept do.
LEMMA NothingMissed ==
  ASSUME NEW qs, NEW sr \in SubmissionRequest, NEW strategy, NEW answered,
         Bookkeeping(qs, strategy), Weighed(qs, sr, strategy, answered),
         Compliant(sr, strategy, answered)
  PROVE  isQuorumMet(qs, sr)
<1>1. /\ Cardinality(GotLogs(qs)) = Len(qs.got)
      /\ IsFiniteSet(qs.operators) /\ Cardinality(qs.operators) \in Nat
  BY GotCount
<1>2. sr.SCTs \in Nat /\ sr.Operators \in Nat
  BY DEF SubmissionRequest
<1>3. Len(qs.got) >= sr.SCTs
  BY <1>1 DEF Weighed, Compliant
<1>4. Cardinality(qs.operators) >= sr.Operators
  <2> DEFINE ops == {strategy[i].Operator : i \in answered}
  <2>1. Cardinality(ops) >= sr.Operators /\ (ops \subseteq qs.operators \/ Cardinality(qs.operators) >= sr.Operators)
    BY DEF Weighed, Compliant
  <2> HIDE DEF ops
  <2>2. CASE ops \subseteq qs.operators
    <3>1. Cardinality(ops) <= Cardinality(qs.operators) /\ Cardinality(ops) \in Nat
      BY <1>1, <2>2, FS_Subset, FS_CardinalityType
    <3> QED
      BY <1>1, <1>2, <2>1, <3>1
  <2> QED
    BY <2>1, <2>2
<1>5. sr.RequireAtLeastOneRFC6962SCT => qs.hasRFC6962SCT
  BY DEF Weighed, Compliant
<1> QED
  BY <1>3, <1>4, <1>5 DEF isQuorumMet

\* What addSuccess does to the list of logs.
LEMMA AddedSuccess ==
  ASSUME NEW qs, NEW strategy, NEW idx \in DOMAIN strategy, qs.got \in Seq(DOMAIN strategy),
         NEW new, new = addSuccess(qs, strategy, idx)
  PROVE  /\ new.got \in Seq(DOMAIN strategy) /\ Len(new.got) = Len(qs.got) + 1
         /\ DOMAIN qs.got = 1..Len(qs.got) /\ Len(qs.got) \in Nat
         /\ DOMAIN new.got = DOMAIN qs.got \cup {Len(qs.got) + 1}
         /\ \A k \in DOMAIN qs.got : k # Len(qs.got) + 1 /\ new.got[k] = qs.got[k]
         /\ new.got[Len(qs.got) + 1] = idx
         /\ GotLogs(new) = GotLogs(qs) \cup {idx}
<1> DEFINE n == Len(qs.got)
<1>1. new.got = Append(qs.got, idx)
  BY DEF addSuccess
<1>2. /\ new.got \in Seq(DOMAIN strategy) /\ Len(new.got) = n + 1
      /\ DOMAIN qs.got = 1..n /\ n \in Nat /\ DOMAIN new.got = 1..(n + 1)
      /\ \A k \in 1..n : new.got[k] = qs.got[k]
      /\ new.got[n + 1] = idx
  BY <1>1
<1>3. 1..(n + 1) = (1..n) \cup {n + 1} /\ \A k \in 1..n : k # n + 1
  BY <1>2
<1>4. GotLogs(new) = GotLogs(qs) \cup {idx}
  BY <1>2, <1>3 DEF GotLogs
<1> QED
  BY <1>2, <1>3, <1>4

\* Adding the success of a log that is not there yet keeps the books.
LEMMA AddKeepsBooks ==
  ASSUME NEW qs, NEW strategy, Bookkeeping(qs, strategy),
         NEW idx \in DOMAIN strategy, idx \notin GotLogs(qs)
  PROVE  Bookkeeping(addSuccess(qs, strategy, idx), strategy)
<1> DEFINE new == addSuccess(qs, strategy, idx)
           P   == DOMAIN qs.got
           n   == Len(qs.got)
<1>1. qs.got \in Seq(DOMAIN strategy)
  BY DEF Bookkeeping
<1>2. /\ new.got \in Seq(DOMAIN strategy)
      /\ DOMAIN new.got = P \cup {n + 1}
      /\ \A k \in P : k # n + 1 /\ new.got[k] = qs.got[k]
      /\ new.got[n + 1] = idx
  <2>1. new = addSuccess(qs, strategy, idx)
    OBVIOUS
  <2> HIDE DEF new
  <2> QED
    BY <1>1, <2>1, AddedSuccess
<1>3. \A j, k \in DOMAIN new.got : new.got[j] = new.got[k] => j = k
  <2>1. \A k \in P : qs.got[k] # idx
    BY DEF GotLogs
  <2>2. \A j, k \in P : qs.got[j] = qs.got[k] => j = k
    BY DEF Bookkeeping
  <2> HIDE DEF new
  <2> QED
    BY <1>2, <2>1, <2>2
<1>4. new.operators = OperatorsAt(new, strategy, DOMAIN new.got)
  <2>1. new.operators = OperatorsAt(qs, strategy, P) \cup {strategy[idx].Operator}
    BY DEF addSuccess, Bookkeeping
  <2> HIDE DEF new
  <2> QED
    BY <1>2, <2>1 DEF OperatorsAt
<1>5. ASSUME NEW type
      PROVE  OfType(new, strategy, DOMAIN new.got, type) # {}
               <=> OfType(qs, strategy, P, type) # {} \/ strategy[idx].LogType = type
  <2> HIDE DEF new
  <2> QED
    BY <1>2 DEF OfType
<1>6. /\ new.hasRFC6962SCT = (OfType(qs, strategy, P, "LOGTYPE_RFC6962") # {}
                              \/ strategy[idx].LogType = "LOGTYPE_RFC6962")
      /\ new.hasStaticSCT = (OfType(qs, strategy, P, "LOGTYPE_STATIC") # {}
                             \/ strategy[idx].LogType = "LOGTYPE_STATIC")
  BY DEF addSuccess, Bookkeeping
<1> HIDE DEF new
<1>7. /\ new.hasRFC6962SCT = (OfType(new, strategy, DOMAIN new.got, "LOGTYPE_RFC6962") # {})
      /\ new.hasStaticSCT = (OfType(new, strategy, DOMAIN new.got, "LOGTYPE_STATIC") # {})
  BY <1>5, <1>6, Zenon
<1>8. Bookkeeping(new, strategy)
  BY <1>2, <1>3, <1>4, <1>7, Zenon DEF Bookkeeping
<1> QED
  BY <1>8 DEF new

\* Keeping an answer if and only if it helps loses nothing that matters.
LEMMA WeighAnswer ==
  ASSUME NEW qs, NEW sr \in SubmissionRequest, NEW strategy, NEW answered,
         Bookkeeping(qs, strategy), Weighed(qs, sr, strategy, answered),
         NEW idx \in DOMAIN strategy,
         NEW newQs, newQs = IF helpsQuorum(qs, sr, strategy[idx])
                            THEN addSuccess(qs, strategy, idx) ELSE qs
  PROVE  Weighed(newQs, sr, strategy, answered \cup {idx})
<1> DEFINE ops(S) == {strategy[i].Operator : i \in S}
           rfc(S) == \E i \in S : strategy[i].LogType = "LOGTYPE_RFC6962"
           all    == answered \cup {idx}
<1>1. qs.got \in Seq(DOMAIN strategy) /\ Len(qs.got) \in Nat
  <2>1. qs.got \in Seq(DOMAIN strategy)
    BY DEF Bookkeeping
  <2> QED
    BY <2>1
<1>2. sr.SCTs \in Nat /\ sr.Operators \in Nat
  BY DEF SubmissionRequest
<1>3. IsFiniteSet(qs.operators) /\ Cardinality(qs.operators) \in Nat
  BY GotCount
<1>4. ops(all) = ops(answered) \cup {strategy[idx].Operator}
  OBVIOUS
<1>5. rfc(all) <=> rfc(answered) \/ strategy[idx].LogType = "LOGTYPE_RFC6962"
  OBVIOUS
<1>6. /\ GotLogs(qs) \subseteq answered
      /\ answered = GotLogs(qs) \/ Len(qs.got) >= sr.SCTs
      /\ ops(answered) \subseteq qs.operators \/ Cardinality(qs.operators) >= sr.Operators
      /\ sr.RequireAtLeastOneRFC6962SCT /\ rfc(answered) => qs.hasRFC6962SCT
  BY DEF Weighed
<1>7. CASE helpsQuorum(qs, sr, strategy[idx])
  <2>1. newQs = addSuccess(qs, strategy, idx)
    BY <1>7
  <2>2. GotLogs(newQs) = GotLogs(qs) \cup {idx} /\ Len(newQs.got) = Len(qs.got) + 1
    BY <1>1, <2>1, AddedSuccess
  <2>3. /\ newQs.operators = qs.operators \cup {strategy[idx].Operator}
        /\ newQs.hasRFC6962SCT = (qs.hasRFC6962SCT \/ strategy[idx].LogType = "LOGTYPE_RFC6962")
    BY <2>1 DEF addSuccess
  <2>4. GotLogs(newQs) \subseteq all /\ (all = GotLogs(newQs) \/ Len(newQs.got) >= sr.SCTs)
    BY <1>1, <1>2, <1>6, <2>2
  <2>5. /\ Cardinality(newQs.operators) \in Nat
        /\ Cardinality(qs.operators) <= Cardinality(newQs.operators)
    <3>1. Cardinality(newQs.operators)
            \in {Cardinality(qs.operators), Cardinality(qs.operators) + 1}
      BY <1>3, <2>3, FS_AddElement
    <3> QED
      BY <1>3, <3>1
  <2>6. ops(all) \subseteq newQs.operators \/ Cardinality(newQs.operators) >= sr.Operators
    <3> HIDE DEF ops
    <3>1. CASE ops(answered) \subseteq qs.operators
      BY <1>4, <2>3, <3>1
    <3>2. CASE Cardinality(qs.operators) >= sr.Operators
      BY <1>2, <1>3, <2>5, <3>2
    <3> QED
      BY <1>6, <3>1, <3>2
  <2>7. sr.RequireAtLeastOneRFC6962SCT /\ rfc(all) => newQs.hasRFC6962SCT
    BY <1>5, <1>6, <2>3
  <2> QED
    BY <2>4, <2>6, <2>7 DEF Weighed
<1>8. CASE ~helpsQuorum(qs, sr, strategy[idx])
  <2>1. newQs = qs
    BY <1>8
  <2>2. /\ ~(Len(qs.got) < sr.SCTs)
        /\ ~(Cardinality(qs.operators) < sr.Operators) \/ strategy[idx].Operator \in qs.operators
        /\ sr.RequireAtLeastOneRFC6962SCT /\ strategy[idx].LogType = "LOGTYPE_RFC6962"
             => qs.hasRFC6962SCT
    BY <1>8 DEF helpsQuorum, Contributes
  <2>3. Len(qs.got) >= sr.SCTs
    BY <1>1, <1>2, <2>2
  <2>4. ops(all) \subseteq qs.operators \/ Cardinality(qs.operators) >= sr.Operators
    <3>1. CASE ~(Cardinality(qs.operators) < sr.Operators)
      BY <1>2, <1>3, <3>1
    <3>2. CASE strategy[idx].Operator \in qs.operators
      <4> HIDE DEF ops
      <4> QED
        BY <1>4, <1>6, <3>2
    <3> QED
      BY <2>2, <3>1, <3>2
  <2>5. sr.RequireAtLeastOneRFC6962SCT /\ rfc(all) => qs.hasRFC6962SCT
    BY <1>5, <1>6, <2>2
  <2> QED
    BY <1>6, <2>1, <2>3, <2>4, <2>5 DEF Weighed
<1> QED
  BY <1>7, <1>8

---------------------------------------------------------------------------
(***************************************************************************)
(* The trim, stage by stage.  A selection is a set of positions whose      *)
(* operators are enough; every stage keeps it one.                         *)
(***************************************************************************)

Selection(qs, sr, strategy, selected) ==
  /\ selected \subseteq DOMAIN qs.got
  /\ Cardinality(OperatorsAt(qs, strategy, selected)) >= sr.Operators

\* What trimToQuorum is given: a request that Handle let through, a typed strategy,
\* and a quorum.
Trimmable(qs, sr, strategy) ==
  /\ sr \in SubmissionRequest /\ sr.Operators <= sr.SCTs
  /\ \A i \in DOMAIN strategy : strategy[i].LogType \in LogTypes
  /\ Bookkeeping(qs, strategy)
  /\ isQuorumMet(qs, sr)

\* The loops that stop at the first, or the last, hit find one if there is one.
LEMMA OneLeast ==
  ASSUME NEW S \in SUBSET Nat
  PROVE  /\ S = {} => Least(S) = {}
         /\ S # {} => \E x \in S : Least(S) = {x}
<1>1. S = {} => Least(S) = {}
  BY DEF Least
<1>2. ASSUME S # {}
      PROVE  \E x \in S : Least(S) = {x}
  <2>1. PICK x \in S : \A k \in S : x <= k
    BY <1>2, LeastNumber
  <2>2. ASSUME NEW y \in S, \A k \in S : y <= k
        PROVE  y = x
    <3>1. x \in Nat /\ y \in Nat /\ x <= y /\ y <= x
      BY <2>1, <2>2
    <3> QED
      BY <3>1
  <2>3. Least(S) = {x}
    BY <2>1, <2>2 DEF Least
  <2> QED
    BY <2>3
<1> QED
  BY <1>1, <1>2

LEMMA OneGreatest ==
  ASSUME NEW n \in Nat, NEW S \in SUBSET (1..n)
  PROVE  /\ S = {} => Greatest(S) = {}
         /\ S # {} => \E x \in S : Greatest(S) = {x}
<1>1. S = {} => Greatest(S) = {}
  BY DEF Greatest
<1>2. ASSUME S # {}
      PROVE  \E x \in S : Greatest(S) = {x}
  <2>1. PICK x \in S : \A k \in S : k <= x
    BY <1>2, GreatestNumber
  <2>2. ASSUME NEW y \in S, \A k \in S : k <= y
        PROVE  y = x
    <3>1. x \in Nat /\ y \in Nat /\ x <= y /\ y <= x
      BY <2>1, <2>2
    <3> QED
      BY <3>1
  <2>3. Greatest(S) = {x}
    BY <2>1, <2>2 DEF Greatest
  <2> QED
    BY <2>3
<1> QED
  BY <1>1, <1>2

\* The facts about the request and the positions that every stage uses.
LEMMA TrimmableFacts ==
  ASSUME NEW qs, NEW sr, NEW strategy, Trimmable(qs, sr, strategy)
  PROVE  /\ sr.SCTs \in Nat \ {0} /\ sr.Operators \in Nat \ {0} /\ sr.Operators <= sr.SCTs
         /\ qs.got \in Seq(DOMAIN strategy)
         /\ DOMAIN qs.got = 1..Len(qs.got) /\ Len(qs.got) \in Nat
         /\ Len(qs.got) >= sr.SCTs /\ Cardinality(qs.operators) >= sr.Operators
         /\ \A k \in DOMAIN qs.got : /\ qs.got[k] \in DOMAIN strategy
                                     /\ strategy[qs.got[k]].LogType \in LogTypes
         /\ sr.RequireAtLeastOneRFC6962SCT
              => OfType(qs, strategy, DOMAIN qs.got, "LOGTYPE_RFC6962") # {}
         /\ qs.operators = OperatorsAt(qs, strategy, DOMAIN qs.got)
<1>1. Bookkeeping(qs, strategy) /\ isQuorumMet(qs, sr) /\ sr \in SubmissionRequest
  BY DEF Trimmable
<1>2. qs.got \in Seq(DOMAIN strategy)
  BY <1>1 DEF Bookkeeping
<1>3. DOMAIN qs.got = 1..Len(qs.got) /\ Len(qs.got) \in Nat
      /\ \A k \in DOMAIN qs.got : qs.got[k] \in DOMAIN strategy
  BY <1>2
<1>4. sr.SCTs \in Nat \ {0} /\ sr.Operators \in Nat \ {0} /\ sr.Operators <= sr.SCTs
  BY DEF Trimmable, SubmissionRequest
<1>5. /\ Len(qs.got) >= sr.SCTs /\ Cardinality(qs.operators) >= sr.Operators
      /\ sr.RequireAtLeastOneRFC6962SCT
           => OfType(qs, strategy, DOMAIN qs.got, "LOGTYPE_RFC6962") # {}
      /\ qs.operators = OperatorsAt(qs, strategy, DOMAIN qs.got)
  BY <1>1 DEF isQuorumMet, Bookkeeping
<1> QED
  BY <1>2, <1>3, <1>4, <1>5 DEF Trimmable

\* More entries have at least as many operators.
LEMMA SelectionGrows ==
  ASSUME NEW qs, NEW sr, NEW strategy, Trimmable(qs, sr, strategy),
         NEW P, Selection(qs, sr, strategy, P), NEW Q \in SUBSET (DOMAIN qs.got), P \subseteq Q
  PROVE  Selection(qs, sr, strategy, Q)
<1>1. OperatorsAt(qs, strategy, P) \subseteq OperatorsAt(qs, strategy, Q)
  BY DEF OperatorsAt
<1>2. qs.got \in Seq(DOMAIN strategy) /\ sr.Operators \in Nat
  BY TrimmableFacts
<1>3. /\ IsFiniteSet(OperatorsAt(qs, strategy, Q))
      /\ Cardinality(OperatorsAt(qs, strategy, Q)) \in Nat
  BY <1>2, OperatorCount
<1>4. /\ Cardinality(OperatorsAt(qs, strategy, P)) <= Cardinality(OperatorsAt(qs, strategy, Q))
      /\ Cardinality(OperatorsAt(qs, strategy, P)) \in Nat
  BY <1>1, <1>3, FS_Subset, FS_CardinalityType
<1>5. Cardinality(OperatorsAt(qs, strategy, P)) >= sr.Operators
  BY DEF Selection
<1> QED
  BY <1>2, <1>3, <1>4, <1>5 DEF Selection

\* One entry per operator, and no more of them than SCTs are asked for.
LEMMA DiverseSelects ==
  ASSUME NEW qs, NEW sr, NEW strategy, Trimmable(qs, sr, strategy)
  PROVE  LET selected == DiverseSelection(qs, sr, strategy)
         IN  Selection(qs, sr, strategy, selected) /\ Cardinality(selected) <= sr.SCTs
<1> DEFINE op(k)  == strategy[qs.got[k]].Operator
           P      == DOMAIN qs.got
           firsts == {k \in P : op(k) \notin OperatorsAt(qs, strategy, 1..(k - 1))}
           D      == {k \in firsts : Cardinality({j \in firsts : j < k}) < sr.SCTs}
<1>1. /\ sr.SCTs \in Nat \ {0} /\ sr.Operators \in Nat \ {0} /\ sr.Operators <= sr.SCTs
      /\ qs.got \in Seq(DOMAIN strategy)
      /\ P = 1..Len(qs.got) /\ Len(qs.got) \in Nat
      /\ Cardinality(qs.operators) >= sr.Operators
      /\ qs.operators = OperatorsAt(qs, strategy, P)
  BY TrimmableFacts
<1>2. DiverseSelection(qs, sr, strategy) = D
  BY DEF DiverseSelection
<1>3. D \subseteq firsts /\ firsts \subseteq P
  OBVIOUS
<1>4. Cardinality(D) <= sr.SCTs /\ (D = firsts \/ Cardinality(D) = sr.SCTs)
  <2>1. firsts \in SUBSET (1..Len(qs.got)) /\ sr.SCTs \in Nat
    BY <1>1, <1>3
  <2> HIDE DEF firsts
  <2> QED
    BY <1>1, <2>1, FirstFew
<1>5. \A j, k \in firsts : op(j) = op(k) => j = k
  <2> SUFFICES ASSUME NEW j \in firsts, NEW k \in firsts, op(j) = op(k), j < k PROVE FALSE
    BY <1>1, <1>3
  <2>1. j \in 1..(k - 1)
    BY <1>1, <1>3
  <2>2. op(k) \notin OperatorsAt(qs, strategy, 1..(k - 1))
    OBVIOUS
  <2> HIDE DEF firsts
  <2> QED
    BY <2>1, <2>2 DEF OperatorsAt
<1>6. OperatorsAt(qs, strategy, firsts) = OperatorsAt(qs, strategy, P)
  <2>1. ASSUME NEW k \in P
        PROVE  \E j \in firsts : op(j) = op(k)
    <3> DEFINE same == {j \in P : op(j) = op(k)}
    <3>1. same \in SUBSET Nat /\ same # {} /\ \A j \in same : j \in P /\ op(j) = op(k)
      BY <1>1
    <3>1a. \A j \in P : op(j) = op(k) => j \in same
      OBVIOUS
    <3> HIDE DEF same
    <3>2. PICK j \in same : \A m \in same : j <= m
      BY <3>1, LeastNumber
    <3>3. ASSUME NEW m \in 1..(j - 1)
          PROVE  op(m) # op(j)
      <4>1. m \in P /\ ~(j <= m)
        BY <1>1, <3>1
      <4> QED
        BY <3>1, <3>1a, <3>2, <4>1
    <3>4. op(j) \notin OperatorsAt(qs, strategy, 1..(j - 1))
      BY <3>3 DEF OperatorsAt
    <3> QED
      BY <3>1, <3>4
  <2> HIDE DEF firsts
  <2> QED
    BY <1>3, <2>1 DEF OperatorsAt
<1>7. Cardinality(OperatorsAt(qs, strategy, D)) >= sr.Operators
  <2>1. CASE D = firsts
    BY <1>1, <1>6, <2>1
  <2>2. CASE Cardinality(D) = sr.SCTs
    <3>1. \A j, k \in D : op(j) = op(k) => j = k
      BY <1>3, <1>5
    <3>2. D \in SUBSET (DOMAIN qs.got)
      BY <1>3
    <3> HIDE DEF D
    <3>3. Cardinality(OperatorsAt(qs, strategy, D)) = Cardinality(D)
      BY <1>1, <3>1, <3>2, OperatorCount
    <3> QED
      BY <1>1, <2>2, <3>3
  <2> QED
    BY <1>4, <2>1, <2>2
<1> QED
  BY <1>2, <1>3, <1>4, <1>7 DEF Selection

\* Taking out an entry that can be dropped safely leaves enough operators.
LEMMA DropKeepsSelection ==
  ASSUME NEW qs, NEW sr, NEW strategy, Trimmable(qs, sr, strategy),
         NEW enlarged, Selection(qs, sr, strategy, enlarged),
         NEW droppable \in SUBSET enlarged,
         \A k \in droppable : canDropSafely(k, qs, enlarged, strategy, sr)
  PROVE  Selection(qs, sr, strategy, WithoutLast(enlarged, droppable, sr))
<1>1. /\ enlarged \subseteq DOMAIN qs.got
      /\ Cardinality(OperatorsAt(qs, strategy, enlarged)) >= sr.Operators
  BY DEF Selection
<1>2. CASE WithoutLast(enlarged, droppable, sr) = enlarged
  BY <1>2
<1>3. CASE WithoutLast(enlarged, droppable, sr) # enlarged
  <2>1. /\ WithoutLast(enlarged, droppable, sr) = enlarged \ Greatest(droppable)
        /\ Greatest(droppable) # {}
    BY <1>3 DEF WithoutLast
  <2>2. droppable \in SUBSET (1..Len(qs.got)) /\ Len(qs.got) \in Nat
    BY <1>1, TrimmableFacts
  <2>3. PICK k \in droppable : Greatest(droppable) = {k}
    BY <2>1, <2>2, OneGreatest
  <2>4. /\ \/ strategy[qs.got[k]].Operator \in OperatorsAt(qs, strategy, enlarged \ {k})
           \/ Cardinality(OperatorsAt(qs, strategy, enlarged \ {k})) >= sr.Operators
    BY DEF canDropSafely
  <2>5. CASE strategy[qs.got[k]].Operator \in OperatorsAt(qs, strategy, enlarged \ {k})
    <3>1. OperatorsAt(qs, strategy, enlarged \ {k}) = OperatorsAt(qs, strategy, enlarged)
      BY <2>5 DEF OperatorsAt
    <3> QED
      BY <1>1, <2>1, <2>3, <3>1 DEF Selection
  <2> QED
    BY <1>1, <2>1, <2>3, <2>4, <2>5 DEF Selection
<1> QED
  BY <1>2, <1>3

\* When an entry has joined, one of the others can be dropped.
LEMMA SomeoneCanGo ==
  ASSUME NEW qs, NEW sr, NEW strategy, Trimmable(qs, sr, strategy),
         NEW selected, Selection(qs, sr, strategy, selected),
         NEW x \in (DOMAIN qs.got) \ selected
  PROVE  \E k \in selected : canDropSafely(k, qs, selected \cup {x}, strategy, sr)
<1> DEFINE op(k) == strategy[qs.got[k]].Operator
           ops(S) == OperatorsAt(qs, strategy, S)
<1>1. /\ selected \in SUBSET (DOMAIN qs.got) /\ Cardinality(ops(selected)) >= sr.Operators
      /\ sr.Operators \in Nat \ {0} /\ qs.got \in Seq(DOMAIN strategy)
  BY TrimmableFacts DEF Selection
<1>2. CASE op(x) \in ops(selected)
  <2>1. PICK k \in selected : op(k) = op(x)
    BY <1>2 DEF OperatorsAt
  <2>2. x \in (selected \cup {x}) \ {k}
    OBVIOUS
  <2>3. op(k) \in ops((selected \cup {x}) \ {k})
    BY <2>1, <2>2 DEF OperatorsAt
  <2> QED
    BY <2>3 DEF canDropSafely
<1>3. CASE op(x) \notin ops(selected)
  <2>1. selected # {}
    <3>1. selected = {} => ops(selected) = {}
      BY DEF OperatorsAt
    <3>2. Cardinality({}) = 0
      BY FS_EmptySet
    <3>3. selected = {} => Cardinality(ops(selected)) = 0
      BY <3>1, <3>2
    <3> HIDE DEF ops
    <3> QED
      BY <1>1, <3>3
  <2>2. PICK k : k \in selected
    BY <2>1
  <2>3. IsFiniteSet(ops(selected)) /\ Cardinality(ops(selected)) \in Nat
    BY <1>1, OperatorCount
  <2>4. ops((selected \cup {x}) \ {k}) = ops(selected \ {k}) \cup {op(x)}
    BY <2>2 DEF OperatorsAt
  <2>5. ops(selected) = ops(selected \ {k}) \cup {op(k)}
    BY <2>2 DEF OperatorsAt
  <2>6. op(x) \notin ops(selected \ {k})
    BY <1>3, <2>5
  <2> DEFINE rest == ops(selected \ {k})
  <2>7. IsFiniteSet(rest) /\ Cardinality(rest) \in Nat
    BY <2>3, <2>5, FS_Subset, FS_CardinalityType
  <2>8. Cardinality(rest \cup {op(x)}) = Cardinality(rest) + 1
    BY <2>6, <2>7, FS_AddElement
  <2>9. Cardinality(ops(selected)) \in {Cardinality(rest), Cardinality(rest) + 1}
    BY <2>5, <2>7, FS_AddElement
  <2>10. Cardinality(ops((selected \cup {x}) \ {k})) >= sr.Operators
    <3>1. Cardinality(ops((selected \cup {x}) \ {k})) = Cardinality(rest) + 1
      BY <2>4, <2>8
    <3> HIDE DEF ops, rest
    <3> QED
      BY <1>1, <2>7, <2>9, <3>1
  <2> QED
    BY <2>2, <2>10 DEF canDropSafely
<1> QED
  BY <1>2, <1>3

\* The first entry of a type that joins a selection without one.
LEMMA FirstJoins ==
  ASSUME NEW qs, NEW sr, NEW strategy, Trimmable(qs, sr, strategy),
         NEW selected, Selection(qs, sr, strategy, selected),
         NEW type, OfType(qs, strategy, selected, type) = {},
         NEW enlarged, enlarged = WithFirst(qs, strategy, selected, type)
  PROVE  /\ Selection(qs, sr, strategy, enlarged)
         /\ IsFiniteSet(selected) /\ Cardinality(selected) \in Nat
         /\ \/ enlarged = selected /\ OfType(qs, strategy, DOMAIN qs.got, type) = {}
            \/ \E x \in (DOMAIN qs.got) \ selected :
                 /\ enlarged = selected \cup {x}
                 /\ OfType(qs, strategy, enlarged, type) = {x}
                 /\ Cardinality(enlarged) = Cardinality(selected) + 1
<1> DEFINE P    == DOMAIN qs.got
           free == OfType(qs, strategy, P \ selected, type)
<1>1. /\ P = 1..Len(qs.got) /\ Len(qs.got) \in Nat /\ qs.got \in Seq(DOMAIN strategy)
      /\ selected \in SUBSET P
  BY TrimmableFacts DEF Selection
<1>2. IsFiniteSet(selected) /\ Cardinality(selected) \in Nat
  BY <1>1, OperatorCount
<1>3. free \in SUBSET Nat /\ enlarged = selected \cup Least(free) /\ free \subseteq P \ selected
  BY <1>1 DEF WithFirst, OfType
<1>4. CASE free = {}
  <2>1. enlarged = selected
    BY <1>3, <1>4, OneLeast
  <2>2. OfType(qs, strategy, P, type) = {}
    BY <1>4 DEF OfType
  <2> QED
    BY <1>2, <2>1, <2>2
<1>5. CASE free # {}
  <2>1. PICK x \in free : Least(free) = {x}
    <3> HIDE DEF free
    <3> QED
      BY <1>3, <1>5, OneLeast
  <2>2. x \in P \ selected /\ enlarged = selected \cup {x}
    BY <1>3, <2>1
  <2>3. OfType(qs, strategy, enlarged, type) = {x}
    BY <2>1, <2>2 DEF OfType
  <2>4. Cardinality(enlarged) = Cardinality(selected) + 1
    BY <1>2, <2>2, FS_AddElement
  <2>5. enlarged \in SUBSET (DOMAIN qs.got) /\ selected \subseteq enlarged
    BY <1>1, <2>2
  <2>6. Selection(qs, sr, strategy, enlarged)
    BY <2>5, SelectionGrows
  <2> QED
    BY <1>2, <2>2, <2>3, <2>4, <2>6
<1> QED
  BY <1>4, <1>5

\* If anything can be dropped, the size comes out right again.
LEMMA DropSize ==
  ASSUME NEW qs, NEW sr, NEW strategy, Trimmable(qs, sr, strategy),
         NEW enlarged \in SUBSET (DOMAIN qs.got), Cardinality(enlarged) <= sr.SCTs + 1,
         NEW droppable \in SUBSET enlarged,
         Cardinality(enlarged) > sr.SCTs => droppable # {}
  PROVE  Cardinality(WithoutLast(enlarged, droppable, sr)) <= sr.SCTs
<1>1. /\ sr.SCTs \in Nat /\ DOMAIN qs.got = 1..Len(qs.got) /\ Len(qs.got) \in Nat
      /\ qs.got \in Seq(DOMAIN strategy)
  BY TrimmableFacts
<1>2. IsFiniteSet(enlarged) /\ Cardinality(enlarged) \in Nat
  BY <1>1, OperatorCount
<1>3. CASE Cardinality(enlarged) > sr.SCTs
  <2>1. PICK k \in droppable : Greatest(droppable) = {k}
    BY <1>1, <1>3, OneGreatest
  <2>2. WithoutLast(enlarged, droppable, sr) = enlarged \ {k} /\ k \in enlarged
    BY <1>3, <2>1 DEF WithoutLast
  <2>3. Cardinality(enlarged \ {k}) = Cardinality(enlarged) - 1
    BY <1>2, <2>2, FS_RemoveElement
  <2> QED
    BY <1>1, <1>2, <2>2, <2>3
<1>4. CASE ~(Cardinality(enlarged) > sr.SCTs)
  <2>1. WithoutLast(enlarged, droppable, sr) = enlarged
    BY <1>4 DEF WithoutLast
  <2> QED
    BY <1>1, <1>2, <1>4, <2>1
<1> QED
  BY <1>3, <1>4

\* The swap for a required RFC6962 SCT brings one in.
LEMMA RFC6962Swap ==
  ASSUME NEW qs, NEW sr, NEW strategy, Trimmable(qs, sr, strategy),
         NEW selected, Selection(qs, sr, strategy, selected), Cardinality(selected) <= sr.SCTs,
         NEW new, new = SwapInRFC6962(qs, sr, strategy, selected)
  PROVE  /\ Selection(qs, sr, strategy, new) /\ Cardinality(new) <= sr.SCTs
         /\ sr.RequireAtLeastOneRFC6962SCT => OfType(qs, strategy, new, "LOGTYPE_RFC6962") # {}
<1> DEFINE type     == "LOGTYPE_RFC6962"
           enlarged == WithFirst(qs, strategy, selected, type)
           droppable == {k \in enlarged \ OfType(qs, strategy, enlarged, type) :
                           canDropSafely(k, qs, enlarged, strategy, sr)}
<1>1. CASE ~(sr.RequireAtLeastOneRFC6962SCT /\ OfType(qs, strategy, selected, type) = {})
  BY <1>1 DEF SwapInRFC6962
<1>2. CASE sr.RequireAtLeastOneRFC6962SCT /\ OfType(qs, strategy, selected, type) = {}
  <2>1. new = WithoutLast(enlarged, droppable, sr)
    BY <1>2 DEF SwapInRFC6962
  <2>2. /\ droppable \in SUBSET enlarged
        /\ \A k \in droppable : canDropSafely(k, qs, enlarged, strategy, sr)
        /\ \A k \in enlarged : (/\ k \notin OfType(qs, strategy, enlarged, type)
                                /\ canDropSafely(k, qs, enlarged, strategy, sr)) => k \in droppable
        /\ \A k \in droppable : k \notin OfType(qs, strategy, enlarged, type)
    OBVIOUS
  <2> HIDE DEF droppable
  <2>3. Selection(qs, sr, strategy, enlarged) /\ Cardinality(selected) \in Nat
        /\ \/ enlarged = selected /\ OfType(qs, strategy, DOMAIN qs.got, type) = {}
           \/ \E x \in (DOMAIN qs.got) \ selected :
                /\ enlarged = selected \cup {x}
                /\ OfType(qs, strategy, enlarged, type) = {x}
                /\ Cardinality(enlarged) = Cardinality(selected) + 1
    <3> HIDE DEF enlarged
    <3> QED
      BY <1>2, FirstJoins DEF enlarged
  <2>4. PICK x \in (DOMAIN qs.got) \ selected :
          /\ enlarged = selected \cup {x}
          /\ OfType(qs, strategy, enlarged, type) = {x}
          /\ Cardinality(enlarged) = Cardinality(selected) + 1
    BY <1>2, <2>3, TrimmableFacts
  <2> HIDE DEF enlarged
  <2>5. Selection(qs, sr, strategy, new)
    BY <2>1, <2>2, <2>3, DropKeepsSelection
  <2>6. droppable # {}
    <3>1. PICK k \in selected : canDropSafely(k, qs, selected \cup {x}, strategy, sr)
      BY SomeoneCanGo
    <3> QED
      BY <2>2, <2>4, <3>1
  <2>7. Cardinality(new) <= sr.SCTs
    <3>0. sr.SCTs \in Nat
      BY TrimmableFacts
    <3>1. Cardinality(enlarged) <= sr.SCTs + 1
      BY <2>3, <2>4, <3>0
    <3>2. enlarged \in SUBSET (DOMAIN qs.got)
      BY <2>3 DEF Selection
    <3> QED
      BY <2>1, <2>2, <2>6, <3>1, <3>2, DropSize
  <2>8. x \in new
    BY <2>1, <2>2, <2>4 DEF WithoutLast, Greatest
  <2>9. x \in OfType(qs, strategy, new, type)
    BY <2>4, <2>8 DEF OfType
  <2> QED
    BY <2>5, <2>7, <2>9
<1> QED
  BY <1>1, <1>2

\* The swap for a preferred static SCT brings one in if there is one, and never drops
\* the only RFC6962 SCT where one is required.
LEMMA StaticSwap ==
  ASSUME NEW qs, NEW sr, NEW strategy, Trimmable(qs, sr, strategy),
         NEW selected, Selection(qs, sr, strategy, selected), Cardinality(selected) <= sr.SCTs,
         sr.RequireAtLeastOneRFC6962SCT => OfType(qs, strategy, selected, "LOGTYPE_RFC6962") # {},
         NEW new, new = SwapInStatic(qs, sr, strategy, selected)
  PROVE  /\ Selection(qs, sr, strategy, new)
         /\ sr.RequireAtLeastOneRFC6962SCT => OfType(qs, strategy, new, "LOGTYPE_RFC6962") # {}
         /\ (/\ sr.PreferAtLeastOneStaticSCT
             /\ OfType(qs, strategy, DOMAIN qs.got, "LOGTYPE_STATIC") # {})
              => OfType(qs, strategy, new, "LOGTYPE_STATIC") # {}
         /\ sr.SCTs >= 2 => Cardinality(new) <= sr.SCTs
<1> DEFINE type     == "LOGTYPE_STATIC"
           enlarged == WithFirst(qs, strategy, selected, type)
           rfc6962  == OfType(qs, strategy, enlarged, "LOGTYPE_RFC6962")
           droppable == {k \in enlarged \ OfType(qs, strategy, enlarged, type) :
                           /\ ~(sr.RequireAtLeastOneRFC6962SCT /\ rfc6962 = {k})
                           /\ canDropSafely(k, qs, enlarged, strategy, sr)}
<1>1. CASE ~(sr.PreferAtLeastOneStaticSCT /\ OfType(qs, strategy, selected, type) = {})
  <2>1. new = selected
    BY <1>1 DEF SwapInStatic
  <2> QED
    BY <1>1, <2>1
<1>2. CASE sr.PreferAtLeastOneStaticSCT /\ OfType(qs, strategy, selected, type) = {}
  <2>1. new = WithoutLast(enlarged, droppable, sr)
    BY <1>2 DEF SwapInStatic
  <2>2. /\ droppable \in SUBSET enlarged
        /\ \A k \in droppable : /\ canDropSafely(k, qs, enlarged, strategy, sr)
                                /\ k \notin OfType(qs, strategy, enlarged, type)
                                /\ ~(sr.RequireAtLeastOneRFC6962SCT /\ rfc6962 = {k})
        /\ \A k \in enlarged : (/\ k \notin OfType(qs, strategy, enlarged, type)
                                /\ ~(sr.RequireAtLeastOneRFC6962SCT /\ rfc6962 = {k})
                                /\ canDropSafely(k, qs, enlarged, strategy, sr))
                                  => k \in droppable
    <3> HIDE DEF enlarged, rfc6962
    <3> QED
      OBVIOUS
  <2> HIDE DEF droppable
  <2>3. /\ Selection(qs, sr, strategy, enlarged)
        /\ IsFiniteSet(selected) /\ Cardinality(selected) \in Nat
        /\ \/ enlarged = selected /\ OfType(qs, strategy, DOMAIN qs.got, type) = {}
           \/ \E x \in (DOMAIN qs.got) \ selected :
                /\ enlarged = selected \cup {x}
                /\ OfType(qs, strategy, enlarged, type) = {x}
                /\ Cardinality(enlarged) = Cardinality(selected) + 1
    BY <1>2, FirstJoins
  <2>4. rfc6962 = OfType(qs, strategy, enlarged, "LOGTYPE_RFC6962")
    OBVIOUS
  <2> HIDE DEF enlarged, rfc6962
  <2>5. Selection(qs, sr, strategy, new)
    BY <2>1, <2>2, <2>3, DropKeepsSelection
  <2>6. sr.RequireAtLeastOneRFC6962SCT => OfType(qs, strategy, new, "LOGTYPE_RFC6962") # {}
    <3> SUFFICES ASSUME sr.RequireAtLeastOneRFC6962SCT
                 PROVE  \E r \in new : r \in rfc6962
      BY <2>1, <2>4 DEF OfType
    <3>1. rfc6962 # {} /\ rfc6962 \subseteq enlarged
      BY <2>3, <2>4 DEF OfType
    <3>2. CASE new = enlarged
      BY <3>1, <3>2
    <3>3. CASE new # enlarged
      <4>1. new = enlarged \ Greatest(droppable) /\ Greatest(droppable) # {}
        BY <2>1, <3>3 DEF WithoutLast
      <4>2. droppable \in SUBSET (1..Len(qs.got)) /\ Len(qs.got) \in Nat
        BY <2>2, <2>3, TrimmableFacts DEF Selection
      <4>3. PICK k \in droppable : Greatest(droppable) = {k}
        BY <4>1, <4>2, OneGreatest
      <4>4. rfc6962 # {k}
        BY <2>2
      <4> QED
        BY <3>1, <4>1, <4>3, <4>4
    <3> QED
      BY <3>2, <3>3
  <2>7. OfType(qs, strategy, DOMAIN qs.got, type) # {} => OfType(qs, strategy, new, type) # {}
    <3> SUFFICES ASSUME NEW x \in (DOMAIN qs.got) \ selected,
                        enlarged = selected \cup {x},
                        OfType(qs, strategy, enlarged, type) = {x}
                 PROVE  OfType(qs, strategy, new, type) # {}
      BY <2>3
    <3>1. x \in new
      BY <2>1, <2>2 DEF WithoutLast, Greatest
    <3> QED
      BY <3>1 DEF OfType
  <2>8. ASSUME sr.SCTs >= 2
        PROVE  Cardinality(new) <= sr.SCTs
    <3>1. sr.SCTs \in Nat /\ enlarged \in SUBSET (DOMAIN qs.got) /\ selected \subseteq DOMAIN qs.got
      BY <2>3, TrimmableFacts DEF Selection
    <3>2. Cardinality(enlarged) <= sr.SCTs + 1
      BY <2>3, <3>1
    <3>3. ASSUME Cardinality(enlarged) > sr.SCTs
          PROVE  droppable # {}
      <4>1. PICK x \in (DOMAIN qs.got) \ selected :
              /\ enlarged = selected \cup {x}
              /\ OfType(qs, strategy, enlarged, type) = {x}
              /\ Cardinality(enlarged) = Cardinality(selected) + 1
        BY <2>3, <3>1, <3>3
      <4>2. PICK k \in selected : canDropSafely(k, qs, enlarged, strategy, sr)
        BY <4>1, SomeoneCanGo
      <4>3. \A j \in selected : strategy[qs.got[j]].LogType = "LOGTYPE_RFC6962"
        <5>1. \A j \in selected : strategy[qs.got[j]].LogType \in LogTypes
          BY <3>1, TrimmableFacts
        <5> QED
          BY <1>2, <5>1 DEF LogTypes, OfType
      <4>4. selected \subseteq rfc6962
        BY <2>4, <4>1, <4>3 DEF OfType
      <4>5. selected # {k}
        <5>1. Cardinality({k}) = 1
          BY FS_Singleton
        <5>2. Cardinality(selected) >= 2
          BY <2>3, <2>8, <3>1, <3>3, <4>1
        <5> QED
          BY <5>1, <5>2
      <4>6. rfc6962 # {k}
        BY <4>2, <4>4, <4>5
      <4> QED
        BY <2>2, <4>1, <4>2, <4>6
    <3> QED
      BY <2>1, <2>2, <3>1, <3>2, <3>3, DropSize
  <2> QED
    BY <2>5, <2>6, <2>7, <2>8
<1> QED
  BY <1>1, <1>2

\* Filling up reaches the number of SCTs asked for, and stops there.
LEMMA FillSize ==
  ASSUME NEW qs, NEW sr, NEW strategy, Trimmable(qs, sr, strategy),
         NEW selected, Selection(qs, sr, strategy, selected),
         NEW new, new = FillRemaining(qs, sr, selected)
  PROVE  /\ Selection(qs, sr, strategy, new) /\ selected \subseteq new
         /\ Cardinality(new) >= sr.SCTs
         /\ Cardinality(selected) <= sr.SCTs => Cardinality(new) = sr.SCTs
<1> DEFINE free == (DOMAIN qs.got) \ selected
<1>1. /\ sr.SCTs \in Nat /\ DOMAIN qs.got = 1..Len(qs.got) /\ Len(qs.got) \in Nat
      /\ Len(qs.got) >= sr.SCTs /\ qs.got \in Seq(DOMAIN strategy)
      /\ selected \in SUBSET (DOMAIN qs.got)
  BY TrimmableFacts DEF Selection
<1>2. new \in SUBSET (DOMAIN qs.got) /\ selected \subseteq new
  BY <1>1 DEF FillRemaining
<1>3. Selection(qs, sr, strategy, new)
  BY <1>2, SelectionGrows
<1>4. Cardinality(selected) \in Nat /\ Cardinality(new) \in Nat /\ IsFiniteSet(new)
  BY <1>1, <1>2, OperatorCount
<1>5. CASE Cardinality(selected) <= sr.SCTs
  <2>1. /\ Cardinality(new) <= sr.SCTs
        /\ new = selected \cup free \/ Cardinality(new) = sr.SCTs
    <3>1. free \in SUBSET (1..Len(qs.got)) /\ selected \cap free = {}
      BY <1>1
    <3> DEFINE filled == selected \cup
          {k \in free : Cardinality(selected) + Cardinality({j \in free : j < k}) < sr.SCTs}
    <3>2. new = filled
      BY DEF FillRemaining
    <3> HIDE DEF free
    <3>3. /\ Cardinality(filled) <= sr.SCTs
          /\ filled = selected \cup free \/ Cardinality(filled) = sr.SCTs
      BY <1>1, <1>5, <3>1, FillUp
    <3> HIDE DEF filled
    <3> QED
      BY <3>2, <3>3
  <2>2. CASE new = selected \cup free
    <3>1. new = DOMAIN qs.got /\ Bookkeeping(qs, strategy)
      BY <1>1, <2>2 DEF Trimmable
    <3>2. Cardinality(new) = Len(qs.got)
      BY <3>1, GotCount
    <3> QED
      BY <1>1, <1>2, <1>3, <2>1, <3>2
  <2> QED
    BY <1>1, <1>2, <1>3, <2>1, <2>2
<1>6. CASE ~(Cardinality(selected) <= sr.SCTs)
  <2>1. Cardinality(selected) <= Cardinality(new)
    BY <1>2, <1>4, FS_Subset
  <2> QED
    BY <1>1, <1>2, <1>3, <1>4, <1>6, <2>1
<1> QED
  BY <1>5, <1>6

\* The positions trimToQuorum keeps: a selection with a required RFC6962 SCT, with a
\* preferred static one if there is any, of the size asked for.
LEMMA TrimmedSelection ==
  ASSUME NEW qs, NEW sr, NEW strategy, Trimmable(qs, sr, strategy),
         NEW kept, kept = TrimmedPositions(qs, sr, strategy)
  PROVE  /\ Selection(qs, sr, strategy, kept)
         /\ Cardinality(kept) >= sr.SCTs
         /\ sr.RequireAtLeastOneRFC6962SCT => OfType(qs, strategy, kept, "LOGTYPE_RFC6962") # {}
         /\ (/\ sr.PreferAtLeastOneStaticSCT
             /\ OfType(qs, strategy, DOMAIN qs.got, "LOGTYPE_STATIC") # {})
              => OfType(qs, strategy, kept, "LOGTYPE_STATIC") # {}
         /\ sr.SCTs >= 2 => Cardinality(kept) = sr.SCTs
<1> DEFINE S1 == DiverseSelection(qs, sr, strategy)
           S2 == SwapInRFC6962(qs, sr, strategy, S1)
           S3 == SwapInStatic(qs, sr, strategy, S2)
<1>1. /\ sr.SCTs \in Nat /\ DOMAIN qs.got = 1..Len(qs.got) /\ Len(qs.got) \in Nat
      /\ Len(qs.got) >= sr.SCTs
      /\ Cardinality(OperatorsAt(qs, strategy, DOMAIN qs.got)) >= sr.Operators
      /\ sr.RequireAtLeastOneRFC6962SCT
           => OfType(qs, strategy, DOMAIN qs.got, "LOGTYPE_RFC6962") # {}
      /\ Bookkeeping(qs, strategy)
  BY TrimmableFacts DEF Trimmable
<1>2. CASE Len(qs.got) <= sr.SCTs
  <2>1. kept = DOMAIN qs.got /\ Cardinality(kept) = Len(qs.got)
    BY <1>1, <1>2, GotCount DEF TrimmedPositions
  <2>2. Cardinality(kept) = sr.SCTs
    BY <1>1, <1>2, <2>1
  <2> QED
    BY <1>1, <2>1, <2>2 DEF Selection
<1>3. CASE ~(Len(qs.got) <= sr.SCTs)
  <2>1. kept = FillRemaining(qs, sr, S3)
    BY <1>3 DEF TrimmedPositions
  <2>2. Selection(qs, sr, strategy, S1) /\ Cardinality(S1) <= sr.SCTs
    BY DiverseSelects
  <2>3. /\ Selection(qs, sr, strategy, S2) /\ Cardinality(S2) <= sr.SCTs
        /\ sr.RequireAtLeastOneRFC6962SCT => OfType(qs, strategy, S2, "LOGTYPE_RFC6962") # {}
    <3> HIDE DEF S1
    <3> QED
      BY <2>2, RFC6962Swap
  <2>4. /\ Selection(qs, sr, strategy, S3)
        /\ sr.RequireAtLeastOneRFC6962SCT => OfType(qs, strategy, S3, "LOGTYPE_RFC6962") # {}
        /\ (/\ sr.PreferAtLeastOneStaticSCT
            /\ OfType(qs, strategy, DOMAIN qs.got, "LOGTYPE_STATIC") # {})
             => OfType(qs, strategy, S3, "LOGTYPE_STATIC") # {}
        /\ sr.SCTs >= 2 => Cardinality(S3) <= sr.SCTs
    <3> HIDE DEF S2
    <3> QED
      BY <2>3, StaticSwap
  <2> HIDE DEF S1, S2, S3
  <2>5. /\ Selection(qs, sr, strategy, kept) /\ S3 \subseteq kept
        /\ Cardinality(kept) >= sr.SCTs
        /\ Cardinality(S3) <= sr.SCTs => Cardinality(kept) = sr.SCTs
    BY <2>1, <2>4, FillSize
  <2>6. \A type : OfType(qs, strategy, S3, type) # {} => OfType(qs, strategy, kept, type) # {}
    BY <2>5 DEF OfType
  <2> QED
    BY <2>4, <2>5, <2>6
<1> QED
  BY <1>2, <1>3

---------------------------------------------------------------------------
\* What the trim returns is a quorum of SCTs that were kept, holds a static one if that
\* is preferred and there is one, and is of the size asked for where two or more are.
THEOREM TrimIsSound ==
  ASSUME NEW qs, NEW sr, NEW strategy, Trimmable(qs, sr, strategy),
         NEW scts, scts = trimToQuorum(qs, sr, strategy)
  PROVE  /\ scts \subseteq GotLogs(qs)
         /\ Compliant(sr, strategy, scts)
         /\ sr.PreferAtLeastOneStaticSCT /\ qs.hasStaticSCT
              => \E i \in scts : strategy[i].LogType = "LOGTYPE_STATIC"
         /\ sr.SCTs >= 2 => Cardinality(scts) = sr.SCTs
<1> DEFINE kept == TrimmedPositions(qs, sr, strategy)
<1>1. scts = {qs.got[k] : k \in kept}
  BY DEF trimToQuorum
<1>2. /\ Selection(qs, sr, strategy, kept)
      /\ Cardinality(kept) >= sr.SCTs
      /\ sr.RequireAtLeastOneRFC6962SCT => OfType(qs, strategy, kept, "LOGTYPE_RFC6962") # {}
      /\ (/\ sr.PreferAtLeastOneStaticSCT
          /\ OfType(qs, strategy, DOMAIN qs.got, "LOGTYPE_STATIC") # {})
           => OfType(qs, strategy, kept, "LOGTYPE_STATIC") # {}
      /\ sr.SCTs >= 2 => Cardinality(kept) = sr.SCTs
  BY TrimmedSelection
<1> HIDE DEF kept
<1>3. Bookkeeping(qs, strategy) /\ kept \in SUBSET (DOMAIN qs.got)
  BY <1>2 DEF Trimmable, Selection
<1>4. Cardinality(scts) = Cardinality(kept)
  BY <1>1, <1>3, GotCount
<1>5. {strategy[i].Operator : i \in scts} = OperatorsAt(qs, strategy, kept)
  BY <1>1 DEF OperatorsAt
<1>6. \A type : OfType(qs, strategy, kept, type) # {}
                  => \E i \in scts : strategy[i].LogType = type
  BY <1>1 DEF OfType
<1>7. qs.hasStaticSCT => OfType(qs, strategy, DOMAIN qs.got, "LOGTYPE_STATIC") # {}
  BY <1>3 DEF Bookkeeping
<1>8. scts \subseteq GotLogs(qs)
  BY <1>1, <1>3 DEF GotLogs
<1>9. Compliant(sr, strategy, scts)
  <2>1. Cardinality({strategy[i].Operator : i \in scts}) >= sr.Operators
    BY <1>2, <1>5 DEF Selection
  <2> QED
    BY <1>2, <1>4, <1>6, <2>1 DEF Compliant
<1> QED
  BY <1>2, <1>4, <1>6, <1>7, <1>8, <1>9
============================================================================
