---------------------------- MODULE HandleProofs ---------------------------
(***************************************************************************)
(* Proofs about Handle, for any log lists, CAs, accepted roots, requests   *)
(* and configuration: types, what its replies owe to their requests, that  *)
(* the cache shared by all requests lends them only verdicts of their own, *)
(* and that a chain it discovers is one that a log accepts.                *)
(***************************************************************************)
EXTENDS Handle, OptimalParentsProofs, FiniteSetTheorems, TLAPS

\* The stages before the compatible logs are looked for, and those from then on.
Early == {"parse", "discover", "filter"}
Late  == {"look up", "validate", "issuer", "submit"}

---------------------------------------------------------------------------
(***************************************************************************)
(* Types.                                                                  *)
(***************************************************************************)

\* What entries of two lists have in common is an entry (filter.go:152-205).
LEMMA MetType ==
  ASSUME NEW e1 \in Entries, NEW e2 \in Entries
  PROVE  Met(e1, e2) \in Entries
<1>1. /\ e1.usable \in Nat /\ e2.usable \in Nat
      /\ e1.interval \in Intervals /\ e2.interval \in Intervals
  BY DEF Entries, Entry
<1> DEFINE usable == IF e1.usable # 0 /\ e2.usable > e1.usable THEN e2.usable ELSE e1.usable
           i == e1.interval  j == e2.interval
           interval == Narrowed(i, j)
<1>2. usable \in Nat
  BY <1>1
<1>3. interval \in Intervals
  <2>1. CASE i = NoInterval \/ j = NoInterval
    BY <1>1, <2>1 DEF Narrowed
  <2>2. CASE i # NoInterval /\ j # NoInterval
    <3>1. i \in Nat \X Nat /\ j \in Nat \X Nat
      BY <1>1, <2>2 DEF Intervals
    <3> DEFINE from == IF j[1] > i[1] THEN j[1] ELSE i[1]
               to   == IF j[2] < i[2] THEN j[2] ELSE i[2]
    <3>2. from \in Nat /\ to \in Nat
      BY <3>1
    <3>3. interval = <<from, to>>
      BY <2>2 DEF Narrowed
    <3> HIDE DEF from, to, interval
    <3> QED
      BY <3>2, <3>3 DEF Intervals
  <2> QED
    BY <2>1, <2>2
<1>4. Met(e1, e2) = [e1 EXCEPT !.usable = usable, !.interval = interval]
  BY DEF Met
<1> HIDE DEF usable, interval
<1> QED
  BY <1>2, <1>3, <1>4 DEF Entries, Entry

LEMMA IntersectType ==
  ASSUME NEW list1 \in SUBSET Entries, NEW list2 \in SUBSET Entries
  PROVE  intersect(list1, list2) \in SUBSET Entries
<1> SUFFICES ASSUME NEW e \in intersect(list1, list2) PROVE e \in Entries
  OBVIOUS
<1>1. PICK p \in list1 \X list2 : e = Met(p[1], p[2])
  BY DEF intersect
<1>2. p[1] \in Entries /\ p[2] \in Entries
  BY <1>1
<1> QED
  BY <1>1, <1>2, MetType

\* The base lists hold entries (filter.go:35-46).
LEMMA BaseType ==
  ASSUME NEW lists \in Lists(LogNames, OperatorNames), NEW context \in Contexts
  PROVE  BaseLists(lists)[context] \in SUBSET Entries
<1>1. /\ lists["chrome"] \in SUBSET Entries /\ lists["apple"] \in SUBSET Entries
      /\ lists["mozilla"] \in SUBSET Entries /\ lists["crtsh"] \in SUBSET Entries
      /\ lists["bimi"] \in SUBSET Entries /\ lists["custom"] \in SUBSET Entries
  BY DEF Lists, Entries
<1> DEFINE chrome  == SelectByStatus(lists["chrome"], {"usable"})
           apple   == SelectByStatus(lists["apple"], {"usable"})
           mozilla == SelectByStatus(lists["mozilla"], {"qualified", "usable"})
<1>2. chrome \in SUBSET Entries /\ apple \in SUBSET Entries /\ mozilla \in SUBSET Entries
  BY <1>1 DEF SelectByStatus
<1> HIDE DEF chrome, apple, mozilla
<1>3. intersect(intersect(chrome, apple), mozilla) \in SUBSET Entries
  BY <1>2, IntersectType
<1>4. UsableTLSLogs(lists) \in SUBSET Entries
  BY <1>3, Zenon DEF UsableTLSLogs, chrome, apple, mozilla
<1>5. TestTLSLogs(lists) \in SUBSET Entries
  BY <1>1 DEF TestTLSLogs
<1>6. UsableBIMILogs(lists) \in SUBSET Entries
  BY <1>1 DEF UsableBIMILogs, SelectByStatus
<1>7. CASE context = "UsableTLSLogs"
  BY <1>4, <1>7 DEF BaseLists
<1>8. CASE context = "TestTLSLogs"
  BY <1>5, <1>8 DEF BaseLists
<1>9. CASE context = "UsableBIMILogs"
  BY <1>6, <1>9 DEF BaseLists
<1>10. CASE context = "CrtshV3Active"
  BY <1>1, <1>10 DEF BaseLists
<1> QED
  BY <1>7, <1>8, <1>9, <1>10 DEF Contexts

\* The policy raises a request to a request (request.go:60-91).
LEMMA RequirementsType ==
  ASSUME NEW sr \in Submitted, NEW leaf
  PROVE  /\ Requirements(sr, leaf) \in Submitted
         /\ BaseOf(sr, leaf) \in Contexts
         /\ Requirements(sr, leaf) =
              [sr EXCEPT !.PreferAtLeastOneStaticSCT = Requirements(sr, leaf).PreferAtLeastOneStaticSCT,
                         !.Operators = Requirements(sr, leaf).Operators,
                         !.SCTs = Requirements(sr, leaf).SCTs]
<1> DEFINE policy    == sr.PolicyCompliant /\ ~leaf.mark
           operators == AtLeast(sr.Operators, IF policy THEN 2 ELSE 1)
           prefer    == sr.PreferAtLeastOneStaticSCT \/ policy
           scts      == AtLeast(AtLeast(sr.SCTs, IF policy THEN PolicySCTs(leaf) ELSE 1), operators)
<1>1. sr.Operators \in Int /\ sr.SCTs \in Int
  BY DEF Submitted
<1>2. operators \in Int /\ prefer \in BOOLEAN
  BY <1>1 DEF AtLeast
<1>3. PolicySCTs(leaf) \in Int
  BY DEF PolicySCTs
<1>4. scts \in Int
  BY <1>1, <1>2, <1>3 DEF AtLeast
<1>5. Requirements(sr, leaf) = [sr EXCEPT !.PreferAtLeastOneStaticSCT = prefer,
                                          !.Operators = operators, !.SCTs = scts]
  BY Zenon DEF Requirements
<1> HIDE DEF policy, operators, prefer, scts
<1>6. Requirements(sr, leaf) \in Submitted
  BY <1>2, <1>4, <1>5 DEF Submitted
<1>7. /\ Requirements(sr, leaf).PreferAtLeastOneStaticSCT = prefer
      /\ Requirements(sr, leaf).Operators = operators
      /\ Requirements(sr, leaf).SCTs = scts
  BY <1>5 DEF Submitted
<1>8. BaseOf(sr, leaf) \in Contexts
  BY DEF BaseOf, Contexts
<1> QED
  BY <1>5, <1>6, <1>7, <1>8, Zenon

---------------------------------------------------------------------------
(***************************************************************************)
(* What holds of every call.                                               *)
(***************************************************************************)

WorldInv == world \in Worlds /\ bases = BaseLists(world.lists)

\* The logs that a call has found, is validating and has yet to look up are different
\* ones of its base list, and are there only while it looks for compatible logs or
\* after.  The log being validated is one whose roots are known.
Sane(h) ==
  /\ h.found \subseteq bases[h.base]
  /\ h.todo \cup h.log \subseteq bases[h.base] \ h.found
  /\ (h.at = "done") <=> (h.answer.status # "pending")
  /\ h.at \in Early => h.todo = {} /\ h.found = {}
  /\ h.at # "validate" => h.log = {}
  /\ h.at = "validate" => \E e : h.log = {e} /\ e \notin h.todo /\ e.id \in DOMAIN world.accepted

CallsInv == handle \in [Requests -> Call] /\ \A q \in Requests : Sane(handle[q])

CacheTypes ==
  \A c \in cache : /\ c.log \in DOMAIN world.accepted
                   /\ c.valid \in BOOLEAN
                   /\ \A d \in cache : c.log = d.log /\ c.cas = d.cas => c = d

TypeInv == WorldInv /\ CallsInv /\ CacheTypes

LEMMA WorldFacts ==
  ASSUME WorldInv
  PROVE  /\ IsWorld(world)
         /\ world.lists \in Lists(LogNames, OperatorNames)
         /\ world.known \subseteq CACerts
         /\ world.requests \in [Requests -> Submitted]
         /\ world.config \in [IncludeLogResponses : BOOLEAN, IncludeSCTList : BOOLEAN,
                              ProduceFinalTBSCert : BOOLEAN]
         /\ \A context \in Contexts : bases[context] \in SUBSET Entries
<1>1. IsWorld(world)
  BY HandleAssumption DEF WorldInv
<1>2. \A context \in Contexts : bases[context] \in SUBSET Entries
  BY <1>1, BaseType DEF WorldInv, IsWorld
<1>3. world.config \in ResponseConfig
  BY <1>1 DEF IsWorld
<1> QED
  BY <1>1, <1>2, <1>3 DEF IsWorld, ResponseConfig, Requests

LEMMA InvIsType ==
  ASSUME TypeInv
  PROVE  TypeOK
<1>1. IsWorld(world)
  BY WorldFacts DEF TypeInv
<1> QED
  BY <1>1 DEF TypeInv, CallsInv, CacheTypes, Sane, TypeOK

\* A step replaces one call.
LEMMA StepKeeps ==
  ASSUME WorldInv, CallsInv, NEW q \in Requests, NEW new \in Call, Sane(new), Step(q, new)
  PROVE  WorldInv' /\ CallsInv' /\ handle'[q] = new /\ \A r \in Requests \ {q} : handle'[r] = handle[r]
<1>1. /\ handle' = [handle EXCEPT ![q] = new]
      /\ world' = world /\ bases' = bases
  BY DEF Step
<1>2. Requests' = Requests
  BY <1>1 DEF Requests
<1>3. handle' \in [Requests -> Call]
  BY <1>1 DEF CallsInv
<1>4. handle'[q] = new /\ \A r \in Requests \ {q} : handle'[r] = handle[r]
  BY <1>1 DEF CallsInv
<1>5. \A r \in Requests : Sane(handle'[r])
  BY <1>4 DEF CallsInv
<1>6. \A r \in Requests' : Sane(handle[r])'
  BY <1>1, <1>2, <1>5 DEF Sane
<1> QED
  BY <1>1, <1>2, <1>3, <1>4, <1>6 DEF WorldInv, CallsInv

\* The calls that have failed.
LEMMA FailedType ==
  ASSUME NEW h \in Call, Sane(h), h.at # "validate"
  PROVE  /\ Failed(h) \in Call /\ Sane(Failed(h))
         /\ FailedLate(h) \in Call /\ Sane(FailedLate(h))
<1> DEFINE a == [h.answer EXCEPT !.status = "failed"]
           b == [a EXCEPT !.Strategy = h.sr.Verbose]
<1>1. h.answer \in Answer /\ h.sr.Verbose \in BOOLEAN
  BY DEF Call, Submitted
<1>2. a \in Answer /\ a.status = "failed"
  BY <1>1 DEF Answer
<1>3. b \in Answer /\ b.status = "failed"
  BY <1>1, <1>2 DEF Answer
<1>4. Failed(h) = [h EXCEPT !.at = "done", !.log = {}, !.answer = a]
  BY DEF Failed, Call
<1> HIDE DEF a
<1>5. Failed(h) \in Call /\ Failed(h).answer = a
  BY <1>2, <1>4 DEF Call, Stages
<1>6. FailedLate(h) = [Failed(h) EXCEPT !.answer = b]
  BY <1>5 DEF FailedLate, Call
<1> HIDE DEF b
<1>7. FailedLate(h) \in Call
  BY <1>3, <1>5, <1>6 DEF Call
<1>8. Sane(Failed(h))
  BY <1>2, <1>4 DEF Call, Sane, Early
<1>9. Sane(FailedLate(h))
  BY <1>3, <1>5, <1>6, <1>8, <1>4 DEF Call, Sane, Early
<1> QED
  BY <1>5, <1>7, <1>8, <1>9

LEMMA ParseType ==
  ASSUME TypeInv, NEW q \in Requests, Parse(q)
  PROVE  TypeInv'
<1> DEFINE h == handle[q]
           leaf == Leaf(q)
           to == IF h.sr.DiscoverChain THEN "discover" ELSE "filter"
           sr == Requirements(h.sr, leaf)
           base == BaseOf(h.sr, leaf)
           new == [h EXCEPT !.at = to, !.sr = sr, !.base = base]
<1>1. h \in Call /\ Sane(h) /\ h.at = "parse"
  BY DEF Parse, TypeInv, CallsInv
<1>2. sr \in Submitted /\ base \in Contexts
  BY <1>1, RequirementsType DEF Call
<1>3. \/ Step(q, Failed(h))
      \/ Step(q, [Move(q, to) EXCEPT !.sr = Requirements(@, leaf), !.base = base])
  BY Zenon DEF Parse
<1>4. [Move(q, to) EXCEPT !.sr = Requirements(@, leaf), !.base = base] = new
  BY <1>1 DEF Move, Call
<1>5. Failed(h) \in Call /\ Sane(Failed(h))
  BY <1>1, FailedType
<1>6. to \in Early /\ to \in Stages /\ to \notin {"validate", "done"}
  BY DEF Early, Stages
<1>7. h.todo = {} /\ h.found = {} /\ h.log = {} /\ h.answer.status = "pending"
  BY <1>1 DEF Sane, Early
<1> HIDE DEF sr, base, to
<1>8. new \in Call
  BY <1>1, <1>2, <1>6 DEF Call
<1>9. Sane(new)
  BY <1>1, <1>6, <1>7 DEF Sane, Call
<1> HIDE DEF new, h
<1>10. WorldInv' /\ CallsInv'
  BY <1>3, <1>4, <1>5, <1>8, <1>9, StepKeeps DEF TypeInv
<1>11. world' = world /\ cache' = cache
  BY DEF Parse, Step
<1> QED
  BY <1>10, <1>11 DEF TypeInv, CacheTypes

LEMMA DiscoverType ==
  ASSUME TypeInv, NEW q \in Requests, Discover(q)
  PROVE  TypeInv'
<1> DEFINE h == handle[q]
           longer(p) == [h EXCEPT !.sr.Chain = Append(@, p)]
<1>1. h \in Call /\ Sane(h) /\ h.at = "discover"
  BY DEF Discover, TypeInv, CallsInv
<1>2. ASSUME NEW p \in Parents(h), Step(q, longer(p))
      PROVE  WorldInv' /\ CallsInv'
  <2> DEFINE chain == Append(h.sr.Chain, p)
             sr == [h.sr EXCEPT !.Chain = chain]
  <2>1. p \in Certs \cup {Garbage}
    BY WorldFacts DEF TypeInv, Parents, Certs
  <2>2. h.sr \in Submitted /\ h.sr.Chain \in Seq(Certs \cup {Garbage})
    BY <1>1 DEF Call, Submitted
  <2>3. chain \in Seq(Certs \cup {Garbage})
    BY <2>1, <2>2
  <2> HIDE DEF chain
  <2>4. sr \in Submitted
    BY <2>2, <2>3 DEF Submitted
  <2>5. longer(p) = [h EXCEPT !.sr = sr]
    BY <1>1 DEF Call, chain
  <2> HIDE DEF sr
  <2>6. longer(p) \in Call /\ Sane(longer(p))
    BY <1>1, <2>4, <2>5 DEF Call, Sane, Early
  <2> QED
    BY <1>2, <2>6, StepKeeps DEF TypeInv
<1>3. ASSUME Step(q, Move(q, "filter"))
      PROVE  WorldInv' /\ CallsInv'
  <2>1. Move(q, "filter") \in Call /\ Sane(Move(q, "filter"))
    BY <1>1 DEF Move, Call, Stages, Sane, Early
  <2> QED
    BY <1>3, <2>1, StepKeeps DEF TypeInv
<1>4. WorldInv' /\ CallsInv'
  BY <1>2, <1>3 DEF Discover
<1>5. world' = world /\ cache' = cache
  BY DEF Discover, Step
<1> QED
  BY <1>4, <1>5 DEF TypeInv, CacheTypes

LEMMA FilterType ==
  ASSUME TypeInv, NEW q \in Requests, Filter(q)
  PROVE  TypeInv'
<1> DEFINE h == handle[q]
           logs == {e \in bases[h.base] : Admissible(e, h.sr, Leaf(q))}
           new == [Move(q, "look up") EXCEPT !.todo = logs]
<1>1. h \in Call /\ Sane(h) /\ h.at = "filter"
  BY DEF Filter, TypeInv, CallsInv
<1>2. Step(q, Failed(h)) \/ Step(q, new)
  BY Zenon DEF Filter
<1>3. Failed(h) \in Call /\ Sane(Failed(h))
  BY <1>1, FailedType
<1>4. logs \in SUBSET Entries /\ logs \subseteq bases[h.base]
  BY <1>1, WorldFacts DEF TypeInv, Call
<1> HIDE DEF logs
<1>5. new \in Call
  BY <1>1, <1>4 DEF Move, Call, Stages
<1>6. Sane(new)
  BY <1>1, <1>4 DEF Move, Call, Sane, Early
<1>7. WorldInv' /\ CallsInv'
  BY <1>2, <1>3, <1>5, <1>6, StepKeeps DEF TypeInv
<1>8. world' = world /\ cache' = cache
  BY DEF Filter, Step
<1> QED
  BY <1>7, <1>8 DEF TypeInv, CacheTypes

LEMMA LookUpType ==
  ASSUME TypeInv, NEW q \in Requests, LookUp(q)
  PROVE  TypeInv'
<1> DEFINE h == handle[q]
<1>1. h \in Call /\ Sane(h) /\ h.at = "look up"
  BY DEF LookUp, TypeInv, CallsInv
<1>2. PICK e \in h.todo :
        \/ Step(q, [h EXCEPT !.todo = @ \ {e}, !.found = @ \cup {e}])
        \/ Step(q, [h EXCEPT !.todo = @ \ {e}])
        \/ /\ e.id \in DOMAIN world.accepted
           /\ Step(q, [h EXCEPT !.at = "validate", !.todo = @ \ {e}, !.log = {e}])
  <2>1. PICK e \in h.todo :
          \/ Step(q, [h EXCEPT !.todo = @ \ {e}, !.found = @ \cup {e}])
          \/ \E c \in Cached(e.id, h.sr.Chain) :
               Step(q, [h EXCEPT !.todo = @ \ {e}, !.found = IF c.valid THEN @ \cup {e} ELSE @])
          \/ /\ e.id \in DOMAIN world.accepted
             /\ Step(q, [h EXCEPT !.at = "validate", !.todo = @ \ {e}, !.log = {e}])
    BY Zenon DEF LookUp
  <2>2. ASSUME NEW v, ~v
        PROVE  [h EXCEPT !.todo = @ \ {e}, !.found = IF v THEN @ \cup {e} ELSE @]
                 = [h EXCEPT !.todo = @ \ {e}]
    BY <1>1, <2>2 DEF Call
  <2>3. ASSUME NEW v, v
        PROVE  [h EXCEPT !.todo = @ \ {e}, !.found = IF v THEN @ \cup {e} ELSE @]
                 = [h EXCEPT !.todo = @ \ {e}, !.found = @ \cup {e}]
    BY <1>1, <2>3 DEF Call
  <2> QED
    BY <2>1, <2>2, <2>3, Zenon
<1>3. /\ e \in Entries /\ e \in bases[h.base] /\ e \notin h.found
      /\ h.log = {} /\ h.answer.status = "pending"
  BY <1>1 DEF Call, Sane
<1>4. ASSUME NEW new, new = [h EXCEPT !.todo = @ \ {e}, !.found = @ \cup {e}]
      PROVE  new \in Call /\ Sane(new)
  BY <1>1, <1>3, <1>4 DEF Call, Sane, Early
<1>5. ASSUME NEW new, new = [h EXCEPT !.todo = @ \ {e}]
      PROVE  new \in Call /\ Sane(new)
  BY <1>1, <1>3, <1>5 DEF Call, Sane, Early
<1>6. ASSUME NEW new, new = [h EXCEPT !.at = "validate", !.todo = @ \ {e}, !.log = {e}],
             e.id \in DOMAIN world.accepted
      PROVE  new \in Call /\ Sane(new)
  <2>1. new \in Call
    BY <1>1, <1>3, <1>6 DEF Call, Stages
  <2>2. new.log = {e} /\ e \notin new.todo
    BY <1>1, <1>6 DEF Call
  <2>3. new.log \cup new.todo \subseteq bases[h.base] \ h.found
    BY <1>1, <1>3, <1>6 DEF Call, Sane
  <2> QED
    BY <1>1, <1>3, <1>6, <2>1, <2>2, <2>3 DEF Call, Sane, Early
<1> HIDE DEF h
<1>7. WorldInv' /\ CallsInv'
  BY <1>2, <1>4, <1>5, <1>6, StepKeeps DEF TypeInv
<1>8. world' = world /\ cache' = cache
  BY <1>2 DEF LookUp, Step
<1> QED
  BY <1>7, <1>8 DEF TypeInv, CacheTypes

LEMMA ValidateType ==
  ASSUME TypeInv, NEW q \in Requests, Validate(q)
  PROVE  TypeInv'
<1> DEFINE h == handle[q]
           chain == h.sr.Chain
<1>1. h \in Call /\ Sane(h) /\ h.at = "validate"
  BY DEF Validate, TypeInv, CallsInv
<1>2. PICK e \in h.log :
        /\ Step(q, [h EXCEPT !.at = "look up", !.log = {},
                             !.found = IF Valid(e.id, chain) THEN @ \cup {e} ELSE @])
        /\ cache' = IF Len(chain) > 1
                    THEN {c \in cache : c.log # e.id \/ c.cas # Tail(chain)}
                           \cup {[log |-> e.id, cas |-> Tail(chain), valid |-> Valid(e.id, chain)]}
                    ELSE cache
  BY Zenon DEF Validate
<1>3. /\ e \in Entries /\ e \in bases[h.base] /\ e \notin h.found /\ e \notin h.todo
      /\ e.id \in DOMAIN world.accepted /\ h.log = {e} /\ h.answer.status = "pending"
  BY <1>1 DEF Call, Sane
<1> DEFINE found == IF Valid(e.id, chain) THEN h.found \cup {e} ELSE h.found
           new == [h EXCEPT !.at = "look up", !.log = {}, !.found = found]
<1>4. found \subseteq h.found \cup {e}
  OBVIOUS
<1>5. Step(q, new)
  BY <1>2
<1> HIDE DEF found
<1>6. new \in Call
  BY <1>1, <1>3, <1>4 DEF Call, Stages
<1>7. Sane(new)
  BY <1>1, <1>3, <1>4 DEF Call, Sane, Early
<1>8. WorldInv' /\ CallsInv'
  BY <1>5, <1>6, <1>7, StepKeeps DEF TypeInv
<1>9. world' = world
  BY <1>5 DEF Step
<1>10. CacheTypes'
  <2> DEFINE v == Valid(e.id, chain)
             cas == Tail(chain)
             one == [log |-> e.id, cas |-> cas, valid |-> v]
  <2>1. v \in BOOLEAN
    BY Zenon DEF Valid
  <2>2. CASE ~(Len(chain) > 1)
    BY <1>2, <1>9, <2>2 DEF TypeInv, CacheTypes
  <2>3. CASE Len(chain) > 1
    <3>1. cache' = {c \in cache : c.log # e.id \/ c.cas # cas} \cup {one}
      BY <1>2, <2>3, Zenon
    <3> HIDE DEF v, cas
    <3>2. one.log = e.id /\ one.cas = cas /\ one.valid = v
      OBVIOUS
    <3> HIDE DEF one
    <3> QED
      BY <1>3, <1>9, <2>1, <3>1, <3>2 DEF TypeInv, CacheTypes
  <2> QED
    BY <2>2, <2>3
<1> QED
  BY <1>8, <1>10 DEF TypeInv

LEMMA CountType ==
  ASSUME TypeInv, NEW q \in Requests, Count(q)
  PROVE  TypeInv'
<1> DEFINE h == handle[q]
<1>1. h \in Call /\ Sane(h) /\ h.at = "look up"
  BY DEF Count, TypeInv, CallsInv
<1>2. Step(q, Failed(h)) \/ Step(q, Move(q, "issuer"))
  BY Zenon DEF Count
<1>3. Failed(h) \in Call /\ Sane(Failed(h))
  BY <1>1, FailedType
<1>4. Move(q, "issuer") \in Call /\ Sane(Move(q, "issuer"))
  BY <1>1 DEF Move, Call, Stages, Sane, Early
<1>5. WorldInv' /\ CallsInv'
  BY <1>2, <1>3, <1>4, StepKeeps DEF TypeInv
<1>6. world' = world /\ cache' = cache
  BY DEF Count, Step
<1> QED
  BY <1>5, <1>6 DEF TypeInv, CacheTypes

\* The issuer's key is a key, wherever it was found (handler.go:90-103).
LEMMA IssuerType ==
  ASSUME WorldInv, NEW chain \in Seq(Certs \cup {Garbage}),
         ~(Len(chain) > 1 /\ chain[2] = Garbage)
  PROVE  Issuer(chain) \in Keys \cup {NoKey}
<1>1. CASE Len(chain) > 1
  <2>1. chain[2] \in Certs
    BY <1>1
  <2> QED
    BY <1>1, <2>1, HandleAssumption DEF Issuer
<1>2. CASE ~(Len(chain) > 1)
  <2>1. ASSUME NEW c \in world.known, c.ski = Head(chain).aki
        PROVE  Head(chain).aki \in Keys
    BY <2>1, WorldFacts, HandleAssumption DEF Certs
  <2> QED
    BY <1>2, <2>1 DEF Issuer
<1> QED
  BY <1>1, <1>2

LEMMA LookUpIssuerType ==
  ASSUME TypeInv, NEW q \in Requests, LookUpIssuer(q)
  PROVE  TypeInv'
<1> DEFINE h == handle[q]
           chain == h.sr.Chain
           spki == Issuer(chain)
           new == [h EXCEPT !.at = "submit", !.spki = spki]
<1>1. h \in Call /\ Sane(h) /\ h.at = "issuer"
  BY DEF LookUpIssuer, TypeInv, CallsInv
<1>2. \/ Step(q, FailedLate(h))
      \/ /\ ~(Len(chain) > 1 /\ chain[2] = Garbage)
         /\ Step(q, [Move(q, "submit") EXCEPT !.spki = spki])
  BY Zenon DEF LookUpIssuer
<1>3. [Move(q, "submit") EXCEPT !.spki = spki] = new
  BY <1>1 DEF Move, Call
<1>4. FailedLate(h) \in Call /\ Sane(FailedLate(h))
  BY <1>1, FailedType
<1>5. ASSUME ~(Len(chain) > 1 /\ chain[2] = Garbage)
      PROVE  new \in Call /\ Sane(new)
  <2>1. chain \in Seq(Certs \cup {Garbage})
    BY <1>1 DEF Call, Submitted
  <2>2. spki \in Keys \cup {NoKey}
    BY <1>5, <2>1, IssuerType DEF TypeInv
  <2> HIDE DEF spki, chain
  <2> QED
    BY <1>1, <2>2 DEF Call, Stages, Sane, Early
<1> HIDE DEF h, new
<1>6. WorldInv' /\ CallsInv'
  BY <1>2, <1>3, <1>4, <1>5, StepKeeps DEF TypeInv
<1>7. world' = world /\ cache' = cache
  BY DEF LookUpIssuer, Step
<1> QED
  BY <1>6, <1>7 DEF TypeInv, CacheTypes

\* What submit() is given are names of logs that were found.
LEMMA EligibleType ==
  ASSUME NEW h
  PROVE  /\ Eligible(h) \subseteq Names(h.found)
         /\ DOMAIN Strategy(h) = Names(h.found)
<1>1. DOMAIN Strategy(h) = Names(h.found)
  BY DEF Strategy
<1> QED
  BY <1>1 DEF Eligible

LEMMA ResponseType ==
  ASSUME WorldInv, NEW h \in Call, NEW scts \in SUBSET Eligible(h)
  PROVE  /\ Response(h, scts) \in Answer
         /\ Response(h, scts).status = "granted" /\ Response(h, scts).scts = scts
<1> DEFINE precert == Head(h.sr.Chain).precert
           mimics == h.sr.Mimics /\ h.spki # NoKey
           list == precert /\ world.config.IncludeSCTList
           tbs == precert /\ world.config.ProduceFinalTBSCert
<1>1. scts \in SUBSET LogNames
  <2>1. h.found \in SUBSET Entries
    BY DEF Call
  <2>2. Names(h.found) \subseteq LogNames
    BY <2>1 DEF Names, Entries, Entry
  <2> QED
    BY <2>2, EligibleType
<1>2. mimics \in BOOLEAN /\ list \in BOOLEAN /\ tbs \in BOOLEAN
  OBVIOUS
<1>3. h.sr.Verbose \in BOOLEAN /\ world.config.IncludeLogResponses \in BOOLEAN
  BY WorldFacts DEF Call, Submitted
<1>4. Response(h, scts) =
        [status |-> "granted", scts |-> scts, mimics |-> mimics, Strategy |-> h.sr.Verbose,
         LogResponse |-> world.config.IncludeLogResponses, SCTList |-> list, FinalTBSCert |-> tbs]
  BY Zenon DEF Response
<1> HIDE DEF mimics, list, tbs
<1> QED
  BY <1>1, <1>2, <1>3, <1>4 DEF Answer

LEMMA SubmitType ==
  ASSUME TypeInv, NEW q \in Requests, Submit(q)
  PROVE  TypeInv'
<1> DEFINE h == handle[q]
           crashed == [h EXCEPT !.at = "done", !.answer.status = "crashed"]
           granted(scts) == [h EXCEPT !.at = "done", !.answer = Response(h, scts)]
<1>1. h \in Call /\ Sane(h) /\ h.at = "submit"
  BY DEF Submit, TypeInv, CallsInv
<1>2. \/ \E scts \in SUBSET Eligible(h) : Step(q, granted(scts))
      \/ Step(q, crashed)
      \/ Step(q, FailedLate(h))
  BY Zenon DEF Submit
<1>3. FailedLate(h) \in Call /\ Sane(FailedLate(h))
  BY <1>1, FailedType
<1>4. crashed \in Call /\ Sane(crashed)
  <2> DEFINE a == [h.answer EXCEPT !.status = "crashed"]
  <2>1. a \in Answer /\ a.status = "crashed"
    BY <1>1 DEF Call, Answer
  <2>2. crashed = [h EXCEPT !.at = "done", !.answer = a]
    BY <1>1 DEF Call
  <2> HIDE DEF a, crashed
  <2> QED
    BY <1>1, <2>1, <2>2 DEF Call, Stages, Sane, Early
<1>5. ASSUME NEW scts \in SUBSET Eligible(h)
      PROVE  granted(scts) \in Call /\ Sane(granted(scts))
  <2> DEFINE a == Response(h, scts)
  <2>1. a \in Answer /\ a.status = "granted"
    BY <1>1, ResponseType DEF TypeInv
  <2>2. granted(scts) = [h EXCEPT !.at = "done", !.answer = a]
    OBVIOUS
  <2> HIDE DEF a, granted
  <2> QED
    BY <1>1, <2>1, <2>2 DEF Call, Stages, Sane, Early
<1> HIDE DEF h, crashed, granted
<1>6. WorldInv' /\ CallsInv'
  BY <1>2, <1>3, <1>4, <1>5, StepKeeps DEF TypeInv
<1>7. world' = world /\ cache' = cache
  BY <1>2 DEF Submit, Step
<1> QED
  BY <1>6, <1>7 DEF TypeInv, CacheTypes

\* No requests, no calls; and at the start nothing has been looked up.
LEMMA InitType ==
  ASSUME Init
  PROVE  TypeInv
<1>1. WorldInv /\ cache = {}
  BY DEF Init, WorldInv
<1>2. NoAnswer \in Answer /\ NoAnswer.status = "pending"
  BY DEF NoAnswer, Answer
<1>3. ASSUME NEW q \in Requests
      PROVE  handle[q] \in Call /\ Sane(handle[q])
  <2>1. handle[q] = [at |-> "parse", sr |-> world.requests[q], base |-> "CrtshV3Active",
                     todo |-> {}, found |-> {}, log |-> {}, spki |-> NoKey, answer |-> NoAnswer]
    BY DEF Init
  <2>2. world.requests[q] \in Submitted
    BY <1>1, WorldFacts
  <2>3. handle[q] \in Call
    BY <1>2, <2>1, <2>2 DEF Call, Stages, Contexts
  <2> QED
    BY <1>2, <2>1, <2>3 DEF Sane, Early
<1>4. handle \in [Requests -> Call]
  BY <1>3 DEF Init
<1> QED
  BY <1>1, <1>3, <1>4 DEF TypeInv, CallsInv, CacheTypes

LEMMA NextType ==
  ASSUME TypeInv, [Next]_vars
  PROVE  TypeInv'
<1>1. ASSUME NEW q \in Requests,
             \/ Parse(q) \/ Discover(q) \/ Filter(q) \/ LookUp(q) \/ Validate(q) \/ Count(q)
             \/ LookUpIssuer(q) \/ Submit(q)
      PROVE  TypeInv'
  BY <1>1, ParseType, DiscoverType, FilterType, LookUpType, ValidateType, CountType,
     LookUpIssuerType, SubmitType
<1>2. CASE UNCHANGED vars
  BY <1>2 DEF vars, TypeInv, WorldInv, CallsInv, CacheTypes, Sane, Requests
<1> QED
  BY <1>1, <1>2 DEF Next, Over

\* A call of Handle is a call of Handle in every state: its request and locals have
\* their types, and its logs are of its base list (handler.go:20-154).
THEOREM TypeCorrect == Spec => []TypeOK
<1>1. Init => TypeInv
  BY InitType
<1>2. TypeInv /\ [Next]_vars => TypeInv'
  BY NextType
<1>3. TypeInv => TypeOK
  BY InvIsType
<1> QED
  BY <1>1, <1>2, <1>3, PTL DEF Spec

---------------------------------------------------------------------------
(***************************************************************************)
(* Steps.                                                                  *)
(***************************************************************************)

ActionOf(q) ==
  \/ Parse(q) \/ Discover(q) \/ Filter(q) \/ LookUp(q) \/ Validate(q) \/ Count(q)
  \/ LookUpIssuer(q) \/ Submit(q)

WithChain(sr, chain) == [sr EXCEPT !.Chain = chain]

LEMMA NextIsAction ==
  ASSUME [Next]_vars
  PROVE  (\E q \in Requests : ActionOf(q)) \/ UNCHANGED vars
BY Zenon DEF Next, Over, ActionOf

LEMMA StepIs ==
  ASSUME CallsInv, NEW q \in Requests, NEW new, Step(q, new)
  PROVE  /\ handle'[q] = new /\ \A r \in Requests \ {q} : handle'[r] = handle[r]
         /\ world' = world /\ bases' = bases /\ table' = table /\ Requests' = Requests
BY DEF Step, CallsInv, Requests

---------------------------------------------------------------------------
(***************************************************************************)
(* How a call goes on.                                                     *)
(***************************************************************************)

Unchanged(r) == handle'[r] = handle[r]

SameRequest(r) == handle'[r].sr = handle[r].sr /\ handle'[r].base = handle[r].base

Failing(r) ==
  /\ handle[r].at # "done" /\ handle'[r].at = "done" /\ handle'[r].answer.status = "failed"
  /\ SameRequest(r)

Parsing(r) ==
  /\ handle[r].at = "parse" /\ handle'[r].at \in {"discover", "filter"} /\ ~Unacceptable(r)
  /\ handle'[r].sr = Requirements(handle[r].sr, Leaf(r))
  /\ handle'[r].base = BaseOf(handle[r].sr, Leaf(r))

Discovering(r) ==
  /\ handle[r].at = "discover" /\ handle'[r].at = "discover"
  /\ handle'[r].base = handle[r].base
  /\ \E p \in Parents(handle[r]) :
       handle'[r].sr = [handle[r].sr EXCEPT !.Chain = Append(@, p)]

Proceeding(r) ==
  /\ handle[r].at \notin {"parse", "done"} /\ handle'[r].at \notin {"parse", "discover"}
  /\ handle'[r].at = "filter" => handle[r].at = "discover" /\ Parents(handle[r]) = {}
  /\ SameRequest(r)

LEMMA ActionCourse ==
  ASSUME TypeInv, NEW q \in Requests, ActionOf(q)
  PROVE  Failing(q) \/ Parsing(q) \/ Discovering(q) \/ Proceeding(q)
<1> DEFINE h == handle[q]
<1> USE StepIs DEF TypeInv, Failing, Proceeding, SameRequest
<1>1. h \in Call /\ CallsInv
  BY DEF CallsInv
<1>2. /\ Failed(h).at = "done" /\ Failed(h).answer.status = "failed"
      /\ Failed(h).sr = h.sr /\ Failed(h).base = h.base
      /\ FailedLate(h).at = "done" /\ FailedLate(h).answer.status = "failed"
      /\ FailedLate(h).sr = h.sr /\ FailedLate(h).base = h.base
  BY <1>1 DEF Failed, FailedLate, Call, Answer
<1>3. CASE Parse(q)
  <2> DEFINE to == IF h.sr.DiscoverChain THEN "discover" ELSE "filter"
             sr == Requirements(h.sr, Leaf(q))
             base == BaseOf(h.sr, Leaf(q))
             new == [Move(q, to) EXCEPT !.sr = Requirements(@, Leaf(q)), !.base = base]
  <2>1. h.at = "parse" /\ (Step(q, Failed(h)) \/ (~Unacceptable(q) /\ Step(q, new)))
    BY <1>3, Zenon DEF Parse
  <2>2. new = [h EXCEPT !.at = to, !.sr = sr, !.base = base]
    BY <1>1 DEF Move, Call
  <2> HIDE DEF sr, base
  <2>3. new.at \in {"discover", "filter"} /\ new.sr = sr /\ new.base = base
    BY <1>1, <2>2 DEF Call
  <2> HIDE DEF new, h
  <2>4. CASE Step(q, Failed(h))
    BY <1>1, <1>2, <2>1, <2>4 DEF h
  <2>5. CASE ~Unacceptable(q) /\ Step(q, new)
    BY <1>1, <2>1, <2>3, <2>5 DEF h, sr, base, Parsing
  <2> QED
    BY <2>1, <2>4, <2>5
<1>4. CASE Discover(q)
  <2>1. h.at = "discover"
    BY <1>4 DEF Discover
  <2>2. ASSUME NEW p \in Parents(h), Step(q, [h EXCEPT !.sr.Chain = Append(@, p)])
        PROVE  Discovering(q)
    <3> DEFINE sr == [h.sr EXCEPT !.Chain = Append(@, p)]
               new == [h EXCEPT !.sr.Chain = Append(@, p)]
    <3>1. new.at = h.at /\ new.base = h.base /\ new.sr = sr
      BY <1>1 DEF Call
    <3>2. handle'[q] = new
      BY <1>1, <2>2, Zenon
    <3> HIDE DEF new
    <3> QED
      BY <2>1, <2>2, <3>1, <3>2, Zenon DEF Discovering
  <2>3. ASSUME Parents(h) = {}, Step(q, Move(q, "filter"))
        PROVE  Proceeding(q)
    BY <1>1, <2>1, <2>3 DEF Move, Call
  <2> QED
    BY <1>4, <2>2, <2>3 DEF Discover
<1>5. CASE Filter(q)
  <2> DEFINE logs == {e \in bases[h.base] : Admissible(e, h.sr, Leaf(q))}
             new == [Move(q, "look up") EXCEPT !.todo = logs]
  <2>1. h.at = "filter" /\ (Step(q, Failed(h)) \/ Step(q, new))
    BY <1>5, Zenon DEF Filter
  <2>2. new.at = "look up" /\ new.sr = h.sr /\ new.base = h.base
    BY <1>1 DEF Move, Call
  <2> HIDE DEF new
  <2> QED
    BY <1>1, <1>2, <2>1, <2>2
<1>6. CASE LookUp(q)
  <2>1. h.at = "look up" /\ \E new : /\ Step(q, new)
                                     /\ new.at \in {"look up", "validate"}
                                     /\ new.sr = h.sr /\ new.base = h.base
    BY <1>1, <1>6 DEF LookUp, Call
  <2> QED
    BY <1>1, <2>1
<1>7. CASE Validate(q)
  <2>1. h.at = "validate" /\ \E new : /\ Step(q, new) /\ new.at = "look up"
                                      /\ new.sr = h.sr /\ new.base = h.base
    BY <1>1, <1>7 DEF Validate, Call
  <2> QED
    BY <1>1, <2>1
<1>8. CASE Count(q)
  <2>1. h.at = "look up" /\ (Step(q, Failed(h)) \/ Step(q, Move(q, "issuer")))
    BY <1>8, Zenon DEF Count
  <2>2. /\ Move(q, "issuer").at = "issuer" /\ Move(q, "issuer").sr = h.sr
        /\ Move(q, "issuer").base = h.base
    BY <1>1 DEF Move, Call
  <2> QED
    BY <1>1, <1>2, <2>1, <2>2
<1>9. CASE LookUpIssuer(q)
  <2> DEFINE spki == Issuer(h.sr.Chain)
             new == [Move(q, "submit") EXCEPT !.spki = spki]
  <2>1. h.at = "issuer" /\ (Step(q, FailedLate(h)) \/ Step(q, new))
    BY <1>9, Zenon DEF LookUpIssuer
  <2> HIDE DEF spki
  <2>2. new.at = "submit" /\ new.sr = h.sr /\ new.base = h.base
    BY <1>1 DEF Move, Call
  <2> HIDE DEF new
  <2> QED
    BY <1>1, <1>2, <2>1, <2>2
<1>10. CASE Submit(q)
  <2>1. h.at = "submit" /\ (\/ Step(q, FailedLate(h))
                            \/ \E new : /\ Step(q, new) /\ new.at = "done"
                                        /\ new.sr = h.sr /\ new.base = h.base)
    BY <1>1, <1>10 DEF Submit, Call
  <2> QED
    BY <1>1, <1>2, <2>1
<1> QED
  BY <1>3, <1>4, <1>5, <1>6, <1>7, <1>8, <1>9, <1>10 DEF ActionOf

LEMMA Frame ==
  ASSUME TypeInv, [Next]_vars
  PROVE  /\ world' = world /\ bases' = bases /\ table' = table /\ Requests' = Requests
         /\ TypeInv'
<1>1. CASE UNCHANGED vars
  BY <1>1, NextType DEF vars, Requests
<1>2. ASSUME NEW q \in Requests, ActionOf(q)
      PROVE  world' = world /\ bases' = bases /\ table' = table /\ Requests' = Requests
  <2>1. \E new : Step(q, new)
    BY <1>2 DEF ActionOf, Parse, Discover, Filter, LookUp, Validate, Count, LookUpIssuer, Submit
  <2> QED
    BY <2>1, StepIs DEF TypeInv
<1> QED
  BY <1>1, <1>2, NextType, NextIsAction

LEMMA Course ==
  ASSUME TypeInv, [Next]_vars, NEW r \in Requests
  PROVE  Unchanged(r) \/ Failing(r) \/ Parsing(r) \/ Discovering(r) \/ Proceeding(r)
<1>1. CASE UNCHANGED vars
  BY <1>1 DEF vars, Unchanged
<1>2. ASSUME NEW q \in Requests, ActionOf(q)
      PROVE  Unchanged(r) \/ Failing(r) \/ Parsing(r) \/ Discovering(r) \/ Proceeding(r)
  <2>1. \E new : Step(q, new)
    BY <1>2 DEF ActionOf, Parse, Discover, Filter, LookUp, Validate, Count, LookUpIssuer, Submit
  <2>2. \A s \in Requests \ {q} : handle'[s] = handle[s]
    BY <2>1, StepIs DEF TypeInv
  <2>3. Failing(q) \/ Parsing(q) \/ Discovering(q) \/ Proceeding(q)
    BY <1>2, ActionCourse
  <2> QED
    BY <2>2, <2>3 DEF Unchanged
<1> QED
  BY <1>1, <1>2, NextIsAction

---------------------------------------------------------------------------
(***************************************************************************)
(* What a call makes of its request.                                       *)
(***************************************************************************)

\* Unless the call has failed, the request has been parsed, and it stands as the policy
\* has raised it, but for the chain.
Asked(q) ==
  LET asked == world.requests[q]
      h     == handle[q]
  IN
  /\ h.at = "parse" => h.sr = asked
  /\ h.at # "parse" /\ h.answer.status # "failed" =>
       /\ asked.Chain # <<>> /\ Head(asked.Chain) # Garbage
       /\ h.sr = WithChain(Requirements(asked, Head(asked.Chain)), h.sr.Chain)
       /\ h.base = BaseOf(asked, Head(asked.Chain))

Extended(given, chain) ==
  /\ Len(given) <= Len(chain)
  /\ \A i \in 1..Len(given) : chain[i] = given[i]
  /\ \A i \in (Len(given) + 1)..Len(chain), j \in 1..Len(chain) : chain[i] = chain[j] => i = j

AskedInv ==
  \A q \in Requests : Asked(q) /\ Extended(world.requests[q].Chain, handle[q].sr.Chain)

\* A certificate that is not in the chain extends it.
LEMMA AppendExtends ==
  ASSUME NEW S, NEW given \in Seq(S), NEW chain \in Seq(S), NEW p \in S,
         p \notin ToSet(chain), Extended(given, chain)
  PROVE  Extended(given, Append(chain, p))
<1> DEFINE longer == Append(chain, p)
<1>1. /\ Len(longer) = Len(chain) + 1 /\ Len(chain) \in Nat /\ Len(given) \in Nat
      /\ longer[Len(chain) + 1] = p
      /\ \A i \in 1..Len(chain) : longer[i] = chain[i]
  OBVIOUS
<1>2. \A i \in 1..Len(chain) : chain[i] # p
  BY DEF ToSet
<1> HIDE DEF longer
<1>3. \A i \in 1..Len(longer) : i \in 1..Len(chain) \/ i = Len(chain) + 1
  BY <1>1
<1>4. /\ Len(given) <= Len(longer)
      /\ \A i \in 1..Len(given) : longer[i] = given[i]
  BY <1>1 DEF Extended
<1>5. ASSUME NEW i \in (Len(given) + 1)..Len(longer), NEW j \in 1..Len(longer),
             longer[i] = longer[j]
      PROVE  i = j
  <2>1. i \in 1..Len(longer)
    BY <1>1
  <2>2. CASE i = Len(chain) + 1 \/ j = Len(chain) + 1
    BY <1>1, <1>2, <1>3, <1>5, <2>1, <2>2
  <2>3. CASE i \in 1..Len(chain) /\ j \in 1..Len(chain)
    BY <1>1, <1>5, <2>3 DEF Extended
  <2> QED
    BY <1>3, <2>1, <2>2, <2>3
<1> QED
  BY <1>4, <1>5 DEF Extended, longer

LEMMA InitAsked ==
  ASSUME Init
  PROVE  AskedInv
<1> SUFFICES ASSUME NEW q \in Requests
             PROVE  Asked(q) /\ Extended(world.requests[q].Chain, handle[q].sr.Chain)
  BY DEF AskedInv
<1>1. handle[q].at = "parse" /\ handle[q].sr = world.requests[q]
  BY DEF Init
<1>2. world.requests[q].Chain \in Seq(Certs \cup {Garbage})
  BY InitType, WorldFacts DEF TypeInv, Submitted
<1> QED
  BY <1>1, <1>2 DEF Asked, Extended

LEMMA NextAsked ==
  ASSUME TypeInv, AskedInv, [Next]_vars
  PROVE  AskedInv'
<1> SUFFICES ASSUME NEW q \in Requests
             PROVE  Asked(q)' /\ Extended(world.requests[q].Chain, handle'[q].sr.Chain)
  BY Frame DEF AskedInv
<1> DEFINE asked == world.requests[q]
           h == handle[q]
           k == handle'[q]
<1>1. world' = world /\ h \in Call /\ k \in Call /\ asked \in Submitted /\ Sane(h)
  BY Frame, WorldFacts DEF TypeInv, CallsInv
<1>2. Asked(q) /\ Extended(asked.Chain, h.sr.Chain)
  BY DEF AskedInv
<1>3. h.at # "done" => h.answer.status # "failed"
  BY <1>1 DEF Sane
<1>4. CASE Unchanged(q)
  BY <1>1, <1>2, <1>4 DEF Unchanged, Asked
<1>5. CASE Failing(q)
  BY <1>1, <1>2, <1>5 DEF Failing, SameRequest, Asked
<1>6. CASE Proceeding(q)
  BY <1>1, <1>2, <1>3, <1>6 DEF Proceeding, SameRequest, Asked
<1>7. CASE Parsing(q)
  <2> DEFINE leaf == Head(asked.Chain)
             sr == Requirements(asked, leaf)
  <2>1. h.sr = asked /\ asked.Chain # <<>> /\ leaf # Garbage
    BY <1>2, <1>7 DEF Parsing, Asked, Unacceptable, Leaf
  <2>2. k.sr = sr /\ k.base = BaseOf(asked, leaf) /\ k.at # "parse"
    BY <1>7, <2>1 DEF Parsing, Leaf
  <2>3. sr \in Submitted /\ sr.Chain = asked.Chain
    <3>1. /\ sr \in Submitted
          /\ sr = [asked EXCEPT !.PreferAtLeastOneStaticSCT = sr.PreferAtLeastOneStaticSCT,
                                !.Operators = sr.Operators, !.SCTs = sr.SCTs]
      BY <1>1, RequirementsType, Zenon
    <3> HIDE DEF sr
    <3> QED
      BY <1>1, <3>1 DEF Submitted
  <2>4. sr = WithChain(sr, sr.Chain)
    BY <2>3 DEF Submitted, WithChain
  <2> HIDE DEF sr
  <2> QED
    BY <1>1, <1>2, <2>1, <2>2, <2>3, <2>4 DEF Asked, sr
<1>8. CASE Discovering(q)
  <2>1. PICK p \in Parents(h) : k.sr = [h.sr EXCEPT !.Chain = Append(@, p)]
    BY <1>8 DEF Discovering
  <2> DEFINE chain == Append(h.sr.Chain, p)
             sr == Requirements(asked, Head(asked.Chain))
  <2>2. /\ h.sr \in Submitted /\ h.sr.Chain \in Seq(Certs \cup {Garbage})
        /\ asked.Chain \in Seq(Certs \cup {Garbage})
        /\ p \in Certs \cup {Garbage} /\ p \notin ToSet(h.sr.Chain)
    BY <1>1, WorldFacts DEF TypeInv, Parents, Certs, Call, Submitted
  <2>3. Extended(asked.Chain, chain)
    BY <1>2, <2>2, AppendExtends
  <2>4. sr \in Submitted
    BY <1>1, RequirementsType
  <2> HIDE DEF chain, sr
  <2>5. k.sr = [h.sr EXCEPT !.Chain = chain] /\ k.sr.Chain = chain
    BY <2>1, <2>2 DEF Submitted, chain
  <2>6. ASSUME h.sr = WithChain(sr, h.sr.Chain)
        PROVE  k.sr = WithChain(sr, k.sr.Chain)
    BY <2>2, <2>4, <2>5, <2>6 DEF Submitted, WithChain
  <2> QED
    BY <1>1, <1>2, <1>3, <1>8, <2>3, <2>5, <2>6 DEF Asked, Discovering, sr
<1> QED
  BY <1>4, <1>5, <1>6, <1>7, <1>8, Course

---------------------------------------------------------------------------
(***************************************************************************)
(* What becomes of the logs that a call considers.                         *)
(***************************************************************************)

\* The logs of which a call does not know yet whether they are compatible.
Open(h) == h.todo \cup h.log

SameLogs(q) ==
  /\ Open(handle'[q]) = Open(handle[q]) /\ handle'[q].found = handle[q].found
  /\ handle'[q].at \in Late => handle[q].at \in Late

Filtering(q) ==
  LET h == handle[q] IN
  /\ h.at = "filter" /\ h.found = {} /\ handle'[q].found = {}
  /\ Open(handle'[q]) = {e \in bases[h.base] : Admissible(e, h.sr, Leaf(q))}
  /\ handle'[q].at = "look up" /\ ~(Production(h.sr) /\ Leaf(q).notAfter < Now)

\* A log is found, or not, as this call or another has validated its chain.
Judging(q) ==
  LET h == handle[q] IN
  /\ h.at \in Late /\ handle'[q].at = "look up"
  /\ \E e \in Open(h), v \in BOOLEAN :
       /\ Open(handle'[q]) = Open(h) \ {e}
       /\ handle'[q].found = IF v THEN h.found \cup {e} ELSE h.found
       /\ \/ e.id \notin DOMAIN world.accepted /\ v
          \/ e.id \in DOMAIN world.accepted /\ (v <=> Valid(e.id, h.sr.Chain))
          \/ /\ e.id \in DOMAIN world.accepted
             /\ \E c \in Cached(e.id, h.sr.Chain) : v <=> c.valid

LEMMA ActionLogs ==
  ASSUME TypeInv, NEW q \in Requests, ActionOf(q)
  PROVE  SameLogs(q) \/ Filtering(q) \/ Judging(q)
<1> DEFINE h == handle[q]
<1> USE StepIs DEF TypeInv
<1>1. h \in Call /\ CallsInv /\ Sane(h) /\ CacheTypes
  BY DEF CallsInv
<1>2. ASSUME h.at # "validate"
      PROVE  /\ Failed(h).todo = h.todo /\ Failed(h).log = h.log
             /\ Failed(h).found = h.found /\ Failed(h).at \notin Late
             /\ FailedLate(h).todo = h.todo /\ FailedLate(h).log = h.log
             /\ FailedLate(h).found = h.found /\ FailedLate(h).at \notin Late
  BY <1>1, <1>2 DEF Failed, FailedLate, Call, Answer, Sane, Late
<1>3. ASSUME NEW new, Step(q, new), new.todo = h.todo, new.log = h.log, new.found = h.found,
             new.at \in Late => h.at \in Late
      PROVE  SameLogs(q)
  BY <1>1, <1>3 DEF SameLogs, Open
<1>4. CASE Parse(q)
  <2> DEFINE to == IF h.sr.DiscoverChain THEN "discover" ELSE "filter"
             sr == Requirements(h.sr, Leaf(q))
             base == BaseOf(h.sr, Leaf(q))
             new == [Move(q, to) EXCEPT !.sr = Requirements(@, Leaf(q)), !.base = base]
  <2>1. h.at = "parse" /\ (Step(q, Failed(h)) \/ Step(q, new))
    BY <1>4, Zenon DEF Parse
  <2>2. new = [h EXCEPT !.at = to, !.sr = sr, !.base = base]
    BY <1>1 DEF Move, Call
  <2>3. to \notin Late
    BY DEF Late
  <2> HIDE DEF sr, base, to, new
  <2>4. new.at \notin Late /\ new.todo = h.todo /\ new.log = h.log /\ new.found = h.found
    BY <1>1, <2>2, <2>3 DEF Call
  <2>5. CASE Step(q, Failed(h))
    BY <1>2, <1>3, <2>1, <2>5
  <2>6. CASE Step(q, new)
    BY <1>3, <2>4, <2>6
  <2> QED
    BY <2>1, <2>5, <2>6
<1>5. CASE Discover(q)
  <2>1. h.at = "discover" /\ \E new : /\ Step(q, new) /\ new.at \notin Late
                                      /\ new.todo = h.todo /\ new.log = h.log
                                      /\ new.found = h.found
    BY <1>1, <1>5 DEF Discover, Move, Call, Late
  <2> QED
    BY <1>3, <2>1
<1>6. CASE Filter(q)
  <2> DEFINE logs == {e \in bases[h.base] : Admissible(e, h.sr, Leaf(q))}
             new == [Move(q, "look up") EXCEPT !.todo = logs]
             expired == Production(h.sr) /\ Leaf(q).notAfter < Now
  <2>1. h.at = "filter" /\ (Step(q, Failed(h)) \/ (~expired /\ Step(q, new)))
    BY <1>6, Zenon DEF Filter
  <2>2. h.found = {} /\ h.log = {}
    BY <1>1, <2>1 DEF Sane, Early
  <2> HIDE DEF logs, expired
  <2>3. new.at = "look up" /\ new.todo = logs /\ new.log = h.log /\ new.found = h.found
    BY <1>1 DEF Move, Call
  <2> HIDE DEF new
  <2>4. CASE Step(q, Failed(h))
    BY <1>2, <1>3, <2>1, <2>4
  <2>5. CASE ~expired /\ Step(q, new)
    <3>1. Open(handle'[q]) = logs /\ handle'[q].found = {} /\ handle'[q].at = "look up"
      BY <1>1, <2>2, <2>3, <2>5 DEF Open
    <3> QED
      BY <2>1, <2>2, <2>5, <3>1, Zenon DEF Filtering, logs, expired
  <2> QED
    BY <2>1, <2>4, <2>5
<1>7. CASE LookUp(q)
  <2>1. h.at = "look up" /\ h.log = {}
    BY <1>1, <1>7 DEF LookUp, Sane
  <2>2. PICK e \in h.todo :
          \/ /\ e.id \notin DOMAIN world.accepted
             /\ Step(q, [h EXCEPT !.todo = @ \ {e}, !.found = @ \cup {e}])
          \/ \E c \in Cached(e.id, h.sr.Chain) :
               Step(q, [h EXCEPT !.todo = @ \ {e}, !.found = IF c.valid THEN @ \cup {e} ELSE @])
          \/ Step(q, [h EXCEPT !.at = "validate", !.todo = @ \ {e}, !.log = {e}])
    BY <1>7, Zenon DEF LookUp
  <2>3. e \in Open(h) /\ h.at \in Late
    BY <2>1 DEF Open, Late
  <2>4. ASSUME NEW v \in BOOLEAN, NEW new, Step(q, new),
               new = [h EXCEPT !.todo = @ \ {e}, !.found = IF v THEN @ \cup {e} ELSE @]
        PROVE  /\ handle'[q].at = "look up" /\ Open(handle'[q]) = Open(h) \ {e}
               /\ handle'[q].found = IF v THEN h.found \cup {e} ELSE h.found
    <3>1. /\ new.at = "look up" /\ new.todo = h.todo \ {e} /\ new.log = {}
          /\ new.found = IF v THEN h.found \cup {e} ELSE h.found
      BY <1>1, <2>1, <2>4 DEF Call
    <3>2. handle'[q] = new
      BY <1>1, <2>4
    <3> QED
      BY <2>1, <3>1, <3>2 DEF Open
  <2>5. CASE /\ e.id \notin DOMAIN world.accepted
             /\ Step(q, [h EXCEPT !.todo = @ \ {e}, !.found = @ \cup {e}])
    <3>1. [h EXCEPT !.todo = @ \ {e}, !.found = @ \cup {e}]
            = [h EXCEPT !.todo = @ \ {e}, !.found = IF TRUE THEN @ \cup {e} ELSE @]
      OBVIOUS
    <3>2. /\ handle'[q].at = "look up" /\ Open(handle'[q]) = Open(h) \ {e}
          /\ handle'[q].found = IF TRUE THEN h.found \cup {e} ELSE h.found
      BY <2>4, <2>5, <3>1
    <3> QED
      BY <2>3, <2>5, <3>2, Zenon DEF Judging
  <2>6. ASSUME NEW c \in Cached(e.id, h.sr.Chain),
               Step(q, [h EXCEPT !.todo = @ \ {e}, !.found = IF c.valid THEN @ \cup {e} ELSE @])
        PROVE  Judging(q)
    <3>1. c.valid \in BOOLEAN /\ e.id \in DOMAIN world.accepted
      BY <1>1 DEF Cached, CacheTypes
    <3>2. /\ handle'[q].at = "look up" /\ Open(handle'[q]) = Open(h) \ {e}
          /\ handle'[q].found = IF c.valid THEN h.found \cup {e} ELSE h.found
      BY <2>4, <2>6, <3>1, Zenon
    <3> QED
      BY <2>3, <2>6, <3>1, <3>2, Zenon DEF Judging
  <2>7. CASE Step(q, [h EXCEPT !.at = "validate", !.todo = @ \ {e}, !.log = {e}])
    <3> DEFINE new == [h EXCEPT !.at = "validate", !.todo = @ \ {e}, !.log = {e}]
    <3>1. new.todo = h.todo \ {e} /\ new.log = {e} /\ new.found = h.found
      BY <1>1 DEF Call
    <3>2. handle'[q] = new
      BY <1>1, <2>7
    <3> HIDE DEF new
    <3> QED
      BY <2>1, <2>3, <3>1, <3>2 DEF SameLogs, Open
  <2> QED
    BY <2>2, <2>5, <2>6, <2>7
<1>8. CASE Validate(q)
  <2> DEFINE v(e) == Valid(e.id, h.sr.Chain)
             new(e) == [h EXCEPT !.at = "look up", !.log = {},
                                 !.found = IF v(e) THEN @ \cup {e} ELSE @]
  <2>1. h.at = "validate"
    BY <1>8 DEF Validate
  <2>2. PICK e \in h.log : Step(q, new(e))
    BY <1>8, Zenon DEF Validate
  <2>3. h.log = {e} /\ e \notin h.todo /\ e.id \in DOMAIN world.accepted
    BY <1>1, <2>1 DEF Sane
  <2>4. v(e) \in BOOLEAN
    BY Zenon DEF Valid
  <2>5. handle'[q] = new(e)
    BY <1>1, <2>2, Zenon
  <2>6. v(e) <=> Valid(e.id, h.sr.Chain)
    OBVIOUS
  <2> HIDE DEF v
  <2>7. /\ new(e).at = "look up" /\ new(e).log = {} /\ new(e).todo = h.todo
        /\ new(e).found = IF v(e) THEN h.found \cup {e} ELSE h.found
    BY <1>1 DEF Call
  <2> HIDE DEF new
  <2>8. Open(handle'[q]) = Open(h) \ {e} /\ e \in Open(h) /\ h.at \in Late
    BY <2>1, <2>3, <2>5, <2>7 DEF Open, Late
  <2> QED
    BY <2>3, <2>4, <2>5, <2>6, <2>7, <2>8, Zenon DEF Judging
<1>9. CASE Count(q)
  <2>1. h.at = "look up" /\ (Step(q, Failed(h)) \/ Step(q, Move(q, "issuer")))
    BY <1>9, Zenon DEF Count
  <2>2. /\ Move(q, "issuer").todo = h.todo /\ Move(q, "issuer").log = h.log
        /\ Move(q, "issuer").found = h.found /\ h.at \in Late
    BY <1>1, <2>1 DEF Move, Call, Late
  <2> QED
    BY <1>2, <1>3, <2>1, <2>2
<1>10. CASE LookUpIssuer(q)
  <2> DEFINE spki == Issuer(h.sr.Chain)
             new == [Move(q, "submit") EXCEPT !.spki = spki]
  <2>1. h.at = "issuer" /\ (Step(q, FailedLate(h)) \/ Step(q, new))
    BY <1>10, Zenon DEF LookUpIssuer
  <2> HIDE DEF spki
  <2>2. new.todo = h.todo /\ new.log = h.log /\ new.found = h.found /\ h.at \in Late
    BY <1>1, <2>1 DEF Move, Call, Late
  <2> HIDE DEF new
  <2> QED
    BY <1>2, <1>3, <2>1, <2>2
<1>11. CASE Submit(q)
  <2>1. h.at = "submit" /\ (\/ Step(q, FailedLate(h))
                            \/ \E new : /\ Step(q, new)
                                        /\ new.todo = h.todo /\ new.log = h.log
                                        /\ new.found = h.found)
    BY <1>1, <1>11 DEF Submit, Call
  <2>2. h.at \in Late
    BY <2>1 DEF Late
  <2> QED
    BY <1>2, <1>3, <2>1, <2>2
<1> QED
  BY <1>4, <1>5, <1>6, <1>7, <1>8, <1>9, <1>10, <1>11 DEF ActionOf

---------------------------------------------------------------------------
(***************************************************************************)
(* Every log that is found is admissible.                                  *)
(***************************************************************************)

Expired(h) == Production(h.sr) /\ Head(h.sr.Chain).notAfter < Now

Admitted(h) ==
  /\ \A e \in Open(h) \cup h.found : Admissible(e, h.sr, Head(h.sr.Chain))
  /\ h.at \in Late => ~Expired(h)

AdmittedInv == \A q \in Requests : Admitted(handle[q])

\* Logs are considered only once the request stands.
LEMMA SameRequestLater ==
  ASSUME TypeInv, [Next]_vars, NEW q \in Requests, handle[q].at \notin {"parse", "discover"}
  PROVE  SameRequest(q) /\ handle'[q].at \notin {"parse", "discover"}
BY Course DEF Unchanged, Failing, Parsing, Discovering, Proceeding, SameRequest

LEMMA OtherLogs ==
  ASSUME TypeInv, [Next]_vars, NEW q \in Requests
  PROVE  SameLogs(q) \/ Filtering(q) \/ Judging(q)
<1>1. CASE UNCHANGED vars
  BY <1>1 DEF vars, SameLogs
<1>2. ASSUME NEW r \in Requests, ActionOf(r)
      PROVE  SameLogs(q) \/ Filtering(q) \/ Judging(q)
  <2>1. \E new : Step(r, new)
    BY <1>2 DEF ActionOf, Parse, Discover, Filter, LookUp, Validate, Count, LookUpIssuer, Submit
  <2>2. q # r => handle'[q] = handle[q]
    BY <2>1, StepIs DEF TypeInv
  <2> QED
    BY <1>2, <2>2, ActionLogs DEF SameLogs
<1> QED
  BY <1>1, <1>2, NextIsAction

LEMMA InitAdmitted ==
  ASSUME Init
  PROVE  AdmittedInv
BY DEF Init, AdmittedInv, Admitted, Open, Late

LEMMA NextAdmitted ==
  ASSUME TypeInv, AdmittedInv, [Next]_vars
  PROVE  AdmittedInv'
<1> SUFFICES ASSUME NEW q \in Requests
             PROVE  Admitted(handle[q])'
  BY Frame DEF AdmittedInv
<1> DEFINE h == handle[q]
           k == handle'[q]
<1>1. /\ Admitted(h) /\ Sane(h) /\ h \in Call /\ world' = world
  BY Frame DEF AdmittedInv, TypeInv, CallsInv
<1>2. CASE h.at \in {"parse", "discover"}
  <2>1. h.at \notin Late /\ h.at # "look up" /\ Open(h) = {} /\ h.found = {}
    BY <1>1, <1>2 DEF Late, Early, Sane, Open
  <2>2. SameLogs(q) \/ Filtering(q)
    BY <2>1, OtherLogs DEF Judging
  <2>3. ~Filtering(q)
    BY <1>2 DEF Filtering
  <2> QED
    BY <2>1, <2>2, <2>3 DEF SameLogs, Admitted
<1>3. CASE h.at \notin {"parse", "discover"}
  <2>1. k.sr = h.sr
    BY <1>3, SameRequestLater DEF SameRequest
  <2>2. CASE SameLogs(q)
    BY <1>1, <2>1, <2>2 DEF SameLogs, Admitted, Expired
  <2>3. CASE Filtering(q)
    BY <2>1, <2>3 DEF Filtering, Admitted, Expired, Leaf
  <2>4. CASE Judging(q)
    <3>1. Open(k) \cup k.found \subseteq Open(h) \cup h.found /\ h.at \in Late
      BY <2>4 DEF Judging
    <3> QED
      BY <1>1, <2>1, <3>1 DEF Admitted, Expired
  <2> QED
    BY <2>2, <2>3, <2>4, OtherLogs
<1> QED
  BY <1>2, <1>3

---------------------------------------------------------------------------
(***************************************************************************)
(* The cache.                                                              *)
(***************************************************************************)

Chains == Seq(Certs \cup {Garbage})

\* Chains that differ in nothing but a leaf that fits have the same verdict.
LEMMA SharedVerdict ==
  ASSUME NEW l, NEW c1 \in Chains, NEW c2 \in Chains, SameCAs(c1, c2), LeafFits(c2),
         c2[1] # Garbage, Valid(l, c1)
  PROVE  Valid(l, c2)
<1> DEFINE n == Len(c1)
<1>1. n \in Nat /\ n > 1 /\ Len(c2) = n /\ \A i \in 2..n : c1[i] = c2[i]
  <2>1. /\ Len(c1) \in Nat /\ Len(c2) \in Nat /\ Len(c1) > 1 /\ Len(c2) > 1
        /\ Tail(c1) = Tail(c2)
    BY DEF SameCAs, Chains
  <2>2. /\ Len(Tail(c1)) = Len(c1) - 1 /\ Len(Tail(c2)) = Len(c2) - 1
        /\ \A i \in 1..(Len(c1) - 1) : Tail(c1)[i] = c1[i + 1]
        /\ \A i \in 1..(Len(c2) - 1) : Tail(c2)[i] = c2[i + 1]
    BY <2>1 DEF Chains
  <2>3. Len(c1) = Len(c2)
    BY <2>1, <2>2
  <2>4. ASSUME NEW i \in 2..n PROVE c1[i] = c2[i]
    <3>1. i - 1 \in 1..(n - 1) /\ (i - 1) + 1 = i
      BY <2>1
    <3> QED
      BY <2>1, <2>2, <2>3, <3>1
  <2> QED
    BY <2>1, <2>3, <2>4
<1>2. Garbage \notin ToSet(c1)
  BY DEF Valid
<1>3. \A i \in 1..n : c2[i] # Garbage
  <2>1. \A i \in 1..n : c1[i] # Garbage
    BY <1>2 DEF ToSet
  <2>2. \A i \in 1..n : i = 1 \/ i \in 2..n
    BY <1>1
  <2> QED
    BY <1>1, <2>1, <2>2
<1>4. Garbage \notin ToSet(c2)
  BY <1>1, <1>3 DEF ToSet
<1>5. \A i \in 1..(n - 1) : c2[i].signer = c2[i + 1].ski
  <2>1. \A i \in 1..(n - 1) : c1[i].signer = c1[i + 1].ski
    BY DEF Valid
  <2>2. c2[1].signer = c2[2].ski
    BY <1>1, <1>3 DEF LeafFits
  <2>3. ASSUME NEW i \in 1..(n - 1), i # 1 PROVE c2[i].signer = c2[i + 1].ski
    <3>1. i \in 2..n /\ i + 1 \in 2..n
      BY <1>1, <2>3
    <3> QED
      BY <1>1, <2>1, <3>1
  <2> QED
    BY <2>2, <2>3
<1>6. \A i, j \in 2..n : c2[i].ski = c2[j].ski => i = j
  BY <1>1 DEF Valid
<1>7. Last(c1) = c1[n] /\ Last(c2) = c1[n]
  BY <1>1 DEF Last
<1>8. \/ Len(c2) > 1 /\ Last(c2) \in world.accepted[l]
      \/ \E r \in world.accepted[l] :
           r.ski = Last(c2).signer /\ \A i \in 2..Len(c2) : r.ski # c2[i].ski
  <2>1. \/ Len(c1) > 1 /\ Last(c1) \in world.accepted[l]
        \/ \E r \in world.accepted[l] :
             r.ski = Last(c1).signer /\ \A i \in 2..n : r.ski # c1[i].ski
    BY Zenon DEF Valid
  <2> QED
    BY <1>1, <1>7, <2>1
<1> QED
  BY <1>1, <1>4, <1>5, <1>6, <1>8 DEF Valid

\* A call whose chain is complete, and begins with a leaf.
Judged(r) ==
  LET chain == handle[r].sr.Chain IN
  handle[r].at \notin {"parse", "discover"} /\ chain # <<>> /\ Head(chain) # Garbage

\* Whether a log validates the chain of q was found out for q, or for another request
\* that has the same CA certificates.
JudgedFor(q, id, verdict) ==
  \E r \in Requests :
    /\ Judged(r)
    /\ r = q \/ SameCAs(handle[r].sr.Chain, handle[q].sr.Chain)
    /\ verdict <=> Valid(id, handle[r].sr.Chain)

CacheInv ==
  \A c \in cache : \E r \in Requests :
    /\ Judged(r) /\ Len(handle[r].sr.Chain) > 1 /\ Tail(handle[r].sr.Chain) = c.cas
    /\ c.valid <=> Valid(c.log, handle[r].sr.Chain)

\* A log is found if nothing is known of its roots, or else by a verdict.
Decided(q) ==
  LET h == handle[q] IN
  h.at \in Late =>
    \A e \in bases[h.base] :
      Admissible(e, h.sr, Leaf(q)) /\ e \notin Open(h) =>
        /\ e.id \notin DOMAIN world.accepted => e \in h.found
        /\ e.id \in DOMAIN world.accepted => JudgedFor(q, e.id, e \in h.found)

VerdictInv == CacheInv /\ \A q \in Requests : Decided(q)

LEMMA JudgedLater ==
  ASSUME TypeInv, [Next]_vars, NEW r \in Requests, Judged(r)
  PROVE  Judged(r)' /\ handle'[r].sr.Chain = handle[r].sr.Chain
BY SameRequestLater DEF Judged, SameRequest

LEMMA HeadStays ==
  ASSUME NEW given \in Chains, NEW chain \in Chains, given # <<>>, Extended(given, chain)
  PROVE  chain # <<>> /\ Head(chain) = Head(given)
<1>1. Len(given) > 0
  BY DEF Chains
<1>2. 1 \in 1..Len(given) /\ Len(chain) > 0
  BY <1>1 DEF Extended, Chains
<1>3. chain[1] = given[1]
  BY <1>2 DEF Extended
<1> QED
  BY <1>1, <1>2, <1>3 DEF Chains

LEMMA LateIsJudged ==
  ASSUME TypeInv, AskedInv, NEW q \in Requests, handle[q].at \in Late
  PROVE  Judged(q)
<1> DEFINE asked == world.requests[q].Chain
           chain == handle[q].sr.Chain
<1>1. /\ handle[q] \in Call /\ Sane(handle[q]) /\ Asked(q) /\ Extended(asked, chain)
      /\ asked \in Chains /\ chain \in Chains
  BY WorldFacts DEF TypeInv, CallsInv, AskedInv, Call, Submitted, Chains
<1>2. handle[q].at \notin {"parse", "discover", "done"}
  BY DEF Late
<1>3. asked # <<>> /\ Head(asked) # Garbage
  BY <1>1, <1>2 DEF Sane, Asked
<1>4. chain # <<>> /\ Head(chain) = Head(asked)
  BY <1>1, <1>3, HeadStays
<1> QED
  BY <1>2, <1>3, <1>4 DEF Judged

LEMMA CacheStep ==
  ASSUME [Next]_vars
  PROVE  \/ cache' = cache
         \/ \E q \in Requests : \E id :
              LET chain == handle[q].sr.Chain IN
              /\ handle[q].at = "validate" /\ Len(chain) > 1
              /\ cache' \subseteq
                   cache \cup {[log |-> id, cas |-> Tail(chain), valid |-> Valid(id, chain)]}
<1>1. CASE UNCHANGED vars
  BY <1>1 DEF vars
<1>2. ASSUME NEW q \in Requests, ActionOf(q), ~Validate(q)
      PROVE  cache' = cache
  BY <1>2 DEF ActionOf, Parse, Discover, Filter, LookUp, Count, LookUpIssuer, Submit
<1>3. ASSUME NEW q \in Requests, Validate(q)
      PROVE  \/ cache' = cache
             \/ \E id :
                  LET chain == handle[q].sr.Chain IN
                  /\ handle[q].at = "validate" /\ Len(chain) > 1
                  /\ cache' \subseteq
                       cache \cup {[log |-> id, cas |-> Tail(chain), valid |-> Valid(id, chain)]}
  <2> DEFINE chain == handle[q].sr.Chain
             one(id) == [log |-> id, cas |-> Tail(chain), valid |-> Valid(id, chain)]
  <2>1. PICK e \in handle[q].log :
          cache' = IF Len(chain) > 1
                   THEN {c \in cache : c.log # e.id \/ c.cas # Tail(chain)} \cup {one(e.id)}
                   ELSE cache
    BY <1>3, Zenon DEF Validate
  <2>2. handle[q].at = "validate"
    BY <1>3 DEF Validate
  <2>3. CASE Len(chain) > 1
    <3> HIDE DEF one
    <3>1. cache' \subseteq cache \cup {one(e.id)}
      BY <2>1, <2>3
    <3> QED
      BY <2>2, <2>3, <3>1, Zenon DEF one
  <2>4. CASE ~(Len(chain) > 1)
    BY <2>1, <2>4, Zenon
  <2> QED
    BY <2>3, <2>4
<1> QED
  BY <1>1, <1>2, <1>3, NextIsAction, Zenon

LEMMA NextCache ==
  ASSUME TypeInv, AskedInv, CacheInv, [Next]_vars
  PROVE  CacheInv'
<1>0. world' = world /\ Requests' = Requests
  BY Frame
<1>1. ASSUME NEW r \in Requests, NEW c, Judged(r), Len(handle[r].sr.Chain) > 1,
             Tail(handle[r].sr.Chain) = c.cas, c.valid <=> Valid(c.log, handle[r].sr.Chain)
      PROVE  \E s \in Requests' :
               /\ Judged(s)' /\ Len(handle'[s].sr.Chain) > 1 /\ Tail(handle'[s].sr.Chain) = c.cas
               /\ c.valid <=> Valid(c.log, handle[s].sr.Chain)'
  <2>1. Judged(r)' /\ handle'[r].sr.Chain = handle[r].sr.Chain
    BY <1>1, JudgedLater
  <2> DEFINE chain == handle[r].sr.Chain
  <2>2. Valid(c.log, chain)' <=> Valid(c.log, chain)
    <3>1. chain' = chain /\ world' = world
      BY <1>0, <2>1
    <3> HIDE DEF chain
    <3> QED
      BY <3>1 DEF Valid
  <2> QED
    BY <1>0, <1>1, <2>1, <2>2, Zenon
<1>2. ASSUME NEW c \in cache
      PROVE  \E s \in Requests' :
               /\ Judged(s)' /\ Len(handle'[s].sr.Chain) > 1 /\ Tail(handle'[s].sr.Chain) = c.cas
               /\ c.valid <=> Valid(c.log, handle[s].sr.Chain)'
  <2>1. PICK r \in Requests :
          /\ Judged(r) /\ Len(handle[r].sr.Chain) > 1 /\ Tail(handle[r].sr.Chain) = c.cas
          /\ c.valid <=> Valid(c.log, handle[r].sr.Chain)
    BY Zenon DEF CacheInv
  <2> QED
    BY <1>1, <2>1, Zenon
<1>3. ASSUME NEW q \in Requests, NEW id, handle[q].at = "validate", Len(handle[q].sr.Chain) > 1,
             NEW c, c = [log |-> id, cas |-> Tail(handle[q].sr.Chain),
                         valid |-> Valid(id, handle[q].sr.Chain)]
      PROVE  \E s \in Requests' :
               /\ Judged(s)' /\ Len(handle'[s].sr.Chain) > 1 /\ Tail(handle'[s].sr.Chain) = c.cas
               /\ c.valid <=> Valid(c.log, handle[s].sr.Chain)'
  <2> DEFINE v == Valid(id, handle[q].sr.Chain)
             cas == Tail(handle[q].sr.Chain)
  <2>1. Judged(q)
    BY <1>3, LateIsJudged DEF Late
  <2>2. c.log = id /\ c.cas = cas /\ c.valid = v
    <3> HIDE DEF v, cas
    <3> QED
      BY <1>3 DEF v, cas
  <2> QED
    BY <1>1, <1>3, <2>1, <2>2, Zenon
<1>4. ASSUME NEW c \in cache'
      PROVE  \E s \in Requests' :
               /\ Judged(s)' /\ Len(handle'[s].sr.Chain) > 1 /\ Tail(handle'[s].sr.Chain) = c.cas
               /\ c.valid <=> Valid(c.log, handle[s].sr.Chain)'
  <2>1. CASE c \in cache
    BY <1>2, <2>1
  <2>2. CASE c \notin cache
    <3>0. PICK q \in Requests : \E id :
             LET chain == handle[q].sr.Chain IN
              /\ handle[q].at = "validate" /\ Len(chain) > 1
              /\ cache' \subseteq
                   cache \cup {[log |-> id, cas |-> Tail(chain), valid |-> Valid(id, chain)]}
      BY <1>4, <2>2, CacheStep, Zenon
    <3>1. PICK id :
             LET chain == handle[q].sr.Chain IN
              /\ handle[q].at = "validate" /\ Len(chain) > 1
              /\ cache' \subseteq
                   cache \cup {[log |-> id, cas |-> Tail(chain), valid |-> Valid(id, chain)]}
      BY <3>0, Zenon
    <3>2. c = [log |-> id, cas |-> Tail(handle[q].sr.Chain),
               valid |-> Valid(id, handle[q].sr.Chain)]
      BY <1>4, <2>2, <3>1, Zenon
    <3> QED
      BY <1>3, <3>1, <3>2, Zenon
  <2> QED
    BY <2>1, <2>2
<1> QED
  BY <1>4, Zenon DEF CacheInv

LEMMA JudgedForLater ==
  ASSUME TypeInv, [Next]_vars, NEW q \in Requests, handle[q].at \notin {"parse", "discover"},
         NEW id, NEW verdict, JudgedFor(q, id, verdict)
  PROVE  JudgedFor(q, id, verdict)'
<1>0. world' = world /\ Requests' = Requests
  BY Frame
<1>1. PICK r \in Requests :
        /\ Judged(r)
        /\ r = q \/ SameCAs(handle[r].sr.Chain, handle[q].sr.Chain)
        /\ verdict <=> Valid(id, handle[r].sr.Chain)
  BY Zenon DEF JudgedFor
<1> DEFINE chain == handle[r].sr.Chain
           own == handle[q].sr.Chain
<1>2. Judged(r)' /\ chain' = chain
  BY <1>1, JudgedLater
<1>3. own' = own
  BY SameRequestLater DEF SameRequest
<1>4. Valid(id, chain)' <=> Valid(id, chain)
  <2> HIDE DEF chain
  <2> QED
    BY <1>0, <1>2 DEF Valid
<1>5. SameCAs(chain, own)' <=> SameCAs(chain, own)
  <2> HIDE DEF chain, own
  <2> QED
    BY <1>2, <1>3 DEF SameCAs
<1> QED
  BY <1>0, <1>1, <1>2, <1>4, <1>5, Zenon DEF JudgedFor

LEMMA NextDecided ==
  ASSUME TypeInv, AskedInv, VerdictInv, [Next]_vars, NEW q \in Requests
  PROVE  Decided(q)'
<1> DEFINE h == handle[q]
           k == handle'[q]
<1>1. /\ world' = world /\ bases' = bases
      /\ h \in Call /\ Sane(h) /\ Decided(q) /\ CacheInv
  BY Frame DEF TypeInv, CallsInv, VerdictInv
<1>2. ASSUME k.at \in Late, NEW e \in bases[h.base],
             Admissible(e, h.sr, Leaf(q)), e \notin Open(k)
      PROVE  \E v \in BOOLEAN :
               /\ v <=> e \in k.found
               /\ e.id \notin DOMAIN world.accepted => v
               /\ e.id \in DOMAIN world.accepted => JudgedFor(q, e.id, v)
  <2>1. CASE SameLogs(q)
    <3>1. /\ h.at \in Late /\ e \notin Open(h)
          /\ e \in k.found <=> e \in h.found
      BY <1>2, <2>1 DEF SameLogs
    <3>2. /\ e.id \notin DOMAIN world.accepted => e \in h.found
          /\ e.id \in DOMAIN world.accepted => JudgedFor(q, e.id, e \in h.found)
      BY <1>1, <1>2, <3>1 DEF Decided
    <3> DEFINE v == e \in h.found
    <3>3. v \in BOOLEAN
      OBVIOUS
    <3> QED
      BY <3>1, <3>2, <3>3, Zenon
  <2>2. CASE Filtering(q)
    BY <1>2, <2>2 DEF Filtering
  <2>3. CASE Judging(q)
    <3>1. PICK d \in Open(h), v \in BOOLEAN :
            /\ Open(k) = Open(h) \ {d}
            /\ k.found = IF v THEN h.found \cup {d} ELSE h.found
            /\ \/ d.id \notin DOMAIN world.accepted /\ v
               \/ d.id \in DOMAIN world.accepted /\ (v <=> Valid(d.id, h.sr.Chain))
               \/ /\ d.id \in DOMAIN world.accepted
                  /\ \E c \in Cached(d.id, h.sr.Chain) : v <=> c.valid
      BY <2>3, Zenon DEF Judging
    <3>2. h.at \in Late /\ d \notin h.found
      BY <1>1, <2>3 DEF Judging, Open, Sane
    <3>3. CASE e # d
      <4>1. e \notin Open(h) /\ (e \in k.found <=> e \in h.found)
        BY <1>2, <3>1, <3>3
      <4>2. /\ e.id \notin DOMAIN world.accepted => e \in h.found
            /\ e.id \in DOMAIN world.accepted => JudgedFor(q, e.id, e \in h.found)
        BY <1>1, <1>2, <3>2, <4>1 DEF Decided
      <4> DEFINE w == e \in h.found
      <4>3. w \in BOOLEAN
        OBVIOUS
      <4> QED
        BY <4>1, <4>2, <4>3, Zenon
    <3>4. CASE e = d
      <4>1. v <=> e \in k.found
        BY <3>1, <3>2, <3>4
      <4>2. CASE d.id \notin DOMAIN world.accepted /\ v
        BY <3>4, <4>1, <4>2
      <4>3. CASE d.id \in DOMAIN world.accepted /\ (v <=> Valid(d.id, h.sr.Chain))
        <5>1. Judged(q)
          BY <3>2, LateIsJudged
        <5>2. JudgedFor(q, d.id, v)
          BY <4>3, <5>1, Zenon DEF JudgedFor
        <5> QED
          BY <3>4, <4>1, <4>3, <5>2, Zenon
      <4>4. ASSUME d.id \in DOMAIN world.accepted,
                   NEW c \in Cached(d.id, h.sr.Chain), v <=> c.valid
            PROVE  JudgedFor(q, d.id, v)
        <5>1. c \in cache /\ Len(h.sr.Chain) > 1 /\ c.log = d.id /\ c.cas = Tail(h.sr.Chain)
          BY <4>4 DEF Cached
        <5>2. PICK r \in Requests :
                /\ Judged(r) /\ Len(handle[r].sr.Chain) > 1
                /\ Tail(handle[r].sr.Chain) = c.cas
                /\ c.valid <=> Valid(c.log, handle[r].sr.Chain)
          BY <1>1, <5>1, Zenon DEF CacheInv
        <5>3. SameCAs(handle[r].sr.Chain, handle[q].sr.Chain)
          BY <5>1, <5>2 DEF SameCAs
        <5>4. v <=> Valid(d.id, handle[r].sr.Chain)
          BY <4>4, <5>1, <5>2, Zenon
        <5> QED
          BY <5>2, <5>3, <5>4, Zenon DEF JudgedFor
      <4> QED
        BY <3>1, <3>4, <4>1, <4>2, <4>3, <4>4, Zenon
    <3> QED
      BY <3>3, <3>4
  <2> QED
    BY <2>1, <2>2, <2>3, OtherLogs
<1>3. ASSUME k.at \in Late
      PROVE  h.at \notin {"parse", "discover"} /\ k.sr = h.sr /\ k.base = h.base
  <2>1. h.at \notin {"parse", "discover"}
    BY <1>3, OtherLogs DEF SameLogs, Filtering, Judging, Late
  <2> QED
    BY <2>1, SameRequestLater DEF SameRequest
<1>4. ASSUME k.at \in Late, NEW e \in bases[h.base],
             Admissible(e, h.sr, Leaf(q)), e \notin Open(k)
      PROVE  /\ e.id \notin DOMAIN world.accepted => e \in k.found
             /\ e.id \in DOMAIN world.accepted => JudgedFor(q, e.id, e \in handle[q].found)'
  <2>1. PICK v \in BOOLEAN :
          /\ v <=> e \in k.found
          /\ e.id \notin DOMAIN world.accepted => v
          /\ e.id \in DOMAIN world.accepted => JudgedFor(q, e.id, v)
    BY <1>2, <1>4, Zenon
  <2>2. JudgedFor(q, e.id, v) => JudgedFor(q, e.id, v)'
    BY <1>3, <1>4, JudgedForLater
  <2>3. JudgedFor(q, e.id, v)' => JudgedFor(q, e.id, e \in handle[q].found)'
    BY <2>1, Zenon DEF JudgedFor
  <2> QED
    BY <2>1, <2>2, <2>3, Zenon
<1> QED
  <2>1. Leaf(q)' = Leaf(q) \/ k.sr # h.sr
    BY DEF Leaf
  <2> QED
    BY <1>1, <1>3, <1>4, <2>1 DEF Decided, Leaf

LEMMA VerdictFollows ==
  ASSUME TypeInv, AskedInv, VerdictInv
  PROVE  VerdictIsOwn
<1> SUFFICES ASSUME NEW q \in Requests, handle[q].at \in Late,
                    \A r \in Requests : SameCAs(handle[r].sr.Chain, handle[q].sr.Chain)
                                          => LeafFits(handle[r].sr.Chain),
                    NEW e \in bases[handle[q].base],
                    Admissible(e, handle[q].sr, Leaf(q)), e \notin Open(handle[q])
             PROVE  e \in handle[q].found
                      <=> e.id \notin DOMAIN world.accepted \/ Valid(e.id, handle[q].sr.Chain)
  BY DEF VerdictIsOwn, Late, Open
<1> DEFINE chain == handle[q].sr.Chain
<1>1. \A r \in Requests : handle[r].sr.Chain \in Chains
  BY DEF TypeInv, CallsInv, Call, Submitted, Chains
<1>2. Judged(q)
  BY LateIsJudged
<1>3. /\ e.id \notin DOMAIN world.accepted => e \in handle[q].found
      /\ e.id \in DOMAIN world.accepted => JudgedFor(q, e.id, e \in handle[q].found)
  BY DEF VerdictInv, Decided
<1>4. ASSUME NEW r \in Requests, Judged(r), SameCAs(handle[r].sr.Chain, chain)
      PROVE  Valid(e.id, handle[r].sr.Chain) <=> Valid(e.id, chain)
  <2> DEFINE other == handle[r].sr.Chain
  <2>1. SameCAs(chain, other) /\ SameCAs(chain, chain)
    BY <1>4 DEF SameCAs
  <2>2. LeafFits(other) /\ LeafFits(chain)
    BY <1>4, <2>1
  <2>3. other[1] # Garbage /\ chain[1] # Garbage /\ other \in Chains /\ chain \in Chains
    BY <1>1, <1>2, <1>4 DEF Judged, Chains
  <2> HIDE DEF other, chain
  <2> QED
    BY <1>4, <2>1, <2>2, <2>3, SharedVerdict DEF other, chain
<1>5. ASSUME e.id \in DOMAIN world.accepted
      PROVE  e \in handle[q].found <=> Valid(e.id, chain)
  <2>1. PICK r \in Requests :
          /\ Judged(r)
          /\ r = q \/ SameCAs(handle[r].sr.Chain, chain)
          /\ e \in handle[q].found <=> Valid(e.id, handle[r].sr.Chain)
    BY <1>3, <1>5, Zenon DEF JudgedFor
  <2> QED
    BY <1>4, <2>1, Zenon
<1> QED
  BY <1>3, <1>5, Zenon

---------------------------------------------------------------------------
(***************************************************************************)
(* The issuer.                                                             *)
(***************************************************************************)

IssuerInv ==
  \A q \in Requests :
    LET chain == handle[q].sr.Chain IN
    handle[q].at = "submit" =>
      handle[q].spki = Issuer(chain) /\ ~(Len(chain) > 1 /\ chain[2] = Garbage)

LEMMA OnlyIssuerSubmits ==
  ASSUME TypeInv, NEW q \in Requests, ActionOf(q), handle'[q].at = "submit"
  PROVE  LookUpIssuer(q)
<1> DEFINE h == handle[q]
<1>1. h \in Call /\ CallsInv
  BY DEF TypeInv, CallsInv
<1>2. ASSUME NEW new, Step(q, new) PROVE new.at = "submit"
  BY <1>1, <1>2, StepIs
<1>3. Failed(h).at = "done" /\ FailedLate(h).at = "done"
  BY <1>1 DEF Failed, FailedLate, Call
<1>4. ~Parse(q)
  <2> DEFINE to == IF h.sr.DiscoverChain THEN "discover" ELSE "filter"
             sr == Requirements(h.sr, Leaf(q))
             base == BaseOf(h.sr, Leaf(q))
             new == [Move(q, to) EXCEPT !.sr = Requirements(@, Leaf(q)), !.base = base]
  <2>1. Parse(q) => Step(q, Failed(h)) \/ Step(q, new)
    BY Zenon DEF Parse
  <2>2. new = [h EXCEPT !.at = to, !.sr = sr, !.base = base] /\ to # "submit"
    BY <1>1 DEF Move, Call
  <2> HIDE DEF sr, base, to, new
  <2>3. new.at # "submit"
    BY <1>1, <2>2 DEF Call
  <2> QED
    BY <1>2, <1>3, <2>1, <2>3
<1>5. ~Discover(q) /\ ~LookUp(q) /\ ~Validate(q)
  <2> DEFINE longer(p) == [h EXCEPT !.sr.Chain = Append(@, p)]
             judged(x, y) == [h EXCEPT !.todo = x, !.found = y]
             taken(x, y) == [h EXCEPT !.at = "validate", !.todo = x, !.log = y]
  <2>1. /\ \A p : longer(p).at = h.at
        /\ Move(q, "filter").at = "filter"
        /\ \A x, y : judged(x, y).at = h.at
        /\ \A x, y : taken(x, y).at = "validate"
        /\ \A y : [h EXCEPT !.at = "look up", !.log = {}, !.found = y].at = "look up"
    BY <1>1 DEF Move, Call
  <2>2. ASSUME Discover(q) PROVE FALSE
    <3>1. h.at = "discover"
      BY <2>2 DEF Discover
    <3>2. Step(q, Move(q, "filter")) \/ \E p : Step(q, longer(p))
      BY <2>2, Zenon DEF Discover
    <3> HIDE DEF longer
    <3> QED
      BY <1>2, <2>1, <3>1, <3>2
  <2>3. ASSUME LookUp(q) PROVE FALSE
    <3>1. h.at = "look up"
      BY <2>3 DEF LookUp
    <3>2. (\E x, y : Step(q, judged(x, y))) \/ \E x, y : Step(q, taken(x, y))
      BY <2>3, Zenon DEF LookUp
    <3> HIDE DEF judged, taken
    <3>3. h.at # "submit"
      BY <3>1
    <3>4. ASSUME NEW x, NEW y PROVE ~Step(q, judged(x, y)) /\ ~Step(q, taken(x, y))
      BY <1>2, <2>1, <3>3
    <3> QED
      BY <3>2, <3>4
  <2>4. ASSUME Validate(q) PROVE FALSE
    <3>1. \E y : Step(q, [h EXCEPT !.at = "look up", !.log = {}, !.found = y])
      BY <2>4, Zenon DEF Validate
    <3> QED
      BY <1>2, <2>1, <3>1
  <2> QED
    BY <2>2, <2>3, <2>4
<1>6. ~Filter(q) /\ ~Count(q)
  <2> DEFINE logs == {e \in bases[h.base] : Admissible(e, h.sr, Leaf(q))}
             new == [Move(q, "look up") EXCEPT !.todo = logs]
  <2>1. /\ Filter(q) => Step(q, Failed(h)) \/ Step(q, new)
        /\ Count(q) => Step(q, Failed(h)) \/ Step(q, Move(q, "issuer"))
    BY Zenon DEF Filter, Count
  <2> HIDE DEF logs
  <2>2. new.at # "submit" /\ Move(q, "issuer").at # "submit"
    BY <1>1 DEF Move, Call
  <2> HIDE DEF new
  <2> QED
    BY <1>2, <1>3, <2>1, <2>2
<1>7. ~Submit(q)
  <2>1. /\ \A x : [h EXCEPT !.at = "done", !.answer = x].at = "done"
        /\ [h EXCEPT !.at = "done", !.answer.status = "crashed"].at = "done"
    BY <1>1 DEF Call
  <2>2. ASSUME Submit(q) PROVE FALSE
    <3>1. \/ \E x : Step(q, [h EXCEPT !.at = "done", !.answer = x])
          \/ Step(q, [h EXCEPT !.at = "done", !.answer.status = "crashed"])
          \/ Step(q, FailedLate(h))
      BY <2>2, Zenon DEF Submit
    <3> QED
      BY <1>2, <1>3, <2>1, <3>1
  <2> QED
    BY <2>2
<1> QED
  BY <1>4, <1>5, <1>6, <1>7 DEF ActionOf

LEMMA NextIssuer ==
  ASSUME TypeInv, IssuerInv, [Next]_vars
  PROVE  IssuerInv'
<1> SUFFICES ASSUME NEW q \in Requests, handle'[q].at = "submit"
             PROVE  LET chain == handle'[q].sr.Chain IN
                    /\ handle'[q].spki = Issuer(handle[q].sr.Chain)'
                    /\ ~(Len(chain) > 1 /\ chain[2] = Garbage)
  BY Frame DEF IssuerInv
<1> DEFINE chain == handle[q].sr.Chain
           spki == Issuer(chain)
           bad == Len(chain) > 1 /\ chain[2] = Garbage
<1>1. world' = world /\ handle[q] \in Call /\ CallsInv
  BY Frame DEF TypeInv, CallsInv
<1>2. ASSUME chain' = chain
      PROVE  spki' = spki /\ (bad' <=> bad)
  <2> HIDE DEF chain
  <2> QED
    BY <1>1, <1>2 DEF Issuer
<1>3. CASE handle'[q] = handle[q]
  <2>1. handle[q].spki = spki /\ ~bad
    BY <1>3 DEF IssuerInv
  <2> QED
    BY <1>2, <1>3, <2>1
<1>4. CASE LookUpIssuer(q)
  <2> DEFINE new == [Move(q, "submit") EXCEPT !.spki = spki]
  <2>1. Step(q, FailedLate(handle[q])) \/ (~bad /\ Step(q, new))
    BY <1>4, Zenon DEF LookUpIssuer
  <2>2. FailedLate(handle[q]).at = "done"
    BY <1>1 DEF Failed, FailedLate, Call
  <2> HIDE DEF spki, bad
  <2>3. ~bad /\ handle'[q] = new
    BY <1>1, <2>1, <2>2, StepIs
  <2>4. new.spki = spki /\ new.sr = handle[q].sr
    BY <1>1 DEF Move, Call
  <2> HIDE DEF new
  <2> QED
    BY <1>2, <2>3, <2>4 DEF spki, bad
<1>5. handle'[q] = handle[q] \/ LookUpIssuer(q)
  <2>1. ASSUME NEW r \in Requests, ActionOf(r), r # q PROVE handle'[q] = handle[q]
    <3>1. \E new : Step(r, new)
      BY <2>1 DEF ActionOf, Parse, Discover, Filter, LookUp, Validate, Count, LookUpIssuer, Submit
    <3> QED
      BY <1>1, <2>1, <3>1, StepIs
  <2> QED
    BY <2>1, NextIsAction, OnlyIssuerSubmits DEF vars
<1> QED
  BY <1>3, <1>4, <1>5

LEMMA IssuerFollows ==
  ASSUME TypeInv, AskedInv, AdmittedInv, VerdictInv, IssuerInv
  PROVE  IssuerIsKnown
<1> SUFFICES ASSUME NEW q \in Requests, handle[q].at = "submit", handle[q].spki = NoKey
             PROVE  /\ \A c \in world.known : c.ski # Leaf(q).aki
                    /\ \A e \in handle[q].found :
                         e.id \notin DOMAIN world.accepted
                           \/ \E r \in world.accepted[e.id] : r.ski = Leaf(q).signer
  BY DEF IssuerIsKnown
<1> DEFINE h == handle[q]
           chain == h.sr.Chain
<1>1. h.at \in Late /\ Sane(h) /\ h \in Call /\ Decided(q) /\ Admitted(h) /\ Judged(q)
  BY LateIsJudged DEF Late, TypeInv, CallsInv, VerdictInv, AdmittedInv
<1>2. chain \in Chains /\ chain # <<>>
  BY <1>1 DEF Call, Submitted, Chains, Judged
<1>3. Issuer(chain) = NoKey /\ ~(Len(chain) > 1 /\ chain[2] = Garbage)
  BY DEF IssuerInv
<1>4. Len(chain) = 1
  <2>1. ~(Len(chain) > 1)
    <3> SUFFICES ASSUME Len(chain) > 1 PROVE FALSE
      OBVIOUS
    <3>1. chain[2] \in Certs
      BY <1>2, <1>3 DEF Chains
    <3> QED
      BY <1>3, <3>1, HandleAssumption DEF Issuer
  <2>2. Len(chain) \in Nat /\ Len(chain) # 0
    BY <1>2 DEF Chains
  <2> HIDE DEF chain
  <2> QED
    BY <2>1, <2>2
<1>5. ASSUME NEW c \in world.known, c.ski = Leaf(q).aki PROVE FALSE
  <2>1. c.ski \in Keys
    BY WorldFacts, HandleAssumption DEF TypeInv, Certs
  <2> QED
    BY <1>3, <1>4, <1>5, <2>1, HandleAssumption DEF Issuer, Leaf
<1>6. ASSUME NEW e \in h.found, e.id \in DOMAIN world.accepted
      PROVE  \E r \in world.accepted[e.id] : r.ski = Leaf(q).signer
  <2>1. e \in bases[h.base] /\ e \notin Open(h) /\ Admissible(e, h.sr, Leaf(q))
    BY <1>1, <1>6 DEF Sane, Open, Admitted, Leaf
  <2>2. JudgedFor(q, e.id, e \in h.found)
    BY <1>1, <1>6, <2>1 DEF Decided
  <2>3. Valid(e.id, chain)
    BY <1>4, <1>6, <2>2 DEF JudgedFor, SameCAs
  <2>4. PICK r \in world.accepted[e.id] : r.ski = Last(chain).signer
    BY <1>4, <2>3 DEF Valid
  <2>5. Last(chain) = Leaf(q)
    BY <1>2, <1>4 DEF Last, Leaf, Chains
  <2> QED
    BY <2>4, <2>5
<1> QED
  BY <1>5, <1>6

---------------------------------------------------------------------------
(***************************************************************************)
(* Replies.                                                                *)
(***************************************************************************)

LEMMA OnlySubmitGrants ==
  ASSUME TypeInv, NEW q \in Requests, ActionOf(q), handle'[q].answer.status = "granted"
  PROVE  Submit(q)
<1> DEFINE h == handle[q]
<1>1. h \in Call /\ CallsInv /\ Sane(h)
  BY DEF TypeInv, CallsInv
<1>2. ASSUME NEW new, Step(q, new) PROVE new.answer.status = "granted"
  BY <1>1, <1>2, StepIs
<1>3. Failed(h).answer.status = "failed" /\ FailedLate(h).answer.status = "failed"
  BY <1>1 DEF Failed, FailedLate, Call, Answer
<1>4. h.at # "done" => h.answer.status # "granted"
  BY <1>1 DEF Sane
<1>5. ~Parse(q)
  <2> DEFINE to == IF h.sr.DiscoverChain THEN "discover" ELSE "filter"
             sr == Requirements(h.sr, Leaf(q))
             base == BaseOf(h.sr, Leaf(q))
             new == [Move(q, to) EXCEPT !.sr = Requirements(@, Leaf(q)), !.base = base]
  <2>1. ASSUME Parse(q) PROVE h.at = "parse" /\ (Step(q, Failed(h)) \/ Step(q, new))
    BY <2>1, Zenon DEF Parse
  <2>2. new = [h EXCEPT !.at = to, !.sr = sr, !.base = base]
    BY <1>1 DEF Move, Call
  <2> HIDE DEF sr, base, to, new
  <2>3. new.answer = h.answer
    BY <1>1, <2>2 DEF Call
  <2> QED
    BY <1>2, <1>3, <1>4, <2>1, <2>3
<1>6. ~Discover(q) /\ ~LookUp(q) /\ ~Validate(q)
  <2> DEFINE longer(p) == [h EXCEPT !.sr.Chain = Append(@, p)]
             judged(x, y) == [h EXCEPT !.todo = x, !.found = y]
             taken(x, y) == [h EXCEPT !.at = "validate", !.todo = x, !.log = y]
             validated(y) == [h EXCEPT !.at = "look up", !.log = {}, !.found = y]
  <2>1. /\ \A p : longer(p).answer = h.answer
        /\ Move(q, "filter").answer = h.answer
        /\ \A x, y : judged(x, y).answer = h.answer /\ taken(x, y).answer = h.answer
        /\ \A y : validated(y).answer = h.answer
    BY <1>1 DEF Move, Call
  <2>2. ASSUME Discover(q) \/ LookUp(q) \/ Validate(q) PROVE h.answer.status # "granted"
    BY <1>4, <2>2 DEF Discover, LookUp, Validate
  <2>3. /\ Discover(q) => Step(q, Move(q, "filter")) \/ \E p : Step(q, longer(p))
        /\ LookUp(q) => (\E x, y : Step(q, judged(x, y))) \/ \E x, y : Step(q, taken(x, y))
        /\ Validate(q) => \E y : Step(q, validated(y))
    BY Zenon DEF Discover, LookUp, Validate
  <2> HIDE DEF longer, judged, taken, validated
  <2> QED
    BY <1>2, <2>1, <2>2, <2>3
<1>7. ~Filter(q) /\ ~Count(q) /\ ~LookUpIssuer(q)
  <2> DEFINE filtered(x) == [Move(q, "look up") EXCEPT !.todo = x]
             issued(x) == [Move(q, "submit") EXCEPT !.spki = x]
  <2>1. /\ Move(q, "issuer").answer = h.answer
        /\ \A x : filtered(x).answer = h.answer /\ issued(x).answer = h.answer
    BY <1>1 DEF Move, Call
  <2>2. ASSUME Filter(q) \/ Count(q) \/ LookUpIssuer(q) PROVE h.answer.status # "granted"
    BY <1>4, <2>2 DEF Filter, Count, LookUpIssuer
  <2>3. /\ Filter(q) => Step(q, Failed(h)) \/ \E x : Step(q, filtered(x))
        /\ Count(q) => Step(q, Failed(h)) \/ Step(q, Move(q, "issuer"))
        /\ LookUpIssuer(q) => Step(q, FailedLate(h)) \/ \E x : Step(q, issued(x))
    BY Zenon DEF Filter, Count, LookUpIssuer
  <2> HIDE DEF filtered, issued
  <2> QED
    BY <1>2, <1>3, <2>1, <2>2, <2>3
<1> QED
  BY <1>5, <1>6, <1>7 DEF ActionOf

\* What a reply to a granted request is made of: SCTs of logs that were found and are not
\* excluded, as many and from as many operators as the policy has made of the request.
Replied(h) ==
  LET scts == h.answer.scts IN
  /\ ~Expired(h)
  /\ scts \cap world.excluded = {}
  /\ Cardinality(scts) >= h.sr.SCTs
  /\ \E entry \in [scts -> h.found] :
       /\ \A i \in scts : entry[i].id = i
       /\ Cardinality({entry[i].operator : i \in scts}) >= h.sr.Operators
       /\ h.sr.RequireAtLeastOneRFC6962SCT => \E i \in scts : ~entry[i].tiled
  /\ \/ h.answer.LogResponse \/ h.answer.SCTList \/ h.answer.FinalTBSCert
     \/ ~Head(h.sr.Chain).precert /\ ~world.config.IncludeLogResponses

ReplyInv == \A q \in Requests : Granted(q) => Replied(handle[q])

\* A log of the strategy stands for an entry that was found (strategy.go:60-85).
LEMMA StrategyEntry ==
  ASSUME NEW h, NEW i \in Eligible(h)
  PROVE  \E e \in h.found :
           /\ e = CHOOSE d \in h.found : d.id = i
           /\ e.id = i /\ i \notin world.excluded
           /\ Strategy(h)[i].Operator = e.operator
           /\ Strategy(h)[i].LogType = "LOGTYPE_RFC6962" => ~e.tiled
<1> DEFINE e == CHOOSE d \in h.found : d.id = i
           logType == IF e.tiled THEN "LOGTYPE_STATIC" ELSE "LOGTYPE_RFC6962"
           bucket == IF i \in world.excluded THEN "EXCLUDED" ELSE "RANKED"
<1>1. i \in Names(h.found) /\ Strategy(h)[i].Bucket # "EXCLUDED"
  BY EligibleType DEF Eligible
<1>2. e \in h.found /\ e.id = i
  BY <1>1 DEF Names
<1>3. Strategy(h)[i] = [Operator |-> e.operator, LogType |-> logType, Bucket |-> bucket]
  BY <1>1 DEF Strategy
<1>4. (logType = "LOGTYPE_RFC6962" => ~e.tiled) /\ (i \in world.excluded => bucket = "EXCLUDED")
  OBVIOUS
<1> HIDE DEF logType, bucket
<1>5. /\ Strategy(h)[i].Operator = e.operator /\ Strategy(h)[i].LogType = logType
      /\ Strategy(h)[i].Bucket = bucket
  BY <1>3
<1> QED
  BY <1>1, <1>2, <1>4, <1>5

LEMMA SubmitReplies ==
  ASSUME TypeInv, AdmittedInv, NEW q \in Requests, Submit(q),
         handle'[q].answer.status = "granted"
  PROVE  Replied(handle'[q])
<1> DEFINE h == handle[q]
           k == handle'[q]
<1>1. h \in Call /\ CallsInv /\ Sane(h) /\ Admitted(h) /\ h.at = "submit" /\ WorldInv
  BY DEF TypeInv, CallsInv, AdmittedInv, Submit
<1>2. PICK scts \in SUBSET Eligible(h) :
        /\ Compliant(h.sr, Strategy(h), scts)
        /\ k = [h EXCEPT !.at = "done", !.answer = Response(h, scts)]
  <2>1. FailedLate(h).answer.status = "failed"
    BY <1>1 DEF Failed, FailedLate, Call, Answer
  <2>2. [h EXCEPT !.at = "done", !.answer.status = "crashed"].answer.status = "crashed"
    BY <1>1 DEF Call, Answer
  <2>3. \/ \E scts \in SUBSET Eligible(h) :
             /\ Compliant(h.sr, Strategy(h), scts)
             /\ Step(q, [h EXCEPT !.at = "done", !.answer = Response(h, scts)])
        \/ Step(q, [h EXCEPT !.at = "done", !.answer.status = "crashed"])
        \/ Step(q, FailedLate(h))
    BY Zenon DEF Submit
  <2>4. ASSUME NEW new, Step(q, new) PROVE k = new
    BY <1>1, <2>4, StepIs
  <2>5. ~Step(q, [h EXCEPT !.at = "done", !.answer.status = "crashed"])
    <3> SUFFICES ASSUME Step(q, [h EXCEPT !.at = "done", !.answer.status = "crashed"])
                 PROVE  FALSE
      OBVIOUS
    <3>1. k = [h EXCEPT !.at = "done", !.answer.status = "crashed"]
      BY <2>4, Zenon
    <3> QED
      BY <2>2, <3>1
  <2>6. ~Step(q, FailedLate(h))
    BY <2>1, <2>4
  <2> QED
    BY <2>3, <2>4, <2>5, <2>6, Zenon
<1> DEFINE reply == Response(h, scts)
<1>3. /\ reply.scts = scts
      /\ reply.LogResponse = world.config.IncludeLogResponses
      /\ reply.SCTList <=> Head(h.sr.Chain).precert /\ world.config.IncludeSCTList
      /\ reply.FinalTBSCert <=> Head(h.sr.Chain).precert /\ world.config.ProduceFinalTBSCert
  BY Zenon DEF Response
<1>4. /\ world.config.IncludeLogResponses \/ world.config.IncludeSCTList
           \/ world.config.ProduceFinalTBSCert
  BY <1>1, WorldFacts DEF IsWorld, ResponseConfig
<1> HIDE DEF reply
<1>5. k.sr = h.sr /\ k.found = h.found /\ k.answer = reply
  BY <1>1, <1>2 DEF Call, reply
<1>6. ~Expired(k)
  BY <1>1, <1>5 DEF Admitted, Late, Expired
<1> DEFINE entry == [i \in scts |-> CHOOSE d \in h.found : d.id = i]
           strategy == Strategy(h)
<1>7. \A i \in scts : /\ entry[i] \in h.found /\ entry[i].id = i /\ i \notin world.excluded
                      /\ strategy[i].Operator = entry[i].operator
                      /\ strategy[i].LogType = "LOGTYPE_RFC6962" => ~entry[i].tiled
  <2> SUFFICES ASSUME NEW i \in scts
               PROVE  /\ entry[i] \in h.found /\ entry[i].id = i /\ i \notin world.excluded
                      /\ strategy[i].Operator = entry[i].operator
                      /\ strategy[i].LogType = "LOGTYPE_RFC6962" => ~entry[i].tiled
    OBVIOUS
  <2>1. i \in Eligible(h)
    BY <1>2
  <2>2. PICK e \in h.found :
          /\ e = CHOOSE d \in h.found : d.id = i
          /\ e.id = i /\ i \notin world.excluded
          /\ strategy[i].Operator = e.operator
          /\ strategy[i].LogType = "LOGTYPE_RFC6962" => ~e.tiled
    BY <2>1, StrategyEntry, Zenon
  <2>3. entry[i] = e
    BY <2>2
  <2> HIDE DEF entry, strategy
  <2> QED
    BY <2>2, <2>3
<1>8. entry \in [scts -> h.found]
  BY <1>7
<1>9. /\ Cardinality(scts) >= h.sr.SCTs
      /\ Cardinality({strategy[i].Operator : i \in scts}) >= h.sr.Operators
      /\ h.sr.RequireAtLeastOneRFC6962SCT =>
           \E i \in scts : strategy[i].LogType = "LOGTYPE_RFC6962"
  BY <1>2, Zenon DEF Compliant
<1> HIDE DEF entry, strategy
<1>10. {strategy[i].Operator : i \in scts} = {entry[i].operator : i \in scts}
  BY <1>7
<1>11. h.sr.RequireAtLeastOneRFC6962SCT => \E i \in scts : ~entry[i].tiled
  BY <1>7, <1>9
<1>12. Cardinality({entry[i].operator : i \in scts}) >= h.sr.Operators
  BY <1>9, <1>10
<1>13. scts \cap world.excluded = {}
  BY <1>7
<1>14. \/ reply.LogResponse \/ reply.SCTList \/ reply.FinalTBSCert
       \/ ~Head(h.sr.Chain).precert /\ ~world.config.IncludeLogResponses
  BY <1>3, <1>4, Zenon
<1>15. k.answer.scts = scts
  BY <1>3, <1>5
<1>16. \E x \in [k.answer.scts -> k.found] :
         /\ \A i \in k.answer.scts : x[i].id = i
         /\ Cardinality({x[i].operator : i \in k.answer.scts}) >= k.sr.Operators
         /\ k.sr.RequireAtLeastOneRFC6962SCT => \E i \in k.answer.scts : ~x[i].tiled
  <2>1. /\ \A i \in scts : entry[i].id = i
        /\ Cardinality({entry[i].operator : i \in scts}) >= h.sr.Operators
        /\ h.sr.RequireAtLeastOneRFC6962SCT => \E i \in scts : ~entry[i].tiled
    BY <1>7, <1>11, <1>12
  <2>2. \E x \in [scts -> h.found] :
          /\ \A i \in scts : x[i].id = i
          /\ Cardinality({x[i].operator : i \in scts}) >= h.sr.Operators
          /\ h.sr.RequireAtLeastOneRFC6962SCT => \E i \in scts : ~x[i].tiled
    BY <1>8, <2>1, Zenon
  <2> HIDE DEF h, k
  <2> QED
    BY <1>5, <1>15, <2>2
<1>17. /\ k.answer.scts \cap world.excluded = {}
       /\ Cardinality(k.answer.scts) >= k.sr.SCTs
       /\ \/ k.answer.LogResponse \/ k.answer.SCTList \/ k.answer.FinalTBSCert
          \/ ~Head(k.sr.Chain).precert /\ ~world.config.IncludeLogResponses
  BY <1>5, <1>9, <1>13, <1>14, <1>15
<1>18. Replied(k)
  <2> HIDE DEF k
  <2> QED
    BY <1>6, <1>16, <1>17, Zenon DEF Replied
<1> QED
  BY <1>18

LEMMA NextReply ==
  ASSUME TypeInv, AdmittedInv, ReplyInv, [Next]_vars
  PROVE  ReplyInv'
<1> SUFFICES ASSUME NEW q \in Requests, handle'[q].answer.status = "granted"
             PROVE  Replied(handle[q])'
  BY Frame DEF ReplyInv, Granted
<1>1. world' = world /\ CallsInv
  BY Frame DEF TypeInv
<1>2. Replied(handle'[q])
  <2>1. CASE handle'[q] = handle[q]
    BY <2>1 DEF ReplyInv, Granted
  <2>2. CASE ActionOf(q)
    BY <2>2, OnlySubmitGrants, SubmitReplies
  <2>3. ASSUME NEW r \in Requests, ActionOf(r), r # q PROVE handle'[q] = handle[q]
    <3>1. \E new : Step(r, new)
      BY <2>3 DEF ActionOf, Parse, Discover, Filter, LookUp, Validate, Count, LookUpIssuer, Submit
    <3> QED
      BY <1>1, <2>3, <3>1, StepIs
  <2> QED
    BY <2>1, <2>2, <2>3, NextIsAction DEF vars
<1> QED
  BY <1>1, <1>2, Zenon DEF Replied, Expired, Production

---------------------------------------------------------------------------
(***************************************************************************)
(* What the policy has made of the request, and what the lists say of the  *)
(* logs.                                                                   *)
(***************************************************************************)

LEMMA RequirementsRaise ==
  ASSUME NEW sr \in Submitted, NEW leaf, NEW chain, NEW new,
         new = WithChain(Requirements(sr, leaf), chain)
  PROVE  /\ new.SCTs \in Int /\ new.Operators \in Int
         /\ new.SCTs >= sr.SCTs /\ new.Operators >= sr.Operators
         /\ new.RequireAtLeastOneRFC6962SCT = sr.RequireAtLeastOneRFC6962SCT
         /\ new.PolicyCompliant = sr.PolicyCompliant /\ new.TestLogs = sr.TestLogs
         /\ new.SCTs >= 1
         /\ sr.PolicyCompliant /\ ~leaf.mark =>
              new.SCTs >= PolicySCTs(leaf) /\ new.Operators >= 2
<1> DEFINE policy    == sr.PolicyCompliant /\ ~leaf.mark
           operators == AtLeast(sr.Operators, IF policy THEN 2 ELSE 1)
           prefer    == sr.PreferAtLeastOneStaticSCT \/ policy
           scts      == AtLeast(AtLeast(sr.SCTs, IF policy THEN PolicySCTs(leaf) ELSE 1), operators)
           required  == Requirements(sr, leaf)
<1>1. sr.Operators \in Int /\ sr.SCTs \in Int
  BY DEF Submitted
<1>2. operators \in Int /\ operators >= sr.Operators /\ operators >= 1 /\ (policy => operators >= 2)
  BY <1>1 DEF AtLeast
<1>3. PolicySCTs(leaf) \in Int
  BY DEF PolicySCTs
<1>4. /\ scts \in Int /\ scts >= sr.SCTs /\ scts >= 1 /\ (policy => scts >= PolicySCTs(leaf))
  <2> HIDE DEF operators, policy
  <2> QED
    BY <1>1, <1>2, <1>3 DEF AtLeast
<1>5. required = [sr EXCEPT !.PreferAtLeastOneStaticSCT = prefer,
                            !.Operators = operators, !.SCTs = scts]
  BY Zenon DEF Requirements
<1> HIDE DEF required, operators, prefer, scts
<1>6. /\ required.SCTs = scts /\ required.Operators = operators
      /\ required.RequireAtLeastOneRFC6962SCT = sr.RequireAtLeastOneRFC6962SCT
      /\ required.PolicyCompliant = sr.PolicyCompliant /\ required.TestLogs = sr.TestLogs
  BY <1>5 DEF Submitted
<1>7. required \in Submitted /\ new = [required EXCEPT !.Chain = chain]
  BY RequirementsType DEF required, WithChain
<1>8. /\ new.SCTs = scts /\ new.Operators = operators
      /\ new.RequireAtLeastOneRFC6962SCT = sr.RequireAtLeastOneRFC6962SCT
      /\ new.PolicyCompliant = sr.PolicyCompliant /\ new.TestLogs = sr.TestLogs
  BY <1>6, <1>7 DEF Submitted
<1> QED
  BY <1>2, <1>4, <1>8

\* Where two entries meet, the later timestamp and the narrower interval count
\* (filter.go:152-205).
LEMMA MetCounts ==
  ASSUME NEW e1 \in Entries, NEW e2 \in Entries, e1.usable # 0
  PROVE  LET e == Met(e1, e2) IN
         /\ e.id = e1.id /\ e.operator = e1.operator /\ e.test = e1.test /\ e.tiled = e1.tiled
         /\ e.ended = e1.ended
         /\ e.usable \in Nat /\ e.usable >= e1.usable /\ e.usable >= e2.usable
         /\ e1.interval # NoInterval =>
              /\ e.interval # NoInterval
              /\ \A leaf : leaf.notAfter \in Nat /\ TemporallyCompatible(e, leaf)
                   => TemporallyCompatible(e1, leaf) /\ TemporallyCompatible(e2, leaf)
<1> DEFINE e == Met(e1, e2)
           i == e1.interval  j == e2.interval
           usable == IF e1.usable # 0 /\ e2.usable > e1.usable THEN e2.usable ELSE e1.usable
           interval == Narrowed(i, j)
<1>1. e1.usable \in Nat /\ e2.usable \in Nat /\ i \in Intervals /\ j \in Intervals
  BY DEF Entries, Entry
<1>2. usable \in Nat /\ usable >= e1.usable /\ usable >= e2.usable
  BY <1>1
<1>3. e = [e1 EXCEPT !.usable = usable, !.interval = interval]
  BY DEF Met
<1> HIDE DEF usable, interval, e
<1>4. /\ e.id = e1.id /\ e.operator = e1.operator /\ e.test = e1.test /\ e.tiled = e1.tiled
      /\ e.ended = e1.ended /\ e.usable = usable /\ e.interval = interval
  BY <1>3 DEF Entries, Entry
<1>5. ASSUME i # NoInterval
      PROVE  /\ interval # NoInterval
             /\ \A leaf : leaf.notAfter \in Nat /\ TemporallyCompatible(e, leaf)
                  => TemporallyCompatible(e1, leaf) /\ TemporallyCompatible(e2, leaf)
  <2>1. CASE j = NoInterval
    BY <1>4, <1>5, <2>1 DEF interval, Narrowed, TemporallyCompatible
  <2>2. CASE j # NoInterval
    <3>1. i \in Nat \X Nat /\ j \in Nat \X Nat
      BY <1>1, <1>5, <2>2 DEF Intervals
    <3> DEFINE from == IF j[1] > i[1] THEN j[1] ELSE i[1]
               to   == IF j[2] < i[2] THEN j[2] ELSE i[2]
    <3>2. /\ from \in Nat /\ to \in Nat
          /\ from >= i[1] /\ from >= j[1] /\ to <= i[2] /\ to <= j[2]
          /\ i[1] \in Nat /\ i[2] \in Nat /\ j[1] \in Nat /\ j[2] \in Nat
      BY <3>1
    <3>3. interval = <<from, to>>
      BY <1>5, <2>2 DEF Narrowed, interval
    <3> HIDE DEF from, to
    <3>4. interval # NoInterval /\ interval[1] = from /\ interval[2] = to
      BY <3>3 DEF NoInterval
    <3>5. ASSUME NEW leaf, leaf.notAfter \in Nat, TemporallyCompatible(e, leaf)
          PROVE  TemporallyCompatible(e1, leaf) /\ TemporallyCompatible(e2, leaf)
      BY <1>4, <3>2, <3>4, <3>5 DEF TemporallyCompatible
    <3> QED
      BY <3>4, <3>5
  <2> QED
    BY <2>1, <2>2
<1> QED
  BY <1>2, <1>4, <1>5, Zenon DEF e

LEMMA IntersectMet ==
  ASSUME NEW list1, NEW list2, NEW e \in intersect(list1, list2)
  PROVE  \E e1 \in list1, e2 \in list2 : e = Met(e1, e2) /\ e1.id = e2.id
<1>1. PICK p \in list1 \X list2 : e = Met(p[1], p[2]) /\ SameLog(p[1], p[2])
  BY DEF intersect
<1>2. p[1] \in list1 /\ p[2] \in list2
  BY <1>1
<1> QED
  BY <1>1, <1>2 DEF SameLog

\* An entry of UsableTLSLogs speaks for those of the three browsers (filter.go:86-101).
LEMMA UsableCounts ==
  ASSUME NEW lists \in Lists(LogNames, OperatorNames), NEW e \in UsableTLSLogs(lists)
  PROVE  \E c \in lists["chrome"], a \in lists["apple"], m \in lists["mozilla"] :
           /\ c.id = e.id /\ a.id = e.id /\ m.id = e.id
           /\ LogStatus(c) = "usable" /\ LogStatus(a) = "usable"
           /\ LogStatus(m) \in {"qualified", "usable"}
           /\ c.usable \in Nat /\ a.usable \in Nat /\ m.usable \in Nat /\ e.usable \in Nat
           /\ e.usable >= c.usable /\ e.usable >= a.usable /\ e.usable >= m.usable
           /\ e.ended = c.ended /\ e.operator = c.operator /\ e.test = c.test
           /\ c.interval # NoInterval =>
                \A leaf : leaf.notAfter \in Nat /\ TemporallyCompatible(e, leaf) =>
                  /\ TemporallyCompatible(c, leaf) /\ TemporallyCompatible(a, leaf)
                  /\ TemporallyCompatible(m, leaf)
<1> DEFINE chrome  == SelectByStatus(lists["chrome"], {"usable"})
           apple   == SelectByStatus(lists["apple"], {"usable"})
           mozilla == SelectByStatus(lists["mozilla"], {"qualified", "usable"})
<1>1. /\ lists["chrome"] \in SUBSET Entries /\ lists["apple"] \in SUBSET Entries
      /\ lists["mozilla"] \in SUBSET Entries
  BY DEF Lists, Entries
<1>2. /\ chrome \in SUBSET Entries /\ apple \in SUBSET Entries /\ mozilla \in SUBSET Entries
      /\ \A c \in chrome : c \in lists["chrome"] /\ LogStatus(c) = "usable"
      /\ \A a \in apple : a \in lists["apple"] /\ LogStatus(a) = "usable"
      /\ \A m \in mozilla : m \in lists["mozilla"] /\ LogStatus(m) \in {"qualified", "usable"}
  BY <1>1 DEF SelectByStatus
<1>3. e \in intersect(intersect(chrome, apple), mozilla)
  BY Zenon DEF UsableTLSLogs
<1> HIDE DEF chrome, apple, mozilla
<1>4. PICK d \in intersect(chrome, apple), m \in mozilla : e = Met(d, m) /\ d.id = m.id
  BY <1>3, IntersectMet
<1>5. PICK c \in chrome, a \in apple : d = Met(c, a) /\ c.id = a.id
  BY <1>4, IntersectMet
<1>6. /\ c \in Entries /\ a \in Entries /\ m \in Entries /\ d \in Entries
      /\ c.usable \in Nat /\ a.usable \in Nat /\ m.usable \in Nat /\ c.usable # 0
  <2>1. c \in Entries /\ a \in Entries /\ m \in Entries
    BY <1>2
  <2>2. c.usable \in Nat /\ a.usable \in Nat /\ m.usable \in Nat /\ c.qualified \in Nat
    BY <2>1 DEF Entries, Entry
  <2>3. LogStatus(c) = "usable"
    BY <1>2
  <2>4. c.usable # 0
    BY <2>2, <2>3 DEF LogStatus
  <2> QED
    BY <1>5, <2>1, <2>2, <2>4, MetType
<1>7. /\ d.id = c.id /\ d.operator = c.operator /\ d.test = c.test /\ d.ended = c.ended
      /\ d.usable \in Nat /\ d.usable >= c.usable /\ d.usable >= a.usable
      /\ c.interval # NoInterval =>
           /\ d.interval # NoInterval
           /\ \A leaf : leaf.notAfter \in Nat /\ TemporallyCompatible(d, leaf)
                => TemporallyCompatible(c, leaf) /\ TemporallyCompatible(a, leaf)
  BY <1>5, <1>6, MetCounts, Zenon
<1>8. d.usable # 0
  BY <1>6, <1>7
<1>9. /\ e.id = d.id /\ e.operator = d.operator /\ e.test = d.test /\ e.ended = d.ended
      /\ e.usable \in Nat /\ e.usable >= d.usable /\ e.usable >= m.usable
      /\ d.interval # NoInterval =>
           \A leaf : leaf.notAfter \in Nat /\ TemporallyCompatible(e, leaf)
             => TemporallyCompatible(d, leaf) /\ TemporallyCompatible(m, leaf)
  BY <1>4, <1>6, <1>8, MetCounts, Zenon
<1>10. /\ c.id = e.id /\ a.id = e.id /\ m.id = e.id
       /\ e.ended = c.ended /\ e.operator = c.operator /\ e.test = c.test
  BY <1>4, <1>5, <1>7, <1>9
<1>11. /\ e.usable \in Nat /\ e.usable >= c.usable /\ e.usable >= a.usable
       /\ e.usable >= m.usable
  BY <1>6, <1>7, <1>9
<1>12. c.interval # NoInterval =>
         \A leaf : leaf.notAfter \in Nat /\ TemporallyCompatible(e, leaf) =>
           /\ TemporallyCompatible(c, leaf) /\ TemporallyCompatible(a, leaf)
           /\ TemporallyCompatible(m, leaf)
  BY <1>7, <1>9, Zenon
<1>13. /\ c \in lists["chrome"] /\ a \in lists["apple"] /\ m \in lists["mozilla"]
       /\ LogStatus(c) = "usable" /\ LogStatus(a) = "usable"
       /\ LogStatus(m) \in {"qualified", "usable"}
  BY <1>2
<1> QED
  BY <1>6, <1>10, <1>11, <1>12, <1>13, Zenon

LEMMA GrantedFacts ==
  ASSUME TypeInv, AskedInv, AdmittedInv, ReplyInv, NEW q \in Requests, Granted(q)
  PROVE  LET asked == world.requests[q]
             h     == handle[q]
         IN
         /\ h \in Call /\ Sane(h) /\ asked \in Submitted /\ Replied(h) /\ Admitted(h)
         /\ Leaf(q) \in Certs /\ Leaf(q) = Head(asked.Chain)
         /\ h.sr = WithChain(Requirements(asked, Leaf(q)), h.sr.Chain)
         /\ h.base = BaseOf(asked, Leaf(q))
<1> DEFINE asked == world.requests[q]
           h     == handle[q]
<1>1. /\ h \in Call /\ Sane(h) /\ asked \in Submitted /\ Replied(h) /\ Admitted(h)
      /\ Asked(q) /\ Extended(asked.Chain, h.sr.Chain)
  BY WorldFacts DEF TypeInv, CallsInv, AskedInv, AdmittedInv, ReplyInv
<1>2. h.at = "done" /\ h.answer.status # "failed"
  BY <1>1 DEF Granted, Sane
<1>3. /\ asked.Chain # <<>> /\ Head(asked.Chain) # Garbage
      /\ h.sr = WithChain(Requirements(asked, Head(asked.Chain)), h.sr.Chain)
      /\ h.base = BaseOf(asked, Head(asked.Chain))
  BY <1>1, <1>2 DEF Asked
<1>4. asked.Chain \in Chains /\ h.sr.Chain \in Chains
  BY <1>1 DEF Call, Submitted, Chains
<1>5. Leaf(q) = Head(asked.Chain)
  BY <1>1, <1>3, <1>4, HeadStays DEF Leaf
<1>6. Head(asked.Chain) \in Certs
  BY <1>3, <1>4 DEF Chains
<1> QED
  BY <1>1, <1>3, <1>5, <1>6

\* Logs of a base list are what the list is named after.
LEMMA BaseTests ==
  ASSUME WorldInv, NEW context \in Contexts, NEW e \in bases[context]
  PROVE  /\ context = "TestTLSLogs" => e.test
         /\ context \in {"UsableTLSLogs", "UsableBIMILogs"} => ~e.test
<1>1. /\ world.lists \in Lists(LogNames, OperatorNames) /\ AsPublished(world.lists)
      /\ bases = BaseLists(world.lists)
  BY WorldFacts DEF WorldInv, IsWorld
<1>2. CASE context = "TestTLSLogs"
  <2>1. e \in TestTLSLogs(world.lists)
    BY <1>1, <1>2 DEF BaseLists
  <2> QED
    BY <1>1, <1>2, <2>1 DEF TestTLSLogs, AsPublished
<1>3. CASE context = "UsableTLSLogs"
  <2>1. e \in UsableTLSLogs(world.lists)
    BY <1>1, <1>3 DEF BaseLists
  <2>2. PICK c \in world.lists["chrome"] : e.test = c.test
    BY <1>1, <2>1, UsableCounts
  <2> QED
    BY <1>1, <1>3, <2>2 DEF AsPublished
<1>4. CASE context = "UsableBIMILogs"
  <2>1. e \in UsableBIMILogs(world.lists)
    BY <1>1, <1>4 DEF BaseLists
  <2> QED
    BY <1>1, <1>4, <2>1 DEF UsableBIMILogs, SelectByStatus, AsPublished
<1> QED
  BY <1>2, <1>3, <1>4

\* Operators that are counted twice over are no more.
LEMMA AtLeastAsMany ==
  ASSUME NEW S, NEW T \in SUBSET OperatorNames, S \subseteq T, NEW n \in Int, NEW m \in Int,
         Cardinality(S) >= n, n >= m
  PROVE  Cardinality(T) >= m
<1>1. IsFiniteSet(T)
  BY HandleAssumption, FS_Subset
<1>2. Cardinality(S) <= Cardinality(T) /\ IsFiniteSet(S)
  BY <1>1, FS_Subset
<1>3. Cardinality(S) \in Nat /\ Cardinality(T) \in Nat
  BY <1>1, <1>2, FS_CardinalityType
<1> QED
  BY <1>2, <1>3

LEMMA ReplyFollows ==
  ASSUME TypeInv, AskedInv, AdmittedInv, ReplyInv
  PROVE  ReplyIsWhatWasAsked
<1> SUFFICES ASSUME NEW q \in Requests, Granted(q)
             PROVE  LET asked   == world.requests[q]
                        scts    == handle[q].answer.scts
                        entries == {e \in handle[q].found : e.id \in scts}
                    IN  /\ Cardinality(scts) >= asked.SCTs
                        /\ Cardinality({e.operator : e \in entries}) >= asked.Operators
                        /\ asked.RequireAtLeastOneRFC6962SCT => \E e \in entries : ~e.tiled
                        /\ asked.TestLogs => \A e \in entries : e.test
                        /\ asked.PolicyCompliant /\ ~asked.TestLogs => \A e \in entries : ~e.test
                        /\ ~asked.PolicyCompliant /\ ~asked.TestLogs =>
                             entries \subseteq world.lists["crtsh"]
                        /\ scts \cap world.excluded = {}
  BY DEF ReplyIsWhatWasAsked
<1> DEFINE asked   == world.requests[q]
           h       == handle[q]
           scts    == h.answer.scts
           entries == {e \in h.found : e.id \in scts}
<1>1. /\ h \in Call /\ Sane(h) /\ asked \in Submitted /\ Replied(h)
      /\ h.sr = WithChain(Requirements(asked, Leaf(q)), h.sr.Chain)
      /\ h.base = BaseOf(asked, Leaf(q))
  BY GrantedFacts
<1>2. /\ h.sr.SCTs \in Int /\ h.sr.Operators \in Int
      /\ h.sr.SCTs >= asked.SCTs /\ h.sr.Operators >= asked.Operators
      /\ h.sr.RequireAtLeastOneRFC6962SCT = asked.RequireAtLeastOneRFC6962SCT
  BY <1>1, RequirementsRaise
<1>3. asked.SCTs \in Int /\ asked.Operators \in Int
  BY <1>1 DEF Submitted
<1>4. PICK entry \in [scts -> h.found] :
        /\ \A i \in scts : entry[i].id = i
        /\ Cardinality({entry[i].operator : i \in scts}) >= h.sr.Operators
        /\ h.sr.RequireAtLeastOneRFC6962SCT => \E i \in scts : ~entry[i].tiled
  BY <1>1, Zenon DEF Replied
<1>5. \A i \in scts : entry[i] \in entries
  BY <1>4
<1>6. Cardinality(scts) >= asked.SCTs
  <2>1. scts \in SUBSET LogNames /\ Cardinality(scts) >= h.sr.SCTs
    BY <1>1 DEF Call, Answer, Replied
  <2>2. Cardinality(scts) \in Nat
    BY <2>1, HandleAssumption, FS_Subset, FS_CardinalityType
  <2> QED
    BY <1>2, <1>3, <2>1, <2>2
<1>7. Cardinality({e.operator : e \in entries}) >= asked.Operators
  <2>1. \A e \in entries : e.operator \in OperatorNames
    BY <1>1 DEF Call, Entries, Entry
  <2>2. {entry[i].operator : i \in scts} \subseteq {e.operator : e \in entries}
    BY <1>5
  <2> QED
    BY <1>2, <1>3, <1>4, <2>1, <2>2, AtLeastAsMany
<1>8. asked.RequireAtLeastOneRFC6962SCT => \E e \in entries : ~e.tiled
  BY <1>2, <1>4, <1>5
<1>9. ASSUME NEW e \in entries
      PROVE  /\ asked.TestLogs => e.test
             /\ asked.PolicyCompliant /\ ~asked.TestLogs => ~e.test
             /\ ~asked.PolicyCompliant /\ ~asked.TestLogs => e \in world.lists["crtsh"]
  <2>1. h.base \in Contexts /\ e \in bases[h.base]
    BY <1>1 DEF Call, Sane
  <2>2. /\ asked.TestLogs => h.base = "TestTLSLogs"
        /\ asked.PolicyCompliant /\ ~asked.TestLogs => h.base \in {"UsableTLSLogs", "UsableBIMILogs"}
        /\ ~asked.PolicyCompliant /\ ~asked.TestLogs => h.base = "CrtshV3Active"
    BY <1>1 DEF BaseOf
  <2>3. bases["CrtshV3Active"] = world.lists["crtsh"]
    BY DEF TypeInv, WorldInv, BaseLists
  <2> QED
    BY <2>1, <2>2, <2>3, BaseTests DEF TypeInv
<1>10. scts \cap world.excluded = {}
  BY <1>1 DEF Replied
<1> QED
  BY <1>6, <1>7, <1>8, <1>9, <1>10, Zenon

\* A log whose entry of UsableTLSLogs is admissible is listed by all three browsers.
LEMMA LogIsListed ==
  ASSUME WorldInv, NEW e \in UsableTLSLogs(world.lists), NEW leaf \in Certs, NEW sr,
         Production(sr), Admissible(e, sr, leaf)
  PROVE  /\ ListedForPolicy(e.id, leaf)
         /\ \E c \in In("chrome", e.id) : c.operator = e.operator
<1>1. /\ world.lists \in Lists(LogNames, OperatorNames) /\ AsPublished(world.lists)
      /\ leaf.notAfter \in Nat /\ Now \in Nat
  BY WorldFacts, HandleAssumption DEF IsWorld
<1>2. PICK c \in world.lists["chrome"], a \in world.lists["apple"], m \in world.lists["mozilla"] :
        /\ c.id = e.id /\ a.id = e.id /\ m.id = e.id
        /\ LogStatus(c) = "usable" /\ LogStatus(a) = "usable"
        /\ LogStatus(m) \in {"qualified", "usable"}
        /\ c.usable \in Nat /\ a.usable \in Nat /\ m.usable \in Nat /\ e.usable \in Nat
        /\ e.usable >= c.usable /\ e.usable >= a.usable /\ e.usable >= m.usable
        /\ e.ended = c.ended /\ e.operator = c.operator /\ e.test = c.test
        /\ c.interval # NoInterval =>
             \A l : l.notAfter \in Nat /\ TemporallyCompatible(e, l) =>
               /\ TemporallyCompatible(c, l) /\ TemporallyCompatible(a, l)
               /\ TemporallyCompatible(m, l)
  BY <1>1, UsableCounts, Zenon
<1>3. TemporallyCompatible(e, leaf) /\ e.usable <= Now /\ e.ended = 0
  BY DEF Admissible
<1>4. /\ \A d \in In("chrome", e.id) : d = c
      /\ \A d \in In("apple", e.id) : d = a
      /\ \A d \in In("mozilla", e.id) : d = m
  BY <1>1, <1>2 DEF In, AsPublished
<1>5. c \in In("chrome", e.id) /\ a \in In("apple", e.id) /\ m \in In("mozilla", e.id)
  BY <1>2 DEF In
<1>6. c.usable <= Now /\ a.usable <= Now /\ m.usable <= Now /\ c.ended = 0
  BY <1>1, <1>2, <1>3
<1>7. UsableNow("chrome", e.id) /\ UsableNow("apple", e.id)
  BY <1>2, <1>5, <1>6 DEF UsableNow
<1>8. /\ \E d \in In("mozilla", e.id) : LogStatus(d) \in {"qualified", "usable"} /\ d.usable <= Now
      /\ \E d \in In("chrome", e.id) : d.ended = 0
  BY <1>2, <1>5, <1>6
<1>9. (\E d \in In("chrome", e.id) : d.interval # NoInterval) => InItsIntervals(e.id, leaf)
  BY <1>1, <1>2, <1>3, <1>4 DEF InItsIntervals
<1>10. ListedForPolicy(e.id, leaf)
  BY <1>7, <1>8, <1>9, Zenon DEF ListedForPolicy
<1> QED
  BY <1>2, <1>5, <1>10

LEMMA PolicyFollows ==
  ASSUME TypeInv, AskedInv, AdmittedInv, ReplyInv
  PROVE  PolicyReplyIsAdmissible
<1> SUFFICES ASSUME NEW q \in Requests, Granted(q), handle[q].sr.PolicyCompliant,
                    ~handle[q].sr.TestLogs, ~Leaf(q).mark
             PROVE  LET scts == handle[q].answer.scts
                    IN  /\ Cardinality(scts) >= (IF Leaf(q).long THEN 3 ELSE 2)
                        /\ Cardinality({e.operator : e \in UNION {In("chrome", i) : i \in scts}}) >= 2
                        /\ Leaf(q).notAfter >= Now
                        /\ \A i \in scts : ListedForPolicy(i, Leaf(q))
  BY DEF PolicyReplyIsAdmissible, PolicyGranted
<1> DEFINE asked == world.requests[q]
           h     == handle[q]
           scts  == h.answer.scts
           chrome == UNION {In("chrome", i) : i \in scts}
<1>1. /\ h \in Call /\ Sane(h) /\ asked \in Submitted /\ Replied(h) /\ Admitted(h)
      /\ Leaf(q) \in Certs
      /\ h.sr = WithChain(Requirements(asked, Leaf(q)), h.sr.Chain)
      /\ h.base = BaseOf(asked, Leaf(q)) /\ WorldInv
  BY GrantedFacts DEF TypeInv
<1>2. /\ h.sr.SCTs \in Int /\ h.sr.Operators \in Int
      /\ h.sr.PolicyCompliant = asked.PolicyCompliant /\ h.sr.TestLogs = asked.TestLogs
      /\ asked.PolicyCompliant /\ ~Leaf(q).mark =>
           h.sr.SCTs >= PolicySCTs(Leaf(q)) /\ h.sr.Operators >= 2
  <2> DEFINE leaf == Leaf(q)
             new == h.sr
             chain == h.sr.Chain
  <2>1. asked \in Submitted /\ new = WithChain(Requirements(asked, leaf), chain)
    BY <1>1
  <2> HIDE DEF leaf, new, chain, asked
  <2>2. /\ new.SCTs \in Int /\ new.Operators \in Int
        /\ new.PolicyCompliant = asked.PolicyCompliant /\ new.TestLogs = asked.TestLogs
    BY <2>1, RequirementsRaise
  <2>3. asked.PolicyCompliant /\ ~leaf.mark =>
          new.SCTs >= PolicySCTs(leaf) /\ new.Operators >= 2
    BY <2>1, RequirementsRaise
  <2> QED
    BY <2>2, <2>3, Zenon DEF new, leaf
<1>3. h.sr.SCTs >= PolicySCTs(Leaf(q)) /\ h.sr.Operators >= 2 /\ Production(h.sr)
  BY <1>2 DEF Production
<1>4. \A e \in h.found : e \in UsableTLSLogs(world.lists) /\ Admissible(e, h.sr, Leaf(q))
  <2>1. h.base = "UsableTLSLogs"
    BY <1>1, <1>2 DEF BaseOf
  <2>2. bases[h.base] = UsableTLSLogs(world.lists)
    BY <1>1, <2>1 DEF WorldInv, BaseLists
  <2>3. h.found \subseteq bases[h.base]
    BY <1>1 DEF Sane
  <2>4. \A e \in h.found : Admissible(e, h.sr, Leaf(q))
    BY <1>1 DEF Admitted, Leaf
  <2> QED
    BY <2>2, <2>3, <2>4
<1>5. PICK entry \in [scts -> h.found] :
        /\ \A i \in scts : entry[i].id = i
        /\ Cardinality({entry[i].operator : i \in scts}) >= h.sr.Operators
  BY <1>1, Zenon DEF Replied
<1>6. \A i \in scts : /\ ListedForPolicy(i, Leaf(q))
                      /\ \E c \in In("chrome", i) : c.operator = entry[i].operator
  <2> SUFFICES ASSUME NEW i \in scts
               PROVE  /\ ListedForPolicy(i, Leaf(q))
                      /\ \E c \in In("chrome", i) : c.operator = entry[i].operator
    OBVIOUS
  <2> DEFINE e == entry[i]
  <2>1. e \in h.found /\ e.id = i
    BY <1>5
  <2>2. e \in UsableTLSLogs(world.lists) /\ Admissible(e, h.sr, Leaf(q))
    BY <1>4, <2>1
  <2> HIDE DEF e
  <2> QED
    BY <1>1, <1>3, <2>1, <2>2, LogIsListed DEF e
<1>7. Cardinality(scts) >= (IF Leaf(q).long THEN 3 ELSE 2)
  <2>1. scts \in SUBSET LogNames /\ Cardinality(scts) >= h.sr.SCTs
    BY <1>1 DEF Call, Answer, Replied
  <2>2. Cardinality(scts) \in Nat
    BY <2>1, HandleAssumption, FS_Subset, FS_CardinalityType
  <2> QED
    BY <1>2, <1>3, <2>1, <2>2 DEF PolicySCTs
<1>8. Cardinality({e.operator : e \in chrome}) >= 2
  <2>1. \A e \in chrome : e.operator \in OperatorNames
    <3>1. world.lists["chrome"] \in SUBSET Entries
      BY <1>1, WorldFacts DEF Lists, Entries
    <3> QED
      BY <3>1 DEF In, Entries, Entry
  <2>2. {entry[i].operator : i \in scts} \subseteq {e.operator : e \in chrome}
    BY <1>6
  <2> QED
    BY <1>2, <1>3, <1>5, <2>1, <2>2, AtLeastAsMany
<1>9. Leaf(q).notAfter >= Now
  <2>1. Leaf(q).notAfter \in Nat /\ Now \in Nat
    BY <1>1, HandleAssumption
  <2>2. ~(Leaf(q).notAfter < Now)
    BY <1>1, <1>3 DEF Replied, Expired, Leaf
  <2> QED
    BY <2>1, <2>2
<1> QED
  BY <1>6, <1>7, <1>8, <1>9

---------------------------------------------------------------------------
(***************************************************************************)
(* Chains that are discovered.                                             *)
(***************************************************************************)

TableInv ==
  \A context \in Contexts, key \in Keys \cup {NoKey} :
    table[context][key] =
      OptimalParent(key, world.cas, ColumnLogs(world, context), world.accepted)

\* Until logs are looked for, each certificate that was not given is the one listed for the
\* certificate before it, and there is none to add when discovery has ended.
Discovered(q) ==
  LET h     == handle[q]
      given == world.requests[q].Chain
      chain == h.sr.Chain
  IN
  /\ h.at \in {"discover", "filter"} =>
       \A i \in (Len(given) + 1)..Len(chain) :
         chain[i] \in table[h.base][chain[i - 1].aki] /\ chain[i] \in world.known
           /\ ~SelfSigned(chain[i])
  /\ h.at = "filter" => Len(chain) = Len(given) \/ Parents(h) = {}

DiscoveredInv == TableInv /\ \A q \in Requests : Discovered(q)

LEMMA InitDiscovered ==
  ASSUME Init
  PROVE  DiscoveredInv
<1>1. TableInv
  BY DEF Init, TableInv
<1>2. ASSUME NEW q \in Requests PROVE Discovered(q)
  <2>1. handle[q].at = "parse"
    BY DEF Init
  <2> QED
    BY <2>1 DEF Discovered
<1> QED
  BY <1>1, <1>2 DEF DiscoveredInv

LEMMA NextDiscovered ==
  ASSUME TypeInv, AskedInv, DiscoveredInv, [Next]_vars
  PROVE  DiscoveredInv'
<1>1. TableInv'
  BY Frame DEF DiscoveredInv, TableInv
<1> SUFFICES ASSUME NEW q \in Requests
             PROVE  Discovered(q)'
  BY <1>1, Frame DEF DiscoveredInv
<1> DEFINE given == world.requests[q].Chain
           h == handle[q]
           k == handle'[q]
<1>2. /\ world' = world /\ table' = table /\ h \in Call /\ k \in Call
      /\ given \in Seq(Certs \cup {Garbage})
  BY Frame, WorldFacts DEF TypeInv, CallsInv, Submitted
<1>3. Discovered(q)
  BY DEF DiscoveredInv
<1>4. CASE Unchanged(q)
  BY <1>2, <1>3, <1>4 DEF Unchanged, Discovered, Parents, Listed
<1>5. CASE Failing(q)
  BY <1>2, <1>5 DEF Failing, Discovered
<1>6. CASE Proceeding(q)
  BY <1>2, <1>3, <1>6 DEF Proceeding, SameRequest, Discovered, Parents, Listed
<1>7. CASE Parsing(q)
  <2>1. h.sr = world.requests[q] /\ h.sr \in Submitted
    BY <1>2, <1>7 DEF AskedInv, Asked, Parsing, Call
  <2> DEFINE sr == Requirements(h.sr, Leaf(q))
  <2>2. sr = [h.sr EXCEPT !.PreferAtLeastOneStaticSCT = sr.PreferAtLeastOneStaticSCT,
                          !.Operators = sr.Operators, !.SCTs = sr.SCTs]
    BY <2>1, RequirementsType, Zenon
  <2>3. k.sr = sr
    BY <1>7 DEF Parsing
  <2>4. k.sr.Chain = given
    <3>1. h.sr.Chain = given
      BY <2>1
    <3> HIDE DEF sr, h, k
    <3>2. sr.Chain = h.sr.Chain
      BY <2>1, <2>2 DEF Submitted
    <3> QED
      BY <2>3, <3>1, <3>2
  <2>5. Len(given) \in Nat
    BY <1>2
  <2> QED
    BY <1>2, <2>4, <2>5 DEF Discovered
<1>8. CASE Discovering(q)
  <2>1. PICK p \in Parents(h) : k.sr = [h.sr EXCEPT !.Chain = Append(@, p)]
    BY <1>8 DEF Discovering
  <2> DEFINE chain == h.sr.Chain
             longer == Append(chain, p)
  <2>2. h.sr \in Submitted /\ chain \in Seq(Certs \cup {Garbage}) /\ Len(given) \in Nat
    BY <1>2 DEF Call, Submitted
  <2>3. k.sr.Chain = longer
    BY <2>1, <2>2 DEF Submitted
  <2>4. Len(given) <= Len(chain) /\ given # <<>>
    BY <1>8, <1>2 DEF AskedInv, Extended, Asked, Discovering, TypeInv, CallsInv, Sane
  <2>5. Len(chain) \in Nat \ {0}
    BY <1>2, <2>2, <2>4
  <2>6. p \in table[h.base][Last(chain).aki] /\ p \in world.known /\ ~SelfSigned(p)
    BY <2>1 DEF Parents, Listed
  <2>7. /\ Len(longer) = Len(chain) + 1 /\ longer[Len(chain) + 1] = p
        /\ \A i \in 1..Len(chain) : longer[i] = chain[i]
    BY <2>2
  <2>8. Last(chain) = longer[Len(chain)]
    BY <2>5, <2>7 DEF Last
  <2> HIDE DEF longer
  <2>9. ASSUME NEW i \in (Len(given) + 1)..Len(longer)
        PROVE  longer[i] \in table[h.base][longer[i - 1].aki] /\ longer[i] \in world.known
                 /\ ~SelfSigned(longer[i])
    <3>1. CASE i = Len(chain) + 1
      <4>1. i - 1 = Len(chain)
        BY <2>5, <3>1
      <4> QED
        BY <2>6, <2>7, <2>8, <3>1, <4>1
    <3>2. CASE i # Len(chain) + 1
      <4>1. i \in (Len(given) + 1)..Len(chain) /\ i \in 1..Len(chain) /\ i - 1 \in 1..Len(chain)
        BY <2>2, <2>4, <2>5, <2>7, <3>2
      <4>2. longer[i] = chain[i] /\ longer[i - 1] = chain[i - 1]
        BY <2>7, <4>1
      <4>3. chain[i] \in table[h.base][chain[i - 1].aki] /\ chain[i] \in world.known
              /\ ~SelfSigned(chain[i])
        BY <1>3, <1>8, <4>1 DEF Discovered, Discovering
      <4> QED
        BY <4>2, <4>3
    <3> QED
      BY <3>1, <3>2
  <2>10. k.at = "discover" /\ k.base = h.base
    BY <1>8 DEF Discovering
  <2> QED
    BY <1>2, <2>3, <2>9, <2>10 DEF Discovered
<1> QED
  BY <1>4, <1>5, <1>6, <1>7, <1>8, Course

\* The tool's columns are finite, and their logs are logs.
LEMMA ColumnFinite ==
  ASSUME WorldInv, NEW context \in Contexts
  PROVE  IsFiniteSet(ColumnLogs(world, context))
<1> DEFINE lists == [world.lists EXCEPT !["custom"] = {}]
           entries == IF context = "CrtshV3Active" THEN ActiveTLSLogs(lists)
                      ELSE BaseLists(lists)[context]
<1>1. lists \in Lists(LogNames, OperatorNames)
  BY WorldFacts DEF Lists
<1>2. ActiveTLSLogs(lists) \in SUBSET Entries
  BY <1>1 DEF ActiveTLSLogs, Lists, Entries
<1>3. BaseLists(lists)[context] \in SUBSET Entries
  BY <1>1, BaseType
<1>4. ColumnLogs(world, context) = Names(entries)
  BY DEF ColumnLogs
<1>5. entries \in SUBSET Entries
  BY <1>2, <1>3
<1> HIDE DEF entries
<1>6. Names(entries) \subseteq LogNames
  BY <1>5 DEF Names, Entries, Entry
<1> QED
  BY <1>4, <1>6, HandleAssumption, FS_Subset

LEMMA CAsDiffer ==
  ASSUME WorldInv, CAsAreTrue
  PROVE  Distinct(world.cas) /\ world.cas \subseteq CACerts
<1>1. world.cas \subseteq CACerts
  BY WorldFacts DEF IsWorld
<1>2. IsFiniteSet(world.cas)
  BY <1>1, FS_Subset DEF CAsAreTrue
<1> QED
  BY <1>1, <1>2, HandleAssumption DEF CAsAreTrue, Distinct, Certs

\* A chain that has been discovered for a leaf alone follows the table to its end.
LEMMA DiscoveredFollows ==
  ASSUME TypeInv, AskedInv, DiscoveredInv, CAsAreTrue, NEW q \in Requests,
         handle[q].at = "filter", Len(world.requests[q].Chain) = 1,
         Len(handle[q].sr.Chain) > 1, Leaf(q).aki = Leaf(q).signer,
         world.cas \subseteq world.known
  PROVE  LET chain == handle[q].sr.Chain
             logs  == ColumnLogs(world, handle[q].base)
         IN  /\ chain[1] \in Certs
             /\ Follows(chain, world.cas, logs, world.accepted)
             /\ \A p \in OptimalParent(chain[Len(chain)].aki, world.cas, logs, world.accepted) :
                  SelfSigned(p) \/ \E j \in 1..Len(chain) : p = chain[j]
<1> DEFINE h == handle[q]
           given == world.requests[q].Chain
           chain == h.sr.Chain
           logs == ColumnLogs(world, h.base)
<1>1. /\ h \in Call /\ Sane(h) /\ h.base \in Contexts
      /\ chain \in Seq(Certs \cup {Garbage}) /\ given \in Seq(Certs \cup {Garbage})
  BY WorldFacts DEF TypeInv, CallsInv, Call, Submitted
<1>2. Len(chain) \in Nat /\ 1 \in 1..Len(given) /\ Len(given) + 1 = 2 /\ Len(chain) # Len(given)
  <2>1. Len(given) = 1 /\ Len(chain) > 1
    OBVIOUS
  <2> HIDE DEF given, chain
  <2> QED
    BY <1>1, <2>1
<1>3. chain[1] = given[1] /\ Head(given) # Garbage
  BY <1>1, <1>2 DEF AskedInv, Extended, Asked, Sane
<1>4. chain[1] \in Certs
  <2>1. Head(given) = given[1] /\ given[1] \in Certs \cup {Garbage}
    BY <1>1, <1>2
  <2> QED
    BY <1>3, <2>1
<1>5. \A i \in 2..Len(chain) :
        chain[i] \in table[h.base][chain[i - 1].aki] /\ chain[i] \in world.known
          /\ ~SelfSigned(chain[i])
  BY <1>2 DEF DiscoveredInv, Discovered
<1>6. \A i \in 1..Len(chain) : chain[i] \in Certs
  <2>1. \A i \in 2..Len(chain) : chain[i] \in Certs
    BY <1>5, WorldFacts DEF TypeInv, Certs
  <2>2. \A i \in 1..Len(chain) : i = 1 \/ i \in 2..Len(chain)
    BY <1>2
  <2> QED
    BY <1>4, <2>1, <2>2
<1>7. ASSUME NEW i \in 1..Len(chain)
      PROVE  /\ chain[i] # Garbage
             /\ table[h.base][chain[i].aki]
                  = OptimalParent(chain[i].aki, world.cas, logs, world.accepted)
  <2>1. chain[i].aki \in Keys \cup {NoKey} /\ chain[i] # Garbage
    BY <1>6, HandleAssumption
  <2> QED
    BY <1>1, <2>1 DEF DiscoveredInv, TableInv
<1>8. Follows(chain, world.cas, logs, world.accepted)
  <2> SUFFICES ASSUME NEW i \in 2..Len(chain)
               PROVE  /\ chain[i] \in OptimalParent(chain[i - 1].aki, world.cas, logs, world.accepted)
                      /\ ~SelfSigned(chain[i])
                      /\ \A j \in 1..Len(chain) : chain[i] = chain[j] => i = j
    BY DEF Follows
  <2>1. i - 1 \in 1..Len(chain) /\ i \in (Len(given) + 1)..Len(chain)
    BY <1>2
  <2>2. \A j \in 1..Len(chain) : chain[i] = chain[j] => i = j
    BY <2>1 DEF AskedInv, Extended
  <2> QED
    BY <1>5, <1>7, <2>1, <2>2
<1>9. ASSUME NEW p \in OptimalParent(chain[Len(chain)].aki, world.cas, logs, world.accepted)
      PROVE  SelfSigned(p) \/ \E j \in 1..Len(chain) : p = chain[j]
  <2>1. Parents(h) = {}
    BY <1>2 DEF DiscoveredInv, Discovered
  <2>2. Last(chain) = chain[Len(chain)] /\ Len(chain) \in 1..Len(chain)
    BY <1>2 DEF Last
  <2>3. p \in Listed(h)
    BY <1>7, <2>2 DEF Listed
  <2>4. p \in world.known
    <3>1. PICK r \in Best(chain[Len(chain)].aki, world.cas, logs, world.accepted) : r.cert = p
      BY ListedIsBest
    <3>2. p \in world.cas
      BY <3>1, CAsDiffer, ColumnFinite, <1>1, ResultType DEF Best, TypeInv
    <3> QED
      BY <3>2
  <2>5. p \in ToSet(chain) \/ SelfSigned(p)
    BY <2>1, <2>3, <2>4 DEF Parents
  <2> QED
    BY <2>5 DEF ToSet
<1> QED
  BY <1>4, <1>8, <1>9

LEMMA AcceptedFollows ==
  ASSUME TypeInv, AskedInv, DiscoveredInv, CAsAreTrue
  PROVE  DiscoveredChainIsAccepted
<1> SUFFICES ASSUME NEW q \in Requests, handle[q].at = "filter",
                    Len(world.requests[q].Chain) = 1, Len(handle[q].sr.Chain) > 1,
                    Leaf(q).aki = Leaf(q).signer, world.cas \subseteq world.known
             PROVE  \E l \in ColumnLogs(world, handle[q].base) \cap DOMAIN world.accepted :
                      Valid(l, handle[q].sr.Chain)
  BY DEF DiscoveredChainIsAccepted
<1> DEFINE base == handle[q].base
           chain == handle[q].sr.Chain
           logs == ColumnLogs(world, base)
           L == Len(chain)
<1>1. /\ base \in Contexts /\ chain \in Seq(Certs \cup {Garbage}) /\ L \in Nat \ {0, 1}
      /\ Leaf(q) = chain[1]
  <2>1. base \in Contexts /\ chain \in Seq(Certs \cup {Garbage})
    BY DEF TypeInv, CallsInv, Call, Submitted
  <2>2. L > 1 /\ Leaf(q) = Head(chain)
    BY DEF Leaf
  <2> HIDE DEF chain
  <2>3. L \in Nat /\ Head(chain) = chain[1]
    BY <2>1, <2>2
  <2> HIDE DEF L
  <2>4. L \in Nat \ {0, 1}
    BY <2>2, <2>3
  <2>5. Leaf(q) = chain[1]
    BY <2>2, <2>3
  <2> QED
    BY <2>1, <2>4, <2>5
<1>2. /\ chain[1] \in Certs
      /\ Follows(chain, world.cas, logs, world.accepted)
      /\ \A p \in OptimalParent(chain[L].aki, world.cas, logs, world.accepted) :
           SelfSigned(p) \/ \E j \in 1..L : p = chain[j]
  BY DiscoveredFollows
<1>3. Distinct(world.cas) /\ world.cas \subseteq CACerts /\ IsFiniteSet(logs)
  BY <1>1, CAsDiffer, ColumnFinite DEF TypeInv
<1>4. PICK l \in logs \cap DOMAIN world.accepted :
        \/ chain[L] \in world.accepted[l]
        \/ /\ chain[L].aki # NoKey
           /\ \E r \in world.accepted[l] : /\ r.ski = chain[L].aki
                                           /\ \A i \in 2..L : r.ski # chain[i].ski
  BY <1>1, <1>2, <1>3, FollowedChainIsAccepted
<1>5. /\ \A i \in 2..L : /\ chain[i] \in world.cas /\ chain[i].ski = chain[i - 1].aki
                         /\ chain[i - 1].aki # NoKey
      /\ \A i, j \in 2..L : chain[i].ski = chain[j].ski => i = j
  BY <1>1, <1>2, <1>3, FollowedKeys
<1> HIDE DEF chain, logs
<1>6. \A i \in 1..L : i = 1 \/ i \in 2..L
  BY <1>1
<1>7. \A i \in 1..L : chain[i] \in Certs
  BY <1>2, <1>3, <1>5, <1>6 DEF Certs
<1>8. Garbage \notin ToSet(chain)
  BY <1>7, HandleAssumption DEF ToSet
<1>9. \A i \in 1..L : chain[i].aki # NoKey => chain[i].signer = chain[i].aki
  <2>1. chain[1].signer = chain[1].aki
    BY <1>1
  <2>2. \A i \in 2..L : chain[i].aki # NoKey => chain[i].signer = chain[i].aki
    BY <1>3, <1>5 DEF CAsAreTrue
  <2> QED
    BY <1>6, <2>1, <2>2
<1>10. ASSUME NEW i \in 1..(L - 1)
       PROVE  chain[i].signer = chain[i + 1].ski
  <2>1. i \in 1..L /\ i + 1 \in 2..L /\ (i + 1) - 1 = i
    BY <1>1
  <2>2. chain[i + 1].ski = chain[i].aki /\ chain[i].aki # NoKey
    BY <1>5, <2>1
  <2> QED
    BY <1>9, <2>1, <2>2
<1>11. /\ Last(chain) = chain[L] /\ L > 1 /\ L \in 1..L
  BY <1>1 DEF Last, chain
<1>12. Valid(l, chain)
  <2>1. CASE chain[L] \in world.accepted[l]
    BY <1>5, <1>8, <1>10, <1>11, <2>1 DEF Valid
  <2>2. CASE /\ chain[L].aki # NoKey
             /\ \E r \in world.accepted[l] : /\ r.ski = chain[L].aki
                                             /\ \A i \in 2..L : r.ski # chain[i].ski
    <3>1. chain[L].signer = chain[L].aki
      BY <1>9, <1>11, <2>2
    <3>2. \E r \in world.accepted[l] : /\ r.ski = Last(chain).signer
                                       /\ \A i \in 2..L : r.ski # chain[i].ski
      BY <1>11, <2>2, <3>1
    <3> QED
      BY <1>5, <1>8, <1>10, <3>2 DEF Valid
  <2> QED
    BY <1>4, <2>1, <2>2
<1> QED
  BY <1>4, <1>12 DEF chain, logs

---------------------------------------------------------------------------
(***************************************************************************)
(* The theorems.                                                           *)
(***************************************************************************)

HandleInv ==
  TypeInv /\ AskedInv /\ AdmittedInv /\ VerdictInv /\ IssuerInv /\ ReplyInv /\ DiscoveredInv

LEMMA InvHolds == Spec => []HandleInv
<1>1. Init => HandleInv
  <2> SUFFICES ASSUME Init PROVE HandleInv
    OBVIOUS
  <2>1. \A q \in Requests : /\ handle[q].at = "parse"
                            /\ handle[q].answer.status = "pending"
    BY DEF Init, NoAnswer
  <2>2. VerdictInv
    BY <2>1 DEF Init, VerdictInv, CacheInv, Decided, Late
  <2>3. IssuerInv /\ ReplyInv
    BY <2>1 DEF IssuerInv, ReplyInv, Granted
  <2> QED
    BY <2>2, <2>3, InitType, InitAsked, InitAdmitted, InitDiscovered DEF HandleInv
<1>2. HandleInv /\ [Next]_vars => HandleInv'
  <2> SUFFICES ASSUME HandleInv, [Next]_vars PROVE HandleInv'
    OBVIOUS
  <2> USE DEF HandleInv
  <2>1. TypeInv' /\ AskedInv' /\ AdmittedInv' /\ IssuerInv' /\ ReplyInv' /\ DiscoveredInv'
    BY NextType, NextAsked, NextAdmitted, NextIssuer, NextReply, NextDiscovered
  <2>2. CacheInv'
    BY NextCache DEF VerdictInv
  <2>3. \A q \in Requests : Decided(q)'
    BY NextDecided
  <2>4. Requests' = Requests
    BY Frame
  <2> QED
    BY <2>1, <2>2, <2>3, <2>4 DEF VerdictInv
<1> QED
  BY <1>1, <1>2, PTL DEF Spec

\* Discovery keeps the chain it was given, and never meets a certificate again, however
\* CAs have certified each other (discovery.go:110-163).
THEOREM DiscoveryProgresses == Spec => []DiscoveryMovesOn
<1>1. HandleInv => DiscoveryMovesOn
  BY DEF HandleInv, AskedInv, Extended, DiscoveryMovesOn
<1> QED
  BY <1>1, InvHolds, PTL

\* A chain that was discovered for a leaf alone is accepted by a log of the list it was
\* discovered for, however CAs have certified each other, provided that what they say of
\* each other's keys is true (discovery.go:110-163, cmd/optimalparents).
THEOREM DiscoveredChainsAreAccepted ==
  ASSUME CAsAreTrue
  PROVE  Spec => []DiscoveredChainIsAccepted
<1>1. HandleInv => DiscoveredChainIsAccepted
  BY AcceptedFollows DEF HandleInv
<1> QED
  BY <1>1, InvHolds, PTL

\* A verdict out of the cache is the one that the call would have come to itself, as long
\* as every leaf was issued by the CA that it was submitted with (chain.go:38-89).
THEOREM VerdictsAreOwn == Spec => []VerdictIsOwn
<1>1. HandleInv => VerdictIsOwn
  BY VerdictFollows DEF HandleInv
<1> QED
  BY <1>1, InvHolds, PTL

\* Where the issuer's key is missing, no CA in CCADB has it, and each log found accepts
\* the issuer itself or is one whose roots are not known (handler.go:90-103).
THEOREM IssuersAreKnown == Spec => []IssuerIsKnown
<1>1. HandleInv => IssuerIsKnown
  BY IssuerFollows DEF HandleInv
<1> QED
  BY <1>1, InvHolds, PTL

\* A reply has the SCTs and the operators that its request asked for, from test logs if it
\* asked for those, from none if it asked for policy compliance, and from the list of
\* crt.sh, whatever their kind, if for neither (request.go:46-91).
THEOREM RepliesAreAsAsked == Spec => []ReplyIsWhatWasAsked
<1>1. HandleInv => ReplyIsWhatWasAsked
  BY ReplyFollows DEF HandleInv
<1> QED
  BY <1>1, InvHolds, PTL

\* A reply that shall comply with policy has as many SCTs, from as many operators, as the
\* policy demands, each from a log that Chrome and Apple have as usable by now and Mozilla
\* as that or as qualified, and in whose intervals the leaf is if Chrome states one,
\* whatever the lists say (filter.go:86-205, compatibleLogs.go:25-66).
THEOREM PolicyRepliesAreAdmissible == Spec => []PolicyReplyIsAdmissible
<1>1. HandleInv => PolicyReplyIsAdmissible
  BY PolicyFollows DEF HandleInv
<1> QED
  BY <1>1, InvHolds, PTL

\* A successful response is never empty of SCTs, and has them in some form, unless it is
\* for a certificate and the logs' responses are not included (handler.go:122-150).
THEOREM SuccessesCarrySCTs == Spec => []SuccessCarriesSCTs
<1>1. HandleInv => SuccessCarriesSCTs
  <2> SUFFICES ASSUME HandleInv, NEW q \in Requests, Granted(q)
               PROVE  LET answer == handle[q].answer IN
                      /\ answer.LogResponse \/ answer.SCTList \/ answer.FinalTBSCert
                           \/ (~Leaf(q).precert /\ ~world.config.IncludeLogResponses)
                      /\ answer.scts # {}
    BY DEF SuccessCarriesSCTs
  <2> DEFINE scts == handle[q].answer.scts
             asked == world.requests[q]
             sr == handle[q].sr
  <2>1. /\ asked \in Submitted /\ Replied(handle[q])
        /\ sr = WithChain(Requirements(asked, Leaf(q)), sr.Chain)
    BY GrantedFacts DEF HandleInv
  <2>2. sr.SCTs \in Int /\ sr.SCTs >= 1
    <3> DEFINE leaf == Leaf(q)  chain == sr.Chain
    <3>1. asked \in Submitted /\ sr = WithChain(Requirements(asked, leaf), chain)
      BY <2>1
    <3> HIDE DEF leaf, chain, asked, sr
    <3> QED
      BY <3>1, RequirementsRaise
  <2>3. Cardinality(scts) >= sr.SCTs
    BY <2>1 DEF Replied
  <2>4. scts # {}
    <3> SUFFICES ASSUME scts = {} PROVE FALSE
      OBVIOUS
    <3> DEFINE size == Cardinality(scts)  asking == sr.SCTs
    <3>1. size = 0 /\ size >= asking /\ asking \in Int /\ asking >= 1
      BY <2>2, <2>3, FS_EmptySet, Zenon
    <3> HIDE DEF size, asking
    <3> QED
      BY <3>1
  <2> QED
    BY <2>1, <2>4 DEF Replied, Leaf
<1> QED
  BY <1>1, InvHolds, PTL
============================================================================
