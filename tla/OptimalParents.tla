--------------------------- MODULE OptimalParents --------------------------
(***************************************************************************)
(* cmd/optimalparents: for every key and every list of logs, the           *)
(* certificate of that key through which a chain reaches a root that as    *)
(* many logs of the list as possible accept.  Chain discovery looks its    *)
(* parents up in the result (pki/discovery.go).                            *)
(*                                                                         *)
(* A CA certificate has a hash, the key it certifies (ski), the key it     *)
(* says it is signed with (aki, NoKey if it does not say), the key it is   *)
(* signed with (signer), and notAfter.  accepted[l] are the certificates   *)
(* that log l accepts as roots, if that is known.                          *)
(***************************************************************************)
EXTENDS Integers, FiniteSets

CONSTANT NoKey

\* The names of issuer and subject are equal when a key has signed itself.
SelfSigned(c) == IF c.aki # NoKey /\ c.ski # NoKey THEN c.aki = c.ski ELSE c.signer = c.ski

findParents(c, cas) == IF c.aki = NoKey THEN {} ELSE {p \in cas \ {c} : p.ski = c.aki}

\* The breadth-first search after n steps: the intermediates just reached, all that have
\* been visited, and the shortest chain to each root, as its last certificate and length.
Search(c, cas) ==
  LET search[n \in 0..Cardinality(cas)] ==
        IF n = 0 THEN [level |-> {c}, visited |-> {c}, chains |-> {}]
        ELSE LET before  == search[n - 1]
                 parents == (UNION {findParents(d, cas) : d \in before.level}) \ before.visited
                 roots   == {p \in parents : SelfSigned(p)}
             IN  [level   |-> parents \ roots,
                  visited |-> before.visited \cup parents,
                  chains  |-> before.chains \cup {[last |-> r, length |-> n + 1] : r \in roots}]
  IN  search[Cardinality(cas)]

\* A certificate from which no root is reached is a chain of its own.
buildChains(c, cas) ==
  LET toRoots == IF SelfSigned(c) THEN {} ELSE Search(c, cas).chains
  IN  IF toRoots = {} THEN {[last |-> c, length |-> 1]} ELSE toRoots

Score(chain, logs, accepted) ==
  Cardinality({l \in logs \cap DOMAIN accepted : chain.last \in accepted[l]})

\* Mutant: the longer chain is preferred.
LongerWins(a, b) ==
  \/ a.score > b.score
  \/ a.score = b.score /\ a.length > b.length
  \/ /\ a.score = b.score /\ a.length = b.length
     /\ \/ a.cert.notAfter > b.cert.notAfter
        \/ a.cert.notAfter = b.cert.notAfter /\ a.cert.hash < b.cert.hash

Better(a, b) ==
  \/ a.score > b.score
  \/ a.score = b.score /\ a.length < b.length
  \/ /\ a.score = b.score /\ a.length = b.length
     /\ \/ a.cert.notAfter > b.cert.notAfter
        \/ a.cert.notAfter = b.cert.notAfter /\ a.cert.hash < b.cert.hash

\* The certificate listed for a key, as a set: there may be none.
OptimalParent(key, cas, logs, accepted) ==
  LET results == UNION {{[cert |-> c, length |-> ch.length, score |-> Score(ch, logs, accepted)] :
                           ch \in buildChains(c, cas)} : c \in {d \in cas : d.ski = key}}
      scoring == {r \in results : r.score > 0}
  IN  {r.cert : r \in {s \in scoring : \A t \in scoring : ~Better(t, s)}}
============================================================================
