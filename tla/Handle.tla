------------------------------- MODULE Handle ------------------------------
(***************************************************************************)
(* Requests as Handle takes them from the body of a POST to a response     *)
(* (submitter/handler.go): what is required of the SCTs (request.go), the  *)
(* discovery of the rest of the chain (pki/discovery.go), the logs that    *)
(* are compatible (compatibleLogs.go) by way of the cache of validation    *)
(* results that all requests share (pki/chain.go), submit() as what it     *)
(* promises (SubmissionService), and the response.                         *)
(*                                                                         *)
(* A world is what one run of the program meets: log lists, CA             *)
(* certificates, accepted roots, configuration and requests.  A Handle     *)
(* takes no time: there is one Now.                                        *)
(***************************************************************************)
EXTENDS LogLists, OptimalParents, QuorumState, SequencesExt

CONSTANTS LogNames, OperatorNames,
          Keys,            \* the keys of certificates
          CACerts,         \* CA certificates
          Leaves,          \* certificates and precertificates to submit
          Garbage,         \* what cannot be parsed
          Daedalus,        \* the log that only takes expired certificates
          RequestNames,
          Worlds,
          Now

Certs == CACerts \cup Leaves
Contexts == {"UsableTLSLogs", "TestTLSLogs", "UsableBIMILogs", "CrtshV3Active"}

\* What a request asks for.
Submitted ==
  [endpoint : {"add-chain", "add-pre-chain"}, Chain : Seq(Certs \cup {Garbage}),
   DiscoverChain : BOOLEAN, PolicyCompliant : BOOLEAN, Mimics : BOOLEAN, TestLogs : BOOLEAN,
   Operators : Int, SCTs : Int, RequireAtLeastOneRFC6962SCT : BOOLEAN,
   PreferAtLeastOneStaticSCT : BOOLEAN, Verbose : BOOLEAN]

\* The last of the checks of validate(); the others bound numbers.
ResponseConfig ==
  {c \in [IncludeLogResponses : BOOLEAN, IncludeSCTList : BOOLEAN, ProduceFinalTBSCert : BOOLEAN] :
     c.IncludeLogResponses \/ c.IncludeSCTList \/ c.ProduceFinalTBSCert}

\* A browser lists a log once; what it lists is no test log, and what a custom list
\* holds is, or else the program does not start.
AsPublished(lists) ==
  /\ \A list \in {"chrome", "apple", "mozilla"} :
       \A e1, e2 \in lists[list] : e1.id = e2.id => e1 = e2
  /\ \A list \in {"chrome", "apple", "mozilla", "bimi"} : \A e \in lists[list] : ~e.test
  /\ \A e \in lists["custom"] : e.test

IsWorld(w) ==
  /\ w.lists \in Lists(LogNames, OperatorNames) /\ AsPublished(w.lists)
  /\ w.cas \subseteq CACerts /\ w.known \subseteq CACerts
  /\ w.accepted \in [DOMAIN w.accepted -> SUBSET CACerts] /\ DOMAIN w.accepted \subseteq LogNames
  /\ w.excluded \subseteq LogNames
  /\ w.config \in ResponseConfig
  /\ w.requests \in [DOMAIN w.requests -> Submitted] /\ DOMAIN w.requests \subseteq RequestNames

ASSUME HandleAssumption ==
  /\ \A w \in Worlds : IsWorld(w)
  /\ Now \in Nat
  /\ IsFiniteSet(LogNames) /\ IsFiniteSet(OperatorNames)
  /\ \A c \in Certs :
       c.hash \in Nat /\ c.ski \in Keys /\ c.aki \in Keys \cup {NoKey} /\ c.notAfter \in Nat
  /\ NoKey \notin Keys
  /\ Garbage \notin Certs

VARIABLES world,
          bases,   \* the log lists computed by loglists.init
          table,   \* optimalParent, as embedded
          cache,   \* logValidateChainCacheMap
          handle   \* the calls of Handle: stage, locals and response

vars == <<world, bases, table, cache, handle>>

Requests == DOMAIN world.requests
Answer == [status : {"pending", "granted", "failed", "crashed"}, scts : SUBSET LogNames,
           mimics : BOOLEAN, Strategy : BOOLEAN, LogResponse : BOOLEAN, SCTList : BOOLEAN,
           FinalTBSCert : BOOLEAN]

NoAnswer == [status |-> "pending", scts |-> {}, mimics |-> FALSE, Strategy |-> FALSE,
             LogResponse |-> FALSE, SCTList |-> FALSE, FinalTBSCert |-> FALSE]

Stages == {"parse", "discover", "filter", "look up", "validate", "issuer", "submit", "done"}

Entries == Entry(LogNames, OperatorNames)

\* log is the entry being validated, as a set; spki the key of the issuer or NoKey.
Call ==
  [at : Stages, sr : Submitted, base : Contexts, todo : SUBSET Entries, found : SUBSET Entries,
   log : SUBSET Entries, spki : Keys \cup {NoKey}, answer : Answer]

TypeOK ==
  /\ IsWorld(world)
  /\ \A c \in cache : /\ c.log \in DOMAIN world.accepted
                      /\ c.valid \in BOOLEAN
                      /\ \A d \in cache : c.log = d.log /\ c.cas = d.cas => c = d
  /\ handle \in [Requests -> Call]
  /\ \A q \in Requests :
       /\ handle[q].found \subseteq bases[handle[q].base]
       /\ handle[q].todo \cup handle[q].log \subseteq bases[handle[q].base] \ handle[q].found
       /\ (handle[q].at = "done") <=> (handle[q].answer.status # "pending")

Names(entries) == {e.id : e \in entries}

\* The tool has a column for the active TLS logs, where Handle's list is CrtshV3Active,
\* and does not know of custom logs.
ColumnLogs(w, context) ==
  LET lists == [w.lists EXCEPT !["custom"] = {}]
  IN  Names(IF context = "CrtshV3Active" THEN ActiveTLSLogs(lists) ELSE BaseLists(lists)[context])

\* The packages' init functions, and the calls of Handle that are made.
Init ==
  /\ world \in Worlds
  /\ bases = BaseLists(world.lists)
  /\ table = [context \in Contexts |-> [key \in Keys \cup {NoKey} |->
                OptimalParent(key, world.cas, ColumnLogs(world, context), world.accepted)]]
  /\ cache = {}
  /\ handle = [q \in Requests |->
       [at |-> "parse", sr |-> world.requests[q], base |-> "CrtshV3Active", todo |-> {},
        found |-> {}, log |-> {}, spki |-> NoKey, answer |-> NoAnswer]]

Move(q, stage) == [handle[q] EXCEPT !.at = stage]
Step(q, new) == handle' = [handle EXCEPT ![q] = new] /\ UNCHANGED <<world, bases, table>>

\* Mutant: the error is dropped on the way.
Forgotten(h) == [h EXCEPT !.at = "done", !.log = {}]

Failed(h) == [h EXCEPT !.at = "done", !.log = {}, !.answer.status = "failed"]

\* With the strategy, if it was asked for.
FailedLate(h) == [Failed(h) EXCEPT !.answer.Strategy = h.sr.Verbose]

Leaf(q) == Head(handle[q].sr.Chain)

---------------------------------------------------------------------------
(***************************************************************************)
(* Requirements.                                                           *)
(***************************************************************************)

AtLeast(n, m) == IF n < m THEN m ELSE n

BaseOf(sr, leaf) ==
  IF sr.TestLogs THEN "TestTLSLogs"
  ELSE IF sr.PolicyCompliant THEN IF leaf.mark THEN "UsableBIMILogs" ELSE "UsableTLSLogs"
  ELSE "CrtshV3Active"

PolicySCTs(leaf) == IF leaf.long THEN 3 ELSE 2

\* Mutant: the policy's numbers take the place of larger ones that were asked for.
PolicyOverrides(sr, leaf) ==
  LET policy    == sr.PolicyCompliant /\ ~leaf.mark
      operators == IF policy THEN 2 ELSE AtLeast(sr.Operators, 1)
  IN  [sr EXCEPT !.PreferAtLeastOneStaticSCT = @ \/ policy,
                 !.Operators = operators,
                 !.SCTs = AtLeast(IF policy THEN PolicySCTs(leaf) ELSE @, operators)]

Requirements(sr, leaf) ==
  LET policy    == sr.PolicyCompliant /\ ~leaf.mark
      operators == AtLeast(sr.Operators, IF policy THEN 2 ELSE 1)
  IN  [sr EXCEPT !.PreferAtLeastOneStaticSCT = @ \/ policy,
                 !.Operators = operators,
                 !.SCTs = AtLeast(AtLeast(@, IF policy THEN PolicySCTs(leaf) ELSE 1), operators)]

Unacceptable(q) ==
  \/ handle[q].sr.Chain = <<>>
  \/ Leaf(q) = Garbage
  \/ Leaf(q).precert # (handle[q].sr.endpoint = "add-pre-chain")

\* Up to determineSubmissionRequirements.
Parse(q) ==
  /\ handle[q].at = "parse"
  /\ Step(q, IF Unacceptable(q) THEN Failed(handle[q])
             ELSE [Move(q, IF handle[q].sr.DiscoverChain THEN "discover" ELSE "filter")
                     EXCEPT !.sr = Requirements(@, Leaf(q)), !.base = BaseOf(handle[q].sr, Leaf(q))])
  /\ UNCHANGED cache

---------------------------------------------------------------------------
(***************************************************************************)
(* Discovery, one parent at a time.                                        *)
(***************************************************************************)

Listed(h) ==
  IF Last(h.sr.Chain) = Garbage THEN {} ELSE table[h.base][Last(h.sr.Chain).aki]

\* Mutant: a certificate may be met again.
AnyParents(h) == {p \in Listed(h) : p \in world.known /\ ~SelfSigned(p)}

\* The optimal parent of the last certificate, unless the chain is complete or circular.
Parents(h) ==
  {p \in Listed(h) : p \notin ToSet(h.sr.Chain) /\ p \in world.known /\ ~SelfSigned(p)}

Discover(q) ==
  /\ handle[q].at = "discover"
  /\ \/ \E p \in Parents(handle[q]) :
          Step(q, [handle[q] EXCEPT !.sr.Chain = Append(@, p)])
     \/ Parents(handle[q]) = {} /\ Step(q, Move(q, "filter"))
  /\ UNCHANGED cache

---------------------------------------------------------------------------
(***************************************************************************)
(* Compatible logs, and the cache.                                         *)
(***************************************************************************)

Production(sr) == sr.PolicyCompliant /\ ~sr.TestLogs

TemporallyCompatible(e, leaf) ==
  e.interval = NoInterval \/ (e.interval[1] <= leaf.notAfter /\ leaf.notAfter < e.interval[2])

Admissible(e, sr, leaf) ==
  /\ TemporallyCompatible(e, leaf)
  /\ e.id = Daedalus => e.tiled \/ leaf.notAfter <= Now
  /\ Production(sr) => e.usable # 0 /\ e.usable <= Now /\ e.ended = 0

Filter(q) ==
  /\ handle[q].at = "filter"
  /\ Step(q, IF Production(handle[q].sr) /\ Leaf(q).notAfter < Now THEN Failed(handle[q])
             ELSE [Move(q, "look up") EXCEPT
                     !.todo = {e \in bases[handle[q].base] : Admissible(e, handle[q].sr, Leaf(q))}])
  /\ UNCHANGED cache

\* Mutant: one entry of the cache for all logs.
CachedForAnyLog(log, chain) == {c \in cache : c.cas = Tail(chain)}

Cached(log, chain) == {c \in cache : Len(chain) > 1 /\ c.log = log /\ c.cas = Tail(chain)}

\* The next log is not one whose roots are known, or has an answer in the cache, or its
\* roots have to be consulted.  The logs come in any order.
LookUp(q) ==
  LET h == handle[q] IN
  /\ h.at = "look up"
  /\ \E e \in h.todo :
       \/ /\ e.id \notin DOMAIN world.accepted
          /\ Step(q, [h EXCEPT !.todo = @ \ {e}, !.found = @ \cup {e}])
       \/ \E c \in Cached(e.id, h.sr.Chain) :
            Step(q, [h EXCEPT !.todo = @ \ {e}, !.found = IF c.valid THEN @ \cup {e} ELSE @])
       \/ /\ e.id \in DOMAIN world.accepted /\ Cached(e.id, h.sr.Chain) = {}
          /\ Step(q, [h EXCEPT !.at = "validate", !.todo = @ \ {e}, !.log = {e}])
  /\ UNCHANGED cache

\* ctfe.ValidateChain: every certificate is signed by the next one, no key comes twice,
\* and the last one is an accepted root or signed by one.  Left out: the window of the
\* leaf's NotAfter, which Filter has looked at, and path lengths.
Valid(log, chain) ==
  /\ Garbage \notin ToSet(chain)
  /\ \A i \in 1..(Len(chain) - 1) : chain[i].signer = chain[i + 1].ski
  /\ \A i, j \in 2..Len(chain) : chain[i].ski = chain[j].ski => i = j
  /\ \/ Len(chain) > 1 /\ Last(chain) \in world.accepted[log]
     \/ \E r \in world.accepted[log] :
          r.ski = Last(chain).signer /\ \A i \in 2..Len(chain) : r.ski # chain[i].ski

\* Validated outside the lock: another request may have stored its result meanwhile.
Validate(q) ==
  LET h == handle[q]
      chain == h.sr.Chain
  IN
  /\ h.at = "validate"
  /\ \E e \in h.log :
       /\ Step(q, [h EXCEPT !.at = "look up", !.log = {},
                            !.found = IF Valid(e.id, chain) THEN @ \cup {e} ELSE @])
       /\ cache' = IF Len(chain) > 1
                   THEN {c \in cache : c.log # e.id \/ c.cas # Tail(chain)}
                          \cup {[log |-> e.id, cas |-> Tail(chain), valid |-> Valid(e.id, chain)]}
                   ELSE cache

Enough(h) ==
  /\ Cardinality({e.operator : e \in h.found}) >= h.sr.Operators
  /\ Cardinality(h.found) >= h.sr.SCTs

Count(q) ==
  /\ handle[q].at = "look up" /\ handle[q].todo = {}
  /\ Step(q, IF Enough(handle[q]) THEN Move(q, "issuer") ELSE Failed(handle[q]))
  /\ UNCHANGED cache

---------------------------------------------------------------------------
(***************************************************************************)
(* Strategy, issuer, submission and response.                              *)
(***************************************************************************)

\* Mutant: CCADB is not asked.
OnlyInChain(chain) == IF Len(chain) > 1 THEN chain[2].ski ELSE NoKey

\* The issuer of the chain, or the one that CCADB knows by the leaf's AKI.
Issuer(chain) ==
  IF Len(chain) > 1 THEN chain[2].ski
  ELSE IF \E c \in world.known : c.ski = Head(chain).aki THEN Head(chain).aki ELSE NoKey

LookUpIssuer(q) ==
  /\ handle[q].at = "issuer"
  /\ LET chain == handle[q].sr.Chain IN
     Step(q, IF Len(chain) > 1 /\ chain[2] = Garbage THEN FailedLate(handle[q])
             ELSE [Move(q, "submit") EXCEPT !.spki = Issuer(chain)])
  /\ UNCHANGED cache

\* The strategy excludes logs by configuration.
Strategy(h) ==
  LET entry(i) == CHOOSE e \in h.found : e.id = i
  IN  [i \in Names(h.found) |->
         [Operator |-> entry(i).operator,
          LogType  |-> IF entry(i).tiled THEN "LOGTYPE_STATIC" ELSE "LOGTYPE_RFC6962",
          Bucket   |-> IF i \in world.excluded THEN "EXCLUDED" ELSE "RANKED"]]

Eligible(h) == {i \in DOMAIN Strategy(h) : Strategy(h)[i].Bucket # "EXCLUDED"}

\* Mutant: the logs' responses are left out for a certificate.
EmptyResponse(h, scts) ==
  [NoAnswer EXCEPT !.status = "granted", !.scts = scts, !.Strategy = h.sr.Verbose,
                   !.mimics = h.sr.Mimics /\ h.spki # NoKey,
                   !.LogResponse = Head(h.sr.Chain).precert /\ world.config.IncludeLogResponses,
                   !.SCTList = Head(h.sr.Chain).precert /\ world.config.IncludeSCTList,
                   !.FinalTBSCert = Head(h.sr.Chain).precert /\ world.config.ProduceFinalTBSCert]

Response(h, scts) ==
  LET precert == Head(h.sr.Chain).precert
  IN  [status       |-> "granted",
       scts         |-> scts,
       mimics       |-> h.sr.Mimics /\ h.spki # NoKey,
       Strategy     |-> h.sr.Verbose,
       LogResponse  |-> world.config.IncludeLogResponses,
       SCTList      |-> precert /\ world.config.IncludeSCTList,
       FinalTBSCert |-> precert /\ world.config.ProduceFinalTBSCert]

\* The signature of a precertificate's SCT is over the issuer's key, which is
\* dereferenced as it is.
Crashes(h) == Head(h.sr.Chain).precert /\ h.spki = NoKey /\ Eligible(h) # {}

\* submit() as SubmissionService has it: granted with a quorum, or else an error.
Submit(q) ==
  LET h == handle[q] IN
  /\ h.at = "submit"
  /\ \/ /\ ~Crashes(h)
        /\ \E scts \in SUBSET Eligible(h) :
             /\ Compliant(h.sr, Strategy(h), scts)
             /\ Step(q, [h EXCEPT !.at = "done", !.answer = Response(h, scts)])
     \/ Crashes(h) /\ Step(q, [h EXCEPT !.at = "done", !.answer.status = "crashed"])
     \/ Step(q, FailedLate(h))
  /\ UNCHANGED cache

\* Every call has returned.
Over == (\A q \in Requests : handle[q].at = "done") /\ UNCHANGED vars

Next ==
  \/ \E q \in Requests :
       \/ Parse(q) \/ Discover(q) \/ Filter(q) \/ LookUp(q) \/ Validate(q) \/ Count(q)
       \/ LookUpIssuer(q) \/ Submit(q)
  \/ Over

Spec == Init /\ [][Next]_vars

---------------------------------------------------------------------------
(***************************************************************************)
(* Properties.                                                             *)
(***************************************************************************)

Granted(q) == handle[q].answer.status = "granted"

\* The browsers' entries for a log.
In(list, id) == {e \in world.lists[list] : e.id = id}

UsableNow(list, id) == \E e \in In(list, id) : LogStatus(e) = "usable" /\ e.usable <= Now

\* Every interval that a browser states for the log covers the leaf.
InItsIntervals(id, leaf) ==
  \A list \in {"chrome", "apple", "mozilla"} :
    \A e \in In(list, id) : TemporallyCompatible(e, leaf)

\* What the lists make sure of: Chrome and Apple have the log as usable since before now,
\* and Chrome has not ended it; Mozilla has it so too, or else as qualified and not only
\* to become usable later; and the leaf is in the intervals if Chrome states one.
ListedForPolicy(id, leaf) ==
  /\ UsableNow("chrome", id) /\ UsableNow("apple", id)
  /\ \E e \in In("mozilla", id) : LogStatus(e) \in {"qualified", "usable"} /\ e.usable <= Now
  /\ \E e \in In("chrome", id) : e.ended = 0
  /\ (\E c \in In("chrome", id) : c.interval # NoInterval) => InItsIntervals(id, leaf)

PolicyGranted(q) ==
  Granted(q) /\ handle[q].sr.PolicyCompliant /\ ~handle[q].sr.TestLogs /\ ~Leaf(q).mark

\* "If true, ensure the resulting SCT list meets the requirements of the applicable CT
\* policies" (docs/REST_API.md:43, policyCompliant): the SCTs are from two operators, two
\* or three of them by the lifetime of an unexpired leaf, each from a log that the lists
\* let through, also when they disagree on a log or have been embedded before it was
\* usable (filter.go:95, compatibleLogs.go:45).  That this is less than a log which is
\* usable in all three browsers is the matter of SomeLogsAreAsDocumented.
PolicyReplyIsAdmissible ==
  \A q \in Requests : PolicyGranted(q) =>
    LET scts == handle[q].answer.scts
    IN  /\ Cardinality(scts) >= (IF Leaf(q).long THEN 3 ELSE 2)
        /\ Cardinality({e.operator : e \in UNION {In("chrome", i) : i \in scts}}) >= 2
        /\ Leaf(q).notAfter >= Now
        /\ \A i \in scts : ListedForPolicy(i, Leaf(q))

\* A reply has what its request asked for, which the policy may only raise: SCTs,
\* operators, an RFC 6962 log.  Its logs are test logs if those were asked for, and no
\* test logs if policy compliance was; with neither they are from the list of crt.sh,
\* whatever their kind (request.go:46-88).
ReplyIsWhatWasAsked ==
  \A q \in Requests : Granted(q) =>
    LET asked   == world.requests[q]
        scts    == handle[q].answer.scts
        entries == {e \in handle[q].found : e.id \in scts}
    IN  /\ Cardinality(scts) >= asked.SCTs
        /\ Cardinality({e.operator : e \in entries}) >= asked.Operators
        /\ asked.RequireAtLeastOneRFC6962SCT => \E e \in entries : ~e.tiled
        /\ asked.TestLogs => \A e \in entries : e.test
        /\ asked.PolicyCompliant /\ ~asked.TestLogs => \A e \in entries : ~e.test
        /\ ~asked.PolicyCompliant /\ ~asked.TestLogs => entries \subseteq world.lists["crtsh"]
        /\ scts \cap world.excluded = {}

\* "the intersection of logs marked as usable by Chrome, Apple, and Mozilla. Used for
\* policy-compliant TLS submissions" (docs/REST_API.md:195); "only logs in the `Usable`
\* state" (docs/SubmissionStrategy.md:50); "Qualified / future-Usable logs will be
\* filtered out per-request" (filter.go:95).
PolicyLogsAreUsable ==
  \A q \in Requests : PolicyGranted(q) =>
    \A i \in handle[q].answer.scts, list \in {"chrome", "apple", "mozilla"} : UsableNow(list, i)

\* "the log's temporal interval must cover the certificate's validity period"
\* (docs/SubmissionStrategy.md:49), of a log that three lists describe.
PolicyLogsTakeTheLeaf ==
  \A q \in Requests : PolicyGranted(q) =>
    \A i \in handle[q].answer.scts : InItsIntervals(i, Leaf(q))

\* "all non-test logs from the crt.sh active log list. Used for non-policy-compliant
\* submissions" (docs/REST_API.md:196); "If true, submit to Test CT logs instead of
\* Production CT logs" (docs/openapi.yaml:287, docs/REST_API.md:44).
NoTestLogIsUsedUnasked ==
  \A q \in Requests : Granted(q) /\ ~handle[q].sr.PolicyCompliant /\ ~handle[q].sr.TestLogs =>
    \A e \in handle[q].found : e.id \in handle[q].answer.scts => ~e.test

\* Each of the three follows from what the documents say of it, and this from any one of
\* them: a state in which it is false contradicts them all.
SomeLogsAreAsDocumented ==
  PolicyLogsAreUsable \/ PolicyLogsTakeTheLeaf \/ NoTestLogIsUsedUnasked

\* Nothing is known of a certificate that cannot be parsed.
LeafFits(chain) == Garbage \in {chain[1], chain[2]} \/ chain[1].signer = chain[2].ski

SameCAs(chain1, chain2) == Len(chain1) > 1 /\ Len(chain2) > 1 /\ Tail(chain1) = Tail(chain2)

\* A log is compatible with a chain if it is that chain that validates, although the
\* result may be another request's: the cache leaves out the leaf (chain.go:54-59).  It
\* is not so once a leaf has been submitted with CA certificates that did not issue it.
VerdictIsOwn ==
  \A q \in Requests :
    LET h     == handle[q]
        chain == h.sr.Chain
    IN
    /\ h.at \in {"look up", "validate", "issuer", "submit"}
    /\ \A r \in Requests : SameCAs(handle[r].sr.Chain, chain) => LeafFits(handle[r].sr.Chain)
    => \A e \in bases[h.base] :
         Admissible(e, h.sr, Leaf(q)) /\ e \notin h.todo \cup h.log =>
           (e \in h.found <=> e.id \notin DOMAIN world.accepted \/ Valid(e.id, chain))

\* A finite number of CA certificates, told apart by their hashes, that say truly with which
\* key they are signed, if they say: the tool follows what they say.
CAsAreTrue ==
  /\ IsFiniteSet(CACerts)
  /\ \A c, d \in CACerts : c.hash = d.hash => c = d
  /\ \A c \in CACerts : c.aki # NoKey => c.aki = c.signer

\* A chain that was discovered for a leaf alone is accepted by a log of the list it was
\* discovered for, however CAs have certified each other (discovery.go:110, and
\* cmd/optimalparents): following the best parent of each key in turn leads to a root.
DiscoveredChainIsAccepted ==
  \A q \in Requests :
    LET chain == handle[q].sr.Chain IN
    /\ handle[q].at = "filter"
    /\ Len(world.requests[q].Chain) = 1 /\ Len(chain) > 1
    /\ Leaf(q).aki = Leaf(q).signer
    /\ world.cas \subseteq world.known
    => \E l \in ColumnLogs(world, handle[q].base) \cap DOMAIN world.accepted : Valid(l, chain)

\* Discovery only extends a chain, and with a new certificate each time, so that it ends
\* even where CAs have certified one another (discovery.go:121).
DiscoveryMovesOn ==
  \A q \in Requests :
    LET chain == handle[q].sr.Chain
        given == world.requests[q].Chain
    IN  /\ Len(given) <= Len(chain)
        /\ \A i \in 1..Len(given) : chain[i] = given[i]
        /\ \A i \in (Len(given) + 1)..Len(chain), j \in 1..Len(chain) :
             chain[i] = chain[j] => i = j

\* A precertificate is submitted without its issuer's key only if CCADB does not know the
\* issuer, and only to logs that accept the issuer itself as a root, or of whose roots
\* nothing is known (handler.go:90-103; the key is needed at submitToLog.go:224).
IssuerIsKnown ==
  \A q \in Requests :
    LET h == handle[q] IN
    h.at = "submit" /\ Leaf(q).precert /\ h.spki = NoKey =>
      /\ \A c \in world.known : c.ski # Leaf(q).aki
      /\ \A e \in h.found :
           e.id \notin DOMAIN world.accepted
             \/ \E r \in world.accepted[e.id] : r.ski = Leaf(q).signer

\* A successful response has something of the SCTs in it (config.go:181); for a
\* certificate only if the logs' responses are included.
SuccessCarriesSCTs ==
  \A q \in Requests :
    LET answer == handle[q].answer IN
    Granted(q) =>
      /\ answer.LogResponse \/ answer.SCTList \/ answer.FinalTBSCert
           \/ (~Leaf(q).precert /\ ~world.config.IncludeLogResponses)
      /\ answer.scts # {}
============================================================================
