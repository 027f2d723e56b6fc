------------------------------ MODULE HandleMC -----------------------------
(***************************************************************************)
(* Worlds for TLC.  Each family varies what one part of Handle depends on  *)
(* and leaves the rest as it usually is.                                   *)
(***************************************************************************)
EXTENDS Handle

LogIds == {"l1", "l2", "l3"}

CA(hash, ski, aki, signer, notAfter) ==
  [hash |-> hash, ski |-> ski, aki |-> aki, signer |-> signer, notAfter |-> notAfter]

\* Two roots, the second without an AKI, and intermediates that they have certified, and
\* that have certified each other.
RootR == CA(1, "R", "R", "R", 8)
RootS == CA(2, "S", NoKey, "S", 9)
ByR   == CA(3, "A", "R", "R", 6)
ByS   == CA(4, "A", "S", "S", 7)
ByA   == CA(5, "B", "A", "A", 6)
ByB   == CA(6, "A", "B", "B", 6)
RByS  == CA(7, "R", "S", "S", 9)

AllCAs == {RootR, RootS, ByR, ByS, ByA, ByB, RByS}

\* What the theorem about discovered chains asks of the CAs holds of these.
ASSUME TrueCAs == CAsAreTrue

\* A leaf says by whom it was issued, and may be wrong or silent.
Certificate(aki, signer) ==
  [hash |-> 10, ski |-> "L", aki |-> aki, signer |-> signer, notAfter |-> 4,
   precert |-> FALSE, mark |-> FALSE, long |-> FALSE]
Precertificate(aki, signer) == [Certificate(aki, signer) EXCEPT !.precert = TRUE]

Usual == Precertificate("A", "A")
Old   == [Usual EXCEPT !.notAfter = 1]
Long  == [Usual EXCEPT !.long = TRUE]
Mark  == [Certificate("A", "A") EXCEPT !.mark = TRUE]
Alien == [Usual EXCEPT !.aki = "B", !.signer = "B"]
Other == [Usual EXCEPT !.hash = 11]
Mute  == [Usual EXCEPT !.aki = NoKey]
Silent == [Certificate("A", "A") EXCEPT !.aki = NoKey]
AllLeaves ==
  {Usual, Old, Long, Mark, Alien, Other, Mute, Silent, Certificate("A", "A"),
   Precertificate("R", "R"), Precertificate("B", "B")}

E(id, operator, tiled) ==
  [id |-> id, operator |-> operator, tiled |-> tiled, test |-> FALSE, bogus |-> FALSE,
   qualified |-> 0, usable |-> 1, ended |-> 0, interval |-> NoInterval]

Three == {E("l1", "opA", FALSE), E("l2", "opB", TRUE), E("l3", "opB", FALSE)}
Tests == {[e EXCEPT !.test = TRUE, !.usable = 0] : e \in Three}

UsualLists ==
  [chrome |-> Three, apple |-> Three, mozilla |-> Three, crtsh |-> Three, bimi |-> {},
   custom |-> {}]

PrecertRequest ==
  [endpoint |-> "add-pre-chain", Chain |-> <<Usual, ByR>>, DiscoverChain |-> FALSE,
   PolicyCompliant |-> TRUE, Mimics |-> FALSE, TestLogs |-> FALSE, Operators |-> 1, SCTs |-> 1,
   RequireAtLeastOneRFC6962SCT |-> FALSE, PreferAtLeastOneStaticSCT |-> FALSE,
   Verbose |-> FALSE]

For(chains) == {[PrecertRequest EXCEPT !.Chain = chain] : chain \in chains}

Unrestricted(requests) == {[r EXCEPT !.PolicyCompliant = FALSE] : r \in requests}
Discovering(requests)  == {[r EXCEPT !.DiscoverChain = TRUE] : r \in requests}

Plain == [IncludeLogResponses |-> TRUE, IncludeSCTList |-> FALSE, ProduceFinalTBSCert |-> FALSE]

Roots(first, second) == ("l1" :> first) @@ ("l2" :> second)

\* Any CAs, and two logs that accept one root or both, an intermediate or nothing.
DiscoveryWorlds ==
  [lists : {UsualLists}, cas : SUBSET AllCAs, known : {AllCAs}, excluded : {{}}, config : {Plain},
   accepted : {Roots({RootR} \cup more, second) :
                 more \in {{}, {RootS}}, second \in {{}, {RootS}, {ByA}, {ByA, ByB}, {ByR, RootS}}},
   requests : [{"q1"} -> Unrestricted(Discovering(For({<<Usual>>, <<Precertificate("B", "B")>>})))]]

\* Chains that have a beginning already, roots included; CAs that CCADB has lost since.
ExtensionWorlds ==
  [lists : {UsualLists}, cas : {AllCAs, AllCAs \ {ByS}, AllCAs \ {ByR}},
   known : {AllCAs, AllCAs \ {ByS}}, excluded : {{}}, config : {Plain},
   accepted : {Roots({RootS}, {RootR})},
   requests : [{"q1"} -> Unrestricted(Discovering(For(
     {<<Usual, ByB>>, <<Usual, ByR>>, <<Usual, ByR, RootR>>, <<Usual, Garbage>>,
      <<Precertificate("B", "B"), ByA>>, <<Mute>>})))]]

\* What the three browsers may say about the first log, and leaves of all ages.
First == E("l1", "opA", FALSE)
Rest  == Three \ {First}

Chromes ==
  {[First EXCEPT !.usable = u, !.ended = x, !.interval = i] :
     u \in {1, 3}, x \in {0, 1}, i \in {NoInterval, <<0, 6>>, <<5, 6>>}}
  \cup {[First EXCEPT !.bogus = TRUE]}
Apples ==
  {{}} \cup {{[First EXCEPT !.usable = u, !.interval = i]} :
               u \in {1, 3}, i \in {NoInterval, <<0, 4>>}}
Mozillas ==
  {{}} \cup {{[First EXCEPT !.qualified = s[1], !.usable = s[2], !.interval = <<2, 9>>]} :
               s \in {<<1, 0>>, <<1, 3>>, <<0, 1>>, <<0, 3>>}}

FilterWorlds ==
  [lists : [chrome : {Rest \cup {c} : c \in Chromes}, apple : {Rest \cup a : a \in Apples},
            mozilla : {Rest \cup m : m \in Mozillas}, crtsh : {Three}, bimi : {{}}, custom : {{}}],
   cas : {{}}, known : {{}}, excluded : {{}}, config : {Plain},
   accepted : {[l \in LogIds |-> {RootR}]},
   requests : [{"q1"} -> For({<<Usual, ByR>>, <<Old, ByR>>, <<Long, ByR>>})]]

\* Requests of every kind, with every configuration.
KindWorlds ==
  [lists : {[UsualLists EXCEPT !.bimi = Three]},
   cas : {{}}, known : {{}}, excluded : {{}}, config : ResponseConfig,
   accepted : {[l \in LogIds |-> {RootR}]},
   requests : [{"q1"} ->
     [endpoint : {"add-chain", "add-pre-chain"},
      Chain : {<<>>, <<Garbage>>, <<Usual, ByR>>, <<Silent, ByR>>, <<Mark, ByR>>},
      DiscoverChain : {FALSE}, PolicyCompliant : BOOLEAN, Mimics : BOOLEAN, TestLogs : {FALSE},
      Operators : {1}, SCTs : {1}, RequireAtLeastOneRFC6962SCT : {FALSE},
      PreferAtLeastOneStaticSCT : {FALSE}, Verbose : BOOLEAN]]]

\* How many SCTs, from which logs: production, test or custom ones, some excluded; the
\* issuer is found in the chain, in CCADB or not at all.
NumberWorlds ==
  [lists : {[UsualLists EXCEPT !.crtsh = Tests, !.custom = custom] : custom \in {{}, Tests}},
   cas : {{}}, known : {{ByR}, {RootR}}, excluded : {{}, {"l3"}, LogIds}, config : {Plain},
   accepted : {[l \in LogIds |-> {ByR}], [l \in {"l2"} |-> {ByR}]},
   requests : [{"q1"} ->
     [endpoint : {"add-pre-chain"}, Chain : {<<Usual>>, <<Mute>>, <<Usual, Garbage>>},
      DiscoverChain : {FALSE}, PolicyCompliant : BOOLEAN, Mimics : {FALSE}, TestLogs : BOOLEAN,
      Operators : {-1, 2}, SCTs : {0, 3}, RequireAtLeastOneRFC6962SCT : BOOLEAN,
      PreferAtLeastOneStaticSCT : {FALSE}, Verbose : {FALSE}]]]

\* Two requests at once, with the same CAs or others, for logs with other roots each.
CacheWorlds ==
  [lists : {UsualLists}, cas : {{}, AllCAs}, known : {AllCAs}, excluded : {{}}, config : {Plain},
   accepted : {Roots({RootR}, {RootS})},
   requests : [{"q1", "q2"} -> Unrestricted(Discovering(For(
     {<<Usual, ByR>>, <<Usual>>, <<Other, ByR>>, <<Alien, ByR>>, <<Other, ByS>>})))]]

\* Two logs of the browsers, the first of which Mozilla has as qualified only and only
\* Apple gives an interval, and a test log that crt.sh has besides: one request that asks
\* for policy compliance, one that does not.
Second == E("l2", "opB", TRUE)
Test   == [E("l3", "opB", FALSE) EXCEPT !.test = TRUE, !.usable = 0]

ListWorlds ==
  [lists : {[chrome |-> {First, Second}, apple |-> {[First EXCEPT !.interval = <<0, 4>>], Second},
             mozilla |-> {[First EXCEPT !.qualified = 1, !.usable = 0], Second},
             crtsh |-> {First, Second, Test}, bimi |-> {}, custom |-> {}]},
   cas : {{}}, known : {{}}, excluded : {{}}, config : {Plain},
   accepted : {[l \in LogIds |-> {RootR}]},
   requests : {("q1" :> PrecertRequest) @@ ("q2" :> [PrecertRequest EXCEPT !.PolicyCompliant = FALSE])}]

AllWorlds ==
  DiscoveryWorlds \cup ExtensionWorlds \cup FilterWorlds \cup KindWorlds \cup NumberWorlds
    \cup CacheWorlds \cup ListWorlds
============================================================================
