------------------------------ MODULE SubmitMC -----------------------------
(***************************************************************************)
(* Instances of Submit for TLC: strategies over two operators and both log *)
(* types, and requests.  The first log is always of operator opA, since    *)
(* renaming the operators changes nothing.                                 *)
(***************************************************************************)
EXTENDS Submit

CONSTANTS opA, opB

Member(operator, type, bucket) == [Operator |-> operator, LogType |-> type, Bucket |-> bucket]

Request(scts, operators, require, prefer) ==
  [SCTs |-> scts, Operators |-> operators,
   RequireAtLeastOneRFC6962SCT |-> require, PreferAtLeastOneStaticSCT |-> prefer]

\* Any strategy of two logs, before a third that is excluded.
TwoLogs ==
  {<<first, second, Member(opA, "LOGTYPE_RFC6962", "EXCLUDED")>> :
     first  \in {Member(opA, type, bucket) : type \in LogTypes, bucket \in Buckets},
     second \in {Member(o, type, bucket) : o \in {opA, opB}, type \in LogTypes, bucket \in Buckets}}

\* Three logs, where a second and a third choice exist: two logs of one operator
\* in either place, one or two static logs.
ThreeLogs ==
  {<<Member(opA, "LOGTYPE_STATIC", "RANKED"), Member(opB, "LOGTYPE_RFC6962", "RANKED"),
     Member(opA, "LOGTYPE_RFC6962", "RANKED")>>,
   <<Member(opA, "LOGTYPE_STATIC", "RANKED"), Member(opA, "LOGTYPE_RFC6962", "RANKED"),
     Member(opB, "LOGTYPE_STATIC", "RANKED")>>}

AllStrategies == TwoLogs \cup ThreeLogs

\* One SCT with and without conditions, the policy's default, and the default with an
\* RFC 6962 log.
AllRequests ==
  {Request(1, 1, FALSE, FALSE), Request(1, 1, TRUE, TRUE),
   Request(2, 2, FALSE, TRUE), Request(2, 2, TRUE, TRUE)}

\* Any log may be late; the one that is second may be called slow besides.
LateOrSlow ==
  [i \in 1..3 |-> IF i = 2 THEN {"eventTryNext", "eventSlow"} ELSE {"eventTryNext"}]
============================================================================
