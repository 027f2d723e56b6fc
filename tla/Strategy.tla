------------------------------ MODULE Strategy -----------------------------
(***************************************************************************)
(* devizeSubmissionStrategy (submitter/strategy.go) beside the monitor: it *)
(* goes through the compatible logs one by one, reads for each up to eight *)
(* tables of the monitor, every one under a lock of its own, and sorts the *)
(* logs by the buckets it has put them in.  Meanwhile other submissions    *)
(* and the fetches in the background go on writing those tables.           *)
(***************************************************************************)
EXTENDS Monitor

CONSTANTS Excluded,         \* the logs excluded by configuration, or whose operator is
          Preferred,        \* the logs preferred by configuration
          MMD,              \* the logs' maximum merge delay
          SubmitEndpoint24h, LowestEndpoint90d \* the uptime thresholds

ASSUME StrategyAssumption ==
  /\ Excluded \subseteq Logs /\ Preferred \subseteq Logs
  /\ MMD \in Nat
  /\ SubmitEndpoint24h \in 0..100 /\ LowestEndpoint90d \in 0..100

\* The buckets and their numbers in the code.
BucketNumber ==
  [EXCLUDED         |-> 0, MMDBLOWN      |-> 1, LOWUPTIME |-> 2,
   RECENTBADRESPONSE |-> 3, RECENTTIMEOUT |-> 4, RECENT5XX |-> 5, RECENT4XX |-> 6,
   SLOWRESPONSES    |-> 7, NEUTRAL       |-> 8, PREFERRED_BYCONFIG |-> 9]

StrategyBuckets == DOMAIN BucketNumber

Unburdened == {"NEUTRAL", "PREFERRED_BYCONFIG"}

\* The order in which the backoffs are looked at, and the bucket for each.
BackoffOrder == <<"bad response", "timeout", "5xx", "4xx", "slow response">>
BackoffBucket ==
  <<"RECENTBADRESPONSE", "RECENTTIMEOUT", "RECENT5XX", "RECENT4XX", "SLOWRESPONSES">>

VARIABLES
  devizing, \* "idle", "head", "uptime24h", "uptime90d", "backoffs", "sort" or "done"
  member,   \* the log being looked at
  check,    \* the next backoff to look at, in BackoffOrder
  bucket,   \* the buckets given so far
  order,    \* the sorted strategy
  held      \* history: the backoffs when the strategy was begun

strategyVars == <<devizing, member, check, bucket, order, held>>
vars == <<now, failures, backoffUntil, sthTimestamp, fetches, nextFetch, uptime, startup,
          devizing, member, check, bucket, order, held>>

Looking == {"head", "uptime24h", "uptime90d", "backoffs"}

TypeOK ==
  /\ MonitorTypeOK
  /\ devizing \in {"idle", "sort", "done"} \cup Looking
  /\ member \in Nat /\ check \in 1..5
  /\ devizing \in Looking => member \in Logs
  /\ bucket \in [Logs -> StrategyBuckets]
  /\ order \in [Logs -> Logs]
  /\ held \in [BackoffKinds -> [Logs -> Nat]]

Init ==
  /\ MonitorInit
  /\ devizing = "idle"
  /\ member = 0 /\ check = 1
  /\ bucket = [l \in Logs |-> "NEUTRAL"]
  /\ order = [l \in Logs |-> l]
  /\ held = backoffUntil

---------------------------------------------------------------------------
\* A request is being handled, at any time: list the compatible logs.
Begin ==
  /\ devizing = "idle"
  /\ devizing' = "head"
  /\ member' = 1 /\ check' = 1
  /\ bucket' = [l \in Logs |-> IF l \in Excluded THEN "EXCLUDED" ELSE "NEUTRAL"]
  /\ held' = backoffUntil
  /\ UNCHANGED order

\* Mutant: the loop runs one log too far.
AfterTheNext == IF member > NumLogs THEN "sort" ELSE "head"

AfterMember == IF member = NumLogs THEN "sort" ELSE "head"

\* The log's bucket is settled: none of the checks left is made.
Settle(b) ==
  /\ bucket' = [bucket EXCEPT ![member] = b]
  /\ devizing' = AfterMember
  /\ member' = member + 1
  /\ check' = 1
  /\ UNCHANGED <<order, held>>

\* The check finds nothing: on to the next one.
GoOn(next) ==
  /\ devizing' = next
  /\ UNCHANGED <<member, check, bucket, order, held>>

\* A log excluded by configuration is looked at no further.  dispreferIfMMDBlown: a
\* log without an entry is excluded, a log without a head is let through.
LookAtHead ==
  LET age == now - sthTimestamp[member]
  IN  /\ devizing = "head"
      /\ \/ member \in Excluded \cup (Logs \ Monitored) /\ Settle("EXCLUDED")
         \/ /\ member \in Monitored \ Excluded
            /\ IF sthTimestamp[member] # 0 /\ age > MMD
               THEN Settle("MMDBLOWN") ELSE GoOn("uptime24h")

\* dispreferIfLowUptime, two reads; the second cannot better what the first has found.
LookAtUptime24h ==
  LET entry == uptime["24h"][member]
      low   == entry.listed /\ entry.submit < SubmitEndpoint24h
  IN  /\ devizing = "uptime24h"
      /\ IF low THEN Settle("LOWUPTIME") ELSE GoOn("uptime90d")

LookAtUptime90d ==
  LET entry == uptime["90d"][member]
      low   == entry.listed /\ entry.lowest < LowestEndpoint90d
  IN  /\ devizing = "uptime90d"
      /\ IF low THEN Settle("LOWUPTIME") ELSE GoOn("backoffs")

\* The five backoffs, and after the last of them applyLogPreferenceConfig.
LookAtBackoff ==
  LET found == InBackoff(BackoffOrder[check], member)
  IN  /\ devizing = "backoffs"
      /\ \/ found /\ Settle(BackoffBucket[check])
         \/ /\ ~found /\ check < 5
            /\ check' = check + 1
            /\ UNCHANGED <<devizing, member, bucket, order, held>>
         \/ /\ ~found /\ check = 5
            /\ Settle(IF member \in Preferred THEN "PREFERRED_BYCONFIG" ELSE "NEUTRAL")

\* By bucket, and by random weight within a bucket: any order within it may result.
Sorted(o) ==
  /\ \A i, j \in Logs : o[i] = o[j] => i = j
  /\ \A i, j \in Logs : i < j => BucketNumber[bucket[o[i]]] >= BucketNumber[bucket[o[j]]]

Sort ==
  /\ devizing = "sort"
  /\ \E o \in [Logs -> Logs] : Sorted(o) /\ order' = o
  /\ devizing' = "done"
  /\ UNCHANGED <<member, check, bucket, held>>

Devize ==
  \/ Begin
  \/ LookAtHead \/ LookAtUptime24h \/ LookAtUptime90d \/ LookAtBackoff
  \/ Sort

Next ==
  \/ MonitorNext /\ UNCHANGED strategyVars
  \/ Devize /\ UNCHANGED monitorVars

Spec == Init /\ [][Next]_vars

---------------------------------------------------------------------------
(***************************************************************************)
(* Properties.                                                             *)
(***************************************************************************)

\* A log that is in a backoff from before its strategy is begun until after it is
\* finished comes behind every log that nothing is held against, whatever is
\* recorded of it meanwhile, later failures with a shorter backoff included
\* (backoffHandler.go:59, 102; strategy.go:90-137).
PenaltyIsRespected ==
  devizing = "done" =>
    \A l \in Logs :
      (\E k \in BackoffKinds : held[k][l] > now) =>
        \A i, j \in Logs :
          order[j] = l /\ bucket[order[i]] \in Unburdened => i < j

\* A log that always answers, and whose uptimes are never low, is not demoted: the
\* heads that ctsubmit fetches, slowly and in any order, never get so old that the
\* log seems to have blown its MMD (sthMonitor.go:77-102, 140-146; strategy.go:164).
NeverLow(l) ==
  \A file \in CsvFiles :
    LET entry == EntryFrom(file[l])
    IN  entry.listed => entry.submit >= SubmitEndpoint24h /\ entry.lowest >= LowestEndpoint90d

HealthyLogIsNotDemoted ==
  devizing = "done" =>
    \A l \in Monitored \ Excluded :
      NeverLow(l) /\ (\A k \in BackoffKinds : backoffUntil[k][l] = 0) => bucket[l] \in Unburdened

\* The service is "not ready" until its "initial data is loaded" (main.go:46, health.go:32),
\* and a log with "no STH data available" is excluded (docs/SubmissionStrategy.md:73): by
\* either, a service that says it is ready contacts no log that has neither given a tree
\* head nor failed to give one.
NoUnknownLogIsUsed ==
  initialDataReady /\ devizing = "sort" =>
    \A l \in Logs : bucket[l] # "EXCLUDED" =>
      sthTimestamp[l] # 0 \/ \E k \in BackoffKinds : backoffUntil[k][l] # 0
============================================================================
