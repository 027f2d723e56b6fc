--------------------------- MODULE StrategyProofs --------------------------
(***************************************************************************)
(* Proofs about Strategy, for any logs, configuration, uptime files and    *)
(* Retry-After headers.                                                    *)
(***************************************************************************)
EXTENDS Strategy, TLAPS

\* Nothing held against log l when the strategy was begun holds still.
NothingHeld(l) == \A k \in BackoffKinds : held[k][l] <= now

\* Backoffs have only been extended since the strategy was begun.
HeldIsInForce == \A k \in BackoffKinds, l \in Logs : held[k][l] <= backoffUntil[k][l]

\* The logs before this one have been looked at.
Done == IF devizing \in {"sort", "done"} THEN Logs
        ELSE IF devizing \in Looking THEN 1..(member - 1) ELSE {}

\* A log is left unburdened only if nothing was held against it, and the backoffs
\* of the present one that were looked at had run out.
Judged ==
  /\ \A l \in Done : bucket[l] \in Unburdened => NothingHeld(l)
  /\ devizing \in Looking \ {"backoffs"} => check = 1
  /\ devizing = "backoffs" => \A c \in 1..(check - 1) : held[BackoffOrder[c]][member] <= now

OrderIsSorted == devizing = "done" => Sorted(order)

IInv == TypeOK /\ HeldIsInForce /\ Judged /\ OrderIsSorted

---------------------------------------------------------------------------
(***************************************************************************)
(* Operators.                                                              *)
(***************************************************************************)

\* The constants' assumptions that the steps below need.
LEMMA Constants ==
  /\ NumLogs \in Nat /\ Logs = 1..NumLogs
  /\ Monitored \subseteq Logs
  /\ FailingKinds \subseteq BackoffKinds
  /\ RefreshInterval \in Nat
<1> QED
  BY MonitorAssumption DEF MonitorAssumption, Logs

\* Every check looks at one of the kinds of backoff ...
LEMMA BackoffOrderType ==
  ASSUME NEW c \in 1..5
  PROVE  BackoffOrder[c] \in BackoffKinds
<1>1. BackoffOrder \in Seq(BackoffKinds) /\ Len(BackoffOrder) = 5
  BY DEF BackoffOrder, BackoffKinds
<1> QED
  BY <1>1

\* ... and every kind is looked at.
LEMMA AllBackoffs == \A k \in BackoffKinds : \E c \in 1..5 : k = BackoffOrder[c]
<1>1. /\ BackoffOrder[1] = "bad response" /\ BackoffOrder[2] = "timeout"
      /\ BackoffOrder[3] = "5xx" /\ BackoffOrder[4] = "4xx"
      /\ BackoffOrder[5] = "slow response"
  BY DEF BackoffOrder
<1>2. /\ 1 \in 1..5 /\ 2 \in 1..5 /\ 3 \in 1..5 /\ 4 \in 1..5 /\ 5 \in 1..5
  OBVIOUS
<1> QED
  BY <1>1, <1>2, Zenon DEF BackoffKinds

\* A backoff lasts no negative time, whatever the header (backoffHandler.go:84-90, 218-238).
LEMMA DurationType ==
  ASSUME now \in Nat, NEW kind \in BackoffKinds, NEW header \in RetryAfters
  PROVE  BackoffDuration(kind, header) \in Nat
<1> USE MonitorAssumption DEF MonitorAssumption
<1>1. Period[kind] \in Nat
  OBVIOUS
<1>2. header.value \in Nat
  <2>1. header \in RetryAfterHeaders
    OBVIOUS
  <2> QED
    BY <2>1 DEF RetryAfterHeaders
<1>3. header.value % DurationRange \in Nat
  BY <1>2
<1>4. Wrapped(header.value) \in Int
  BY <1>2, <1>3 DEF Wrapped
<1>5. parseRetryAfter(header) \in Int
  BY <1>2, <1>4 DEF parseRetryAfter
<1> QED
  BY <1>1, <1>5 DEF BackoffDuration

\* An uptime file gives percentages (uptimeFetcher.go:115-154).
LEMMA EntryType ==
  ASSUME NEW row \in [Endpoints -> Percentages]
  PROVE  EntryFrom(row) \in UptimeEntry
<1> DEFINE S == Numbers(row) \cup {100}
           least == CHOOSE p \in S : \A q \in S : p <= q
<1>1. S \subseteq 0..100
  BY DEF Numbers
<1>2. \E p \in S : \A q \in S : p <= q
  <2> DEFINE a == row["submit"]  b == row["other"]
  <2>1. a \in Int /\ b \in Int
    BY DEF Endpoints, Percentages, Missing, Garbled
  <2>2. S = ({a, b} \cap 0..100) \cup {100}
    BY DEF Numbers, Endpoints
  <2> HIDE DEF a, b, S
  <2>3. CASE a \in 0..100 /\ (b \in 0..100 => a <= b)
    BY <2>1, <2>2, <2>3
  <2>4. CASE b \in 0..100 /\ (a \in 0..100 => b <= a)
    BY <2>1, <2>2, <2>4
  <2>5. CASE a \notin 0..100 /\ b \notin 0..100
    BY <2>1, <2>2, <2>5
  <2> QED
    BY <2>1, <2>3, <2>4, <2>5
<1>3. least \in S
  BY <1>2
<1>4. least \in 0..100
  BY <1>1, <1>3
<1> DEFINE submit == IF row["submit"] >= 0 THEN row["submit"] ELSE 0
<1>5. submit \in 0..100 /\ 0 \in 0..100
  BY DEF Endpoints, Percentages, Missing, Garbled
<1> HIDE DEF S, least, submit
<1>6. EntryFrom(row) \in {NoUptime, [listed |-> TRUE, submit |-> submit, lowest |-> least]}
  BY DEF EntryFrom, least, S, submit
<1>7. [listed |-> TRUE, submit |-> submit, lowest |-> least] \in UptimeEntry
  BY <1>4, <1>5, Zenon DEF UptimeEntry
<1>8. NoUptime \in UptimeEntry
  BY <1>5, Zenon DEF UptimeEntry, NoUptime
<1> QED
  BY <1>6, <1>7, <1>8

\* A fetch leaves a table of them (uptimeFetcher.go:85-157).
LEMMA FetchUptimesType ==
  ASSUME uptime \in [Windows -> [Logs -> UptimeEntry]], NEW w \in Windows, FetchUptimes(w)
  PROVE  uptime' \in [Windows -> [Logs -> UptimeEntry]]
<1>1. CASE UNCHANGED uptime
  BY <1>1
<1>2. CASE \E file \in CsvFiles :
             uptime' = [uptime EXCEPT ![w] = [l \in Logs |-> EntryFrom(file[l])]]
  <2>1. PICK file \in CsvFiles :
          uptime' = [uptime EXCEPT ![w] = [l \in Logs |-> EntryFrom(file[l])]]
    BY <1>2
  <2>2. \A l \in Logs : file[l] \in [Endpoints -> Percentages]
    BY MonitorAssumption DEF MonitorAssumption
  <2>3. [l \in Logs |-> EntryFrom(file[l])] \in [Logs -> UptimeEntry]
    BY <2>2, EntryType
  <2> QED
    BY <2>1, <2>3
<1> QED
  BY <1>1, <1>2 DEF FetchUptimes

\* Recording a failure shortens no backoff (backoffHandler.go:54-58, 101-106).
LEMMA RecordExtends ==
  ASSUME now \in Nat, failures \in Nat,
         backoffUntil \in [BackoffKinds -> [Logs -> Nat]],
         NEW kind \in BackoffKinds, NEW log \in Logs, NEW header \in RetryAfters,
         Record(kind, log, header)
  PROVE  /\ backoffUntil' \in [BackoffKinds -> [Logs -> Nat]]
         /\ failures' \in Nat
         /\ \A k \in BackoffKinds, l \in Logs : backoffUntil[k][l] <= backoffUntil'[k][l]
<1> DEFINE until == Extended(backoffUntil[kind][log], now + BackoffDuration(kind, header))
<1>1. until \in Nat /\ backoffUntil[kind][log] <= until
  BY DurationType DEF Extended
<1> HIDE DEF until
<1>2. backoffUntil' = [backoffUntil EXCEPT ![kind][log] = until]
  BY DEF Record, until
<1>3. failures' \in Nat
  BY DEF Record
<1>4. backoffUntil' = [backoffUntil EXCEPT ![kind] = [backoffUntil[kind] EXCEPT ![log] = until]]
  BY <1>2
<1>5. [backoffUntil[kind] EXCEPT ![log] = until] \in [Logs -> Nat]
  BY <1>1
<1>6. backoffUntil' \in [BackoffKinds -> [Logs -> Nat]]
  BY <1>4, <1>5
<1>7. ASSUME NEW k \in BackoffKinds, NEW l \in Logs
      PROVE  backoffUntil[k][l] <= backoffUntil'[k][l]
  <2>1. CASE k = kind /\ l = log
    BY <1>1, <1>4, <2>1
  <2>2. CASE k # kind \/ l # log
    BY <1>4, <2>2
  <2> QED
    BY <2>1, <2>2
<1> QED
  BY <1>3, <1>6, <1>7

---------------------------------------------------------------------------
(***************************************************************************)
(* The monitor's actions.                                                  *)
(***************************************************************************)

\* What a step of the monitor does for the strategy: time goes on, and backoffs are
\* only extended.
MonitorGoesOn ==
  /\ MonitorTypeOK'
  /\ now <= now'
  /\ \A k \in BackoffKinds, l \in Logs : backoffUntil[k][l] <= backoffUntil'[k][l]

\* The goroutines that are started are fetches.
LEMMA NewFetchesType ==
  ASSUME MonitorTypeOK, FetchAllSTHs
  PROVE  fetches' \subseteq Fetch
<1> QED
  BY DEF MonitorTypeOK, FetchAllSTHs, Fetch

\* Every action of the monitor.
LEMMA MonitorSteps ==
  ASSUME MonitorTypeOK, MonitorNext
  PROVE  MonitorGoesOn
<1>1. \A k \in BackoffKinds, l \in Logs : backoffUntil[k][l] \in Nat
  BY DEF MonitorTypeOK
<1>2. CASE SubmissionFails
  <2>1. PICK kind \in FailingKinds, log \in Logs, header \in RetryAfters :
          Record(kind, log, header)
    BY <1>2 DEF SubmissionFails
  <2>2. /\ backoffUntil' \in [BackoffKinds -> [Logs -> Nat]]
        /\ failures' \in Nat
        /\ \A k \in BackoffKinds, l \in Logs : backoffUntil[k][l] <= backoffUntil'[k][l]
    BY <2>1, Constants, RecordExtends DEF MonitorTypeOK
  <2> QED
    BY <1>2, <2>2 DEF SubmissionFails, MonitorTypeOK, MonitorGoesOn
<1>3. CASE RefreshHeads
  BY <1>1, <1>3, Constants, NewFetchesType DEF RefreshHeads, MonitorTypeOK, MonitorGoesOn
<1>4. ASSUME NEW f \in fetches, LogAnswers(f)
      PROVE  MonitorGoesOn
  <2>1. PICK head \in 1..now : fetches' = (fetches \ {f}) \cup {[f EXCEPT !.head = head]}
    BY <1>4 DEF LogAnswers
  <2>2. f \in Fetch /\ head \in Nat
    BY DEF MonitorTypeOK
  <2>3. [f EXCEPT !.head = head] \in Fetch
    BY <2>2 DEF Fetch
  <2>4. fetches' \subseteq Fetch
    BY <2>1, <2>3 DEF MonitorTypeOK
  <2> QED
    BY <1>1, <1>4, <2>4 DEF LogAnswers, MonitorTypeOK, MonitorGoesOn
<1>5. ASSUME NEW f \in fetches, StoreHead(f)
      PROVE  MonitorGoesOn
  <2>1. f.head \in Nat /\ f.log \in Logs
    BY Constants DEF MonitorTypeOK, Fetch
  <2>2. sthTimestamp' \in [Logs -> Nat]
    BY <1>5, <2>1 DEF StoreHead, MonitorTypeOK
  <2> QED
    BY <1>1, <1>5, <2>2 DEF StoreHead, MonitorTypeOK, MonitorGoesOn
<1>6. ASSUME NEW f \in fetches, FetchFails(f)
      PROVE  MonitorGoesOn
  <2>1. PICK kind \in FailingKinds, header \in RetryAfters : Record(kind, f.log, header)
    BY <1>6 DEF FetchFails
  <2>2. f.log \in Logs
    BY Constants DEF MonitorTypeOK, Fetch
  <2>3. /\ backoffUntil' \in [BackoffKinds -> [Logs -> Nat]]
        /\ failures' \in Nat
        /\ \A k \in BackoffKinds, l \in Logs : backoffUntil[k][l] <= backoffUntil'[k][l]
    BY <2>1, <2>2, Constants, RecordExtends DEF MonitorTypeOK
  <2>4. /\ fetches' = fetches \ {f}
        /\ UNCHANGED <<now, sthTimestamp, nextFetch, uptime, startup>>
    BY <1>6 DEF FetchFails
  <2> QED
    BY <2>3, <2>4 DEF MonitorTypeOK, MonitorGoesOn
<1>7. CASE RefreshUptimes
  BY <1>1, <1>7, FetchUptimesType DEF RefreshUptimes, MonitorTypeOK, MonitorGoesOn
<1>8. CASE LoadUptimes
  <2>1. PICK w \in Windows : FetchUptimes(w)
    BY <1>8 DEF LoadUptimes, Windows
  <2> QED
    BY <1>1, <1>8, <2>1, FetchUptimesType DEF LoadUptimes, MonitorTypeOK, MonitorGoesOn
<1>9. CASE LoadHeads
  BY <1>1, <1>9, NewFetchesType DEF LoadHeads, MonitorTypeOK, MonitorGoesOn
<1>10. CASE SetInitialDataReady
  BY <1>1, <1>10 DEF SetInitialDataReady, MonitorTypeOK, MonitorGoesOn
<1>11. CASE Tick
  BY <1>1, <1>11 DEF Tick, MonitorTypeOK, MonitorGoesOn
<1> QED
  BY <1>2, <1>3, <1>4, <1>5, <1>6, <1>7, <1>8, <1>9, <1>10, <1>11 DEF MonitorNext

---------------------------------------------------------------------------
(***************************************************************************)
(* The inductive invariant.                                                *)
(***************************************************************************)

\* Initially.
LEMMA InitHolds == Init => IInv
<1> SUFFICES ASSUME Init PROVE IInv
  OBVIOUS
<1> USE MonitorAssumption DEF MonitorAssumption
<1>1. MonitorTypeOK
  <2>1. uptime \in [Windows -> [Logs -> UptimeEntry]]
    <3>1. NoUptime \in UptimeEntry
      <4>1. 0 \in 0..100
        OBVIOUS
      <4> QED
        BY <4>1, Zenon DEF UptimeEntry, NoUptime
    <3> QED
      BY <3>1 DEF Init, MonitorInit
  <2> QED
    BY <2>1 DEF Init, MonitorInit, MonitorTypeOK
<1>2. TypeOK
  BY <1>1 DEF Init, MonitorInit, TypeOK, Looking, StrategyBuckets, BucketNumber
<1>3. HeldIsInForce
  BY <1>1 DEF Init, HeldIsInForce, MonitorTypeOK
<1>4. Judged /\ OrderIsSorted
  BY DEF Init, Judged, OrderIsSorted, Done, Looking
<1> QED
  BY <1>2, <1>3, <1>4 DEF IInv

\* The monitor does not disturb the strategy being drawn up.
LEMMA MonitorKeepsIInv ==
  ASSUME IInv, MonitorNext, UNCHANGED strategyVars
  PROVE  IInv'
<1>1. MonitorGoesOn
  BY MonitorSteps DEF IInv, TypeOK
<1>2. TypeOK'
  BY <1>1 DEF IInv, TypeOK, MonitorGoesOn, strategyVars
<1>3. HeldIsInForce'
  BY <1>1, <1>2 DEF IInv, TypeOK, HeldIsInForce, MonitorGoesOn, MonitorTypeOK, strategyVars
<1>4. \A k \in BackoffKinds, l \in Logs : held[k][l] <= now => held[k][l] <= now'
  BY <1>1 DEF IInv, TypeOK, MonitorTypeOK, MonitorGoesOn
<1>5. Judged'
  <2>1. Done' = Done
    BY DEF Done, strategyVars
  <2>2. Done \subseteq Logs
    BY Constants DEF Done, IInv, TypeOK, Looking
  <2>3. \A l \in Done : bucket[l] \in Unburdened => \A k \in BackoffKinds : held[k][l] <= now'
    BY <1>4, <2>2 DEF IInv, Judged, NothingHeld
  <2>4. devizing = "backoffs" =>
          \A c \in 1..(check - 1) : held[BackoffOrder[c]][member] <= now'
    <3> SUFFICES ASSUME devizing = "backoffs", NEW c \in 1..(check - 1)
                 PROVE  held[BackoffOrder[c]][member] <= now'
      OBVIOUS
    <3>1. c \in 1..5 /\ member \in Logs
      BY DEF IInv, TypeOK, Looking
    <3>2. BackoffOrder[c] \in BackoffKinds
      BY <3>1, BackoffOrderType
    <3> QED
      BY <1>4, <3>1, <3>2 DEF IInv, Judged
  <2> QED
    BY <2>1, <2>3, <2>4 DEF IInv, Judged, NothingHeld, strategyVars
<1>6. OrderIsSorted'
  BY DEF IInv, OrderIsSorted, Sorted, strategyVars
<1> QED
  BY <1>2, <1>3, <1>5, <1>6 DEF IInv
---------------------------------------------------------------------------
(***************************************************************************)
(* The steps of devizeSubmissionStrategy.                                  *)
(***************************************************************************)

\* The buckets that burden a log come below those that do not (bucket.go:7-18).
LEMMA Buckets ==
  /\ StrategyBuckets = {"EXCLUDED", "MMDBLOWN", "LOWUPTIME", "RECENTBADRESPONSE",
                        "RECENTTIMEOUT", "RECENT5XX", "RECENT4XX", "SLOWRESPONSES",
                        "NEUTRAL", "PREFERRED_BYCONFIG"}
  /\ \A b \in StrategyBuckets : BucketNumber[b] \in Nat
  /\ \A b \in StrategyBuckets \ Unburdened : BucketNumber[b] <= 7
  /\ \A b \in Unburdened : BucketNumber[b] >= 8
<1> QED
  BY DEF StrategyBuckets, BucketNumber, Unburdened

\* A backoff that is found burdens the log.
LEMMA BackoffBuckets ==
  ASSUME NEW c \in 1..5
  PROVE  BackoffBucket[c] \in StrategyBuckets \ Unburdened
<1>1. /\ BackoffBucket[1] = "RECENTBADRESPONSE" /\ BackoffBucket[2] = "RECENTTIMEOUT"
      /\ BackoffBucket[3] = "RECENT5XX" /\ BackoffBucket[4] = "RECENT4XX"
      /\ BackoffBucket[5] = "SLOWRESPONSES"
  BY DEF BackoffBucket
<1>2. c = 1 \/ c = 2 \/ c = 3 \/ c = 4 \/ c = 5
  OBVIOUS
<1> QED
  BY <1>1, <1>2, Buckets, Zenon DEF Unburdened

\* Settling a log's bucket is sound if nothing is held against a log left unburdened.
LEMMA SettleKeepsIInv ==
  ASSUME IInv, devizing \in Looking, UNCHANGED monitorVars,
         NEW b \in StrategyBuckets, Settle(b),
         b \in Unburdened => NothingHeld(member)
  PROVE  IInv'
<1>1. member \in 1..NumLogs /\ Logs = 1..NumLogs /\ NumLogs \in Nat
  BY Constants DEF IInv, TypeOK
<1>2. /\ bucket' = [bucket EXCEPT ![member] = b]
      /\ member' = member + 1 /\ check' = 1
      /\ order' = order /\ held' = held
      /\ devizing' = AfterMember
  BY DEF Settle
<1>3. /\ now' = now /\ backoffUntil' = backoffUntil /\ MonitorTypeOK'
  BY DEF monitorVars, IInv, TypeOK, MonitorTypeOK
<1>4. \/ devizing' = "sort" /\ member = NumLogs
      \/ devizing' = "head" /\ member # NumLogs
  BY <1>2 DEF AfterMember
<1>5. TypeOK'
  <2>1. devizing' \in {"sort", "head"}
    BY <1>4
  <2>2. bucket' \in [Logs -> StrategyBuckets]
    BY <1>2 DEF IInv, TypeOK
  <2>3. devizing' \in Looking => member' \in Logs
    BY <1>1, <1>2, <1>4 DEF Looking
  <2>4. member' \in Nat /\ check' \in 1..5
    BY <1>1, <1>2
  <2> QED
    BY <1>2, <1>3, <2>1, <2>2, <2>3, <2>4 DEF IInv, TypeOK, Looking
<1>6. HeldIsInForce'
  BY <1>2, <1>3 DEF IInv, HeldIsInForce
<1>7. Judged'
  <2>1. Done = 1..(member - 1)
    BY DEF Done, Looking
  <2>2. Done' = 1..member
    BY <1>1, <1>2, <1>4 DEF Done, Looking
  <2>3. ASSUME NEW l \in Done', bucket'[l] \in Unburdened
        PROVE  NothingHeld(l)'
    <3>1. CASE l = member
      <4>1. bucket'[l] = b
        BY <1>1, <1>2, <3>1 DEF IInv, TypeOK
      <4> QED
        BY <1>2, <1>3, <2>3, <3>1, <4>1 DEF NothingHeld
    <3>2. CASE l # member
      <4>1. l \in Done /\ l \in Logs
        BY <1>1, <2>1, <2>2, <3>2
      <4>2. bucket'[l] = bucket[l]
        BY <1>2, <3>2, <4>1 DEF IInv, TypeOK
      <4> QED
        BY <1>2, <1>3, <2>3, <4>1, <4>2 DEF IInv, Judged, NothingHeld
    <3> QED
      BY <3>1, <3>2
  <2>4. devizing' # "backoffs"
    BY <1>4
  <2> QED
    BY <1>2, <2>3, <2>4 DEF Judged
<1>8. OrderIsSorted'
  BY <1>4 DEF OrderIsSorted
<1> QED
  BY <1>5, <1>6, <1>7, <1>8 DEF IInv

\* So is going on to another check.
LEMMA GoOnKeepsIInv ==
  ASSUME IInv, devizing \in Looking, UNCHANGED monitorVars,
         UNCHANGED <<member, bucket, order, held>>,
         devizing' \in Looking, check' \in 1..5,
         devizing' # "backoffs" => check' = 1,
         devizing' = "backoffs" =>
           \A c \in 1..(check' - 1) : held[BackoffOrder[c]][member] <= now
  PROVE  IInv'
<1>1. /\ now' = now /\ backoffUntil' = backoffUntil /\ MonitorTypeOK'
  BY DEF monitorVars, IInv, TypeOK, MonitorTypeOK
<1>2. TypeOK'
  BY <1>1 DEF IInv, TypeOK
<1>3. HeldIsInForce'
  BY <1>1 DEF IInv, HeldIsInForce
<1>4. Judged'
  <2>1. Done' = Done
    BY DEF Done, Looking
  <2> QED
    BY <1>1, <2>1 DEF IInv, Judged, NothingHeld
<1>5. OrderIsSorted'
  BY DEF OrderIsSorted, Looking
<1> QED
  BY <1>2, <1>3, <1>4, <1>5 DEF IInv

\* Every action of the strategy.
LEMMA DevizeKeepsIInv ==
  ASSUME IInv, Devize, UNCHANGED monitorVars
  PROVE  IInv'
<1>1. /\ now' = now /\ backoffUntil' = backoffUntil /\ MonitorTypeOK'
  BY DEF monitorVars, IInv, TypeOK, MonitorTypeOK
<1>2. ASSUME devizing \in Looking \ {"backoffs"},
             NEW next \in Looking, GoOn(next)
      PROVE  IInv'
  <2>1. check = 1 /\ check' = 1 /\ devizing' = next
    BY <1>2 DEF GoOn, IInv, Judged
  <2>2. \A c \in 1..(check' - 1) : FALSE
    BY <2>1
  <2> QED
    BY <1>2, <2>1, <2>2, GoOnKeepsIInv DEF GoOn
<1>3. CASE Begin
  <2>1. NumLogs \in Nat \ {0} /\ Logs = 1..NumLogs
    BY MonitorAssumption DEF MonitorAssumption, Logs
  <2>2. bucket' \in [Logs -> StrategyBuckets]
    BY <1>3, Buckets DEF Begin
  <2>3. TypeOK'
    <3>1. /\ devizing' = "head" /\ member' = 1 /\ check' = 1
          /\ order' = order /\ held' = backoffUntil
      BY <1>3 DEF Begin
    <3>2. devizing' \in Looking /\ member' \in Nat /\ member' \in Logs /\ check' \in 1..5
      BY <2>1, <3>1 DEF Looking
    <3> QED
      BY <1>1, <2>2, <3>1, <3>2 DEF IInv, TypeOK, MonitorTypeOK
  <2>4. HeldIsInForce'
    BY <1>1, <1>3 DEF Begin, IInv, TypeOK, MonitorTypeOK, HeldIsInForce
  <2>5. Judged' /\ OrderIsSorted'
    BY <1>3 DEF Begin, Judged, Done, OrderIsSorted, Looking
  <2> QED
    BY <2>3, <2>4, <2>5 DEF IInv
<1>4. CASE LookAtHead
  <2>1. devizing = "head"
    BY <1>4 DEF LookAtHead
  <2>2. Settle("EXCLUDED") \/ Settle("MMDBLOWN") \/ GoOn("uptime24h")
    BY <1>4 DEF LookAtHead
  <2> QED
    BY <1>2, <2>1, <2>2, Buckets, SettleKeepsIInv DEF Looking, Unburdened
<1>5. CASE LookAtUptime24h
  <2>1. devizing = "uptime24h"
    BY <1>5 DEF LookAtUptime24h
  <2>2. Settle("LOWUPTIME") \/ GoOn("uptime90d")
    BY <1>5 DEF LookAtUptime24h
  <2> QED
    BY <1>2, <2>1, <2>2, Buckets, SettleKeepsIInv DEF Looking, Unburdened
<1>6. CASE LookAtUptime90d
  <2>1. devizing = "uptime90d"
    BY <1>6 DEF LookAtUptime90d
  <2>2. Settle("LOWUPTIME") \/ GoOn("backoffs")
    BY <1>6 DEF LookAtUptime90d
  <2> QED
    BY <1>2, <2>1, <2>2, Buckets, SettleKeepsIInv DEF Looking, Unburdened
<1>7. CASE LookAtBackoff
  <2>1. devizing = "backoffs" /\ devizing \in Looking
    BY <1>7 DEF LookAtBackoff, Looking
  <2>2. check \in 1..5 /\ member \in Logs /\ BackoffOrder[check] \in BackoffKinds
    BY <2>1, BackoffOrderType DEF IInv, TypeOK
  <2>3. CASE Settle(BackoffBucket[check])
    BY <2>1, <2>2, <2>3, BackoffBuckets, SettleKeepsIInv
  <2>4. CASE ~InBackoff(BackoffOrder[check], member)
    <3>1. held[BackoffOrder[check]][member] <= now
      BY <2>2, <2>4 DEF IInv, TypeOK, MonitorTypeOK, HeldIsInForce, InBackoff
    <3>2. \A c \in 1..check : held[BackoffOrder[c]][member] <= now
      BY <2>1, <2>2, <3>1 DEF IInv, Judged
    <3>3. CASE check < 5 /\ check' = check + 1 /\ UNCHANGED <<devizing, member, bucket, order, held>>
      BY <2>1, <2>2, <3>2, <3>3, GoOnKeepsIInv
    <3>4. CASE check = 5 /\ Settle(IF member \in Preferred THEN "PREFERRED_BYCONFIG" ELSE "NEUTRAL")
      <4>1. NothingHeld(member)
        BY <3>2, <3>4, AllBackoffs DEF NothingHeld
      <4> QED
        BY <2>1, <3>4, <4>1, Buckets, SettleKeepsIInv
    <3> QED
      BY <1>7, <2>4, <3>3, <3>4 DEF LookAtBackoff
  <2> QED
    BY <1>7, <2>3, <2>4 DEF LookAtBackoff
<1>8. CASE Sort
  <2>1. PICK o \in [Logs -> Logs] : Sorted(o) /\ order' = o
    BY <1>8 DEF Sort
  <2>2. devizing' = "done" /\ devizing = "sort" /\ UNCHANGED <<member, check, bucket, held>>
    BY <1>8 DEF Sort
  <2>3. TypeOK'
    BY <1>1, <2>1, <2>2 DEF IInv, TypeOK, Looking
  <2>4. HeldIsInForce'
    BY <1>1, <2>2 DEF IInv, HeldIsInForce
  <2>5. Done' = Done
    BY <2>2 DEF Done
  <2>6. Judged'
    BY <1>1, <2>2, <2>5 DEF IInv, Judged, NothingHeld, Looking
  <2>7. OrderIsSorted'
    BY <2>1, <2>2 DEF OrderIsSorted, Sorted
  <2> QED
    BY <2>3, <2>4, <2>6, <2>7 DEF IInv
<1> QED
  BY <1>3, <1>4, <1>5, <1>6, <1>7, <1>8 DEF Devize

LEMMA StutterKeepsIInv ==
  ASSUME IInv, UNCHANGED vars
  PROVE  IInv'
<1>1. UNCHANGED monitorVars /\ UNCHANGED strategyVars
  BY DEF vars, monitorVars, strategyVars
<1> QED
  BY <1>1 DEF monitorVars, strategyVars, IInv, TypeOK, MonitorTypeOK, HeldIsInForce, Judged,
              Done, NothingHeld, OrderIsSorted, Sorted

LEMMA IInvInvariant == Spec => []IInv
<1>1. IInv /\ [Next]_vars => IInv'
  BY MonitorKeepsIInv, DevizeKeepsIInv, StutterKeepsIInv DEF Next
<1> QED
  BY InitHolds, <1>1, PTL DEF Spec

---------------------------------------------------------------------------
(***************************************************************************)
(* A log that always answers keeps its place if its maximum merge delay is *)
(* long enough for the heads that ctsubmit has of it: one is asked for     *)
(* every RefreshInterval, by a fetch that may take HTTPTimeout, and may    *)
(* then be replaced by that of a fetch begun HTTPTimeout earlier.          *)
(***************************************************************************)

HeadsAreTimely == RefreshInterval + 2 * HTTPTimeout + PublishInterval <= MMD

\* Log l has never failed, nor been slow.
Healthy(l) == \A k \in BackoffKinds : backoffUntil[k][l] = 0

\* No fetch outlives the HTTP client's timeout, and no head is older than the fetch
\* that has brought it and PublishInterval.
FetchesAreTimely ==
  /\ 1 <= now /\ now <= nextFetch /\ RefreshInterval < nextFetch
  /\ \A f \in fetches :
       /\ f.started <= now /\ now <= f.started + HTTPTimeout
       /\ f.head # 0 => f.started <= f.head + PublishInterval

\* A fetch of log l begun at u is under way, or a head has come that is as recent.
Covered(l, u) ==
  \/ \E f \in fetches : f.log = l /\ f.started = u
  \/ u <= sthTimestamp[l] + HTTPTimeout + PublishInterval

\* So it is of some instant in the RefreshInterval up to t.
Fetched(l, t) ==
  \E u \in 0..now : t < u + RefreshInterval /\ u <= t /\ Covered(l, u)

HeadsKeepComing ==
  \A l \in Monitored, t \in Nat :
    Healthy(l) /\ RefreshInterval < t /\ t < nextFetch => Fetched(l, t)

UptimesAreFromFiles ==
  \A w \in Windows, l \in Logs :
    uptime[w][l] = NoUptime \/ \E file \in CsvFiles : uptime[w][l] = EntryFrom(file[l])

\* The logs looked at so far that deserve to keep their place have kept it.
HealthyKeepsItsPlace ==
  \A l \in Done \cap (Monitored \ Excluded) :
    NeverLow(l) /\ Healthy(l) => bucket[l] \in Unburdened

HInv == FetchesAreTimely /\ HeadsKeepComing /\ UptimesAreFromFiles /\ HealthyKeepsItsPlace

LEMMA HeadConstants ==
  /\ RefreshInterval \in Nat /\ 1 <= RefreshInterval
  /\ HTTPTimeout \in Nat /\ 1 <= HTTPTimeout
  /\ PublishInterval \in Nat /\ MMD \in Nat
  /\ Monitored \subseteq Logs
<1> QED
  BY MonitorAssumption, StrategyAssumption DEF MonitorAssumption, StrategyAssumption

LEMMA FetchFields ==
  ASSUME MonitorTypeOK, NEW f \in fetches
  PROVE  f \in Fetch /\ f.log \in Monitored /\ f.started \in Nat /\ f.head \in Nat
<1> QED
  BY DEF MonitorTypeOK, Fetch

\* The age of a head that a healthy log has (strategy.go:164).
LEMMA HeadIsRecent ==
  ASSUME MonitorTypeOK, FetchesAreTimely, HeadsKeepComing,
         NEW l \in Monitored, Healthy(l), sthTimestamp[l] # 0
  PROVE  now - sthTimestamp[l] <= RefreshInterval + 2 * HTTPTimeout + PublishInterval
<1>1. /\ now \in Nat /\ nextFetch \in Nat /\ sthTimestamp[l] \in Nat
      /\ 1 <= sthTimestamp[l] /\ now <= nextFetch
  BY HeadConstants DEF MonitorTypeOK, FetchesAreTimely
<1> DEFINE t == now - HTTPTimeout - 1
<1>2. CASE t <= RefreshInterval
  BY <1>1, <1>2, HeadConstants
<1>3. CASE RefreshInterval < t
  <2>1. t \in Nat /\ t < nextFetch
    BY <1>1, <1>3, HeadConstants
  <2>2. Fetched(l, t)
    <3> HIDE DEF t
    <3> QED
      BY <1>3, <2>1 DEF HeadsKeepComing
  <2>3. PICK u \in 0..now : t < u + RefreshInterval /\ u <= t /\ Covered(l, u)
    BY <2>2 DEF Fetched
  <2>4. \A f \in fetches : f.started # u
    BY <1>1, <2>3, HeadConstants, FetchFields DEF FetchesAreTimely
  <2>5. u <= sthTimestamp[l] + HTTPTimeout + PublishInterval
    BY <2>3, <2>4 DEF Covered
  <2> QED
    BY <1>1, <2>3, <2>5, HeadConstants
<1> QED
  BY <1>1, <1>2, <1>3, HeadConstants

\* A log that is healthy has been healthy all along.
LEMMA HealthyBefore ==
  ASSUME MonitorTypeOK, MonitorGoesOn, NEW l \in Logs, Healthy(l)'
  PROVE  Healthy(l)
<1> SUFFICES ASSUME NEW k \in BackoffKinds
             PROVE  backoffUntil[k][l] = 0
  BY DEF Healthy
<1>1. backoffUntil'[k][l] = 0
  BY DEF Healthy
<1>2. backoffUntil[k][l] \in Nat /\ backoffUntil[k][l] <= backoffUntil'[k][l]
  BY DEF MonitorTypeOK, MonitorGoesOn
<1> QED
  BY <1>1, <1>2

\* Heads keep coming when the fetches and heads of healthy logs are not lost.
LEMMA HeadsStillCome ==
  ASSUME MonitorTypeOK, MonitorGoesOn, HeadsKeepComing, nextFetch' = nextFetch,
         \A l \in Monitored : \A u \in 0..now : Healthy(l)' /\ Covered(l, u) => Covered(l, u)'
  PROVE  HeadsKeepComing'
<1> SUFFICES ASSUME NEW l \in Monitored, NEW t \in Nat,
                    Healthy(l)', RefreshInterval < t, t < nextFetch
             PROVE  Fetched(l, t)'
  BY DEF HeadsKeepComing
<1>1. Healthy(l)
  BY HealthyBefore, HeadConstants
<1>2. Fetched(l, t)
  BY <1>1 DEF HeadsKeepComing
<1>3. PICK u \in 0..now : t < u + RefreshInterval /\ u <= t /\ Covered(l, u)
  BY <1>2 DEF Fetched
<1>4. now \in Nat /\ now' \in Nat /\ now <= now'
  BY DEF MonitorTypeOK, MonitorGoesOn
<1>5. u \in 0..now'
  BY <1>4
<1>6. Covered(l, u)'
  BY <1>3
<1> QED
  BY <1>3, <1>5, <1>6 DEF Fetched

\* A failure is remembered.
LEMMA FailureIsRemembered ==
  ASSUME MonitorTypeOK, 1 <= now, NEW kind \in BackoffKinds, NEW log \in Logs,
         NEW header \in RetryAfters, Record(kind, log, header)
  PROVE  ~Healthy(log)'
<1> DEFINE until == Extended(backoffUntil[kind][log], now + BackoffDuration(kind, header))
<1>1. now \in Nat /\ BackoffDuration(kind, header) \in Nat
  BY DurationType DEF MonitorTypeOK
<1>2. backoffUntil[kind][log] \in Nat
  BY DEF MonitorTypeOK
<1>3. 1 <= until
  BY <1>1, <1>2 DEF Extended
<1> HIDE DEF until
<1>4. backoffUntil' = [backoffUntil EXCEPT ![kind] = [backoffUntil[kind] EXCEPT ![log] = until]]
  BY DEF Record, until
<1>5. backoffUntil'[kind][log] = until
  BY <1>4 DEF MonitorTypeOK
<1>6. until # 0
  BY <1>3
<1> QED
  BY <1>5, <1>6 DEF Healthy

\* A table of uptimes comes from a file (uptimeFetcher.go:85-157).
LEMMA UptimesStayFromFiles ==
  ASSUME MonitorTypeOK, UptimesAreFromFiles, NEW window \in Windows, FetchUptimes(window)
  PROVE  UptimesAreFromFiles'
<1>1. CASE UNCHANGED uptime
  BY <1>1 DEF UptimesAreFromFiles
<1>2. CASE \E file \in CsvFiles :
             uptime' = [uptime EXCEPT ![window] = [l \in Logs |-> EntryFrom(file[l])]]
  <2>1. PICK file \in CsvFiles :
          uptime' = [uptime EXCEPT ![window] = [l \in Logs |-> EntryFrom(file[l])]]
    BY <1>2
  <2> SUFFICES ASSUME NEW w \in Windows, NEW l \in Logs
               PROVE  \/ uptime'[w][l] = NoUptime
                      \/ \E f \in CsvFiles : uptime'[w][l] = EntryFrom(f[l])
    BY DEF UptimesAreFromFiles
  <2>2. CASE w = window
    <3>1. uptime'[w] = [m \in Logs |-> EntryFrom(file[m])]
      BY <2>1, <2>2 DEF MonitorTypeOK
    <3> QED
      BY <3>1
  <2>3. CASE w # window
    <3>1. uptime'[w] = uptime[w]
      BY <2>1, <2>3 DEF MonitorTypeOK
    <3> QED
      BY <3>1 DEF UptimesAreFromFiles
  <2> QED
    BY <2>2, <2>3
<1> QED
  BY <1>1, <1>2 DEF FetchUptimes

\* Every action of the monitor.
LEMMA MonitorKeepsHeads ==
  ASSUME MonitorTypeOK, FetchesAreTimely, HeadsKeepComing, UptimesAreFromFiles, MonitorNext
  PROVE  FetchesAreTimely' /\ HeadsKeepComing' /\ UptimesAreFromFiles'
<1>1. MonitorGoesOn
  BY MonitorSteps
<1>2. now \in Nat /\ now' \in Nat /\ now <= now' /\ nextFetch \in Nat
  BY <1>1 DEF MonitorTypeOK, MonitorGoesOn
<1>3. ASSUME UNCHANGED <<now, sthTimestamp, fetches, nextFetch>>
      PROVE  FetchesAreTimely' /\ HeadsKeepComing'
  <2>1. FetchesAreTimely'
    BY <1>3 DEF FetchesAreTimely
  <2>2. \A l \in Monitored : \A u \in 0..now : Covered(l, u) => Covered(l, u)'
    BY <1>3 DEF Covered
  <2> QED
    BY <1>1, <1>3, <2>1, <2>2, HeadsStillCome
<1>4. CASE SubmissionFails
  BY <1>3, <1>4 DEF SubmissionFails, UptimesAreFromFiles
<1>5. CASE RefreshHeads
  <2> DEFINE new == [log : Monitored, started : {now}, head : {0}]
  <2>1. /\ now = nextFetch /\ nextFetch' = now + RefreshInterval
        /\ fetches' = fetches \cup new
        /\ UNCHANGED <<now, sthTimestamp, uptime, backoffUntil>>
    BY <1>5 DEF RefreshHeads, FetchAllSTHs
  <2>2. FetchesAreTimely'
    <3>1. ASSUME NEW f \in new
          PROVE  f.started = now /\ f.head = 0
      OBVIOUS
    <3> HIDE DEF new
    <3> QED
      BY <1>2, <2>1, <3>1, HeadConstants DEF FetchesAreTimely
  <2>3. HeadsKeepComing'
    <3> SUFFICES ASSUME NEW l \in Monitored, NEW t \in Nat,
                        Healthy(l)', RefreshInterval < t, t < nextFetch'
                 PROVE  Fetched(l, t)'
      BY DEF HeadsKeepComing
    <3>1. CASE t < nextFetch
      <4>1. Healthy(l)
        BY <2>1 DEF Healthy
      <4>2. PICK u \in 0..now : t < u + RefreshInterval /\ u <= t /\ Covered(l, u)
        BY <3>1, <4>1 DEF HeadsKeepComing, Fetched
      <4>3. Covered(l, u)'
        BY <2>1, <4>2 DEF Covered
      <4> QED
        BY <2>1, <4>2, <4>3 DEF Fetched
    <3>2. CASE nextFetch <= t
      <4>1. PICK u \in 0..now : u = now
        BY <1>2
      <4>2. [log |-> l, started |-> now, head |-> 0] \in fetches'
        BY <2>1
      <4>3. Covered(l, u)'
        BY <4>1, <4>2 DEF Covered
      <4>4. u \in 0..now' /\ t < u + RefreshInterval /\ u <= t
        BY <1>2, <2>1, <3>2, <4>1
      <4> QED
        BY <4>3, <4>4 DEF Fetched
    <3> QED
      BY <1>2, <3>1, <3>2
  <2> QED
    BY <2>1, <2>2, <2>3 DEF UptimesAreFromFiles
<1>6. ASSUME NEW f \in fetches, LogAnswers(f)
      PROVE  FetchesAreTimely' /\ HeadsKeepComing' /\ UptimesAreFromFiles'
  <2>1. PICK head \in 1..now :
          /\ head + PublishInterval >= now
          /\ fetches' = (fetches \ {f}) \cup {[f EXCEPT !.head = head]}
    BY <1>6 DEF LogAnswers
  <2>2. UNCHANGED <<now, sthTimestamp, nextFetch, uptime>>
    BY <1>6 DEF LogAnswers
  <2>3. PICK g : g = [f EXCEPT !.head = head]
    OBVIOUS
  <2>4. g.log = f.log /\ g.started = f.started /\ g.head = head
    BY <2>3, FetchFields DEF Fetch
  <2>5. FetchesAreTimely'
    <3>1. /\ f.started <= now /\ now <= f.started + HTTPTimeout
          /\ f.started \in Nat
      BY FetchFields DEF FetchesAreTimely
    <3>2. g.started <= now /\ now <= g.started + HTTPTimeout
      BY <2>4, <3>1
    <3>3. g.started <= g.head + PublishInterval
      BY <1>2, <2>1, <2>4, <3>1, HeadConstants
    <3>4. fetches' = (fetches \ {f}) \cup {g}
      BY <2>1, <2>3
    <3> QED
      BY <2>2, <3>2, <3>3, <3>4 DEF FetchesAreTimely
  <2>6. \A l \in Monitored : \A u \in 0..now : Covered(l, u) => Covered(l, u)'
    BY <2>1, <2>2, <2>3, <2>4 DEF Covered
  <2> QED
    BY <1>1, <2>2, <2>5, <2>6, HeadsStillCome DEF UptimesAreFromFiles
<1>7. ASSUME NEW f \in fetches, StoreHead(f)
      PROVE  FetchesAreTimely' /\ HeadsKeepComing' /\ UptimesAreFromFiles'
  <2>1. /\ f.head # 0
        /\ sthTimestamp' = [sthTimestamp EXCEPT ![f.log] = f.head]
        /\ fetches' = fetches \ {f}
        /\ UNCHANGED <<now, nextFetch, uptime>>
    BY <1>7 DEF StoreHead
  <2>2. FetchesAreTimely'
    BY <2>1 DEF FetchesAreTimely
  <2>3. ASSUME NEW l \in Monitored, NEW u \in 0..now, Covered(l, u)
        PROVE  Covered(l, u)'
    <3>1. CASE l = f.log
      <4>1. sthTimestamp'[l] = f.head
        BY <2>1, <3>1, HeadConstants DEF MonitorTypeOK
      <4>2. now <= f.head + HTTPTimeout + PublishInterval
        BY <1>2, <2>1, FetchFields, HeadConstants DEF FetchesAreTimely
      <4>3. u <= sthTimestamp'[l] + HTTPTimeout + PublishInterval
        BY <1>2, <4>1, <4>2, FetchFields, HeadConstants
      <4> QED
        BY <4>3 DEF Covered
    <3>2. CASE l # f.log
      <4>1. sthTimestamp'[l] = sthTimestamp[l]
        BY <2>1, <3>2, HeadConstants DEF MonitorTypeOK
      <4> QED
        BY <2>1, <2>3, <3>2, <4>1 DEF Covered
    <3> QED
      BY <3>1, <3>2
  <2> QED
    BY <1>1, <2>1, <2>2, <2>3, HeadsStillCome DEF UptimesAreFromFiles
<1>8. ASSUME NEW f \in fetches, FetchFails(f)
      PROVE  FetchesAreTimely' /\ HeadsKeepComing' /\ UptimesAreFromFiles'
  <2>1. PICK kind \in FailingKinds, header \in RetryAfters : Record(kind, f.log, header)
    BY <1>8 DEF FetchFails
  <2>2. /\ fetches' = fetches \ {f}
        /\ UNCHANGED <<now, sthTimestamp, nextFetch, uptime>>
    BY <1>8 DEF FetchFails
  <2>3. FetchesAreTimely'
    BY <2>2 DEF FetchesAreTimely
  <2>4. ~Healthy(f.log)'
    <3>1. kind \in BackoffKinds /\ f.log \in Logs /\ 1 <= now
      BY Constants, FetchFields DEF FetchesAreTimely
    <3>2. PICK log : log = f.log
      OBVIOUS
    <3>3. ~Healthy(log)'
      BY <2>1, <3>1, <3>2, FailureIsRemembered
    <3> QED
      BY <3>2, <3>3
  <2>5. ASSUME NEW l \in Monitored, NEW u \in 0..now, Healthy(l)', Covered(l, u)
        PROVE  Covered(l, u)'
    <3>1. l # f.log
      BY <2>4, <2>5
    <3> QED
      BY <2>2, <2>5, <3>1 DEF Covered
  <2> QED
    BY <1>1, <2>2, <2>3, <2>5, HeadsStillCome DEF UptimesAreFromFiles
<1>9. CASE RefreshUptimes
  BY <1>3, <1>9, UptimesStayFromFiles DEF RefreshUptimes
<1>10. CASE LoadUptimes
  <2>1. PICK w \in Windows : FetchUptimes(w)
    BY <1>10 DEF LoadUptimes, Windows
  <2> QED
    BY <1>3, <1>10, <2>1, UptimesStayFromFiles DEF LoadUptimes
<1>11. CASE LoadHeads
  <2> DEFINE new == [log : Monitored, started : {now}, head : {0}]
  <2>1. /\ fetches' = fetches \cup new
        /\ UNCHANGED <<now, sthTimestamp, nextFetch, uptime>>
    BY <1>11 DEF LoadHeads, FetchAllSTHs
  <2>2. FetchesAreTimely'
    <3>1. ASSUME NEW f \in new
          PROVE  f.started = now /\ f.head = 0
      OBVIOUS
    <3> HIDE DEF new
    <3> QED
      BY <1>2, <2>1, <3>1, HeadConstants DEF FetchesAreTimely
  <2>3. \A l \in Monitored : \A u \in 0..now : Covered(l, u) => Covered(l, u)'
    BY <2>1 DEF Covered
  <2> QED
    BY <1>1, <2>1, <2>2, <2>3, HeadsStillCome DEF UptimesAreFromFiles
<1>12. CASE SetInitialDataReady
  BY <1>3, <1>12 DEF SetInitialDataReady, UptimesAreFromFiles
<1>13. CASE Tick
  <2>1. /\ now' = now + 1 /\ now < nextFetch
        /\ \A f \in fetches : now < f.started + HTTPTimeout
        /\ UNCHANGED <<sthTimestamp, fetches, nextFetch, uptime>>
    BY <1>13 DEF Tick, NothingIsOverdue
  <2>2. FetchesAreTimely'
    <3>1. 1 <= now' /\ now' <= nextFetch' /\ RefreshInterval < nextFetch'
      BY <1>2, <2>1 DEF FetchesAreTimely
    <3>2. ASSUME NEW f \in fetches
          PROVE  /\ f.started <= now' /\ now' <= f.started + HTTPTimeout
                 /\ f.head # 0 => f.started <= f.head + PublishInterval
      BY <1>2, <2>1, FetchFields, HeadConstants DEF FetchesAreTimely
    <3> QED
      BY <2>1, <3>1, <3>2 DEF FetchesAreTimely
  <2>3. \A l \in Monitored : \A u \in 0..now : Covered(l, u) => Covered(l, u)'
    BY <2>1 DEF Covered
  <2> QED
    BY <1>1, <2>1, <2>2, <2>3, HeadsStillCome DEF UptimesAreFromFiles
<1> QED
  BY <1>4, <1>5, <1>6, <1>7, <1>8, <1>9, <1>10, <1>11, <1>12, <1>13 DEF MonitorNext

LEMMA MonitorKeepsHInv ==
  ASSUME IInv, HInv, MonitorNext, UNCHANGED strategyVars
  PROVE  HInv'
<1>1. MonitorTypeOK /\ MonitorGoesOn
  BY MonitorSteps DEF IInv, TypeOK
<1>2. FetchesAreTimely' /\ HeadsKeepComing' /\ UptimesAreFromFiles'
  BY <1>1, MonitorKeepsHeads DEF HInv
<1>3. HealthyKeepsItsPlace'
  <2>1. Done' = Done /\ bucket' = bucket
    BY DEF Done, strategyVars
  <2>2. \A l \in Monitored : Healthy(l)' => Healthy(l)
    BY <1>1, HealthyBefore, HeadConstants
  <2> QED
    BY <2>1, <2>2 DEF HInv, HealthyKeepsItsPlace
<1> QED
  BY <1>2, <1>3 DEF HInv

LEMMA MonitorIdleKeepsHeads ==
  ASSUME HInv, UNCHANGED monitorVars
  PROVE  /\ FetchesAreTimely' /\ HeadsKeepComing' /\ UptimesAreFromFiles'
         /\ \A l \in Logs : Healthy(l)' <=> Healthy(l)
<1> QED
  BY DEF HInv, FetchesAreTimely, HeadsKeepComing, Fetched, Covered, Healthy,
         UptimesAreFromFiles, monitorVars

\* Settling the bucket of a log is sound if it leaves a healthy one its place.
LEMMA SettleKeepsHInv ==
  ASSUME IInv, HInv, devizing \in Looking, UNCHANGED monitorVars,
         NEW b, Settle(b),
         member \in Monitored \ Excluded /\ NeverLow(member) /\ Healthy(member)
           => b \in Unburdened
  PROVE  HInv'
<1>1. member \in 1..NumLogs /\ Logs = 1..NumLogs /\ NumLogs \in Nat
  BY Constants DEF IInv, TypeOK
<1>2. Done = 1..(member - 1)
  BY DEF Done, Looking
<1>3. Done' = 1..member
  <2>1. /\ member' = member + 1
        /\ \/ devizing' = "sort" /\ member = NumLogs
           \/ devizing' = "head" /\ member # NumLogs
    BY DEF Settle, AfterMember
  <2> QED
    BY <1>1, <2>1 DEF Done, Looking
<1>4. /\ bucket'[member] = b
      /\ \A l \in Logs \ {member} : bucket'[l] = bucket[l]
  BY <1>1 DEF Settle, IInv, TypeOK
<1>5. HealthyKeepsItsPlace'
  <2> SUFFICES ASSUME NEW l \in Done', l \in Monitored \ Excluded,
                      NeverLow(l), Healthy(l)'
               PROVE  bucket'[l] \in Unburdened
    BY DEF HealthyKeepsItsPlace, NeverLow
  <2>1. l \in Logs /\ (l = member \/ l \in Done)
    BY <1>1, <1>2, <1>3
  <2>2. Healthy(l)
    BY <2>1, MonitorIdleKeepsHeads
  <2>3. CASE l = member
    BY <1>4, <2>2, <2>3
  <2>4. CASE l # member
    BY <1>4, <2>1, <2>2, <2>4 DEF HInv, HealthyKeepsItsPlace
  <2> QED
    BY <2>3, <2>4
<1> QED
  BY <1>5, MonitorIdleKeepsHeads DEF HInv

\* Steps that settle nothing.
LEMMA SameBucketsKeepHInv ==
  ASSUME HInv, UNCHANGED monitorVars, Done' \subseteq Done \cap Logs, bucket' = bucket
  PROVE  HInv'
<1>1. HealthyKeepsItsPlace'
  BY MonitorIdleKeepsHeads DEF HInv, HealthyKeepsItsPlace
<1> QED
  BY <1>1, MonitorIdleKeepsHeads DEF HInv

LEMMA GoOnKeepsHInv ==
  ASSUME IInv, HInv, UNCHANGED monitorVars, devizing \in Looking, devizing' \in Looking,
         UNCHANGED <<member, bucket>>
  PROVE  HInv'
<1>1. member \in 1..NumLogs /\ Logs = 1..NumLogs /\ NumLogs \in Nat
  BY Constants DEF IInv, TypeOK
<1>2. Done' = Done /\ Done \subseteq Logs
  BY <1>1 DEF Done, Looking
<1> QED
  BY <1>2, SameBucketsKeepHInv

\* A log whose uptimes are never low is not found low now.
LEMMA NotFoundLow ==
  ASSUME MonitorTypeOK, UptimesAreFromFiles, NEW w \in Windows, NEW l \in Logs,
         NeverLow(l), uptime[w][l].listed
  PROVE  /\ ~(uptime[w][l].submit < SubmitEndpoint24h)
         /\ ~(uptime[w][l].lowest < LowestEndpoint90d)
<1>1. uptime[w][l] # NoUptime
  BY DEF NoUptime
<1>2. PICK file \in CsvFiles : uptime[w][l] = EntryFrom(file[l])
  BY <1>1 DEF UptimesAreFromFiles
<1>3. uptime[w][l].submit >= SubmitEndpoint24h /\ uptime[w][l].lowest >= LowestEndpoint90d
  BY <1>2 DEF NeverLow
<1>4. SubmitEndpoint24h \in Int /\ LowestEndpoint90d \in Int
  BY StrategyAssumption DEF StrategyAssumption
<1>5. uptime[w][l].submit \in Int /\ uptime[w][l].lowest \in Int
  <2>1. PICK entry : entry = uptime[w][l]
    OBVIOUS
  <2>2. entry \in UptimeEntry
    BY <2>1 DEF MonitorTypeOK
  <2>3. entry.submit \in 0..100 /\ entry.lowest \in 0..100
    BY <2>2, Zenon DEF UptimeEntry
  <2> QED
    BY <2>1, <2>3
<1> QED
  BY <1>3, <1>4, <1>5

\* Every action of the strategy.
LEMMA DevizeKeepsHInv ==
  ASSUME HeadsAreTimely, IInv, HInv, Devize, UNCHANGED monitorVars
  PROVE  HInv'
<1>1. MonitorTypeOK
  BY DEF IInv, TypeOK
<1>2. devizing \in Looking => member \in Logs
  BY DEF IInv, TypeOK
<1>3. CASE Begin
  <2>1. Done' = {}
    BY <1>3 DEF Begin, Done, Looking
  <2> QED
    BY <2>1, MonitorIdleKeepsHeads DEF HInv, HealthyKeepsItsPlace
<1>4. CASE LookAtHead
  <2>1. devizing = "head" /\ devizing \in Looking
    BY <1>4 DEF LookAtHead, Looking
  <2>2. CASE member \in Excluded \cup (Logs \ Monitored) /\ Settle("EXCLUDED")
    BY <2>1, <2>2, SettleKeepsHInv
  <2>3. CASE /\ member \in Monitored
             /\ sthTimestamp[member] # 0 /\ now - sthTimestamp[member] > MMD
             /\ Settle("MMDBLOWN")
    <3>1. ~Healthy(member)
      <4> SUFFICES ASSUME Healthy(member) PROVE FALSE
        OBVIOUS
      <4>1. now - sthTimestamp[member]
              <= RefreshInterval + 2 * HTTPTimeout + PublishInterval
        BY <1>1, <2>3, HeadIsRecent DEF HInv
      <4>2. now \in Nat /\ sthTimestamp[member] \in Nat
        BY <1>1, <1>2, <2>1 DEF MonitorTypeOK
      <4> QED
        BY <2>3, <4>1, <4>2, HeadConstants DEF HeadsAreTimely
    <3> QED
      BY <2>1, <2>3, <3>1, SettleKeepsHInv
  <2>4. CASE GoOn("uptime24h")
    BY <2>1, <2>4, GoOnKeepsHInv DEF GoOn, Looking
  <2> QED
    BY <1>4, <2>2, <2>3, <2>4 DEF LookAtHead
<1>5. CASE LookAtUptime24h
  <2>1. devizing = "uptime24h" /\ devizing \in Looking
    BY <1>5 DEF LookAtUptime24h, Looking
  <2>2. CASE /\ uptime["24h"][member].listed
             /\ uptime["24h"][member].submit < SubmitEndpoint24h
             /\ Settle("LOWUPTIME")
    <3>1. ~NeverLow(member)
      BY <1>1, <1>2, <2>1, <2>2, NotFoundLow DEF HInv, Windows
    <3> QED
      BY <2>1, <2>2, <3>1, SettleKeepsHInv
  <2>3. CASE GoOn("uptime90d")
    BY <2>1, <2>3, GoOnKeepsHInv DEF GoOn, Looking
  <2> QED
    BY <1>5, <2>2, <2>3 DEF LookAtUptime24h
<1>6. CASE LookAtUptime90d
  <2>1. devizing = "uptime90d" /\ devizing \in Looking
    BY <1>6 DEF LookAtUptime90d, Looking
  <2>2. CASE /\ uptime["90d"][member].listed
             /\ uptime["90d"][member].lowest < LowestEndpoint90d
             /\ Settle("LOWUPTIME")
    <3>1. ~NeverLow(member)
      BY <1>1, <1>2, <2>1, <2>2, NotFoundLow DEF HInv, Windows
    <3> QED
      BY <2>1, <2>2, <3>1, SettleKeepsHInv
  <2>3. CASE GoOn("backoffs")
    BY <2>1, <2>3, GoOnKeepsHInv DEF GoOn, Looking
  <2> QED
    BY <1>6, <2>2, <2>3 DEF LookAtUptime90d
<1>7. CASE LookAtBackoff
  <2>1. devizing = "backoffs" /\ devizing \in Looking
    BY <1>7 DEF LookAtBackoff, Looking
  <2>2. BackoffOrder[check] \in BackoffKinds
    BY BackoffOrderType DEF IInv, TypeOK
  <2>3. CASE InBackoff(BackoffOrder[check], member) /\ Settle(BackoffBucket[check])
    <3>1. ~Healthy(member)
      BY <1>1, <1>2, <2>1, <2>2, <2>3 DEF Healthy, InBackoff, MonitorTypeOK
    <3> QED
      BY <2>1, <2>3, <3>1, SettleKeepsHInv
  <2>4. CASE UNCHANGED <<devizing, member, bucket, order, held>>
    BY <2>1, <2>4, GoOnKeepsHInv
  <2>5. CASE Settle(IF member \in Preferred THEN "PREFERRED_BYCONFIG" ELSE "NEUTRAL")
    BY <2>1, <2>5, SettleKeepsHInv DEF Unburdened
  <2> QED
    BY <1>7, <2>3, <2>4, <2>5 DEF LookAtBackoff
<1>8. CASE Sort
  <2>1. Done' = Logs /\ Done = Logs /\ bucket' = bucket
    BY <1>8 DEF Sort, Done
  <2> QED
    BY <2>1, SameBucketsKeepHInv
<1> QED
  BY <1>3, <1>4, <1>5, <1>6, <1>7, <1>8 DEF Devize

LEMMA InitIsHealthy == Init => HInv
<1> SUFFICES ASSUME Init PROVE HInv
  OBVIOUS
<1>1. FetchesAreTimely
  BY HeadConstants DEF Init, MonitorInit, FetchesAreTimely
<1>2. HeadsKeepComing
  BY HeadConstants DEF Init, MonitorInit, HeadsKeepComing
<1>3. UptimesAreFromFiles
  BY DEF Init, MonitorInit, UptimesAreFromFiles
<1>4. HealthyKeepsItsPlace
  BY DEF Init, HealthyKeepsItsPlace, Done, Looking
<1> QED
  BY <1>1, <1>2, <1>3, <1>4 DEF HInv

---------------------------------------------------------------------------
(***************************************************************************)
(* Theorems.                                                               *)
(***************************************************************************)

\* Every table of the monitor and the strategy under construction keep their types:
\* no backoff ends before the epoch, however long a Retry-After is (backoffHandler.go:
\* 102, 226), and no log beyond the list is looked at (strategy.go:90).
THEOREM TypeCorrect == Spec => []TypeOK
<1>1. IInv => TypeOK
  BY DEF IInv
<1> QED
  BY IInvInvariant, <1>1, PTL

\* A log in a backoff throughout comes behind every log that nothing is held against
\* (backoffHandler.go:59, 102; strategy.go:90-137).
THEOREM PenaltyRespected == Spec => []PenaltyIsRespected
<1>1. IInv => PenaltyIsRespected
  <2> SUFFICES ASSUME IInv, devizing = "done", NEW l \in Logs,
                      NEW k \in BackoffKinds, held[k][l] > now,
                      NEW i \in Logs, NEW j \in Logs,
                      order[j] = l, bucket[order[i]] \in Unburdened
               PROVE  i < j
    BY DEF PenaltyIsRespected
  <2>1. /\ bucket \in [Logs -> StrategyBuckets] /\ order \in [Logs -> Logs]
        /\ held[k][l] \in Nat /\ now \in Nat
    BY DEF IInv, TypeOK, MonitorTypeOK
  <2> i \in Int /\ j \in Int
    BY Constants
  <2>2. ~NothingHeld(l)
    BY <2>1 DEF NothingHeld
  <2>3. bucket[l] \in StrategyBuckets \ Unburdened
    BY <2>1, <2>2 DEF IInv, Judged, Done
  <2>4. BucketNumber[bucket[l]] <= 7 /\ BucketNumber[bucket[order[i]]] >= 8
    BY <2>3, Buckets
  <2>5. BucketNumber[bucket[l]] \in Nat /\ BucketNumber[bucket[order[i]]] \in Nat
    BY <2>1, <2>3, Buckets
  <2>6. j < i => BucketNumber[bucket[l]] >= BucketNumber[bucket[order[i]]]
    BY DEF IInv, OrderIsSorted, Sorted
  <2>7. i # j
    BY <2>3
  <2> QED
    BY <2>1, <2>4, <2>5, <2>6, <2>7
<1> QED
  BY IInvInvariant, <1>1, PTL

\* A log that always answers and whose uptimes are never low is not demoted, provided
\* its maximum merge delay is at least RefreshInterval + 2 HTTPTimeout + PublishInterval
\* (sthMonitor.go:77-102, 140-146; strategy.go:164).
THEOREM HealthyKeepsPlace ==
  ASSUME HeadsAreTimely
  PROVE  Spec => []HealthyLogIsNotDemoted
<1>1. IInv /\ HInv /\ [Next]_vars => HInv'
  <2> SUFFICES ASSUME IInv, HInv, [Next]_vars PROVE HInv'
    OBVIOUS
  <2>1. CASE MonitorNext /\ UNCHANGED strategyVars
    BY <2>1, MonitorKeepsHInv
  <2>2. CASE Devize /\ UNCHANGED monitorVars
    BY <2>2, DevizeKeepsHInv
  <2>3. CASE UNCHANGED vars
    <3>1. UNCHANGED monitorVars /\ Done' = Done /\ bucket' = bucket
      BY <2>3 DEF vars, monitorVars, Done
    <3>2. Done \subseteq Logs
      BY Constants DEF Done, IInv, TypeOK, Looking
    <3> QED
      BY <3>1, <3>2, SameBucketsKeepHInv
  <2> QED
    BY <2>1, <2>2, <2>3 DEF Next
<1>2. HInv => HealthyLogIsNotDemoted
  BY HeadConstants
     DEF HInv, HealthyKeepsItsPlace, HealthyLogIsNotDemoted, Done, Healthy
<1> QED
  BY InitIsHealthy, IInvInvariant, <1>1, <1>2, PTL DEF Spec
============================================================================
