------------------------------ MODULE LogLists -----------------------------
(***************************************************************************)
(* The log lists that submissions are drawn from (loglists/filter.go),     *)
(* computed once from the lists of the browsers, of crt.sh and of the BIMI *)
(* group, and from a custom list of test logs.                             *)
(*                                                                         *)
(* A list is a set of entries.  An operator without a log is nowhere in    *)
(* it, as in the code.  A timestamp of 0 is a state the entry is not in.   *)
(***************************************************************************)
EXTENDS Integers

\* TemporalInterval is nil.
NoInterval == <<>>

Intervals == {NoInterval} \cup (Nat \X Nat)

\* ended stands for ReadOnly, Retired and Rejected; bogus for a URL that contains it.
Entry(LogNames, OperatorNames) ==
  [id : LogNames, operator : OperatorNames, tiled : BOOLEAN, test : BOOLEAN, bogus : BOOLEAN,
   qualified : Nat, usable : Nat, ended : Nat, interval : Intervals]

\* The lists a program starts with; custom is empty if none is configured.
Lists(LogNames, OperatorNames) ==
  [{"chrome", "apple", "mozilla", "crtsh", "bimi", "custom"} ->
     SUBSET Entry(LogNames, OperatorNames)]

\* LogStatus: the first state that is there, in the order of a log's life.
LogStatus(e) ==
  CASE e.qualified # 0 -> "qualified"
    [] e.qualified = 0 /\ e.usable # 0 -> "usable"
    [] e.qualified = 0 /\ e.usable = 0 /\ e.ended # 0 -> "ended"
    [] OTHER -> "undefined"

SelectByStatus(list, statuses) == {e \in list : LogStatus(e) \in statuses}

\* The interval is narrowed only where both entries have one.
Narrowed(i, j) ==
  IF i = NoInterval \/ j = NoInterval THEN i
  ELSE <<IF j[1] > i[1] THEN j[1] ELSE i[1], IF j[2] < i[2] THEN j[2] ELSE i[2]>>

\* Mutant: the first list alone says since when a log is usable.
MetAsFirst(e1, e2) == [e1 EXCEPT !.interval = Narrowed(e1.interval, e2.interval)]

Met(e1, e2) ==
  [e1 EXCEPT !.usable = IF e1.usable # 0 /\ e2.usable > e1.usable THEN e2.usable ELSE @,
             !.interval = Narrowed(e1.interval, e2.interval)]

SameLog(e1, e2) == e1.id = e2.id /\ e1.tiled = e2.tiled

intersect(list1, list2) ==
  {Met(p[1], p[2]) : p \in {r \in list1 \X list2 :
                              SameLog(r[1], r[2]) /\ (r[1].tiled \/ ~r[1].bogus)}}

UsableTLSLogs(lists) ==
  intersect(intersect(SelectByStatus(lists["chrome"], {"usable"}),
                      SelectByStatus(lists["apple"], {"usable"})),
            SelectByStatus(lists["mozilla"], {"qualified", "usable"}))

IsBIMI(lists, e) == \E b \in lists["bimi"] : SameLog(b, e)

ActiveTLSLogs(lists) == {e \in lists["crtsh"] : ~e.test /\ ~IsBIMI(lists, e)}

\* LoadCustomTestLogList replaces them; every custom log is a test log.
TestTLSLogs(lists) ==
  IF lists["custom"] # {} THEN lists["custom"]
  ELSE {e \in lists["crtsh"] : e.test /\ ~IsBIMI(lists, e)}

UsableBIMILogs(lists) == SelectByStatus(lists["bimi"], {"usable"})

\* The base lists of determineSubmissionRequirements.
BaseLists(lists) ==
  [UsableTLSLogs |-> UsableTLSLogs(lists), TestTLSLogs |-> TestTLSLogs(lists),
   UsableBIMILogs |-> UsableBIMILogs(lists), CrtshV3Active |-> lists["crtsh"]]
============================================================================
