----------------------------- MODULE StrategyMC ----------------------------
(***************************************************************************)
(* Instances of Strategy for TLC: uptime files and Retry-After headers.    *)
(***************************************************************************)
EXTENDS Strategy

Row(submit, other) == [submit |-> submit, other |-> other]

Fine == Row(99, 100)

FineOrNotListed == {[l \in Logs |-> row] : row \in {Fine, Row(Missing, Missing)}}

\* The first log has an endpoint without a number, and a low one; the others are fine.
Files == {[l \in Logs |-> IF l = 1 THEN Row(Garbled, 50) ELSE Fine]}

\* Every backoff lasts one tick, unless Retry-After asks for more.
OneTick == [k \in BackoffKinds |-> 1]

Header(form, value) == [form |-> form, value |-> value]

NoHeader == {Header("none", 0)}

\* Nothing, a date that comes and goes, and so many seconds that the product is negative.
Headers == {Header("none", 0), Header("date", 3), Header("seconds", 9)}
============================================================================
