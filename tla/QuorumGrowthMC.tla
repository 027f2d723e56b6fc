--------------------------- MODULE QuorumGrowthMC --------------------------
(***************************************************************************)
(* Every request for up to MaxSCTs SCTs, over three operators.             *)
(***************************************************************************)
EXTENDS QuorumGrowth

CONSTANT MaxSCTs

MCRequests ==
  {r \in [SCTs : 1..MaxSCTs, Operators : 1..MaxSCTs,
          RequireAtLeastOneRFC6962SCT : BOOLEAN, PreferAtLeastOneStaticSCT : BOOLEAN] :
     r.Operators <= r.SCTs}
============================================================================
