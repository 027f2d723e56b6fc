SPECIFICATION Spec
CONSTANTS
  NoKey = NoKey
  Garbage = Garbage
  LogNames <- LogIds
  OperatorNames = {"opA", "opB"}
  Keys = {"A", "B", "L", "R", "S"}
  CACerts <- AllCAs
  Leaves <- AllLeaves
  Daedalus = "daedalus"
  RequestNames = {"q1", "q2"}
  Worlds <- AllWorlds
  Now = 2
INVARIANTS
  TypeOK
  PolicyReplyIsAdmissible
  ReplyIsWhatWasAsked
  VerdictIsOwn
  DiscoveredChainIsAccepted
  DiscoveryMovesOn
  IssuerIsKnown
  SuccessCarriesSCTs
