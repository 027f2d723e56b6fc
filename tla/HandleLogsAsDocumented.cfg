SPECIFICATION Spec
CONSTANTS
  NoKey = NoKey
  Garbage = Garbage
  LogNames <- LogIds
  OperatorNames = {"opA", "opB"}
  Keys = {"A", "B", "L", "R", "S"}
  CACerts <- AllCAs
  Leaves <- AllLeaves
  Daedalus = "daedalus"
  RequestNames = {"q1", "q2"}
  Worlds <- ListWorlds
  Now = 2
INVARIANT SomeLogsAreAsDocumented
