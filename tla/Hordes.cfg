SPECIFICATION Spec
CONSTANTS
  LastGremlin = 2
  Infos <- DialogInfos
  MaxEvents = 4
  MaxNews = 1
  MaxCommands = 1
  Commands = {"stop", "resume", "step", "reset"}
  Faults = {"error", "debugger", "loadFails"}
INVARIANTS TypeOK GremlinsApart BreadthFirst EndsWhenAllHalted
PROPERTIES HordeEnds
CHECK_DEADLOCK FALSE
