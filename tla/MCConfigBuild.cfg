CONSTANTS
  Loopback = {"localhost"}
  Worlds <- MCWorlds
  MaxDepth = 3
  MaxFiles = 3
  MaxSecs = 10000000
SPECIFICATION BuildSpec
INVARIANTS WalkAsDocumented LoadsAreBounded ReadAsMeant
           ChildWins AcceptedMeansUsable SameRouteSameHistory
