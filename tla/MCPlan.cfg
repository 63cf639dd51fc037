CONSTANTS
  Names = {"a", "b", "c", "console"}
  Console = "console"
  Routes <- MCRoutes
  MaxRoutes = 3
SPECIFICATION Spec
INVARIANTS PlanIsAsDocumented NeverSilent
CHECK_DEADLOCK FALSE
