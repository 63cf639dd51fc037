CONSTANTS
  Direct = {"pages", "mail"}
  Grouped = {"digest", "summary"}
  Gated = {"pages", "mail", "digest"}
SPECIFICATION Spec
INVARIANT RowHasTheLastWord
PROPERTY OwnHistory
CHECK_DEADLOCK FALSE
