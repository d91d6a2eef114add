\* Two operations, two characters of a bank, and strings nobody wrote.
SPECIFICATION Spec
CONSTANTS
  SP = " "
  NL = "nl"
  Written <- BoundedChangesets
  Garbage <- BoundedGarbage
INVARIANTS
  TypeOK
  PassedIsRead
  ReadsBack
PROPERTY ReadingAdvances
\* fromString returns.
CHECK_DEADLOCK FALSE
