\* Two texts of at most three words: words kept, replaced, moved, repeated, with line breaks.
SPECIFICATION Spec
CONSTANTS
  SP = " "
  NL = "nl"
  MaxWords = 3
  Text <- BoundedTexts
INVARIANTS
  TypeOK
  BankMatchesInsertions
  LengthsBalance
  ResultIsCompact
PROPERTIES
  RawYieldsNewText
  RawCountsNewlines
  CollapseKeepsText
  OptimizeKeepsText
  EveryRoundShrinks
\* createChangeset returns: pc = "done" has no successor.
CHECK_DEADLOCK FALSE
