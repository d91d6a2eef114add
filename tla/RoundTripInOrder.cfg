\* Two replacements in texts whose words keep their order: the result of createChangeset against what the source says of it.
SPECIFICATION Spec
CONSTANTS
  SP = " "
  NL = "nl"
  MaxWords = 3
  Text <- BoundedTexts
INVARIANT RoundTripInOrder
CHECK_DEADLOCK FALSE
