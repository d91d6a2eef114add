\* Any number of connections; in each event the slots make up to three calls.
SPECIFICATION Spec
CONSTANT MaxNested = 3
INVARIANTS
  TypeOK
  Settled
PROPERTY ReconnectHonoured
