\* Three requests in flight at once, of calls that share signals.
SPECIFICATION Spec
CONSTANTS
  Reply = {r1, r2, r3}
  CallName = {"createGroup", "createGroupIfNotExistsFor", "createAuthor", "getText", "createPad", "checkToken"}
  RefusalCode = {1, 4}
  NoJson = NoJson
INVARIANTS
  TypeOK
  VerdictReported
PROPERTY CallsAnswered
\* Every request has been answered.
CHECK_DEADLOCK FALSE
