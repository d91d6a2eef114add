\* A token check that fails on the way, against what the header says.
SPECIFICATION Spec
CONSTANTS
  Reply = {r1, r2}
  CallName = {"getText", "getHTML", "checkToken"}
  RefusalCode = {1, 4}
  NoJson = NoJson
INVARIANT CheckTokenOkMeansValid
CHECK_DEADLOCK FALSE
