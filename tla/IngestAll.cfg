CONSTANTS
  Doc = {d1}
  Upload <- MCUpload
  Worker = {w1, w2}
  Editor = {e1}
  MaxFaults = 1
SPECIFICATION Spec
INVARIANTS SuccessIsWhole FailureIsTold
PROPERTIES UploadSettles
CHECK_DEADLOCK FALSE
