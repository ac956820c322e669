\* Logs of up to four lines; either limit, both or none may cut them.
CONSTANTS
  MaxLines = 3
  MaxBytes = 7
  MaxRequest = 4
  MaxLog = 4
  Complaints <- SomeComplaints
  LogLines <- ShortLines
  Requests <- SomeRequests
SPECIFICATION Spec
INVARIANTS TypeOK WithinLimits OmissionIsFlagged CutIsTight
\* One call is made.
CHECK_DEADLOCK FALSE
