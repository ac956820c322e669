\* The limit on bytes never bites, the limit on lines does.
CONSTANTS
  MaxLines = 2
  MaxBytes = 30
  MaxRequest = 4
  MaxLog = 3
  Complaints <- NoComplaints
  LogLines <- NarrowLines
  Requests <- SomeRequests
SPECIFICATION Spec
INVARIANT NewestLineShown
CHECK_DEADLOCK FALSE
