\* Two overlapping runs over two routers; each may have an ingest service.
CONSTANTS
  s1 = s1
  s2 = s2
  s3 = s3
  s4 = s4
  Runs = {run1, run2}
  Routers <- TwoRouters
  Snapshots <- FourSnapshots
  None = None
SYMMETRY Symmetry
SPECIFICATION Spec
INVARIANTS TypeOK MetadataVouches AnnouncedIsStored ReportIsExact ExitZeroMeansAll
PROPERTY CompleteStaysComplete
\* Every run may have ended.
CHECK_DEADLOCK FALSE
