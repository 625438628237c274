SPECIFICATION Spec
CONSTANTS
  None = None
  Loop = Loop
  a = a
  b = b
  x = x
  y = y
  anchor = anchor
  first = first
  second = second
  upload = upload
  Category = {"template"}
  ExemptScopes = {"system", "filesystem"}
  Task <- UploadTask
  Anchors <- CreateAnchors
  MachineOf <- UploadMachineOf
  CategoryOf <- UploadCategoryOf
  PriorityOf <- UploadPriorityOf
  ParentOf <- UploadParentOf
  DependsOnOf <- UploadDependsOnOf
  MaxConcurrent = 2
  Uploads <- UploadUploads
  ResumePending = TRUE
  Client = {c1}
  Cancellable <- CreateAnchors
  Prunable <- UploadPrunable
  WaitFor = {}
  Deletion = TRUE
  MaxExits = 1
  MaxFaults = 1
INVARIANTS
  TypeOK
  AtMostOnce
  NoOrphanRunning
  PredecessorOver
  DispatchInv
PROPERTY
  ImplementsDispatch
