SPECIFICATION FairSpec
CONSTANTS
  None = None
  Loop = Loop
  a = a
  b = b
  x = x
  y = y
  anchor = anchor
  first = first
  second = second
  upload = upload
  Category = {"template"}
  ExemptScopes = {"system", "filesystem"}
  Task <- CreateTask
  Anchors <- CreateAnchors
  MachineOf <- CreateMachineOf
  CategoryOf <- CreateCategoryOf
  PriorityOf <- CreatePriorityOf
  ParentOf <- CreateParentOf
  DependsOnOf <- CreateDependsOnOf
  MaxConcurrent = 2
  Uploads = {}
  ResumePending = TRUE
  Client = {c1}
  Cancellable <- CreateCancellable
  Prunable = {}
  WaitFor = {}
  Deletion = FALSE
  MaxExits = 1
  MaxFaults = 0
PROPERTIES
  EveryTaskSettles
  AnchorSettles
  ImplementsFairDispatch
