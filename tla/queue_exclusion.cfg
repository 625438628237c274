SPECIFICATION Spec
CONSTANTS
  None = None
  Loop = Loop
  a = a
  b = b
  x = x
  y = y
  anchor = anchor
  first = first
  second = second
  upload = upload
  Category = {"template"}
  ExemptScopes = {"system", "filesystem"}
  Task <- MixedTask
  Anchors = {}
  Uploads = {}
  MachineOf <- MixedMachineOf
  CategoryOf <- MixedCategoryOf
  PriorityOf <- MixedPriorityOf
  ParentOf <- MixedNothing
  DependsOnOf <- MixedNothing
  Prunable = {}
  WaitFor <- MixedWaitFor
  Deletion = FALSE
  MaxConcurrent = 2
  ResumePending = TRUE
  Client = {c1}
  Cancellable <- MixedCancellable
  MaxExits = 0
  MaxFaults = 0
INVARIANTS
  MachineExclusive
  CategoryExclusive
  WithinCapacity
  LocksFollowExecution
