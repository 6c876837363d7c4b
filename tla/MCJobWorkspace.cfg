SPECIFICATION Spec
CONSTANTS
  j1 = j1
  j2 = j2
  j3 = j3
  Jobs <- MCJobs
  Requests <- MCRequests
  MaxJobs = 2
INVARIANTS
  WorkspaceAccumulates
