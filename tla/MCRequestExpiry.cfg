\* Two requests, a process that serves calls and two that run the task, one fault.
SPECIFICATION Spec
CONSTANTS
  r1 = r1
  r2 = r2
  Requests <- MCRequests
  Callers = {c1}
  Tasks = {t1, t2}
  MaxRevision <- MCMaxRevision
  MaxFaults = 1
INVARIANTS
  SearchesRight
PROPERTIES
  OverdueExpires
  ExpiryFollowsLifecycle
