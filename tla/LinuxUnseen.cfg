SPECIFICATION Spec
CONSTANTS
  None = None
  idle = idle  first = first  heir = heir  tenant = tenant
  I = I  A = A  B = B  shell = shell  memfd = memfd  trap = trap
  Tasks = {idle, first, heir, tenant}
  PidOf <- MCPidOf
  StructOf <- MCStructOf
  InitTask = idle
  Threads = {tenant}
  Images = {shell, memfd, trap}
  Nameless = {memfd}
  Throwing = {trap}
INVARIANTS
  RunningProcessesReturned
CHECK_DEADLOCK FALSE
