\* one process, killed half-way through the first run
CONSTANTS
  Procs = {p1}
  BadConfig = {}
  Legacy = Legacy
  NoUser = NoUser
SPECIFICATION Spec
INVARIANTS FirstCommandCreatesUser
