\* three processes, one of them misconfigured, race through the first run
CONSTANTS
  Procs = {p1, p2, bad}
  BadConfig = {bad}
  Legacy = Legacy
  NoUser = NoUser
SYMMETRY ProcSymmetry
SPECIFICATION Spec
INVARIANTS TypeOK ContextsAgree OpenedPrivate NoSecretFromBadConfig
PROPERTIES IdentityIsStable
