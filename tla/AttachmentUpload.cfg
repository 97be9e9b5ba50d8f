\* the nine servers of BLOSSOM_SERVERS
CONSTANTS
  Servers = 9
SPECIFICATION Spec
INVARIANTS TypeOK StoredWasChecked ReportIsTrue NoSecondCopy
