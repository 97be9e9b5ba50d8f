\* one command on two relays, up to three stray events
CONSTANTS
  Relays = {relay1, relay2}
  PowLevels = {0, 1}
  MaxNoise = 3
SPECIFICATION Spec
INVARIANTS TypeOK RightTransport NoMissedReply PowBlameIsRight BondClaimIsHonest
PROPERTIES Terminates ImplementsRequestReply
\* one request: a behaviour ends with its outcome
CHECK_DEADLOCK FALSE
