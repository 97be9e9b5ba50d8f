\* any caller, any message, any row
CONSTANTS
  Pushes = {"AddInvoice", "WaitingSellerToPay", "Canceled", "Released"}
SPECIFICATION Spec
INVARIANTS TypeOK OnlyTrustedWrites OnlyAnswersAreSaved FailedDispatchWroteNothing
\* one message: a behaviour ends with its result
CHECK_DEADLOCK FALSE
