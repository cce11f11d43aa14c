\* Every resource that the webhook accepts can be converted.
SPECIFICATION Spec
CONSTANTS
  None = None
  Resources <- MCResources
  Backends = {"kubernetes"}
  Webhooks = {TRUE}
  MaxApplies = 1
INVARIANTS
  AcceptedConverts
\* Nobody has to write or ask anything.
CHECK_DEADLOCK FALSE
