\* Resources of every kind, in both backends, with and without the webhook.
SPECIFICATION Spec
CONSTANTS
  None = None
  Resources <- MCResources
  Backends = {"kubernetes", "filesystem"}
  Webhooks = {TRUE, FALSE}
  MaxApplies = 3
INVARIANTS
  TypeOK
  AcceptedIsServed
  DetailOfListed
  ListedIsFound
\* Nobody has to write or ask anything.
CHECK_DEADLOCK FALSE
