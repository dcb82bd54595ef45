CONSTANTS
  expr = expr
  work = work
  role = role
  person = person
  nowhere = nowhere
  derived = derived
  component = component
  realised = realised
  hasRole = hasRole
  agent = agent
  subject = subject
  e1 = e1
  e2 = e2
  e3 = e3
  k = k
  b = b
  p = p
  None = None
  MaxLinks = 8
  Shapes = {expr, work, role, person}
  Catalogues <- AllCatalogues
  Roots <- TwoRoots
  StoreCandidates <- Stored
  PayloadCandidates <- Sent
SPECIFICATION FairSpec
CHECK_DEADLOCK FALSE
INVARIANTS PlanIsComplete MergeIsComplete IntentKept
PROPERTIES PlanEnds
