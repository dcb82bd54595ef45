CONSTANTS
  work = work
  role = role
  w1 = w1
  w2 = w2
  b = b
  f = f
  Shapes = {work, role}
  Helpers = {role}
  Records = {w1, w2}
  ShapeOf <- ShapeMap
  Bridges = {b}
  Files = {f}
  LinksAtStart <- FirstLinks
  MaxFetches = 2
  MaxPosts = 1
  None = None
  Gone = Gone
  Blank = Blank
  Typed = Typed
SPECIFICATION Spec
CHECK_DEADLOCK FALSE
INVARIANTS SavesOneRecord DraftsAreNew OpensWhenAnswered
PROPERTIES ConnectionsKept
