SPECIFICATION Spec
CONSTANTS
  u1 = u1
  u2 = u2
  u3 = u3
  c1 = c1
  c2 = c2
  d1 = d1
  d2 = d2
  e1 = e1
  e2 = e2
  short = short
  long = long
  m1 = m1
  m2 = m2
  t1 = t1
  t2 = t2
  r1 = r1
  s1 = s1
  s2 = s2
  s3 = s3
  Absent = Absent
  Users = {u1, u2, u3}
  Calls = {c1, c2}
  MaxRows = 2
  Documents = {d1}
  Contents = {short, long}
  Metadata = {m1, m2}
  Size <- SizeOf
  DocumentLimit = 1
  CharacterLimit = 2
  Editors = {e1, e2}
  StepIds = {s1, s2, s3}
  FirstSteps = {s1}
  Tabs = {t1, t2}
  Clients = {r1}
  MaxVersions = 3
  Definitions <- SomeDefinitions
  Values <- SomeValues
  Paths <- SomePaths
  SaveDepth = 1
  MaxDepth = 2
  MaxItems = 2
  Paragraphs <- SomeParagraphs
  Sizes <- SomeSizes
  Vectors <- Lengths
  Exchanges <- SomeExchanges
CHECK_DEADLOCK FALSE
SYMMETRY Symmetry
CONSTRAINT WorkspaceBound
INVARIANTS
  SavesAreBased
  LayoutFits
  ActsWhenApproved
  
PROPERTIES
  LastOwnerGoesUnseen
  IndexGoesStaleUnseen
