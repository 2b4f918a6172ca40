SPECIFICATION MCSpec
CONSTANTS
  p = p
  q = q
  l1 = l1
  l2 = l2
  c1 = c1
  c2 = c2
  b1 = b1
  b2 = b2
  Sub = {s1}
  Cluster = {c1, c2}
  SubSpec = {p, q}
  Label = {l1, l2}
  Affinity <- MCAffinity
  Tolerant <- MCTolerant
  Binder = {b1, b2}
  None = None
  Allowed = {"spec", "delsub", "meta", "join", "relabel", "taint", "untaint", "delete", "apierr", "restart"}
  MaxEvents = 3
INVARIANTS
  TypeOK
  NoLostSubscription
  GrowingBindingsFit
PROPERTIES
  BindFromCurrentSpec
  SpecEventuallyBound
CHECK_DEADLOCK FALSE
