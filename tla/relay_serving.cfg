SPECIFICATION Spec
CONSTANTS
  d1 = d1
  d2 = d2
  o1 = o1
  o2 = o2
  s1 = s1
  s2 = s2
  s3 = s3
  w1 = w1
  w2 = w2
  None = None
  Daemon = {d1}
  Socket = {s1, s2, s3}
  Workspace = {w1}
  Owner = {o1}
  OwnerOf <- OneOwner
  MaxChanges = 1
SYMMETRY Symmetry
INVARIANTS TypeOK RegistrySound ServesWhatIsEnabled
CHECK_DEADLOCK FALSE
