CONSTANTS
  p1 = p1
  p2 = p2
  w1 = w1
  w2 = w2
  w3 = w3
  s1 = s1
  s2 = s2
  t1 = t1
  Process = {p1, p2}
  Window = {w1, w2, w3}
  ProcessOf <- MCProcessOf
  Share = {s1, s2}
  Target = {t1}
  TargetOf <- MCTargetOf
  Backlog = 1
SPECIFICATION Spec
INVARIANTS OneMountEach NoEmptyDirectories LastWindowListsMounts
