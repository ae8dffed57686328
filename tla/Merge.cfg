SPECIFICATION WorkSpec
CONSTANTS
  Nobody = Nobody
  c1 = c1
  c2 = c2
  w1 = w1
  w2 = w2
  s1 = s1
  s2 = s2
  v1 = v1
  v2 = v2
  m1 = m1
  m2 = m2
  Tasks = {"task"}
  Workers = {w1, w2}
  Products = {s1, s2}
  Callers = {c1, c2}
  Evidence = {v1, v2}
  Commits = {m1, m2}
  Reasons = {"conflict"}
  MaxEpoch = 3
SYMMETRY WorkSymmetry
PROPERTY MergeIsFinal
