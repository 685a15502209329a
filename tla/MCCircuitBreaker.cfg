SPECIFICATION FairSpec
CONSTANTS
  root = root
  sub = sub
  none = none
  subscribe = subscribe
  generate = generate
  portal = portal
  t1 = t1
  t2 = t2
  Tasks = {t1, t2}
  Targets <- MCTargets
  Keys <- MCKeys
  NoKey <- none
  Exact <- MCExact
  Covers <- MCCovers
  DefaultKey <- MCDefaultKey
  Threshold = 2
  Recovery = 2
INVARIANT TypeOK
INVARIANT ClosedIffBelowThreshold
PROPERTY NeverStuck
