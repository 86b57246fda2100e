SPECIFICATION Spec
CONSTANTS
  d1 = d1
  None = None
  Devices = {d1}
  Sids = {i1}
  Sessions = {s1}
  Home <- MCHome
  Tabs = {t1}
  Commands = {c1}
  MaxDevices = 1
  MaxSessions = 1
  MaxPending = 1
PROPERTY NoDispatchAfterRevoke
CHECK_DEADLOCK FALSE
