SPECIFICATION FairSpec
CONSTANTS
  d1 = d1
  None = None
  Devices = {d1}
  Sids = {i1, i2}
  Sessions = {s1, s2}
  Home <- MCHome
  Tabs = {t1}
  Commands = {c1, c2}
  MaxDevices = 1
  MaxSessions = 2
  MaxPending = 2
INVARIANTS
  TypeOK
  SettledOnce
  OneLiveSessionPerDevice
  PendingSessionsAreLive
  BusyMarksMatchPending
PROPERTIES
  OutcomeIsFinal
  ImplementsDeviceLock
  BusyDeviceFrees
CHECK_DEADLOCK FALSE
