\* Two seats and two controllers; three generations of the control plane; two
\* strips, of which the desk has one to begin with; up to three second windows.
CONSTANTS
  Seats = {local, remote}
  MaxCtls = 2
  Editors = {"desk", "seat"}
  Configs <- MCConfigs
  MaxPlanes = 3
  MaxSearches = 2
  CtlBudgets <- MCCtlBudgets
  Absent = Absent
  Null = Null
  Odd = Odd
  InputOf <- MCInputOf
  Strips = {"cam1-1", "cam2-1"}
  Routes <- MCRoutes
  Batches <- MCBatches
  DeskBudgets <- MCDeskBudgets
  Columns = {"aux1"}
  Openings = {"open"}
  Pressers = {p1}
  Shutdown = shutdown
  WinBudgets <- MCWinBudgets
  RelaunchMax = 1
  QueueDepth = 1
  PipeRoom = 1
SYMMETRY Symmetry
SPECIFICATION MCSpec
INVARIANTS
  NoOrphanController ControlPlaneIsRight OneCrosspointChanges SentIsMeant OneWindow WindowGoes
CHECK_DEADLOCK FALSE
