\* Two launchers in every pair of display modes; safety and liveness.
SPECIFICATION FairSpec
CONSTANTS
  Launchers = {l1, l2}
  Modes = {"server", "browser", "chrome-app", "webview", "webview-forced"}
  Faults = {"other", "kill"}
  None = None
  Other = Other
INVARIANTS
  OpensOnlyOnReader
  OwnWindowStaysServed
  DelegatedWindowGetsGrace
PROPERTIES
  StartupEnds
  ClosedWindowEndsProcess
\* Launchers end for good.
CHECK_DEADLOCK FALSE
