\* Two daemons one after the other; a client that wants two virtual displays.
SPECIFICATION WatchedSpec
CONSTANTS
  Daemons = {1, 2}
  MaxLines = 2
  MOST = 2
  Preferred = 2
  MaxMade = 5
INVARIANTS ListenersAreFound
PROPERTIES SessionFollowsDesktop FreeOnlyWhenFree NeverOneTooMany WantedIsReached
CHECK_DEADLOCK FALSE
