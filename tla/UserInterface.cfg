SPECIFICATION UiLiveSpec
CONSTANTS
  ROWS = {"list", "ok", "click"}
  QLEN = 2
INVARIANTS
  MessagesReachWindows
  SelectsOnce
PROPERTIES
  OkWasTouched
  OkStarts
