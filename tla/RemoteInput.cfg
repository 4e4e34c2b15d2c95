\* One latch and one button, typing, and a reconnection meanwhile; either platform.
SPECIFICATION Spec
CONSTANTS
  Modifiers = {"super"}
  Buttons = {"left"}
  MaxGen = 2
  MaxEvent = 2
INVARIANTS
  TypeOK
  FirstSessionAgrees
  NothingCrossesOver
PROPERTIES
  InputArrives
\* With the last connection over and the user done nothing happens any more.
CHECK_DEADLOCK FALSE
