\* One latched modifier and a connection that drops; the user may reconnect.
SPECIFICATION Spec
CONSTANTS
  Modifiers = {"super"}
  Buttons = {}
  MaxGen = 2
  MaxEvent = 1
PROPERTIES
  NoModifierStuck
CHECK_DEADLOCK FALSE
