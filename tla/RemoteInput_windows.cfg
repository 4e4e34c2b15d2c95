\* A capital letter is typed; the laptop of the counterexample runs Windows.
SPECIFICATION Spec
CONSTANTS
  Modifiers = {"super"}
  Buttons = {}
  MaxGen = 1
  MaxEvent = 1
PROPERTIES
  ModifiersAreDown
CHECK_DEADLOCK FALSE
