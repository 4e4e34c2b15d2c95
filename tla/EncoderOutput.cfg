\* Two groups of pictures; more frames under way than the queue of stamps holds.
SPECIFICATION Spec
CONSTANTS
  MaxFrame = 4
  Gop = 2
  Slices = 1
  Depth = 1
  PipeMax = 2
  FifoBound = 2
INVARIANTS
  TypeOK
  WholeFrames
  StampsAreTrue
  OnlyNewPictures
PROPERTIES
  NewPicturesAreSent
\* A stopped stage does nothing more.
CHECK_DEADLOCK FALSE
