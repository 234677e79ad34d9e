SPECIFICATION MCSpec
CHECK_DEADLOCK FALSE
CONSTANTS
  Nil = Nil
  Windows = {"w1", "w2"}
  Widgets = {"c1", "c2"}
  Root = "root"
  ShowsAgain = FALSE
  SharesWidgets = FALSE
  Plain = {"p"}
  Toggle = {"t"}
  Radio = {"r1", "r2"}
  Groups = {"g", "h"}
  ClientSets = {0, 1}
  SetsAgain = FALSE
  DisablesPressed = FALSE
  BufferWidths = {1, 3, 4, 5, 9}
  Hint = 4
  Begun = 2
  Addresses = {1, 2, 3}
  MaxSaved = 3
  StartsLarge = FALSE
  ResetsResized = FALSE
  RestoresMore = FALSE
  Sizes = {2, 4}
  Mins = {1, 2}
  Maxs <- SomeMaxs
  Outset = 1
  Inset = 1
  Far = 2
  Widths = {0, 5}
  MaxCols = 2
  Bits = 8
  RowMins <- SomeMins
  Viewports = {1, 2}
  DisplaySizes <- SomeDisplays
  Moves <- SomeMoves
  PointerSize = 1
  MaxInvalid = 2
  Unloads = FALSE
  Width = 4
  Spans <- Spots
  Children <- ChildSpots
  Pointers <- PointerSpots
  Background = 3
INVARIANTS
  Typed
  FocusFollows
  SizesFit
  PointerFollows
  ScreenKept
PROPERTIES
  ReshapesRight
