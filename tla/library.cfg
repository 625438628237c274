SPECIFICATION FairSpec
CONSTANTS
  Location = {a, b}
  Content = {x, y}
  Given = {y}
  Listed = {y}
  SameSize = FALSE
  Id = {1, 2, 3, 4, 5, 6, 7, 8}
  None = None
  MaxEvents = 2
PROPERTY Converges
CHECK_DEADLOCK FALSE
