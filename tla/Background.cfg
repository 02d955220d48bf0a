CONSTANTS
  Items = {i1}
  Workers = {w1}
  Editors = {e1}
  Copies = {d1, d2}
  Good = {a}
  Bad = {x}
  Processes = {p1, p2}
  None = None
SPECIFICATION Spec
PROPERTIES
  WorkEventuallyFinished
  DeletedEventuallyGone
  OfficialIsFollowed
  EventuallyAnswered
CHECK_DEADLOCK FALSE
