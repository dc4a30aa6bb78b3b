SPECIFICATION PreviewSpec
CONSTANTS
  Item = {i1, i2}
  Pdf = {}
  Sheet = {1, 2}
  Load = {l1, l2}
  NoItem = NoItem
  NoLoad = NoLoad
  FirstSheet = 1
  ServerFails = FALSE
INVARIANT OpenedPreviewIsShown
CHECK_DEADLOCK FALSE
