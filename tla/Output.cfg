SPECIFICATION ScreenSpec
CONSTANTS
  W = 5
  H = 7
  FontSize = 2
  Space = 1
  TabWidth = 4
  MaxGlyphs = 4
  MaxLines = 3
INVARIANTS ScreenShows InRow
CHECK_DEADLOCK FALSE
