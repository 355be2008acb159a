CONSTANTS
  ROWS = 3
  COLS = 4
  TabStop = 2
  Vis = 2
  Chars = {"x", "y"}
  Words <- MCWords
  Panics <- MCPanics
  MaxLine = 4
SPECIFICATION Spec
INVARIANT RowsTerminated
INVARIANT PanelShowsLog
INVARIANT BarFollowsMilestones
