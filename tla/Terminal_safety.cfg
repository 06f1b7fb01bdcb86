\* A screen of three columns and two rows; four events.
CONSTANTS
  Width = 3
  Height = 2
  TabWidth = 2
  InitialSize = 2
  MaxEvents = 4
  MaxQueued = 2
  Events <- MCEvents
  Prompt <- MCPrompt
  Outputs <- MCOutputs
CHECK_DEADLOCK FALSE
SPECIFICATION TerminalSpec
INVARIANT LinesAreTyped
INVARIANT ScreenShowsLine
