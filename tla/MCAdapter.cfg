SPECIFICATION AdapterSpec
CONSTANTS
  Line <- MCLine
  RowLine <- MCRowLine
  MaxLines = 4
  MaxKept = 3
INVARIANTS
  PolicyIsWhatIsWritten
  NothingIsLost
CHECK_DEADLOCK FALSE
