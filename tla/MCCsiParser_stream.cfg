SPECIFICATION Spec
CONSTANTS
  Digits = {"0", "3"}
  Finals = {"h", "H"}
  Printable = {"~"}
  MAX_CSI_PARAMS = 2
  INT_MAX = 3
  MaxSeparators = 3
  CutStrings = FALSE
INVARIANT TypeOK
PROPERTY StreamParsed
