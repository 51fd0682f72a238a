SPECIFICATION Spec
CONSTANTS
  HeadCap = 7
  MaxHead = 5
  MaxBytes = 11
INVARIANTS
  BufferIsPrefix
  HeadNearlyValid
