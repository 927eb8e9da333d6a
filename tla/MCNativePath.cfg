SPECIFICATION Spec
CONSTANTS
    HexDigits <- TwoDigits
    Plain <- OneLetter
    Ascii <- Codes
    MaxLen = 5
INVARIANTS
    IInv
    PathIsDecoded
\* The function returns.
CHECK_DEADLOCK FALSE
