CONSTANTS
  LogRingSize = 5
  Budget = 3
  UartDepth = 2
  c1 = c1
  c2 = c2
  Chars <- MCChars
  Blank = Blank
  Texts <- MCTexts
SPECIFICATION FairSpec
PROPERTIES ImplementsLastBytes CallsEnd LogFlows
