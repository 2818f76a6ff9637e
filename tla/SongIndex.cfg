SPECIFICATION Spec
CONSTANTS
  Blank = Blank
  Quote = Quote
  x = x
  y = y
  Separator = Separator
  Blanks <- MCBlanks
  Quotes <- MCQuotes
  Texts <- MCTexts
  SizeLimit = 256
  MaxRows = 2
INVARIANTS
  MissedHasNoSong
  FoundIsFirst
  ColumnsTrimmed
  ValuesTrimmed
\* a catalogue has MaxRows rows
CHECK_DEADLOCK FALSE
