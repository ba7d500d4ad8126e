SPECIFICATION EntryFormSpec
CONSTANTS
  MaxComponents = 2
  MaxEntries = 2
  Meanings = {a, b}
  Values = {v1, v2}
  Blank = Blank
  MaxRequests = 2
  MaxEdits = 1
  MaxQueue = 1
SYMMETRY MCSymmetry
INVARIANTS ComponentsStand CleanFormIsHeld 
PROPERTIES TargetReadsOneSet
