SPECIFICATION FormSpec
CONSTANTS
  AllForms <- WebForms
  Filled = {a, b}
  Preset = b
  Blank = Blank
  Junk = Junk
  Zero = Zero
INVARIANTS FormTypeOK ToldIsStored
PROPERTIES UntouchedStays
CHECK_DEADLOCK FALSE
