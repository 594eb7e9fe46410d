SPECIFICATION Spec
CONSTANTS
  Files <- MCFiles
  ConfigModes <- MCConfigModes
  Alphabet <- MCAlphabet
  Bands <- MCBands
  Sats = {"AO7"}
  FreqBand <- MCFreqBand
  CallTexts = {"", "K1C"}
  FreqTexts = {"", "14.1", "x"}
  Long = {}
  MaxRecs = 3
  MaxEdits = 2
INVARIANT NothingToSave
CHECK_DEADLOCK FALSE
