SPECIFICATION Spec
CONSTANTS
  Files <- MCFiles
  ConfigModes <- MCConfigModes
  Alphabet <- MCAlphabet
  Bands <- MCBands
  Sats = {"AO7"}
  FreqBand <- MCFreqBand
  CallTexts = {"", "K1C", "long"}
  FreqTexts = {"", "14.1", "x"}
  Long = {"long"}
  MaxRecs = 3
  MaxEdits = 2
INVARIANTS SavedReadsBack ViewKeeps NoBlankWritten
CHECK_DEADLOCK FALSE
