SPECIFICATION Spec
CONSTANTS
  CertList <- MCCerts
  Entities <- MCEntities
  ZonesOf <- MCZonesOf
  Subs <- MCSubs
  SubZones <- MCSubZones
  Counties <- MCCounties
  MustPick <- MCMustPick
  ItuRange = {1, 2, 3}
  CqRange = {1, 2, 3}
  Preset <- MCPreset
  MaxEdits = 2
INVARIANTS ShownIsHeld SavedFits RoundTrip PickSticks
