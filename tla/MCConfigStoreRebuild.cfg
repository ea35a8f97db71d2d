\* Two updates at a time and no stop are enough.
CONSTANTS
  Handlers = {h1, h2}
  MaxUpdates = 2
  MaxStops = 0
SPECIFICATION Spec
INVARIANT SettingsLiveInFile
