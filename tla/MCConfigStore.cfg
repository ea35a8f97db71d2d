\* Three updates, two of them at a time, and two stops.
CONSTANTS
  Handlers = {h1, h2}
  MaxUpdates = 3
  MaxStops = 2
SYMMETRY Symmetry
SPECIFICATION Spec
INVARIANTS
  NeverTorn
  NoOldSettings
