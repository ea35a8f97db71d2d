SPECIFICATION Spec
CONSTANTS
  Handlers = {h1, h2}
  Nobody = Nobody
  MaxRequests = 3
  MaxStops = 1
INVARIANTS
  PasswordChangeHolds
SYMMETRY Symmetry
