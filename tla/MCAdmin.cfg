SPECIFICATION BackendSpec
CONSTANTS
  Handlers = {h1, h2}
  Nobody = Nobody
  MaxRequests = 3
  MaxStops = 1
  Wallets <- MCWallets
  Amounts <- MCAmounts
  Rates <- MCRates
  Fees <- MCFees
INVARIANTS
  SetupOnlyFirst
  OnlyRacesUndo
  EstimateSound
  FeePaysRelay
  RefusedIfShort
PROPERTIES
  RequestsAnswered
