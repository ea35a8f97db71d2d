SPECIFICATION FeeSpec
CONSTANTS
  Wallets <- MCFewCoins
  Amounts <- MCPositive
  Rates <- MCRates
  Fees <- MCFees
INVARIANTS
  EstimateMatchesSend
