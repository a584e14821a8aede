SPECIFICATION FairSpec
CONSTANTS
  Null = Null
  Star = Star
  Slash = Slash
  Nowhere = Nowhere
  BlockedPage = BlockedPage
  engine = engine
  results = results
  query = query
  safeResults = safeResults
  image = image
  low = low
  high = high
  Above <- NoSubdomains
  Bare <- QueryOnly
  Protected = {}
  Url <- Urls
  Denied = {}
  Earlier <- Logs
  Limit = 2
  Day = 1
  MaxMinutes = 1
  Page <- Pages
  Safe <- SafeOf
  Block = {low, high}
  Pattern <- Patterns
  Rules <- TwoBlocks
  MaxMoves = 2
INVARIANT TypeOK
INVARIANT BudgetHolds
PROPERTY LockWins
PROPERTY GrantOpens
PROPERTY OnlyGrantedOpens
PROPERTY NavigationIsBlocked
