SPECIFICATION Spec
CONSTANTS
  NumParties = 2
  Prices = {1, 2, 3}
  MaxQty = 2
  MaxLines = 4
INVARIANTS BooksExact ReportsExact Priority AuctionBest
PROPERTIES DropsOnlyAtTheEnd
CHECK_DEADLOCK FALSE
