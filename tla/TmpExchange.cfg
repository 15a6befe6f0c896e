\* Token, negotiation and one request, over two transaction ids, with answers of up to
\* three bytes that may come one exchange late.  The bound on exchanges ends the session.
CONSTANTS
  TransactionIds = 2
  MaxExchanges = 3
  MaxSize = 3
  MaxLate = 1
  None = None
SPECIFICATION ExchangeFairSpec
INVARIANTS ExchangeInv ReturnsOwnAnswer
PROPERTY ExchangeEnds
CHECK_DEADLOCK FALSE
