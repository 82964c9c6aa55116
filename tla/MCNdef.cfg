CONSTANTS
  Byte = {0, 1}
  FileArea = 3
  MaxMessageLength = 3
  ReadChunk = 2
  WriteChunk = 1
  MaxExchanges = 8
  Messages <- MCMessages
  Paging = {"SelectApplet", "ReadCc", "ReadNlen", "Message"}
SPECIFICATION Spec
INVARIANTS NoTornMessage OutcomeReal BudgetSuffices
