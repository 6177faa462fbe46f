SPECIFICATION Spec
CONSTANTS
  Types = {1, 3, 5, 6, 8, 11, 13, 19, 51, 53, 88, 201}
  Conditions = {0, 1, 5, 6}
  Amounts = {0, 15000}
  Vat <- MCVat
  Differences <- MCDifferences
  Dates = {1, 2}
  Rates = {4, 30}
  Scale = 10
INVARIANT AIsIdentifiedByCuit
CHECK_DEADLOCK FALSE
