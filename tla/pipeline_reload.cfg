\* A kill after the new data set is marked and before all of it is loaded.
SPECIFICATION Spec
CONSTANTS
  None = None
  Torn = Torn
  Empty = Empty
  call_center = call_center
  store_sales = store_sales
  web_sales = web_sales
  Datasets = {"1:10", "4:10"}
  Pages = {"16K", "32K"}
  Tables <- MCTables
  Files <- MCOrder
  LoadOrder <- MCOrder
  Sales = store_sales
  KilledIn = {"server", "start", "loading"}
  KilledBefore = TRUE
INVARIANT
  ResultHonest
