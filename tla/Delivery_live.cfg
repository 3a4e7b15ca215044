SPECIFICATION FairSpec
CONSTANTS
  bo = bo  kr = kr  None = None  StartOfBook = StartOfBook
  tab = tab  b1 = b1  n1 = n1
  Pages = {tab}  Books = {b1}  Notes = {n1}  Sizes = {FALSE, TRUE}
  MaxChanges = 3  MaxFaults = 1  MaxOthers = 1
INVARIANT PagesInOrder
PROPERTIES QueueDrains Converges
CHECK_DEADLOCK FALSE
