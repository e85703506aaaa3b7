CONSTANTS
  ra = ra
  rb = rb
  loop = loop
  s1 = s1
  Requests = {ra, rb}
  PromptLen = 2
  MaxNew = 2
  NumBounds = 1
  Scrapers = {s1}
  Loop = loop
SPECIFICATION MSpec
SYMMETRY Symmetry
INVARIANTS HistogramsWhole CountersExplained RegistryRight
