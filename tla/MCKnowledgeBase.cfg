SPECIFICATION Spec
CONSTANTS
  d1 = d1
  p1 = p1
  p2 = p2
  k1 = k1
  k2 = k2
  s1 = s1
  Everywhere = Everywhere
  Docs <- MCDocs
  Projects <- MCProjects
  ProjectOf <- MCProjectOf
  Calls <- MCCalls
  Searches <- MCSearches
  MaxVersion = 2
  MaxRestarts = 1
INVARIANTS
  QuietIndexIsExact
  SteadyChunksAreFound
  HitsWereThere
