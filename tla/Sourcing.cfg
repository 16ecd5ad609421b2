SPECIFICATION Spec
CONSTANTS
  Worker = {w1, w2}
  Searcher = {s1}
  Price = {1}
  None = None
  Junk = Junk
  Called = {"web", "ebay"}
  Polite = {"web"}
  Tokened = {"ebay"}
  Limit = 1
  Window = 2
  MinInterval = 2
  MaxRetries = 1
  BackoffBase = 1
  Lifetimes = {3}
  Margin = 2
  Floor = 1
  Answers <- PlainAnswers
  LastTick = 3
  Calls = 3
  Faults = {"network", "crash"}
INVARIANTS TypeOK RateHeld OffersAreQuoted
PROPERTIES DenialsAreDue AsksPolitely TokenFresh
SYMMETRY Alike
CHECK_DEADLOCK FALSE
