\* Two requests and a development run.
SPECIFICATION FairSpec
CONSTANTS
  Requests = {p1, p2}
  Runs = {r1}
  a = a
  Texts = {a, b}
  Tags = {t1, t2}
  Seeds <- MCSeeds
  MaxDocs = 3
  MaxOps = 3
INVARIANTS
  CodesAreCounted HistoryIsKept CountsAreKept StatusTellsReview
PROPERTIES RequestsEnd
CHECK_DEADLOCK FALSE
