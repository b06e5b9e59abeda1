CONSTANTS
  a = a
  b = b
  s1 = s1
  s2 = s2
  Ids = {s1, s2}
  Chunks = {a, b}
  Contents <- MCContents
  Nothing = Nothing
  Torn = Torn
  MaxCount = 4
  Faults = {"chunk_fails", "chunk_torn", "manifest_fails", "crash"}
SPECIFICATION Spec
INVARIANTS CountsCoverReferences LedgerExact
PROPERTY KeepsSnapshots
