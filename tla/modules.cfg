CONSTANTS
  app = app
  lib = lib
  base = base
  f = f
  g = g
  Broken = Broken
  NoFile = NoFile
  NoEntry = NoEntry
  Files = {f, g}
  Metas <- MCMetas
  Catalogues <- MCCatalogues
  MaxEdits = 2
SPECIFICATION LoadingSpec
INVARIANTS CacheHonest ResolvesExactly
PROPERTY OrderRespected
