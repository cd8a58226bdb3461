CONSTANTS
  a = a
  h = h
  u = u
  oa = oa
  oh = oh
  sp = sp
  m = m
  ra = ra
  d = d
  Files <- MCFiles
  Usrs <- MCUsrs
  Occs <- MCOccs
  Rels <- MCRels
  IndexesOf <- MCIndexesOf
  MaxQueue = 3
SPECIFICATION Spec
INVARIANTS  DefsExact UsesExact RelsExact RefcntExact RefcntAssertion
