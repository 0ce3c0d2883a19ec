SPECIFICATION Spec
CONSTANTS
  Nil = Nil
  NoCall = NoCall
  Waiting = Waiting
  Goroutines = {g1, g2, g3}
  Payloads = {p1, p2}
  MaxOutstanding = 3
INVARIANTS TypeOK TableConsistent KeysExclusive NoTornPair IssuedBound
PROPERTIES Linearizable CallsReturn
