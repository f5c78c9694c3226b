\* One poller, two readers, two fields of two parts, three updates.
SPECIFICATION Spec
CONSTANTS
  Poller = poller
  Readers = {r1, r2}
  Fields = {status, joints}
  Parts = 2
  MaxRounds = 3
  Nobody = Nobody
INVARIANTS
  TypeOK
  GetsAreAtomic
