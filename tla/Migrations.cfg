\* Three instances boot together; two of their processes may die.
SPECIFICATION Spec
CONSTANTS
  Instances = {i1, i2, i3}
  MaxCrashes = 2
SYMMETRY Symmetry
INVARIANT TypeOK
INVARIANT LedgerIsPrefix
INVARIANT WholeVersions
INVARIANT ServesMigrated
INVARIANT SomebodyGoesOn
PROPERTY EachVersionOnce
CHECK_DEADLOCK FALSE
