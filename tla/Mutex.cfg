SPECIFICATION Spec
CONSTANT
  Thread = {t1, t2, t3, t4}
INVARIANT
  MutualExclusion
PROPERTY
  SomeoneEnters
