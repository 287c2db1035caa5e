CONSTANTS
  Client = {c1, c2}
  Id = {i1, i2}
  Tenant = {t1, t2}
  NoClient = NoClient
  NoId = NoId
  NoTenant = NoTenant
  Verdict = {"approved", "rejected"}
SPECIFICATION Spec
SYMMETRY Symmetry
CONSTRAINT LimboBound
INVARIANTS TypeOK HonestAnswers
PROPERTY DecidedOnce
