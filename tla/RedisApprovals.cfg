CONSTANTS
  Client = {c1, c2}
  Id = {i1, i2}
  Tenant = {t1, t2}
  NoClient = NoClient
  NoId = NoId
  NoTenant = NoTenant
  Verdict = {"approved"}
  MaxFaults = 1
  Resend = TRUE
SPECIFICATION Spec
SYMMETRY Symmetry
INVARIANTS TypeOK PendingIsIndexed ListIsCompleteAndOwn GaugesAddUp
PROPERTY ImplementsApprovalStore
