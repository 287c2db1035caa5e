CONSTANTS
  Client = {c1, c2}
  Id = {i1, i2}
  Tenant = {t1, t2}
  Verdict = {"approved", "rejected"}
  NoClient = NoClient
  NoId = NoId
  NoTenant = NoTenant
  MaxFaults = 1
SPECIFICATION Spec
SYMMETRY Symmetry
INVARIANTS TypeOK GaugeAtRest
PROPERTY ImplementsApprovalStore
