CONSTANTS
  a = a
  b = b
  b1 = b1
  kb1 = kb1
  Client = {a1, b1}
  Process = {a, b}
  Conn = {ka1, kb1}
  ProcessOf <- MCProcessOf
  Id = {i1}
  Tenant = {t1}
  Verdict = {"approved"}
  NoClient = NoClient
  NoConn = NoConn
  NoId = NoId
  NoTenant = NoTenant
  MaxFaults = 2
SPECIFICATION FairSpec
INVARIANT GaugesAddUp
PROPERTY ImplementsApprovalStore
