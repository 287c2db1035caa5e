CONSTANTS
  a = a
  b = b
  b1 = b1
  kb1 = kb1
  Client = {a1, a2}
  Process = {a}
  Conn = {ka1, ka2}
  ProcessOf <- MCProcessOf
  Id = {i1}
  Tenant = {t1, t2}
  Verdict = {"approved"}
  NoClient = NoClient
  NoConn = NoConn
  NoId = NoId
  NoTenant = NoTenant
  MaxFaults = 1
SPECIFICATION FairSpec
INVARIANTS TypeOK 
PROPERTIES EveryCallReturns
