CONSTANTS
  x1 = x1
  x2 = x2
  Exchange = {x1, x2}
  Tenant = {"payment-disputes", "kyc-review"}
  Role = {"agent.invoke", "platform.viewer", "transactions", "customer"}
  Entitlements <- MCEntitlements
  Subject = {"ann", "long"}
  LongSubject = {"long"}
  NoSubject = NoSubject
  NoTenant = NoTenant
  NoToken = NoToken
  Customer = {"CUST-1098", "CUST-2042"}
  Transaction = {"TXN-5001"}
  Account = {"ACCT-2001"}
  Accounts <- MCAccounts
  Owner <- MCOwner
  Hit = {"POL-PAY-001#chunk-1"}
  HitRoles <- MCHitRoles
  NoMatch = NoMatch
  Requests <- MCRequests
  Configurations <- MCConfigurations
  NoExchange = NoExchange
  NoRequest = NoRequest
  NoResult = NoResult
SPECIFICATION FairSpec
CHECK_DEADLOCK FALSE
INVARIANTS TypeOK AnswersTellTheTruth 
PROPERTY EveryExchangeIsAnswered
