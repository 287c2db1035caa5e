CONSTANTS
  Id = {"POL-PAY-001", "POL-KYC-001"}
  Role = {"transactions", "customer", "fraud"}
  Known = {"transactions", "customer"}
  Releases <- MCReleases
  Callers <- MCCallers
  ChunkSize = 6
  Overlap = 2
  Limit = 1
  MaxChunks = 3
  Absent = Absent
SPECIFICATION FairSpec
INVARIANTS TypeOK AnswersStayInScope 
PROPERTY ChunkingEnds
