SPECIFICATION FairSpec
CONSTANTS
  c1 = c1
  c2 = c2
  w = w
  j1 = j1
  Clients <- MCClients
  Names <- MCNames
  Jobs <- MCJobs
  Budget = 2
PROPERTIES Resumed Dispatched
