SPECIFICATION FairSpec
CONSTANTS
  Orgs = {o1}
  NoOrg = NoOrg
  Requests = {r1, r2}
  Job = Job
  Terms = {1, 2}
  MaxExpires = 2
  Grace = 1
  MaxDay = 4
  Faults = {"refused", "lost", "db", "profile", "kill"}
  MaxFaults = 1
INVARIANTS NoStrayOrganization  RunningCanSignIn
PROPERTIES ExpiryIsRespected DemosGo
