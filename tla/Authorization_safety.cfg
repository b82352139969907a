\* One request; requests share nothing here.  Results of up to four children.
CONSTANTS
  r1 = r1
  Requests = {r1}
  Texts = {"x", "bad"}
  Refused = {"bad"}
  MaxChildren = 4
SPECIFICATION FairSpec
INVARIANTS
  TypeOK
  PermitOnlyIfPermitted
  FailClosed
  ObligationsFromPDP
PROPERTY
  RequestEnds
\* A request that has been answered rests.
CHECK_DEADLOCK FALSE
