\* Two requests of one browser at a time, two sessions of each name, two logins.
SPECIFICATION Spec
CONSTANTS
  r1 = r1
  r2 = r2
  i1 = i1
  i2 = i2
  v1 = v1
  v2 = v2
  u1 = u1
  u2 = u2
  z1 = z1
  z2 = z2
  Requests <- MCRequests
  Ids <- MCIds
  Verifiers <- MCVerifiers
  Users <- MCUsers
  mainUser = u1
  Zones <- MCZones
  None = None
  Unused = Unused
  Gone = Gone
SYMMETRY Symmetric
INVARIANTS TypeOK CookieHasFile LoggedInStays ZoneKept LatestLoginWorks
PROPERTY LogoutOnlyByLoss
CHECK_DEADLOCK FALSE
