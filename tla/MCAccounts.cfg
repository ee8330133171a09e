\* One user, a seller, whose requests race; a joint bound on the work of the
\* two services.
CONSTANTS
  None = None
  u1 = u1
  Users = {u1}
  Sellers = {u1}
  slug = slug
  Slugs = {slug}
  Consents = {"marketing"}
  p1 = p1  p2 = p2
  t1 = t1  t2 = t2
  s1 = s1  s2 = s2  s3 = s3
  r1 = r1  r2 = r2
  q1 = q1  q2 = q2
  a1 = a1  a2 = a2
  k1 = k1  k2 = k2
  Passwords <- MCPasswords
  Tokens <- MCTokens
  Sessions <- MCSessions
  Requests <- MCRequests
  ProfileRequests <- MCEdits
  Addresses <- MCAddresses
  Keys <- MCKeys
  MaxFailed = 2
  MaxWork = 9
SPECIFICATION Spec
SYMMETRY Symmetry
INVARIANT AccountsAgree
PROPERTIES NothingTakenBack VersionsNameContents
CHECK_DEADLOCK FALSE
