SPECIFICATION Spec
CONSTANTS
  u1 = u1
  u2 = u2
  u3 = u3
  h1 = h1
  h2 = h2
  h3 = h3
  Users = {u1, u2, u3}
  Calls = {h1, h2, h3}
  Seed <- Seeded
SYMMETRY Callers
INVARIANT TypeOK
INVARIANT RepeatsNotifyOnce
INVARIANT StoredAmongFriends
PROPERTY FriendsForLife
