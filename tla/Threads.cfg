\* Three requests at a time, four posts.
SPECIFICATION Spec
CONSTANTS
  Request = {r1, r2, r3}
  MaxPosts = 4
  Nobody = Nobody
INVARIANT OpeningPostShown
PROPERTY AloneRepairs
CHECK_DEADLOCK FALSE
