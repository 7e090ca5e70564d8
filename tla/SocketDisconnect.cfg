CONSTANTS
  Sessions = {s1, s2}
  Subjects = {subj1}
SPECIFICATION ServerSpec
INVARIANT
  LeavingIsPrivate
