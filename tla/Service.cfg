CONSTANTS
  Sessions = {s1}
  Subjects = {subj1, subj2}
SPECIFICATION FairServerSpec
INVARIANTS
  ServerTypeOK
  ClosedAreForgotten
  MigratedBeforeMessages
  ErrorsReachMain
  NoSubjectForgotten
PROPERTIES
  FailureEndsProcess
  ServesAgain
