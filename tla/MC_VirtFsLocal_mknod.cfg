CONSTANTS
  p1 = p1
  p2 = p2
  Paths = {p1, p2}
  Creds <- MCCreds
  QemuUid = 0
  QemuGid = 0
  SM_LOCAL_MODE = 8
  SM_LOCAL_DIR_MODE = 9
  LinkMode = 10
SYMMETRY MCSymmetry
VIEW StateView
SPECIFICATION Spec
PROPERTIES
  CreateReportsCredentials
