SPECIFICATION Spec
CONSTANTS
  Makers = {m1, m2}
  Depth = 3
  AllBits <- MCBits
  UserWrite = "uw"
  UserExec = "ux"
  Umasks <- MCUmasks
  Modes <- MCModes
  Interference = {"file", "rmdir"}
  MaxEvents = 1
SYMMETRY MCSymmetry
INVARIANTS UmaskRestored NoClosedDirectoryLeft AloneDoesItsJob
PROPERTIES UmaskRespected SuccessMeansMade
CHECK_DEADLOCK FALSE
