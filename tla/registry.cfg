CONSTANTS
  Operators = {o1, o2}
  Detectors = {d1}
  Releases = {r1}
  Trained = {t1}
  Demos = {x1}
  NoModel = NoModel
  MaxCommands = 3
  MaxFaults = 1
SPECIFICATION Spec
INVARIANT ActiveIsRegistered
INVARIANT RegistrationsSurvive
INVARIANT DeploymentsAgree
SYMMETRY Symmetry
CHECK_DEADLOCK FALSE
