SPECIFICATION Spec
CONSTANTS
  Drivers = {d1, d2}
  Modes = {"local", "docker", "k8s", "auto"}
  MaxEdits = 3
  MaxMishaps = 1
INVARIANTS
  TypeOK
  ChecksSeeOwnEdits
  BoxesAreAccounted
  UntrustedIsIsolated
CHECK_DEADLOCK FALSE
