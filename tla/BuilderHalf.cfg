SPECIFICATION Spec
CONSTANTS
  Hosts = {"openqa", "localhost", "httpd"}
  Loopbacks = {"localhost"}
  HttpLike = {}
  Ports = {443, 9526}
  PortAsHost = PortAsHost
  Settings <- TokenSettings
  Confs <- MCConfs
  Envs <- MCEnvs
  Unset = Unset
  Injected = Injected
CHECK_DEADLOCK FALSE
INVARIANTS
  HalfPairFails
