SPECIFICATION Spec
CONSTANTS
  Hosts = {"openqa", "localhost", "httpd"}
  Loopbacks = {"localhost"}
  HttpLike = {"httpd"}
  Ports = {443, 9526}
  PortAsHost = PortAsHost
  Settings <- HttpdSettings
  Confs <- MCConfs
  Envs <- MCEnvs
  Unset = Unset
  Injected = Injected
CHECK_DEADLOCK FALSE
INVARIANTS
  SchemeDefaults
