CONSTANTS
  Requests = {"r1", "r2"}
  May <- MCMay
  Whitelist = {"cubic", "reno", "vegas", "bbr"}
  Profiles = {"local", "hostLocal", "awsWan"}
  AtBoot = {"cubic", "reno", "vegas"}
  Default = {"cubic", "reno"}
  Nobody = "nobody"
  MaxFails = 1
SPECIFICATION Spec
INVARIANT SoloRunHasItsNetwork
CHECK_DEADLOCK FALSE
