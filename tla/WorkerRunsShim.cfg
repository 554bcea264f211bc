CONSTANTS
  Requests = {"r1", "r2"}
  May <- SoloMay
  Whitelist = {"cubic", "reno", "vegas", "bbr"}
  Profiles = {"local", "hostLocal", "awsWan"}
  AtBoot = {"cubic", "reno", "vegas"}
  Default = {"cubic", "reno"}
  Nobody = "nobody"
  MaxFails = 0
SPECIFICATION Spec
INVARIANT ShimSticks
CHECK_DEADLOCK FALSE
