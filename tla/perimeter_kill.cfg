SPECIFICATION FairSpec
CONSTANTS
  Calls = {write}
  Commands = {k1, k2}
  read = read
  write = write
  push = push
  patch = patch
  purge = purge
  web = web
  api = api
  lib = lib
  Projects <- MCProjects
  Everywhere = Everywhere
  Within <- MCWithin
  CwdOf <- MCCwdOf
  Intents <- MCIntents
  IntentOf <- MCIntentOf
  Base <- MCBase
  AlwaysDenied <- MCAlwaysDenied
  Maintainable <- MCMaintainable
  SafeAllowed <- MCSafeAllowed
  UnattendedReviewHalts = TRUE
  DisarmTimes <- MCDisarmTimes
  WindowTTL = 1
  Nobody = Nobody
PROPERTY KillSwitchHolds
