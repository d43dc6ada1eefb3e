CONSTANTS
  User = {"tasklet", "work"}
  AutoSleep = FALSE
SPECIFICATION FairSpec
INVARIANTS TypeOK AwakeWhileInUse AwakeWhileWaiting FullSleepMeansIdle
PROPERTIES IdleFallsAsleep
