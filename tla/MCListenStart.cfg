SPECIFICATION ListeningSpec
CONSTANTS
  Service = {lastfm}
  Threshold = 1
  MaxPlays = 2
  MaxTime = 2
CHECK_DEADLOCK FALSE
INVARIANT ListensDisjoint
