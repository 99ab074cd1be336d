CONSTANTS
  QLen = 2
  MaxSongs = 2
  MaxGen = 4
  MaxHeld = 2
  CrashInIo = FALSE
SPECIFICATION FairSpec
INVARIANTS
  TypeOK
  AudioExclusive
  SongMatchesStick
  ActiveSong
PROPERTY MusicComesBack
