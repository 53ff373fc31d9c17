SPECIFICATION Spec
CONSTANTS
  m = m
  v = v
  NoTrack = NoTrack
  Music <- MCMusic
  Voice <- MCVoice
  XaMode <- MCXaMode
  XaNextMode <- MCXaNextMode
  Asked = {"SET_STOP_MUSIC", "SET_UNK_80", "SET_UNK_90", "SET_UNK_10", "SET_XA_PLAYBACK", "SET_UNK_12", m, v}
  MaxSnd = 3
  RingBound = 1
  Full = 1
  MaxFails = 1
INVARIANTS WaitersAreServed StepIsOfTheHead SavedTracks MasterVolumeComesBack
PROPERTIES RunningCommandStays SuspendEnds FadeIsOver
