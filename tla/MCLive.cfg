SPECIFICATION LiveSpec
CONSTANTS
  Conns <- OneConn
  Fds <- TwoFds
  MaxFiles = 1
  HeartLimit = 2
  Cameras <- TwoCameras
  Presets = {1}
INVARIANT RecordFollowsCamera
PROPERTIES SilentPeerDropped Reconnects DestroyReturns CamerasReturn
