SPECIFICATION UntouchedSpec
CONSTANTS
  Cameras <- OneCamera
PROPERTY DownClosesLight
