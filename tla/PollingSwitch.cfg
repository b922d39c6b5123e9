SPECIFICATION Spec
CONSTANTS
  N = 3
  MaxLogins = 1
  PtzButtons = {1}
INVARIANT SwitchHitsOneCamera
