CONSTANTS
  H = 4
  XHalf = 4
  Weight = 2
  Velocities <- MCVelocities
  XValues <- MCXValues
  Timings <- MCTimings
  BusWrites <- MCBusWrites
SPECIFICATION Spec
INVARIANTS
  HwTypeOK
  SegmentLength
  Trajectory
  StrobesFollowPosition
  ShaftFollowsStrobes
  MissedStepsCounted
PROPERTIES
  RunsToTheEnd
  PulseTiming
