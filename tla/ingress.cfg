SPECIFICATION Spec
CONSTANTS
  r1 = r1
  r2 = r2
  r3 = r3
  Request = {r1, r2, r3}
  SessionOf <- MCSessionOf
  Draw <- MCDraw
  MaxOffset = 1
  UsPerMs = 2
  Capacity = 2
  MaxPerSession = 3
  MaxTime = 2
  NoTask = NoTask
  Driver = Driver
INVARIANTS
    BufferAccounted
PROPERTIES
    OnlyLateIsOvertaken
    BufferDrains
