SPECIFICATION Spec
CONSTANTS
  d1 = d1  d2 = d2  j1 = j1  w1 = w1  w2 = w2  s1 = s1  s2 = s2
  Delivery = {d1, d2}
  Job = {j1}
  JobOf <- JobOfC
  Valid = {d1, d2}
  Worker = {w1, w2}
  Slot = {s1}
  WorkerOf <- WorkerOfC
  NoSlot = NoSlot
  NoJob = NoJob
  Faults = {"network"}
  Attempts = 2
  MaxStalled = 1
PROPERTY AcceptedMeansQueued
CHECK_DEADLOCK FALSE
