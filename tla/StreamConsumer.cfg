\* Two pods, one entry of another pattern and one whose handler always fails.
CONSTANTS
  Pods = {p1, p2}
  Length = 4
  Mine = {1, 2, 4}
  Poison = {1}
  Count = 2
  MaxFaults = 2
SPECIFICATION FairSpec
PROPERTIES
  ImplementsGroup
  RestartsDrain
