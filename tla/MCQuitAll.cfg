SPECIFICATION WrapSpec
CONSTANTS
  N = 2
  MaxDialers = 2
PROPERTY QuitAllQuitsAll
CHECK_DEADLOCK FALSE
