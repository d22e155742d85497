CONSTANTS
  Size = 2
  MaxActors = 1
  MaxMail = 1
  ActorTag = 10001
  HandlerTable = 256
SPECIFICATION PlaygroundSpec
INVARIANT TagsHaveAPlace
CHECK_DEADLOCK FALSE
