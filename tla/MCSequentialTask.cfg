SPECIFICATION Spec
CONSTANTS
  Envs = {e1, e2}
  NumSubtasks = 3
  AnyState = AnyState
  DesiredStates <- NoneOrLast
  Shared = Shared
INVARIANTS DemosAgree ExtrasOfTheStep
PROPERTIES ImplementsProgress
