CONSTANTS
  Configured <- MCConfigured
  OpenStacks <- MCOpenStacks
  Required <- MCRequired
SPECIFICATION Spec
CHECK_DEADLOCK FALSE
INVARIANT FeaturesLoad
