\* A job of two units; two cuts and a restart at any point.
CONSTANTS
  Units = 2
  MaxCuts = 2
  MaxRestarts = 1
SPECIFICATION FairSpec
INVARIANTS
  EndsAfterTerminalEvent
PROPERTIES
  EventsInSequence
  PageLearnsTheEnd
