\* One call and one cancellation.
CONSTANTS
  Calls = {h1}
  Cancellers = {k1}
SPECIFICATION Spec
PROPERTY
  OvertakenCallIsCancelled
