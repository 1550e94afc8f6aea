CONSTANTS
  Requests = {q1, q2}
  Bots = {b1}
  Calls = {c1, c2}
  NoTask = NoTask  NoCall = NoCall
  MaxTroubles = 1
SPECIFICATION Spec
INVARIANTS ApprovedRunsOnce RanIsAnswered SpeaksToSettled
  EndedIsQuiet AttachedIsVoice
PROPERTIES ImplementsGate
SYMMETRY Alike
