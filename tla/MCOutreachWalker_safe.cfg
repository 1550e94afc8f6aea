CONSTANTS
  Runs = {r1, r2}
  Walkers = {w1, w2}
  Letters = {checkout, reply, order}
  NoWalker = NoWalker  NoRun = NoRun  NoLetter = NoLetter
  ask = ask  ring = ring  thank = thank  rest = rest  pick = pick
  checkout = checkout  reply = reply  order = order  edit = edit
  Squares = {ask, ring, rest, pick, thank}
  Listening = {ask}  Timers = {rest}  Calls = {ring}  Sends = {thank}
  Windowed = {rest}
  Versions = {1}
  Board <- AskAndRing
  Opens = {checkout}  Goals = {order}
  Hears <- HeardOnAsk  Says <- ReplyAgain  HappenedAt <- InOrder  Reports = {}
  MaxAttempts = 2  MaxSteps = 4  MaxStay = 3  MaxFaults = 1  MaxEdits = 0
SPECIFICATION Spec
INVARIANTS TrailIsPath AnswerDecides FoundsOnce OneLeadPerStay
PROPERTIES ExitIsFinal GoalSilences
CHECK_DEADLOCK FALSE
SYMMETRY Alike
