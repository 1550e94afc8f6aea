CONSTANTS
  Runs = {r1, r2}
  Walkers = {w1}
  Letters = {checkout, edit}
  NoWalker = NoWalker  NoRun = NoRun  NoLetter = NoLetter
  ask = ask  ring = ring  thank = thank  rest = rest  pick = pick
  checkout = checkout  reply = reply  order = order  edit = edit
  Squares = {ask, ring}
  Listening = {ask}  Timers = {}  Calls = {ring}  Sends = {}
  Windowed = {}
  Versions = {1}
  Board <- AskFresh
  Opens = {checkout, edit}  Goals = {}
  Hears <- HeardOnAsk  Says <- ReplyAgain  HappenedAt <- InOrder  Reports = {}
  MaxAttempts = 2  MaxSteps = 4  MaxStay = 3  MaxFaults = 0  MaxEdits = 0
SPECIFICATION Spec
PROPERTIES RepeatKept
CHECK_DEADLOCK FALSE
