CONSTANTS
  Runs = {r1}
  Walkers = {w1}
  Letters = {checkout, reply}
  NoWalker = NoWalker  NoRun = NoRun  NoLetter = NoLetter
  ask = ask  ring = ring  thank = thank  rest = rest  pick = pick
  checkout = checkout  reply = reply  order = order  edit = edit
  Squares = {ask, ring, rest, pick, thank}
  Listening = {ask}  Timers = {rest}  Calls = {ring}  Sends = {thank}
  Windowed = {}
  Versions = {1, 2}
  Board <- AskOnce
  Opens = {checkout, reply}  Goals = {}
  Hears <- HeardOnAsk  Says <- ReplyAgain  HappenedAt <- InOrder  Reports = {}
  MaxAttempts = 2  MaxSteps = 4  MaxStay = 3  MaxFaults = 1  MaxEdits = 1
SPECIFICATION FairSpec
PROPERTIES RunsSettle
CHECK_DEADLOCK FALSE
