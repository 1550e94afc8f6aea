CONSTANTS
  Letters = {1, 2, 3, 4, 5, 6}
  Kept = {6}
  Backlog = {1, 2, 3, 4}
  Workers = {w1, w2}
  NoTopic = NoTopic
  Consumers = {1, 2}
  cart = cart  paid = paid  call = call
  Topics = {cart, paid, call}
  TopicOf <- Crossing
  Declared = {call}
  Unreadable = {5}
  Poison <- PoisonLetter
  MaxAttempts = 2  Batch = 2  MaxFaults = 1
SPECIFICATION Spec
PROPERTY CrashCounts
CHECK_DEADLOCK FALSE
