SPECIFICATION FairSpec
CONSTANTS
  ThreadTimers = {a, b}
  UserTimers = {u}
  M = 16
  Times = {1, 4}
  Waits = {0, 2, 5}
  MaxLate = 1
INVARIANTS TypeOK Sorted ActiveListed
PROPERTIES Punctual FirstInFirstCalled WakesUp
