CONSTANTS
  Threads = {t1, t2}
  Messages = {m1, m2, m3, m4}
  Durable = {TRUE, FALSE}
SPECIFICATION HistorySpec
INVARIANTS
  FailedIsKept
  ReplayedOnce
