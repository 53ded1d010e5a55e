\* Two threads polling while two tasks complete operations; the eventfd counter
\* reaches its limit at the third signal.
CONSTANTS
  Threads = {t1, t2}
  Tasks = {k1, k2}
  Unlocked = Unlocked
  MaxCount = 2
  MaxCompletions = 4
SPECIFICATION FairSpec
INVARIANTS TypeOK NoLostWakeup  
 
\* A finalized endpoint does nothing more.
CHECK_DEADLOCK FALSE
