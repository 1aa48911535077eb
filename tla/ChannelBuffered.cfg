\* A buffered channel of two slots shared by three threads.
SPECIFICATION FairSpec
CONSTANTS
  Thread = {t1, t2, t3}
  Msg = {m1, m2}
  NoMsg = NoMsg
  Requested = 2
INVARIANTS TypeOK RingOK NoLostWakeup
PROPERTIES ImplementsFairFifo
