\* An unbuffered channel: rendezvous safety and the abstract queue.
SPECIFICATION FairSpec
CONSTANTS
  Thread = {t1, t2, t3}
  Msg = {m1, m2}
  NoMsg = NoMsg
  Requested = 0
INVARIANTS ItemHasSender
PROPERTIES ImplementsFifo CloseReleasesAll
