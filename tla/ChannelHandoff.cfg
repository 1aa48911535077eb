\* An unbuffered channel: does every consumed send return?
SPECIFICATION FairSpec
CONSTANTS
  Thread = {t1, t2, t3}
  Msg = {m1}
  NoMsg = NoMsg
  Requested = 0
PROPERTIES HandoffCompletes
