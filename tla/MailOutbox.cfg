\* Two processes, two messages of two attempts, batches of one, one fault.
SPECIFICATION FairSpec
CONSTANTS
  Msg = {m1, m2}
  Sender = {s1, s2}
  NoMsg = NoMsg
  MaxAttempts = 2
  BatchLimit = 1
  MaxFaults = 1
INVARIANTS OneLossPerFault
PROPERTIES OncePerPass EveryMailSettles
