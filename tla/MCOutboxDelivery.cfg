\* Two workers, two messages, one fault, under the fair scheduler.
SPECIFICATION FairSpec
CONSTANTS
  w1 = w1
  w2 = w2
  Worker = {w1, w2}
  MaxAttempts = 2
  MaxEvent = 2
  MaxFaults = 1
CONSTRAINT FewKinds
INVARIANTS DeadOnlyAfterAllAttempts
PROPERTIES SettledStaysSettled FulfilsPromise
\* Every message may be settled, and nothing left to do.
CHECK_DEADLOCK FALSE
