SPECIFICATION FairSpec
CONSTANTS
  Services = {s1}
  Keys = {k1}
  Sms = {m1, m2}
  ServiceOf <- ToFirst
  Answers = {m2}
  Nothing = nothing
  MaxLoops = 2
  MaxChanges = 3
  MaxRestarts = 1
INVARIANT OneListener
INVARIANT WantedIsHeard
INVARIANT ErrorIsAboutListening
PROPERTY ImplementsInbox
PROPERTY EveryMessageTaken
CHECK_DEADLOCK FALSE
