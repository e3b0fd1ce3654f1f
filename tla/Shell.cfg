CONSTANTS
  Peer = {b}
  Me = me
  NoOne = noone
  Inbox <- MCInbox
  MaxStarts = 2
  MaxKills = 1
SPECIFICATION FairSpec
INVARIANTS
  TypeOK
  PromptNames
  
  NothingSkipped
  LogTrue
PROPERTIES
  CallsReturn
  MessagesFinish
  QuitEnds
CHECK_DEADLOCK FALSE
