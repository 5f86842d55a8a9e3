SPECIFICATION FairSpec
CONSTANTS
  l1 = l1
  r1 = r1
  NoStream = NoStream
  NumConns = 2
  Coros <- TwoCoros
  Logins <- OneLogin
INVARIANTS
  TypeOK
  ExclusiveLease
  AtMostOneReply
  PollHandleExists
  WaitHasWaker
  AnswerIsOwn
PROPERTIES
  RequestEnds
  BadConnReplaced
  ImplementsLease
