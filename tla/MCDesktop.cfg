SPECIFICATION ClientSpec
CONSTANTS
  Sent <- WithoutText
  Ids = {"bob"}
  Answers = {"ok"}
  NoText = NoText
  Nil = Nil
  Unknown = Unknown
  MaxPosts = 2
  MaxRemoves = 1
  MaxReplies = 1
  MaxKills = 1
  MaxDrops = 1
CHECK_DEADLOCK FALSE
INVARIANTS
  ShownRight
PROPERTIES
  ClientSettles
