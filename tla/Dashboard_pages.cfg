\* TabCalls, ChatCalls and ListCalls share the values of Ids, and Hooks those of Chats.
CONSTANTS
  a1 = a1
  a2 = a2
  b1 = b1
  b2 = b2
  Keys = {y1, y2}
  y1 = y1
  y2 = y2
  TabCalls = {a1, a2}
  MaxLoads = 1
  MaxTroubles = 2
  Ids = {a1, a2}
  MaxDialogues = 2
  MaxStreams = 2
  Chats = {b1, b2}
  MaxMessages = 4
  PageLen = 1
  ChatCalls = {a1, a2}
  Hooks = {b1, b2}
  Targets = {x1, x2}
  x1 = x1
  x2 = x2
  ListCalls = {a1, a2}
  MaxSaves = 2
  MaxToggles = 1
SPECIFICATION Spec
SYMMETRY Symmetric
INVARIANTS TypeOK ScreenMatchesLogin ConversationSound AppNeedsSession KeyWasAccepted
PROPERTIES LinksMatchForm
CHECK_DEADLOCK FALSE
