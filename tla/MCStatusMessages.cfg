SPECIFICATION MessagesFairSpec
CONSTANTS
  MaxMessages = 3
  Text = {web, db}
  MaxId = 6
INVARIANTS
  MessagesTypeOK
PROPERTIES
  NoticesLast
  NoticesExpire
