SPECIFICATION MessagesSpec
CONSTANTS
  MaxMessages = 3
  Text = {web, db}
  MaxId = 2
PROPERTIES
  ErrorsStayUntilRefresh
