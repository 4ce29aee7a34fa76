SPECIFICATION FairSpec
CONSTANTS
  Updates = {update}
  update = update
  Fields = {title, uri, provider}
  Compared = {title, uri}
  title = title
  uri = uri
  provider = provider
  Texts = {a, b}
  a = a
  b = b
  Notifications <- MCNotifications
  NoText = NoText
  NoFile = NoFile
  MaxEvents = 4
  MaxChecks = 1
  MaxAlarms = 2
INVARIANTS
  NotifierInv
  NoFalseAlarm
PROPERTIES
  UpdatesAnnounced
  NotesAnnounced
CHECK_DEADLOCK FALSE
