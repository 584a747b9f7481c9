\* Every registered service, on a Linux desktop with dunst; two Sends of a
\* notification; two of the ticks a list of numbers waits for.
CONSTANTS
  Urls <- MCUrls
  Accepts <- ParseURL
  PlanOf <- Send
  Recipients <- MCRecipients
  MaxAttempts = 2
  TicksPerSend = 2
  Platform = "linux"
  Tools = {"dunstify", "notify-send"}
SPECIFICATION Spec
INVARIANTS
  TypeOK
  PlansAreWellMade
  NilMeansServed
  SecondCopyHasCause
  NoPostWithoutLogin
PROPERTIES
  SendsEnd
