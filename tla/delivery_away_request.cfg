SPECIFICATION Spec
CONSTANTS
  c1 = c1
  c2 = c2
  alone = alone
  party = party
  auth = auth
  Contacts = {c1, c2}
  Windows <- MCWindows
  AuthWindows = {auth}
  Recipients <- MCRecipients
  MaxEvents = 2
INVARIANT
  AwayNeedsReply
