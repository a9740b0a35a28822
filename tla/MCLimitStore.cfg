\* Freezes, edits, failed writes, failed migrations, partial loads, restarts.
SPECIFICATION Spec
CONSTANTS
  Emails <- MCEmails
  Lower <- MCLower
  OperatorRows <- MCOperatorRows
  DefaultCap = 9
  MaxSaves = 2
  MaxEdits = 1
  MaxRestarts = 2
INVARIANTS
  TypeOK
  FreezeDurable
PROPERTIES
  PolicyKept
