SPECIFICATION MailSpec
CONSTANTS
  Addresses = {a1, a2}
  MaxTo = 2
  MaxAttempts = 2
  Files <- MCFiles
  Envs <- MCEnvs
  Tables <- MCTables
  Edits <- MCEdits
  MaxSaves = 2
  MaxRestarts = 1
SYMMETRY Symmetry
INVARIANTS TypeOK AllOrNone EncryptedFirst LaterOverridesEarlier
PROPERTIES UntouchedFormKeeps
\* the mail is delivered or out of attempts, and all saves are used up
CHECK_DEADLOCK FALSE
