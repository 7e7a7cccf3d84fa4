SPECIFICATION RunSpec
CONSTANTS
  Orders = {"SignerIdPeer", "IdSignerPeer"}
  DefaultOrder = "SignerIdPeer"
  Callers = {app, tool}
  MaxLinks = 3
  MaxResets = 1
  Pins = {1, 2}
  MaxTries = 2
  MaxParts = 2
INVARIANTS StagesAgree AnswersAreItsOwn PairedIsMutual SavedIsAccepted PairedAreRecognised
SYMMETRY Symmetry
CHECK_DEADLOCK FALSE
