CONSTANTS
  vocab = vocab
  languages = languages
  fixture = fixture
  Services = {service}
  Jobs = {job}
  Paths <- Files
  Missing = {fixture}
  Target = "data"
  Old = Old
  Entry = Entry
  MaxPolls = 1
  MaxStarts = 2
  MaxOutages = 1
SPECIFICATION FairSpec
CHECK_DEADLOCK FALSE
INVARIANTS ServesCleared SettledIsSeeded ReadyIsSeeded
PROPERTIES NoResetKeepsData BootEnds
