SPECIFICATION FairSpec
CONSTANTS
  Sess = {s1}
  Handlers = {h1}
  Background = {"cleanup"}
  Hung = {}
PROPERTY RequestsServed
CHECK_DEADLOCK FALSE
