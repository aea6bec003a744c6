SPECIFICATION FairSpec
CONSTANTS
  Sess = {s1, s2}
  Handlers = {h1, h2}
  Background = {}
  Hung = {s1}
PROPERTY RequestsServed
CHECK_DEADLOCK FALSE
