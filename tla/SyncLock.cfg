SPECIFICATION Spec
CONSTANTS
  button = button
  poller = poller
  nightly = nightly
  Starters = {button, poller, nightly}
  NoFile = NoFile
  Unheld = Unheld
  Threshold = 2
SYMMETRY MCSymmetry
INVARIANTS
  OneLiveSync
  LiveSyncIsVisible
