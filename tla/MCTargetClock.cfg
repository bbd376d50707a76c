SPECIFICATION ClockSpec
CONSTANTS
  Starts <- MCStarts
  Instants <- MCInstants
  Days = 5
  Naps = {0, 1, 60}
INVARIANTS
  MomentRight
