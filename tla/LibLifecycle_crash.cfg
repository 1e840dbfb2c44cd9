SPECIFICATION LibSpec
CONSTANTS
  c0 = c0  c1 = c1  c2 = c2
  d0 = d0  d1 = d1  d2 = d2
  tgl = tgl  ptl = ptl
  Cards = {c0, c1, c2}
  Devices = {d0, d1, d2}
  NoDevice = NoDevice
  Target <- MCTarget
  Rows = {tgl, ptl}
  Foreign = Foreign
  Chip <- MCChip
  FirstRow = tgl
  NumPipes = 3
  Off = Off
  Routings <- MCRoutings
INVARIANTS InitReturns
