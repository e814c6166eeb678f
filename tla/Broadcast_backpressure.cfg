SPECIFICATION BroadcastSpec
CONSTANTS
  Viewer = {v1}
  Tile = {t1}
  FramesPerChunk = 2
  MaxDrops = 0
INVARIANT CongestedViewersCatchUp
CHECK_DEADLOCK FALSE
