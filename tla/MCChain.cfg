CONSTANTS
  Calls = {c1, c2, c3}
  Kinds = {"import", "export", "async", "borrowed"}
  NLayers = 2
SPECIFICATION FairSpec
INVARIANTS TypeOK FramesAreOpenLayers ReturnedIsClosed DropsAccounted CancelledBeforeNextCall
PROPERTIES BracketSpec DroppedDuringExportIsTold
