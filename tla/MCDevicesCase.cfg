\* Two letters and a Shift on either side.
SPECIFICATION DevicesSpec
CONSTANTS
  Parts = {"input"}
  Listeners = {1, 2}
  QUEUE_DEPTH = 2
  MaxFrames = 3
  CAMERA_DEPTH = 2
  MaxSignals = 3
  MaxOnWire = 2
  PREFILL = 3
  MAX_BUFFERED = 6
  Sizes = {1, 2, 4}
  MaxWaiting = 2
  MaxCopies = 3
  MAX_TEXT = 4
  MaxText = 5
  Letters = {11, 12}
  Shifts <- BothShifts
  Places = {1}
  Buttons = {"left"}
  EXTENT = 255
  EDGE = 4
  Layouts <- FewLayouts
  Extents <- FewExtents
  Shapes <- FewShapes
  Transforms <- AllTransforms
  MaxChanges = 3
  Offers = {{"None"}, {"RA2_256"}}
  Accounts <- OneAccount
  Wants = {1, 2}
  Speech <- FewSpeeches
  MAX_FRAME_BODY = 7
  TAG = 1
  HASH = 2
  MaxHarm = 1
  MIN_FREQUENCY = 100
  MAX_FREQUENCY = 150
  OPUS_BITRATE_MIN = 6
  OPUS_BITRATE_MAX = 8
  OPUS_RATES = {100}
  Frequencies = {50, 100, 149, 150, 200}
  BitRates = {0, 6, 9}
  Captured <- FewBuffers
  MaxCaptured = 3
PROPERTY TypesWhatIsMeant
CHECK_DEADLOCK FALSE
