SPECIFICATION FairSpec
CONSTANTS
  Helpers = {h1}
  Clicks = {"Call", "Hangup", "Sendmsg"}
  Keys = {"LEFT_KEY", "RIGHT_KEY"}
  MaxQueue = 1
INVARIANTS TypeOK RingingHasHelper
PROPERTIES RingingEnds
