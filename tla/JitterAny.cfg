SPECIFICATION FairSpec
CONSTANTS
  MaxElems = 3
  DetectSilence = 2
  SeqSpace = 5
  MaxArrivals = 5
  NoPacket = NoPacket
INVARIANTS NoSharing NoLeak RingInOrder
PROPERTIES NearerToPlayout PacketsLeave
