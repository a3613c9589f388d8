CONSTANTS
  Wallet = "wallet"
  ChunkBytes = 2
  Decodings <- MCDecodings
  Width <- MCWidth
  LineWidth <- MCLineWidth
  Unprintable = {"accent", "umlaut"}
  Messages <- MCMessages
SPECIFICATION Spec
INVARIANTS NanoReviewTells NbglReviewTells WrappingKeepsText
CHECK_DEADLOCK FALSE
