SPECIFICATION FairSpec
CONSTANTS
  Hash <- MCHash
  TooMany = {3}
  Requests <- MCRequests
  Proofs <- MCProofs
  Replies <- MCReplies
  Published <- MCPublished
  Unsigned <- MCUnsigned
  MaxCname = 2
  MaxClock = 2
INVARIANTS SecureIsSigned DenialsTrue ChainsConnected
PROPERTY Returns
