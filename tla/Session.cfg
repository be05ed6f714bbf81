SPECIFICATION FairSpec
CONSTANTS
  MaxChats <- Chats
  MaxOffers <- Offers
  Window = 2
  Marked <- Last
INVARIANTS InOrder ReaderLives
PROPERTY Converges
CHECK_DEADLOCK FALSE
