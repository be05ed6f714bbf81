SPECIFICATION FairSpec
CONSTANTS
  MaxChats <- Chats
  MaxOffers <- NoOffers
  Window = 3
  Marked = {}
PROPERTY MessagesArrive
CHECK_DEADLOCK FALSE
