------------------------- MODULE MCThreadSafeQueue -------------------------
(* Small instances of ThreadSafeQueue: a mailbox has several producers and  *)
(* the one mailbox thread as its consumer.                                  *)
EXTENDS ThreadSafeQueue
=============================================================================
