---------------------------- MODULE MCQueuePair ----------------------------
(* Two servers, two batches in flight of up to two requests each; the      *)
(* client makes every call of the library.                                  *)
EXTENDS QueuePair
=============================================================================
