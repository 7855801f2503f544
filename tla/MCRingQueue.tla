----------------------------- MODULE MCRingQueue -----------------------------
(***************************************************************************)
(* Three slots and three items: the ring wraps, is full and is empty, and  *)
(* equal items can sit in it twice.                                        *)
(***************************************************************************)
EXTENDS RingQueue
=============================================================================
