---------------------------- MODULE MCWriteQueue ----------------------------
(* The write queue with three frame sizes: one that fits three times, one    *)
(* that fills the queue, one above the limit even after a partial write.     *)
EXTENDS WriteQueue

Sizes == {1, 3, 5}
Errors == {"EPIPE"}
NoErrors == {}
=============================================================================
