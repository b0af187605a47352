-------------------------- MODULE MCLinkagePowerLoss --------------------------
(* One worker and one cluster with one stream of one byte are enough to lose
   power between the done byte and the write-back of the payload. *)
EXTENDS LinkagePowerLoss

MCNReal == [c \in Cids |-> 1]
MCPayloadBytes == [x \in Knobs \X Cids \X Streams |-> 1]
=============================================================================
