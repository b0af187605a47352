---------------------------- MODULE LinkagePowerLoss ----------------------------
(***************************************************************************)
(* LinkageBuild on a machine that may lose power.  No file of the build is *)
(* ever synced, so when the power fails the file system may have written   *)
(* back any part of the pages the build dirtied, file by file.  It is      *)
(* enough to let the largest file, coeff_payload.bin, lose bytes; the      *)
(* other files are kept, which only makes the loss milder.                 *)
(***************************************************************************)
EXTENDS LinkageBuild

PowerLoss ==
    /\ phase = "running"
    /\ phase' = "down"
    /\ \E kept \in SUBSET DOMAIN payload :
          payload' = [i \in kept |-> payload[i]]
    /\ clusterReal' = ZeroStats
    /\ ResetVolatile
    /\ UNCHANGED <<doneFile, statsFile, listData, listMeta, scales, lens,
                   payloadLen, offs, sizes, starts, knob>>

SpecPowerLoss == Init /\ [][Next \/ PowerLoss]_vars

(* README.md:721 of a machine that lost power: "done[cid] = 1 means cluster cid
   has been successfully written and will be skipped on resume", the
   checkpoint being there "to make it robust against interruptions (Ctrl+C,
   power loss)". *)
DoneMeansWritten == DoneIsComplete
=============================================================================
