---------------------------- MODULE MCVoiceFiles ----------------------------
(* Small instances of VoiceFiles for TLC. *)
EXTENDS VoiceFiles, TLC

CONSTANTS u1, u2, r1, owner1, t1, volume

OneOwner == [r \in Recordings |-> owner1]
SmallDisk == [d \in Devices |-> 8]
=============================================================================
