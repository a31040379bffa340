----------------------------- MODULE MCCapture -----------------------------
(* pkt|:capture as a whole: capture() takes the packets and saveCapture    *)
(* then writes them, none or many, into the file of the second.  The       *)
(* capture is followed step by step until it saves; the files then live on *)
(* with other saves, which overwrite, fail and are killed, each of any     *)
(* capture at all.                                                         *)
EXTENDS MCPacketCapture, MCCaptureFile

(* A refused request: no capture is going on.                              *)
Refused == [seconds |-> 0, present |-> TRUE, filter |-> "ALL"]
NoCapture ==
  request = Refused /\ outcome = "rejected" /\ ~stopRequested

Capturing == Next /\ UNCHANGED fileVars

(* What the capture returned as saveCapture writes it; the length of a     *)
(* packet, which PacketCapture leaves out, is any.                         *)
Saved(lengths) ==
  [i \in 1..Len(listed) |->
     [id |-> listed[i].id, protocol |-> Protocol(listed[i].frame),
      length |-> lengths[i]]]

(* The save takes over what the capture returned, and the capture is gone. *)
SaveBegins ==
  /\ pc = "done" /\ outcome = "captured"
  /\ \E f \in CaptureNames, lengths \in [1..Len(listed) -> Lengths] :
       Open(f, Saved(lengths))
  /\ request' = Refused /\ outcome' = "rejected" /\ socket' = "none"
  /\ queue' = <<>> /\ arrivals' = 0 /\ linkError' = FALSE /\ clock' = 0
  /\ stopRequested' = FALSE
  /\ taken' = <<>> /\ packets' = <<>> /\ packetId' = 1 /\ listed' = <<>>
  /\ UNCHANGED pc

FileStep == NoCapture /\ FileNext /\ UNCHANGED vars

CommandInit == Init /\ FileInit
CommandNext == Capturing \/ SaveBegins \/ FileStep

CommandSpec ==
  /\ CommandInit /\ [][CommandNext]_<<vars, fileVars>>
  /\ WF_<<vars, fileVars>>(Capture /\ UNCHANGED fileVars)
  /\ WF_<<vars, fileVars>>(Tick /\ UNCHANGED fileVars)
=============================================================================
