--------------------------- MODULE PacketCapture ---------------------------
(***************************************************************************)
(* One pkt|:capture on Linux: PacketCapture::capture, which validates the  *)
(* request, runs capturePackets on an AF_PACKET socket and numbers what it *)
(* got.  The kernel queues frames while the socket exists, the link may go *)
(* down, and Ctrl+C sets SignalHandler's flag and interrupts select().     *)
(* Nothing here reads that flag; the handler clears it before capture()    *)
(* and after it.  A frame is its serial number of arrival, what it carries *)
(* and whether it came from the interface asked for; its bytes are left    *)
(* out.  What happens to the capture file is in CaptureFile.               *)
(***************************************************************************)
EXTENDS Naturals, Sequences, Functions

CONSTANTS
  MaxPackets,   \* config.maxPackets (10000 in the code)
  MaxSeconds,   \* bound on the duration asked for (86400 in the code)
  Kinds,        \* what a frame may carry, a subset of FrameKinds
  ArrivalBound, \* bound on the frames that reach the socket
  QueueBound    \* frames the socket's receive buffer holds

FrameKinds == {"TCP", "UDP", "ICMP", "IGMP", "ARP", "IPv6", "MALFORMED"}

ASSUME LimitsAssumption ==
  /\ MaxPackets \in Nat
  /\ MaxSeconds \in Nat
  /\ ArrivalBound \in Nat
  /\ QueueBound \in Nat
ASSUME KindsAssumption == Kinds \subseteq FrameKinds

VARIABLES
  request,   \* the seconds and the filter asked for, and whether the interface exists
  pc,        \* where capture() is
  socket,    \* "none", "open" (on every interface), "bound" or "closed"
  queue,     \* frames the kernel holds for the socket
  arrivals,  \* how many frames have reached the socket
  linkError, \* a pending error on the socket: the interface went down
  clock,     \* seconds since the capture started
  stopRequested, \* SignalHandler's flag
  taken,     \* the frames recvfrom() returned, in order (history)
  packets,   \* result.packets
  packetId,  \* the id the next packet of the result gets
  listed,    \* what capture() returns: frames with their ids
  outcome    \* "running", "rejected", "failed" or "captured"

vars == <<request, pc, socket, queue, arrivals, linkError, clock,
          stopRequested, taken, packets, packetId, listed, outcome>>

Frame == [n : 1..ArrivalBound, kind : Kinds, here : BOOLEAN]
Request == [seconds : 0..MaxSeconds, present : BOOLEAN,
            filter : {"ALL", "TCP", "UDP", "ICMP", "IP"}]
Selective == {"TCP", "UDP", "ICMP"}

(* The protocol the decoder writes; a malformed frame keeps the default.   *)
Protocol(f) ==
  CASE f.kind = "IGMP"      -> "IPv4"
    [] f.kind = "MALFORMED" -> ""
    [] OTHER                -> f.kind

(* Fault: what is not IPv4 passes every filter.                            *)
filterMatchesLink(f, filter) ==
  \/ filter \notin Selective
  \/ filter = Protocol(f)
  \/ Protocol(f) \notin Selective \cup {"IPv4"}

(* The platform's filter.                                                  *)
filterMatches(f, filter) ==
  \/ filter \notin Selective \cup {"IP"}
  \/ filter = Protocol(f)
  \/ filter = "IP" /\ Protocol(f) \in Selective

(* capture()'s own filter, applied again to what the platform returns.     *)
matchesFilter(f, filter) ==
  filter = "ALL" \/ (filter \in Selective /\ filter = Protocol(f))

(* Fault: the filter IP, which only the platform knows, is let through.    *)
AcceptedIP(r) ==
  r.seconds \in 1..MaxSeconds /\ r.filter \in Selective \cup {"ALL", "IP"}

(* The two checks of a request, in the handler and again in capture().     *)
Accepted(r) == r.seconds \in 1..MaxSeconds /\ r.filter \in Selective \cup {"ALL"}

Init ==
  /\ request \in Request
  /\ pc = "validate" /\ socket = "none" /\ outcome = "running"
  /\ queue = <<>> /\ arrivals = 0 /\ linkError = FALSE /\ clock = 0
  /\ stopRequested = FALSE
  /\ taken = <<>> /\ packets = <<>> /\ packetId = 1 /\ listed = <<>>

(* What the kernel and the signal handler change.                          *)
Kernel == <<queue, arrivals, linkError, clock, stopRequested>>

-----------------------------------------------------------------------------
(* capture() and capturePackets()                                          *)

Validate ==
  /\ pc = "validate"
  /\ IF Accepted(request) /\ request.present
       THEN pc' = "socket" /\ UNCHANGED outcome
       ELSE /\ pc' = "done"
            /\ outcome' = IF Accepted(request) THEN "failed" ELSE "rejected"
  /\ UNCHANGED <<request, socket, Kernel, taken, packets, packetId, listed>>

(* socket(AF_PACKET, SOCK_RAW, ETH_P_ALL) listens to every interface.      *)
OpenSocket ==
  /\ pc = "socket"
  /\ \/ pc' = "bind" /\ socket' = "open" /\ UNCHANGED outcome
     \/ pc' = "done" /\ outcome' = "failed" /\ UNCHANGED socket
  /\ UNCHANGED <<request, Kernel, taken, packets, packetId, listed>>

(* Fault: a failed bind() returns without closing the socket.              *)
BindLeaks ==
  /\ pc = "bind"
  /\ \/ pc' = "loop" /\ socket' = "bound" /\ UNCHANGED outcome
     \/ pc' = "done" /\ outcome' = "failed" /\ UNCHANGED socket
  /\ UNCHANGED <<request, Kernel, taken, packets, packetId, listed>>

Bind ==
  /\ pc = "bind"
  /\ \/ pc' = "loop" /\ socket' = "bound" /\ UNCHANGED outcome
     \/ pc' = "done" /\ socket' = "closed" /\ outcome' = "failed"
  /\ UNCHANGED <<request, Kernel, taken, packets, packetId, listed>>

(* Fault: the loop leaves its deadline to select().                        *)
LoopHeadForever ==
  /\ pc = "loop"
  /\ pc' = "select"
  /\ UNCHANGED <<request, socket, Kernel, taken, packets, packetId, listed, outcome>>

(* while (now < deadline): the time left becomes select()'s timeout.       *)
LoopHead ==
  /\ pc = "loop"
  /\ pc' = IF clock < request.seconds THEN "select" ELSE "close"
  /\ UNCHANGED <<request, socket, Kernel, taken, packets, packetId, listed, outcome>>

Readable == queue # <<>> \/ linkError

SelectReady ==
  /\ pc = "select" /\ Readable
  /\ pc' = "recv"
  /\ UNCHANGED <<request, socket, Kernel, taken, packets, packetId, listed, outcome>>

(* select() returns 0 once the time left has passed: break.                *)
SelectTimesOut ==
  /\ pc = "select" /\ ~Readable /\ clock >= request.seconds
  /\ pc' = "close"
  /\ UNCHANGED <<request, socket, Kernel, taken, packets, packetId, listed, outcome>>

(* Fault: an interrupted select() is taken for the end of the time.        *)
SelectInterruptedBreaks ==
  /\ pc = "select" /\ ~Readable
  /\ pc' = "close"
  /\ UNCHANGED <<request, socket, Kernel, taken, packets, packetId, listed, outcome>>

(* Ctrl+C makes select() fail with EINTR: continue.                        *)
SelectInterrupted ==
  /\ pc = "select" /\ ~Readable
  /\ pc' = "loop" /\ stopRequested' = TRUE
  /\ UNCHANGED <<request, socket, queue, arrivals, linkError, clock, taken,
                 packets, packetId, listed, outcome>>

(* Any other failure of select() gives the capture up.                     *)
SelectFails ==
  /\ pc = "select"
  /\ pc' = "done" /\ socket' = "closed" /\ outcome' = "failed"
  /\ UNCHANGED <<request, Kernel, taken, packets, packetId, listed>>

(* recvfrom() reports the pending error and clears it: continue.           *)
ReceiveFails ==
  /\ pc = "recv" /\ linkError
  /\ pc' = "loop" /\ linkError' = FALSE
  /\ UNCHANGED <<request, socket, queue, arrivals, clock, stopRequested, taken,
                 packets, packetId, listed, outcome>>

(* One frame: received, decoded, filtered, and kept unless the result is   *)
(* full, which ends the loop.                                              *)
Receive ==
  /\ pc = "recv" /\ ~linkError /\ queue # <<>>
  /\ queue' = Tail(queue)
  /\ taken' = Append(taken, Head(queue))
  /\ IF ~filterMatches(Head(queue), request.filter)
       THEN pc' = "loop" /\ UNCHANGED packets
       ELSE IF Len(packets) >= MaxPackets
              THEN pc' = "close" /\ UNCHANGED packets
              ELSE pc' = "loop" /\ packets' = Append(packets, Head(queue))
  /\ UNCHANGED <<request, socket, arrivals, linkError, clock, stopRequested,
                 packetId, listed, outcome>>

Close ==
  /\ pc = "close"
  /\ pc' = "number" /\ socket' = "closed" /\ outcome' = "captured"
  /\ UNCHANGED <<request, Kernel, taken, packets, packetId, listed>>

(* capture() numbers every packet of the result and filters once more.     *)
Number ==
  /\ pc = "number" /\ packetId <= Len(packets)
  /\ packetId' = packetId + 1
  /\ LET p == packets[packetId]
     IN  listed' = IF matchesFilter(p, request.filter)
                     THEN Append(listed, [id |-> packetId, frame |-> p])
                     ELSE listed
  /\ UNCHANGED <<request, pc, socket, Kernel, taken, packets, outcome>>

Return ==
  /\ pc = "number" /\ packetId > Len(packets)
  /\ pc' = "done"
  /\ UNCHANGED <<request, socket, Kernel, taken, packets, packetId, listed, outcome>>

-----------------------------------------------------------------------------
(* The kernel                                                              *)

(* A frame reaches the socket; the kernel drops it when the buffer is full. *)
Arrive ==
  /\ socket \in {"open", "bound"} /\ arrivals < ArrivalBound
  /\ arrivals' = arrivals + 1
  /\ \E kind \in Kinds, here \in (IF socket = "bound" THEN {TRUE} ELSE BOOLEAN) :
       queue' = IF Len(queue) < QueueBound
                  THEN Append(queue, [n |-> arrivals + 1, kind |-> kind, here |-> here])
                  ELSE queue
  /\ UNCHANGED <<request, pc, socket, linkError, clock, stopRequested, taken,
                 packets, packetId, listed, outcome>>

LinkDown ==
  /\ socket = "bound" /\ ~linkError
  /\ linkError' = TRUE
  /\ UNCHANGED <<request, pc, socket, queue, arrivals, clock, stopRequested, taken,
                 packets, packetId, listed, outcome>>

Tick ==
  /\ pc \in {"loop", "select", "recv"} /\ clock < MaxSeconds
  /\ clock' = clock + 1
  /\ UNCHANGED <<request, pc, socket, queue, arrivals, linkError, stopRequested,
                 taken, packets, packetId, listed, outcome>>

(* Ctrl+C at any moment at which it does not interrupt a waiting select(). *)
Press ==
  /\ pc # "done" /\ ~stopRequested
  /\ stopRequested' = TRUE
  /\ UNCHANGED <<request, pc, socket, queue, arrivals, linkError, clock,
                 taken, packets, packetId, listed, outcome>>

-----------------------------------------------------------------------------
Capture ==
  \/ Validate \/ OpenSocket \/ Bind \/ LoopHead
  \/ SelectReady \/ SelectTimesOut \/ SelectInterrupted \/ SelectFails
  \/ ReceiveFails \/ Receive \/ Close \/ Number \/ Return

Next == Capture \/ Arrive \/ LinkDown \/ Tick \/ Press

(* The process is scheduled and time passes.  Traffic, Ctrl+C and failures *)
(* are never required.                                                     *)
Spec == Init /\ [][Next]_vars /\ WF_vars(Capture) /\ WF_vars(Tick)

-----------------------------------------------------------------------------
(* What the user asked to see, said without the code's filters.            *)
Wanted(f) == request.filter = "ALL" \/ f.kind = request.filter

TypeOK ==
  /\ request \in Request
  /\ pc \in {"validate", "socket", "bind", "loop", "select", "recv", "close",
             "number", "done"}
  /\ socket \in {"none", "open", "bound", "closed"}
  /\ queue \in Seq(Frame) /\ Len(queue) <= QueueBound
  /\ arrivals \in 0..ArrivalBound
  /\ linkError \in BOOLEAN
  /\ clock \in 0..MaxSeconds
  /\ stopRequested \in BOOLEAN
  /\ taken \in Seq(Frame)
  /\ packets \in Seq(Frame) /\ Len(packets) <= MaxPackets
  /\ packetId \in 1..MaxPackets + 1
  /\ listed \in Seq([id : 1..MaxPackets, frame : Frame])
  /\ outcome \in {"running", "rejected", "failed", "captured"}

(* The result holds matching frames in the order of arrival, each once.    *)
OnlyMatchingInOrder ==
  /\ \A i \in 1..Len(packets) :
       packets[i] \in Range(taken) /\ Wanted(packets[i])
  /\ \A i, j \in 1..Len(packets) : i < j => packets[i].n < packets[j].n

(* No matching frame that was received is missing from the result, unless  *)
(* the result was full with earlier frames: what is cut is the tail.       *)
CutOnlyAtLimit ==
  \A f \in Range(taken) :
    Wanted(f) =>
      \/ f \in Range(packets)
      \/ Len(packets) = MaxPackets /\ \A g \in Range(packets) : g.n < f.n

(* What the code does: a capture that succeeds before its time is up       *)
(* stopped at the packet limit; a link that went down does not cut it      *)
(* short, and neither does Ctrl+C, whatever PressStopsCapture's source     *)
(* says.                                                                   *)
EndsEarlyOnlyAtLimit ==
  outcome = "captured" /\ clock < request.seconds =>
    /\ Len(packets) = MaxPackets
    /\ \E f \in Range(taken) \ Range(packets) : Wanted(f)

(* The two filters agree, so the returned packets are numbered 1, 2, ...   *)
(* without a gap, and none of the result is lost between them.             *)
NumberedWithoutGap ==
  pc = "done" /\ outcome = "captured" =>
    /\ Len(listed) = Len(packets)
    /\ \A i \in 1..Len(listed) : listed[i].id = i /\ listed[i].frame = packets[i]

(* Whatever fails, the socket is closed once capture() has returned, and   *)
(* no packet of a failed capture is returned.                              *)
NothingLeftBehind ==
  pc = "done" => /\ socket \in {"none", "closed"}
                 /\ outcome # "captured" => listed = <<>>

(* Under any traffic and any number of Ctrl+C the capture ends.            *)
CaptureEnds == <>(pc = "done")

(* Before a capture the user reads, src/cli/command_handler.cpp:1049,      *)
(* "[*] Press Ctrl+C to stop the capture early.": after the press the loop *)
(* does not wait for another packet.                                       *)
PressStopsCapture == [][stopRequested /\ pc = "loop" => pc' # "select"]_vars

(* The help, src/cli/command_handler.cpp:236-237: "pkt|:capture <interface>" *)
(* "Capture traffic on a specific interface."                              *)
OnlyTheInterface == \A i \in 1..Len(listed) : listed[i].frame.here
=============================================================================
