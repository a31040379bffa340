------------------------ MODULE PacketCaptureProofs ------------------------
(***************************************************************************)
(* The safety of a capture for every packet limit, duration, traffic and   *)
(* size of the kernel's buffer, and of the files it is saved to for every  *)
(* number of packets, their data, and every place where a file is cut:     *)
(* what the runs of PacketCapture and CaptureFile check for a few.         *)
(***************************************************************************)
EXTENDS PacketCapture, CaptureFile, TLAPS

-----------------------------------------------------------------------------
(* The inductive invariant.                                                *)

(* Frames are taken in the order of arrival, before those still queued.    *)
Ordered ==
  /\ \A i, j \in 1..Len(taken) : i < j => taken[i].n < taken[j].n
  /\ \A i, j \in 1..Len(queue) : i < j => queue[i].n < queue[j].n
  /\ \A i \in 1..Len(taken) : \A j \in 1..Len(queue) : taken[i].n < queue[j].n
  /\ \A i \in 1..Len(taken) : taken[i].n <= arrivals
  /\ \A i \in 1..Len(queue) : queue[i].n <= arrivals

ResultInv == OnlyMatchingInOrder /\ CutOnlyAtLimit

(* Why the loop was left.                                                  *)
LimitReached ==
  /\ Len(packets) = MaxPackets
  /\ \E f \in Range(taken) \ Range(packets) : Wanted(f)

Running == {"socket", "bind", "loop", "select", "recv", "close", "number"}
ControlInv ==
  /\ pc \in Running => Accepted(request)
  /\ pc \in Running \ {"number"} => outcome = "running"
  /\ pc = "validate" => outcome = "running" /\ socket = "none"
  /\ pc = "socket" => socket = "none"
  /\ pc = "number" => outcome = "captured"
  /\ pc \in {"number", "done"} => socket \in {"none", "closed"}
  /\ pc = "done" => outcome # "running"
  /\ outcome = "captured" => Accepted(request)
  /\ pc = "close" \/ outcome = "captured" =>
       clock >= request.seconds \/ LimitReached

(* The packets numbered so far.                                            *)
ListInv ==
  /\ outcome # "captured" => packetId = 1
  /\ packetId <= Len(packets) + 1
  /\ Len(listed) = packetId - 1
  /\ \A i \in 1..Len(listed) : listed[i].id = i /\ listed[i].frame = packets[i]
  /\ pc = "done" /\ outcome = "captured" => packetId = Len(packets) + 1

IInv == TypeOK /\ Ordered /\ ResultInv /\ ControlInv /\ ListInv

-----------------------------------------------------------------------------
(* On an accepted request both filters are what the user asked for.        *)
LEMMA FiltersAgree ==
  ASSUME Accepted(request), NEW f \in Frame
  PROVE  /\ filterMatches(f, request.filter) <=> Wanted(f)
         /\ matchesFilter(f, request.filter) <=> Wanted(f)
<1>1. request.filter \in {"TCP", "UDP", "ICMP", "ALL"}
  BY DEF Accepted, Selective
<1>2. Protocol(f) = request.filter <=> f.kind = request.filter
  BY <1>1 DEF Protocol
<1>. QED
  BY <1>1, <1>2 DEF filterMatches, matchesFilter, Wanted, Selective

(* Serial numbers are numbers.                                             *)
LEMMA Serials ==
  ASSUME LimitsAssumption, TypeOK
  PROVE  /\ arrivals \in Nat
         /\ \A f \in Frame : f.n \in Nat
         /\ \A i \in 1..Len(taken) : taken[i] \in Frame /\ taken[i].n \in Nat
         /\ \A i \in 1..Len(queue) : queue[i] \in Frame /\ queue[i].n \in Nat
<1>1. \A f \in Frame : f.n \in Nat
  BY DEF Frame, LimitsAssumption
<1>2. \A i \in 1..Len(taken) : taken[i] \in Frame
  BY DEF TypeOK
<1>3. \A i \in 1..Len(queue) : queue[i] \in Frame
  BY DEF TypeOK
<1>4. arrivals \in Nat
  BY DEF TypeOK, LimitsAssumption
<1>. QED
  BY <1>1, <1>2, <1>3, <1>4

LEMMA InitInvariant ==
  ASSUME LimitsAssumption, Init
  PROVE  IInv
<1>1. TypeOK
  <2>1. queue \in Seq(Frame) /\ taken \in Seq(Frame) /\ packets \in Seq(Frame)
        /\ listed \in Seq([id : 1..MaxPackets, frame : Frame])
    BY DEF Init
  <2>2. Len(queue) = 0 /\ Len(packets) = 0
    BY DEF Init
  <2>3. packetId \in 1..MaxPackets + 1 /\ arrivals \in 0..ArrivalBound
        /\ clock \in 0..MaxSeconds /\ 0 <= QueueBound /\ 0 <= MaxPackets
    BY DEF Init, LimitsAssumption
  <2>. QED
    BY <2>1, <2>2, <2>3 DEF Init, TypeOK
<1>2. Ordered /\ ListInv
  BY DEF LimitsAssumption, Init, Ordered, ListInv
<1>3. ResultInv
  BY DEF Init, ResultInv, OnlyMatchingInOrder, CutOnlyAtLimit, Range
<1>4. ControlInv
  BY DEF Init, ControlInv, Running
<1>. QED
  BY <1>1, <1>2, <1>3, <1>4 DEF IInv

(* A step that neither takes a frame nor numbers one keeps the data part.  *)
LEMMA DataUnchanged ==
  ASSUME IInv, UNCHANGED <<request, taken, packets, queue, arrivals>>
  PROVE  Ordered' /\ ResultInv'
<1>1. Ordered'
  BY DEF IInv, Ordered
<1>2. ResultInv'
  BY DEF IInv, ResultInv, OnlyMatchingInOrder, CutOnlyAtLimit, Wanted
<1>. QED
  BY <1>1, <1>2

(* The steps of the control that leave every frame where it is.            *)
ControlStep ==
  \/ Validate \/ OpenSocket \/ Bind \/ LoopHead
  \/ SelectReady \/ SelectTimesOut \/ SelectInterrupted \/ SelectFails
  \/ ReceiveFails \/ Close \/ Return

LEMMA ControlStepInvariant ==
  ASSUME LimitsAssumption, IInv, ControlStep
  PROVE  IInv'
<1>. USE DEF IInv
<1>1. UNCHANGED <<request, taken, packets, queue, arrivals, clock, packetId, listed>>
  BY DEF ControlStep, Validate, OpenSocket, Bind, LoopHead, SelectReady,
         SelectTimesOut, SelectInterrupted, SelectFails, ReceiveFails, Close,
         Return, Kernel
<1>2. TypeOK'
  BY <1>1 DEF TypeOK, ControlStep, Validate, OpenSocket, Bind, LoopHead, SelectReady,
         SelectTimesOut, SelectInterrupted, SelectFails, ReceiveFails, Close,
         Return, Kernel
<1>3. LimitReached' <=> LimitReached
  BY <1>1 DEF LimitReached, Wanted
<1>4. Accepted(request)' <=> Accepted(request)
  BY <1>1 DEF Accepted
<1>. HIDE DEF IInv
<1>5. ControlInv'
  <2>. USE <1>1, <1>3, <1>4 DEF IInv, ControlInv, Running
  <2>1. CASE Validate
    BY <2>1 DEF Validate
  <2>2. CASE OpenSocket
    BY <2>2 DEF OpenSocket
  <2>3. CASE Bind
    BY <2>3 DEF Bind
  <2>4. CASE LoopHead
    <3>1. clock < request.seconds \/ clock >= request.seconds
      BY DEF TypeOK, Request, LimitsAssumption
    <3>. QED
      BY <2>4, <3>1 DEF LoopHead
  <2>5. CASE SelectReady \/ SelectTimesOut \/ SelectInterrupted \/ SelectFails
    BY <2>5 DEF SelectReady, SelectTimesOut, SelectInterrupted, SelectFails
  <2>6. CASE ReceiveFails \/ Close \/ Return
    BY <2>6 DEF ReceiveFails, Close, Return
  <2>. QED
    BY <2>1, <2>2, <2>3, <2>4, <2>5, <2>6 DEF ControlStep
<1>6. ListInv'
  BY <1>1 DEF IInv, ListInv, ControlInv, Running, TypeOK, ControlStep, Validate,
         OpenSocket, Bind, LoopHead, SelectReady, SelectTimesOut,
         SelectInterrupted, SelectFails, ReceiveFails, Close, Return
<1>. QED
  BY <1>1, <1>2, <1>5, <1>6, DataUnchanged DEF IInv

(* What receiving does to the queue and to the frames taken.               *)
LEMMA ReceiveOrdered ==
  ASSUME LimitsAssumption, IInv, Receive
  PROVE  /\ Head(queue) \in Frame
         /\ queue' \in Seq(Frame) /\ Len(queue') <= QueueBound
         /\ taken' \in Seq(Frame) /\ Len(taken') = Len(taken) + 1
         /\ \A i \in 1..Len(taken) : taken'[i] = taken[i]
         /\ taken'[Len(taken) + 1] = Head(queue)
         /\ \A i \in 1..Len(taken) : taken[i].n < Head(queue).n
         /\ Ordered'
<1>1. /\ queue \in Seq(Frame) /\ queue # <<>> /\ taken \in Seq(Frame)
      /\ Len(queue) \in Nat /\ Len(queue) > 0 /\ Len(taken) \in Nat
      /\ Len(queue) <= QueueBound
  BY DEF IInv, TypeOK, Receive
<1>2. /\ Head(queue) = queue[1] /\ queue[1] \in Frame
      /\ queue' \in Seq(Frame) /\ Len(queue') = Len(queue) - 1
      /\ \A i \in 1..Len(queue') : queue'[i] = queue[i + 1]
  BY <1>1 DEF Receive
<1>3. /\ taken' \in Seq(Frame) /\ Len(taken') = Len(taken) + 1
      /\ \A i \in 1..Len(taken) : taken'[i] = taken[i]
      /\ taken'[Len(taken) + 1] = queue[1]
  BY <1>1, <1>2 DEF Receive
<1>4. \A i \in 1..Len(taken) : taken[i].n < queue[1].n
  BY <1>1 DEF IInv, Ordered
<1>5. arrivals' = arrivals /\ queue[1].n <= arrivals
  BY <1>1 DEF IInv, Ordered, Receive
<1>6. \A i, j \in 1..Len(taken') : i < j => taken'[i].n < taken'[j].n
  BY <1>1, <1>3, <1>4 DEF IInv, Ordered
<1>7. ASSUME NEW i \in 1..Len(queue'), NEW j \in 1..Len(queue'), i < j
      PROVE  queue'[i].n < queue'[j].n
  <2>1. i + 1 \in 1..Len(queue) /\ j + 1 \in 1..Len(queue) /\ i + 1 < j + 1
    BY <1>1, <1>2, <1>7
  <2>2. queue[i + 1].n < queue[j + 1].n
    BY <2>1 DEF IInv, Ordered
  <2>. QED
    BY <1>2, <2>2
<1>8. \A i \in 1..Len(taken') : \A j \in 1..Len(queue') : taken'[i].n < queue'[j].n
  <2>1. \A j \in 1..Len(queue') :
          j + 1 \in 1..Len(queue) /\ 1 \in 1..Len(queue) /\ 1 < j + 1
    BY <1>1, <1>2
  <2>2. \A j \in 1..Len(queue') : queue[1].n < queue'[j].n
    BY <1>2, <2>1 DEF IInv, Ordered
  <2>3. \A i \in 1..Len(taken) : \A j \in 1..Len(queue') : taken[i].n < queue'[j].n
    BY <1>2, <2>1 DEF IInv, Ordered
  <2>4. \A i \in 1..Len(taken') : i \in 1..Len(taken) \/ i = Len(taken) + 1
    BY <1>1, <1>3
  <2>. QED
    BY <1>3, <2>2, <2>3, <2>4
<1>9. /\ \A i \in 1..Len(taken') : taken'[i].n <= arrivals'
      /\ \A i \in 1..Len(queue') : queue'[i].n <= arrivals'
  <2>1. \A i \in 1..Len(taken') : i \in 1..Len(taken) \/ i = Len(taken) + 1
    BY <1>1, <1>3
  <2>2. \A j \in 1..Len(queue') : j + 1 \in 1..Len(queue)
    BY <1>1, <1>2
  <2>3. \A i \in 1..Len(taken') : taken'[i].n <= arrivals'
    BY <1>3, <1>5, <2>1 DEF IInv, Ordered
  <2>4. \A i \in 1..Len(queue') : queue'[i].n <= arrivals'
    BY <1>2, <1>5, <2>2 DEF IInv, Ordered
  <2>. QED
    BY <2>3, <2>4
<1>10. QueueBound \in Nat
  BY DEF LimitsAssumption
<1>11. Ordered'
  BY <1>6, <1>7, <1>8, <1>9 DEF Ordered
<1>12. Len(queue') <= QueueBound
  BY <1>1, <1>2, <1>10
<1>. QED
  BY <1>2, <1>3, <1>4, <1>11, <1>12

LEMMA ReceiveResult ==
  ASSUME LimitsAssumption, IInv, Receive
  PROVE  ResultInv' /\ packets' \in Seq(Frame) /\ Len(packets') <= MaxPackets
         /\ (pc' = "close" => LimitReached')
<1>. DEFINE f == Head(queue)
<1>1. /\ f \in Frame /\ packets \in Seq(Frame) /\ Len(packets) \in Nat
      /\ Len(packets) <= MaxPackets /\ MaxPackets \in Nat
      /\ taken \in Seq(Frame) /\ Len(taken) \in Nat
  BY ReceiveOrdered DEF IInv, TypeOK, LimitsAssumption
<1>2. /\ taken' \in Seq(Frame) /\ Len(taken') = Len(taken) + 1
      /\ \A i \in 1..Len(taken) : taken'[i] = taken[i]
      /\ taken'[Len(taken) + 1] = f
      /\ \A i \in 1..Len(taken) : taken[i].n < f.n
  BY ReceiveOrdered
<1>3. filterMatches(f, request.filter) <=> Wanted(f)
  BY <1>1, FiltersAgree DEF IInv, ControlInv, Receive, Running
<1>4. \A g : Wanted(g)' <=> Wanted(g)
  BY DEF Wanted, Receive
<1>5. Range(taken') = Range(taken) \cup {f}
  BY <1>1, <1>2 DEF Range
<1>6. \A g \in Range(taken) : g.n < f.n /\ g # f
  <2>1. f.n \in Nat
    BY <1>1, Serials DEF IInv
  <2>2. \A g \in Range(taken) : \E i \in 1..Len(taken) : g = taken[i]
    BY <1>1 DEF Range
  <2>3. \A g \in Range(taken) : g.n < f.n
    BY <1>2, <2>2
  <2>. QED
    BY <2>1, <2>3
<1>7. Range(packets) \subseteq Range(taken)
  BY <1>1 DEF Range, IInv, ResultInv, OnlyMatchingInOrder
<1>8. \A i \in 1..Len(packets) :
        packets[i] \in Range(taken) /\ Wanted(packets[i]) /\ packets[i].n < f.n
  BY <1>6 DEF IInv, ResultInv, OnlyMatchingInOrder
<1>. HIDE DEF f
<1>9. CASE packets' = packets /\ ~Wanted(f) /\ pc' = "loop"
  <2>1. OnlyMatchingInOrder'
    BY <1>4, <1>5, <1>8, <1>9 DEF IInv, ResultInv, OnlyMatchingInOrder
  <2>2. CutOnlyAtLimit'
    BY <1>4, <1>5, <1>9 DEF IInv, ResultInv, CutOnlyAtLimit
  <2>. QED
    BY <1>1, <1>9, <2>1, <2>2 DEF ResultInv
<1>10. CASE packets' = packets /\ Wanted(f) /\ Len(packets) >= MaxPackets
  <2>1. OnlyMatchingInOrder'
    BY <1>4, <1>5, <1>8, <1>10 DEF IInv, ResultInv, OnlyMatchingInOrder
  <2>2. Len(packets) = MaxPackets /\ \A g \in Range(packets) : g.n < f.n
    BY <1>1, <1>6, <1>7, <1>10
  <2>3. CutOnlyAtLimit'
    BY <1>4, <1>5, <1>10, <2>2 DEF IInv, ResultInv, CutOnlyAtLimit
  <2>4. LimitReached'
    BY <1>4, <1>5, <1>6, <1>7, <1>10, <2>2 DEF LimitReached
  <2>. QED
    BY <1>1, <1>10, <2>1, <2>3, <2>4 DEF ResultInv
<1>11. CASE packets' = Append(packets, f) /\ Wanted(f) /\ Len(packets) < MaxPackets
            /\ pc' = "loop"
  <2>1. /\ packets' \in Seq(Frame) /\ Len(packets') = Len(packets) + 1
        /\ \A i \in 1..Len(packets) : packets'[i] = packets[i]
        /\ packets'[Len(packets) + 1] = f
    BY <1>1, <1>11
  <2>2. Range(packets') = Range(packets) \cup {f}
    BY <1>1, <2>1 DEF Range
  <2>3. OnlyMatchingInOrder'
    <3>1. \A i \in 1..Len(packets') :
            packets'[i] \in Range(taken') /\ Wanted(packets'[i])
      BY <1>1, <1>5, <1>8, <1>11, <2>1
    <3>2. \A i, j \in 1..Len(packets') : i < j => packets'[i].n < packets'[j].n
      BY <1>1, <1>8, <2>1 DEF IInv, ResultInv, OnlyMatchingInOrder
    <3>. QED
      BY <1>4, <3>1, <3>2 DEF OnlyMatchingInOrder
  <2>4. CutOnlyAtLimit'
    BY <1>1, <1>4, <1>5, <1>11, <2>2 DEF IInv, ResultInv, CutOnlyAtLimit
  <2>. QED
    BY <1>1, <1>11, <2>1, <2>3, <2>4 DEF ResultInv
<1>. QED
  BY <1>1, <1>3, <1>9, <1>10, <1>11 DEF Receive, f

LEMMA ReceiveInvariant ==
  ASSUME LimitsAssumption, IInv, Receive
  PROVE  IInv'
<1>1. /\ UNCHANGED <<request, socket, arrivals, linkError, clock, stopRequested,
                     packetId, listed, outcome>>
      /\ pc = "recv" /\ pc' \in {"loop", "close"}
  BY DEF Receive
<1>2. outcome = "running" /\ packetId = 1 /\ Len(listed) = 0
  BY <1>1 DEF IInv, ControlInv, ListInv, Running
<1>3. TypeOK'
  BY <1>1, ReceiveOrdered, ReceiveResult DEF IInv, TypeOK
<1>4. ControlInv'
  BY <1>1, <1>2, ReceiveResult DEF IInv, ControlInv, Running, Accepted
<1>5. Len(packets') \in Nat
  BY <1>3 DEF TypeOK
<1>6. ListInv'
  BY <1>1, <1>2, <1>5 DEF ListInv
<1>. QED
  BY <1>3, <1>4, <1>6, ReceiveOrdered, ReceiveResult DEF IInv

LEMMA NumberInvariant ==
  ASSUME LimitsAssumption, IInv, Number
  PROVE  IInv'
<1>1. /\ UNCHANGED <<request, pc, socket, queue, arrivals, linkError, clock,
                     stopRequested, taken, packets, outcome>>
      /\ pc = "number" /\ packetId <= Len(packets) /\ packetId' = packetId + 1
  BY DEF Number, Kernel
<1>2. /\ packets \in Seq(Frame) /\ Len(packets) \in Nat /\ Len(packets) <= MaxPackets
      /\ packetId \in 1..MaxPackets + 1 /\ MaxPackets \in Nat
      /\ listed \in Seq([id : 1..MaxPackets, frame : Frame])
  BY DEF IInv, TypeOK, LimitsAssumption
<1>3. /\ packetId \in 1..Len(packets) /\ packetId \in 1..MaxPackets
      /\ packets[packetId] \in Frame
  BY <1>1, <1>2
<1>4. Accepted(request) /\ outcome = "captured"
  BY <1>1 DEF IInv, ControlInv, Running
<1>5. Wanted(packets[packetId])
  BY <1>3 DEF IInv, ResultInv, OnlyMatchingInOrder
<1>6. listed' = Append(listed, [id |-> packetId, frame |-> packets[packetId]])
  BY <1>3, <1>4, <1>5, FiltersAgree DEF Number
<1>. DEFINE p == [id |-> packetId, frame |-> packets[packetId]]
<1>7. p \in [id : 1..MaxPackets, frame : Frame]
  BY <1>3
<1>8. TypeOK'
  BY <1>1, <1>2, <1>3, <1>6, <1>7 DEF IInv, TypeOK
<1>9. ListInv'
  <2>1. Len(listed) = packetId - 1
    BY DEF IInv, ListInv
  <2>2. /\ Len(listed') = packetId
        /\ \A i \in 1..Len(listed) : listed'[i] = listed[i]
        /\ listed'[packetId] = p
    BY <1>2, <1>6, <1>7, <2>1
  <2>3. \A i \in 1..Len(listed') :
          listed'[i].id = i /\ listed'[i].frame = packets[i]
    BY <1>2, <2>1, <2>2 DEF IInv, ListInv
  <2>. QED
    BY <1>1, <1>2, <1>4, <2>2, <2>3 DEF ListInv
<1>10. ControlInv'
  BY <1>1 DEF IInv, ControlInv, Running, Accepted, LimitReached, Wanted
<1>. QED
  BY <1>1, <1>8, <1>9, <1>10, DataUnchanged DEF IInv

LEMMA ArriveInvariant ==
  ASSUME LimitsAssumption, IInv, Arrive
  PROVE  IInv'
<1>1. /\ UNCHANGED <<request, pc, socket, linkError, clock, stopRequested, taken,
                     packets, packetId, listed, outcome>>
      /\ arrivals' = arrivals + 1 /\ arrivals < ArrivalBound
      /\ arrivals \in Nat /\ ArrivalBound \in Nat /\ QueueBound \in Nat
      /\ queue \in Seq(Frame) /\ Len(queue) \in Nat /\ Len(queue) <= QueueBound
      /\ taken \in Seq(Frame) /\ Len(taken) \in Nat
  BY DEF Arrive, IInv, TypeOK, LimitsAssumption
<1>2. /\ queue' \in Seq(Frame) /\ Len(queue') <= QueueBound
      /\ Ordered'
  <2>1. CASE queue' = queue
    <3>1. ASSUME NEW i \in 1..Len(taken) PROVE taken[i].n <= arrivals + 1
      <4>1. taken[i].n \in Nat
        BY Serials DEF IInv
      <4>2. taken[i].n <= arrivals
        BY DEF IInv, Ordered
      <4>. QED
        BY <1>1, <4>1, <4>2
    <3>2. ASSUME NEW i \in 1..Len(queue) PROVE queue[i].n <= arrivals + 1
      <4>1. queue[i].n \in Nat
        BY Serials DEF IInv
      <4>2. queue[i].n <= arrivals
        BY DEF IInv, Ordered
      <4>. QED
        BY <1>1, <4>1, <4>2
    <3>. QED
      BY <1>1, <2>1, <3>1, <3>2 DEF IInv, Ordered
  <2>2. CASE Len(queue) < QueueBound /\ queue' # queue
    <3>1. PICK f \in Frame : f.n = arrivals + 1 /\ queue' = Append(queue, f)
      <4>1. PICK kind \in Kinds, here \in BOOLEAN :
              queue' = Append(queue, [n |-> arrivals + 1, kind |-> kind, here |-> here])
        BY <2>2 DEF Arrive
      <4>2. [n |-> arrivals + 1, kind |-> kind, here |-> here] \in Frame
        BY <1>1 DEF Frame
      <4>. QED
        BY <4>1, <4>2
    <3>2. /\ queue' \in Seq(Frame) /\ Len(queue') = Len(queue) + 1
          /\ \A i \in 1..Len(queue) : queue'[i] = queue[i]
          /\ queue'[Len(queue) + 1] = f
      BY <1>1, <3>1
    <3>3. \A i \in 1..Len(queue) : queue[i].n \in Nat /\ queue[i].n < f.n
      BY <1>1, <3>1, Serials DEF IInv, Ordered
    <3>4. \A i \in 1..Len(taken) : taken[i].n \in Nat /\ taken[i].n < f.n
      BY <1>1, <3>1, Serials DEF IInv, Ordered
    <3>5. \A i, j \in 1..Len(queue') : i < j => queue'[i].n < queue'[j].n
      BY <1>1, <3>2, <3>3 DEF IInv, Ordered
    <3>6. \A i \in 1..Len(taken') : \A j \in 1..Len(queue') : taken'[i].n < queue'[j].n
      BY <1>1, <3>2, <3>4 DEF IInv, Ordered
    <3>7. /\ \A i \in 1..Len(taken') : taken'[i].n <= arrivals'
          /\ \A i \in 1..Len(queue') : queue'[i].n <= arrivals'
      BY <1>1, <3>1, <3>2, <3>3, <3>4
    <3>8. \A i, j \in 1..Len(taken') : i < j => taken'[i].n < taken'[j].n
      BY <1>1 DEF IInv, Ordered
    <3>. QED
      BY <1>1, <2>2, <3>2, <3>5, <3>6, <3>7, <3>8 DEF Ordered
  <2>. QED
    BY <2>1, <2>2 DEF Arrive
<1>3. TypeOK'
  BY <1>1, <1>2 DEF IInv, TypeOK
<1>4. ResultInv'
  BY <1>1 DEF IInv, ResultInv, OnlyMatchingInOrder, CutOnlyAtLimit, Wanted
<1>5. ControlInv'
  BY <1>1 DEF IInv, ControlInv, Running, Accepted, LimitReached, Wanted
<1>6. ListInv'
  BY <1>1 DEF IInv, ListInv
<1>. QED
  BY <1>2, <1>3, <1>4, <1>5, <1>6 DEF IInv

LEMMA EnvironmentInvariant ==
  ASSUME LimitsAssumption, IInv, LinkDown \/ Tick \/ Press
  PROVE  IInv'
<1>1. /\ UNCHANGED <<request, pc, socket, queue, arrivals, taken, packets,
                     packetId, listed, outcome>>
      /\ clock' = clock \/ (clock' = clock + 1 /\ clock < MaxSeconds
                              /\ pc \in {"loop", "select", "recv"})
      /\ linkError' \in BOOLEAN /\ stopRequested' \in BOOLEAN
  BY DEF LinkDown, Tick, Press, IInv, TypeOK
<1>2. TypeOK'
  BY <1>1 DEF IInv, TypeOK, LimitsAssumption
<1>3. ControlInv'
  <2>1. LimitReached' <=> LimitReached
    BY <1>1 DEF LimitReached, Wanted
  <2>. QED
    BY <1>1, <2>1 DEF IInv, ControlInv, Running, Accepted
<1>4. ListInv'
  BY <1>1 DEF IInv, ListInv
<1>. QED
  BY <1>1, <1>2, <1>3, <1>4, DataUnchanged DEF IInv

LEMMA StutterInvariant ==
  ASSUME IInv, UNCHANGED vars
  PROVE  IInv'
<1>1. TypeOK' /\ ListInv'
  BY DEF IInv, TypeOK, ListInv, vars
<1>2. ControlInv'
  BY DEF IInv, ControlInv, Running, Accepted, LimitReached, Wanted, vars
<1>. QED
  BY <1>1, <1>2, DataUnchanged DEF IInv, vars

(* The inductive invariant holds of every behaviour.                       *)
THEOREM Invariant == Spec => []IInv
<1>1. Init => IInv
  BY LimitsAssumption, InitInvariant
<1>2. IInv /\ [Next]_vars => IInv'
  BY LimitsAssumption, ControlStepInvariant, ReceiveInvariant, NumberInvariant,
     ArriveInvariant, EnvironmentInvariant, StutterInvariant
     DEF Next, Capture, ControlStep
<1>. QED
  BY <1>1, <1>2, PTL DEF Spec

-----------------------------------------------------------------------------
(* The variables keep their types, for every limit: in particular the      *)
(* result never holds more than MaxPackets packets.                        *)
THEOREM CaptureTypeCorrect == Spec => []TypeOK
<1>. QED
  BY Invariant, PTL DEF IInv

(* The result holds only what the filter asks for, in the order received,  *)
(* and whatever of it is missing came after a full result.                 *)
THEOREM CaptureKeepsFirstMatching == Spec => [](OnlyMatchingInOrder /\ CutOnlyAtLimit)
<1>. QED
  BY Invariant, PTL DEF IInv, ResultInv

(* What the code does with interrupted waits, failed receives and filtered *)
(* frames: none of them ends a successful capture before its time, only    *)
(* the packet limit does.                                                  *)
THEOREM CaptureEndsEarlyOnlyAtLimit == Spec => []EndsEarlyOnlyAtLimit
<1>1. IInv => EndsEarlyOnlyAtLimit
  BY DEF IInv, TypeOK, Request, ControlInv, LimitReached, EndsEarlyOnlyAtLimit
<1>. QED
  BY Invariant, <1>1, PTL

(* The packets returned are numbered 1, 2, ... and none is dropped by the  *)
(* second filter.                                                          *)
THEOREM CaptureNumbersWithoutGap == Spec => []NumberedWithoutGap
<1>1. IInv => NumberedWithoutGap
  BY DEF IInv, TypeOK, ListInv, NumberedWithoutGap
<1>. QED
  BY Invariant, <1>1, PTL

(* No path out of capture() leaves the socket open or returns packets of a *)
(* failed capture.                                                         *)
THEOREM CaptureLeavesNothingBehind == Spec => []NothingLeftBehind
<1>1. IInv => NothingLeftBehind
  <2>1. IInv => (outcome # "captured" => listed = <<>>)
    BY DEF IInv, TypeOK, ListInv
  <2>. QED
    BY <2>1 DEF IInv, ControlInv, NothingLeftBehind
<1>. QED
  BY Invariant, <1>1, PTL


-----------------------------------------------------------------------------
(* The capture file.                                                       *)

(* The loops over a capture's packets and over a file's lines, and the     *)
(* cutting of digits.                                                      *)
Bytes == INSTANCE VectorLoopProofs WITH Step <- AddLength
Digits == INSTANCE VectorLoopProofs WITH Step <- CutDigit
Lines == INSTANCE VectorLoopProofs WITH Step <- readLine

Entry == [id : Nat, protocol : Protocols, length : Nat]

(* The bytes of packets are a number.                                      *)
LEMMA TotalBytesType ==
  ASSUME NEW ps \in Seq(Entry)
  PROVE  TotalBytes(ps) \in Nat
<1> DEFINE n == Len(ps)
<1>1. n \in Nat
  OBVIOUS
<1>2. PICK sum : Bytes!States(0, ps, sum)
  BY <1>1, Bytes!LoopHasStates
<1>3. \A k \in 1..n : ps[k].length \in Nat
  <2>1. \A e \in Entry : e.length \in Nat
    BY DEF Entry
  <2>2. \A k \in 1..n : ps[k] \in Entry
    OBVIOUS
  <2> QED
    BY <2>1, <2>2
<1>4. /\ sum[0] = 0 /\ Bytes!Run(0, ps) = sum[n]
      /\ \A k \in 1..n : sum[k] = sum[k - 1] + ps[k].length
  BY <1>2 DEF Bytes!States, AddLength
<1> DEFINE T == {k \in 0..n : sum[k] \in Nat}
<1> HIDE DEF n
<1>5. 0 \in T /\ \A k \in 1..n : k - 1 \in T => k \in T
  BY <1>1, <1>3, <1>4
<1>6. \A k \in 0..n : k \in T
  <2> HIDE DEF T
  <2> QED
    BY <1>1, <1>5, Bytes!UpTo
<1>7. sum[n] \in Nat
  BY <1>1, <1>6
<1>8. TotalBytes(ps) = Bytes!Run(0, ps)
  BY DEF TotalBytes, Lengthening!Run, Bytes!Run
<1> QED
  BY <1>4, <1>7, <1>8

(* What is left of a number is no greater than it.                         *)
LEMMA FirstDigitsSmaller ==
  ASSUME NEW number \in Nat
  PROVE  /\ number \in FirstDigits(number)
         /\ FirstDigits(number) \subseteq 0..number
<1> DEFINE bases(k) == [i \in 1..k |-> Base]
<1>1. Base \in Nat /\ Base > 0
  <2>1. Base \in Nat \ {0, 1}
    BY FileAssumption
  <2> QED
    BY <2>1
<1>2. \A v \in 0..number : v \div Base \in 0..number
  <2>1. ASSUME NEW a \in Nat, NEW b \in Nat, b > 0 PROVE a \div b \in Nat /\ a \div b <= a
    BY <2>1
  <2>2. ASSUME NEW v \in 0..number PROVE v \div Base \in 0..number
    <3>1. v \in Nat /\ v <= number
      OBVIOUS
    <3>2. v \div Base \in Nat /\ v \div Base <= v
      BY <1>1, <2>1, <3>1
    <3> QED
      BY <3>1, <3>2
  <2> QED
    BY <2>2
<1>3. ASSUME NEW m \in Nat
      PROVE  /\ Digits!Run(number, bases(m)) \in 0..number
             /\ m = 0 => Digits!Run(number, bases(m)) = number
  <2>1. Len(bases(m)) = m /\ \A k \in 1..m : bases(m)[k] = Base
    OBVIOUS
  <2> HIDE DEF bases
  <2>2. PICK cut : Digits!States(number, bases(m), cut)
    BY <2>1, Digits!LoopHasStates
  <2>3. /\ cut[0] = number /\ Digits!Run(number, bases(m)) = cut[m]
        /\ \A k \in 1..m : cut[k] = cut[k - 1] \div Base
    BY <2>1, <2>2 DEF Digits!States, CutDigit
  <2> DEFINE T == {k \in 0..m : cut[k] \in 0..number}
  <2>4. 0 \in T /\ \A k \in 1..m : k - 1 \in T => k \in T
    BY <1>2, <2>3
  <2>5. \A k \in 0..m : k \in T
    <3> HIDE DEF T
    <3> QED
      BY <2>4, Digits!UpTo
  <2>6. cut[m] \in 0..number
    BY <2>5
  <2> QED
    BY <2>3, <2>6
<1>4. FirstDigits(number) = {Digits!Run(number, bases(k)) : k \in 0..number}
  BY DEF FirstDigits, Cutting!Run, Digits!Run
<1> HIDE DEF bases
<1>5. 0 \in 0..number /\ \A k \in 0..number : k \in Nat
  OBVIOUS
<1> QED
  BY <1>3, <1>4, <1>5

-----------------------------------------------------------------------------
(* The lines of a file.                                                    *)
NumberKeys == {"packets", "bytes", "id", "length"}
NumberLine == [key : NumberKeys, value : Nat]
ProtocolLine == [key : {"protocol"}, value : Protocols \cup {""}]
Magic == Line("SLIPNET_CAPTURE_V2", "")
Marker == Line("[PACKET]", "")
FileLine == NumberLine \cup ProtocolLine \cup {Magic, Marker, Noise}

(* A line cut short is a line, noise or one of the same key with no        *)
(* greater number or without its protocol.                                 *)
LEMMA TornLines ==
  ASSUME NEW l \in FileLine
  PROVE  l \in Torn(l) /\ Torn(l) \subseteq FileLine
<1>1. CASE l \in NumberLine
  <2>1. l.key \in NumberKeys /\ l.value \in Nat /\ l = Line(l.key, l.value)
    BY <1>1 DEF NumberLine, Line
  <2>2. Torn(l) = {Noise} \cup {Line(l.key, n) : n \in FirstDigits(l.value)}
    BY <2>1 DEF Torn, NumberKeys
  <2>3. l.value \in FirstDigits(l.value) /\ FirstDigits(l.value) \subseteq Nat
    BY <2>1, FirstDigitsSmaller
  <2>4. \A n \in Nat : Line(l.key, n) \in NumberLine
    BY <2>1 DEF Line, NumberLine
  <2> QED
    BY <2>1, <2>2, <2>3, <2>4 DEF FileLine
<1>2. CASE l \in ProtocolLine
  <2>1. l.key = "protocol"
    BY <1>2 DEF ProtocolLine
  <2>2. Torn(l) = {Noise} \cup {Line("protocol", ""), l}
    BY <2>1 DEF Torn
  <2>3. Line("protocol", "") \in ProtocolLine
    BY DEF Line, ProtocolLine
  <2> QED
    BY <1>2, <2>2, <2>3 DEF FileLine
<1>3. CASE l \in {Magic, Marker, Noise}
  <2>1. l.key \in {"SLIPNET_CAPTURE_V2", "[PACKET]", ""}
    <3>1. Magic.key = "SLIPNET_CAPTURE_V2" /\ Marker.key = "[PACKET]" /\ Noise.key = ""
      BY DEF Magic, Marker, Noise, Line
    <3> QED
      BY <1>3, <3>1
  <2>2. Torn(l) = {Noise} \cup {l}
    BY <2>1 DEF Torn
  <2> QED
    BY <1>3, <2>2 DEF FileLine
<1> QED
  BY <1>1, <1>2, <1>3 DEF FileLine

IsCapture(ps) == ps \in Seq(Entry) /\ \A i \in 1..Len(ps) : ps[i].id = i

(* The lines saveCapture writes, one by one.                               *)
LEMMA TextLines ==
  ASSUME NEW ps, IsCapture(ps)
  PROVE  /\ Len(Text(ps)) = 3 + 4 * Len(ps)
         /\ Text(ps) \in Seq(FileLine)
         /\ Text(ps)[1] = Magic
         /\ Text(ps)[2] = Line("packets", Len(ps))
         /\ Text(ps)[3] = Line("bytes", TotalBytes(ps))
         /\ \A i \in 1..Len(ps) :
              /\ Text(ps)[4 * i] = Marker
              /\ Text(ps)[4 * i + 1] = Line("id", i)
              /\ Text(ps)[4 * i + 2] = Line("protocol", ps[i].protocol)
              /\ Text(ps)[4 * i + 3] = Line("length", ps[i].length)
<1> DEFINE n == Len(ps)
           t == Text(ps)
<1>1. n \in Nat
  BY DEF IsCapture
<1>2. /\ DOMAIN t = 1..3 + 4 * n
      /\ t = [k \in 1..3 + 4 * n |-> t[k]]
  BY DEF Text
<1>3. t[1] = Magic /\ t[2] = Line("packets", n) /\ t[3] = Line("bytes", TotalBytes(ps))
  <2>1. 1 \in 1..3 + 4 * n /\ 2 \in 1..3 + 4 * n /\ 3 \in 1..3 + 4 * n
    BY <1>1
  <2>2. \A k \in {1, 2, 3} : t[k] = HeaderLines(ps)[k]
    BY <2>1 DEF Text
  <2> QED
    BY <2>2 DEF HeaderLines, Magic
<1>4. ASSUME NEW i \in 1..n
      PROVE  /\ t[4 * i] = Marker
             /\ t[4 * i + 1] = Line("id", i)
             /\ t[4 * i + 2] = Line("protocol", ps[i].protocol)
             /\ t[4 * i + 3] = Line("length", ps[i].length)
  <2>1. ASSUME NEW r \in 0..3
        PROVE  t[4 * i + r] = PacketLines(ps[i])[r + 1]
    <3>1. /\ 4 * i + r \in 1..3 + 4 * n
          /\ ~(4 * i + r <= 3)
          /\ (4 * i + r) \div 4 = i
          /\ (4 * i + r) % 4 = r
      BY <1>1
    <3> QED
      BY <3>1 DEF Text
  <2>2. 4 * i + 0 = 4 * i
    OBVIOUS
  <2>3. ps[i].id = i
    BY DEF IsCapture
  <2>4. /\ t[4 * i] = PacketLines(ps[i])[1]
        /\ t[4 * i + 1] = PacketLines(ps[i])[2]
        /\ t[4 * i + 2] = PacketLines(ps[i])[3]
        /\ t[4 * i + 3] = PacketLines(ps[i])[4]
    <3> HIDE DEF t
    <3> QED
      BY <2>1, <2>2
  <2> HIDE DEF t
  <2> QED
    BY <2>3, <2>4 DEF PacketLines, Marker
<1>5. ASSUME NEW k \in 1..3 + 4 * n PROVE t[k] \in FileLine
  <2> HIDE DEF t
  <2>1. CASE k <= 3
    <3>1. n \in Nat /\ TotalBytes(ps) \in Nat
      BY <1>1, TotalBytesType DEF IsCapture
    <3>2. /\ Line("packets", n) \in NumberLine
          /\ Line("bytes", TotalBytes(ps)) \in NumberLine
      BY <3>1 DEF Line, NumberLine, NumberKeys
    <3>3. k = 1 \/ k = 2 \/ k = 3
      BY <2>1
    <3> QED
      BY <1>3, <3>2, <3>3 DEF FileLine
  <2>2. CASE k > 3
    <3>1. PICK i \in 1..n, r \in 0..3 : k = 4 * i + r
      <4>1. k \div 4 \in 1..n /\ k % 4 \in 0..3 /\ k = 4 * (k \div 4) + (k % 4)
        BY <1>1, <2>2
      <4> QED
        BY <4>1
    <3>2. ps[i] \in Entry
      BY DEF IsCapture
    <3>3. ps[i].protocol \in Protocols /\ ps[i].length \in Nat
      BY <3>2 DEF Entry
    <3>4. /\ Line("id", i) \in NumberLine
          /\ Line("length", ps[i].length) \in NumberLine
          /\ Line("protocol", ps[i].protocol) \in ProtocolLine
      <4>1. \A v \in Nat : Line("id", v) \in NumberLine /\ Line("length", v) \in NumberLine
        BY DEF Line, NumberLine, NumberKeys
      <4>2. \A v \in Protocols : Line("protocol", v) \in ProtocolLine
        BY DEF Line, ProtocolLine
      <4>3. i \in Nat
        BY <1>1
      <4> QED
        BY <3>3, <4>1, <4>2, <4>3
    <3>5. r = 0 \/ r = 1 \/ r = 2 \/ r = 3
      OBVIOUS
    <3>6. 4 * i + 0 = 4 * i
      OBVIOUS
    <3> QED
      BY <1>4, <3>1, <3>4, <3>5, <3>6 DEF FileLine
  <2> QED
    BY <1>1, <2>1, <2>2
<1>6. t \in Seq(FileLine) /\ Len(t) = 3 + 4 * n
  <2> HIDE DEF t
  <2>1. 3 + 4 * n \in Nat
    BY <1>1
  <2> QED
    BY <1>2, <1>5, <2>1
<1> QED
  BY <1>3, <1>4, <1>6

-----------------------------------------------------------------------------
(* Reading.                                                                *)

(* The loop has a result, reached line by line.                            *)
LEMMA ReadLoop ==
  ASSUME NEW lines, Len(lines) \in Nat
  PROVE  \E read : /\ read[0] = NothingRead
                   /\ \A k \in 1..Len(lines) : read[k] = readLine(read[k - 1], lines[k])
                   /\ readLines(lines) = read[Len(lines)]
<1>1. PICK read : Lines!States(NothingRead, lines, read)
  BY Lines!LoopHasStates
<1>2. readLines(lines) = Lines!Run(NothingRead, lines)
  BY DEF readLines, Reading!Run, Lines!Run
<1> QED
  BY <1>1, <1>2 DEF Lines!States

Fields(id, protocol, length) == [id |-> id, protocol |-> protocol, length |-> length]
ReaderFields == {"packets", "current", "insidePacket", "packetCount", "totalBytes"}

(* Before the first packet of ps, and with the fields p of packet m read.  *)
InHeader(c, count, bytes) ==
  /\ DOMAIN c = ReaderFields
  /\ ~c.insidePacket /\ c.packets = <<>>
  /\ c.packetCount = count /\ c.totalBytes = bytes
InPacket(c, ps, m, p) ==
  /\ DOMAIN c = ReaderFields
  /\ c.insidePacket /\ c.packets = SubSeq(ps, 1, m - 1) /\ c.current = p
  /\ c.packetCount = Len(ps) /\ c.totalBytes = TotalBytes(ps)

(* What each kind of line does in the header or in a packet.               *)
LEMMA ReadOther ==
  ASSUME NEW c, NEW l, l \in {Noise, Magic}
  PROVE  readLine(c, l) = c
<1>1. l.key \in {"", "SLIPNET_CAPTURE_V2"}
  <2>1. Noise.key = "" /\ Magic.key = "SLIPNET_CAPTURE_V2"
    BY DEF Noise, Magic, Line
  <2> QED
    BY <2>1
<1>2. l.key \notin DOMAIN NoPacket
  BY <1>1 DEF NoPacket
<1> QED
  BY <1>1, <1>2 DEF readLine

LEMMA ReadHeader ==
  ASSUME NEW c, NEW count, NEW bytes, InHeader(c, count, bytes), NEW n
  PROVE  /\ InHeader(readLine(c, Line("packets", n)), n, bytes)
         /\ InHeader(readLine(c, Line("bytes", n)), count, n)
  BY DEF InHeader, readLine, Line, ReaderFields

LEMMA ReadFirstMarker ==
  ASSUME NEW ps, IsCapture(ps), NEW c, InHeader(c, Len(ps), TotalBytes(ps))
  PROVE  InPacket(readLine(c, Marker), ps, 1, NoPacket)
<1>1. readLine(c, Marker) = startPacket(c)
  BY DEF readLine, Marker, Line, NoPacket
<1>2. SubSeq(ps, 1, 1 - 1) = <<>>
  BY DEF IsCapture
<1>3. /\ DOMAIN startPacket(c) = ReaderFields
      /\ startPacket(c).insidePacket
      /\ startPacket(c).packets = <<>>
      /\ startPacket(c).current = NoPacket
      /\ startPacket(c).packetCount = c.packetCount
      /\ startPacket(c).totalBytes = c.totalBytes
  BY DEF InHeader, startPacket, ReaderFields
<1> QED
  BY <1>1, <1>2, <1>3 DEF InPacket, InHeader

LEMMA ReadNextMarker ==
  ASSUME NEW ps, IsCapture(ps), NEW m \in 1..Len(ps) - 1, NEW c, InPacket(c, ps, m, ps[m])
  PROVE  InPacket(readLine(c, Marker), ps, m + 1, NoPacket)
<1>1. readLine(c, Marker) = startPacket(c)
  BY DEF readLine, Marker, Line, NoPacket
<1>2. Append(SubSeq(ps, 1, m - 1), ps[m]) = SubSeq(ps, 1, (m + 1) - 1)
  BY DEF IsCapture
<1>3. /\ DOMAIN startPacket(c) = ReaderFields
      /\ startPacket(c).insidePacket
      /\ startPacket(c).packets = Append(c.packets, c.current)
      /\ startPacket(c).current = NoPacket
      /\ startPacket(c).packetCount = c.packetCount
      /\ startPacket(c).totalBytes = c.totalBytes
  BY DEF InPacket, startPacket, ReaderFields
<1> QED
  BY <1>1, <1>2, <1>3 DEF InPacket

LEMMA ReadField ==
  ASSUME NEW ps, NEW m, NEW c, NEW id, NEW protocol, NEW length,
         InPacket(c, ps, m, Fields(id, protocol, length)), NEW v
  PROVE  /\ InPacket(readLine(c, Line("id", v)), ps, m, Fields(v, protocol, length))
         /\ InPacket(readLine(c, Line("protocol", v)), ps, m, Fields(id, v, length))
         /\ InPacket(readLine(c, Line("length", v)), ps, m, Fields(id, protocol, v))
<1>1. {"id", "protocol", "length"} \subseteq DOMAIN NoPacket
  BY DEF NoPacket
<1>2. /\ readLine(c, Line("id", v)) = [c EXCEPT !.current["id"] = v]
      /\ readLine(c, Line("protocol", v)) = [c EXCEPT !.current["protocol"] = v]
      /\ readLine(c, Line("length", v)) = [c EXCEPT !.current["length"] = v]
  BY <1>1 DEF readLine, Line, InPacket
<1> QED
  BY <1>2 DEF InPacket, Fields, ReaderFields

(* The first r fields of packet m.                                         *)
FirstFields(ps, m, r) ==
  Fields(IF r >= 1 THEN m ELSE 0, IF r >= 2 THEN ps[m].protocol ELSE "",
         IF r >= 3 THEN ps[m].length ELSE 0)

(* What the loop has read after the first k lines of the text of ps.       *)
HasRead(c, ps, k) ==
  IF k <= 3
  THEN InHeader(c, IF k >= 2 THEN Len(ps) ELSE 0, IF k >= 3 THEN TotalBytes(ps) ELSE 0)
  ELSE InPacket(c, ps, k \div 4, FirstFields(ps, k \div 4, k % 4))

(* The packet read after each of its lines; all four make the one saved.   *)
LEMMA AllFields ==
  ASSUME NEW ps, IsCapture(ps), NEW m \in 1..Len(ps)
  PROVE  /\ FirstFields(ps, m, 0) = NoPacket
         /\ FirstFields(ps, m, 0) = Fields(0, "", 0)
         /\ FirstFields(ps, m, 1) = Fields(m, "", 0)
         /\ FirstFields(ps, m, 2) = Fields(m, ps[m].protocol, 0)
         /\ FirstFields(ps, m, 3) = Fields(m, ps[m].protocol, ps[m].length)
         /\ FirstFields(ps, m, 3) = ps[m]
<1>1. ps[m] \in Entry /\ ps[m].id = m
  BY DEF IsCapture
<1>2. ps[m] = Fields(m, ps[m].protocol, ps[m].length)
  BY <1>1 DEF Entry, Fields
<1>3. FirstFields(ps, m, 3) = Fields(m, ps[m].protocol, ps[m].length)
  BY DEF FirstFields
<1> QED
  BY <1>2, <1>3 DEF FirstFields, Fields, NoPacket

LEMMA NothingReadYet ==
  ASSUME NEW ps
  PROVE  HasRead(NothingRead, ps, 0)
  BY DEF HasRead, InHeader, NothingRead, ReaderFields

(* The next line of a text adds the next field, or begins the next packet. *)
LEMMA ReadStep ==
  ASSUME NEW ps, IsCapture(ps), NEW k \in 0..2 + 4 * Len(ps), NEW c, HasRead(c, ps, k)
  PROVE  HasRead(readLine(c, Text(ps)[k + 1]), ps, k + 1)
<1> DEFINE n == Len(ps)
           l == Text(ps)[k + 1]
           d == readLine(c, l)
<1>1. n \in Nat
  BY DEF IsCapture
<1>2. CASE k = 0
  <2>1. l = Magic
    BY <1>2, TextLines
  <2>2. d = c
    BY <2>1, ReadOther
  <2>3. InHeader(c, 0, 0)
    BY <1>2 DEF HasRead
  <2> QED
    BY <1>2, <2>2, <2>3 DEF HasRead
<1>3. CASE k = 1
  <2>1. l = Line("packets", n)
    BY <1>3, TextLines
  <2>2. InHeader(c, 0, 0)
    BY <1>3 DEF HasRead
  <2>3. InHeader(d, n, 0)
    BY <2>1, <2>2, ReadHeader
  <2> QED
    BY <1>3, <2>3 DEF HasRead
<1>4. CASE k = 2
  <2>1. l = Line("bytes", TotalBytes(ps))
    BY <1>4, TextLines
  <2>2. InHeader(c, n, 0)
    BY <1>4 DEF HasRead
  <2>3. InHeader(d, n, TotalBytes(ps))
    BY <2>1, <2>2, ReadHeader
  <2> QED
    BY <1>4, <2>3 DEF HasRead
<1>5. CASE k = 3
  <2>1. 1 \in 1..n /\ k + 1 = 4 * 1
    BY <1>1, <1>5
  <2>2. l = Marker
    BY <2>1, TextLines
  <2>3. InHeader(c, n, TotalBytes(ps))
    BY <1>5 DEF HasRead
  <2>4. InPacket(d, ps, 1, FirstFields(ps, 1, 0))
    BY <2>1, <2>2, <2>3, ReadFirstMarker, AllFields
  <2>5. 4 \div 4 = 1 /\ 4 % 4 = 0
    OBVIOUS
  <2> QED
    BY <1>5, <2>4, <2>5 DEF HasRead
<1>6. CASE k > 3
  <2>1. PICK m \in 1..n, r \in 0..3 : k = 4 * m + r
    <3>1. k \div 4 \in 1..n /\ k % 4 \in 0..3 /\ k = 4 * (k \div 4) + (k % 4)
      BY <1>1, <1>6
    <3> QED
      BY <3>1
  <2>2. k \div 4 = m /\ k % 4 = r
    BY <2>1, <1>1
  <2>3. InPacket(c, ps, m, FirstFields(ps, m, r))
    BY <1>6, <2>2 DEF HasRead
  <2>4. ASSUME r < 3 PROVE (k + 1) \div 4 = m /\ (k + 1) % 4 = r + 1 /\ ~(k + 1 <= 3)
    BY <1>1, <1>6, <2>1, <2>4
  <2>5. CASE r = 0
    <3>1. l = Line("id", m)
      BY <2>1, <2>5, TextLines
    <3>2. InPacket(d, ps, m, FirstFields(ps, m, 1))
      <4>1. InPacket(c, ps, m, Fields(0, "", 0))
        BY <2>3, <2>5, AllFields
      <4>2. InPacket(readLine(c, Line("id", m)), ps, m, Fields(m, "", 0))
        BY <4>1, ReadField
      <4> QED
        BY <3>1, <4>2, AllFields
    <3> QED
      BY <2>4, <2>5, <3>2 DEF HasRead
  <2>6. CASE r = 1
    <3>1. l = Line("protocol", ps[m].protocol)
      <4>1. k + 1 = 4 * m + 2
        BY <2>1, <2>6, <1>1
      <4>2. l = Text(ps)[4 * m + 2]
        BY <4>1
      <4> HIDE DEF l
      <4> QED
        BY <4>2, TextLines
    <3>2. InPacket(d, ps, m, FirstFields(ps, m, 2))
      <4>1. InPacket(c, ps, m, Fields(m, "", 0))
        BY <2>3, <2>6, AllFields
      <4>2. InPacket(readLine(c, Line("protocol", ps[m].protocol)), ps, m, Fields(m, ps[m].protocol, 0))
        BY <4>1, ReadField
      <4> QED
        BY <3>1, <4>2, AllFields
    <3> QED
      BY <2>4, <2>6, <3>2 DEF HasRead
  <2>7. CASE r = 2
    <3>1. l = Line("length", ps[m].length)
      <4>1. k + 1 = 4 * m + 3
        BY <2>1, <2>7, <1>1
      <4>2. l = Text(ps)[4 * m + 3]
        BY <4>1
      <4> HIDE DEF l
      <4> QED
        BY <4>2, TextLines
    <3>2. InPacket(d, ps, m, FirstFields(ps, m, 3))
      <4>1. InPacket(c, ps, m, Fields(m, ps[m].protocol, 0))
        BY <2>3, <2>7, AllFields
      <4>2. InPacket(readLine(c, Line("length", ps[m].length)), ps, m, Fields(m, ps[m].protocol, ps[m].length))
        BY <4>1, ReadField
      <4> QED
        BY <3>1, <4>2, AllFields
    <3> QED
      BY <2>4, <2>7, <3>2 DEF HasRead
  <2>8. CASE r = 3
    <3>1. m + 1 \in 1..n /\ k + 1 = 4 * (m + 1) /\ m \in 1..n - 1
      BY <2>1, <2>8, <1>1
    <3>2. l = Marker
      BY <3>1, TextLines
    <3>3. InPacket(c, ps, m, ps[m])
      BY <2>3, <2>8, AllFields
    <3>4. InPacket(d, ps, m + 1, FirstFields(ps, m + 1, 0))
      BY <3>1, <3>2, <3>3, ReadNextMarker, AllFields
    <3>5. (k + 1) \div 4 = m + 1 /\ (k + 1) % 4 = 0 /\ ~(k + 1 <= 3)
      BY <3>1, <1>1
    <3> QED
      BY <3>4, <3>5 DEF HasRead
  <2>9. r = 0 \/ r = 1 \/ r = 2 \/ r = 3
    BY <2>1
  <2> QED
    BY <2>5, <2>6, <2>7, <2>8, <2>9
<1> QED
  BY <1>1, <1>2, <1>3, <1>4, <1>5, <1>6

-----------------------------------------------------------------------------
(* What is read of a file that was cut.                                    *)

(* A packet of which the last fields are missing or cut.                   *)
Partial(p, q) ==
  /\ p.id \in 0..q.id /\ p.length \in 0..q.length
  /\ p.protocol \in {"", q.protocol}
  /\ p.length > 0 => p.id = q.id /\ p.protocol = q.protocol

(* The loop is in the header, or in the last packet that can be read.      *)
ReadsPrefix(c, ps) ==
  \/ ~c.insidePacket /\ c.packets = <<>>
  \/ \E m \in 1..Len(ps) : \E p : InPacket(c, ps, m, p) /\ Partial(p, ps[m])

(* A packet whose last fields are missing is a partial one.                *)
LEMMA FieldsPartial ==
  ASSUME NEW ps, IsCapture(ps), NEW m \in 1..Len(ps)
  PROVE  /\ ps[m].protocol \in Protocols /\ ps[m].length \in Nat /\ ps[m].id = m
         /\ \A v \in 0..m : Partial(Fields(v, "", 0), ps[m])
         /\ Partial(Fields(m, ps[m].protocol, 0), ps[m])
         /\ \A v \in 0..ps[m].length : Partial(Fields(m, ps[m].protocol, v), ps[m])
<1>1. ps[m] \in Entry /\ ps[m].id = m
  BY DEF IsCapture
<1>2. ps[m].protocol \in Protocols /\ ps[m].length \in Nat
  BY <1>1 DEF Entry
<1>3. m \in 0..m /\ 0 \in 0..ps[m].length /\ ~(0 > 0) /\ 0 \in 0..m
  <2> HIDE DEF Partial
  <2>1. \A n \in Nat : 0 \in 0..n /\ n \in 0..n
    OBVIOUS
  <2> QED
    BY <1>2, <2>1
<1>4. ASSUME NEW v \in 0..m PROVE Partial(Fields(v, "", 0), ps[m])
  BY <1>1, <1>2, <1>3 DEF Partial, Fields
<1>5. ASSUME NEW v \in 0..ps[m].length
      PROVE  Partial(Fields(m, ps[m].protocol, v), ps[m])
  BY <1>1, <1>2, <1>3 DEF Partial, Fields
<1> QED
  BY <1>1, <1>2, <1>3, <1>4, <1>5

(* Whatever part of a text was read, a prefix of the packets was.          *)
LEMMA HasReadPrefix ==
  ASSUME NEW ps, IsCapture(ps), NEW k \in 0..3 + 4 * Len(ps), NEW c, HasRead(c, ps, k)
  PROVE  ReadsPrefix(c, ps)
<1>1. CASE k <= 3
  BY <1>1 DEF HasRead, InHeader, ReadsPrefix
<1>2. CASE k > 3
  <2>0. Len(ps) \in Nat
    BY DEF IsCapture
  <2>1. PICK m \in 1..Len(ps), r \in 0..3 : k \div 4 = m /\ k % 4 = r
    <3>1. k \div 4 \in 1..Len(ps) /\ k % 4 \in 0..3
      BY <2>0, <1>2
    <3> QED
      BY <3>1
  <2>2. InPacket(c, ps, m, FirstFields(ps, m, r))
    BY <1>2, <2>1 DEF HasRead
  <2>3. r = 0 \/ r = 1 \/ r = 2 \/ r = 3
    OBVIOUS
  <2>4. 0 \in 0..m /\ m \in 0..m /\ ps[m].length \in 0..ps[m].length
    <3>1. ps[m].length \in Nat
      BY FieldsPartial
    <3> QED
      BY <3>1
  <2>5. Partial(FirstFields(ps, m, r), ps[m])
    <3>1. /\ Partial(Fields(0, "", 0), ps[m])
          /\ Partial(Fields(m, "", 0), ps[m])
          /\ Partial(Fields(m, ps[m].protocol, 0), ps[m])
          /\ Partial(Fields(m, ps[m].protocol, ps[m].length), ps[m])
      BY <2>4, FieldsPartial
    <3>2. /\ FirstFields(ps, m, 0) = Fields(0, "", 0)
          /\ FirstFields(ps, m, 1) = Fields(m, "", 0)
          /\ FirstFields(ps, m, 2) = Fields(m, ps[m].protocol, 0)
          /\ FirstFields(ps, m, 3) = Fields(m, ps[m].protocol, ps[m].length)
      BY AllFields
    <3> QED
      BY <2>3, <3>1, <3>2
  <2> QED
    BY <2>2, <2>5 DEF ReadsPrefix
<1> QED
  BY <1>1, <1>2 DEF IsCapture

(* The last line may be torn.                                              *)
LEMMA TornStep ==
  ASSUME NEW ps, IsCapture(ps), NEW k \in 0..2 + 4 * Len(ps), NEW c, HasRead(c, ps, k),
         NEW l \in Torn(Text(ps)[k + 1])
  PROVE  ReadsPrefix(readLine(c, l), ps)
<1> DEFINE n == Len(ps)
           t == Text(ps)[k + 1]
           d == readLine(c, l)
<1>1. n \in Nat
  BY DEF IsCapture
<1>2. CASE l = Noise
  <2>1. d = c
    BY <1>2, ReadOther
  <2>2. k \in 0..3 + 4 * n
    BY <1>1
  <2> QED
    BY <2>1, <2>2, HasReadPrefix
<1>3. CASE l = t
  <2>1. HasRead(d, ps, k + 1)
    BY <1>3, ReadStep
  <2>2. k + 1 \in 0..3 + 4 * n
    BY <1>1
  <2> QED
    BY <2>1, <2>2, HasReadPrefix
<1>4. CASE l # Noise /\ l # t
  <2>1. \/ t.key \in NumberKeys /\ \E v \in FirstDigits(t.value) : l = Line(t.key, v)
        \/ t.key = "protocol" /\ l = Line("protocol", "")
    BY <1>4 DEF Torn, NumberKeys
  <2>2. CASE k \in {0, 1, 2}
    <3>1. t.key \in {"SLIPNET_CAPTURE_V2", "packets", "bytes"}
      <4>1. t \in {Magic, Line("packets", n), Line("bytes", TotalBytes(ps))}
        <5>1. t = Text(ps)[1] \/ t = Text(ps)[2] \/ t = Text(ps)[3]
          BY <2>2
        <5> HIDE DEF t
        <5> QED
          BY <5>1, TextLines
      <4>2. /\ Magic.key = "SLIPNET_CAPTURE_V2"
            /\ Line("packets", n).key = "packets"
            /\ Line("bytes", TotalBytes(ps)).key = "bytes"
        BY DEF Magic, Line
      <4> HIDE DEF t
      <4> QED
        BY <4>1, <4>2
    <3>2. PICK v : l = Line("packets", v) \/ l = Line("bytes", v)
      BY <2>1, <3>1 DEF NumberKeys
    <3>3. PICK a, b : InHeader(c, a, b)
      BY <2>2 DEF HasRead
    <3>4. InHeader(d, v, b) \/ InHeader(d, a, v)
      BY <3>2, <3>3, ReadHeader
    <3> QED
      BY <3>4 DEF InHeader, ReadsPrefix
  <2>3. CASE k = 3
    <3>1. 1 \in 1..n /\ 3 + 1 = 4 * 1
      BY <1>1, <2>3
    <3>2. t = Marker
      BY <2>3, <3>1, TextLines
    <3>3. t.key = "[PACKET]"
      <4>1. Marker.key = "[PACKET]"
        BY DEF Marker, Line
      <4> QED
        BY <3>2, <4>1
    <3> QED
      BY <2>1, <3>3 DEF NumberKeys
  <2>4. CASE k > 3
    <3>1. PICK m \in 1..n, r \in 0..3 : k = 4 * m + r
      <4>1. k \div 4 \in 1..n /\ k % 4 \in 0..3 /\ k = 4 * (k \div 4) + (k % 4)
        BY <1>1, <2>4
      <4> QED
        BY <4>1
    <3>2. k \div 4 = m /\ k % 4 = r
      BY <3>1, <1>1
    <3>3. InPacket(c, ps, m, FirstFields(ps, m, r))
      BY <2>4, <3>2 DEF HasRead
    <3>4. CASE r = 0
      <4>1. t = Line("id", m)
        BY <3>1, <3>4, TextLines
      <4>2. PICK v \in FirstDigits(m) : l = Line("id", v)
        BY <2>1, <4>1 DEF Line
      <4>3. v \in 0..m
        BY <4>2, FirstDigitsSmaller
      <4>4. InPacket(c, ps, m, Fields(0, "", 0))
        BY <3>3, <3>4, AllFields
      <4>5. InPacket(d, ps, m, Fields(v, "", 0))
        BY <4>2, <4>4, ReadField
      <4> QED
        BY <4>3, <4>5, FieldsPartial DEF ReadsPrefix
    <3>5. CASE r = 1
      <4>1. t = Line("protocol", ps[m].protocol)
        <5>1. k + 1 = 4 * m + 2
          BY <3>1, <3>5, <1>1
        <5>2. t = Text(ps)[4 * m + 2]
          BY <5>1
        <5> HIDE DEF t
        <5> QED
          BY <5>2, TextLines
      <4>2. l = Line("protocol", "")
        <5>1. t.key = "protocol"
          BY <4>1 DEF Line
        <5> QED
          BY <2>1, <5>1 DEF NumberKeys
      <4>3. InPacket(c, ps, m, Fields(m, "", 0))
        BY <3>3, <3>5, AllFields
      <4>4. InPacket(d, ps, m, Fields(m, "", 0))
        BY <4>2, <4>3, ReadField
      <4>5. m \in 0..m
        OBVIOUS
      <4> QED
        BY <4>4, <4>5, FieldsPartial DEF ReadsPrefix
    <3>6. CASE r = 2
      <4>1. t = Line("length", ps[m].length)
        <5>1. k + 1 = 4 * m + 3
          BY <3>1, <3>6, <1>1
        <5>2. t = Text(ps)[4 * m + 3]
          BY <5>1
        <5> HIDE DEF t
        <5> QED
          BY <5>2, TextLines
      <4>2. PICK v \in FirstDigits(ps[m].length) : l = Line("length", v)
        BY <2>1, <4>1 DEF Line
      <4>3. v \in 0..ps[m].length
        BY <4>2, FirstDigitsSmaller, FieldsPartial
      <4>4. InPacket(c, ps, m, Fields(m, ps[m].protocol, 0))
        BY <3>3, <3>6, AllFields
      <4>5. InPacket(d, ps, m, Fields(m, ps[m].protocol, v))
        BY <4>2, <4>4, ReadField
      <4> QED
        BY <4>3, <4>5, FieldsPartial DEF ReadsPrefix
    <3>7. CASE r = 3
      <4>1. m + 1 \in 1..n /\ k + 1 = 4 * (m + 1)
        BY <3>1, <3>7, <1>1
      <4>2. t = Marker
        BY <4>1, TextLines
      <4>3. t.key = "[PACKET]"
        <5>1. Marker.key = "[PACKET]"
          BY DEF Marker, Line
        <5> QED
          BY <4>2, <5>1
      <4> QED
        BY <2>1, <4>3 DEF NumberKeys
    <3>8. r = 0 \/ r = 1 \/ r = 2 \/ r = 3
      BY <3>1
    <3> QED
      BY <3>4, <3>5, <3>6, <3>7, <3>8
  <2> QED
    BY <1>1, <2>2, <2>3, <2>4
<1> QED
  BY <1>2, <1>3, <1>4

(* What a cut leaves: the first lines, the last of which may be torn.      *)
CutAfter(lines, t) ==
  /\ lines \in Seq(FileLine) /\ Len(lines) \in 0..Len(t)
  /\ \A k \in 1..Len(lines) - 1 : lines[k] = t[k]
  /\ Len(lines) > 0 => lines[Len(lines)] \in Torn(t[Len(lines)])

(* A cut is all of the first lines and perhaps the next one, torn.         *)
LEMMA CutLines ==
  ASSUME NEW t \in Seq(FileLine), NEW lines
  PROVE  lines \in Cuts(t) <=> CutAfter(lines, t)
<1> DEFINE n == Len(lines)
<1>1. ASSUME lines \in Cuts(t) PROVE CutAfter(lines, t)
  <2>1. PICK k \in 0..Len(t) :
          \/ lines = SubSeq(t, 1, k)
          \/ k < Len(t) /\ \E l \in Torn(t[k + 1]) : lines = Append(SubSeq(t, 1, k), l)
    BY <1>1 DEF Cuts
  <2>2. /\ SubSeq(t, 1, k) \in Seq(FileLine) /\ Len(SubSeq(t, 1, k)) = k
        /\ \A i \in 1..k : SubSeq(t, 1, k)[i] = t[i]
    OBVIOUS
  <2>3. CASE lines = SubSeq(t, 1, k)
    <3>1. n > 0 => lines[n] = t[n] /\ t[n] \in FileLine
      BY <2>2, <2>3
    <3> QED
      BY <2>2, <2>3, <3>1, TornLines DEF CutAfter
  <2>4. CASE k < Len(t) /\ \E l \in Torn(t[k + 1]) : lines = Append(SubSeq(t, 1, k), l)
    <3>1. PICK l \in Torn(t[k + 1]) : lines = Append(SubSeq(t, 1, k), l)
      BY <2>4
    <3>2. k + 1 \in 1..Len(t) /\ t[k + 1] \in FileLine
      BY <2>4
    <3>3. l \in FileLine
      BY <3>1, <3>2, TornLines
    <3>4. /\ lines \in Seq(FileLine) /\ n = k + 1 /\ lines[k + 1] = l
          /\ \A i \in 1..k : lines[i] = t[i]
      BY <2>2, <3>1, <3>3
    <3> QED
      BY <3>1, <3>2, <3>4 DEF CutAfter
  <2> QED
    BY <2>1, <2>3, <2>4
<1>2. ASSUME CutAfter(lines, t) PROVE lines \in Cuts(t)
  <2>1. /\ lines \in Seq(FileLine) /\ n \in 0..Len(t)
        /\ \A k \in 1..n - 1 : lines[k] = t[k]
        /\ n > 0 => lines[n] \in Torn(t[n])
    BY <1>2 DEF CutAfter
  <2>2. CASE n = 0
    <3>1. lines = SubSeq(t, 1, 0) /\ 0 \in 0..Len(t)
      BY <2>1, <2>2
    <3> QED
      BY <3>1 DEF Cuts
  <2>3. CASE n > 0
    <3> DEFINE k == n - 1
    <3>1. k \in 0..Len(t) /\ k < Len(t) /\ k + 1 = n
      BY <2>1, <2>3
    <3>2. lines = Append(SubSeq(t, 1, k), lines[n])
      BY <2>1, <3>1
    <3>3. lines[n] \in Torn(t[k + 1])
      BY <2>1, <2>3, <3>1
    <3> HIDE DEF k
    <3> QED
      BY <3>1, <3>2, <3>3 DEF Cuts
  <2> QED
    BY <2>1, <2>2, <2>3
<1> QED
  BY <1>1, <1>2

(* What is cut of the rest of a text completes what is there to a cut.     *)
LEMMA CutsOfRest ==
  ASSUME NEW a \in Seq(FileLine), NEW b \in Seq(FileLine), NEW part \in Cuts(b)
  PROVE  a \o part \in Cuts(a \o b)
<1>1. CutAfter(part, b)
  BY CutLines
<1>2. a \o b \in Seq(FileLine) /\ Len(a \o b) = Len(a) + Len(b)
  OBVIOUS
<1>3. part \in Seq(FileLine) /\ Len(part) \in 0..Len(b)
  BY <1>1 DEF CutAfter
<1>4. CASE Len(part) = 0
  <2>1. a \o part = a
    BY <1>3, <1>4
  <2>2. Len(a) > 0 => a[Len(a)] = (a \o b)[Len(a)] /\ a[Len(a)] \in FileLine
    OBVIOUS
  <2>3. \A k \in 1..Len(a) - 1 : a[k] = (a \o b)[k]
    OBVIOUS
  <2>4. CutAfter(a, a \o b)
    BY <1>2, <2>2, <2>3, TornLines DEF CutAfter
  <2> QED
    BY <1>2, <2>1, <2>4, CutLines
<1>5. CASE Len(part) > 0
  <2> DEFINE c == a \o part
             n == Len(part)
  <2>1. /\ c \in Seq(FileLine) /\ Len(c) = Len(a) + n /\ Len(c) \in 0..Len(a \o b)
        /\ Len(c) > 0
    BY <1>2, <1>3, <1>5
  <2>2. c[Len(c)] = part[n] /\ (a \o b)[Len(c)] = b[n]
    BY <1>3, <1>5
  <2>3. part[n] \in Torn(b[n])
    BY <1>1, <1>5 DEF CutAfter
  <2>4. ASSUME NEW k \in 1..Len(c) - 1 PROVE c[k] = (a \o b)[k]
    <3>1. \A i \in 1..n - 1 : part[i] = b[i]
      BY <1>1 DEF CutAfter
    <3>2. CASE k <= Len(a)
      BY <1>3, <2>1, <3>2
    <3>3. CASE k > Len(a)
      <4>1. k - Len(a) \in 1..n - 1
        BY <1>3, <2>1, <3>3
      <4>2. c[k] = part[k - Len(a)] /\ (a \o b)[k] = b[k - Len(a)]
        BY <1>3, <2>1, <3>3, <4>1
      <4> QED
        BY <3>1, <4>1, <4>2
    <3> QED
      BY <1>3, <2>1, <3>2, <3>3
  <2>5. CutAfter(c, a \o b)
    <3> HIDE DEF c, n
    <3> QED
      BY <2>1, <2>2, <2>3, <2>4 DEF CutAfter
  <2> QED
    BY <1>2, <2>5, CutLines
<1> QED
  BY <1>3, <1>4, <1>5

(* The loop over a whole number of the lines of a text.                    *)
LEMMA ReadsText ==
  ASSUME NEW ps, IsCapture(ps), NEW lines, NEW n \in 0..3 + 4 * Len(ps), NEW read,
         read[0] = NothingRead,
         \A k \in 1..n : read[k] = readLine(read[k - 1], lines[k]),
         \A k \in 1..n : lines[k] = Text(ps)[k]
  PROVE  HasRead(read[n], ps, n)
<1> DEFINE T == {k \in 0..n : HasRead(read[k], ps, k)}
<1>1. n \in Nat
  BY DEF IsCapture
<1>2. 0 \in T
  BY <1>1, NothingReadYet
<1>3. ASSUME NEW k \in 1..n, k - 1 \in T PROVE k \in T
  <2>1. k \in 0..n /\ k - 1 \in 0..2 + 4 * Len(ps) /\ (k - 1) + 1 = k
    BY DEF IsCapture
  <2>2. HasRead(readLine(read[k - 1], Text(ps)[(k - 1) + 1]), ps, (k - 1) + 1)
    BY <1>3, <2>1, ReadStep
  <2>3. read[k] = readLine(read[k - 1], Text(ps)[k])
    OBVIOUS
  <2> QED
    BY <2>1, <2>2, <2>3
<1>4. \A k \in 0..n : k \in T
  <2> HIDE DEF T
  <2> QED
    BY <1>1, <1>2, <1>3, Lines!UpTo
<1> QED
  BY <1>1, <1>4

(* The loop over a text cut anywhere.                                      *)
LEMMA ReadsCut ==
  ASSUME NEW ps, IsCapture(ps), NEW lines \in Cuts(Text(ps))
  PROVE  ReadsPrefix(readLines(lines), ps)
<1> DEFINE n == Len(lines)
<1>1. Text(ps) \in Seq(FileLine) /\ Len(Text(ps)) = 3 + 4 * Len(ps) /\ Len(ps) \in Nat
  BY TextLines DEF IsCapture
<1>2. CutAfter(lines, Text(ps))
  BY <1>1, CutLines
<1>3. /\ n \in 0..3 + 4 * Len(ps)
      /\ \A k \in 1..n - 1 : lines[k] = Text(ps)[k]
      /\ n > 0 => lines[n] \in Torn(Text(ps)[n])
  BY <1>1, <1>2 DEF CutAfter
<1>4. PICK read : /\ read[0] = NothingRead
                  /\ \A k \in 1..n : read[k] = readLine(read[k - 1], lines[k])
                  /\ readLines(lines) = read[n]
  BY <1>1, <1>3, ReadLoop
<1> HIDE DEF n
<1>5. CASE n = 0
  BY <1>4, <1>5 DEF ReadsPrefix, NothingRead
<1>6. CASE n > 0
  <2>1. n - 1 \in 0..2 + 4 * Len(ps) /\ n - 1 \in 0..3 + 4 * Len(ps) /\ (n - 1) + 1 = n
    BY <1>1, <1>3, <1>6
  <2>2. \A k \in 1..n - 1 : read[k] = readLine(read[k - 1], lines[k])
    BY <1>3, <1>4
  <2>3. HasRead(read[n - 1], ps, n - 1)
    BY <1>3, <1>4, <2>1, <2>2, ReadsText
  <2>4. lines[n] \in Torn(Text(ps)[(n - 1) + 1])
    BY <1>3, <1>6, <2>1
  <2>5. ReadsPrefix(readLine(read[n - 1], lines[n]), ps)
    BY <2>1, <2>3, <2>4, TornStep
  <2> QED
    BY <1>3, <1>4, <1>6, <2>5
<1> QED
  BY <1>3, <1>5, <1>6

-----------------------------------------------------------------------------
(* The inductive invariant: every file is its capture's text, cut; and of  *)
(* the one being written, what is on the disk and what is still in the     *)
(* stream make up the text, unless the stream has gone bad.                *)
FilesAreCuts == \A f \in DOMAIN disk : disk[f] \in Cuts(Text(saved[f]))

StreamInv ==
  /\ filePc # "prompt" =>
       /\ name \in CaptureNames /\ name \in DOMAIN disk
       /\ pending \in Seq(FileLine)
       /\ IF bad THEN pending = <<>> ELSE disk[name] \o pending = Text(saved[name])
  /\ filePc = "prompt" => pending = <<>> /\ ~bad
  /\ filePc = "writing" => name \notin reported
  /\ filePc = "closing" /\ name \in reported => ~bad /\ Len(pending) <= BufferLines

FileControl ==
  /\ saved \in [Names -> Captures]
  /\ DOMAIN disk \subseteq Names
  /\ reported \subseteq CaptureNames \cap DOMAIN disk
  /\ filePc \in {"prompt", "writing", "closing"}
  /\ name \in Names
  /\ bad \in BOOLEAN

FileInv == FileControl /\ FilesAreCuts /\ StreamInv /\ LossIsOneBuffer

(* The captures of the model are packets numbered from 1.                  *)
LEMMA CapturesAreCaptures ==
  /\ <<>> \in Captures
  /\ \A ps \in Captures : IsCapture(ps) /\ Len(ps) <= PacketBound
<1> DEFINE Data == [protocol : Protocols, length : Lengths]
           Numbered(n, d) ==
             [i \in 1..n |-> [id |-> i, protocol |-> d[i].protocol, length |-> d[i].length]]
<1>0. PacketBound \in Nat /\ Lengths \subseteq Nat
  BY FileAssumption
<1>1. \A ps : ps \in Captures <=>
        \E n \in 0..PacketBound : \E d \in [1..n -> Data] : ps = Numbered(n, d)
  <2> DEFINE OfLength(n) == {Numbered(n, d) : d \in [1..n -> Data]}
  <2>1. Captures = UNION {OfLength(n) : n \in 0..PacketBound}
    BY DEF Captures
  <2>2. \A n, ps : ps \in OfLength(n) <=> \E d \in [1..n -> Data] : ps = Numbered(n, d)
    <3> HIDE DEF Numbered, Data
    <3> QED
      OBVIOUS
  <2> HIDE DEF OfLength, Numbered, Data
  <2>3. \A ps : ps \in Captures <=> \E n \in 0..PacketBound : ps \in OfLength(n)
    BY <2>1
  <2> QED
    BY <2>2, <2>3
<1>2. ASSUME NEW n \in 0..PacketBound, NEW d \in [1..n -> Data]
      PROVE  IsCapture(Numbered(n, d)) /\ Len(Numbered(n, d)) <= PacketBound
  <2> DEFINE ps == Numbered(n, d)
  <2>1. ASSUME NEW i \in 1..n PROVE ps[i] \in Entry /\ ps[i].id = i
    <3>1. d[i] \in Data
      OBVIOUS
    <3>2. d[i].protocol \in Protocols /\ d[i].length \in Nat
      BY <3>1, <1>0
    <3>3. ps[i] = [id |-> i, protocol |-> d[i].protocol, length |-> d[i].length]
      OBVIOUS
    <3>4. i \in Nat
      BY <1>0
    <3> HIDE DEF ps
    <3> QED
      BY <3>2, <3>3, <3>4 DEF Entry
  <2>2. DOMAIN ps = 1..n /\ n \in Nat /\ ps = [i \in 1..n |-> ps[i]]
    BY <1>0
  <2> HIDE DEF ps
  <2>3. ps \in Seq(Entry) /\ Len(ps) = n
    BY <2>1, <2>2
  <2> QED
    BY <1>0, <2>1, <2>3 DEF IsCapture, ps
<1>3. <<>> \in Captures
  <2>1. 0 \in 0..PacketBound
    BY <1>0
  <2>2. \E d : d \in [1..0 -> Data]
    <3>1. [i \in 1..0 |-> CHOOSE x \in Data : TRUE] \in [1..0 -> Data]
      OBVIOUS
    <3> QED
      BY <3>1
  <2>3. PICK d \in [1..0 -> Data] : TRUE
    BY <2>2
  <2>4. Numbered(0, d) = <<>>
    OBVIOUS
  <2> QED
    BY <1>1, <2>1, <2>3, <2>4
<1> HIDE DEF Numbered
<1> QED
  BY <1>1, <1>2, <1>3

LEMMA SavedText ==
  ASSUME FileControl, NEW f \in Names
  PROVE  /\ IsCapture(saved[f]) /\ Text(saved[f]) \in Seq(FileLine)
         /\ Len(saved[f]) \in 0..PacketBound
         /\ Len(Text(saved[f])) = 3 + 4 * Len(saved[f])
<1>1. IsCapture(saved[f]) /\ Len(saved[f]) <= PacketBound
  BY CapturesAreCaptures DEF FileControl
<1> QED
  BY <1>1, TextLines DEF IsCapture

LEMMA FileInitInv == FileInit => FileInv
<1> SUFFICES ASSUME FileInit PROVE FileInv
  OBVIOUS
<1>1. DOMAIN disk = {}
  BY DEF FileInit
<1>2. FileControl
  BY <1>1, CapturesAreCaptures DEF FileInit, FileControl, Names
<1> QED
  BY <1>1, <1>2 DEF FileInit, FileInv, FilesAreCuts, StreamInv, LossIsOneBuffer

(* What a step that writes to the file being written keeps.                *)
LEMMA WrittenKeeps ==
  ASSUME FileInv, NEW part, filePc # "prompt", disk' = Written(part),
         saved' = saved, disk[name] \o part \in Cuts(Text(saved[name]))
  PROVE  /\ DOMAIN disk' = DOMAIN disk
         /\ disk'[name] = disk[name] \o part
         /\ \A f \in DOMAIN disk \ {name} : disk'[f] = disk[f]
         /\ FilesAreCuts'
<1>1. name \in DOMAIN disk
  BY DEF FileInv, StreamInv
<1>2. DOMAIN disk' = DOMAIN disk
  BY <1>1 DEF Written, With
<1>3. \A f \in DOMAIN disk : disk'[f] = IF f = name THEN disk[name] \o part ELSE disk[f]
  BY <1>1 DEF Written, With
<1>4. FilesAreCuts'
  BY <1>2, <1>3 DEF FileInv, FilesAreCuts
<1> QED
  BY <1>1, <1>2, <1>3, <1>4

(* A cut of what is still in the stream completes a cut of the text.       *)
LEMMA RestIsCut ==
  ASSUME FileInv, filePc # "prompt", NEW part \in Cuts(pending)
  PROVE  /\ disk[name] \o part \in Cuts(Text(saved[name]))
         /\ bad => disk[name] \o part = disk[name]
         /\ disk[name] \in Seq(FileLine) /\ part \in Seq(FileLine)
<1>1. /\ name \in Names /\ name \in DOMAIN disk /\ pending \in Seq(FileLine)
      /\ IF bad THEN pending = <<>> ELSE disk[name] \o pending = Text(saved[name])
  BY DEF FileInv, StreamInv, Names
<1>2. Text(saved[name]) \in Seq(FileLine) /\ disk[name] \in Cuts(Text(saved[name]))
  BY <1>1, SavedText DEF FileInv, FilesAreCuts
<1>3. disk[name] \in Seq(FileLine)
  BY <1>2, CutLines DEF CutAfter
<1>4. CutAfter(part, pending)
  BY <1>1, CutLines
<1>5. CASE bad
  <2>1. part \in Seq(FileLine) /\ Len(part) = 0
    BY <1>1, <1>4, <1>5 DEF CutAfter
  <2>2. disk[name] \o part = disk[name]
    BY <1>3, <2>1
  <2> QED
    BY <1>2, <1>3, <2>1, <2>2
<1>6. CASE ~bad
  <2>1. disk[name] \o part \in Cuts(disk[name] \o pending)
    BY <1>1, <1>3, CutsOfRest
  <2> QED
    BY <1>1, <1>3, <1>4, <1>6, <2>1 DEF CutAfter
<1> QED
  BY <1>5, <1>6 DEF FileInv, FileControl

(* That a file lacks at most a buffer of its text.                         *)
LacksABuffer(f) ==
  \E k \in 0..BufferLines :
    IsPrefix(SubSeq(Text(saved[f]), 1, Len(Text(saved[f])) - k), disk[f])

(* One lemma for each action: it keeps the invariant.                      *)
LEMMA OpenInv ==
  ASSUME FileInv, NEW f \in CaptureNames, NEW ps \in Captures, Open(f, ps)
  PROVE  FileInv'
<1>1. /\ filePc = "prompt" /\ filePc' = "writing" /\ name' = f
      /\ disk' = With(f, <<>>)
      /\ pending' = Text(ps)
      /\ saved' = [saved EXCEPT ![f] = ps] /\ reported' = reported \ {f}
      /\ bad' = bad
  BY DEF Open
<1>2. f \in Names /\ saved \in [Names -> Captures]
  BY DEF Names, FileInv, FileControl
<1>3. /\ saved' \in [Names -> Captures] /\ saved'[f] = ps
      /\ \A g \in Names \ {f} : saved'[g] = saved[g]
  BY <1>1, <1>2
<1>4. /\ DOMAIN disk' = DOMAIN disk \cup {f}
      /\ disk'[f] = <<>>
      /\ \A g \in DOMAIN disk \ {f} : disk'[g] = disk[g]
  BY <1>1 DEF With
<1>5. Text(ps) \in Seq(FileLine)
  BY CapturesAreCaptures, TextLines
<1>6. <<>> \in Cuts(Text(ps)) /\ <<>> \o Text(ps) = Text(ps)
  <2>1. CutAfter(<<>>, Text(ps))
    BY <1>5 DEF CutAfter
  <2> QED
    BY <1>5, <2>1, CutLines
<1>7. FileControl'
  BY <1>1, <1>2, <1>3, <1>4 DEF FileInv, FileControl
<1>8. FilesAreCuts'
  BY <1>3, <1>4, <1>6 DEF FileInv, FileControl, FilesAreCuts
<1>9. StreamInv'
  BY <1>1, <1>3, <1>4, <1>5, <1>6 DEF FileInv, StreamInv
<1>10. LossIsOneBuffer'
  <2>1. ASSUME NEW g \in reported', g # f PROVE LacksABuffer(g)'
    <3>1. g \in reported /\ g \in DOMAIN disk /\ g \in Names
      BY <1>1, <2>1 DEF FileInv, FileControl
    <3>2. LacksABuffer(g)
      BY <1>1, <3>1 DEF FileInv, LossIsOneBuffer, LacksABuffer
    <3>3. saved'[g] = saved[g] /\ disk'[g] = disk[g]
      BY <1>3, <1>4, <2>1, <3>1
    <3> QED
      BY <3>2, <3>3 DEF LacksABuffer
  <2> QED
    BY <1>1, <2>1 DEF LossIsOneBuffer, LacksABuffer
<1> QED
  BY <1>7, <1>8, <1>9, <1>10 DEF FileInv

(* A step that changes no other file and no report of one keeps what is    *)
(* said of the others.                                                     *)
LEMMA OthersKeepTheirLoss ==
  ASSUME FileInv, NEW g \in reported, filePc = "prompt" \/ g # name,
         saved'[g] = saved[g], disk'[g] = disk[g]
  PROVE  LacksABuffer(g)'
<1>1. LacksABuffer(g)
  BY DEF FileInv, LossIsOneBuffer, LacksABuffer
<1> QED
  BY <1>1 DEF LacksABuffer

LEMMA FlushInv ==
  ASSUME FileInv, Flush
  PROVE  FileInv'
<1>1. PICK k \in 1..Len(pending) :
        /\ disk' = Written(SubSeq(pending, 1, k))
        /\ pending' = SubSeq(pending, k + 1, Len(pending))
  BY DEF Flush
<1>2. /\ filePc = "writing" /\ ~bad
      /\ UNCHANGED <<saved, reported, filePc, name, bad>>
  BY DEF Flush
<1> DEFINE part == SubSeq(pending, 1, k)
           rest == SubSeq(pending, k + 1, Len(pending))
<1>3. /\ name \in Names /\ pending \in Seq(FileLine)
      /\ disk[name] \o pending = Text(saved[name])
  BY <1>2 DEF FileInv, StreamInv, Names
<1>4. part \in Cuts(pending)
  <2>1. k \in 0..Len(pending)
    OBVIOUS
  <2> QED
    BY <2>1 DEF Cuts
<1>5. /\ disk[name] \o part \in Cuts(Text(saved[name]))
      /\ disk[name] \in Seq(FileLine) /\ part \in Seq(FileLine)
  BY <1>2, <1>4, RestIsCut
<1>6. rest \in Seq(FileLine) /\ part \o rest = pending
  BY <1>3
<1>7. (disk[name] \o part) \o rest = disk[name] \o (part \o rest)
  <2>1. ASSUME NEW a \in Seq(FileLine), NEW b \in Seq(FileLine), NEW c \in Seq(FileLine)
        PROVE  (a \o b) \o c = a \o (b \o c)
    OBVIOUS
  <2> HIDE DEF part, rest
  <2> QED
    BY <1>5, <1>6, <2>1
<1> HIDE DEF part, rest
<1>8. /\ DOMAIN disk' = DOMAIN disk
      /\ disk'[name] = disk[name] \o part
      /\ \A f \in DOMAIN disk \ {name} : disk'[f] = disk[f]
      /\ FilesAreCuts'
  BY <1>1, <1>2, <1>5, WrittenKeeps DEF part
<1>9. FileControl'
  BY <1>2, <1>8 DEF FileInv, FileControl
<1>10. StreamInv'
  BY <1>1, <1>2, <1>3, <1>6, <1>7, <1>8 DEF FileInv, StreamInv, rest
<1>11. LossIsOneBuffer'
  <2>1. ASSUME NEW g \in reported', g # name PROVE LacksABuffer(g)'
    BY <1>2, <1>8, <2>1, OthersKeepTheirLoss DEF FileInv, FileControl
  <2> QED
    BY <1>2, <2>1 DEF LossIsOneBuffer, LacksABuffer
<1> QED
  BY <1>8, <1>9, <1>10, <1>11 DEF FileInv

(* The steps after which nothing is left in the stream.                    *)
LEMMA FlushFailsInv ==
  ASSUME FileInv, FlushFails
  PROVE  FileInv'
<1>1. PICK part \in Cuts(pending) : disk' = Written(part)
  BY DEF FlushFails
<1>2. /\ filePc = "writing" /\ pending' = <<>> /\ bad' = TRUE
      /\ UNCHANGED <<saved, reported, filePc, name>>
  BY DEF FlushFails
<1>3. disk[name] \o part \in Cuts(Text(saved[name]))
  BY <1>2, RestIsCut
<1>4. /\ DOMAIN disk' = DOMAIN disk
      /\ \A f \in DOMAIN disk \ {name} : disk'[f] = disk[f]
      /\ FilesAreCuts'
  BY <1>1, <1>2, <1>3, WrittenKeeps
<1>5. FileControl'
  BY <1>2, <1>4 DEF FileInv, FileControl
<1>6. StreamInv'
  BY <1>2, <1>4 DEF FileInv, StreamInv
<1>7. LossIsOneBuffer'
  <2>1. ASSUME NEW g \in reported', g # name PROVE LacksABuffer(g)'
    BY <1>2, <1>4, <2>1, OthersKeepTheirLoss DEF FileInv, FileControl
  <2> QED
    BY <1>2, <2>1 DEF LossIsOneBuffer, LacksABuffer
<1> QED
  BY <1>4, <1>5, <1>6, <1>7 DEF FileInv

LEMMA CheckInv ==
  ASSUME FileInv, Check
  PROVE  FileInv'
<1>1. /\ filePc = "writing" /\ Len(pending) <= BufferLines
      /\ filePc' = "closing"
      /\ reported' = IF bad THEN reported ELSE reported \cup {name}
      /\ UNCHANGED <<disk, saved, name, pending, bad>>
  BY DEF Check
<1>2. FileControl'
  BY <1>1 DEF FileInv, FileControl, StreamInv
<1>3. FilesAreCuts'
  BY <1>1 DEF FileInv, FilesAreCuts
<1>4. StreamInv'
  BY <1>1 DEF FileInv, StreamInv
<1>5. LossIsOneBuffer'
  <2>1. ASSUME NEW g \in reported', g # name PROVE LacksABuffer(g)'
    BY <1>1, <2>1, OthersKeepTheirLoss
  <2> QED
    BY <1>1, <2>1 DEF LossIsOneBuffer, LacksABuffer
<1> QED
  BY <1>2, <1>3, <1>4, <1>5 DEF FileInv

(* The rest of a stream without an error is at most a buffer.              *)
LEMMA CloseStreamInv ==
  ASSUME FileInv, CloseStream
  PROVE  FileInv'
<1>1. PICK part \in Cuts(pending) : disk' = Written(part)
  BY DEF CloseStream
<1>2. /\ filePc = "closing" /\ filePc' = "prompt" /\ pending' = <<>> /\ bad' = FALSE
      /\ UNCHANGED <<saved, reported, name>>
  BY DEF CloseStream
<1>3. /\ disk[name] \o part \in Cuts(Text(saved[name]))
      /\ disk[name] \in Seq(FileLine) /\ part \in Seq(FileLine)
  BY <1>2, RestIsCut
<1>4. /\ DOMAIN disk' = DOMAIN disk
      /\ disk'[name] = disk[name] \o part
      /\ \A f \in DOMAIN disk \ {name} : disk'[f] = disk[f]
      /\ FilesAreCuts'
  BY <1>1, <1>2, <1>3, WrittenKeeps
<1>5. FileControl'
  BY <1>2, <1>4 DEF FileInv, FileControl
<1>6. StreamInv'
  BY <1>2 DEF StreamInv
<1>7. ASSUME name \in reported PROVE LacksABuffer(name)'
  <2> DEFINE t == Text(saved[name])
             k == Len(pending)
  <2>1. /\ disk[name] \o pending = t
        /\ k \in 0..BufferLines
        /\ pending \in Seq(FileLine)
    <3>1. ~bad /\ k <= BufferLines /\ pending \in Seq(FileLine)
      BY <1>2, <1>7 DEF FileInv, StreamInv
    <3>2. BufferLines \in Nat
      BY FileAssumption
    <3>3. disk[name] \o pending = t
      BY <1>2, <3>1 DEF FileInv, StreamInv
    <3> QED
      BY <3>1, <3>2, <3>3
  <2>2. \A a \in Seq(FileLine), b \in Seq(FileLine), c \in Seq(FileLine) :
          IsPrefix(SubSeq(a \o b, 1, Len(a \o b) - Len(b)), a \o c)
    <3>1. SUFFICES ASSUME NEW a \in Seq(FileLine), NEW b \in Seq(FileLine),
                          NEW c \in Seq(FileLine)
                   PROVE  IsPrefix(SubSeq(a \o b, 1, Len(a \o b) - Len(b)), a \o c)
      OBVIOUS
    <3>2. Len(a \o b) - Len(b) = Len(a)
      OBVIOUS
    <3>3. SubSeq(a \o b, 1, Len(a)) = a
      OBVIOUS
    <3>4. SubSeq(a, 1, Len(a)) = a /\ SubSeq(a \o c, 1, Len(a)) = a /\ Len(a) <= Len(a \o c)
      OBVIOUS
    <3> QED
      BY <3>2, <3>3, <3>4 DEF IsPrefix
  <2>3. IsPrefix(SubSeq(t, 1, Len(t) - k), disk[name] \o part)
    BY <1>3, <2>1, <2>2
  <2> QED
    BY <1>2, <1>4, <2>1, <2>3 DEF LacksABuffer
<1>8. LossIsOneBuffer'
  <2>1. ASSUME NEW g \in reported', g # name PROVE LacksABuffer(g)'
    BY <1>2, <1>4, <2>1, OthersKeepTheirLoss DEF FileInv, FileControl
  <2> QED
    BY <1>2, <1>7, <2>1 DEF LossIsOneBuffer, LacksABuffer
<1> QED
  BY <1>4, <1>5, <1>6, <1>8 DEF FileInv

LEMMA CrashInv ==
  ASSUME FileInv, Crash
  PROVE  FileInv'
<1>1. PICK part \in Cuts(pending) : disk' = Written(IF bad THEN <<>> ELSE part)
  BY DEF Crash
<1>2. /\ filePc # "prompt" /\ filePc' = "prompt" /\ pending' = <<>> /\ bad' = FALSE
      /\ reported' = reported \ {name}
      /\ UNCHANGED <<saved, name>>
  BY DEF Crash
<1> DEFINE rest == IF bad THEN <<>> ELSE part
<1>3. disk[name] \o rest \in Cuts(Text(saved[name]))
  <2>1. CASE bad
    <3>1. disk[name] \in Seq(FileLine) /\ disk[name] \in Cuts(Text(saved[name]))
      BY <1>2, RestIsCut DEF FileInv, FilesAreCuts, StreamInv
    <3>2. disk[name] \o <<>> = disk[name]
      BY <3>1
    <3> QED
      BY <2>1, <3>1, <3>2
  <2>2. CASE ~bad
    BY <1>2, <2>2, RestIsCut
  <2> QED
    BY <2>1, <2>2
<1> HIDE DEF rest
<1>4. /\ DOMAIN disk' = DOMAIN disk
      /\ \A f \in DOMAIN disk \ {name} : disk'[f] = disk[f]
      /\ FilesAreCuts'
  BY <1>1, <1>2, <1>3, WrittenKeeps DEF rest
<1>5. FileControl'
  BY <1>2, <1>4 DEF FileInv, FileControl
<1>6. StreamInv'
  BY <1>2 DEF StreamInv
<1>7. LossIsOneBuffer'
  <2>1. ASSUME NEW g \in reported' PROVE LacksABuffer(g)'
    BY <1>2, <1>4, <2>1, OthersKeepTheirLoss DEF FileInv, FileControl
  <2> QED
    BY <2>1 DEF LossIsOneBuffer, LacksABuffer
<1> QED
  BY <1>4, <1>5, <1>6, <1>7 DEF FileInv

LEMMA UserCopiesInv ==
  ASSUME FileInv, NEW f \in CaptureNames, UserCopies(f)
  PROVE  FileInv'
<1>1. /\ filePc = "prompt" /\ f \in DOMAIN disk
      /\ disk' = With(LastCapture, disk[f])
      /\ saved' = [saved EXCEPT ![LastCapture] = saved[f]]
      /\ UNCHANGED <<reported, filePc, name, pending, bad>>
  BY DEF UserCopies
<1>2. /\ LastCapture \in Names /\ f \in Names
      /\ saved \in [Names -> Captures]
      /\ LastCapture \notin reported
  BY FileAssumption DEF Names, FileInv, FileControl
<1>3. /\ saved' \in [Names -> Captures] /\ saved'[LastCapture] = saved[f]
      /\ \A g \in Names \ {LastCapture} : saved'[g] = saved[g]
  BY <1>1, <1>2
<1>4. /\ DOMAIN disk' = DOMAIN disk \cup {LastCapture}
      /\ disk'[LastCapture] = disk[f]
      /\ \A g \in DOMAIN disk \ {LastCapture} : disk'[g] = disk[g]
  BY <1>1 DEF With
<1>5. FileControl'
  BY <1>1, <1>2, <1>3, <1>4 DEF FileInv, FileControl
<1>6. FilesAreCuts'
  BY <1>1, <1>3, <1>4 DEF FileInv, FileControl, FilesAreCuts
<1>7. StreamInv'
  BY <1>1 DEF FileInv, StreamInv
<1>8. LossIsOneBuffer'
  <2>1. ASSUME NEW g \in reported' PROVE LacksABuffer(g)'
    BY <1>1, <1>2, <1>3, <1>4, <2>1, OthersKeepTheirLoss DEF FileInv, FileControl
  <2> QED
    BY <2>1 DEF LossIsOneBuffer, LacksABuffer
<1> QED
  BY <1>5, <1>6, <1>7, <1>8 DEF FileInv

LEMMA FileNextInv == FileInv /\ [FileNext]_fileVars => FileInv'
<1>1. FileInv /\ UNCHANGED fileVars => FileInv'
  BY DEF FileInv, fileVars, FileControl, FilesAreCuts, StreamInv, LossIsOneBuffer
<1> QED
  BY <1>1, OpenInv, FlushInv, FlushFailsInv, CheckInv, CloseStreamInv, CrashInv,
     UserCopiesInv DEF FileNext

LEMMA FileInvariant == FileSpec => []FileInv
  BY FileInitInv, FileNextInv, PTL DEF FileSpec

-----------------------------------------------------------------------------
(* What the invariant says of a reader.                                    *)

(* The packets loadCapture returns.                                        *)
Loaded(c) == IF c.insidePacket THEN Append(c.packets, c.current) ELSE c.packets

LEMMA LoadedPackets ==
  ASSUME NEW lines
  PROVE  loadCapture(lines).packets = Loaded(readLines(lines))
  BY DEF loadCapture, Loaded

(* The first packets of ps, the last of them partial.                      *)
IsPrefixOf(read, ps) ==
  /\ Len(read) \in 0..Len(ps)
  /\ \A i \in 1..Len(read) - 1 : read[i] = ps[i]
  /\ IF read = <<>> THEN Len(read) = 0
                     ELSE Len(read) > 0 /\ Partial(read[Len(read)], ps[Len(read)])

(* What a reader is given of such a file are the first packets of it.      *)
LEMMA LoadedPrefix ==
  ASSUME NEW ps, IsCapture(ps), NEW c, ReadsPrefix(c, ps)
  PROVE  IsPrefixOf(Loaded(c), ps)
<1>0. ps \in Seq(Entry) /\ Len(ps) \in Nat
  BY DEF IsCapture
<1>1. CASE ~c.insidePacket /\ c.packets = <<>>
  <2>1. Loaded(c) = <<>>
    BY <1>1 DEF Loaded
  <2>2. Len(Loaded(c)) = 0
    BY <2>1
  <2> QED
    BY <1>0, <2>1, <2>2 DEF IsPrefixOf
<1>2. ASSUME NEW m \in 1..Len(ps), NEW p, InPacket(c, ps, m, p), Partial(p, ps[m])
      PROVE  IsPrefixOf(Loaded(c), ps)
  <2>1. Loaded(c) = Append(SubSeq(ps, 1, m - 1), p)
    BY <1>2 DEF Loaded, InPacket
  <2> DEFINE S == Entry \cup {p}
             a == SubSeq(ps, 1, m - 1)
  <2>2. a \in Seq(Entry) /\ Len(a) = m - 1 /\ \A i \in 1..m - 1 : a[i] = ps[i]
    BY <1>0
  <2>3. a \in Seq(S) /\ p \in S
    BY <2>2
  <2> HIDE DEF S, a
  <2>4. Len(Append(a, p)) = m /\ Append(a, p)[m] = p /\ Append(a, p) # <<>>
    BY <2>2, <2>3
  <2>5. \A i \in 1..m - 1 : Append(a, p)[i] = ps[i]
    BY <2>2, <2>3
  <2>6. Loaded(c) = Append(a, p)
    BY <2>1 DEF a
  <2>7. m \in 0..Len(ps)
    BY <1>0
  <2> QED
    BY <1>2, <2>4, <2>5, <2>6, <2>7 DEF IsPrefixOf
<1> QED
  BY <1>1, <1>2 DEF ReadsPrefix

LEMMA FilePrefix ==
  ASSUME FileInv, NEW f \in DOMAIN disk
  PROVE  /\ IsPrefixOf(loadCapture(disk[f]).packets, saved[f])
         /\ IsCapture(saved[f]) /\ Len(saved[f]) \in 0..PacketBound
<1>1. f \in Names /\ disk[f] \in Cuts(Text(saved[f]))
  BY DEF FileInv, FileControl, FilesAreCuts
<1>2. IsCapture(saved[f]) /\ Len(saved[f]) \in 0..PacketBound
  BY <1>1, SavedText DEF FileInv
<1> QED
  BY <1>1, <1>2, ReadsCut, LoadedPrefix, LoadedPackets

(* The invariant implies each of the properties.                           *)
LEMMA InvCutFileIsPrefix == FileInv => CutFileIsPrefix
<1> SUFFICES ASSUME FileInv, NEW f \in DOMAIN disk
             PROVE  LET read == loadCapture(disk[f]).packets
                    IN  /\ Len(read) <= Len(saved[f])
                        /\ \A i \in 1..Len(read) : i < Len(read) => read[i] = saved[f][i]
                        /\ read # <<>> =>
                             LET p == Last(read)  s == saved[f][Len(read)]
                             IN  /\ p.id <= s.id /\ p.length <= s.length
                                 /\ p.protocol \in {"", s.protocol}
                                 /\ p.length > 0 => p.id = s.id /\ p.protocol = s.protocol
  BY DEF CutFileIsPrefix
<1> DEFINE read == loadCapture(disk[f]).packets
           n == Len(read)
<1>1. /\ IsPrefixOf(read, saved[f])
      /\ IsCapture(saved[f]) /\ Len(saved[f]) \in 0..PacketBound
  BY FilePrefix
<1>2. /\ n \in 0..Len(saved[f])
      /\ \A i \in 1..n - 1 : read[i] = saved[f][i]
      /\ read # <<>> => n > 0 /\ Partial(read[n], saved[f][n])
  BY <1>1 DEF IsPrefixOf
<1>3. Len(saved[f]) \in Nat /\ \A i \in 1..Len(saved[f]) : saved[f][i] \in Entry
  BY <1>1 DEF IsCapture
<1> HIDE DEF read
<1>4. n <= Len(saved[f]) /\ \A i \in 1..n : i < n => read[i] = saved[f][i]
  BY <1>2, <1>3
<1>5. ASSUME read # <<>>
      PROVE  LET p == Last(read)  s == saved[f][n]
             IN  /\ p.id <= s.id /\ p.length <= s.length
                 /\ p.protocol \in {"", s.protocol}
                 /\ p.length > 0 => p.id = s.id /\ p.protocol = s.protocol
  <2> DEFINE p == read[n]
             s == saved[f][n]
  <2>1. s \in Entry /\ Partial(p, s) /\ Last(read) = p
    BY <1>2, <1>3, <1>5 DEF Last
  <2>2. s.id \in Nat /\ s.length \in Nat
    BY <2>1 DEF Entry
  <2> HIDE DEF p, s
  <2>3. /\ p.id \in 0..s.id /\ p.length \in 0..s.length
        /\ p.protocol \in {"", s.protocol}
        /\ p.length > 0 => p.id = s.id /\ p.protocol = s.protocol
    BY <2>1, Zenon DEF Partial
  <2>4. \A x, y : y \in Nat /\ x \in 0..y => x <= y
    OBVIOUS
  <2>5. p.id <= s.id /\ p.length <= s.length
    BY <2>2, <2>3, <2>4, Zenon
  <2> QED
    BY <2>1, <2>3, <2>5, Zenon DEF s
<1> QED
  BY <1>4, <1>5 DEF read

(* The ids are those of a prefix of 1, 2, ..., so the first packet with an *)
(* id is the one that was saved with it.                                   *)
LEMMA InvFoundIsSaved == FileInv => FoundIsSaved
<1> SUFFICES ASSUME FileInv, NEW f \in DOMAIN disk
             PROVE  LET capture == loadCapture(disk[f])
                        read == capture.packets
                        at(id) == findPacket(read, id)
                    IN  /\ \A id \in 1..PacketBound : at(id) \in {0, id}
                        /\ \A id \in available(capture) : at(id) # 0
  BY DEF FoundIsSaved
<1> DEFINE capture == loadCapture(disk[f])
           read == capture.packets
           n == Len(read)
           Having(id) == {i \in 1..n : read[i].id = id}
<1>1. /\ IsPrefixOf(read, saved[f])
      /\ IsCapture(saved[f]) /\ Len(saved[f]) \in 0..PacketBound
  BY FilePrefix
<1>2. /\ n \in 0..Len(saved[f])
      /\ \A i \in 1..n - 1 : read[i] = saved[f][i]
      /\ read # <<>> => n > 0 /\ Partial(read[n], saved[f][n])
      /\ read = <<>> => n = 0
  BY <1>1 DEF IsPrefixOf
<1>3. Len(saved[f]) \in Nat /\ \A i \in 1..Len(saved[f]) : saved[f][i].id = i
  BY <1>1 DEF IsCapture
<1>4. /\ \A i \in 1..n - 1 : read[i].id = i
      /\ n > 0 => read[n].id \in 0..n
  <2> HIDE DEF read
  <2>1. ASSUME NEW i \in 1..n - 1 PROVE read[i].id = i
    <3>1. i \in 1..Len(saved[f]) /\ read[i] = saved[f][i]
      BY <1>2, <1>3
    <3> QED
      BY <3>1, <1>3
  <2>2. ASSUME n > 0 PROVE read[n].id \in 0..n
    <3>1. n \in 1..Len(saved[f]) /\ Partial(read[n], saved[f][n])
      BY <1>2, <1>3, <2>2
    <3>2. saved[f][n].id = n /\ read[n].id \in 0..saved[f][n].id
      BY <3>1, <1>3 DEF Partial
    <3> QED
      BY <3>2
  <2> QED
    BY <2>1, <2>2
<1>5. \A id : findPacket(read, id) =
                IF Having(id) # {} THEN Min(Having(id)) ELSE 0
  BY DEF findPacket, SelectInSeq
<1> HIDE DEF read
<1>6. ASSUME NEW id \in Nat, Having(id) # {}, id # 0
      PROVE  Min(Having(id)) = id /\ id \in 1..n
  <2>1. \A i \in Having(id) : i \in 1..n /\ (i = id \/ (i = n /\ id < n))
    BY <1>2, <1>3, <1>4
  <2>2. PICK i \in Having(id) : TRUE
    BY <1>6
  <2>3. id \in Having(id) /\ id \in 1..n
    BY <2>1, <2>2, <1>2, <1>3, <1>4, <1>6
  <2>4. \A j \in Having(id) : id <= j
    BY <2>1, <2>3
  <2>5. \A x \in Having(id) : (\A y \in Having(id) : x <= y) => x = id
    BY <2>1, <2>3, <2>4
  <2> HIDE DEF Having
  <2> QED
    BY <2>3, <2>4, <2>5 DEF Min
<1>7. \A id \in 1..PacketBound : findPacket(read, id) \in {0, id}
  <2> HIDE DEF Having
  <2> QED
    BY <1>5, <1>6
<1>8. ASSUME NEW id \in available(capture) PROVE findPacket(read, id) # 0
  <2>1. read # <<>> /\ id \in 1..read[n].id
    BY <1>8 DEF available, Last, read
  <2>2. n > 0 /\ read[n].id \in 0..n /\ id \in 1..n /\ id \in Nat /\ id # 0
    BY <2>1, <1>2, <1>3, <1>4
  <2>3. id \in Having(id)
    BY <2>1, <2>2, <1>4
  <2> HIDE DEF Having
  <2>4. Min(Having(id)) = id
    BY <2>2, <2>3, <1>6
  <2> QED
    BY <1>5, <2>2, <2>3, <2>4
<1> QED
  BY <1>7, <1>8 DEF read

(* The loop has stored all packets but the last when the text ends.        *)
LEMMA ReadsWhole ==
  ASSUME NEW ps, IsCapture(ps)
  PROVE  LET c == readLines(Text(ps))
         IN  /\ Loaded(c) = ps
             /\ c.packetCount = IF Len(ps) = 0 THEN 0 ELSE Len(ps)
             /\ c.totalBytes = TotalBytes(ps)
<1> DEFINE n == Len(ps)
           end == 3 + 4 * n
           c == readLines(Text(ps))
<1>1. n \in Nat /\ ps \in Seq(Entry) /\ Len(Text(ps)) = end
  BY TextLines DEF IsCapture
<1>2. PICK read : /\ read[0] = NothingRead
                  /\ \A k \in 1..end : read[k] = readLine(read[k - 1], Text(ps)[k])
                  /\ c = read[end]
  <2>1. Len(Text(ps)) \in Nat
    BY <1>1
  <2>2. PICK read : /\ read[0] = NothingRead
                    /\ \A k \in 1..Len(Text(ps)) :
                         read[k] = readLine(read[k - 1], Text(ps)[k])
                    /\ readLines(Text(ps)) = read[Len(Text(ps))]
    BY <2>1, ReadLoop, Zenon
  <2>3. Len(Text(ps)) = end
    BY <1>1
  <2> HIDE DEF end
  <2> QED
    BY <2>2, <2>3, Zenon
<1>3. end \in 0..3 + 4 * Len(ps)
  BY <1>1
<1> HIDE DEF end, c
<1>4. HasRead(c, ps, end)
  BY <1>2, <1>3, ReadsText
<1>5. CASE n = 0
  <2>1. InHeader(c, 0, TotalBytes(ps))
    BY <1>4, <1>5 DEF HasRead, end
  <2>2. ps = <<>>
    BY <1>1, <1>5
  <2> QED
    BY <1>5, <2>1, <2>2 DEF InHeader, Loaded, c
<1>6. CASE n > 0
  <2>1. ~(end <= 3) /\ end \div 4 = n /\ end % 4 = 3
    BY <1>1, <1>6 DEF end
  <2>2. InPacket(c, ps, n, FirstFields(ps, n, 3))
    BY <1>4, <2>1 DEF HasRead
  <2>3. n \in 1..Len(ps)
    BY <1>1, <1>6
  <2>4. FirstFields(ps, n, 3) = ps[n]
    BY <2>3, AllFields
  <2>5. Append(SubSeq(ps, 1, n - 1), ps[n]) = ps
    BY <1>1, <1>6
  <2> QED
    BY <1>6, <2>2, <2>4, <2>5 DEF InPacket, Loaded, c
<1> QED
  BY <1>1, <1>5, <1>6 DEF c

LEMMA InvRoundTrip == FileInv => RoundTrip
<1> SUFFICES ASSUME FileInv, NEW f \in DOMAIN disk, disk[f] = Text(saved[f])
             PROVE  /\ loadCapture(disk[f]) =
                         [packets |-> saved[f], packetCount |-> Len(saved[f]),
                          totalBytes |-> TotalBytes(saved[f])]
                    /\ dashboard(f) = [packets |-> Len(saved[f]),
                                       size |-> TotalBytes(saved[f])]
  BY DEF RoundTrip
<1> DEFINE ps == saved[f]
           c == readLines(Text(ps))
<1>1. IsCapture(ps) /\ Len(ps) \in Nat
  BY FilePrefix
<1>2. /\ Loaded(c) = ps
      /\ c.packetCount = IF Len(ps) = 0 THEN 0 ELSE Len(ps)
      /\ c.totalBytes = TotalBytes(ps)
  BY <1>1, ReadsWhole
<1>3. loadCapture(Text(ps)) =
        [packets |-> Loaded(c),
         packetCount |-> IF c.packetCount = 0 THEN Len(Loaded(c)) ELSE c.packetCount,
         totalBytes |-> IF c.totalBytes = 0 THEN TotalBytes(Loaded(c)) ELSE c.totalBytes]
  BY DEF loadCapture, Loaded
<1> HIDE DEF c
<1>4. (IF c.packetCount = 0 THEN Len(ps) ELSE c.packetCount) = Len(ps)
  BY <1>2
<1>5. (IF c.totalBytes = 0 THEN TotalBytes(ps) ELSE c.totalBytes) = TotalBytes(ps)
  BY <1>2
<1> HIDE DEF ps
<1>6. loadCapture(Text(ps)) = [packets |-> ps, packetCount |-> Len(ps),
                               totalBytes |-> TotalBytes(ps)]
  BY <1>2, <1>3, <1>4, <1>5
<1>7. disk[f] = Text(ps)
  BY DEF ps
<1>8. dashboard(f) = [packets |-> Len(loadCapture(disk[f]).packets),
                      size |-> loadCapture(disk[f]).totalBytes]
  BY DEF dashboard
<1> QED
  BY <1>6, <1>7, <1>8 DEF ps

LEMMA InvFileTypeOK == FileInv => FileTypeOK
<1> SUFFICES ASSUME FileInv PROVE FileTypeOK
  OBVIOUS
<1>1. PacketBound \in Nat
  BY FileAssumption
<1>2. ASSUME NEW f \in DOMAIN disk
      PROVE  Len(disk[f]) <= 3 + 4 * PacketBound
  <2>1. f \in Names /\ disk[f] \in Cuts(Text(saved[f]))
    BY DEF FileInv, FileControl, FilesAreCuts
  <2>2. /\ Text(saved[f]) \in Seq(FileLine)
        /\ Len(Text(saved[f])) = 3 + 4 * Len(saved[f])
        /\ Len(saved[f]) \in 0..PacketBound
    BY <2>1, SavedText DEF FileInv
  <2>3. CutAfter(disk[f], Text(saved[f]))
    BY <2>1, <2>2, CutLines
  <2> QED
    BY <1>1, <2>2, <2>3 DEF CutAfter
<1>3. Len(pending) <= 3 + 4 * PacketBound
  <2>1. CASE pending = <<>>
    <3>1. Len(pending) = 0
      BY <2>1
    <3> QED
      BY <1>1, <3>1
  <2>2. CASE pending # <<>>
    <3>1. /\ name \in DOMAIN disk /\ name \in Names /\ pending \in Seq(FileLine)
          /\ disk[name] \o pending = Text(saved[name])
      BY <2>2 DEF FileInv, StreamInv, FileControl
    <3>2. /\ Text(saved[name]) \in Seq(FileLine)
          /\ Len(Text(saved[name])) = 3 + 4 * Len(saved[name])
          /\ Len(saved[name]) \in 0..PacketBound
      BY <3>1, SavedText DEF FileInv
    <3>3. disk[name] \in Seq(FileLine)
      BY <3>1, <3>2, CutLines DEF FileInv, FilesAreCuts, CutAfter
    <3>4. Len(pending) <= Len(disk[name] \o pending)
      BY <3>1, <3>3
    <3> QED
      BY <1>1, <3>1, <3>2, <3>4
  <2> QED
    BY <2>1, <2>2
<1> QED
  BY <1>2, <1>3 DEF FileTypeOK, FileInv, FileControl

-----------------------------------------------------------------------------
(* What the inspector can rely on in every state, however saves ended.     *)

(* The files, the captures they stand for and the stream keep their types; *)
(* no file is longer than the text of the largest capture.                 *)
THEOREM CaptureFilesAreTyped == FileSpec => []FileTypeOK
  BY FileInvariant, InvFileTypeOK, PTL

(* A capture reported as saved misses at most what the stream's buffer     *)
(* held when output.good() was asked: packet_capture.cpp's saveCapture     *)
(* looks at the state before the destructor writes the rest.               *)
THEOREM LossIsBounded == FileSpec => []LossIsOneBuffer
<1>1. FileInv => LossIsOneBuffer
  BY DEF FileInv
<1> QED
  BY FileInvariant, <1>1, PTL

(* loadCapture undoes saveCapture, for captures of every length: a file    *)
(* that was written to its end reads back as the packets, their number and *)
(* their bytes.                                                            *)
THEOREM SavedCapturesReadBack == FileSpec => []RoundTrip
  BY FileInvariant, InvRoundTrip, PTL

(* A file that a full disk or a crash cut anywhere, in the middle of a     *)
(* number too, reads as the first packets of what was saved.               *)
THEOREM CutFilesArePrefixes == FileSpec => []CutFileIsPrefix
  BY FileInvariant, InvCutFileIsPrefix, PTL

(* findPacket never shows one packet for the id of another, and every id   *)
(* of the range that is offered is found.                                  *)
THEOREM FoundPacketsAreSaved == FileSpec => []FoundIsSaved
  BY FileInvariant, InvFoundIsSaved, PTL
=============================================================================
