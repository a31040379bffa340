---------------------------- MODULE CaptureFile -----------------------------
(***************************************************************************)
(* The capture file: PacketCapture::saveCapture writes it through a        *)
(* buffered stream, PacketInspector's loadCapture and inspectFile read it. *)
(* The disk may be full, the process may be killed at any moment, and a    *)
(* SlipNet may inspect any file while another one writes it, so the        *)
(* properties hold of the files in every state.                            *)
(*                                                                         *)
(* A file is a sequence of lines, a line a key and a value; what is cut in *)
(* the middle of a line keeps a prefix of it.  Of the header the magic,    *)
(* packets= and bytes= are kept, of a packet its id, protocol and length;  *)
(* the other fields are written and read like these.                       *)
(***************************************************************************)
EXTENDS Naturals, Sequences, SequencesExt

CONSTANTS
  CaptureNames, \* the names makeOutputFile() may give, one per second
  LastCapture,  \* data/last_capture.txt
  PacketBound,  \* bound on the packets of a capture
  Lengths,      \* lengths of a packet
  Protocols,    \* protocols of a packet, "TCP" among them
  Base,         \* base of the numbers in the file (10 in the code)
  BufferLines   \* lines the stream's buffer holds

ASSUME FileAssumption ==
  /\ LastCapture \notin CaptureNames
  /\ PacketBound \in Nat /\ BufferLines \in Nat
  /\ Lengths \subseteq Nat \ {0}
  /\ "" \notin Protocols
  /\ Base \in Nat \ {0, 1}

VARIABLES
  disk,     \* disk[f]: the lines of the file f, for the files that exist
  saved,    \* saved[f]: the packets last given to saveCapture for f (history)
  reported, \* the files whose save was last reported a success (history)
  filePc,   \* "prompt", "writing" or "closing"
  name,     \* the file being written
  pending,  \* its lines that are not on the disk yet
  bad       \* the stream's badbit

fileVars == <<disk, saved, reported, filePc, name, pending, bad>>

Names == CaptureNames \cup {LastCapture}

(* Packets of a capture: PacketCapture gives them the ids 1, 2, ...        *)
Captures ==
  UNION {{[i \in 1..n |-> [id |-> i, protocol |-> d[i].protocol, length |-> d[i].length]] :
          d \in [1..n -> [protocol : Protocols, length : Lengths]]} : n \in 0..PacketBound}

(* The bytes of all packets of a capture.                                  *)
AddLength(sum, packet) == sum + packet.length
Lengthening == INSTANCE VectorLoop WITH Step <- AddLength
TotalBytes(packets) == Lengthening!Run(0, packets)

-----------------------------------------------------------------------------
(* The text                                                                *)

Line(key, value) == [key |-> key, value |-> value]

(* What is neither a marker nor a key and a value is skipped when read.    *)
Noise == Line("", "")

PacketLines(p) ==
  <<Line("[PACKET]", ""), Line("id", p.id), Line("protocol", p.protocol),
    Line("length", p.length)>>

HeaderLines(packets) ==
  <<Line("SLIPNET_CAPTURE_V2", ""), Line("packets", Len(packets)),
    Line("bytes", TotalBytes(packets))>>

(* Everything saveCapture writes, in order: three lines of header, then    *)
(* the four lines 4*i to 4*i + 3 for packet i.                             *)
Text(packets) ==
  [k \in 1..3 + 4 * Len(packets) |->
     IF k <= 3 THEN HeaderLines(packets)[k]
               ELSE PacketLines(packets[k \div 4])[(k % 4) + 1]]

(* What is left of a number without its last digits; without any digit     *)
(* std::stoull throws and the field keeps 0.                               *)
CutDigit(number, base) == number \div base
Cutting == INSTANCE VectorLoop WITH Step <- CutDigit
FirstDigits(number) ==
  {Cutting!Run(number, [i \in 1..k |-> Base]) : k \in 0..number}

(* What a line cut short is read as: noise, or its key with the first      *)
(* digits of its number or with a word that is no protocol.                *)
Torn(line) ==
  {Noise} \cup
  CASE line.key \in {"packets", "bytes", "id", "length"} ->
         {Line(line.key, n) : n \in FirstDigits(line.value)}
    [] line.key = "protocol" -> {Line("protocol", ""), line}
    [] OTHER -> {line}

(* What is on the disk when the writing of lines stops anywhere.           *)
Cuts(lines) ==
  UNION {{SubSeq(lines, 1, k)} \cup
         (IF k < Len(lines)
            THEN {Append(SubSeq(lines, 1, k), l) : l \in Torn(lines[k + 1])}
            ELSE {}) : k \in 0..Len(lines)}

-----------------------------------------------------------------------------
(* Reading                                                                 *)

(* Packet{}                                                                *)
NoPacket == [id |-> 0, protocol |-> "", length |-> 0]

NothingRead == [packets |-> <<>>, current |-> NoPacket, insidePacket |-> FALSE,
                packetCount |-> 0, totalBytes |-> 0]

(* Fault: the fields of the packet before are not reset.                   *)
startPacketUnreset(capture) ==
  [capture EXCEPT
     !.packets = IF capture.insidePacket THEN Append(@, capture.current) ELSE @,
     !.insidePacket = TRUE]

(* A packet begins: the one before it is stored.                           *)
startPacket(capture) ==
  [capture EXCEPT
     !.packets = IF capture.insidePacket THEN Append(@, capture.current) ELSE @,
     !.current = NoPacket,
     !.insidePacket = TRUE]

(* One turn of loadCapture's loop.                                         *)
readLine(capture, line) ==
  CASE line.key = "[PACKET]" -> startPacket(capture)
    [] ~capture.insidePacket /\ line.key = "packets" ->
         [capture EXCEPT !.packetCount = line.value]
    [] ~capture.insidePacket /\ line.key = "bytes" ->
         [capture EXCEPT !.totalBytes = line.value]
    [] capture.insidePacket /\ line.key \in DOMAIN NoPacket ->
         [capture EXCEPT !.current[line.key] = line.value]
    [] OTHER -> capture

(* The loop over the lines of a file.                                      *)
Reading == INSTANCE VectorLoop WITH Step <- readLine
readLines(lines) == Reading!Run(NothingRead, lines)

(* Fault: the last packet is not stored after the loop.                    *)
loadCaptureUnfinished(lines) ==
  LET read == readLines(lines)
      packets == read.packets
  IN  [packets |-> packets,
       packetCount |-> IF read.packetCount = 0 THEN Len(packets) ELSE read.packetCount,
       totalBytes |-> IF read.totalBytes = 0 THEN TotalBytes(packets) ELSE read.totalBytes]

loadCapture(lines) ==
  LET read == readLines(lines)
      packets == IF read.insidePacket THEN Append(read.packets, read.current)
                                      ELSE read.packets
  IN  [packets |-> packets,
       packetCount |-> IF read.packetCount = 0 THEN Len(packets) ELSE read.packetCount,
       totalBytes |-> IF read.totalBytes = 0 THEN TotalBytes(packets) ELSE read.totalBytes]

(* Fault: the last packet with the id is shown instead of the first.       *)
findPacketLast(packets, id) ==
  SelectLastInSeq(packets, LAMBDA p : p.id = id)

(* The index of the packet shown for an id, 0 if there is none.            *)
findPacket(packets, id) == SelectInSeq(packets, LAMBDA p : p.id = id)

(* "Available packets: 1-<id of the last packet>"                          *)
available(capture) ==
  IF capture.packets = <<>> THEN {} ELSE 1..Last(capture.packets).id

(* The dashboard of a file that exists.                                    *)
dashboard(file) ==
  LET capture == loadCapture(disk[file])
  IN  [packets |-> Len(capture.packets), size |-> capture.totalBytes]

-----------------------------------------------------------------------------
(* Writing                                                                 *)

FileInit ==
  /\ disk = [f \in {} |-> <<>>]
  /\ saved = [f \in Names |-> <<>>] /\ reported = {}
  /\ filePc = "prompt" /\ name = LastCapture /\ pending = <<>> /\ bad = FALSE

With(f, lines) == [g \in DOMAIN disk \cup {f} |-> IF g = f THEN lines ELSE disk[g]]
Written(lines) == With(name, disk[name] \o lines)

(* A capture has ended in the second f; the stream truncates that file.    *)
(* (A stream that cannot be opened changes nothing and is reported.)       *)
Open(f, packets) ==
  /\ filePc = "prompt" /\ filePc' = "writing" /\ name' = f
  /\ disk' = With(f, <<>>)
  /\ pending' = Text(packets)
  /\ saved' = [saved EXCEPT ![f] = packets] /\ reported' = reported \ {f}
  /\ UNCHANGED bad

(* The buffer fills up and is written out.                                 *)
Flush ==
  /\ filePc = "writing" /\ ~bad
  /\ \E k \in 1..Len(pending) :
       /\ disk' = Written(SubSeq(pending, 1, k))
       /\ pending' = SubSeq(pending, k + 1, Len(pending))
  /\ UNCHANGED <<saved, reported, filePc, name, bad>>

(* The disk is full: badbit, and every later << does nothing.              *)
FlushFails ==
  /\ filePc = "writing" /\ ~bad /\ pending # <<>>
  /\ \E part \in Cuts(pending) : part # pending /\ disk' = Written(part)
  /\ pending' = <<>> /\ bad' = TRUE
  /\ UNCHANGED <<saved, reported, filePc, name>>

(* Fault: the state of the stream is not looked at.                        *)
CheckNothing ==
  /\ filePc = "writing" /\ Len(pending) <= BufferLines
  /\ filePc' = "closing"
  /\ reported' = reported \cup {name}
  /\ UNCHANGED <<disk, saved, name, pending, bad>>

(* return output.good(): everything was handed to the stream, and what is  *)
(* left in its buffer is not written yet.                                  *)
Check ==
  /\ filePc = "writing" /\ Len(pending) <= BufferLines
  /\ filePc' = "closing"
  /\ reported' = IF bad THEN reported ELSE reported \cup {name}
  /\ UNCHANGED <<disk, saved, name, pending, bad>>

(* The stream's destructor writes the rest; nobody hears if it fails.      *)
CloseStream ==
  /\ filePc = "closing"
  /\ \E part \in Cuts(pending) : disk' = Written(part)
  /\ filePc' = "prompt" /\ pending' = <<>> /\ bad' = FALSE
  /\ UNCHANGED <<saved, reported, name>>

(* The process is killed and SlipNet is started again.                     *)
Crash ==
  /\ filePc \in {"writing", "closing"}
  /\ \E part \in Cuts(pending) : disk' = Written(IF bad THEN <<>> ELSE part)
  /\ reported' = reported \ {name}
  /\ filePc' = "prompt" /\ pending' = <<>> /\ bad' = FALSE
  /\ UNCHANGED <<saved, name>>

(* The user copies a capture to the place pkt|:inspect looks at.           *)
UserCopies(f) ==
  /\ filePc = "prompt" /\ f \in DOMAIN disk
  /\ disk' = With(LastCapture, disk[f])
  /\ saved' = [saved EXCEPT ![LastCapture] = saved[f]]
  /\ UNCHANGED <<reported, filePc, name, pending, bad>>

FileNext ==
  \/ \E f \in CaptureNames, packets \in Captures : Open(f, packets)
  \/ Flush \/ FlushFails \/ Check \/ CloseStream \/ Crash
  \/ \E f \in CaptureNames : UserCopies(f)

FileSpec == FileInit /\ [][FileNext]_fileVars

-----------------------------------------------------------------------------
Packet == [id : 1..PacketBound, protocol : Protocols, length : Lengths]

FileTypeOK ==
  /\ DOMAIN disk \subseteq Names
  /\ \A f \in DOMAIN disk : Len(disk[f]) <= 3 + 4 * PacketBound
  /\ saved \in [Names -> Captures]
  /\ reported \subseteq CaptureNames
  /\ filePc \in {"prompt", "writing", "closing"}
  /\ name \in Names
  /\ Len(pending) <= 3 + 4 * PacketBound
  /\ bad \in BOOLEAN

(* A file that was written to its end reads back as it was saved, and the  *)
(* dashboard shows its packets and their bytes.                            *)
RoundTrip ==
  \A f \in DOMAIN disk : disk[f] = Text(saved[f]) =>
    /\ loadCapture(disk[f]) = [packets |-> saved[f], packetCount |-> Len(saved[f]),
                               totalBytes |-> TotalBytes(saved[f])]
    /\ dashboard(f) = [packets |-> Len(saved[f]), size |-> TotalBytes(saved[f])]

(* However a save ended, what is read are the first packets saved, and     *)
(* only the last of them may lack fields: its id and length are what was   *)
(* saved or less.  A cut id may be that of an earlier packet; that this    *)
(* does no harm is FoundIsSaved.                                           *)
CutFileIsPrefix ==
  \A f \in DOMAIN disk :
    LET read == loadCapture(disk[f]).packets
    IN  /\ Len(read) <= Len(saved[f])
        /\ \A i \in 1..Len(read) : i < Len(read) => read[i] = saved[f][i]
        /\ read # <<>> =>
             LET p == Last(read)  s == saved[f][Len(read)]
             IN  /\ p.id <= s.id /\ p.length <= s.length
                 /\ p.protocol \in {"", s.protocol}
                 /\ p.length > 0 => p.id = s.id /\ p.protocol = s.protocol

(* A packet shown for an id is the packet that was saved with that id,     *)
(* also when a file was cut inside the number of its last packet; and      *)
(* every id of the range that is printed when a packet is not found can be *)
(* found.                                                                  *)
FoundIsSaved ==
  \A f \in DOMAIN disk :
    LET capture == loadCapture(disk[f])
        read == capture.packets
        at(id) == findPacket(read, id)
    IN  /\ \A id \in 1..PacketBound : at(id) \in {0, id}
        /\ \A id \in available(capture) : at(id) # 0

(* A save reported as a success misses at most the last buffer.            *)
LossIsOneBuffer ==
  \A f \in reported : filePc = "prompt" \/ f # name =>
    \E k \in 0..BufferLines :
      IsPrefix(SubSeq(Text(saved[f]), 1, Len(Text(saved[f])) - k), disk[f])

(* src/packet/packet_capture.cpp:417 prints "[!] Failed to write capture   *)
(* file:" for a save that failed and :450 "[+] Packet capture completed    *)
(* successfully." otherwise: a success means that the file is written.     *)
SuccessMeansWritten ==
  \A f \in reported : filePc = "prompt" \/ f # name => disk[f] = Text(saved[f])
=============================================================================
