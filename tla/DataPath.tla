------------------------------ MODULE DataPath ------------------------------
(***************************************************************************)
(* The way of data from vtl_send to the receiver's callback: header        *)
(* construction (adaptor_send.c), the egress filter (bpf_tc.c), the link,  *)
(* the XDP program (bpf_xdp.c), the receive path, and process_packet       *)
(* (adaptor_receive.c).  The application is the file transfer of           *)
(* tests/vtl-tests: server-stream.c reads a file in chunks and sends each  *)
(* as one message, client-stream.c appends what it receives to its file.   *)
(* Both were written for vtl_snd and vtl_rcv, which vtl_send and           *)
(* vtl_receive with its callback have replaced.                            *)
(*                                                                         *)
(* Lengths are in bytes, in the widths of the code; the contents of a      *)
(* message is the number of its chunk, from 1.  Neither BPF program tests  *)
(* the Ethernet type: byte 23 of any frame is taken for the IP protocol,   *)
(* so frames are VTL's, alike (not VTL's, with its number in that byte),   *)
(* or other.  The receive path is PacketQueue, the promise that module     *)
(* XskRx is shown to implement.                                            *)
(***************************************************************************)
EXTENDS Integers, Sequences, FiniteSets, FiniteSetsExt

CONSTANTS Links,     \* kinds of links, see LinkType
          Files,     \* [filesize, datasize]: a file and the size of its chunks
          Capacity,  \* packets the receive path holds
          NumFrames, \* frames of its umem, none of which it ever frees
          Unreleased, \* ring entries that packets already seen by the callback may
                     \* still take: a batch to be released, fill entries not yet
                     \* given back by the kernel
          UintMod,   \* 2^32, the modulus of an unsigned int
          MaxDup,    \* bound: frames duplicated in a run
          MaxOther   \* bound: frames of other processes in a run

\* What a link does to frames: the length short ones are padded to, the largest
\* IP packet, whether the egress filter is deployed, and its faults.
LinkType == [min_frame : Nat, mtu : Nat, tc : BOOLEAN,
             faults : SUBSET {"lose", "duplicate", "reorder"}]

ASSUME DataPathAssumption ==
  /\ Links \subseteq LinkType
  /\ Files \subseteq [filesize : Nat, datasize : Nat \ {0}]
  /\ Capacity \in Nat \ {0} /\ NumFrames \in Nat \ {0} /\ Unreleased \in Nat
  /\ MaxDup \in Nat /\ MaxOther \in Nat
  /\ UintMod \in Nat /\ UintMod > 2 * 65536

ETH_HLEN     == 14       \* sizeof(struct ethhdr)
IP4_HDRLEN   == 20
VTLHDR       == 2        \* sizeof(vtlhdr_t)
IP_MAXPACKET == 65535    \* size of a channel's snd_packet
HDR_SIZE     == ETH_HLEN + IP4_HDRLEN + VTLHDR
FRAME_ROOM   == 4096 - 256   \* a umem frame less the kernel's headroom
U16(n) == n % 65536
U32(n) == n % UintMod

VARIABLES
  link, file,        \* the case at hand; they do not change
  snd, cnt_pkt,      \* server-stream: where it is, chunks sent
  ip_len,            \* the length in the channel's iphdr
  wire,              \* frames under way
  dups, others,      \* frames duplicated, frames of other processes
  listening,         \* the receiver's socket is in the xsks_map
  queue, delivered,  \* the receive path
  arrived,           \* the frames it accepted, by rank
  rx_file,           \* chunks and sizes the callback got
  lost               \* ghost: chunks a copy of which came to nothing

sender   == <<snd, cnt_pkt, ip_len>>
network  == <<wire, dups, others>>
receiver == <<listening, queue, delivered, arrived, rx_file>>
vars     == <<link, file, sender, network, receiver, lost>>

PQ == INSTANCE PacketQueue

Init ==
  /\ link \in Links /\ file \in Files
  /\ snd = "sending" /\ cnt_pkt = 0 /\ ip_len = 0
  /\ wire = <<>> /\ dups = 0 /\ others = 0
  /\ listening = FALSE /\ PQ!QInit
  /\ arrived = <<>> /\ rx_file = <<>> /\ lost = {}

-----------------------------------------------------------------------------
(* The sending host.                                                       *)

\* What fread returns for chunk k.  The loop ends after the first short chunk:
\* a file of full chunks has an empty one at its end.
fread(k) == Min({file.datasize, file.filesize - (k - 1) * file.datasize})

\* Mutant: the length is not cut to the 16 bits of the field.
create_ip4_hdr_wide(datalen) == IP4_HDRLEN + VTLHDR + datalen

\* Mutant: the VTL header is not counted.
create_ip4_hdr_short(datalen) == U16(IP4_HDRLEN + datalen)

\* ip_len, as create_ip4_hdr writes it.
create_ip4_hdr(datalen) == U16(IP4_HDRLEN + VTLHDR + datalen)

ip_pkt_size(datalen) == IP4_HDRLEN + VTLHDR + datalen

\* sendto on a raw socket that brings its own header (external): refused when
\* larger than the interface or IP can carry.
Sendable(size) == size <= link.mtu /\ size <= IP_MAXPACKET

\* bpf_tc.c: a frame with VTL's number in byte 23 and room for its header is
\* marked; in an alike frame the two bytes are somebody else's data.
tf_tc_egress(f) ==
  IF f.len < HDR_SIZE \/ f.proto = "other" THEN f ELSE [f EXCEPT !.checksum = 30]

\* The frame goes through the filter and the driver, which pads it.
Transmit(f) ==
  LET g == IF link.tc THEN tf_tc_egress(f) ELSE f
  IN  wire' = Append(wire, [g EXCEPT !.len = Max({g.len, link.min_frame})])

\* vtl_send and adaptor__send_packet.  The name may not resolve, before or after
\* ip_len is written; a payload larger than snd_packet is copied past its end,
\* which kills the process or not; sendto may fail.
vtl_send(datalen) ==
  \/ /\ ip_len' \in {ip_len, create_ip4_hdr(datalen)}
     /\ snd' = "failed" /\ UNCHANGED <<cnt_pkt, wire>>
  \/ /\ ip_pkt_size(datalen) > IP_MAXPACKET
     /\ ip_len' = create_ip4_hdr(datalen)
     /\ snd' = "killed" /\ UNCHANGED <<cnt_pkt, wire>>
  \/ /\ Sendable(ip_pkt_size(datalen))
     /\ ip_len' = create_ip4_hdr(datalen)
     /\ Transmit([proto |-> "vtl", chunk |-> cnt_pkt + 1, checksum |-> 0,
                  len |-> ETH_HLEN + ip_pkt_size(datalen)])
     /\ cnt_pkt' = cnt_pkt + 1
     /\ snd' = IF datalen < file.datasize THEN "done" ELSE "sending"

\* One round of server-stream's loop; a failure ends the program.
SendChunk ==
  /\ snd = "sending"
  /\ vtl_send(fread(cnt_pkt + 1))
  /\ UNCHANGED <<link, file, dups, others, receiver, lost>>

\* Another process of the host sends something that is not VTL's; it takes more
\* than a bare Ethernet header to look alike.
OtherTraffic ==
  /\ others < MaxOther
  /\ others' = others + 1
  /\ \E proto \in {"other", "alike"}, len \in {ETH_HLEN, ETH_HLEN + IP4_HDRLEN, HDR_SIZE} :
       /\ proto = "alike" => len > ETH_HLEN
       /\ Transmit([proto |-> proto, chunk |-> 0, checksum |-> 0, len |-> len])
  /\ UNCHANGED <<link, file, sender, dups, receiver, lost>>

-----------------------------------------------------------------------------
(* The link.                                                               *)

Without(i) == [j \in 1 .. Len(wire) - 1 |-> wire[IF j < i THEN j ELSE j + 1]]

\* Frames come out in order unless the link reorders.
Deliverable == IF "reorder" \in link.faults THEN DOMAIN wire ELSE {1} \cap DOMAIN wire

\* Ghost: the chunk in frame f got no further.
Gone(f) == lost' = IF f.proto = "vtl" THEN lost \cup {f.chunk} ELSE lost

Lose ==
  /\ "lose" \in link.faults
  /\ \E i \in DOMAIN wire : wire' = Without(i) /\ Gone(wire[i])
  /\ UNCHANGED <<link, file, sender, dups, others, receiver>>

Duplicate ==
  /\ "duplicate" \in link.faults /\ dups < MaxDup
  /\ dups' = dups + 1
  /\ \E i \in DOMAIN wire :
       wire' = SubSeq(wire, 1, i) \o SubSeq(wire, i, Len(wire))
  /\ UNCHANGED <<link, file, sender, others, receiver, lost>>

-----------------------------------------------------------------------------
(* The receiving host.                                                     *)

\* Mutant: a frame without data is taken for a short one.
xdp_sock_prog_empty(f) ==
  IF f.len <= HDR_SIZE THEN "drop"
  ELSE IF f.proto # "other" /\ listening THEN "redirect" ELSE "pass"

\* bpf_xdp.c.
xdp_sock_prog(f) ==
  IF f.len < ETH_HLEN + IP4_HDRLEN THEN "drop"
  ELSE IF f.proto # "other" /\ listening THEN "redirect" ELSE "pass"

\* The kernel puts a redirected frame into the umem (external): it has to fit a
\* umem frame, and rx ring and fill ring need an entry.  The rings may be short
\* of those of packets already processed, and once all frames of the umem have
\* been used the fill ring is empty for good.
Acceptable(f) ==
  f.len <= FRAME_ROOM /\ Len(arrived) < NumFrames /\ Len(queue) < Capacity
Refusable(f) ==
  \/ f.len > FRAME_ROOM \/ Len(arrived) >= NumFrames
  \/ Len(queue) + Min({Unreleased, Len(delivered)}) >= Capacity

\* A frame comes in.  Passed or dropped it never reaches VTL.
Arrive ==
  /\ \E i \in Deliverable :
       /\ wire' = Without(i)
       /\ \/ /\ xdp_sock_prog(wire[i]) = "redirect" /\ Acceptable(wire[i])
             /\ PQ!Accept
             /\ arrived' = Append(arrived, wire[i])
             /\ UNCHANGED lost
          \/ /\ xdp_sock_prog(wire[i]) = "redirect" /\ Refusable(wire[i])
             /\ Gone(wire[i]) /\ UNCHANGED <<queue, delivered, arrived>>
          \/ /\ xdp_sock_prog(wire[i]) = "pass"
             /\ IF listening THEN UNCHANGED lost ELSE Gone(wire[i])
             /\ UNCHANGED <<queue, delivered, arrived>>
          \/ /\ xdp_sock_prog(wire[i]) = "drop"
             /\ UNCHANGED <<queue, delivered, arrived, lost>>
  /\ UNCHANGED <<link, file, sender, dups, others, listening, rx_file>>

\* vtl_init_ctx registers the receiver's socket, at any time.
Listen ==
  /\ ~listening /\ listening' = TRUE
  /\ UNCHANGED <<link, file, sender, network, queue, delivered, arrived, rx_file, lost>>

\* Mutant: one header too many is taken off.
data_size_twice(len) == U32(len - HDR_SIZE - VTLHDR)

\* The size process_packet computes, in an unsigned int.
data_size(len) == U32(len - HDR_SIZE)

\* Mutant: the newest packet of a batch is processed first.
process_packet_last ==
  /\ queue # <<>>
  /\ delivered' = Append(delivered, queue[Len(queue)])
  /\ queue' = SubSeq(queue, 1, Len(queue) - 1)
  /\ LET f == arrived[queue[Len(queue)]]
     IN  rx_file' = Append(rx_file, [chunk |-> f.chunk, size |-> data_size(f.len)])
  /\ UNCHANGED <<link, file, sender, network, listening, arrived, lost>>

\* process_packet calls the callback, which appends to the file.
process_packet ==
  /\ PQ!Deliver
  /\ LET f == arrived[Head(queue)]
     IN  rx_file' = Append(rx_file, [chunk |-> f.chunk, size |-> data_size(f.len)])
  /\ UNCHANGED <<link, file, sender, network, listening, arrived, lost>>

-----------------------------------------------------------------------------
Next == \/ SendChunk \/ OtherTraffic \/ Lose \/ Duplicate
        \/ Arrive \/ Listen \/ process_packet

\* The link moves what it carries and the receiver keeps calling vtl_receive.
Fairness == WF_vars(Arrive) /\ WF_vars(process_packet)

Spec == Init /\ [][Next]_vars /\ Fairness

-----------------------------------------------------------------------------
Frame == [proto : {"vtl", "alike", "other"}, chunk : Nat, checksum : {0, 30}, len : Nat]
Piece == [chunk : Nat, size : Nat]
Places == {"sending", "done", "failed", "killed"}

SenderTypes ==
  /\ link \in Links /\ file \in Files /\ snd \in Places
  /\ cnt_pkt \in Nat /\ ip_len \in Nat /\ ip_len < 65536

NetworkTypes ==
  wire \in Seq(Frame) /\ dups \in 0 .. MaxDup /\ others \in 0 .. MaxOther

ReceiverTypes ==
  /\ queue \in Seq(Nat) /\ delivered \in Seq(Nat) /\ arrived \in Seq(Frame)
  /\ listening \in BOOLEAN /\ rx_file \in Seq(Piece)

\* Types of the variables.
TypeOK ==
  SenderTypes /\ NetworkTypes /\ ReceiverTypes /\ lost \subseteq 1 .. cnt_pkt

MaxChunks == 1 + Max({f.filesize \div f.datasize : f \in Files})
Chunks(s) == {s[i].chunk : i \in DOMAIN s}

\* A callback for one of VTL's frames gets a chunk that was sent, whole, inside
\* the umem frame: process_packet's unsigned data_size, which knows only the
\* length of the frame, neither wraps nor cuts for any message vtl_send lets
\* through, the empty one at a file's end included, and is exact unless the link
\* padded the frame.  Nothing else gets to the callback but what carries VTL's
\* number where bpf_xdp.c looks for it.
CallbackGetsChunk ==
  \A i \in DOMAIN rx_file :
    \/ rx_file[i].chunk = 0 /\ arrived[i].proto = "alike"
    \/ /\ rx_file[i].chunk \in 1 .. cnt_pkt
       /\ rx_file[i].size >= fread(rx_file[i].chunk)
       /\ HDR_SIZE + fread(rx_file[i].chunk) >= link.min_frame =>
            rx_file[i].size = fread(rx_file[i].chunk)
       /\ HDR_SIZE + rx_file[i].size <= FRAME_ROOM

\* On a link that keeps frames in order the file grows in order; chunks are
\* missing or, with duplication, repeated, never swapped.
FileInOrder ==
  "reorder" \notin link.faults =>
    \A i, j \in {k \in DOMAIN rx_file : rx_file[k].chunk # 0} : i < j =>
      \/ rx_file[i].chunk < rx_file[j].chunk
      \/ rx_file[i].chunk = rx_file[j].chunk /\ "duplicate" \in link.faults

\* What vtl_send calls sent is on its way as it should be: the header of the last
\* packet has the true length, also at the limits of 16 bits and of snd_packet,
\* no message that interface or IP cannot carry was counted, and the filter, where
\* deployed, has marked VTL's packets, the empty one too, and has left alone what
\* does not carry VTL's number.
SentIsTrue ==
  /\ snd \in {"sending", "done"} /\ cnt_pkt > 0 =>
       ip_len = IP4_HDRLEN + VTLHDR + fread(cnt_pkt)
  /\ \A k \in 1 .. cnt_pkt : IP4_HDRLEN + VTLHDR + fread(k) <= link.mtu
  /\ \A k \in DOMAIN wire : wire[k].proto # "alike" =>
       wire[k].checksum = IF link.tc /\ wire[k].proto = "vtl" THEN 30 ELSE 0

\* Every chunk that was sent gets to the callback, unless the link lost it, the
\* receiver did not listen yet, or the kernel refused it because the rings were
\* full, the umem used up or its frames too small: the programs on both hosts
\* lose none, what was accepted is delivered, and nothing stays under way.
SentIsSettled ==
  \A k \in 1 .. MaxChunks : (cnt_pkt >= k) ~> (k \in Chunks(rx_file) \cup lost)

=============================================================================
