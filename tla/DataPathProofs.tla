--------------------------- MODULE DataPathProofs ---------------------------
(***************************************************************************)
(* Proofs about the way of data from vtl_send to the callback, for every   *)
(* link, file, capacity and width of unsigned int within the assumption.   *)
(*                                                                         *)
(* What the callback gets was on the wire some steps before, so the        *)
(* invariant follows a frame: what vtl_send let through (Sending), what    *)
(* every frame under way or accepted still is (Frames), where the receive  *)
(* path has put it (Ranks), and in which order frames stand, from the file *)
(* back to the wire (Ordered).  Frames of other processes that look like   *)
(* VTL's go the same way, with no chunk in them.                           *)
(***************************************************************************)
EXTENDS DataPath, SequenceTheorems, WellFoundedInduction, TLAPS

\* What server-stream and vtl_send have done.
Sending ==
  /\ snd = "sending" => cnt_pkt * file.datasize <= file.filesize
  /\ \A k \in 1 .. cnt_pkt : fread(k) \in Nat /\ Sendable(ip_pkt_size(fread(k)))
  /\ snd \in {"sending", "done"} /\ cnt_pkt > 0 => ip_len = ip_pkt_size(fread(cnt_pkt))

OnWire   == {wire[i] : i \in DOMAIN wire}
Accepted == {arrived[i] : i \in DOMAIN arrived}

\* A frame as the sending host made it; its filter may have marked an alike one.
Genuine(f) ==
  /\ f.proto = "vtl" => /\ f.chunk \in 1 .. cnt_pkt
                        /\ f.len = Max({HDR_SIZE + fread(f.chunk), link.min_frame})
  /\ f.proto # "vtl" => f.chunk = 0
  /\ f.proto # "alike" => f.checksum = IF link.tc /\ f.proto = "vtl" THEN 30 ELSE 0

Frames ==
  /\ \A f \in OnWire : Genuine(f)
  /\ \A f \in Accepted : Genuine(f) /\ f.proto # "other" /\ f.len <= FRAME_ROOM

\* What the callback is given of frame f.
Received(f) == [chunk |-> f.chunk, size |-> data_size(f.len)]

\* The receive path holds the ranks of the accepted frames, in order.
Ranks ==
  /\ Len(delivered) + Len(queue) = Len(arrived)
  /\ \A j \in 1 .. Len(queue) : queue[j] = Len(delivered) + j
  /\ Len(rx_file) = Len(delivered)
  /\ \A i \in 1 .. Len(rx_file) : rx_file[i] = Received(arrived[i])

\* Frame f was sent before frame g, or is a copy of the same one.
Before(f, g) ==
  f.proto = "vtl" /\ g.proto = "vtl" =>
    \/ f.chunk < g.chunk
    \/ f.chunk = g.chunk /\ "duplicate" \in link.faults

Ordered ==
  "reorder" \notin link.faults =>
    /\ \A i, j \in 1 .. Len(arrived) : i < j => Before(arrived[i], arrived[j])
    /\ \A f \in Accepted, g \in OnWire : Before(f, g)
    /\ \A i, j \in 1 .. Len(wire) : i < j => Before(wire[i], wire[j])

IInv == TypeOK /\ Sending /\ Frames /\ Ranks /\ Ordered

-----------------------------------------------------------------------------
(* Operators.                                                              *)

\* The larger and the smaller of two numbers.
LEMMA MaxOfTwo ==
  ASSUME NEW a \in Int, NEW b \in Int
  PROVE  Max({a, b}) = IF a >= b THEN a ELSE b
<1>1. \A x \in {a, b} : (\A y \in {a, b} : x >= y) => x = IF a >= b THEN a ELSE b
  OBVIOUS
<1>2. \E x \in {a, b} : \A y \in {a, b} : x >= y
  OBVIOUS
<1> QED
  BY <1>1, <1>2 DEF Max

\* The smaller of two numbers, as fread and the chunking use it.
LEMMA MinOfTwo ==
  ASSUME NEW a \in Int, NEW b \in Int
  PROVE  Min({a, b}) = IF a <= b THEN a ELSE b
<1>1. \A x \in {a, b} : (\A y \in {a, b} : x <= y) => x = IF a <= b THEN a ELSE b
  OBVIOUS
<1>2. \E x \in {a, b} : \A y \in {a, b} : x <= y
  OBVIOUS
<1> QED
  BY <1>1, <1>2 DEF Min

\* A set of naturals that is not empty has a least element.
LEMMA Least ==
  ASSUME NEW S, S \subseteq Nat, S # {}
  PROVE  \E x \in S : \A y \in S : x <= y
<1> DEFINE R == {ss \in Nat \X Nat : ss[1] < ss[2]}
<1>1. IsWellFoundedOn(R, Nat)
  BY NatLessThanWellFounded, Zenon DEF OpToRel
<1>2. \A x, y \in Nat : y < x => <<y, x>> \in R
  OBVIOUS
<1> HIDE DEF R
<1>3. PICK x \in S : \A y \in S : ~ (<<y, x>> \in R)
  BY <1>1, WFMin
<1>4. \A y \in S : x <= y
  <2> TAKE y \in S
  <2>1. x \in Nat /\ y \in Nat /\ ~ (y < x)
    BY <1>2, <1>3, Zenon
  <2> QED BY <2>1
<1> QED BY <1>4

\* A number below the modulus is not changed by it.
LEMMA SmallMod ==
  ASSUME NEW n \in Nat, NEW m \in Nat, n < m
  PROVE  n % m = n
  OBVIOUS

\* A remainder is below the modulus.
LEMMA ModRange ==
  ASSUME NEW n \in Int, NEW m \in Nat, m > 0
  PROVE  n % m \in Nat /\ n % m < m
  OBVIOUS

\* The fields of the link and of the file.
LEMMA CaseAtHand ==
  ASSUME TypeOK
  PROVE  /\ link.min_frame \in Nat /\ link.mtu \in Nat /\ link.tc \in BOOLEAN
         /\ file.filesize \in Nat /\ file.datasize \in Nat /\ file.datasize > 0
  BY DataPathAssumption DEF TypeOK, SenderTypes, LinkType

\* The types that a step's arithmetic and sequences need.
LEMMA Types ==
  ASSUME TypeOK
  PROVE  /\ cnt_pkt \in Nat /\ wire \in Seq(Frame) /\ arrived \in Seq(Frame)
         /\ queue \in Seq(Nat) /\ delivered \in Seq(Nat)
         /\ rx_file \in Seq(Piece)
  BY DEF TypeOK, SenderTypes, NetworkTypes, ReceiverTypes

\* What Without takes off the wire, and what it leaves.
LEMMA WithoutIs ==
  ASSUME wire \in Seq(Frame), NEW i \in DOMAIN wire
  PROVE  /\ Without(i) \in Seq(Frame) /\ Len(Without(i)) = Len(wire) - 1
         /\ \A j \in 1 .. Len(wire) - 1 :
              Without(i)[j] = wire[IF j < i THEN j ELSE j + 1]
<1> DEFINE n == Len(wire) - 1
           at(j) == IF j < i THEN j ELSE j + 1
<1>1. n \in Nat /\ i \in 1 .. n + 1 /\ Len(wire) = n + 1
  OBVIOUS
<1>2. \A j \in 1 .. n : wire[at(j)] \in Frame
  <2>1. \A j \in 1 .. n : at(j) \in 1 .. Len(wire)
    BY <1>1
  <2> QED
    BY <2>1, ElementOfSeq
<1>3. Without(i) = [j \in 1 .. n |-> wire[at(j)]]
  BY DEF Without
<1>4. Without(i) \in [1 .. n -> Frame]
  <2> HIDE DEF n, at
  <2> QED
    BY <1>2, <1>3
<1>5. Without(i) \in Seq(Frame) /\ Len(Without(i)) = n
  <2> HIDE DEF n, at
  <2> QED
    BY <1>1, <1>4
<1> QED
  BY <1>3, <1>5

\* An element of a sequence repeated.
LEMMA TwiceIs ==
  ASSUME NEW S, NEW q \in Seq(S), NEW i \in 1 .. Len(q)
  PROVE  LET w == SubSeq(q, 1, i) \o SubSeq(q, i, Len(q))
         IN  /\ w \in Seq(S) /\ Len(w) = Len(q) + 1
             /\ \A j \in 1 .. Len(q) + 1 : w[j] = q[IF j <= i THEN j ELSE j - 1]
<1> DEFINE n == Len(q)
           s == SubSeq(q, 1, i)
           t == SubSeq(q, i, n)
           w == s \o t
<1>1. n \in Nat /\ i \in 1 .. n /\ \A j \in 1 .. n : q[j] \in S
  OBVIOUS
<1>2. /\ s \in Seq(S) /\ Len(s) = i
      /\ \A j \in 1 .. i : s[j] = q[j]
  <2>1. \A j \in 1 .. i : q[j] \in S
    BY <1>1
  <2> QED
    BY <1>1, <2>1, SubSeqProperties
<1>3. /\ t \in Seq(S) /\ Len(t) = n - i + 1
      /\ \A j \in 1 .. n - i + 1 : t[j] = q[i + j - 1]
  <2>1. \A j \in i .. n : q[j] \in S
    BY <1>1
  <2> QED
    BY <1>1, <2>1, SubSeqProperties
<1> HIDE DEF s, t
<1>4. /\ w \in Seq(S) /\ Len(w) = Len(s) + Len(t)
      /\ \A j \in 1 .. Len(s) + Len(t) : w[j] = IF j <= Len(s) THEN s[j] ELSE t[j - Len(s)]
  BY <1>2, <1>3, ConcatProperties
<1> HIDE DEF n, w
<1>5. Len(w) = n + 1
  BY <1>1, <1>2, <1>3, <1>4
<1>6. ASSUME NEW j \in 1 .. n + 1
      PROVE  w[j] = q[IF j <= i THEN j ELSE j - 1]
  <2>1. CASE j <= i
    BY <1>1, <1>2, <1>3, <1>4, <2>1
  <2>2. CASE j > i
    <3>1. w[j] = t[j - i] /\ j - i \in 1 .. n - i + 1
      BY <1>1, <1>2, <1>3, <1>4, <2>2
    <3>2. t[j - i] = q[i + (j - i) - 1]
      BY <1>3, <3>1
    <3>3. i + (j - i) - 1 = j - 1
      BY <1>1
    <3> QED
      BY <1>1, <2>2, <3>1, <3>2, <3>3
  <2> QED
    BY <1>1, <2>1, <2>2
<1> QED
  BY <1>4, <1>5, <1>6 DEF n, s, t, w

\* What the egress filter and the driver make of a frame of the host.
LEMMA Transmitted ==
  ASSUME TypeOK, NEW f \in Frame, f.checksum = 0,
         f.proto = "vtl" => f.len >= HDR_SIZE, Transmit(f)
  PROVE  \E g \in Frame :
           /\ g.proto = f.proto /\ g.chunk = f.chunk
           /\ g.len = Max({f.len, link.min_frame})
           /\ f.proto # "alike" => g.checksum = IF link.tc /\ f.proto = "vtl" THEN 30 ELSE 0
           /\ wire' = Append(wire, g)
<1> DEFINE h == IF link.tc THEN tf_tc_egress(f) ELSE f
           g == [h EXCEPT !.len = Max({h.len, link.min_frame})]
<1>1. /\ h \in Frame /\ h.proto = f.proto /\ h.chunk = f.chunk /\ h.len = f.len
      /\ f.proto # "alike" => h.checksum = IF link.tc /\ f.proto = "vtl" THEN 30 ELSE 0
  BY DEF tf_tc_egress, Frame, HDR_SIZE, ETH_HLEN, IP4_HDRLEN, VTLHDR
<1>2. wire' = Append(wire, g)
  BY DEF Transmit
<1>3. Max({h.len, link.min_frame}) \in Nat
  <2>1. h.len \in Nat /\ link.min_frame \in Nat
    BY <1>1, CaseAtHand DEF Frame
  <2> QED
    BY <2>1, MaxOfTwo
<1> HIDE DEF h
<1>4. /\ g \in Frame /\ g.proto = h.proto /\ g.chunk = h.chunk
      /\ g.checksum = h.checksum /\ g.len = Max({h.len, link.min_frame})
  BY <1>1, <1>3 DEF Frame
<1> HIDE DEF g
<1> QED
  BY <1>1, <1>2, <1>4

-----------------------------------------------------------------------------
(* What a step leaves alone.                                               *)

\* Sending speaks of the sender, the file and the link only.
LEMMA SendingKept == Sending /\ UNCHANGED <<link, file, sender>> => Sending'
  BY DEF Sending, sender, fread, Sendable, ip_pkt_size

\* A frame stays genuine while the sender goes on.
LEMMA GenuineKept ==
  ASSUME cnt_pkt \in Nat, cnt_pkt' \in Nat, cnt_pkt <= cnt_pkt',
         UNCHANGED <<link, file>>, NEW f, Genuine(f)
  PROVE  Genuine(f)'
<1>1. \A k : fread(k)' = fread(k)
  BY DEF fread
<1> QED
  BY <1>1 DEF Genuine

\* Frames holds on while no frame is added and the sender only goes on.
LEMMA FramesKept ==
  ASSUME cnt_pkt \in Nat, Frames, UNCHANGED <<link, file, cnt_pkt>>,
         OnWire' \subseteq OnWire, Accepted' \subseteq Accepted
  PROVE  Frames'
  BY GenuineKept DEF Frames

\* Ranks speaks of the receiver only.
LEMMA RanksKept == Ranks /\ UNCHANGED receiver => Ranks'
  BY DEF Ranks, receiver, Received, data_size, U32

\* Ordered speaks of the link and of what is on it or has arrived.
LEMMA OrderedKept == Ordered /\ UNCHANGED <<link, wire, arrived>> => Ordered'
  BY DEF Ordered, Before, OnWire, Accepted

-----------------------------------------------------------------------------
(* The invariant holds at the start and is kept by every action.           *)

\* The invariant holds when both sides start.
LEMMA Initially == Init => IInv
<1> SUFFICES ASSUME Init PROVE IInv
  OBVIOUS
<1>1. TypeOK
  <2>1. SenderTypes /\ lost \subseteq 1 .. cnt_pkt
    BY DEF Init, SenderTypes, Places
  <2>2. NetworkTypes
    BY DataPathAssumption DEF Init, NetworkTypes
  <2>3. /\ queue \in Seq(Nat) /\ delivered \in Seq(Nat)
        /\ arrived \in Seq(Frame) /\ rx_file \in Seq(Piece)
    BY DEF Init, PQ!QInit
  <2>4. ReceiverTypes
    BY Zenon, <2>3 DEF Init, ReceiverTypes
  <2> QED
    BY <2>1, <2>2, <2>4 DEF TypeOK
<1>2. Sending
  <2>1. file.filesize \in Nat /\ file.datasize \in Nat
    BY <1>1, CaseAtHand
  <2> QED
    BY <2>1 DEF Init, Sending
<1>3. OnWire = {} /\ Accepted = {}
  BY DEF Init, OnWire, Accepted
<1>4. Frames
  BY <1>3 DEF Frames
<1>5. Ranks
  BY DEF Init, PQ!QInit, Ranks
<1>6. Ordered
  BY <1>3 DEF Init, Ordered
<1> QED
  BY <1>1, <1>2, <1>4, <1>5, <1>6 DEF IInv

\* What server-stream reads next.
LEMMA NextChunk ==
  ASSUME TypeOK, Sending, snd = "sending"
  PROVE  /\ fread(cnt_pkt + 1) \in Nat
         /\ ~(fread(cnt_pkt + 1) < file.datasize)
              => (cnt_pkt + 1) * file.datasize <= file.filesize
<1> DEFINE d == file.datasize
           p == cnt_pkt * d
<1>1. d \in Nat /\ file.filesize \in Nat /\ cnt_pkt \in Nat
  BY CaseAtHand, Types
<1>2. p \in Nat /\ p <= file.filesize
  BY <1>1 DEF Sending
<1>3. (cnt_pkt + 1 - 1) * d = p /\ (cnt_pkt + 1) * d = p + d
  BY <1>1
<1>4. fread(cnt_pkt + 1) = Min({d, file.filesize - p})
  BY <1>1, <1>3 DEF fread
<1> HIDE DEF d, p
<1>5. fread(cnt_pkt + 1) = IF d <= file.filesize - p THEN d ELSE file.filesize - p
  <2>1. d \in Int /\ file.filesize - p \in Int
    BY <1>1, <1>2
  <2> QED
    BY <1>4, <2>1, MinOfTwo
<1>6. (fread(cnt_pkt + 1) \in Nat) /\ (~(fread(cnt_pkt + 1) < d) => p + d <= file.filesize)
  BY <1>1, <1>2, <1>5
<1> QED
  BY <1>3, <1>6 DEF d

\* A frame joins the wire: the order holds if it comes after the others.
LEMMA OrderedAppend ==
  ASSUME TypeOK, Ordered, NEW g \in Frame, wire' = Append(wire, g),
         UNCHANGED <<link, arrived>>,
         \A f \in OnWire \cup Accepted : Before(f, g)
  PROVE  Ordered'
<1> SUFFICES ASSUME "reorder" \notin link.faults PROVE Ordered'
  BY DEF Ordered
<1>1. /\ \A i, j \in 1 .. Len(arrived) : i < j => Before(arrived[i], arrived[j])
      /\ \A f \in Accepted, h \in OnWire : Before(f, h)
      /\ \A i, j \in 1 .. Len(wire) : i < j => Before(wire[i], wire[j])
  BY DEF Ordered
<1>2. /\ Len(wire) \in Nat /\ Len(wire') = Len(wire) + 1 /\ wire' \in Seq(Frame)
      /\ \A i \in 1 .. Len(wire) : wire'[i] = wire[i] /\ wire[i] \in OnWire
      /\ wire'[Len(wire) + 1] = g
  BY Types DEF OnWire
<1>3. \A f, h : Before(f, h)' <=> Before(f, h)
  BY DEF Before
<1>4. OnWire' \subseteq OnWire \cup {g} /\ Accepted' = Accepted
  BY <1>2 DEF OnWire, Accepted
<1>5. \A f \in Accepted', h \in OnWire' : Before(f, h)'
  BY <1>1, <1>3, <1>4
<1>6. ASSUME NEW i \in 1 .. Len(wire'), NEW j \in 1 .. Len(wire'), i < j
      PROVE  Before(wire'[i], wire'[j])
  <2>1. CASE j \in 1 .. Len(wire)
    BY <1>1, <1>2, <1>6, <2>1
  <2>2. CASE j = Len(wire) + 1
    <3>1. i \in 1 .. Len(wire)
      BY <1>2, <1>6, <2>2
    <3> QED
      BY <1>2, <2>2, <3>1
  <2> QED
    BY <1>2, <2>1, <2>2
<1>7. \A i, j \in 1 .. Len(wire') : i < j => Before(wire[i], wire[j])'
  BY <1>6 DEF Before
<1>8. \A i, j \in 1 .. Len(arrived') : i < j => Before(arrived[i], arrived[j])'
  BY <1>1 DEF Before
<1> QED
  BY <1>5, <1>7, <1>8 DEF Ordered

\* A frame as made joins the wire; frames that are there stay genuine.
LEMMA FramesAppend ==
  ASSUME TypeOK, Frames, NEW g \in Frame, wire' = Append(wire, g), UNCHANGED <<link, file, arrived>>,
         cnt_pkt' \in Nat, cnt_pkt <= cnt_pkt', Genuine(g)'
  PROVE  Frames'
<1>1. OnWire' \subseteq OnWire \cup {g} /\ Accepted' = Accepted
  BY Types DEF OnWire, Accepted
<1>2. \A f : Genuine(f) => Genuine(f)'
  BY Types, GenuineKept
<1> QED
  BY <1>1, <1>2 DEF Frames

\* vtl_send that fails, or that ends the process.
SendFailed ==
  /\ snd = "sending" /\ snd' \in {"failed", "killed"}
  /\ ip_len' \in {ip_len, create_ip4_hdr(fread(cnt_pkt + 1))}
  /\ UNCHANGED <<link, file, cnt_pkt, wire, dups, others, receiver, lost>>

\* A failed sendto keeps the invariant.
LEMMA SendFails == IInv /\ SendFailed => IInv'
<1> SUFFICES ASSUME IInv, SendFailed PROVE IInv'
  OBVIOUS
<1>1. TypeOK /\ Sending /\ Frames /\ Ranks /\ Ordered
  BY DEF IInv
<1>2. snd = "sending" /\ snd' \in Places
  BY DEF SendFailed, Places
<1>3. UNCHANGED <<link, file, cnt_pkt, wire, dups, others, receiver, lost>>
  BY DEF SendFailed
<1>4. ip_len' \in Nat /\ ip_len' < 65536
  <2> DEFINE n == fread(cnt_pkt + 1)
  <2>1. n \in Nat
    BY <1>1, <1>2, NextChunk
  <2>2. ip_len' \in {ip_len, create_ip4_hdr(n)}
    BY DEF SendFailed
  <2>3. ip_len \in Nat /\ ip_len < 65536
    BY <1>1 DEF TypeOK, SenderTypes
  <2> HIDE DEF n
  <2>4. IP4_HDRLEN + VTLHDR + n \in Nat
    BY <2>1 DEF IP4_HDRLEN, VTLHDR
  <2>5. create_ip4_hdr(n) \in Nat /\ create_ip4_hdr(n) < 65536
    BY <2>4, ModRange DEF create_ip4_hdr, U16
  <2> QED
    BY <2>2, <2>3, <2>5
<1>5. TypeOK'
  <2>1. SenderTypes'
    BY <1>1, <1>2, <1>3, <1>4 DEF TypeOK, SenderTypes
  <2>2. NetworkTypes'
    BY <1>1, <1>3 DEF TypeOK, NetworkTypes
  <2>3. ReceiverTypes'
    BY Zenon, <1>1, <1>3 DEF TypeOK, ReceiverTypes, receiver
  <2>4. lost' \subseteq 1 .. cnt_pkt'
    BY <1>1, <1>3 DEF TypeOK
  <2> QED
    BY <2>1, <2>2, <2>3, <2>4 DEF TypeOK
<1>6. Sending'
  <2>1. snd' \notin {"sending", "done"}
    BY DEF SendFailed
  <2>2. \A k \in 1 .. cnt_pkt : fread(k)' \in Nat /\ Sendable(ip_pkt_size(fread(k)))'
    BY <1>1, <1>3 DEF Sending, fread, Sendable, ip_pkt_size
  <2> QED
    BY <1>3, <2>1, <2>2 DEF Sending
<1>7. OnWire' = OnWire /\ Accepted' = Accepted
  BY <1>3 DEF OnWire, Accepted, receiver
<1>8. Frames'
  BY <1>1, <1>3, <1>7, Types, FramesKept
<1>9. Ranks' /\ Ordered'
  BY <1>1, <1>3, RanksKept, OrderedKept DEF receiver
<1> QED
  BY <1>5, <1>6, <1>8, <1>9 DEF IInv

\* vtl_send of a message that interface and IP carry.
SendDone(d) ==
  /\ snd = "sending" /\ d = fread(cnt_pkt + 1)
  /\ Sendable(ip_pkt_size(d)) /\ ip_len' = create_ip4_hdr(d)
  /\ Transmit([proto |-> "vtl", chunk |-> cnt_pkt + 1, checksum |-> 0,
               len |-> ETH_HLEN + ip_pkt_size(d)])
  /\ cnt_pkt' = cnt_pkt + 1
  /\ snd' = IF d < file.datasize THEN "done" ELSE "sending"
  /\ UNCHANGED <<link, file, dups, others, receiver, lost>>

\* The frame it makes.
LEMMA FrameSent ==
  ASSUME TypeOK, NEW d \in Nat, SendDone(d)
  PROVE  \E g \in Frame :
           /\ g.proto = "vtl" /\ g.chunk = cnt_pkt + 1
           /\ g.len = Max({HDR_SIZE + d, link.min_frame})
           /\ g.checksum = IF link.tc THEN 30 ELSE 0
           /\ wire' = Append(wire, g)
<1> DEFINE f == [proto |-> "vtl", chunk |-> cnt_pkt + 1, checksum |-> 0,
                 len |-> ETH_HLEN + ip_pkt_size(d)]
<1>1. ETH_HLEN + ip_pkt_size(d) = HDR_SIZE + d /\ HDR_SIZE + d \in Nat /\ HDR_SIZE + d >= HDR_SIZE
  BY DEF HDR_SIZE, ETH_HLEN, IP4_HDRLEN, VTLHDR, ip_pkt_size
<1>2. cnt_pkt + 1 \in Nat
  BY Types
<1>3. /\ f \in Frame /\ f.len = HDR_SIZE + d /\ f.proto = "vtl" /\ f.checksum = 0
      /\ f.chunk = cnt_pkt + 1
  BY <1>1, <1>2 DEF Frame
<1>4. Transmit(f)
  BY DEF SendDone
<1> HIDE DEF f
<1> QED
  BY ZenonT(60), <1>1, <1>3, <1>4, Transmitted

\* A chunk put on the wire keeps the invariant.
LEMMA SendWorks ==
  ASSUME IInv, NEW d, SendDone(d)
  PROVE  IInv'
<1>1. TypeOK /\ Sending /\ Frames /\ Ranks /\ Ordered
  BY DEF IInv
<1>2. /\ d \in Nat /\ cnt_pkt \in Nat
      /\ ~(d < file.datasize) => (cnt_pkt + 1) * file.datasize <= file.filesize
  BY <1>1, NextChunk, Types DEF SendDone
<1>3. ip_pkt_size(d) = 22 + d /\ 22 + d < 65536 /\ 22 + d \in Nat
  BY <1>2 DEF SendDone, ip_pkt_size, Sendable, IP4_HDRLEN, VTLHDR, IP_MAXPACKET
<1>4. create_ip4_hdr(d) = ip_pkt_size(d)
  <2>1. (22 + d) % 65536 = 22 + d
    BY <1>3, SmallMod
  <2>2. IP4_HDRLEN + VTLHDR + d = 22 + d
    BY <1>2 DEF IP4_HDRLEN, VTLHDR
  <2> QED
    BY <1>3, <2>1, <2>2 DEF create_ip4_hdr, U16
<1>5. PICK g \in Frame :
        /\ g.proto = "vtl" /\ g.chunk = cnt_pkt + 1
        /\ g.len = Max({HDR_SIZE + d, link.min_frame})
        /\ g.checksum = IF link.tc THEN 30 ELSE 0
        /\ wire' = Append(wire, g)
  BY Zenon, <1>1, <1>2, FrameSent
<1>6. cnt_pkt' = cnt_pkt + 1 /\ UNCHANGED <<link, file, dups, others, receiver, lost>>
  BY DEF SendDone
<1>7. \A k : fread(k)' = fread(k)
  BY <1>6 DEF fread
<1>8. TypeOK'
  <2>1. ip_len' \in Nat /\ ip_len' < 65536 /\ cnt_pkt' \in Nat
    BY <1>2, <1>3, <1>4, <1>6 DEF SendDone
  <2>2. snd' \in Places
    BY Zenon DEF SendDone, Places
  <2>3. SenderTypes'
    BY <1>1, <1>6, <2>1, <2>2 DEF TypeOK, SenderTypes
  <2>4. NetworkTypes'
    BY <1>1, <1>5, <1>6 DEF TypeOK, NetworkTypes
  <2>5. ReceiverTypes'
    BY Zenon, <1>1, <1>6 DEF TypeOK, ReceiverTypes, receiver
  <2>6. lost' \subseteq 1 .. cnt_pkt'
    BY <1>1, <1>2, <1>6 DEF TypeOK
  <2> QED
    BY <2>3, <2>4, <2>5, <2>6 DEF TypeOK
<1>9. Sending'
  <2>1. snd' = "sending" => cnt_pkt' * file'.datasize <= file'.filesize
    <3>1. snd' = "sending" => ~(d < file.datasize)
      BY Zenon DEF SendDone
    <3> QED
      BY <1>2, <1>6, <3>1
  <2>2. \A k \in 1 .. cnt_pkt' : fread(k)' \in Nat /\ Sendable(ip_pkt_size(fread(k)))'
    <3> SUFFICES ASSUME NEW k \in 1 .. cnt_pkt + 1
                 PROVE  fread(k) \in Nat /\ Sendable(ip_pkt_size(fread(k)))
      BY <1>6, <1>7 DEF Sendable, ip_pkt_size
    <3>1. CASE k = cnt_pkt + 1
      BY <1>2, <3>1 DEF SendDone
    <3>2. CASE k \in 1 .. cnt_pkt
      BY <1>1, <3>2 DEF Sending
    <3> QED
      BY <1>2, <3>1, <3>2
  <2>3. ip_len' = ip_pkt_size(fread(cnt_pkt))'
    <3>1. fread(cnt_pkt)' = d
      BY <1>6 DEF SendDone, fread
    <3>2. ip_len' = ip_pkt_size(d)
      BY <1>4 DEF SendDone
    <3> QED
      BY <3>1, <3>2 DEF ip_pkt_size
  <2> QED
    BY <2>1, <2>2, <2>3 DEF Sending
<1>10. Genuine(g)'
  <2>1. fread(g.chunk)' = d
    BY <1>5, <1>7 DEF SendDone
  <2>2. g.chunk \in 1 .. cnt_pkt'
    BY <1>2, <1>5, <1>6
  <2> QED
    BY <1>5, <1>6, <2>1, <2>2 DEF Genuine
<1>11. Frames'
  BY <1>1, <1>2, <1>5, <1>6, <1>10, FramesAppend DEF receiver
<1>12. \A h \in OnWire \cup Accepted : Before(h, g)
  <2>1. \A h \in OnWire \cup Accepted : h.proto = "vtl" => h.chunk \in 1 .. cnt_pkt
    BY <1>1 DEF Frames, Genuine
  <2> QED
    BY <1>2, <1>5, <2>1 DEF Before
<1>13. Ranks' /\ Ordered'
  BY <1>1, <1>5, <1>6, <1>12, RanksKept, OrderedAppend DEF receiver
<1> QED
  BY <1>8, <1>9, <1>11, <1>13 DEF IInv

\* One turn of the sending loop keeps the invariant.
LEMMA SendStep == IInv /\ SendChunk => IInv'
<1>1. SendChunk => SendFailed \/ SendDone(fread(cnt_pkt + 1))
  BY DEF SendChunk, vtl_send, SendFailed, SendDone
<1> QED
  BY <1>1, SendFails, SendWorks

\* A frame of another process carries no chunk.
LEMMA OtherSent ==
  ASSUME TypeOK, OtherTraffic
  PROVE  \E g \in Frame : /\ g.proto # "vtl" /\ g.chunk = 0
                          /\ g.proto = "other" => g.checksum = 0
                          /\ wire' = Append(wire, g)
<1>1. PICK f \in Frame : /\ f.proto \in {"other", "alike"} /\ f.chunk = 0
                         /\ f.checksum = 0 /\ Transmit(f)
  <2>1. PICK proto \in {"other", "alike"}, len \in {ETH_HLEN, ETH_HLEN + IP4_HDRLEN, HDR_SIZE} :
          Transmit([proto |-> proto, chunk |-> 0, checksum |-> 0, len |-> len])
    BY DEF OtherTraffic
  <2>2. len \in Nat
    BY DEF HDR_SIZE, ETH_HLEN, IP4_HDRLEN, VTLHDR
  <2> QED
    BY <2>1, <2>2 DEF Frame
<1>2. PICK g \in Frame :
        /\ g.proto = f.proto /\ g.chunk = f.chunk
        /\ f.proto # "alike" => g.checksum = IF link.tc /\ f.proto = "vtl" THEN 30 ELSE 0
        /\ wire' = Append(wire, g)
  BY <1>1, Transmitted
<1> QED
  BY <1>1, <1>2

\* Other traffic on the interface keeps the invariant.
LEMMA OtherStep == IInv /\ OtherTraffic => IInv'
<1> SUFFICES ASSUME IInv, OtherTraffic PROVE IInv'
  OBVIOUS
<1>0. TypeOK /\ Sending /\ Frames /\ Ranks /\ Ordered
  BY DEF IInv
<1>1. /\ others < MaxOther /\ others' = others + 1
      /\ UNCHANGED <<link, file, sender, dups, receiver, lost>>
  BY DEF OtherTraffic
<1>2. PICK g \in Frame : /\ g.proto # "vtl" /\ g.chunk = 0
                         /\ g.proto = "other" => g.checksum = 0
                         /\ wire' = Append(wire, g)
  BY <1>0, OtherSent
<1>3. g \in Frame /\ g.proto # "vtl" /\ wire' = Append(wire, g)
  BY <1>2
<1>4. TypeOK'
  <2>1. SenderTypes'
    BY <1>0, <1>1 DEF TypeOK, SenderTypes, sender
  <2>2. others \in 0 .. MaxOther /\ MaxOther \in Nat
    BY <1>0, DataPathAssumption DEF TypeOK, NetworkTypes
  <2>3. others' \in 0 .. MaxOther
    BY <1>1, <2>2
  <2>4. NetworkTypes'
    BY <1>0, <1>1, <1>3, <2>3 DEF TypeOK, NetworkTypes
  <2>5. ReceiverTypes'
    BY Zenon, <1>0, <1>1 DEF TypeOK, ReceiverTypes, receiver
  <2> QED
    BY <1>0, <1>1, <2>1, <2>4, <2>5 DEF TypeOK, sender
<1>5. Genuine(g)'
  <2>1. g.proto \in {"alike", "other"}
    BY <1>2 DEF Frame
  <2> QED
    BY <1>2, <2>1 DEF Genuine
<1>6. cnt_pkt \in Nat /\ cnt_pkt' = cnt_pkt
  BY <1>0, <1>1, Types DEF sender
<1>7. Frames'
  BY <1>0, <1>1, <1>3, <1>5, <1>6, FramesAppend DEF receiver
<1>8. \A h \in OnWire \cup Accepted : Before(h, g)
  BY <1>3 DEF Before
<1>9. Sending' /\ Ranks' /\ Ordered'
  BY <1>0, <1>1, <1>3, <1>8, SendingKept, RanksKept, OrderedAppend DEF receiver
<1> QED
  BY <1>4, <1>7, <1>9 DEF IInv

\* The order on the wire is enough when nothing arrives.
LEMMA OrderedWire ==
  ASSUME Ordered, UNCHANGED <<link, arrived>>, OnWire' \subseteq OnWire,
         "reorder" \notin link.faults =>
           \A j, k \in 1 .. Len(wire') : j < k => Before(wire'[j], wire'[k])
  PROVE  Ordered'
<1> SUFFICES ASSUME "reorder" \notin link.faults PROVE Ordered'
  BY DEF Ordered
<1>1. \A f, h : Before(f, h)' <=> Before(f, h)
  BY DEF Before
<1>2. \A f \in Accepted', h \in OnWire' : Before(f, h)'
  BY <1>1 DEF Ordered, Accepted
<1>3. \A j, k \in 1 .. Len(wire') : j < k => Before(wire[j], wire[k])'
  BY DEF Before
<1>4. \A j, k \in 1 .. Len(arrived') : j < k => Before(arrived[j], arrived[k])'
  BY DEF Ordered, Before
<1> QED
  BY <1>2, <1>3, <1>4 DEF Ordered

\* A frame leaves the wire.
LEMMA WireLess ==
  ASSUME TypeOK, Ordered, NEW i \in DOMAIN wire, wire' = Without(i)
  PROVE  /\ wire' \in Seq(Frame) /\ OnWire' \subseteq OnWire
         /\ "reorder" \notin link.faults =>
              \A j, k \in 1 .. Len(wire') : j < k => Before(wire'[j], wire'[k])
         /\ "reorder" \notin link.faults /\ i = 1 =>
              \A h \in OnWire' : Before(wire[1], h)
<1> DEFINE at(j) == IF j < i THEN j ELSE j + 1
<1>1. wire \in Seq(Frame) /\ Len(wire) \in Nat /\ i \in 1 .. Len(wire)
  BY Types
<1>2. /\ wire' \in Seq(Frame) /\ Len(wire') = Len(wire) - 1
      /\ \A j \in 1 .. Len(wire) - 1 : wire'[j] = wire[at(j)]
  BY <1>1, WithoutIs
<1>3. /\ \A j \in 1 .. Len(wire) - 1 : at(j) \in 1 .. Len(wire)
      /\ \A j, k \in 1 .. Len(wire) - 1 : j < k => at(j) < at(k)
      /\ i = 1 => \A j \in 1 .. Len(wire) - 1 : 1 < at(j)
  BY <1>1
<1> HIDE DEF at
<1>4. OnWire' \subseteq OnWire
  BY SMTT(60), <1>1, <1>2, <1>3 DEF OnWire
<1>5. ASSUME "reorder" \notin link.faults
      PROVE  \A j, k \in 1 .. Len(wire') : j < k => Before(wire'[j], wire'[k])
  BY <1>2, <1>3, <1>5 DEF Ordered
<1>6. ASSUME "reorder" \notin link.faults, i = 1, NEW h \in OnWire'
      PROVE  Before(wire[1], h)
  <2>1. PICK j \in 1 .. Len(wire) - 1 : h = wire[at(j)]
    BY <1>2 DEF OnWire
  <2>2. at(j) \in 1 .. Len(wire) /\ 1 < at(j) /\ 1 \in 1 .. Len(wire)
    BY <1>1, <1>3, <1>6
  <2> QED
    BY <1>6, <2>1, <2>2 DEF Ordered
<1> QED
  BY <1>2, <1>4, <1>5, <1>6

\* What the ghost records of a frame was sent.
LEMMA LostSent ==
  ASSUME TypeOK, Frames, NEW f \in OnWire, Gone(f), cnt_pkt' = cnt_pkt
  PROVE  lost' \subseteq 1 .. cnt_pkt'
<1>1. f.proto = "vtl" => f.chunk \in 1 .. cnt_pkt
  BY DEF Frames, Genuine
<1> QED
  BY <1>1 DEF Gone, TypeOK

\* A lost frame keeps the invariant.
LEMMA LoseStep == IInv /\ Lose => IInv'
<1> SUFFICES ASSUME IInv, Lose PROVE IInv'
  OBVIOUS
<1>0. TypeOK /\ Sending /\ Frames /\ Ranks /\ Ordered
  BY DEF IInv
<1>1. UNCHANGED <<link, file, sender, dups, others, receiver>>
  BY DEF Lose
<1>2. PICK i \in DOMAIN wire : wire' = Without(i) /\ Gone(wire[i])
  BY DEF Lose
<1>3. /\ wire' \in Seq(Frame) /\ OnWire' \subseteq OnWire
      /\ "reorder" \notin link.faults =>
           \A j, k \in 1 .. Len(wire') : j < k => Before(wire'[j], wire'[k])
  BY <1>0, <1>2, WireLess
<1>4. lost' \subseteq 1 .. cnt_pkt'
  <2>1. wire[i] \in OnWire
    BY DEF OnWire
  <2> QED
    BY <1>0, <1>1, <1>2, <2>1, LostSent DEF sender
<1>5. TypeOK'
  <2>1. SenderTypes'
    BY <1>0, <1>1 DEF TypeOK, SenderTypes, sender
  <2>2. NetworkTypes'
    BY <1>0, <1>1, <1>3 DEF TypeOK, NetworkTypes
  <2>3. ReceiverTypes'
    BY Zenon, <1>0, <1>1 DEF TypeOK, ReceiverTypes, receiver
  <2> QED
    BY <1>4, <2>1, <2>2, <2>3 DEF TypeOK
<1>6. Accepted' = Accepted
  BY <1>1 DEF Accepted, receiver
<1>7. Frames'
  BY <1>0, <1>1, <1>3, <1>6, Types, FramesKept DEF sender
<1>8. Ordered'
  BY <1>0, <1>1, <1>3, OrderedWire DEF receiver
<1>9. Sending' /\ Ranks'
  BY <1>0, <1>1, SendingKept, RanksKept
<1> QED
  BY <1>5, <1>7, <1>8, <1>9 DEF IInv

\* A duplicated frame keeps the invariant.
LEMMA DuplicateStep == IInv /\ Duplicate => IInv'
<1> SUFFICES ASSUME IInv, Duplicate PROVE IInv'
  OBVIOUS
<1>0. TypeOK /\ Sending /\ Frames /\ Ranks /\ Ordered
  BY DEF IInv
<1>1. /\ "duplicate" \in link.faults /\ dups < MaxDup /\ dups' = dups + 1
      /\ UNCHANGED <<link, file, sender, others, receiver, lost>>
  BY DEF Duplicate
<1> DEFINE n == Len(wire)
<1>2. wire \in Seq(Frame) /\ n \in Nat /\ DOMAIN wire = 1 .. n
  BY <1>0, Types
<1>3. PICK i \in 1 .. n : wire' = SubSeq(wire, 1, i) \o SubSeq(wire, i, Len(wire))
  BY <1>2 DEF Duplicate
<1> DEFINE at(j) == IF j <= i THEN j ELSE j - 1
<1>4. /\ wire' \in Seq(Frame) /\ Len(wire') = n + 1
      /\ \A j \in 1 .. n + 1 : wire'[j] = wire[at(j)]
  BY <1>2, <1>3, TwiceIs
<1>5. /\ \A j \in 1 .. n + 1 : at(j) \in 1 .. n
      /\ \A j, k \in 1 .. n + 1 : j < k => at(j) < at(k) \/ at(j) = at(k)
  BY <1>2
<1> HIDE DEF at
<1>6. OnWire' \subseteq OnWire
  BY <1>2, <1>4, <1>5 DEF OnWire
<1>7. ASSUME "reorder" \notin link.faults, NEW j \in 1 .. Len(wire'), NEW k \in 1 .. Len(wire'), j < k
      PROVE  Before(wire'[j], wire'[k])
  <2>1. at(j) \in 1 .. n /\ at(k) \in 1 .. n /\ (at(j) < at(k) \/ at(j) = at(k))
    BY <1>4, <1>5, <1>7
  <2>2. wire'[j] = wire[at(j)] /\ wire'[k] = wire[at(k)]
    BY <1>4
  <2>3. CASE at(j) < at(k)
    BY <1>0, <1>7, <2>1, <2>2, <2>3 DEF Ordered
  <2>4. CASE at(j) = at(k)
    BY <1>1, <2>2, <2>4 DEF Before
  <2> QED
    BY <2>1, <2>3, <2>4
<1>8. TypeOK'
  <2>1. SenderTypes'
    BY <1>0, <1>1 DEF TypeOK, SenderTypes, sender
  <2>2. dups \in 0 .. MaxDup /\ MaxDup \in Nat
    BY <1>0, DataPathAssumption DEF TypeOK, NetworkTypes
  <2>3. dups' \in 0 .. MaxDup
    BY <1>1, <2>2
  <2>4. NetworkTypes'
    BY <1>0, <1>1, <1>4, <2>3 DEF TypeOK, NetworkTypes
  <2>5. ReceiverTypes'
    BY Zenon, <1>0, <1>1 DEF TypeOK, ReceiverTypes, receiver
  <2> QED
    BY <1>0, <1>1, <2>1, <2>4, <2>5 DEF TypeOK, sender
<1>9. Accepted' = Accepted
  BY <1>1 DEF Accepted, receiver
<1>10. Frames'
  BY <1>0, <1>1, <1>6, <1>9, Types, FramesKept DEF sender
<1>11. Ordered'
  BY <1>0, <1>1, <1>6, <1>7, OrderedWire DEF receiver
<1>12. Sending' /\ Ranks'
  BY <1>0, <1>1, SendingKept, RanksKept
<1> QED
  BY <1>8, <1>10, <1>11, <1>12 DEF IInv

\* A frame leaves the wire at the receiving host, which does not accept it.
LEMMA ArriveUnseen ==
  ASSUME IInv, NEW i \in DOMAIN wire, wire' = Without(i),
         UNCHANGED lost \/ Gone(wire[i]),
         UNCHANGED <<link, file, sender, dups, others, receiver>>
  PROVE  IInv'
<1>0. TypeOK /\ Sending /\ Frames /\ Ranks /\ Ordered
  BY DEF IInv
<1>1. /\ wire' \in Seq(Frame) /\ OnWire' \subseteq OnWire
      /\ "reorder" \notin link.faults =>
           \A j, k \in 1 .. Len(wire') : j < k => Before(wire'[j], wire'[k])
  BY <1>0, WireLess
<1>2. lost' \subseteq 1 .. cnt_pkt'
  <2>1. wire[i] \in OnWire
    BY DEF OnWire
  <2>2. CASE Gone(wire[i])
    BY <1>0, <2>1, <2>2, LostSent DEF sender
  <2>3. CASE UNCHANGED lost
    BY <1>0, <2>3 DEF TypeOK, sender
  <2> QED
    BY <2>2, <2>3
<1>3. TypeOK'
  <2>1. SenderTypes'
    BY <1>0 DEF TypeOK, SenderTypes, sender
  <2>2. NetworkTypes'
    BY <1>0, <1>1 DEF TypeOK, NetworkTypes
  <2>3. ReceiverTypes'
    BY Zenon, <1>0 DEF TypeOK, ReceiverTypes, receiver
  <2> QED
    BY <1>2, <2>1, <2>2, <2>3 DEF TypeOK
<1>4. Accepted' = Accepted
  BY DEF Accepted, receiver
<1>5. Frames'
  BY <1>0, <1>1, <1>4, Types, FramesKept DEF sender
<1>6. Ordered'
  BY <1>0, <1>1, OrderedWire DEF receiver
<1>7. Sending' /\ Ranks'
  BY <1>0, SendingKept, RanksKept
<1> QED
  BY <1>3, <1>5, <1>6, <1>7 DEF IInv

\* The receive path accepts a frame.
ArriveAccepted(i) ==
  /\ wire' = Without(i)
  /\ xdp_sock_prog(wire[i]) = "redirect" /\ Acceptable(wire[i])
  /\ PQ!Accept
  /\ arrived' = Append(arrived, wire[i])
  /\ UNCHANGED <<lost, link, file, sender, dups, others, listening, rx_file>>

\* A frame the program lets through joins the queue and keeps the invariant.
LEMMA ArriveSeen ==
  ASSUME IInv, NEW i \in Deliverable, ArriveAccepted(i)
  PROVE  IInv'
<1>0. TypeOK /\ Sending /\ Frames /\ Ranks /\ Ordered
  BY DEF IInv
<1>1. /\ wire' = Without(i) /\ arrived' = Append(arrived, wire[i])
      /\ queue' = Append(queue, Len(delivered) + Len(queue) + 1) /\ delivered' = delivered
      /\ UNCHANGED <<lost, link, file, sender, dups, others, listening, rx_file>>
  BY DEF ArriveAccepted, PQ!Accept
<1>2. wire[i].proto # "other" /\ wire[i].len <= FRAME_ROOM
  BY DEF ArriveAccepted, xdp_sock_prog, Acceptable
<1>3. i \in DOMAIN wire /\ ("reorder" \notin link.faults => i = 1)
  BY DEF Deliverable
<1> DEFINE f == wire[i]
<1>4. f \in Frame /\ f \in OnWire /\ Genuine(f)
  BY <1>0, <1>3, Types DEF OnWire, Frames
<1>5. /\ wire' \in Seq(Frame) /\ OnWire' \subseteq OnWire
      /\ "reorder" \notin link.faults =>
           \A j, k \in 1 .. Len(wire') : j < k => Before(wire'[j], wire'[k])
      /\ "reorder" \notin link.faults => \A h \in OnWire' : Before(f, h)
  BY <1>0, <1>1, <1>3, WireLess
<1> HIDE DEF f
<1>6. arrived' = Append(arrived, f) /\ f.proto # "other" /\ f.len <= FRAME_ROOM
  BY <1>1, <1>2 DEF f
<1>7. /\ arrived \in Seq(Frame) /\ arrived' \in Seq(Frame)
      /\ Len(arrived) \in Nat /\ Len(arrived') = Len(arrived) + 1
      /\ \A k \in 1 .. Len(arrived) : arrived'[k] = arrived[k] /\ arrived[k] \in Accepted
      /\ arrived'[Len(arrived) + 1] = f
  BY <1>0, <1>4, <1>6, Types DEF Accepted
<1>8. /\ Len(queue) \in Nat /\ Len(delivered) \in Nat
      /\ queue' \in Seq(Nat) /\ Len(queue') = Len(queue) + 1
      /\ \A k \in 1 .. Len(queue) : queue'[k] = queue[k]
      /\ queue'[Len(queue) + 1] = Len(delivered) + Len(queue) + 1
  BY <1>0, <1>1, Types
<1>9. TypeOK'
  <2>1. SenderTypes'
    BY <1>0, <1>1 DEF TypeOK, SenderTypes, sender
  <2>2. NetworkTypes'
    BY <1>0, <1>1, <1>5 DEF TypeOK, NetworkTypes
  <2>3. ReceiverTypes'
    BY Zenon, <1>0, <1>1, <1>7, <1>8 DEF TypeOK, ReceiverTypes
  <2> QED
    BY <1>0, <1>1, <2>1, <2>2, <2>3 DEF TypeOK, sender
<1>10. Accepted' \subseteq Accepted \cup {f}
  BY <1>7 DEF Accepted
<1>11. Frames'
  <2>1. \A h : Genuine(h) => Genuine(h)'
    BY <1>0, <1>1, Types, GenuineKept DEF sender
  <2> QED
    BY <1>0, <1>4, <1>5, <1>6, <1>10, <2>1 DEF Frames
<1>12. Ranks'
  <2>1. /\ Len(delivered) + Len(queue) = Len(arrived) /\ Len(rx_file) = Len(delivered)
        /\ \A j \in 1 .. Len(queue) : queue[j] = Len(delivered) + j
        /\ \A k \in 1 .. Len(rx_file) : rx_file[k] = Received(arrived[k])
    BY <1>0 DEF Ranks
  <2>0. delivered' = delivered /\ rx_file' = rx_file
    BY <1>1
  <2>2. Len(delivered') + Len(queue') = Len(arrived') /\ Len(rx_file') = Len(delivered')
    <3>1. Len(delivered) + (Len(queue) + 1) = Len(arrived) + 1
      BY <1>7, <1>8, <2>1
    <3> QED
      BY <1>7, <1>8, <2>0, <2>1, <3>1
  <2>3. \A j \in 1 .. Len(queue') : queue'[j] = Len(delivered') + j
    <3> SUFFICES ASSUME NEW j \in 1 .. Len(queue) + 1 PROVE queue'[j] = Len(delivered) + j
      BY <1>8, <2>0
    <3>1. CASE j \in 1 .. Len(queue)
      BY <1>8, <2>1, <3>1
    <3>2. CASE j = Len(queue) + 1
      BY <1>8, <3>2
    <3> QED
      BY <1>8, <3>1, <3>2
  <2>4. \A k \in 1 .. Len(rx_file) : k \in 1 .. Len(arrived) /\ arrived'[k] = arrived[k]
    BY <1>7, <1>8, <2>1
  <2>5. \A k \in 1 .. Len(rx_file') : rx_file'[k] = Received(arrived'[k])
    BY <1>1, <2>1, <2>4
  <2>6. \A k \in 1 .. Len(rx_file') : rx_file'[k] = Received(arrived[k])'
    BY <2>5 DEF Received, data_size, U32
  <2> QED
    BY <2>2, <2>3, <2>6 DEF Ranks
<1>13. Ordered'
  <2> SUFFICES ASSUME "reorder" \notin link.faults PROVE Ordered'
    BY <1>1 DEF Ordered
  <2>1. /\ \A j, k \in 1 .. Len(arrived) : j < k => Before(arrived[j], arrived[k])
        /\ \A g \in Accepted, h \in OnWire : Before(g, h)
    BY <1>0 DEF Ordered
  <2>2. \A g, h : Before(g, h)' <=> Before(g, h)
    BY <1>1 DEF Before
  <2>3. \A g \in Accepted', h \in OnWire' : Before(g, h)'
    BY <1>5, <1>10, <2>1, <2>2
  <2>4. ASSUME NEW j \in 1 .. Len(arrived'), NEW k \in 1 .. Len(arrived'), j < k
        PROVE  Before(arrived'[j], arrived'[k])
    <3>1. CASE k \in 1 .. Len(arrived)
      BY <1>7, <2>1, <2>4, <3>1
    <3>2. CASE k = Len(arrived) + 1
      <4>1. j \in 1 .. Len(arrived)
        BY <1>7, <2>4, <3>2
      <4> QED
        BY <1>4, <1>7, <2>1, <3>2, <4>1
    <3> QED
      BY <1>7, <3>1, <3>2
  <2>5. \A j, k \in 1 .. Len(arrived') : j < k => Before(arrived[j], arrived[k])'
    BY ZenonT(60), <1>1, <2>4 DEF Before
  <2>6. \A j, k \in 1 .. Len(wire') : j < k => Before(wire[j], wire[k])'
    BY SMTT(60), <1>1, <1>5 DEF Before
  <2> QED
    BY <2>3, <2>5, <2>6 DEF Ordered
<1>14. Sending'
  BY <1>0, <1>1, SendingKept
<1> QED
  BY <1>9, <1>11, <1>12, <1>13, <1>14 DEF IInv

\* A frame that reaches the receiver keeps the invariant.
LEMMA ArriveStep == IInv /\ Arrive => IInv'
<1> SUFFICES ASSUME IInv, Arrive PROVE IInv'
  OBVIOUS
<1>1. PICK i \in Deliverable :
        \/ ArriveAccepted(i)
        \/ /\ wire' = Without(i) /\ (UNCHANGED lost \/ Gone(wire[i]))
           /\ UNCHANGED <<link, file, sender, dups, others, receiver>>
  <2>1. PICK i \in Deliverable :
          /\ wire' = Without(i)
          /\ \/ /\ xdp_sock_prog(wire[i]) = "redirect" /\ Acceptable(wire[i])
                /\ PQ!Accept
                /\ arrived' = Append(arrived, wire[i])
                /\ UNCHANGED lost
             \/ /\ UNCHANGED lost \/ Gone(wire[i])
                /\ UNCHANGED <<queue, delivered, arrived>>
    BY Zenon DEF Arrive
  <2>2. UNCHANGED <<link, file, sender, dups, others, listening, rx_file>>
    BY DEF Arrive
  <2>3. CASE xdp_sock_prog(wire[i]) = "redirect" /\ Acceptable(wire[i]) /\ PQ!Accept
             /\ arrived' = Append(arrived, wire[i]) /\ UNCHANGED lost
    BY <2>1, <2>2, <2>3 DEF ArriveAccepted
  <2>4. CASE (UNCHANGED lost \/ Gone(wire[i])) /\ UNCHANGED <<queue, delivered, arrived>>
    BY <2>1, <2>2, <2>4 DEF receiver
  <2> QED
    BY Zenon, <2>1, <2>3, <2>4
<1>2. i \in DOMAIN wire
  BY DEF Deliverable
<1>3. CASE ArriveAccepted(i)
  BY <1>3, ArriveSeen
<1>4. CASE /\ wire' = Without(i) /\ (UNCHANGED lost \/ Gone(wire[i]))
           /\ UNCHANGED <<link, file, sender, dups, others, receiver>>
  BY <1>2, <1>4, ArriveUnseen
<1> QED
  BY <1>1, <1>3, <1>4

\* What process_packet finds in a frame of VTL's the receive path accepted.
LEMMA FrameData ==
  ASSUME TypeOK, Sending, Frames, NEW f \in Accepted, f.proto = "vtl"
  PROVE  /\ f.chunk \in 1 .. cnt_pkt
         /\ data_size(f.len) >= fread(f.chunk)
         /\ HDR_SIZE + fread(f.chunk) >= link.min_frame => data_size(f.len) = fread(f.chunk)
         /\ HDR_SIZE + data_size(f.len) <= FRAME_ROOM
<1> DEFINE k == fread(f.chunk)
           m == link.min_frame
<1>1. /\ f.chunk \in 1 .. cnt_pkt /\ f.chunk \in Nat /\ f.len <= FRAME_ROOM
      /\ f.len = Max({HDR_SIZE + k, m})
  <2>1. Genuine(f) /\ f.len <= FRAME_ROOM
    BY DEF Frames
  <2>2. f.chunk \in 1 .. cnt_pkt /\ f.len = Max({HDR_SIZE + k, m})
    BY <2>1 DEF Genuine
  <2> HIDE DEF k, m
  <2>3. f.chunk \in Nat
    BY <2>2, Types
  <2> QED
    BY <2>1, <2>2, <2>3
<1>2. k \in Nat /\ m \in Nat
  BY <1>1, CaseAtHand DEF Sending
<1> HIDE DEF k, m
<1>3. f.len = IF 36 + k >= m THEN 36 + k ELSE m
  <2>1. HDR_SIZE + k = 36 + k /\ 36 + k \in Int /\ m \in Int
    BY <1>2 DEF HDR_SIZE, ETH_HLEN, IP4_HDRLEN, VTLHDR
  <2> QED
    BY <1>1, <2>1, MaxOfTwo
<1>4. f.len - HDR_SIZE \in Nat /\ f.len - HDR_SIZE < UintMod /\ UintMod \in Nat
  BY <1>1, <1>2, <1>3, DataPathAssumption
  DEF HDR_SIZE, ETH_HLEN, IP4_HDRLEN, VTLHDR, FRAME_ROOM
<1>5. data_size(f.len) = f.len - HDR_SIZE
  <2> DEFINE x == f.len - HDR_SIZE
  <2> HIDE DEF x
  <2>1. x % UintMod = x
    BY <1>4, SmallMod DEF x
  <2> QED
    BY <2>1 DEF data_size, U32, x
<1>6. /\ f.len - HDR_SIZE >= k
      /\ HDR_SIZE + k >= m => f.len - HDR_SIZE = k
      /\ HDR_SIZE + (f.len - HDR_SIZE) <= FRAME_ROOM
  BY <1>1, <1>2, <1>3 DEF HDR_SIZE, ETH_HLEN, IP4_HDRLEN, VTLHDR, FRAME_ROOM
<1> QED
  BY <1>1, <1>4, <1>5, <1>6 DEF k, m

\* What process_packet computes of any frame is an unsigned int.
LEMMA DataSizeType ==
  ASSUME NEW len \in Nat
  PROVE  data_size(len) \in Nat
<1>1. len - HDR_SIZE \in Int /\ UintMod \in Nat /\ UintMod > 0
  BY DataPathAssumption DEF HDR_SIZE, ETH_HLEN, IP4_HDRLEN, VTLHDR
<1> QED
  BY <1>1, ModRange DEF data_size, U32

\* process_packet keeps the invariant.
LEMMA ProcessStep == IInv /\ process_packet => IInv'
<1> SUFFICES ASSUME IInv, process_packet PROVE IInv'
  OBVIOUS
<1>0. TypeOK /\ Sending /\ Frames /\ Ranks /\ Ordered
  BY DEF IInv
<1>1. /\ queue # <<>> /\ delivered' = Append(delivered, Head(queue)) /\ queue' = Tail(queue)
      /\ rx_file' = Append(rx_file, Received(arrived[Head(queue)]))
      /\ UNCHANGED <<link, file, sender, network, listening, arrived, lost>>
  BY DEF process_packet, PQ!Deliver, Received
<1>2. /\ Len(delivered) + Len(queue) = Len(arrived) /\ Len(rx_file) = Len(delivered)
      /\ \A j \in 1 .. Len(queue) : queue[j] = Len(delivered) + j
      /\ \A k \in 1 .. Len(rx_file) : rx_file[k] = Received(arrived[k])
  BY <1>0 DEF Ranks
<1>3. /\ queue \in Seq(Nat) /\ Len(queue) \in Nat /\ Len(queue) >= 1 /\ Head(queue) = queue[1]
      /\ queue' \in Seq(Nat) /\ Len(queue') = Len(queue) - 1
      /\ \A j \in 1 .. Len(queue) - 1 : queue'[j] = queue[j + 1]
  BY <1>0, <1>1, Types
<1>4. delivered \in Seq(Nat) /\ Len(delivered) \in Nat /\ arrived \in Seq(Frame) /\ rx_file \in Seq(Piece)
  BY <1>0, Types
<1> DEFINE f == arrived[Len(delivered) + 1]
<1>5. Head(queue) = Len(delivered) + 1 /\ Len(delivered) + 1 \in 1 .. Len(arrived)
  BY <1>2, <1>3, <1>4
<1>6. rx_file' = Append(rx_file, Received(f)) /\ f \in Accepted
  BY <1>1, <1>4, <1>5 DEF Accepted
<1>7. Received(f) \in Piece
  <2>0. f \in Frame
    BY <1>4, <1>5
  <2> HIDE DEF f
  <2>1. f.chunk \in Nat /\ data_size(f.len) \in Nat
    BY <2>0, DataSizeType DEF Frame
  <2> QED
    BY <2>1 DEF Received, Piece
<1>8. /\ delivered' \in Seq(Nat) /\ Len(delivered') = Len(delivered) + 1
      /\ rx_file' \in Seq(Piece) /\ Len(rx_file') = Len(rx_file) + 1
      /\ \A k \in 1 .. Len(rx_file) : rx_file'[k] = rx_file[k]
      /\ rx_file'[Len(rx_file) + 1] = Received(f)
  <2>1. /\ delivered' \in Seq(Nat) /\ Len(delivered') = Len(delivered) + 1
    BY <1>1, <1>4, <1>5
  <2> HIDE DEF f
  <2> QED
    BY <1>4, <1>6, <1>7, <2>1, AppendProperties
<1>9. TypeOK'
  <2>1. SenderTypes'
    BY <1>0, <1>1 DEF TypeOK, SenderTypes, sender
  <2>2. NetworkTypes'
    BY <1>0, <1>1 DEF TypeOK, NetworkTypes, network
  <2>3. ReceiverTypes'
    BY Zenon, <1>0, <1>1, <1>3, <1>8 DEF TypeOK, ReceiverTypes
  <2> QED
    BY <1>0, <1>1, <2>1, <2>2, <2>3 DEF TypeOK, sender
<1>10. Ranks'
  <2>1. Len(delivered') + Len(queue') = Len(arrived') /\ Len(rx_file') = Len(delivered')
    BY <1>1, <1>2, <1>3, <1>4, <1>8
  <2>2. \A j \in 1 .. Len(queue') : queue'[j] = Len(delivered') + j
    <3> SUFFICES ASSUME NEW j \in 1 .. Len(queue) - 1
                 PROVE  queue'[j] = Len(delivered) + 1 + j
      BY <1>3, <1>8
    <3>1. j + 1 \in 1 .. Len(queue) /\ queue'[j] = queue[j + 1]
      BY <1>3
    <3>2. queue[j + 1] = Len(delivered) + (j + 1)
      BY <1>2, <3>1
    <3> QED
      BY <1>4, <3>1, <3>2
  <2>3. \A k \in 1 .. Len(rx_file') : rx_file'[k] = Received(arrived[k])
    <3> SUFFICES ASSUME NEW k \in 1 .. Len(rx_file') PROVE rx_file'[k] = Received(arrived[k])
      OBVIOUS
    <3>1. CASE k \in 1 .. Len(rx_file)
      BY <1>2, <1>8, <3>1
    <3>2. CASE k = Len(rx_file) + 1
      BY <1>2, <1>8, <3>2
    <3> QED
      BY <1>2, <1>4, <1>8, <3>1, <3>2
  <2>4. \A k \in 1 .. Len(rx_file') : rx_file'[k] = Received(arrived[k])'
    BY <1>1, <2>3 DEF Received, data_size, U32
  <2> QED
    BY <2>1, <2>2, <2>4 DEF Ranks
<1>11. OnWire' = OnWire /\ Accepted' = Accepted
  BY <1>1 DEF OnWire, Accepted, network
<1>12. Frames'
  BY <1>0, <1>1, <1>11, Types, FramesKept DEF sender
<1>13. Sending' /\ Ordered'
  BY <1>0, <1>1, SendingKept, OrderedKept DEF network
<1> QED
  BY <1>9, <1>10, <1>12, <1>13 DEF IInv

\* Steps that change neither sender, network, queue nor file.
LEMMA ListenStep == IInv /\ (Listen \/ UNCHANGED vars) => IInv'
<1> SUFFICES ASSUME IInv, Listen \/ UNCHANGED vars PROVE IInv'
  OBVIOUS
<1>0. TypeOK /\ Sending /\ Frames /\ Ranks /\ Ordered
  BY DEF IInv
<1>1. UNCHANGED <<link, file, sender, network, queue, delivered, arrived, rx_file, lost>>
  BY DEF Listen, vars, receiver
<1>2. listening' \in BOOLEAN
  BY Zenon, <1>0 DEF TypeOK, ReceiverTypes, Listen, vars, receiver
<1>3. TypeOK'
  <2>1. SenderTypes'
    BY <1>0, <1>1 DEF TypeOK, SenderTypes, sender
  <2>2. NetworkTypes'
    BY <1>0, <1>1 DEF TypeOK, NetworkTypes, network
  <2>3. ReceiverTypes'
    BY Zenon, <1>0, <1>1, <1>2 DEF TypeOK, ReceiverTypes
  <2> QED
    BY <1>0, <1>1, <2>1, <2>2, <2>3 DEF TypeOK, sender
<1>4. OnWire' = OnWire /\ Accepted' = Accepted
  BY <1>1 DEF OnWire, Accepted, network
<1>5. Frames'
  BY <1>0, <1>1, <1>4, Types, FramesKept DEF sender
<1>6. Sending' /\ Ordered'
  BY <1>0, <1>1, SendingKept, OrderedKept DEF network
<1>7. Ranks'
  BY <1>0, <1>1 DEF Ranks, Received, data_size, U32
<1> QED
  BY <1>3, <1>5, <1>6, <1>7 DEF IInv

\* Every step keeps the invariant.
LEMMA Inductive == IInv /\ [Next]_vars => IInv'
  BY SendStep, OtherStep, LoseStep, DuplicateStep, ArriveStep, ProcessStep, ListenStep DEF Next

\* The invariant holds in every state.
LEMMA Invariance == Spec => []IInv
  BY Initially, Inductive, PTL DEF Spec

-----------------------------------------------------------------------------
(* No chunk vanishes.                                                      *)

\* The chunks under way, and those the receive path holds.
Carried == {f.chunk : f \in {g \in OnWire : g.proto = "vtl"}}
Queued  == {arrived[queue[j]].chunk : j \in DOMAIN queue}

\* Every chunk sent is on the wire, accepted, or known to be lost.
Kept ==
  \A k \in 1 .. cnt_pkt :
    \/ k \in lost
    \/ \E f \in OnWire : f.proto = "vtl" /\ f.chunk = k
    \/ \E f \in Accepted : f.chunk = k

\* What was sent is in the receiver's file, in its umem, on the wire, or lost
\* outside the programs.
SentIsKept ==
  1 .. cnt_pkt = ((Chunks(rx_file) \cup Queued) \ {0}) \cup Carried \cup lost

\* On a link that neither duplicates nor reorders, what client-stream has written is
\* what server-stream read, chunk by chunk and without a gap, as long as nothing was
\* lost and nothing else taken for VTL's; and all of it once nothing is under way.
FaithfulCopy ==
  /\ lost = {} /\ {"duplicate", "reorder"} \cap link.faults = {}
  /\ \A f \in Accepted : f.proto = "vtl"
  =>
    /\ \A i \in DOMAIN rx_file : rx_file[i].chunk = i
    /\ Carried = {} /\ queue = <<>> => Len(rx_file) = cnt_pkt

\* Steps that send nothing: each frame of VTL's stays, is accepted or recorded.
LEMMA KeptFrames ==
  ASSUME Kept, cnt_pkt' = cnt_pkt, lost \subseteq lost', Accepted \subseteq Accepted',
         \A f \in OnWire : f.proto = "vtl" => f \in OnWire' \/ f \in Accepted' \/ f.chunk \in lost'
  PROVE  Kept'
<1> SUFFICES ASSUME NEW k \in 1 .. cnt_pkt
             PROVE  \/ k \in lost'
                    \/ \E f \in OnWire' : f.proto = "vtl" /\ f.chunk = k
                    \/ \E f \in Accepted' : f.chunk = k
  BY DEF Kept
<1>1. CASE k \in lost
  BY <1>1
<1>2. CASE \E f \in OnWire : f.proto = "vtl" /\ f.chunk = k
  BY <1>2
<1>3. CASE \E f \in Accepted : f.chunk = k
  BY <1>3
<1> QED BY <1>1, <1>2, <1>3 DEF Kept

\* A frame more on the wire.
LEMMA WireMore ==
  ASSUME wire \in Seq(Frame), NEW g \in Frame, wire' = Append(wire, g)
  PROVE  OnWire \subseteq OnWire' /\ g \in OnWire'
<1>1. /\ Len(wire) \in Nat /\ Len(wire') = Len(wire) + 1 /\ wire' \in Seq(Frame)
      /\ \A j \in 1 .. Len(wire) : wire'[j] = wire[j]
      /\ wire'[Len(wire) + 1] = g
  BY AppendProperties
<1>2. DOMAIN wire = 1 .. Len(wire) /\ DOMAIN wire' = 1 .. Len(wire) + 1
  BY <1>1
<1> QED BY <1>1, <1>2 DEF OnWire

\* What stays on the wire when a frame leaves it.
LEMMA WireRest ==
  ASSUME wire \in Seq(Frame), NEW i \in DOMAIN wire, wire' = Without(i)
  PROVE  OnWire \subseteq OnWire' \cup {wire[i]}
<1>1. /\ wire' \in Seq(Frame) /\ Len(wire') = Len(wire) - 1
      /\ \A j \in 1 .. Len(wire) - 1 : wire'[j] = wire[IF j < i THEN j ELSE j + 1]
  BY WithoutIs
<1>2. /\ Len(wire) \in Nat /\ DOMAIN wire = 1 .. Len(wire) /\ i \in 1 .. Len(wire)
      /\ DOMAIN wire' = 1 .. Len(wire) - 1
  BY <1>1
<1> SUFFICES ASSUME NEW k \in 1 .. Len(wire), k # i PROVE wire[k] \in OnWire'
  BY <1>2 DEF OnWire
<1> DEFINE j == IF k < i THEN k ELSE k - 1
<1>3. j \in 1 .. Len(wire) - 1 /\ k = IF j < i THEN j ELSE j + 1
  BY <1>2
<1> HIDE DEF j
<1>4. wire'[j] = wire[k] /\ j \in DOMAIN wire'
  BY <1>1, <1>2, <1>3
<1> QED BY <1>4 DEF OnWire

\* A chunk is sent, or could not be.
LEMMA KeptSend == IInv /\ Kept /\ SendChunk => Kept'
<1> SUFFICES ASSUME IInv, Kept, SendChunk PROVE Kept'
  OBVIOUS
<1>0. TypeOK /\ Sending /\ cnt_pkt \in Nat /\ wire \in Seq(Frame)
  BY Types DEF IInv
<1>1. SendFailed \/ SendDone(fread(cnt_pkt + 1))
  BY DEF SendChunk, vtl_send, SendFailed, SendDone
<1>2. CASE SendFailed
  <2>1. UNCHANGED <<cnt_pkt, lost, wire, arrived>>
    BY <1>2 DEF SendFailed, receiver
  <2>2. OnWire' = OnWire /\ Accepted' = Accepted
    BY <2>1 DEF OnWire, Accepted
  <2> QED BY <2>1, <2>2, KeptFrames
<1>3. CASE SendDone(fread(cnt_pkt + 1))
  <2> DEFINE d == fread(cnt_pkt + 1)
  <2>1. d \in Nat
    BY <1>0, <1>3, NextChunk DEF SendDone
  <2> HIDE DEF d
  <2>2. SendDone(d)
    BY <1>3 DEF d
  <2>3. PICK g \in Frame : g.proto = "vtl" /\ g.chunk = cnt_pkt + 1 /\ wire' = Append(wire, g)
    BY <1>0, <2>1, <2>2, FrameSent
  <2>4. cnt_pkt' = cnt_pkt + 1 /\ UNCHANGED <<lost, arrived>>
    BY <2>2 DEF SendDone, receiver
  <2>5. OnWire \subseteq OnWire' /\ g \in OnWire' /\ Accepted' = Accepted
    BY <1>0, <2>3, <2>4, WireMore DEF Accepted
  <2>6. \A k \in 1 .. cnt_pkt' : k \in 1 .. cnt_pkt \/ k = g.chunk
    BY <1>0, <2>3, <2>4
  <2> QED BY <2>3, <2>4, <2>5, <2>6 DEF Kept
<1> QED BY <1>1, <1>2, <1>3

\* What other processes and a duplicating link add hides nothing.
LEMMA KeptMore == IInv /\ Kept /\ (OtherTraffic \/ Duplicate) => Kept'
<1> SUFFICES ASSUME IInv, Kept, OtherTraffic \/ Duplicate PROVE Kept'
  OBVIOUS
<1>0. TypeOK /\ wire \in Seq(Frame)
  BY Types DEF IInv
<1>1. UNCHANGED <<cnt_pkt, lost, arrived>>
  BY DEF OtherTraffic, Duplicate, sender, receiver
<1>2. OnWire \subseteq OnWire'
  <2>1. CASE OtherTraffic
    <3>1. PICK g \in Frame : wire' = Append(wire, g)
      BY <1>0, <2>1, OtherSent
    <3> QED BY <1>0, <3>1, WireMore
  <2>2. CASE Duplicate
    <3>0. DOMAIN wire = 1 .. Len(wire)
      BY <1>0
    <3>1. PICK i \in 1 .. Len(wire) : wire' = SubSeq(wire, 1, i) \o SubSeq(wire, i, Len(wire))
      BY <2>2, <3>0 DEF Duplicate
    <3>2. /\ wire' \in Seq(Frame) /\ Len(wire') = Len(wire) + 1
          /\ \A j \in 1 .. Len(wire) + 1 : wire'[j] = wire[IF j <= i THEN j ELSE j - 1]
      BY <1>0, <3>1, TwiceIs
    <3>3. Len(wire) \in Nat /\ DOMAIN wire = 1 .. Len(wire) /\ DOMAIN wire' = 1 .. Len(wire) + 1
      BY <1>0, <3>2
    <3> SUFFICES ASSUME NEW k \in 1 .. Len(wire) PROVE wire[k] \in OnWire'
      BY <3>3 DEF OnWire
    <3> DEFINE j == IF k <= i THEN k ELSE k + 1
    <3>4. j \in 1 .. Len(wire) + 1 /\ k = IF j <= i THEN j ELSE j - 1
      BY <3>3
    <3> HIDE DEF j
    <3>5. wire'[j] = wire[k] /\ j \in DOMAIN wire'
      BY <3>2, <3>3, <3>4
    <3> QED BY <3>5 DEF OnWire
  <2> QED BY <2>1, <2>2
<1>3. Accepted' = Accepted
  BY <1>1 DEF Accepted
<1> QED BY <1>1, <1>2, <1>3, KeptFrames

\* A frame the link loses is recorded.
LEMMA KeptLose == IInv /\ Kept /\ Lose => Kept'
<1> SUFFICES ASSUME IInv, Kept, Lose PROVE Kept'
  OBVIOUS
<1>0. TypeOK /\ wire \in Seq(Frame)
  BY Types DEF IInv
<1>1. PICK i \in DOMAIN wire : wire' = Without(i) /\ Gone(wire[i])
  BY DEF Lose
<1>2. UNCHANGED <<cnt_pkt, arrived>>
  BY DEF Lose, sender, receiver
<1>3. OnWire \subseteq OnWire' \cup {wire[i]}
  BY <1>0, <1>1, WireRest
<1>4. lost \subseteq lost' /\ (wire[i].proto = "vtl" => wire[i].chunk \in lost')
  BY <1>1 DEF Gone
<1>5. Accepted' = Accepted
  BY <1>2 DEF Accepted
<1> QED BY <1>2, <1>3, <1>4, <1>5, KeptFrames

\* Headers and padding make every VTL frame long enough for bpf_xdp.c.
LEMMA LongEnough ==
  ASSUME TypeOK, Sending, Frames, NEW f \in OnWire, f.proto = "vtl"
  PROVE  xdp_sock_prog(f) = IF listening THEN "redirect" ELSE "pass"
<1> DEFINE k == fread(f.chunk)
           m == link.min_frame
<1>1. f.chunk \in 1 .. cnt_pkt /\ f.len = Max({HDR_SIZE + k, m})
  BY DEF Frames, Genuine
<1>2. k \in Nat /\ m \in Nat
  BY <1>1, CaseAtHand DEF Sending
<1> HIDE DEF k, m
<1>3. HDR_SIZE + k = 36 + k /\ 36 + k \in Int /\ m \in Int
  BY <1>2 DEF HDR_SIZE, ETH_HLEN, IP4_HDRLEN, VTLHDR
<1>4. f.len = IF 36 + k >= m THEN 36 + k ELSE m
  BY <1>1, <1>3, MaxOfTwo
<1>5. ~ f.len < ETH_HLEN + IP4_HDRLEN
  BY <1>2, <1>4 DEF ETH_HLEN, IP4_HDRLEN
<1> QED BY <1>5 DEF xdp_sock_prog

\* A frame of VTL's that arrives is accepted or recorded: the XDP program drops
\* none, and passes none on while the receiver listens.
LEMMA KeptArrive == IInv /\ Kept /\ Arrive => Kept'
<1> SUFFICES ASSUME IInv, Kept, Arrive PROVE Kept'
  OBVIOUS
<1>0. TypeOK /\ Sending /\ Frames /\ wire \in Seq(Frame) /\ arrived \in Seq(Frame)
  BY Types DEF IInv
<1>1. PICK i \in Deliverable :
        /\ wire' = Without(i)
        /\ \/ arrived' = Append(arrived, wire[i]) /\ UNCHANGED lost
           \/ Gone(wire[i]) /\ UNCHANGED arrived
           \/ /\ xdp_sock_prog(wire[i]) = "pass" /\ listening
              /\ UNCHANGED <<arrived, lost>>
           \/ xdp_sock_prog(wire[i]) = "drop" /\ UNCHANGED <<arrived, lost>>
  BY Zenon DEF Arrive
<1>2. cnt_pkt' = cnt_pkt
  BY DEF Arrive, sender
<1> DEFINE f == wire[i]
<1>3. i \in DOMAIN wire /\ f \in OnWire /\ f \in Frame
  BY <1>0 DEF Deliverable, OnWire
<1>4. OnWire \subseteq OnWire' \cup {f}
  BY <1>0, <1>1, <1>3, WireRest
<1> HIDE DEF f
<1>5. CASE arrived' = Append(arrived, f) /\ UNCHANGED lost
  <2>1. Accepted \subseteq Accepted' /\ f \in Accepted'
    <3>1. /\ Len(arrived) \in Nat /\ Len(arrived') = Len(arrived) + 1 /\ arrived' \in Seq(Frame)
          /\ \A j \in 1 .. Len(arrived) : arrived'[j] = arrived[j]
          /\ arrived'[Len(arrived) + 1] = f
      BY <1>0, <1>3, <1>5, AppendProperties
    <3>2. DOMAIN arrived = 1 .. Len(arrived) /\ DOMAIN arrived' = 1 .. Len(arrived) + 1
      BY <1>0, <3>1
    <3> QED BY <3>1, <3>2 DEF Accepted
  <2> QED BY <1>2, <1>4, <1>5, <2>1, KeptFrames
<1>6. CASE Gone(f) /\ UNCHANGED arrived
  <2>1. lost \subseteq lost' /\ (f.proto = "vtl" => f.chunk \in lost') /\ Accepted' = Accepted
    BY <1>6 DEF Gone, Accepted
  <2> QED BY <1>2, <1>4, <2>1, KeptFrames
<1>7. CASE /\ xdp_sock_prog(f) = "drop" \/ (xdp_sock_prog(f) = "pass" /\ listening)
           /\ UNCHANGED <<arrived, lost>>
  <2>1. f.proto # "vtl"
    BY <1>0, <1>3, <1>7, LongEnough
  <2>2. Accepted' = Accepted
    BY <1>7 DEF Accepted
  <2>3. \A g \in OnWire : g.proto = "vtl" => g \in OnWire'
    BY <1>4, <2>1
  <2>4. lost' = lost
    BY <1>7
  <2> QED BY <1>2, <2>2, <2>3, <2>4, KeptFrames
<1> QED BY <1>1, <1>5, <1>6, <1>7 DEF f

\* Every step keeps what was sent.
LEMMA KeptKept == IInv /\ Kept /\ [Next]_vars => Kept'
<1> SUFFICES ASSUME IInv, Kept, [Next]_vars PROVE Kept'
  OBVIOUS
<1>1. CASE SendChunk \/ OtherTraffic \/ Lose \/ Duplicate \/ Arrive
  BY <1>1, KeptSend, KeptMore, KeptLose, KeptArrive
<1>2. CASE Listen \/ process_packet \/ UNCHANGED vars
  <2>1. UNCHANGED <<cnt_pkt, lost, wire, arrived>>
    BY <1>2 DEF Listen, process_packet, vars, sender, network, receiver
  <2>2. OnWire' = OnWire /\ Accepted' = Accepted
    BY <2>1 DEF OnWire, Accepted
  <2> QED BY <2>1, <2>2, KeptFrames
<1> QED BY <1>1, <1>2 DEF Next

\* The invariant with it.
LEMMA KeptAlways == Spec => [](IInv /\ Kept)
<1>1. Init => Kept
  BY SMTT(60) DEF Init, Kept
<1> QED BY <1>1, Initially, Inductive, KeptKept, PTL DEF Spec

\* A frame was accepted: it is in the file, or its rank is in the queue.
LEMMA AcceptedIs ==
  ASSUME IInv
  PROVE  /\ Len(rx_file) + Len(queue) = Len(arrived) /\ DOMAIN arrived = 1 .. Len(arrived)
         /\ DOMAIN rx_file = 1 .. Len(rx_file) /\ DOMAIN queue = 1 .. Len(queue)
         /\ Len(rx_file) \in Nat /\ Len(queue) \in Nat
         /\ \A i \in 1 .. Len(rx_file) : rx_file[i].chunk = arrived[i].chunk
         /\ \A j \in 1 .. Len(queue) : queue[j] = Len(rx_file) + j
<1>0. TypeOK /\ Ranks
  BY DEF IInv
<1>1. /\ DOMAIN arrived = 1 .. Len(arrived) /\ DOMAIN rx_file = 1 .. Len(rx_file)
      /\ DOMAIN queue = 1 .. Len(queue) /\ Len(rx_file) \in Nat /\ Len(queue) \in Nat
  BY <1>0, Types
<1>2. /\ Len(rx_file) + Len(queue) = Len(arrived)
      /\ \A i \in 1 .. Len(rx_file) : rx_file[i] = Received(arrived[i])
      /\ \A j \in 1 .. Len(queue) : queue[j] = Len(rx_file) + j
  <2>1. Len(rx_file) = Len(delivered)
    BY <1>0 DEF Ranks
  <2> QED BY <1>0, <2>1 DEF Ranks
<1>3. \A i \in 1 .. Len(rx_file) : rx_file[i].chunk = arrived[i].chunk
  <2> TAKE i \in 1 .. Len(rx_file)
  <2>1. rx_file[i] = Received(arrived[i])
    BY <1>2
  <2> QED BY <2>1 DEF Received
<1> QED BY <1>1, <1>2, <1>3

-----------------------------------------------------------------------------
(* Theorems.                                                               *)

\* The variables of sender, link and receive path keep their types: in
\* particular ip_len fits its 16 bits and data_size is never negative.
THEOREM TypeCorrect == Spec => []TypeOK
<1>1. IInv => TypeOK
  BY DEF IInv
<1> QED
  BY <1>1, Invariance, PTL

\* process_packet hands the callback of every frame of VTL's a chunk that was sent,
\* whole: data_size does not wrap for any that fits a umem frame, and is exact when
\* the frame was not padded.  Only frames with VTL's number in byte 23 get there.
THEOREM CallbacksWhole == Spec => []CallbackGetsChunk
<1>1. IInv => CallbackGetsChunk
  <2> SUFFICES ASSUME IInv, NEW i \in DOMAIN rx_file
               PROVE  \/ rx_file[i].chunk = 0 /\ arrived[i].proto = "alike"
                      \/ /\ rx_file[i].chunk \in 1 .. cnt_pkt
                         /\ rx_file[i].size >= fread(rx_file[i].chunk)
                         /\ HDR_SIZE + fread(rx_file[i].chunk) >= link.min_frame =>
                              rx_file[i].size = fread(rx_file[i].chunk)
                         /\ HDR_SIZE + rx_file[i].size <= FRAME_ROOM
    BY DEF CallbackGetsChunk
  <2>0. TypeOK /\ Sending /\ Frames /\ Ranks
    BY DEF IInv
  <2>1. i \in 1 .. Len(rx_file) /\ i \in 1 .. Len(arrived)
    BY <2>0, Types DEF Ranks
  <2>2. rx_file[i] = Received(arrived[i]) /\ arrived[i] \in Accepted /\ arrived[i] \in Frame
    BY <2>0, <2>1, Types DEF Ranks, Accepted
  <2>3. rx_file[i].chunk = arrived[i].chunk /\ rx_file[i].size = data_size(arrived[i].len)
    BY <2>2 DEF Received
  <2>4. arrived[i].proto = "vtl" \/ (arrived[i].proto = "alike" /\ arrived[i].chunk = 0)
    BY <2>0, <2>2 DEF Frames, Genuine, Frame
  <2> QED
    BY <2>0, <2>2, <2>3, <2>4, FrameData
<1> QED
  BY <1>1, Invariance, PTL

\* Where the link keeps frames in order, the receiver's file grows in order.
THEOREM FileOrdered == Spec => []FileInOrder
<1>1. IInv => FileInOrder
  <2> SUFFICES ASSUME IInv, "reorder" \notin link.faults,
                      NEW i \in DOMAIN rx_file, NEW j \in DOMAIN rx_file, i < j,
                      rx_file[i].chunk # 0, rx_file[j].chunk # 0
               PROVE  \/ rx_file[i].chunk < rx_file[j].chunk
                      \/ rx_file[i].chunk = rx_file[j].chunk /\ "duplicate" \in link.faults
    BY DEF FileInOrder
  <2>0. TypeOK /\ Sending /\ Frames /\ Ranks /\ Ordered
    BY DEF IInv
  <2>1. /\ i \in 1 .. Len(rx_file) /\ i \in 1 .. Len(arrived)
        /\ j \in 1 .. Len(rx_file) /\ j \in 1 .. Len(arrived)
    BY <2>0, Types DEF Ranks
  <2>2. rx_file[i].chunk = arrived[i].chunk /\ rx_file[j].chunk = arrived[j].chunk
    <3>1. rx_file[i] = Received(arrived[i]) /\ rx_file[j] = Received(arrived[j])
      BY <2>0, <2>1 DEF Ranks
    <3> QED
      BY <3>1 DEF Received
  <2>3. arrived[i].proto = "vtl" /\ arrived[j].proto = "vtl"
    <3>1. arrived[i] \in Accepted /\ arrived[j] \in Accepted
      BY <2>0, <2>1, Types DEF Accepted
    <3>2. Genuine(arrived[i]) /\ Genuine(arrived[j])
      BY <2>0, <3>1 DEF Frames
    <3> QED
      BY <2>2, <3>2 DEF Genuine
  <2>4. Before(arrived[i], arrived[j])
    BY <2>0, <2>1 DEF Ordered
  <2> QED
    BY <2>2, <2>3, <2>4 DEF Before
<1> QED
  BY <1>1, Invariance, PTL

\* What vtl_send reports as sent was sent as it should be: true length in the
\* header, within the interface's limit, and marked by the filter, which leaves
\* alone the frames without VTL's number in byte 23.
THEOREM SentTrue == Spec => []SentIsTrue
<1>1. IInv => SentIsTrue
  <2> SUFFICES ASSUME IInv PROVE SentIsTrue
    OBVIOUS
  <2>0. TypeOK /\ Sending /\ Frames
    BY DEF IInv
  <2>1. snd \in {"sending", "done"} /\ cnt_pkt > 0 =>
          ip_len = IP4_HDRLEN + VTLHDR + fread(cnt_pkt)
    BY <2>0 DEF Sending, ip_pkt_size
  <2>2. \A k \in 1 .. cnt_pkt : IP4_HDRLEN + VTLHDR + fread(k) <= link.mtu
    BY <2>0 DEF Sending, ip_pkt_size, Sendable
  <2>3. \A k \in DOMAIN wire : wire[k].proto # "alike" =>
          wire[k].checksum = IF link.tc /\ wire[k].proto = "vtl" THEN 30 ELSE 0
    BY <2>0 DEF Frames, OnWire, Genuine
  <2> QED
    BY <2>1, <2>2, <2>3 DEF SentIsTrue
<1> QED
  BY <1>1, Invariance, PTL

\* Every chunk vtl_send reported as sent is in the receiver's file, in its umem or
\* on the wire, unless link, umem or a receiver that did not listen yet lost it: no
\* program on either host drops one, whatever padding, faults and other traffic.
\* It is the safety half of SentIsSettled.
THEOREM NoChunkVanishes == Spec => []SentIsKept
<1>1. IInv /\ Kept => SentIsKept
  <2> SUFFICES ASSUME IInv, Kept PROVE SentIsKept
    OBVIOUS
  <2>0. TypeOK /\ Frames /\ cnt_pkt \in Nat
    BY Types DEF IInv
  <2>1. /\ Len(rx_file) + Len(queue) = Len(arrived) /\ DOMAIN arrived = 1 .. Len(arrived)
        /\ DOMAIN rx_file = 1 .. Len(rx_file) /\ DOMAIN queue = 1 .. Len(queue)
        /\ Len(rx_file) \in Nat /\ Len(queue) \in Nat
        /\ \A i \in 1 .. Len(rx_file) : rx_file[i].chunk = arrived[i].chunk
        /\ \A j \in 1 .. Len(queue) : queue[j] = Len(rx_file) + j
    BY AcceptedIs
  <2>2. ASSUME NEW k \in 1 .. cnt_pkt
        PROVE  k \in ((Chunks(rx_file) \cup Queued) \ {0}) \cup Carried \cup lost
    <3>1. CASE k \in lost
      BY <3>1
    <3>2. CASE \E f \in OnWire : f.proto = "vtl" /\ f.chunk = k
      BY <3>2 DEF Carried
    <3>3. CASE \E f \in Accepted : f.chunk = k
      <4>0. k # 0
        BY <2>0
      <4>1. PICK m \in 1 .. Len(arrived) : arrived[m].chunk = k
        BY <2>1, <3>3 DEF Accepted
      <4>2. CASE m <= Len(rx_file)
        <5>1. m \in DOMAIN rx_file /\ rx_file[m].chunk = k
          BY <2>1, <4>1, <4>2
        <5> QED BY <4>0, <5>1 DEF Chunks
      <4>3. CASE ~ m <= Len(rx_file)
        <5> DEFINE j == m - Len(rx_file)
        <5>1. j \in 1 .. Len(queue) /\ Len(rx_file) + j = m
          BY <2>1, <4>3
        <5> HIDE DEF j
        <5>2. j \in DOMAIN queue /\ arrived[queue[j]].chunk = k
          BY <2>1, <4>1, <5>1
        <5> QED BY <4>0, <5>2 DEF Queued
      <4> QED BY <4>2, <4>3
    <3> QED BY <3>1, <3>2, <3>3 DEF Kept
  <2>3. ASSUME NEW m \in 1 .. Len(arrived) PROVE arrived[m].chunk \in 0 .. cnt_pkt
    <3>1. arrived[m] \in Accepted
      BY <2>1 DEF Accepted
    <3>2. Genuine(arrived[m])
      BY <2>0, <3>1 DEF Frames
    <3>3. arrived[m].chunk \in 1 .. cnt_pkt \/ arrived[m].chunk = 0
      BY <3>2 DEF Genuine
    <3> QED BY <2>0, <3>3
  <2>4. Chunks(rx_file) \subseteq 0 .. cnt_pkt
    BY <2>1, <2>3 DEF Chunks
  <2>5. Queued \subseteq 0 .. cnt_pkt
    <3> SUFFICES ASSUME NEW j \in 1 .. Len(queue) PROVE arrived[queue[j]].chunk \in 0 .. cnt_pkt
      BY <2>1 DEF Queued
    <3>1. queue[j] \in 1 .. Len(arrived)
      BY <2>1
    <3> QED BY <2>3, <3>1
  <2>6. Carried \subseteq 1 .. cnt_pkt
    BY <2>0 DEF Carried, Frames, Genuine
  <2>7. lost \subseteq 1 .. cnt_pkt
    BY <2>0 DEF TypeOK
  <2>8. (Chunks(rx_file) \cup Queued) \ {0} \subseteq 1 .. cnt_pkt
    <3>1. \A k \in 0 .. cnt_pkt : k # 0 => k \in 1 .. cnt_pkt
      BY <2>0
    <3> QED BY <2>4, <2>5, <3>1
  <2>9. 1 .. cnt_pkt \subseteq ((Chunks(rx_file) \cup Queued) \ {0}) \cup Carried \cup lost
    BY <2>2
  <2> QED BY <2>6, <2>7, <2>8, <2>9, Zenon DEF SentIsKept
<1> QED BY <1>1, KeptAlways, PTL

\* From vtl_send to the callback the file is copied faithfully: with nothing lost,
\* nothing of other processes accepted and a link that neither duplicates nor
\* reorders, the n-th callback gets the n-th chunk, and when nothing is under way
\* the receiver's file is complete.
THEOREM FileCopied == Spec => []FaithfulCopy
<1>1. IInv /\ Kept => FaithfulCopy
  <2> SUFFICES ASSUME IInv, Kept, lost = {}, {"duplicate", "reorder"} \cap link.faults = {},
                      \A f \in Accepted : f.proto = "vtl"
               PROVE  /\ \A i \in DOMAIN rx_file : rx_file[i].chunk = i
                      /\ Carried = {} /\ queue = <<>> => Len(rx_file) = cnt_pkt
    BY DEF FaithfulCopy
  <2>0. TypeOK /\ Frames /\ Ordered /\ cnt_pkt \in Nat
    BY Types DEF IInv
  <2> DEFINE n == Len(arrived)
             c(m) == arrived[m].chunk
  <2>1. /\ Len(rx_file) + Len(queue) = n /\ DOMAIN arrived = 1 .. n
        /\ DOMAIN rx_file = 1 .. Len(rx_file) /\ DOMAIN queue = 1 .. Len(queue)
        /\ Len(rx_file) \in Nat /\ Len(queue) \in Nat /\ n \in Nat
        /\ \A i \in 1 .. Len(rx_file) : rx_file[i].chunk = c(i)
    BY AcceptedIs
  <2>2. \A m \in 1 .. n : c(m) \in 1 .. cnt_pkt /\ arrived[m].proto = "vtl" /\ arrived[m] \in Accepted
    BY <2>0, <2>1 DEF Frames, Genuine, Accepted
  <2>3. \A i, j \in 1 .. n : i < j => c(i) < c(j)
    BY <2>0, <2>2 DEF Ordered, Before
  <2>4. ASSUME NEW m \in 1 .. n, NEW f \in OnWire, f.proto = "vtl" PROVE c(m) < f.chunk
    BY <2>0, <2>2, <2>4 DEF Ordered, Before
  <2>5. \A k \in 1 .. cnt_pkt : \/ \E f \in OnWire : f.proto = "vtl" /\ f.chunk = k
                                \/ \E m \in 1 .. n : c(m) = k
    BY <2>1 DEF Kept, Accepted
  <2> HIDE DEF n, c
  <2>6. \A m \in 1 .. n : c(m) = m
    <3> DEFINE S == {m \in 1 .. n : c(m) # m}
    <3> SUFFICES ASSUME S # {} PROVE FALSE
      OBVIOUS
    <3>1. S \subseteq Nat
      BY <2>1
    <3>2. PICK m \in S : \A k \in S : m <= k
      BY <3>1, Least
    <3>3. m \in 1 .. n /\ c(m) # m /\ m \in Nat /\ c(m) \in 1 .. cnt_pkt
      BY <2>1, <2>2, <3>2
    <3>4. \A k \in 1 .. n : k < m => c(k) = k
      BY <2>1, <3>2, <3>3
    <3>5. m < c(m)
      <4>1. CASE m = 1
        BY <2>0, <3>3, <4>1
      <4>2. CASE m # 1
        <5>1. m - 1 \in 1 .. n /\ m - 1 < m
          BY <2>1, <3>3, <4>2
        <5>2. m - 1 < c(m)
          BY <2>3, <3>3, <3>4, <5>1
        <5> QED BY <2>0, <3>3, <5>2
      <4> QED BY <4>1, <4>2
    <3>6. m \in 1 .. cnt_pkt
      BY <2>0, <3>3, <3>5
    <3>7. CASE \E f \in OnWire : f.proto = "vtl" /\ f.chunk = m
      <4>1. c(m) < m
        BY <2>4, <3>3, <3>7
      <4> QED BY <2>0, <3>3, <3>5, <4>1
    <3>8. CASE \E k \in 1 .. n : c(k) = m
      <4>1. PICK k \in 1 .. n : c(k) = m
        BY <3>8
      <4>2. k \in Nat /\ ~ k < m /\ k # m
        BY <2>1, <3>3, <3>4, <4>1
      <4>3. c(m) < c(k)
        BY <2>3, <3>3, <4>1, <4>2
      <4> QED BY <2>0, <3>3, <3>5, <4>1, <4>3
    <3> QED BY <2>5, <3>6, <3>7, <3>8
  <2>7. \A i \in DOMAIN rx_file : rx_file[i].chunk = i
    BY <2>1, <2>6
  <2>8. ASSUME Carried = {}, queue = <<>> PROVE Len(rx_file) = cnt_pkt
    <3>1. Len(rx_file) = n
      BY <2>1, <2>8
    <3>2. \A f \in OnWire : f.proto # "vtl"
      BY <2>8 DEF Carried
    <3>3. n <= cnt_pkt
      <4>1. CASE n = 0
        BY <2>0, <4>1
      <4>2. CASE n # 0
        <5>1. n \in 1 .. n
          BY <2>1, <4>2
        <5>2. c(n) = n
          BY <2>6, <5>1
        <5>3. c(n) \in 1 .. cnt_pkt
          BY <2>2, <5>1
        <5> QED BY <2>0, <2>1, <5>2, <5>3
      <4> QED BY <4>1, <4>2
    <3>4. cnt_pkt <= n
      <4>1. CASE cnt_pkt = 0
        BY <2>1, <4>1
      <4>2. CASE cnt_pkt # 0
        <5>1. cnt_pkt \in 1 .. cnt_pkt
          BY <2>0, <4>2
        <5>2. PICK m \in 1 .. n : c(m) = cnt_pkt
          BY <2>5, <3>2, <5>1
        <5> QED BY <2>1, <2>6, <5>2
      <4> QED BY <4>1, <4>2
    <3> QED BY <2>0, <2>1, <3>1, <3>3, <3>4
  <2> QED BY <2>7, <2>8
<1> QED BY <1>1, KeptAlways, PTL

=============================================================================
