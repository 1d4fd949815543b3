------------------------------- MODULE XskRx --------------------------------
(***************************************************************************)
(* The AF_XDP receive path of the VTL adaptor: the umem frame stack of     *)
(* xsk_user_helpers.c, the fill ring and the rx ring of libbpf's xsk.h and *)
(* the loop of handle_receive_packets (adaptor_receive.c), interleaved     *)
(* with the kernel, which takes frames from the fill ring, writes packets  *)
(* into them and publishes descriptors in the rx ring.                     *)
(*                                                                         *)
(* A frame address is its index in the umem (i * FRAME_SIZE in the code);  *)
(* a packet is its rank of arrival.  The free-running u32 cursors are      *)
(* naturals: process_packet never gives a frame back, so at most NumFrames *)
(* packets are received in a run and no cursor comes near 2^32.            *)
(***************************************************************************)
EXTENDS Integers, Sequences, FiniteSets

CONSTANTS NumFrames,  \* NUM_FRAMES: frames of the umem
          FqSize,     \* entries of the fill ring
          RxSize,     \* entries of the rx ring
          RxBatch     \* RX_BATCH_SIZE: packets peeked in one call

ASSUME SizesAssumption == /\ NumFrames \in Nat \ {0}
                          /\ FqSize \in Nat \ {0}
                          /\ RxSize \in Nat \ {0}
                          /\ RxBatch \in Nat \ {0}
                          /\ FqSize <= NumFrames

Frames == 0 .. NumFrames - 1

\* UINT64_MAX, the address xsk_alloc_umem_frame returns when no frame is left.
INVALID_UMEM_FRAME == -1

VARIABLES
  umem,             \* packet held in each frame (0: none yet)
  umem_frame_addr,  \* the stack of free frames ...
  umem_frame_free,  \* ... and its height
  fq_ring, fq_producer, fq_consumer,      \* fill ring, shared with the kernel
  fq_cached_prod, fq_cached_cons,         \* ... the user's private cursors
  rx_ring, rx_producer, rx_consumer,      \* rx ring, shared with the kernel
  rx_cached_prod, rx_cached_cons,         \* ... the user's private cursors
  k_fq_cons,        \* fill entries the kernel has taken
  k_rx_prod,        \* descriptors the kernel has written
  pc, rcvd, stock_frames, i, idx_fq, idx_rx,  \* handle_receive_packets' locals
  held,             \* ghost: frames given to process_packet and not freed
  delivered         \* ghost: packets the callback saw, in order

stack    == <<umem_frame_addr, umem_frame_free>>
fqShared == <<fq_ring, fq_producer, fq_consumer>>
fqCached == <<fq_cached_prod, fq_cached_cons>>
rxShared == <<rx_ring, rx_producer, rx_consumer>>
rxCached == <<rx_cached_prod, rx_cached_cons>>
kernel   == <<k_fq_cons, k_rx_prod>>
user     == <<pc, rcvd, stock_frames, i, idx_fq, idx_rx>>
ghosts   == <<held, delivered>>
vars     == <<umem, stack, fqShared, fqCached, rxShared, rxCached, kernel,
              user, ghosts>>

fill_slot(idx) == idx % FqSize
rx_slot(idx)   == idx % RxSize

-----------------------------------------------------------------------------
\* The state xsk_configure_socket returns: every frame put on the stack, the
\* top FqSize of them moved to the fill ring in one submission.
xsk_configure_socket ==
  /\ umem_frame_addr = [k \in Frames |-> IF k < NumFrames - FqSize
                                         THEN k ELSE INVALID_UMEM_FRAME]
  /\ umem_frame_free = NumFrames - FqSize
  /\ fq_ring = [s \in 0 .. FqSize - 1 |-> NumFrames - 1 - s]
  /\ fq_producer = FqSize /\ fq_consumer = 0
  /\ fq_cached_prod = FqSize /\ fq_cached_cons = FqSize
  /\ rx_ring = [s \in 0 .. RxSize - 1 |-> 0]
  /\ rx_producer = 0 /\ rx_consumer = 0
  /\ rx_cached_prod = 0 /\ rx_cached_cons = 0

Init ==
  /\ xsk_configure_socket
  /\ umem = [f \in Frames |-> 0]
  /\ k_fq_cons = 0 /\ k_rx_prod = 0
  /\ pc = "idle" /\ rcvd = 0 /\ stock_frames = 0 /\ i = 0
  /\ idx_fq = 0 /\ idx_rx = 0
  /\ held = {} /\ delivered = <<>>

-----------------------------------------------------------------------------
(* libbpf's ring primitives, as the values they return and cache.          *)

\* Mutant: one entry too many is taken for free when the view is refreshed.
nb_free_cached_cons_over(nb) ==
  IF fq_cached_cons - fq_cached_prod >= nb THEN fq_cached_cons
                                           ELSE fq_consumer + FqSize + 1

\* cached_cons after xsk_prod_nb_free(fq, nb): the shared consumer is only
\* read when the cached view does not show nb free entries.
nb_free_cached_cons(nb) ==
  IF fq_cached_cons - fq_cached_prod >= nb THEN fq_cached_cons
                                           ELSE fq_consumer + FqSize

\* What it returns: all the free entries of that view, maybe more than nb.
xsk_prod_nb_free(nb) == nb_free_cached_cons(nb) - fq_cached_prod

\* Mutant: the shared producer is never read again.
nb_avail_cached_prod_stale == rx_cached_prod

\* cached_prod after xsk_cons_nb_avail(rx): refreshed only when it shows
\* nothing to read.
nb_avail_cached_prod ==
  IF rx_cached_prod = rx_cached_cons THEN rx_producer ELSE rx_cached_prod

xsk_cons_nb_avail(nb) ==
  LET entries == nb_avail_cached_prod - rx_cached_cons
  IN  IF entries > nb THEN nb ELSE entries

\* xsk_ring_prod__reserve: all nb entries or none.
xsk_ring_prod__reserve(nb) == IF xsk_prod_nb_free(nb) < nb THEN 0 ELSE nb

-----------------------------------------------------------------------------
(* handle_receive_packets, called by adaptor__rcv_data.                    *)

\* The rx ring is empty: the call returns.
PeekNothing ==
  /\ pc = "idle"
  /\ xsk_cons_nb_avail(RxBatch) = 0
  /\ rx_cached_prod' = nb_avail_cached_prod
  /\ UNCHANGED <<umem, stack, fqShared, fqCached, rxShared, rx_cached_cons,
                 kernel, user, ghosts>>

xsk_ring_cons__peek ==
  /\ pc = "idle"
  /\ xsk_cons_nb_avail(RxBatch) > 0
  /\ rcvd' = xsk_cons_nb_avail(RxBatch)
  /\ idx_rx' = rx_cached_cons
  /\ rx_cached_prod' = nb_avail_cached_prod
  /\ rx_cached_cons' = rx_cached_cons + rcvd'
  /\ pc' = "stock"
  /\ UNCHANGED <<umem, stack, fqShared, fqCached, rxShared, kernel,
                 stock_frames, i, idx_fq, ghosts>>

\* Mutant: every free frame is stocked, whatever room the fill ring has.
CountStock_all ==
  /\ pc = "stock"
  /\ stock_frames' = umem_frame_free
  /\ pc' = IF stock_frames' > 0 THEN "reserve" ELSE "process"
  /\ UNCHANGED <<umem, stack, fqShared, fqCached, rxShared, rxCached,
                 kernel, rcvd, i, idx_fq, idx_rx, ghosts>>

\* stock_frames = xsk_prod_nb_free(fq, free frames); the ring is stuffed only
\* when that is not zero.
CountStock ==
  /\ pc = "stock"
  /\ stock_frames' = xsk_prod_nb_free(umem_frame_free)
  /\ fq_cached_cons' = nb_free_cached_cons(umem_frame_free)
  /\ pc' = IF stock_frames' > 0 THEN "reserve" ELSE "process"
  /\ UNCHANGED <<umem, stack, fqShared, fq_cached_prod, rxShared, rxCached,
                 kernel, rcvd, i, idx_fq, idx_rx, ghosts>>

\* The first reservation asks for stock_frames, each retry of the loop for
\* rcvd entries; the loop ends when a call yields exactly stock_frames.
ReserveFill ==
  /\ pc \in {"reserve", "retry"}
  /\ LET nb  == IF pc = "reserve" THEN stock_frames ELSE rcvd
         got == xsk_ring_prod__reserve(nb)
     IN  /\ fq_cached_cons' = nb_free_cached_cons(nb)
         /\ fq_cached_prod' = fq_cached_prod + got
         /\ idx_fq' = IF got > 0 THEN fq_cached_prod ELSE idx_fq
         /\ pc' = IF got = stock_frames THEN "fill" ELSE "retry"
  /\ UNCHANGED <<umem, stack, fqShared, rxShared, rxCached, kernel,
                 rcvd, stock_frames, i, idx_rx, ghosts>>

\* Mutant: the frame just received is offered again before it is processed.
xsk_alloc_umem_frame_recycle == rx_ring[rx_slot(idx_rx)]

\* xsk_alloc_umem_frame: the frame popped, INVALID_UMEM_FRAME when none is.
xsk_alloc_umem_frame ==
  IF umem_frame_free = 0 THEN INVALID_UMEM_FRAME
                         ELSE umem_frame_addr[umem_frame_free - 1]

\* Mutant: the empty stack is not tested.
PopFrame_unchecked ==
  /\ umem_frame_free' = umem_frame_free - 1
  /\ UNCHANGED umem_frame_addr

\* Mutant: the frame is read and stays on the stack.
PopFrame_keep == UNCHANGED stack

PopFrame ==
  IF umem_frame_free = 0
  THEN UNCHANGED stack
  ELSE /\ umem_frame_free' = umem_frame_free - 1
       /\ umem_frame_addr' = [umem_frame_addr EXCEPT
                                ![umem_frame_free - 1] = INVALID_UMEM_FRAME]

\* Mutant: idx_fq is not advanced, every frame goes to the same entry.
FillEntry_same ==
  /\ pc = "fill"
  /\ fq_ring' = [fq_ring EXCEPT ![fill_slot(idx_fq)] = xsk_alloc_umem_frame]
  /\ PopFrame
  /\ i' = i + 1
  /\ pc' = IF i' = stock_frames THEN "submit" ELSE "fill"
  /\ UNCHANGED <<umem, fq_producer, fq_consumer, fqCached, rxShared, rxCached,
                 kernel, rcvd, stock_frames, idx_fq, idx_rx, ghosts>>

\* One turn of the fill loop: one entry written, whatever the stack yields.
FillEntry ==
  /\ pc = "fill"
  /\ fq_ring' = [fq_ring EXCEPT ![fill_slot(idx_fq)] = xsk_alloc_umem_frame]
  /\ PopFrame
  /\ idx_fq' = idx_fq + 1
  /\ i' = i + 1
  /\ pc' = IF i' = stock_frames THEN "submit" ELSE "fill"
  /\ UNCHANGED <<umem, fq_producer, fq_consumer, fqCached, rxShared, rxCached,
                 kernel, rcvd, stock_frames, idx_rx, ghosts>>

xsk_ring_prod__submit ==
  /\ pc = "submit"
  /\ fq_producer' = fq_producer + stock_frames
  /\ i' = 0
  /\ pc' = "process"
  /\ UNCHANGED <<umem, stack, fq_ring, fq_consumer, fqCached, rxShared,
                 rxCached, kernel, rcvd, stock_frames, idx_fq, idx_rx, ghosts>>

\* What process_packet returns: TRUE, keep the frame.
process_packet(frame) == TRUE

\* xsk_free_umem_frame, under its assertion.
xsk_free_umem_frame(frame) ==
  /\ umem_frame_free < NumFrames
  /\ umem_frame_addr' = [umem_frame_addr EXCEPT ![umem_frame_free] = frame]
  /\ umem_frame_free' = umem_frame_free + 1

\* Mutant: idx_rx is not advanced, the batch's first packet is seen again.
ProcessPacket_again ==
  /\ pc = "process"
  /\ LET frame == rx_ring[rx_slot(idx_rx)]
     IN  /\ delivered' = Append(delivered, umem[frame])
         /\ held' = held \cup {frame}
  /\ i' = i + 1
  /\ pc' = IF i' = rcvd THEN "release" ELSE "process"
  /\ UNCHANGED <<umem, stack, fqShared, fqCached, rxShared, rxCached, kernel,
                 rcvd, stock_frames, idx_fq, idx_rx>>

\* One turn of the processing loop: the callback sees what the frame holds.
ProcessPacket ==
  /\ pc = "process"
  /\ LET frame == rx_ring[rx_slot(idx_rx)]
     IN  /\ delivered' = Append(delivered, umem[frame])
         /\ IF process_packet(frame)
            THEN held' = held \cup {frame} /\ UNCHANGED stack
            ELSE xsk_free_umem_frame(frame) /\ UNCHANGED held
  /\ idx_rx' = idx_rx + 1
  /\ i' = i + 1
  /\ pc' = IF i' = rcvd THEN "release" ELSE "process"
  /\ UNCHANGED <<umem, fqShared, fqCached, rxShared, rxCached, kernel,
                 rcvd, stock_frames, idx_fq>>

\* Mutant: the whole batch size is released, not what was received.
xsk_ring_cons__release_batch ==
  /\ pc = "release"
  /\ rx_consumer' = rx_consumer + RxBatch
  /\ pc' = "idle"
  /\ rcvd' = 0 /\ stock_frames' = 0 /\ i' = 0 /\ idx_fq' = 0 /\ idx_rx' = 0
  /\ UNCHANGED <<umem, stack, fqShared, fqCached, rx_ring, rx_producer,
                 rxCached, kernel, ghosts>>

\* xsk_ring_cons__release; the call returns and its locals are gone.
xsk_ring_cons__release ==
  /\ pc = "release"
  /\ rx_consumer' = rx_consumer + rcvd
  /\ pc' = "idle"
  /\ rcvd' = 0 /\ stock_frames' = 0 /\ i' = 0 /\ idx_fq' = 0 /\ idx_rx' = 0
  /\ UNCHANGED <<umem, stack, fqShared, fqCached, rx_ring, rx_producer,
                 rxCached, kernel, ghosts>>

-----------------------------------------------------------------------------
(* The kernel's side of the two rings (external).                          *)

\* A packet for this socket arrives, a valid frame and an rx entry are there.
KReceive ==
  /\ k_fq_cons < fq_producer
  /\ k_rx_prod - rx_consumer < RxSize
  /\ LET frame == fq_ring[fill_slot(k_fq_cons)]
     IN  /\ frame # INVALID_UMEM_FRAME
         /\ umem' = [umem EXCEPT ![frame] = k_rx_prod + 1]
         /\ rx_ring' = [rx_ring EXCEPT ![rx_slot(k_rx_prod)] = frame]
  /\ k_fq_cons' = k_fq_cons + 1
  /\ k_rx_prod' = k_rx_prod + 1
  /\ UNCHANGED <<stack, fqShared, fqCached, rx_producer, rx_consumer, rxCached,
                 user, ghosts>>

\* An address outside the umem is counted as invalid and skipped.
KSkipInvalid ==
  /\ k_fq_cons < fq_producer
  /\ fq_ring[fill_slot(k_fq_cons)] = INVALID_UMEM_FRAME
  /\ k_fq_cons' = k_fq_cons + 1
  /\ UNCHANGED <<umem, stack, fqShared, fqCached, rxShared, rxCached,
                 k_rx_prod, user, ghosts>>

\* The descriptors written so far become visible to the user.
KFlushRx ==
  /\ rx_producer < k_rx_prod
  /\ rx_producer' = k_rx_prod
  /\ UNCHANGED <<umem, stack, fqShared, fqCached, rx_ring, rx_consumer,
                 rxCached, kernel, user, ghosts>>

\* The fill entries taken so far become free for the user.
KPublishFq ==
  /\ fq_consumer < k_fq_cons
  /\ fq_consumer' = k_fq_cons
  /\ UNCHANGED <<umem, stack, fq_ring, fq_producer, fqCached, rxShared,
                 rxCached, kernel, user, ghosts>>

-----------------------------------------------------------------------------
UserStep == \/ PeekNothing \/ xsk_ring_cons__peek
            \/ CountStock \/ ReserveFill \/ FillEntry \/ xsk_ring_prod__submit
            \/ ProcessPacket \/ xsk_ring_cons__release

KernelStep == KReceive \/ KSkipInvalid \/ KFlushRx \/ KPublishFq

Next == UserStep \/ KernelStep

Spec == Init /\ [][Next]_vars

\* The application keeps calling vtl_receive, as client-stream.c does with the
\* vtl_rcv it has replaced, and the kernel ends the polling cycle in which it
\* wrote a descriptor; packets need not arrive.
FairSpec == Spec /\ WF_vars(UserStep) /\ WF_vars(KFlushRx)

\* ... and now packets keep arriving, and the kernel keeps reading its ring.
BusySpec == FairSpec /\ WF_vars(KReceive) /\ WF_vars(KSkipInvalid)
                     /\ WF_vars(KPublishFq)

-----------------------------------------------------------------------------
(* Who has each frame.                                                     *)

\* Entries the user has written to the fill ring and the kernel not taken.
FillEnd    == IF pc = "fill" THEN idx_fq ELSE fq_cached_prod
FillWindow == k_fq_cons .. FillEnd - 1

\* Descriptors the kernel has written and the user not processed.
RxStart  == IF pc = "idle" THEN rx_consumer ELSE idx_rx
RxWindow == RxStart .. k_rx_prod - 1

StackWindow == 0 .. umem_frame_free - 1

InStack == {umem_frame_addr[k] : k \in StackWindow}
InFill  == {fq_ring[fill_slot(k)] : k \in FillWindow} \ {INVALID_UMEM_FRAME}
InRx    == {rx_ring[rx_slot(k)] : k \in RxWindow}

-----------------------------------------------------------------------------
(* Properties.                                                             *)

\* Every variable of the receive path stays in its range: in particular a
\* descriptor of the rx ring always names a frame of the umem, also once
\* INVALID_UMEM_FRAME entries circulate in the fill ring, and umem_frame_free
\* never leaves the bounds of umem_frame_addr.
TypeOK ==
  /\ umem \in [Frames -> Nat]
  /\ umem_frame_addr \in [Frames -> Frames \cup {INVALID_UMEM_FRAME}]
  /\ umem_frame_free \in 0 .. NumFrames
  /\ fq_ring \in [0 .. FqSize - 1 -> Frames \cup {INVALID_UMEM_FRAME}]
  /\ fq_producer \in Nat /\ fq_consumer \in Nat
  /\ fq_cached_prod \in Nat /\ fq_cached_cons \in Nat
  /\ rx_ring \in [0 .. RxSize - 1 -> Frames]
  /\ rx_producer \in Nat /\ rx_consumer \in Nat
  /\ rx_cached_prod \in Nat /\ rx_cached_cons \in Nat
  /\ k_fq_cons \in Nat /\ k_rx_prod \in Nat
  /\ pc \in {"idle", "stock", "reserve", "retry", "fill", "submit", "process",
             "release"}
  /\ rcvd \in Nat /\ stock_frames \in Nat /\ i \in Nat
  /\ idx_fq \in Nat /\ idx_rx \in Nat
  /\ held \subseteq Frames
  /\ delivered \in Seq(Nat)

\* A frame is in one place only: free on the stack, offered to the kernel in
\* the fill ring, waiting in the rx ring, or given to the application; and at
\* one index of that place.  Handing a frame to the kernel while
\* process_packet still reads it would break this.
FramesExclusive ==
  /\ \A a, b \in StackWindow : umem_frame_addr[a] = umem_frame_addr[b] => a = b
  /\ \A a, b \in FillWindow :
       /\ fq_ring[fill_slot(a)] = fq_ring[fill_slot(b)]
       /\ fq_ring[fill_slot(a)] # INVALID_UMEM_FRAME
       => a = b
  /\ \A a, b \in RxWindow : rx_ring[rx_slot(a)] = rx_ring[rx_slot(b)] => a = b
  /\ InStack \cap InFill = {} /\ InStack \cap InRx = {} /\ InStack \cap held = {}
  /\ InFill \cap InRx = {} /\ InFill \cap held = {} /\ InRx \cap held = {}

\* No frame is dropped on the way: each is on the stack, in a ring or with the
\* application.  An alloc that pops more than it stores would lose one.
FramesConserved == InStack \cup InFill \cup InRx \cup held = Frames

\* The user never reserves a fill entry the kernel has not taken yet, and so
\* never overwrites one, although it decides from a cached consumer cursor.
FillNeverOverrun == fq_cached_prod - k_fq_cons <= FqSize

\* "This should not happen, but just in case": the retry loop around the
\* reservation, which spins for ever when rcvd differs from stock_frames, is
\* never entered.
ReserveNeverRetries == pc # "retry"

\* The callback sees the accepted packets in the order of their arrival, each
\* once, with the contents the kernel wrote.
DeliveredInOrder ==
  /\ Len(delivered) <= k_rx_prod
  /\ \A k \in 1 .. Len(delivered) : delivered[k] = k

\* The kernel never writes into a frame the user can still read: one whose
\* descriptor is not processed yet, or one the application was given.
UserFramesStable == [][\A f \in InRx \cup held : umem'[f] = umem[f]]_vars

\* Each accepted packet is delivered, as long as vtl_receive is called.
AcceptedIsDelivered ==
  \A n \in 1 .. NumFrames : (k_rx_prod >= n) ~> (Len(delivered) >= n)

\* The receive path is a bounded first-in first-out queue of packets.
Queue == INSTANCE PacketQueue WITH
  Capacity  <- RxSize,
  queue     <- [k \in 1 .. k_rx_prod - RxStart |->
                  umem[rx_ring[rx_slot(RxStart + k - 1)]]],
  delivered <- delivered

\* The rings, cached cursors and frames implement that queue: an interleaving
\* that reads a descriptor too early, twice or after the kernel reused its
\* frame takes no step of the queue.
ImplementsQueue == Queue!QSpec

\* README.org of the AF_XDP example the adaptor follows: the application "is
\* responsible for returning frames to UMEM in timely manner".
FramesReturned == \A f \in Frames : (f \in held) ~> (f \notin held)

=============================================================================
