---------------------------- MODULE XskRxProofs -----------------------------
(***************************************************************************)
(* Safety of the receive path for every size of umem, rings and batch.     *)
(*                                                                         *)
(* The argument has two layers.  Cursors relates the user's cached cursors *)
(* to the shared and the kernel's private ones at every line of            *)
(* handle_receive_packets; it yields the type invariant, that the fill     *)
(* ring is never overrun and that the retry loop is never entered.  On top *)
(* of it Frames: the stack, the two ring windows and the application's     *)
(* frames partition the umem, and a window entry's slot is its own because *)
(* no window is longer than its ring.  Counting the frames used up then    *)
(* bounds every cursor, and the windows are the abstract packet queue.     *)
(***************************************************************************)
EXTENDS XskRx, FiniteSetTheorems, TLAPS

FillCursors ==
  /\ fq_consumer <= k_fq_cons /\ k_fq_cons <= fq_producer
  /\ fq_cached_cons <= fq_consumer + FqSize
  /\ fq_cached_prod <= fq_cached_cons
  /\ pc \notin {"fill", "submit"} => fq_producer = fq_cached_prod
  /\ pc \in {"fill", "submit"} => fq_cached_prod = fq_producer + stock_frames
  /\ pc = "reserve" => /\ stock_frames = fq_cached_cons - fq_cached_prod
                       /\ stock_frames > 0
  /\ pc = "fill" => idx_fq = fq_producer + i /\ i < stock_frames

RxCursors ==
  /\ rx_consumer <= rx_cached_cons /\ rx_cached_cons <= rx_cached_prod
  /\ rx_cached_prod <= rx_producer /\ rx_producer <= k_rx_prod
  /\ k_rx_prod <= rx_consumer + RxSize
  /\ pc = "idle" => rx_cached_cons = rx_consumer
  /\ pc # "idle" => rx_cached_cons = rx_consumer + rcvd /\ rcvd > 0
  /\ pc \in {"stock", "reserve", "fill", "submit"} => idx_rx = rx_consumer
  /\ pc \in {"idle", "stock", "reserve"} => i = 0
  /\ pc = "process" => idx_rx = rx_consumer + i /\ i < rcvd
  /\ pc = "release" => idx_rx = rx_consumer + rcvd

Cursors == FillCursors /\ RxCursors /\ ReserveNeverRetries

StackValid == \A k \in StackWindow : umem_frame_addr[k] \in Frames

\* Each waiting descriptor's frame holds the packet it announces, and what was
\* delivered is exactly what was processed.
Contents ==
  /\ \A k \in RxWindow : umem[rx_ring[rx_slot(k)]] = k + 1
  /\ Len(delivered) = RxStart
  /\ \A k \in 1 .. Len(delivered) : delivered[k] = k

Base == TypeOK /\ Cursors
Own  == StackValid /\ FramesExclusive /\ FramesConserved /\ Contents
IInv == Base /\ Own

-----------------------------------------------------------------------------
(* Indices of one window fall into different slots of its ring.            *)

\* Two indices less than a ring's size apart have different slots.
LEMMA SlotsDiffer ==
  ASSUME NEW N \in Nat \ {0}, NEW a \in Nat, NEW b \in Nat, a < b, b - a < N
  PROVE  a % N # b % N
<1> DEFINE qa == a \div N
           qb == b \div N
           ra == a % N
           rb == b % N
<1>1. qa \in Int /\ qb \in Int /\ ra \in 0 .. N - 1 /\ rb \in 0 .. N - 1
  OBVIOUS
<1>2. a = N * qa + ra /\ b = N * qb + rb
  OBVIOUS
<1>3. SUFFICES ASSUME ra = rb PROVE FALSE
  OBVIOUS
<1> HIDE DEF qa, qb, ra, rb
<1>4. N * (qb - qa) = b - a
  BY <1>1, <1>2, <1>3
<1>5. qb - qa >= 1
  BY <1>1, <1>4
<1>6. N * (qb - qa) >= N
  BY <1>1, <1>5
<1> QED BY <1>1, <1>4, <1>6

\* A slot is an index of the ring's array.
LEMMA SlotInRing ==
  ASSUME NEW N \in Nat \ {0}, NEW a \in Nat
  PROVE  a % N \in 0 .. N - 1
OBVIOUS

\* An index of the first round is its own slot.
LEMMA FirstRound ==
  ASSUME NEW N \in Nat \ {0}, NEW a \in 0 .. N - 1
  PROVE  a % N = a
<1> DEFINE q == a \div N
           r == a % N
<1>1. q \in Int /\ r \in 0 .. N - 1 /\ a = N * q + r
  OBVIOUS
<1> HIDE DEF q, r
<1>2. q < 1
  <2> SUFFICES ASSUME q >= 1 PROVE FALSE
    BY <1>1
  <2>1. N * q >= N
    BY <1>1
  <2> QED BY <1>1, <2>1
<1>3. q > -1
  <2> SUFFICES ASSUME q <= -1 PROVE FALSE
    BY <1>1
  <2>1. N * q <= -N
    BY <1>1
  <2> QED BY <1>1, <2>1
<1>4. q = 0
  BY <1>1, <1>2, <1>3
<1>5. r = a
  BY <1>1, <1>4
<1> QED BY <1>5 DEF r

-----------------------------------------------------------------------------
(* First layer: types and cursors.                                         *)

\* xsk_configure_socket establishes types and cursors.
LEMMA BaseInit == Init => Base
<1> SUFFICES ASSUME Init PROVE Base
  OBVIOUS
<1> USE SizesAssumption DEF Init, xsk_configure_socket
<1>1. TypeOK
  BY DEF TypeOK, Frames, INVALID_UMEM_FRAME
<1>2. Cursors
  BY DEF Cursors, FillCursors, RxCursors, ReserveNeverRetries
<1> QED BY <1>1, <1>2 DEF Base

\* Each line of handle_receive_packets and each kernel step keeps them.
LEMMA BaseStep == Base /\ [Next]_vars => Base'
<1> SUFFICES ASSUME Base, [Next]_vars PROVE Base'
  OBVIOUS
<1> USE SizesAssumption
<1>a. TypeOK /\ FillCursors /\ RxCursors /\ pc # "retry"
  BY DEF Base, Cursors, ReserveNeverRetries
<1>b. \A n \in Nat : fill_slot(n) \in 0 .. FqSize - 1 /\ rx_slot(n) \in 0 .. RxSize - 1
  BY SlotInRing DEF fill_slot, rx_slot
<1> DEFINE Goal == TypeOK' /\ FillCursors' /\ RxCursors' /\ pc' # "retry"
<1>c. SUFFICES Goal
  BY DEF Base, Cursors, ReserveNeverRetries
<1> HIDE DEF Goal
<1>1. CASE PeekNothing
  <2> USE <1>1 DEF PeekNothing, xsk_cons_nb_avail, nb_avail_cached_prod, stack,
        fqShared, fqCached, rxShared, kernel, user, ghosts
  <2>1. TypeOK'
    BY <1>a DEF TypeOK
  <2>2. FillCursors' /\ RxCursors' /\ pc' # "retry"
    BY <1>a DEF TypeOK, FillCursors, RxCursors
  <2> QED BY <2>1, <2>2 DEF Goal
<1>2. CASE xsk_ring_cons__peek
  <2> USE <1>2 DEF xsk_ring_cons__peek, xsk_cons_nb_avail,
        nb_avail_cached_prod, stack, fqShared, fqCached, rxShared, kernel, ghosts
  <2>1. TypeOK'
    BY <1>a DEF TypeOK
  <2>2. FillCursors' /\ RxCursors' /\ pc' # "retry"
    BY <1>a DEF TypeOK, FillCursors, RxCursors
  <2> QED BY <2>1, <2>2 DEF Goal
<1>3. CASE CountStock
  <2> USE <1>3 DEF CountStock, xsk_prod_nb_free, nb_free_cached_cons, stack,
        fqShared, rxShared, rxCached, kernel, ghosts
  <2>1. TypeOK'
    BY <1>a DEF TypeOK, FillCursors
  <2>2. FillCursors' /\ RxCursors' /\ pc' # "retry"
    BY <1>a DEF TypeOK, FillCursors, RxCursors
  <2> QED BY <2>1, <2>2 DEF Goal
<1>4. CASE ReserveFill
  <2> USE <1>4 DEF ReserveFill, xsk_ring_prod__reserve, xsk_prod_nb_free,
        nb_free_cached_cons, stack, fqShared, rxShared, rxCached, kernel, ghosts
  <2>1. TypeOK'
    BY <1>a DEF TypeOK, FillCursors
  <2>2. FillCursors' /\ RxCursors' /\ pc' # "retry"
    BY <1>a DEF TypeOK, FillCursors, RxCursors
  <2> QED BY <2>1, <2>2 DEF Goal
<1>5. CASE FillEntry
  <2> USE <1>5 DEF FillEntry, fqCached, rxShared, rxCached, kernel, ghosts
  <2>1. fq_ring' \in [0 .. FqSize - 1 -> Frames \cup {INVALID_UMEM_FRAME}]
    <3>1. xsk_alloc_umem_frame \in Frames \cup {INVALID_UMEM_FRAME}
      BY <1>a DEF TypeOK, xsk_alloc_umem_frame, Frames
    <3> QED BY <1>a, <3>1 DEF TypeOK
  <2>2. /\ umem_frame_addr' \in [Frames -> Frames \cup {INVALID_UMEM_FRAME}]
        /\ umem_frame_free' \in 0 .. NumFrames
    <3>1. CASE umem_frame_free = 0
      BY <1>a, <3>1 DEF TypeOK, PopFrame, stack
    <3>2. CASE umem_frame_free # 0
      <4>1. /\ umem_frame_free' = umem_frame_free - 1
            /\ umem_frame_addr' = [umem_frame_addr EXCEPT
                                     ![umem_frame_free - 1] = INVALID_UMEM_FRAME]
        BY <3>2 DEF PopFrame
      <4> HIDE <1>5 DEF FillEntry
      <4>2. umem_frame_free' \in 0 .. NumFrames
        BY <1>a, <3>2, <4>1 DEF TypeOK
      <4>3. umem_frame_addr' \in [Frames -> Frames \cup {INVALID_UMEM_FRAME}]
        BY <1>a, <4>1 DEF TypeOK
      <4> QED BY <4>2, <4>3
    <3> QED BY <3>1, <3>2
  <2>3. TypeOK'
    BY <1>a, <2>1, <2>2 DEF TypeOK
  <2>4. FillCursors' /\ RxCursors' /\ pc' # "retry"
    BY <1>a DEF TypeOK, FillCursors, RxCursors
  <2> QED BY <2>3, <2>4 DEF Goal
<1>6. CASE xsk_ring_prod__submit
  <2> USE <1>6 DEF xsk_ring_prod__submit, stack, fqCached, rxShared, rxCached,
        kernel, ghosts
  <2>1. TypeOK'
    BY <1>a DEF TypeOK
  <2>2. FillCursors' /\ RxCursors' /\ pc' # "retry"
    BY <1>a DEF TypeOK, FillCursors, RxCursors
  <2> QED BY <2>1, <2>2 DEF Goal
<1>7. CASE ProcessPacket
  <2> USE <1>7 DEF ProcessPacket, process_packet, stack, fqShared, fqCached,
        rxShared, rxCached, kernel
  <2>1. rx_ring[rx_slot(idx_rx)] \in Frames
    BY <1>a, <1>b DEF TypeOK
  <2>2. TypeOK'
    BY <1>a, <2>1 DEF TypeOK
  <2>3. FillCursors' /\ RxCursors' /\ pc' # "retry"
    BY <1>a DEF TypeOK, FillCursors, RxCursors
  <2> QED BY <2>2, <2>3 DEF Goal
<1>8. CASE xsk_ring_cons__release
  <2> USE <1>8 DEF xsk_ring_cons__release, stack, fqShared, fqCached, rxCached,
        kernel, ghosts
  <2>1. TypeOK'
    BY <1>a DEF TypeOK
  <2>2. FillCursors' /\ RxCursors' /\ pc' # "retry"
    BY <1>a DEF TypeOK, FillCursors, RxCursors
  <2> QED BY <2>1, <2>2 DEF Goal
<1>9. CASE KReceive
  <2> USE <1>9 DEF KReceive, stack, fqShared, fqCached, rxCached, user, ghosts
  <2>1. fq_ring[fill_slot(k_fq_cons)] \in Frames
    BY <1>a, <1>b DEF TypeOK
  <2>2. umem' \in [Frames -> Nat]
    BY <1>a, <2>1 DEF TypeOK
  <2>3. rx_ring' \in [0 .. RxSize - 1 -> Frames]
    BY <1>a, <2>1 DEF TypeOK
  <2>4. TypeOK'
    BY SMTT(60), <1>a, <2>2, <2>3 DEF TypeOK
  <2>5. FillCursors' /\ RxCursors' /\ pc' # "retry"
    BY <1>a DEF TypeOK, FillCursors, RxCursors
  <2> QED BY <2>4, <2>5 DEF Goal
<1>10. CASE KSkipInvalid
  <2> USE <1>10 DEF KSkipInvalid, stack, fqShared, fqCached, rxShared, rxCached,
        user, ghosts
  <2>1. TypeOK'
    BY <1>a DEF TypeOK
  <2>2. FillCursors' /\ RxCursors' /\ pc' # "retry"
    BY <1>a DEF TypeOK, FillCursors, RxCursors
  <2> QED BY <2>1, <2>2 DEF Goal
<1>11. CASE KFlushRx
  <2> USE <1>11 DEF KFlushRx, stack, fqShared, fqCached, rxCached, kernel, user,
        ghosts
  <2>1. TypeOK'
    BY <1>a DEF TypeOK
  <2>2. FillCursors' /\ RxCursors' /\ pc' # "retry"
    BY <1>a DEF TypeOK, FillCursors, RxCursors
  <2> QED BY <2>1, <2>2 DEF Goal
<1>12. CASE KPublishFq
  <2> USE <1>12 DEF KPublishFq, stack, fqCached, rxShared, rxCached, kernel,
        user, ghosts
  <2>1. TypeOK'
    BY <1>a DEF TypeOK
  <2>2. FillCursors' /\ RxCursors' /\ pc' # "retry"
    BY <1>a DEF TypeOK, FillCursors, RxCursors
  <2> QED BY <2>1, <2>2 DEF Goal
<1>13. CASE UNCHANGED vars
  <2> USE <1>13 DEF vars, stack, fqShared, fqCached, rxShared, rxCached, kernel,
        user, ghosts
  <2>1. TypeOK'
    BY <1>a DEF TypeOK
  <2>2. FillCursors' /\ RxCursors' /\ pc' # "retry"
    BY <1>a DEF TypeOK, FillCursors, RxCursors
  <2> QED BY <2>1, <2>2 DEF Goal
<1> QED
  BY <1>1, <1>2, <1>3, <1>4, <1>5, <1>6, <1>7, <1>8, <1>9, <1>10, <1>11, <1>12,
     <1>13 DEF Next, UserStep, KernelStep

\* The receive path's variables stay in their ranges for all sizes: every rx
\* descriptor is a frame of the umem and umem_frame_free stays within the stack.
THEOREM TypeCorrect == Spec => []TypeOK
<1>1. Base => TypeOK
  BY DEF Base
<1> QED BY BaseInit, BaseStep, <1>1, PTL DEF Spec

\* The fill ring is never overrun, whatever the lag between the kernel's
\* consumption, its published cursor and the user's cached copy.
THEOREM FillRingSafe == Spec => []FillNeverOverrun
<1>1. Base => FillNeverOverrun
  BY SizesAssumption DEF Base, Cursors, FillCursors, TypeOK, FillNeverOverrun
<1> QED BY BaseInit, BaseStep, <1>1, PTL DEF Spec

\* The retry loop of handle_receive_packets is never entered.
THEOREM NoRetry == Spec => []ReserveNeverRetries
<1>1. Base => ReserveNeverRetries
  BY DEF Base, Cursors
<1> QED BY BaseInit, BaseStep, <1>1, PTL DEF Spec

-----------------------------------------------------------------------------
(* Second layer: who has each frame, and what it holds.                    *)

\* xsk_configure_socket splits the umem between the stack and the fill ring.
LEMMA OwnInit == Init => Own
<1> SUFFICES ASSUME Init PROVE Own
  OBVIOUS
<1> USE SizesAssumption DEF Init, xsk_configure_socket
<1>1. StackWindow = 0 .. NumFrames - FqSize - 1 /\ FillWindow = 0 .. FqSize - 1
      /\ RxWindow = {} /\ RxStart = 0
  BY DEF StackWindow, FillWindow, FillEnd, RxWindow, RxStart
<1>2. \A k \in 0 .. FqSize - 1 : fill_slot(k) = k
  BY FirstRound DEF fill_slot
<1>3. InStack = 0 .. NumFrames - FqSize - 1
  <2>1. \A k \in 0 .. NumFrames - FqSize - 1 : umem_frame_addr[k] = k
    BY DEF Frames
  <2> HIDE DEF Init
  <2> QED BY <1>1, <2>1 DEF InStack
<1>4. InFill = NumFrames - FqSize .. NumFrames - 1
  <2>1. \A k \in 0 .. FqSize - 1 : fq_ring[fill_slot(k)] = NumFrames - 1 - k
    BY <1>2
  <2>2. ASSUME NEW f \in NumFrames - FqSize .. NumFrames - 1 PROVE f \in InFill
    <3> HIDE DEF Init
    <3> DEFINE k == NumFrames - 1 - f
    <3>1. k \in 0 .. FqSize - 1 /\ NumFrames - 1 - k = f /\ f # INVALID_UMEM_FRAME
      BY DEF INVALID_UMEM_FRAME
    <3> HIDE DEF k
    <3> QED BY <3>1, <2>1, <1>1 DEF InFill
  <2>3. ASSUME NEW f \in InFill PROVE f \in NumFrames - FqSize .. NumFrames - 1
    <3> HIDE DEF Init
    <3>1. PICK k \in 0 .. FqSize - 1 : f = NumFrames - 1 - k
      BY <1>1, <2>1 DEF InFill
    <3> QED BY <3>1
  <2> QED BY <2>2, <2>3
<1>5. InRx = {}
  BY <1>1 DEF InRx
<1>6. StackValid
  BY <1>1 DEF StackValid, Frames
<1>7. FramesExclusive
  BY <1>1, <1>2, <1>3, <1>4, <1>5 DEF FramesExclusive, Frames
<1>8. FramesConserved
  BY <1>3, <1>4, <1>5 DEF FramesConserved, Frames
<1>9. Contents
  BY <1>1 DEF Contents
<1> QED BY <1>6, <1>7, <1>8, <1>9 DEF Own

\* A step that moves no frame: the windows and what they hold are as before.
LEMMA OwnUnmoved ==
  ASSUME Own, UNCHANGED <<umem, umem_frame_addr, umem_frame_free, fq_ring,
                          rx_ring, k_fq_cons, k_rx_prod, held, delivered>>,
         FillEnd' = FillEnd, RxStart' = RxStart
  PROVE  Own'
<1>1. StackWindow' = StackWindow /\ FillWindow' = FillWindow /\ RxWindow' = RxWindow
  BY DEF StackWindow, FillWindow, RxWindow
<1>2. InStack' = InStack /\ InFill' = InFill /\ InRx' = InRx
  BY <1>1 DEF InStack, InFill, InRx
<1>3. StackValid'
  BY <1>1 DEF Own, StackValid
<1>4. FramesExclusive'
  BY <1>1, <1>2 DEF Own, FramesExclusive
<1>5. FramesConserved'
  BY <1>2 DEF Own, FramesConserved
<1>6. Contents'
  BY <1>1 DEF Own, Contents
<1> QED BY <1>3, <1>4, <1>5, <1>6 DEF Own

\* FillEntry moves the top frame of the stack to the end of the fill window;
\* with an empty stack it adds an invalid entry there.
LEMMA OwnFillEntry == Base /\ Own /\ FillEntry => Own'
<1> SUFFICES ASSUME Base, Own, FillEntry PROVE Own'
  OBVIOUS
<1> USE SizesAssumption
<1> DEFINE f == xsk_alloc_umem_frame
<1>a. TypeOK /\ FillCursors /\ RxCursors
  BY DEF Base, Cursors
<1>b. StackValid /\ FramesExclusive /\ FramesConserved /\ Contents
  BY DEF Own
<1>1. /\ pc = "fill" /\ FillEnd = idx_fq /\ FillEnd' = idx_fq + 1
      /\ k_fq_cons <= idx_fq /\ idx_fq < k_fq_cons + FqSize
      /\ RxStart' = RxStart
  BY <1>a DEF FillEntry, TypeOK, FillCursors, FillEnd, RxStart, fqCached, rxShared,
     Base, Cursors
<1>2. UNCHANGED <<umem, rx_ring, k_fq_cons, k_rx_prod, held, delivered>>
  BY DEF FillEntry, rxShared, kernel, ghosts
<1>3. FillWindow' = FillWindow \cup {idx_fq} /\ idx_fq \notin FillWindow
  BY <1>1, <1>2, <1>a DEF FillWindow, TypeOK
<1>4. /\ fq_ring'[fill_slot(idx_fq)] = f
      /\ \A k \in FillWindow : fq_ring'[fill_slot(k)] = fq_ring[fill_slot(k)]
  <2>1. \A k \in FillWindow : fill_slot(k) # fill_slot(idx_fq)
    <3> SUFFICES ASSUME NEW k \in FillWindow PROVE fill_slot(k) # fill_slot(idx_fq)
      OBVIOUS
    <3>1. k \in Nat /\ idx_fq \in Nat /\ k < idx_fq /\ idx_fq - k < FqSize
      BY <1>1, <1>a DEF FillWindow, TypeOK
    <3> QED BY <3>1, SlotsDiffer DEF fill_slot
  <2>2. \A k \in Nat : fill_slot(k) \in 0 .. FqSize - 1
    BY SlotInRing DEF fill_slot
  <2>3. FillWindow \subseteq Nat /\ idx_fq \in Nat
    BY <1>a DEF FillWindow, TypeOK
  <2>4. fq_ring' = [fq_ring EXCEPT ![fill_slot(idx_fq)] = f]
    BY DEF FillEntry
  <2> HIDE DEF f
  <2> QED BY <2>1, <2>2, <2>3, <2>4, <1>a DEF TypeOK
<1>5. RxWindow' = RxWindow /\ InRx' = InRx
  BY <1>1, <1>2 DEF RxWindow, InRx
<1>6. InFill' = InFill \cup ({f} \ {INVALID_UMEM_FRAME})
  BY <1>3, <1>4 DEF InFill
<1>7. Contents'
  BY <1>b, <1>1, <1>2, <1>5 DEF Contents
<1>8. CASE umem_frame_free = 0
  <2>1. f = INVALID_UMEM_FRAME /\ UNCHANGED <<umem_frame_addr, umem_frame_free>>
    BY <1>8 DEF FillEntry, PopFrame, stack, xsk_alloc_umem_frame
  <2>2. StackWindow' = StackWindow /\ InStack' = InStack /\ InFill' = InFill
    BY <2>1, <1>6 DEF StackWindow, InStack
  <2>3. StackValid'
    BY <1>b, <2>1, <2>2 DEF StackValid
  <2>4. FramesExclusive'
    BY <1>b, <1>2, <1>3, <1>4, <1>5, <2>1, <2>2 DEF FramesExclusive
  <2>5. FramesConserved'
    BY <1>b, <1>2, <1>5, <2>2 DEF FramesConserved
  <2> QED BY <1>7, <2>3, <2>4, <2>5 DEF Own
<1>9. CASE umem_frame_free # 0
  <2> DEFINE top == umem_frame_free - 1
  <2>1. /\ f = umem_frame_addr[top] /\ umem_frame_free' = top
        /\ umem_frame_addr' = [umem_frame_addr EXCEPT ![top] = INVALID_UMEM_FRAME]
    BY <1>9 DEF FillEntry, PopFrame, xsk_alloc_umem_frame
  <2>2. StackWindow = StackWindow' \cup {top} /\ top \notin StackWindow'
        /\ top \in StackWindow
    BY <2>1, <1>9, <1>a DEF StackWindow, TypeOK
  <2>3. \A k \in StackWindow' : umem_frame_addr'[k] = umem_frame_addr[k]
    BY <2>1, <2>2, <1>a DEF TypeOK, StackWindow, Frames
  <2> HIDE DEF f, top
  <2>4. f \in Frames /\ f # INVALID_UMEM_FRAME
    BY <2>1, <2>2, <1>b DEF StackValid, Frames, INVALID_UMEM_FRAME
  <2>5. InStack = InStack' \cup {f}
    BY <2>1, <2>2, <2>3 DEF InStack
  <2>6. f \notin InStack'
    BY <2>1, <2>2, <2>3, <1>b DEF InStack, FramesExclusive
  <2>7. InFill' = InFill \cup {f} /\ f \notin InFill
    BY <1>6, <2>4, <2>5, <1>b DEF FramesExclusive
  <2>8. StackValid'
    BY <1>b, <2>2, <2>3 DEF StackValid
  <2>9. FramesExclusive'
    <3>1. \A a, b \in StackWindow' : umem_frame_addr'[a] = umem_frame_addr'[b] => a = b
      BY <1>b, <2>2, <2>3 DEF FramesExclusive
    <3>2. \A k \in FillWindow : fq_ring[fill_slot(k)] # f
      BY <2>4, <2>7 DEF InFill
    <3>3. \A a, b \in FillWindow' :
            /\ fq_ring'[fill_slot(a)] = fq_ring'[fill_slot(b)]
            /\ fq_ring'[fill_slot(a)] # INVALID_UMEM_FRAME
            => a = b
      BY <1>b, <1>3, <1>4, <3>2 DEF FramesExclusive
    <3>4. \A a, b \in RxWindow' : rx_ring'[rx_slot(a)] = rx_ring'[rx_slot(b)] => a = b
      BY <1>b, <1>2, <1>5 DEF FramesExclusive
    <3>5. /\ InStack' \cap InFill' = {} /\ InStack' \cap InRx' = {}
          /\ InStack' \cap held' = {} /\ InFill' \cap InRx' = {}
          /\ InFill' \cap held' = {} /\ InRx' \cap held' = {}
      BY <1>b, <1>2, <1>5, <2>5, <2>6, <2>7 DEF FramesExclusive
    <3> QED BY <3>1, <3>3, <3>4, <3>5 DEF FramesExclusive, fill_slot, rx_slot
  <2>10. FramesConserved'
    BY <1>b, <1>2, <1>5, <2>5, <2>7 DEF FramesConserved
  <2> QED BY <1>7, <2>8, <2>9, <2>10 DEF Own
<1> QED BY <1>8, <1>9

\* ProcessPacket moves the first frame of the rx window to the application.
LEMMA OwnProcessPacket == Base /\ Own /\ ProcessPacket => Own'
<1> SUFFICES ASSUME Base, Own, ProcessPacket PROVE Own'
  OBVIOUS
<1> USE SizesAssumption
<1> DEFINE f == rx_ring[rx_slot(idx_rx)]
<1>a. TypeOK /\ FillCursors /\ RxCursors
  BY DEF Base, Cursors
<1>b. StackValid /\ FramesExclusive /\ FramesConserved /\ Contents
  BY DEF Own
<1>1. /\ RxStart = idx_rx /\ RxStart' = idx_rx + 1 /\ FillEnd' = FillEnd
      /\ idx_rx \in RxWindow /\ idx_rx < k_rx_prod
  BY <1>a DEF ProcessPacket, TypeOK, RxCursors, RxStart, RxWindow, FillEnd, fqCached
<1>2. /\ UNCHANGED <<umem, umem_frame_addr, umem_frame_free, fq_ring, rx_ring,
                     k_fq_cons, k_rx_prod>>
      /\ held' = held \cup {f} /\ delivered' = Append(delivered, umem[f])
  BY DEF ProcessPacket, process_packet, stack, fqShared, rxShared, kernel
<1>3. RxWindow = RxWindow' \cup {idx_rx} /\ idx_rx \notin RxWindow'
  BY <1>1, <1>2, <1>a DEF RxWindow, TypeOK
<1>4. /\ StackWindow' = StackWindow /\ FillWindow' = FillWindow
      /\ InStack' = InStack /\ InFill' = InFill
  BY <1>1, <1>2 DEF StackWindow, FillWindow, InStack, InFill
<1>5. InRx = InRx' \cup {f}
  BY <1>2, <1>3 DEF InRx
<1>6. f \notin InRx'
  BY <1>b, <1>2, <1>3 DEF InRx, FramesExclusive
<1>7. StackValid'
  BY <1>b, <1>2, <1>4 DEF StackValid
<1>8. FramesExclusive'
  <2>1. \A a, b \in RxWindow' : rx_ring'[rx_slot(a)] = rx_ring'[rx_slot(b)] => a = b
    BY <1>b, <1>2, <1>3 DEF FramesExclusive
  <2>2. /\ InStack' \cap InFill' = {} /\ InStack' \cap InRx' = {}
        /\ InStack' \cap held' = {} /\ InFill' \cap InRx' = {}
        /\ InFill' \cap held' = {} /\ InRx' \cap held' = {}
    <3> HIDE DEF f
    <3> QED BY <1>b, <1>2, <1>4, <1>5, <1>6 DEF FramesExclusive
  <2> QED BY <1>b, <1>2, <1>4, <2>1, <2>2 DEF FramesExclusive
<1>9. FramesConserved'
  <2> HIDE DEF f
  <2> QED BY <1>b, <1>2, <1>4, <1>5 DEF FramesConserved
<1>10. Contents'
  <2>1. umem[f] = idx_rx + 1
    BY <1>b, <1>1 DEF Contents
  <2>2. Len(delivered) = idx_rx /\ delivered \in Seq(Nat) /\ umem[f] \in Nat
    BY <1>a, <1>b, <1>1, <2>1 DEF Contents, TypeOK
  <2> HIDE DEF f
  <2>3. Len(delivered') = RxStart'
    BY <1>1, <1>2, <2>2
  <2>4. \A k \in 1 .. Len(delivered') : delivered'[k] = k
    BY <1>b, <1>2, <2>1, <2>2 DEF Contents
  <2>5. \A k \in RxWindow' : umem'[rx_ring'[rx_slot(k)]] = k + 1
    BY <1>b, <1>2, <1>3 DEF Contents
  <2> QED BY <2>3, <2>4, <2>5 DEF Contents
<1> QED BY <1>7, <1>8, <1>9, <1>10 DEF Own

\* KReceive takes the first entry of the fill window: a frame nobody else has,
\* which becomes the last of the rx window.
LEMMA FrameTaken ==
  ASSUME Base, Own, KReceive
  PROVE  LET f == fq_ring[fill_slot(k_fq_cons)]
         IN  /\ FillWindow = FillWindow' \cup {k_fq_cons}
             /\ k_fq_cons \notin FillWindow'
             /\ RxWindow' = RxWindow \cup {k_rx_prod} /\ k_rx_prod \notin RxWindow
             /\ rx_ring'[rx_slot(k_rx_prod)] = f
             /\ \A k \in RxWindow : rx_ring'[rx_slot(k)] = rx_ring[rx_slot(k)]
             /\ InFill = InFill' \cup {f} /\ f \notin InFill'
             /\ InRx' = InRx \cup {f}
             /\ f \notin InRx /\ f \notin held /\ f \notin InStack
             /\ f \in Frames
<1> USE SizesAssumption
<1> DEFINE f == fq_ring[fill_slot(k_fq_cons)]
<1>a. TypeOK /\ FillCursors /\ RxCursors
  BY DEF Base, Cursors
<1>b. StackValid /\ FramesExclusive /\ FramesConserved /\ Contents
  BY DEF Own
<1>1. /\ FillEnd' = FillEnd /\ RxStart' = RxStart
      /\ k_fq_cons' = k_fq_cons + 1 /\ k_rx_prod' = k_rx_prod + 1
      /\ FillEnd \in Nat /\ RxStart \in Nat /\ k_fq_cons < FillEnd
      /\ RxStart <= k_rx_prod /\ k_rx_prod < RxStart + RxSize
  BY <1>a DEF KReceive, TypeOK, FillCursors, RxCursors, FillEnd, RxStart, fqCached,
     user, Base, Cursors, ReserveNeverRetries
<1>2. /\ UNCHANGED <<umem_frame_addr, umem_frame_free, fq_ring, held, delivered>>
      /\ f # INVALID_UMEM_FRAME /\ umem' = [umem EXCEPT ![f] = k_rx_prod + 1]
      /\ rx_ring' = [rx_ring EXCEPT ![rx_slot(k_rx_prod)] = f]
  BY DEF KReceive, stack, fqShared, ghosts
<1>3. FillWindow = FillWindow' \cup {k_fq_cons} /\ k_fq_cons \notin FillWindow'
  BY <1>1, <1>a DEF FillWindow, TypeOK
<1>4. RxWindow' = RxWindow \cup {k_rx_prod} /\ k_rx_prod \notin RxWindow
  BY <1>1, <1>a DEF RxWindow, TypeOK
<1>5. /\ rx_ring'[rx_slot(k_rx_prod)] = f
      /\ \A k \in RxWindow : rx_ring'[rx_slot(k)] = rx_ring[rx_slot(k)]
  <2>1. \A k \in RxWindow : rx_slot(k) # rx_slot(k_rx_prod)
    <3> SUFFICES ASSUME NEW k \in RxWindow PROVE rx_slot(k) # rx_slot(k_rx_prod)
      OBVIOUS
    <3>1. /\ k \in Nat /\ k_rx_prod \in Nat /\ k < k_rx_prod
          /\ k_rx_prod - k < RxSize
      BY <1>1, <1>a DEF RxWindow, TypeOK
    <3> QED BY <3>1, SlotsDiffer DEF rx_slot
  <2>2. \A k \in Nat : rx_slot(k) \in 0 .. RxSize - 1
    BY SlotInRing DEF rx_slot
  <2>3. RxWindow \subseteq Nat /\ k_rx_prod \in Nat
    BY <1>1, <1>a DEF RxWindow, TypeOK
  <2> HIDE DEF f
  <2> QED BY <1>2, <2>1, <2>2, <2>3, <1>a DEF TypeOK
<1>6. InFill = InFill' \cup {f}
  BY <1>2, <1>3 DEF InFill
<1>7. f \notin InFill'
  BY <1>b, <1>2, <1>3 DEF InFill, FramesExclusive
<1>8. InRx' = InRx \cup {f}
  <2> HIDE DEF f
  <2> QED BY <1>4, <1>5 DEF InRx
<1>9. f \notin InRx /\ f \notin held /\ f \notin InStack /\ f \in Frames
  BY <1>b, <1>6 DEF FramesExclusive, FramesConserved
<1> HIDE DEF f
<1> QED BY <1>3, <1>4, <1>5, <1>6, <1>7, <1>8, <1>9 DEF f

\* KReceive moves the first frame of the fill window to the end of the rx
\* window and writes the packet into it.
LEMMA OwnKReceive == Base /\ Own /\ KReceive => Own'
<1> SUFFICES ASSUME Base, Own, KReceive PROVE Own'
  OBVIOUS
<1> USE SizesAssumption
<1> DEFINE f == fq_ring[fill_slot(k_fq_cons)]
<1>a. TypeOK /\ FillCursors /\ RxCursors
  BY DEF Base, Cursors
<1>b. StackValid /\ FramesExclusive /\ FramesConserved /\ Contents
  BY DEF Own
<1>1. /\ FillEnd' = FillEnd /\ RxStart' = RxStart
      /\ k_fq_cons' = k_fq_cons + 1 /\ k_rx_prod' = k_rx_prod + 1
      /\ FillEnd \in Nat /\ RxStart \in Nat /\ k_fq_cons < FillEnd
      /\ RxStart <= k_rx_prod /\ k_rx_prod < RxStart + RxSize
  BY <1>a DEF KReceive, TypeOK, FillCursors, RxCursors, FillEnd, RxStart, fqCached,
     user, Base, Cursors, ReserveNeverRetries
<1>2. /\ UNCHANGED <<umem_frame_addr, umem_frame_free, fq_ring, held, delivered>>
      /\ f # INVALID_UMEM_FRAME /\ umem' = [umem EXCEPT ![f] = k_rx_prod + 1]
      /\ rx_ring' = [rx_ring EXCEPT ![rx_slot(k_rx_prod)] = f]
  BY DEF KReceive, stack, fqShared, ghosts
<1>3. FillWindow = FillWindow' \cup {k_fq_cons} /\ k_fq_cons \notin FillWindow'
  BY FrameTaken
<1>4. RxWindow' = RxWindow \cup {k_rx_prod} /\ k_rx_prod \notin RxWindow
  BY FrameTaken
<1>5. /\ rx_ring'[rx_slot(k_rx_prod)] = f
      /\ \A k \in RxWindow : rx_ring'[rx_slot(k)] = rx_ring[rx_slot(k)]
  BY FrameTaken
<1>6. StackWindow' = StackWindow /\ InStack' = InStack
  BY <1>2 DEF StackWindow, InStack
<1>7. InFill = InFill' \cup {f}
  BY FrameTaken
<1>8. f \notin InFill'
  BY FrameTaken
<1>9. InRx' = InRx \cup {f}
  BY FrameTaken
<1>10. f \notin InRx /\ f \notin held /\ f \notin InStack /\ f \in Frames
  BY FrameTaken
<1> HIDE DEF f
<1>11. StackValid'
  BY <1>b, <1>2, <1>6 DEF StackValid
<1>12. FramesExclusive'
  <2>1. \A a, b \in StackWindow' : umem_frame_addr'[a] = umem_frame_addr'[b] => a = b
    BY <1>b, <1>2, <1>6 DEF FramesExclusive
  <2>2. \A a, b \in FillWindow' :
          /\ fq_ring'[fill_slot(a)] = fq_ring'[fill_slot(b)]
          /\ fq_ring'[fill_slot(a)] # INVALID_UMEM_FRAME
          => a = b
    BY <1>b, <1>2, <1>3 DEF FramesExclusive
  <2>3. \A k \in RxWindow : rx_ring[rx_slot(k)] # f
    BY <1>10 DEF InRx
  <2>4. \A a, b \in RxWindow' : rx_ring'[rx_slot(a)] = rx_ring'[rx_slot(b)] => a = b
    BY <1>b, <1>4, <1>5, <2>3 DEF FramesExclusive
  <2>5. /\ InStack' \cap InFill' = {} /\ InStack' \cap InRx' = {}
        /\ InStack' \cap held' = {} /\ InFill' \cap InRx' = {}
        /\ InFill' \cap held' = {} /\ InRx' \cap held' = {}
    BY <1>b, <1>2, <1>6, <1>7, <1>8, <1>9, <1>10 DEF FramesExclusive
  <2> QED BY <2>1, <2>2, <2>4, <2>5 DEF FramesExclusive, fill_slot, rx_slot
<1>13. FramesConserved'
  BY <1>b, <1>2, <1>6, <1>7, <1>9 DEF FramesConserved
<1>14. Contents'
  <2>1. \A k \in RxWindow : umem'[rx_ring'[rx_slot(k)]] = k + 1
    <3> SUFFICES ASSUME NEW k \in RxWindow
                 PROVE  umem'[rx_ring'[rx_slot(k)]] = k + 1
      OBVIOUS
    <3>1. rx_ring[rx_slot(k)] # f /\ rx_ring[rx_slot(k)] \in InRx
      BY <1>10 DEF InRx
    <3>2. rx_ring[rx_slot(k)] \in Frames
      BY <3>1, <1>b DEF FramesConserved
    <3>3. umem'[rx_ring[rx_slot(k)]] = umem[rx_ring[rx_slot(k)]]
      BY <1>2, <1>a, <3>1, <3>2 DEF TypeOK
    <3> QED BY <3>3, <1>5, <1>b DEF Contents
  <2>2. umem'[rx_ring'[rx_slot(k_rx_prod)]] = k_rx_prod + 1
    BY <1>2, <1>5, <1>10, <1>a DEF TypeOK
  <2> QED BY <1>b, <1>1, <1>2, <1>4, <2>1, <2>2 DEF Contents
<1> QED BY <1>11, <1>12, <1>13, <1>14 DEF Own

\* KSkipInvalid drops an entry of the fill window that is no frame.
LEMMA OwnKSkipInvalid == Base /\ Own /\ KSkipInvalid => Own'
<1> SUFFICES ASSUME Base, Own, KSkipInvalid PROVE Own'
  OBVIOUS
<1> USE SizesAssumption
<1>a. TypeOK /\ FillCursors
  BY DEF Base, Cursors
<1>b. StackValid /\ FramesExclusive /\ FramesConserved /\ Contents
  BY DEF Own
<1>1. /\ FillEnd' = FillEnd /\ RxStart' = RxStart
      /\ k_fq_cons' = k_fq_cons + 1 /\ k_fq_cons < FillEnd /\ FillEnd \in Nat
  BY <1>a DEF KSkipInvalid, TypeOK, FillCursors, FillEnd, RxStart, fqCached, user,
     rxShared
<1>2. /\ UNCHANGED <<umem, umem_frame_addr, umem_frame_free, fq_ring, rx_ring,
                     k_rx_prod, held, delivered>>
      /\ fq_ring[fill_slot(k_fq_cons)] = INVALID_UMEM_FRAME
  BY DEF KSkipInvalid, stack, fqShared, rxShared, ghosts
<1>3. FillWindow = FillWindow' \cup {k_fq_cons}
  BY <1>1, <1>a DEF FillWindow, TypeOK
<1>4. InFill' = InFill
  BY <1>2, <1>3 DEF InFill
<1>5. /\ StackWindow' = StackWindow /\ RxWindow' = RxWindow
      /\ InStack' = InStack /\ InRx' = InRx
  BY <1>1, <1>2 DEF StackWindow, RxWindow, InStack, InRx
<1>6. StackValid'
  BY <1>b, <1>2, <1>5 DEF StackValid
<1>7. FramesExclusive'
  BY <1>b, <1>2, <1>3, <1>4, <1>5 DEF FramesExclusive
<1>8. FramesConserved'
  BY <1>b, <1>2, <1>4, <1>5 DEF FramesConserved
<1>9. Contents'
  BY <1>b, <1>1, <1>2, <1>5 DEF Contents
<1> QED BY <1>6, <1>7, <1>8, <1>9 DEF Own

\* The steps that only move cursors leave both windows where they were: what
\* the user peeks, reserves, submits or releases was its own before.
LEMMA CursorSteps ==
  ASSUME Base,
         \/ PeekNothing \/ xsk_ring_cons__peek \/ CountStock \/ ReserveFill
         \/ xsk_ring_prod__submit \/ xsk_ring_cons__release
         \/ KFlushRx \/ KPublishFq \/ UNCHANGED vars
  PROVE  /\ UNCHANGED <<umem, umem_frame_addr, umem_frame_free, fq_ring, rx_ring,
                        k_fq_cons, k_rx_prod, held, delivered>>
         /\ FillEnd' = FillEnd /\ RxStart' = RxStart
<1> USE DEF Base, Cursors, FillCursors, RxCursors, ReserveNeverRetries, FillEnd,
      RxStart, stack, fqShared, fqCached, rxShared, rxCached, kernel, user, ghosts
<1>1. CASE PeekNothing
  BY <1>1 DEF PeekNothing
<1>2. CASE xsk_ring_cons__peek
  BY <1>2 DEF xsk_ring_cons__peek
<1>3. CASE CountStock
  BY <1>3 DEF CountStock
<1>4. CASE ReserveFill
  <2>1. /\ fq_cached_prod \in Nat /\ fq_cached_cons \in Nat /\ stock_frames \in Nat
        /\ pc = "reserve" /\ stock_frames = fq_cached_cons - fq_cached_prod
        /\ stock_frames > 0 /\ idx_rx' = idx_rx
    BY <1>4 DEF TypeOK, ReserveFill
  <2>2. xsk_ring_prod__reserve(stock_frames) = stock_frames
    BY <2>1 DEF xsk_ring_prod__reserve, xsk_prod_nb_free, nb_free_cached_cons
  <2>3. pc' = "fill" /\ idx_fq' = fq_cached_prod
    BY <1>4, <2>1, <2>2 DEF ReserveFill
  <2> QED BY <1>4, <2>1, <2>3 DEF ReserveFill
<1>5. CASE xsk_ring_prod__submit
  BY <1>5 DEF xsk_ring_prod__submit
<1>6. CASE xsk_ring_cons__release
  BY <1>6 DEF xsk_ring_cons__release
<1>7. CASE KFlushRx
  BY <1>7 DEF KFlushRx
<1>8. CASE KPublishFq
  BY <1>8 DEF KPublishFq
<1>9. CASE UNCHANGED vars
  BY <1>9 DEF vars
<1> QED BY <1>1, <1>2, <1>3, <1>4, <1>5, <1>6, <1>7, <1>8, <1>9

\* Every step keeps each frame in exactly one place.
LEMMA OwnStep == Base /\ Own /\ [Next]_vars => Own'
<1> SUFFICES ASSUME Base, Own, [Next]_vars PROVE Own'
  OBVIOUS
<1>1. CASE FillEntry
  BY <1>1, OwnFillEntry
<1>2. CASE ProcessPacket
  BY <1>2, OwnProcessPacket
<1>3. CASE KReceive
  BY <1>3, OwnKReceive
<1>4. CASE KSkipInvalid
  BY <1>4, OwnKSkipInvalid
<1>5. CASE \/ PeekNothing \/ xsk_ring_cons__peek \/ CountStock \/ ReserveFill
           \/ xsk_ring_prod__submit \/ xsk_ring_cons__release
           \/ KFlushRx \/ KPublishFq \/ UNCHANGED vars
  BY <1>5, CursorSteps, OwnUnmoved
<1> QED BY <1>1, <1>2, <1>3, <1>4, <1>5 DEF Next, UserStep, KernelStep

\* IInv is an invariant of the receive path.
LEMMA Invariance == Spec => []IInv
<1>1. Init => IInv
  BY BaseInit, OwnInit DEF IInv
<1>2. IInv /\ [Next]_vars => IInv'
  BY BaseStep, OwnStep DEF IInv
<1> QED BY <1>1, <1>2, PTL DEF Spec

\* No frame is ever in two places: the kernel is never offered a frame that is
\* free, queued or in the application's hands.
THEOREM Exclusive == Spec => []FramesExclusive
<1>1. IInv => FramesExclusive
  BY DEF IInv, Own
<1> QED BY Invariance, <1>1, PTL

\* No frame vanishes between the stack, the rings and the application.
THEOREM Conserved == Spec => []FramesConserved
<1>1. IInv => FramesConserved
  BY DEF IInv, Own
<1> QED BY Invariance, <1>1, PTL

\* The callback sees the accepted packets in order, once each and unmodified.
THEOREM InOrder == Spec => []DeliveredInOrder
<1>1. IInv => DeliveredInOrder
  <2> SUFFICES ASSUME IInv PROVE DeliveredInOrder
    OBVIOUS
  <2>1. RxStart <= k_rx_prod
    BY DEF IInv, Base, Cursors, RxCursors, ReserveNeverRetries, TypeOK, RxStart
  <2> QED BY <2>1 DEF IInv, Own, Contents, DeliveredInOrder
<1> QED BY Invariance, <1>1, PTL

\* The kernel never writes into a frame the user can still read.
THEOREM Stable == Spec => UserFramesStable
<1>1. IInv /\ [Next]_vars => [\A f \in InRx \cup held : umem'[f] = umem[f]]_vars
  <2> SUFFICES ASSUME IInv, Next, NEW f \in InRx \cup held
               PROVE  umem'[f] = umem[f]
    OBVIOUS
  <2>1. CASE KReceive
    <3> DEFINE g == fq_ring[fill_slot(k_fq_cons)]
    <3>1. k_fq_cons \in FillWindow
      BY <2>1 DEF KReceive, IInv, Base, Cursors, FillCursors, TypeOK, FillWindow,
         FillEnd
    <3>2. g \in InFill
      BY <2>1, <3>1 DEF KReceive, InFill
    <3>3. f # g /\ f \in Frames
      BY <3>2 DEF IInv, Own, FramesExclusive, FramesConserved
    <3> QED BY <2>1, <3>3 DEF KReceive, IInv, Base, TypeOK
  <2>2. CASE ~KReceive
    <3>1. umem' = umem
      BY <2>2 DEF Next, UserStep, KernelStep, PeekNothing, xsk_ring_cons__peek,
         CountStock, ReserveFill, FillEntry, xsk_ring_prod__submit, ProcessPacket,
         xsk_ring_cons__release, KSkipInvalid, KFlushRx, KPublishFq
    <3> QED BY <3>1
  <2> QED BY <2>1, <2>2
<1> QED BY Invariance, <1>1, PTL DEF Spec, UserFramesStable

-----------------------------------------------------------------------------
(* What a cursor's value can be.                                           *)

\* When handle_receive_packets finds nothing to peek, nothing is waiting: each
\* published packet was delivered.  It decides from a cached producer, which
\* may be old; a peek that trusted it would leave packets behind.
EmptyMeansDelivered ==
  pc = "idle" /\ xsk_cons_nb_avail(RxBatch) = 0 => Len(delivered) = rx_producer

\* The free-running cursors stay below a bound set by the sizes alone.  With
\* the code's 4096 frames and 2048 entries it is about 2^23: the u32 cursors
\* of libbpf, which are compared and subtracted, never wrap.
CursorsBounded ==
  /\ \A c \in {rx_consumer, rx_producer, rx_cached_cons, rx_cached_prod, k_rx_prod} :
       c <= NumFrames
  /\ \A c \in {fq_consumer, k_fq_cons, fq_producer, fq_cached_prod} :
       c <= FqSize * (NumFrames + 1)
  /\ fq_cached_cons <= FqSize * (NumFrames + 2)

\* Each accepted packet has used up a frame for good: process_packet keeps it.
FramePerPacket == /\ IsFiniteSet(held \cup InRx)
                  /\ Cardinality(held \cup InRx) = k_rx_prod

\* One call reserves at most a ring's worth of entries and releases a packet.
FillPerPacket ==
  /\ pc \in {"idle", "stock", "reserve"} =>
       fq_cached_prod <= FqSize * (rx_consumer + 1)
  /\ pc \notin {"idle", "stock", "reserve"} =>
       fq_cached_prod <= FqSize * (rx_consumer + 2)

\* An empty peek really means that every published packet was delivered.
THEOREM PeekSeesAll == Spec => []EmptyMeansDelivered
<1>1. IInv => EmptyMeansDelivered
  <2> SUFFICES ASSUME IInv, pc = "idle", xsk_cons_nb_avail(RxBatch) = 0
               PROVE  Len(delivered) = rx_producer
    BY DEF EmptyMeansDelivered
  <2>1. /\ rx_cached_cons = rx_consumer /\ rx_consumer \in Nat
        /\ rx_cached_prod \in Nat /\ rx_producer \in Nat
        /\ Len(delivered) = rx_consumer
    BY DEF IInv, Base, Own, Cursors, RxCursors, TypeOK, Contents, RxStart
  <2>2. nb_avail_cached_prod - rx_cached_cons = 0
    BY <2>1, SizesAssumption DEF xsk_cons_nb_avail, nb_avail_cached_prod
  <2> QED BY <2>1, <2>2 DEF nb_avail_cached_prod
<1> QED BY Invariance, <1>1, PTL

\* A step that leaves the windows alone uses up no frame.
LEMMA FramePerPacketKept ==
  ASSUME FramePerPacket, UNCHANGED <<rx_ring, k_rx_prod, held>>, RxStart' = RxStart
  PROVE  FramePerPacket'
<1>1. InRx' = InRx
  BY DEF InRx, RxWindow
<1> QED BY <1>1 DEF FramePerPacket

\* An arriving packet takes one frame more, processing only hands it over.
LEMMA FramePerPacketStep == IInv /\ FramePerPacket /\ [Next]_vars => FramePerPacket'
<1> SUFFICES ASSUME IInv, FramePerPacket, [Next]_vars PROVE FramePerPacket'
  OBVIOUS
<1>a. Base /\ Own /\ TypeOK /\ RxCursors /\ FramesExclusive
  BY DEF IInv, Base, Own, Cursors
<1>1. CASE FillEntry
  <2>1. UNCHANGED <<rx_ring, k_rx_prod, held>> /\ RxStart' = RxStart
    BY <1>1, <1>a DEF FillEntry, rxShared, kernel, ghosts, RxStart, TypeOK
  <2> QED BY <2>1, FramePerPacketKept
<1>2. CASE ProcessPacket
  <2> DEFINE f == rx_ring[rx_slot(idx_rx)]
  <2>1. /\ UNCHANGED <<rx_ring, k_rx_prod>> /\ held' = held \cup {f}
        /\ RxStart = idx_rx /\ RxStart' = idx_rx + 1 /\ idx_rx < k_rx_prod
        /\ idx_rx \in Nat /\ k_rx_prod \in Nat
    BY <1>2, <1>a DEF ProcessPacket, process_packet, rxShared, kernel, RxStart,
       RxCursors, TypeOK
  <2>2. RxWindow = RxWindow' \cup {idx_rx}
    BY <2>1 DEF RxWindow
  <2>3. InRx = InRx' \cup {f}
    BY <2>1, <2>2 DEF InRx
  <2> HIDE DEF f
  <2>4. held' \cup InRx' = held \cup InRx
    BY <2>1, <2>3
  <2> QED BY <2>1, <2>4 DEF FramePerPacket
<1>3. CASE KReceive
  <2> DEFINE f == fq_ring[fill_slot(k_fq_cons)]
             S == held \cup InRx
  <2>1. InRx' = InRx \cup {f} /\ f \notin S
    BY <1>3, <1>a, FrameTaken
  <2>2. held' = held /\ k_rx_prod' = k_rx_prod + 1
    BY <1>3 DEF KReceive, ghosts
  <2>3. IsFiniteSet(S) /\ Cardinality(S) = k_rx_prod
    BY DEF FramePerPacket
  <2> HIDE DEF f
  <2>4. held' \cup InRx' = S \cup {f}
    BY <2>1, <2>2
  <2> HIDE DEF S
  <2>5. IsFiniteSet(S \cup {f}) /\ Cardinality(S \cup {f}) = Cardinality(S) + 1
    BY <2>1, <2>3, FS_AddElement
  <2> QED BY <2>2, <2>3, <2>4, <2>5 DEF FramePerPacket
<1>4. CASE KSkipInvalid
  <2>1. UNCHANGED <<rx_ring, k_rx_prod, held>> /\ RxStart' = RxStart
    BY <1>4 DEF KSkipInvalid, rxShared, user, ghosts, RxStart
  <2> QED BY <2>1, FramePerPacketKept
<1>5. CASE \/ PeekNothing \/ xsk_ring_cons__peek \/ CountStock \/ ReserveFill
           \/ xsk_ring_prod__submit \/ xsk_ring_cons__release
           \/ KFlushRx \/ KPublishFq \/ UNCHANGED vars
  <2>1. UNCHANGED <<rx_ring, k_rx_prod, held>> /\ RxStart' = RxStart
    BY <1>5, <1>a, CursorSteps
  <2> QED BY <2>1, FramePerPacketKept
<1> QED BY <1>1, <1>2, <1>3, <1>4, <1>5 DEF Next, UserStep, KernelStep

\* A product grows with its second factor.
LEMMA Grows ==
  ASSUME NEW m \in Nat, NEW a \in Nat, NEW b \in Nat, a <= b
  PROVE  m * a \in Nat /\ m * b \in Nat /\ m * a <= m * b
<1>1. m * (b - a) >= 0 /\ m * b = m * a + m * (b - a)
  OBVIOUS
<1> QED BY <1>1

\* Only the reservation moves the fill cursor, by a ring's worth at most, and
\* the release that ends the call has a packet to pay for it.
LEMMA FillPerPacketStep == IInv /\ FillPerPacket /\ [Next]_vars => FillPerPacket'
<1> SUFFICES ASSUME IInv, FillPerPacket, [Next]_vars PROVE FillPerPacket'
  OBVIOUS
<1> USE SizesAssumption
<1> DEFINE Low  == FqSize * (rx_consumer + 1)
           High == FqSize * (rx_consumer + 2)
<1>a. /\ Base /\ FillCursors /\ RxCursors /\ pc # "retry"
      /\ rx_consumer \in Nat /\ fq_cached_prod \in Nat /\ fq_cached_cons \in Nat
      /\ fq_consumer \in Nat /\ k_fq_cons \in Nat /\ fq_producer \in Nat
      /\ stock_frames \in Nat /\ rcvd \in Nat
  BY DEF IInv, Base, Cursors, ReserveNeverRetries, TypeOK
<1>b. Low \in Nat /\ High = Low + FqSize
  BY <1>a
<1>c. /\ pc \in {"idle", "stock", "reserve"} => fq_cached_prod <= Low
      /\ pc \notin {"idle", "stock", "reserve"} => fq_cached_prod <= High
  BY DEF FillPerPacket
<1>1. CASE ReserveFill
  <2>1. /\ pc = "reserve" /\ stock_frames = fq_cached_cons - fq_cached_prod
        /\ fq_producer = fq_cached_prod /\ stock_frames > 0
    BY <1>1, <1>a DEF ReserveFill, FillCursors
  <2>2. stock_frames <= FqSize
    BY <1>a, <2>1 DEF FillCursors
  <2>3. xsk_ring_prod__reserve(stock_frames) = stock_frames
    BY <1>a, <2>1 DEF xsk_ring_prod__reserve, xsk_prod_nb_free, nb_free_cached_cons
  <2>4. /\ fq_cached_prod' = fq_cached_prod + stock_frames /\ pc' = "fill"
        /\ rx_consumer' = rx_consumer
    BY <1>1, <2>1, <2>3 DEF ReserveFill, rxShared
  <2> HIDE DEF Low
  <2>5. fq_cached_prod' <= High
    BY <1>a, <1>b, <1>c, <2>1, <2>2, <2>4
  <2> QED BY <2>4, <2>5 DEF FillPerPacket
<1>2. CASE xsk_ring_cons__release
  <2>1. /\ pc = "release" /\ pc' = "idle" /\ fq_cached_prod' = fq_cached_prod
        /\ rx_consumer' = rx_consumer + rcvd /\ rcvd > 0
    BY <1>2, <1>a DEF xsk_ring_cons__release, fqCached, RxCursors
  <2>2. rx_consumer + 2 <= rx_consumer' + 1 /\ rx_consumer' + 1 \in Nat
    BY <1>a, <2>1
  <2>3. High \in Nat /\ High <= FqSize * (rx_consumer' + 1)
        /\ FqSize * (rx_consumer' + 1) \in Nat
    BY <1>a, <2>2, Grows
  <2> HIDE DEF High
  <2>4. fq_cached_prod' <= FqSize * (rx_consumer' + 1)
    BY <1>a, <1>c, <2>1, <2>3
  <2> QED BY <2>1, <2>4 DEF FillPerPacket
<1>3. CASE ~(ReserveFill \/ xsk_ring_cons__release)
  <2>1. /\ fq_cached_prod' = fq_cached_prod /\ rx_consumer' = rx_consumer
        /\ pc' \in {"idle", "stock", "reserve"} => pc \in {"idle", "stock", "reserve"}
    BY <1>3 DEF Next, UserStep, KernelStep, PeekNothing, xsk_ring_cons__peek,
       CountStock, FillEntry, xsk_ring_prod__submit, ProcessPacket, KReceive,
       KSkipInvalid, KFlushRx, KPublishFq, fqCached, rxShared, user, vars
  <2> HIDE DEF Low
  <2>2. fq_cached_prod <= High
    BY <1>a, <1>b, <1>c
  <2> QED BY <1>c, <2>1, <2>2 DEF FillPerPacket, Low
<1> QED BY <1>1, <1>2, <1>3

\* No cursor ever passes its bound, for every size of umem, rings and batch.
THEOREM NoCursorWraps == Spec => []CursorsBounded
<1> USE SizesAssumption
<1>1. Init => FramePerPacket /\ FillPerPacket
  <2> SUFFICES ASSUME Init PROVE FramePerPacket /\ FillPerPacket
    OBVIOUS
  <2>1. held = {} /\ RxWindow = {} /\ k_rx_prod = 0
    BY DEF Init, xsk_configure_socket, RxWindow, RxStart
  <2>2. held \cup InRx = {}
    BY <2>1 DEF InRx
  <2>3. FramePerPacket
    BY <2>1, <2>2, FS_EmptySet DEF FramePerPacket
  <2>4. FillPerPacket
    BY DEF Init, xsk_configure_socket, FillPerPacket
  <2> QED BY <2>3, <2>4
<1>2. IInv /\ FramePerPacket /\ FillPerPacket => CursorsBounded
  <2> SUFFICES ASSUME IInv, FramePerPacket, FillPerPacket PROVE CursorsBounded
    OBVIOUS
  <2>a. /\ FillCursors /\ RxCursors
        /\ rx_consumer \in Nat /\ rx_producer \in Nat /\ rx_cached_cons \in Nat
        /\ rx_cached_prod \in Nat /\ k_rx_prod \in Nat
        /\ fq_consumer \in Nat /\ fq_producer \in Nat /\ fq_cached_prod \in Nat
        /\ fq_cached_cons \in Nat /\ k_fq_cons \in Nat /\ rcvd \in Nat
        /\ stock_frames \in Nat
    BY DEF IInv, Base, Cursors, TypeOK
  <2>1. k_rx_prod <= NumFrames
    <3> DEFINE S == held \cup InRx
    <3>1. S \in SUBSET (0 .. NumFrames - 1)
      BY DEF IInv, Own, FramesConserved, Frames
    <3>2. Cardinality(S) = k_rx_prod
      BY DEF FramePerPacket
    <3> HIDE DEF S
    <3>3. /\ IsFiniteSet(0 .. NumFrames - 1)
          /\ Cardinality(0 .. NumFrames - 1) = NumFrames
      BY FS_Interval
    <3>4. Cardinality(S) <= Cardinality(0 .. NumFrames - 1)
      BY <3>1, <3>3, FS_Subset
    <3> QED BY <3>2, <3>3, <3>4
  <2>2. /\ rx_consumer <= NumFrames /\ rx_producer <= NumFrames
        /\ rx_cached_cons <= NumFrames /\ rx_cached_prod <= NumFrames
    BY <2>a, <2>1 DEF RxCursors
  <2> DEFINE Bound == FqSize * (NumFrames + 1)
  <2>3. Bound \in Nat /\ fq_cached_prod <= Bound
    <3>1. CASE pc \in {"idle", "stock", "reserve"}
      <4>1. fq_cached_prod <= FqSize * (rx_consumer + 1)
        BY <3>1 DEF FillPerPacket
      <4>2. rx_consumer + 1 <= NumFrames + 1
        BY <2>a, <2>2
      <4>3. Bound \in Nat /\ FqSize * (rx_consumer + 1) \in Nat
            /\ FqSize * (rx_consumer + 1) <= Bound
        BY <2>a, <4>2, Grows
      <4> HIDE DEF Bound
      <4> QED BY <2>a, <4>1, <4>3
    <3>2. CASE pc \notin {"idle", "stock", "reserve"}
      <4>1. fq_cached_prod <= FqSize * (rx_consumer + 2)
        BY <3>2 DEF FillPerPacket
      <4>2. rx_consumer + 2 <= NumFrames + 1
        BY <2>a, <2>1, <2>2, <3>2 DEF RxCursors
      <4>3. Bound \in Nat /\ FqSize * (rx_consumer + 2) \in Nat
            /\ FqSize * (rx_consumer + 2) <= Bound
        BY <2>a, <4>2, Grows
      <4> HIDE DEF Bound
      <4> QED BY <2>a, <4>1, <4>3
    <3> QED BY <3>1, <3>2
  <2>4. FqSize * (NumFrames + 2) = Bound + FqSize
    OBVIOUS
  <2> HIDE DEF Bound
  <2>5. fq_producer <= fq_cached_prod
    BY <2>a DEF FillCursors
  <2>6. /\ fq_consumer <= Bound /\ k_fq_cons <= Bound /\ fq_producer <= Bound
        /\ fq_cached_cons <= Bound + FqSize
    BY <2>a, <2>3, <2>5 DEF FillCursors
  <2> QED BY <2>1, <2>2, <2>3, <2>4, <2>6 DEF CursorsBounded, Bound
<1>3. Spec => [](IInv /\ FramePerPacket /\ FillPerPacket)
  BY <1>1, Invariance, FramePerPacketStep, FillPerPacketStep, PTL DEF Spec
<1> QED BY <1>2, <1>3, PTL

-----------------------------------------------------------------------------
(* The receive path implements the packet queue.                           *)

\* The queue the descriptors stand for, and the numbers its packets have.
Mapped  == [k \in 1 .. k_rx_prod - RxStart |-> umem[rx_ring[rx_slot(RxStart + k - 1)]]]
Waiting == [k \in 1 .. k_rx_prod - RxStart |-> RxStart + k]

\* Cursors and what was delivered, as the proof of the refinement needs them.
LEMMA Positions ==
  ASSUME IInv
  PROVE  /\ RxStart \in Nat /\ k_rx_prod \in Nat /\ RxStart <= k_rx_prod
         /\ rx_consumer \in Nat /\ rx_consumer <= RxStart
         /\ delivered \in Seq(Nat) /\ Len(delivered) = RxStart
<1>1. RxStart \in Nat /\ k_rx_prod \in Nat /\ RxStart <= k_rx_prod
      /\ rx_consumer \in Nat /\ rx_consumer <= RxStart
  BY DEF IInv, Base, Cursors, RxCursors, ReserveNeverRetries, TypeOK, RxStart
<1>2. delivered \in Seq(Nat) /\ Len(delivered) = RxStart
  BY DEF IInv, Base, TypeOK, Own, Contents
<1> QED BY <1>1, <1>2

\* The frames that wait hold the packets in order.
LEMMA MappedIsWaiting == IInv => Mapped = Waiting
<1> SUFFICES ASSUME IInv PROVE Mapped = Waiting
  OBVIOUS
<1> DEFINE n == k_rx_prod - RxStart
<1>1. \A k \in 1 .. n : RxStart + k - 1 \in RxWindow /\ (RxStart + k - 1) + 1 = RxStart + k
  BY Positions DEF RxWindow
<1>2. \A k \in RxWindow : umem[rx_ring[rx_slot(k)]] = k + 1
  BY DEF IInv, Own, Contents
<1>3. \A k \in 1 .. n : umem[rx_ring[rx_slot(RxStart + k - 1)]] = RxStart + k
  BY <1>1, <1>2
<1> HIDE DEF n
<1>4. Mapped = [k \in 1 .. n |-> umem[rx_ring[rx_slot(RxStart + k - 1)]]]
  BY DEF Mapped, n
<1>5. Waiting = [k \in 1 .. n |-> RxStart + k]
  BY DEF Waiting, n
<1> QED BY <1>3, <1>4, <1>5

\* Consecutive numbers as a sequence: one more at the end, one less at the front.
LEMMA Numbers ==
  ASSUME NEW s \in Nat, NEW p \in Nat, s <= p
  PROVE  LET q == [k \in 1 .. p - s |-> s + k]
         IN  /\ q \in Seq(Nat) /\ Len(q) = p - s
             /\ [k \in 1 .. (p + 1) - s |-> s + k] = Append(q, p + 1)
             /\ s < p => /\ q # <<>> /\ Head(q) = s + 1
                         /\ Tail(q) = [k \in 1 .. p - (s + 1) |-> (s + 1) + k]
<1> DEFINE n == p - s
           q == [k \in 1 .. n |-> s + k]
           l == [k \in 1 .. n + 1 |-> s + k]
<1>1. n \in Nat /\ (p + 1) - s = n + 1 /\ s + (n + 1) = p + 1 /\ p - (s + 1) = n - 1
  OBVIOUS
<1> HIDE DEF n
<1>2. q \in Seq(Nat) /\ Len(q) = n
  <2>1. q \in [1 .. n -> Nat]
    BY <1>1
  <2> HIDE DEF q
  <2> QED BY <1>1, <2>1
<1>3. l \in Seq(Nat) /\ Len(l) = n + 1
  <2>1. l \in [1 .. n + 1 -> Nat]
    BY <1>1
  <2> HIDE DEF l
  <2> QED BY <1>1, <2>1
<1>4. l = Append(q, p + 1)
  <2> DEFINE a == Append(q, p + 1)
  <2>1. a \in Seq(Nat) /\ Len(a) = n + 1 /\ a[n + 1] = p + 1
    BY <1>1, <1>2
  <2>2. \A k \in 1 .. n : a[k] = q[k]
    <3> HIDE DEF q
    <3> QED BY <1>1, <1>2
  <2> HIDE DEF a
  <2>3. \A k \in 1 .. n + 1 : a[k] = l[k]
    <3> SUFFICES ASSUME NEW k \in 1 .. n + 1 PROVE a[k] = s + k
      OBVIOUS
    <3>1. CASE k \in 1 .. n
      BY <2>2, <3>1
    <3>2. CASE k = n + 1
      BY <1>1, <2>1, <3>2
    <3> QED BY <1>1, <3>1, <3>2
  <2> HIDE DEF l
  <2>4. a = l
    BY <1>1, <1>3, <2>1, <2>3
  <2> QED BY <2>4 DEF a
<1>5. ASSUME s < p
      PROVE  /\ q # <<>> /\ Head(q) = s + 1
             /\ Tail(q) = [k \in 1 .. n - 1 |-> (s + 1) + k]
  <2> DEFINE t == [k \in 1 .. n - 1 |-> (s + 1) + k]
  <2>1. n >= 1 /\ 1 \in 1 .. n /\ n - 1 \in Nat
    BY <1>1, <1>5 DEF n
  <2>2. \A k \in 1 .. n : q[k] = s + k
    OBVIOUS
  <2>3. t \in [1 .. n - 1 -> Nat]
    BY <2>1
  <2>4. \A k \in 1 .. n - 1 : t[k] = (s + 1) + k
    OBVIOUS
  <2> HIDE DEF q, t
  <2>5. t \in Seq(Nat) /\ Len(t) = n - 1
    BY <2>1, <2>3
  <2>6. q # <<>> /\ Head(q) = q[1] /\ q[1] = s + 1
    BY <1>2, <2>1, <2>2
  <2>7. /\ Tail(q) \in Seq(Nat) /\ Len(Tail(q)) = n - 1
        /\ \A k \in 1 .. n - 1 : Tail(q)[k] = q[k + 1]
    BY <1>2, <2>1, <2>6
  <2>8. \A k \in 1 .. n - 1 : q[k + 1] = (s + 1) + k
    BY <1>1, <2>1, <2>2
  <2>9. \A k \in 1 .. n - 1 : Tail(q)[k] = t[k]
    BY <2>4, <2>7, <2>8
  <2>10. Tail(q) = t
    BY <2>5, <2>7, <2>9
  <2> QED BY <2>6, <2>10 DEF t
<1> QED BY <1>1, <1>2, <1>4, <1>5 DEF n

\* Each step of the receive path is one of the queue, or none: the kernel
\* accepts, ProcessPacket delivers, all else leaves the queue alone.
LEMMA QueueStep == IInv /\ IInv' /\ [Next]_vars => [Queue!QNext]_(Queue!qvars)
<1> SUFFICES ASSUME IInv, IInv', [Next]_vars PROVE [Queue!QNext]_(Queue!qvars)
  OBVIOUS
<1> DEFINE s == RxStart
           p == k_rx_prod
<1>1. /\ s \in Nat /\ p \in Nat /\ s <= p /\ rx_consumer \in Nat /\ rx_consumer <= s
      /\ delivered \in Seq(Nat) /\ Len(delivered) = s
  BY Positions
<1>2. Mapped = Waiting
  BY MappedIsWaiting
<1>3. (Mapped = Waiting)'
  BY MappedIsWaiting, PTL
<1>4. Waiting \in Seq(Nat) /\ Len(Waiting) = p - s
  BY <1>1, Numbers DEF Waiting
<1>5. CASE KReceive
  <2>1. RxStart' = s /\ k_rx_prod' = p + 1 /\ delivered' = delivered /\ p - rx_consumer < RxSize
    BY <1>5 DEF KReceive, RxStart, user, ghosts
  <2>2. Waiting' = [k \in 1 .. (p + 1) - s |-> s + k]
    BY <2>1 DEF Waiting
  <2>3. Waiting' = Append(Waiting, p + 1)
    BY <1>1, <2>2, Numbers DEF Waiting
  <2>4. Len(Waiting) < RxSize /\ Len(delivered) + Len(Waiting) + 1 = p + 1
    BY <1>1, <1>4, <2>1, SizesAssumption
  <2>5. Queue!Accept
    BY <1>2, <1>3, <2>1, <2>3, <2>4 DEF Queue!Accept, Mapped
  <2> QED BY <2>5 DEF Queue!QNext
<1>6. CASE ProcessPacket
  <2>1. /\ pc = "process" /\ pc' # "idle" /\ idx_rx' = idx_rx + 1 /\ k_rx_prod' = p
        /\ delivered' = Append(delivered, umem[rx_ring[rx_slot(idx_rx)]])
    BY <1>6 DEF ProcessPacket, kernel
  <2>2. s = idx_rx /\ RxStart' = s + 1 /\ s < p
    BY <1>1, <2>1, Positions DEF RxStart, IInv, Base, Cursors, RxCursors, TypeOK
  <2>3. umem[rx_ring[rx_slot(idx_rx)]] = s + 1
    <3>1. s \in RxWindow
      BY <1>1, <2>2 DEF RxWindow
    <3> QED BY <2>2, <3>1 DEF IInv, Own, Contents
  <2>4. Waiting' = [k \in 1 .. p - (s + 1) |-> (s + 1) + k]
    BY <2>1, <2>2 DEF Waiting
  <2>5. Waiting # <<>> /\ Head(Waiting) = s + 1 /\ Tail(Waiting) = Waiting'
    BY <1>1, <2>2, <2>4, Numbers DEF Waiting
  <2>6. Queue!Deliver
    BY <1>2, <1>3, <2>1, <2>3, <2>5 DEF Queue!Deliver, Mapped
  <2> QED BY <2>6 DEF Queue!QNext
<1>7. CASE FillEntry \/ KSkipInvalid
  <2>1. UNCHANGED <<umem, rx_ring, k_rx_prod, delivered>> /\ RxStart' = RxStart
    BY <1>7 DEF FillEntry, KSkipInvalid, RxStart, kernel, user, ghosts, rxShared
  <2> QED BY <2>1 DEF Queue!qvars, Mapped
<1>8. CASE \/ PeekNothing \/ xsk_ring_cons__peek \/ CountStock \/ ReserveFill
           \/ xsk_ring_prod__submit \/ xsk_ring_cons__release
           \/ KFlushRx \/ KPublishFq \/ UNCHANGED vars
  <2>1. UNCHANGED <<umem, rx_ring, k_rx_prod, delivered>> /\ RxStart' = RxStart
    BY <1>8, CursorSteps DEF IInv
  <2> QED BY <2>1 DEF Queue!qvars, Mapped
<1> QED BY <1>5, <1>6, <1>7, <1>8 DEF Next, UserStep, KernelStep

\* The rings, cached cursors and frames implement the packet queue, for every
\* size of umem, rings and batch: what ImplementsQueue says of safety.  A
\* descriptor read too early, twice or after its frame was reused would take
\* no step of the queue.
THEOREM RefinesQueue == Spec => Queue!QSafety
<1>1. Init => Queue!QInit
  <2> SUFFICES ASSUME Init PROVE Queue!QInit
    OBVIOUS
  <2>1. k_rx_prod - RxStart = 0 /\ delivered = <<>>
    BY DEF Init, xsk_configure_socket, RxStart
  <2>2. Mapped = <<>>
    BY <2>1 DEF Mapped
  <2> QED BY <2>1, <2>2 DEF Queue!QInit, Mapped
<1> QED BY <1>1, QueueStep, Invariance, PTL DEF Spec, Queue!QSafety

=============================================================================
