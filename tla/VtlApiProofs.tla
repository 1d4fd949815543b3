----------------------------- MODULE VtlApiProofs -----------------------------
(***************************************************************************)
(* Proofs about VtlApi, for any number of contexts, channels and buffers:  *)
(* the types, that a receiving context and the interface's queue belong to *)
(* each other, and that the application never holds half a channel.        *)
(***************************************************************************)
EXTENDS VtlApi, FiniteSetTheorems, TLAPS

Receivers == {c \in Ctxs : Receives(ctx[c])}

\* ReceiverOwnsQueue without the counting: the queue is held by exactly one
\* live receiving context, or there is none.
OneReceiver ==
  IF queue = "held" THEN \E c \in Ctxs : Receivers = {c} ELSE Receivers = {}

\* The inductive invariant.
IInv == TypeOK /\ OneReceiver /\ HandlesWhole

-----------------------------------------------------------------------------
(* What the helpers return.                                                *)

\* The blocks of the two kinds of channel, as sets: what vtl_open_channel and
\* vtl_accept_channel allocate; only the latter allocates snd_data and sndbuf.
LEMMA BlockSets ==
  /\ BlocksOf(OpenBlocks) = {"ch", "rcvbuf", "rcv_data"}
  /\ BlocksOf(AcceptBlocks) = {"ch", "sndbuf", "ip_flags", "snd_data", "snd_packet"}
  /\ \A i \in 1 .. Len(OpenBlocks) : {OpenBlocks[j] : j \in 1 .. i - 1} \subseteq Blocks
  /\ \A i \in 1 .. Len(AcceptBlocks) : {AcceptBlocks[j] : j \in 1 .. i - 1} \subseteq Blocks
<1>1. DOMAIN OpenBlocks = {1, 2, 3} /\ Len(OpenBlocks) = 3
  BY DEF OpenBlocks
<1>2. /\ OpenBlocks[1] = "ch" /\ OpenBlocks[2] = "rcvbuf" /\ OpenBlocks[3] = "rcv_data"
  BY DEF OpenBlocks
<1>3. DOMAIN AcceptBlocks = {1, 2, 3, 4, 5} /\ Len(AcceptBlocks) = 5
  BY DEF AcceptBlocks
<1>4. /\ AcceptBlocks[1] = "ch" /\ AcceptBlocks[2] = "sndbuf" /\ AcceptBlocks[3] = "ip_flags"
      /\ AcceptBlocks[4] = "snd_data" /\ AcceptBlocks[5] = "snd_packet"
  BY DEF AcceptBlocks
<1>5. BlocksOf(OpenBlocks) = {"ch", "rcvbuf", "rcv_data"}
  BY <1>1, <1>2 DEF BlocksOf
<1>6. BlocksOf(AcceptBlocks) = {"ch", "sndbuf", "ip_flags", "snd_data", "snd_packet"}
  BY <1>3, <1>4 DEF BlocksOf
<1>7. ASSUME NEW i \in 1 .. Len(OpenBlocks)
      PROVE  {OpenBlocks[j] : j \in 1 .. i - 1} \subseteq Blocks
  <2>1. \A j \in 1 .. i - 1 : j \in DOMAIN OpenBlocks
    BY <1>1
  <2> QED
    BY <2>1 DEF Blocks, BlocksOf
<1>8. ASSUME NEW i \in 1 .. Len(AcceptBlocks)
      PROVE  {AcceptBlocks[j] : j \in 1 .. i - 1} \subseteq Blocks
  <2>1. \A j \in 1 .. i - 1 : j \in DOMAIN AcceptBlocks
    BY <1>3
  <2> QED
    BY <2>1 DEF Blocks, BlocksOf
<1> QED
  BY <1>5, <1>6, <1>7, <1>8

\* What vtl_create_socket returns in each mode: a receiving socket takes a free
\* queue and only a complete socket keeps it as "held"; a sending one leaves it.
LEMMA CreateSocket ==
  ASSUME NEW mode \in Modes, NEW sock \in vtl_create_socket(mode)
  PROVE  /\ sock.ok \in BOOLEAN
         /\ \/ sock.queue = queue /\ (sock.ok => ~Receives(mode))
            \/ queue = "free" /\ ~sock.ok /\ sock.queue = "lost"
            \/ queue = "free" /\ sock.ok /\ Receives(mode) /\ sock.queue = "held"
<1>1. \A in \in vtl_sock_in :
        /\ in.ok \in BOOLEAN
        /\ \/ in.queue = queue /\ ~in.ok
           \/ queue = "free" /\ ~in.ok /\ in.queue = "lost"
           \/ queue = "free" /\ in.ok /\ in.queue = "held"
  <2> SUFFICES ASSUME NEW in \in vtl_sock_in
               PROVE  /\ in.ok \in BOOLEAN
                      /\ \/ in.queue = queue /\ ~in.ok
                         \/ queue = "free" /\ ~in.ok /\ in.queue = "lost"
                         \/ queue = "free" /\ in.ok /\ in.queue = "held"
    OBVIOUS
  <2>1. CASE in = [ok |-> FALSE, queue |-> queue]
    BY <2>1
  <2>2. CASE queue = "free" /\ in = [ok |-> FALSE, queue |-> "lost"]
    BY <2>2
  <2>3. CASE queue = "free" /\ in = [ok |-> TRUE, queue |-> "held"]
    BY <2>3
  <2> QED
    BY <2>1, <2>2, <2>3 DEF vtl_sock_in
<1>2. CASE mode = "IN"
  BY <1>1, <1>2 DEF vtl_create_socket, Receives
<1>3. CASE mode = "OUT"
  BY <1>3 DEF vtl_create_socket, Receives, vtl_sock_out
<1>4. CASE mode = "INOUT"
  BY <1>1, <1>4 DEF vtl_create_socket, Receives, vtl_sock_out
<1> QED
  BY <1>2, <1>3, <1>4 DEF Modes

-----------------------------------------------------------------------------
(* The invariant is inductive.                                             *)

\* Nothing is open when the process starts.
LEMMA Initially == Init => IInv
<1> SUFFICES ASSUME Init PROVE IInv
  OBVIOUS
<1>1. TypeOK
  BY DEF Init, TypeOK, NoChan
<1>2. OneReceiver
  BY DEF Init, OneReceiver, Receivers, Receives
<1>3. HandlesWhole
  BY DEF Init, HandlesWhole
<1> QED
  BY <1>1, <1>2, <1>3 DEF IInv

\* vtl_init_ctx: whichever step of the socket's creation fails, a context comes
\* out of it only with the queue it needs.
LEMMA InitCtx ==
  ASSUME IInv, NEW c \in Ctxs, NEW mode \in Modes, vtl_init_ctx(c, mode)
  PROVE  IInv'
<1>1. HandlesWhole'
  BY DEF IInv, vtl_init_ctx, HandlesWhole
<1>2. CASE fault' = "null ctx" /\ UNCHANGED <<ctx, queue, leaked>>
  <2>1. TypeOK'
    BY <1>2 DEF IInv, TypeOK, vtl_init_ctx
  <2>2. OneReceiver'
    BY <1>2 DEF IInv, OneReceiver, Receivers
  <2> QED
    BY <1>1, <2>1, <2>2 DEF IInv
<1>3. ASSUME NEW sock \in vtl_create_socket(mode),
             queue' = sock.queue,
             ctx' = IF sock.ok THEN [ctx EXCEPT ![c] = mode] ELSE ctx,
             Lose({"sock"} \cup IF sock.ok THEN {} ELSE {"ctx"}),
             UNCHANGED fault
      PROVE  IInv'
  <2>1. TypeOK'
    BY <1>3, CreateSocket DEF IInv, TypeOK, vtl_init_ctx, Lose
  <2>2. ctx[c] = "null" /\ c \notin Receivers
    BY DEF vtl_init_ctx, Receivers, Receives
  <2>3. Receivers' = IF sock.ok /\ Receives(mode) THEN Receivers \cup {c} ELSE Receivers
    BY ZenonT(60), <1>3, <2>2, CreateSocket DEF IInv, TypeOK, Receivers, Receives, Modes
  <2>4. OneReceiver'
    <3>1. CASE sock.queue = queue /\ (sock.ok => ~Receives(mode))
      BY <1>3, <2>3, <3>1 DEF IInv, OneReceiver
    <3>2. CASE queue = "free" /\ ~sock.ok /\ sock.queue = "lost"
      BY <1>3, <2>3, <3>2 DEF IInv, OneReceiver
    <3>3. CASE queue = "free" /\ sock.ok /\ Receives(mode) /\ sock.queue = "held"
      <4>1. Receivers = {} /\ Receivers' = {c} /\ queue' = "held"
        BY <1>3, <2>3, <3>3 DEF IInv, OneReceiver
      <4> QED
        BY <4>1 DEF OneReceiver
    <3> QED
      BY <3>1, <3>2, <3>3, CreateSocket
  <2> QED
    BY <1>1, <2>1, <2>4 DEF IInv
<1> QED
  BY <1>2, <1>3 DEF vtl_init_ctx

\* vtl_destroy_ctx: the queue and its only receiver go together.
LEMMA DestroyCtx ==
  ASSUME IInv, NEW c \in Ctxs, vtl_destroy_ctx(c)
  PROVE  IInv'
<1>1. TypeOK'
  BY DEF IInv, TypeOK, vtl_destroy_ctx, vtl_close_socket, Lose
<1>2. HandlesWhole'
  BY DEF IInv, vtl_destroy_ctx, HandlesWhole
<1>3. Receivers' = Receivers \ {c}
  BY DEF IInv, TypeOK, Receivers, Receives, vtl_destroy_ctx
<1>4. OneReceiver'
  <2>1. CASE Receives(ctx[c])
    <3>1. c \in Receivers /\ queue' = "unclosed"
      BY <2>1 DEF Receivers, vtl_destroy_ctx, vtl_close_socket
    <3> QED
      BY <1>3, <3>1 DEF IInv, OneReceiver
  <2>2. CASE ~Receives(ctx[c])
    <3>1. c \notin Receivers /\ queue' = queue
      BY <2>2 DEF Receivers, vtl_destroy_ctx, vtl_close_socket
    <3> QED
      BY <1>3, <3>1 DEF IInv, OneReceiver
  <2> QED
    BY <2>1, <2>2
<1> QED
  BY <1>1, <1>2, <1>4 DEF IInv

\* The channel operations: contexts and queue stay as they are.
LEMMA ContextsKept ==
  ASSUME IInv, UNCHANGED <<ctx, queue>>
  PROVE  OneReceiver'
BY DEF IInv, OneReceiver, Receivers

\* vtl_open_channel and vtl_accept_channel: a channel is handed out whole or
\* not at all.
LEMMA AllocateStep ==
  ASSUME IInv, NEW h \in Chans, NEW order \in {OpenBlocks, AcceptBlocks},
         NEW ends \in SUBSET {"local", "remote"}, NEW autofill \in BOOLEAN,
         Allocate(h, order, ends, autofill)
  PROVE  IInv'
<1>1. OneReceiver'
  BY ContextsKept DEF Allocate
<1>2. /\ BlocksOf(order) \subseteq Blocks
      /\ \A i \in 2 .. Len(order) : {order[j] : j \in 1 .. i - 1} \subseteq Blocks
      /\ "ch" \in Blocks
  <2>1. Len(OpenBlocks) \in Nat /\ Len(AcceptBlocks) \in Nat
    BY DEF OpenBlocks, AcceptBlocks
  <2>2. \A i \in 2 .. Len(order) : i \in 1 .. Len(order)
    BY <2>1
  <2>3. BlocksOf(order) \subseteq Blocks /\ "ch" \in Blocks
    BY BlockSets DEF Blocks
  <2>4. \A i \in 1 .. Len(order) : {order[j] : j \in 1 .. i - 1} \subseteq Blocks
    <3>1. CASE order = OpenBlocks
      BY ZenonT(60), <3>1, BlockSets
    <3>2. CASE order = AcceptBlocks
      BY ZenonT(60), <3>2, BlockSets
    <3> QED
      BY <3>1, <3>2
  <2> QED
    BY ZenonT(60), <2>2, <2>3, <2>4
<1>3. CASE /\ ~Refused(ends, autofill)
           /\ chan' = [chan EXCEPT ![h] =
                [blocks |-> BlocksOf(order), ends |-> ends,
                 snd_data |-> IF "snd_data" \in BlocksOf(order) THEN "own" ELSE "null"]]
           /\ UNCHANGED leaked
  <2>1. TypeOK'
    BY <1>2, <1>3 DEF IInv, TypeOK, Allocate
  <2>2. HandlesWhole'
    <3>1. ends # {}
      BY <1>3 DEF Refused
    <3>2. "snd_data" \in BlocksOf(order) <=> "sndbuf" \in BlocksOf(order)
      BY BlockSets
    <3> SUFFICES ASSUME NEW g \in Chans, chan'[g] # NoChan
                 PROVE  /\ chan'[g].blocks \in {BlocksOf(OpenBlocks), BlocksOf(AcceptBlocks)}
                        /\ chan'[g].snd_data # "null" <=> "sndbuf" \in chan'[g].blocks
                        /\ chan'[g].ends # {}
      BY DEF HandlesWhole
    <3>3. CASE g = h
      BY <1>3, <3>1, <3>2, <3>3 DEF IInv, TypeOK
    <3>4. CASE g # h
      BY <1>3, <3>4 DEF IInv, TypeOK, HandlesWhole
    <3> QED
      BY <3>3, <3>4
  <2> QED
    BY <1>1, <2>1, <2>2 DEF IInv
<1>4. CASE UNCHANGED chan /\ leaked' \subseteq leaked \cup Blocks
  <2>1. TypeOK'
    BY <1>4 DEF IInv, TypeOK, Allocate
  <2>2. HandlesWhole'
    BY <1>4 DEF IInv, HandlesWhole
  <2> QED
    BY <1>1, <2>1, <2>2 DEF IInv
<1> QED
  BY <1>2, <1>3, <1>4 DEF Allocate, Lose

\* vtl_close_channel takes the whole channel and leaves the others.
LEMMA CloseChannel ==
  ASSUME IInv, NEW h \in Chans, vtl_close_channel(h)
  PROVE  IInv'
<1>1. OneReceiver'
  BY ContextsKept DEF vtl_close_channel
<1>2. TypeOK'
  <2>1. chan' \in [Chans -> [blocks : SUBSET Blocks, snd_data : {"null", "own"} \cup Bufs,
                             ends : SUBSET {"local", "remote"}]]
    BY DEF IInv, TypeOK, vtl_close_channel, NoChan
  <2>2. /\ buf' \in [Bufs -> {"app", "freed"}]
        /\ fault' \in {"none", "double free"}
    BY DEF IInv, TypeOK, vtl_close_channel
  <2> QED
    BY <2>1, <2>2 DEF IInv, TypeOK, vtl_close_channel
<1>3. HandlesWhole'
  BY DEF IInv, TypeOK, HandlesWhole, vtl_close_channel
<1> QED
  BY <1>1, <1>2, <1>3 DEF IInv

\* vtl_send replaces snd_data by the application's buffer, which is not NULL.
LEMMA SendStep ==
  ASSUME IInv, NEW c \in Ctxs, NEW h \in Chans, NEW b \in Bufs, vtl_send(c, h, b)
  PROVE  IInv'
<1>1. OneReceiver'
  BY ContextsKept DEF vtl_send
<1>2. CASE fault' = "null sndbuf" /\ UNCHANGED <<chan, leaked>>
  <2>1. TypeOK'
    BY <1>2 DEF IInv, TypeOK, vtl_send
  <2>2. HandlesWhole'
    BY <1>2 DEF IInv, HandlesWhole
  <2> QED
    BY <1>1, <2>1, <2>2 DEF IInv
<1>3. CASE /\ "sndbuf" \in chan[h].blocks
           /\ chan' = [chan EXCEPT ![h].snd_data = b]
           /\ Lose(IF chan[h].snd_data = "own" THEN {"snd_data"} ELSE {})
           /\ fault' \in adaptor__send_packet(chan[h].ends, b)
  <2>1. TypeOK'
    <3>1. "snd_data" \in Blocks
      BY BlockSets DEF Blocks
    <3>2. leaked' \subseteq Blocks \cup {"sock", "ctx", "umem", "raw socket"}
      BY <1>3, <3>1 DEF IInv, TypeOK, Lose
    <3>3. fault' \in {"none", "null local", "freed data"}
      BY <1>3 DEF adaptor__send_packet
    <3>4. chan' \in [Chans -> [blocks : SUBSET Blocks, snd_data : {"null", "own"} \cup Bufs,
                               ends : SUBSET {"local", "remote"}]]
      BY ZenonT(60), <1>3 DEF IInv, TypeOK
    <3> QED
      BY <3>2, <3>3, <3>4 DEF IInv, TypeOK, vtl_send
  <2>2. HandlesWhole'
    <3>1. b # "null"
      BY VtlApiAssumption
    <3>2. chan[h] # NoChan
      BY DEF vtl_send
    <3> SUFFICES ASSUME NEW g \in Chans, chan'[g] # NoChan
                 PROVE  /\ chan'[g].blocks \in {BlocksOf(OpenBlocks), BlocksOf(AcceptBlocks)}
                        /\ chan'[g].snd_data # "null" <=> "sndbuf" \in chan'[g].blocks
                        /\ chan'[g].ends # {}
      BY DEF HandlesWhole
    <3>3. CASE g = h
      <4>1. /\ chan'[h].blocks = chan[h].blocks
            /\ chan'[h].ends = chan[h].ends
            /\ chan'[h].snd_data = b
        BY <1>3 DEF IInv, TypeOK
      <4> QED
        BY <1>3, <3>1, <3>2, <3>3, <4>1 DEF IInv, HandlesWhole
    <3>4. CASE g # h
      BY <1>3, <3>4 DEF IInv, TypeOK, HandlesWhole
    <3> QED
      BY <3>3, <3>4
  <2> QED
    BY <1>1, <2>1, <2>2 DEF IInv
<1> QED
  BY <1>2, <1>3 DEF vtl_send

\* Every operation of the API preserves the invariant.
LEMMA Inductive == IInv /\ [Next]_vars => IInv'
<1> SUFFICES ASSUME IInv, [Next]_vars PROVE IInv'
  OBVIOUS
<1>1. CASE UNCHANGED vars
  BY <1>1 DEF IInv, TypeOK, OneReceiver, Receivers, HandlesWhole, vars
<1>2. CASE Next
  BY <1>2, InitCtx, DestroyCtx, AllocateStep, CloseChannel, SendStep
     DEF Next, vtl_open_channel, vtl_accept_channel
<1> QED
  BY <1>1, <1>2

\* The invariant holds in every reachable state.
LEMMA Invariance == Spec => []IInv
BY Initially, Inductive, PTL DEF Spec

-----------------------------------------------------------------------------
\* The variables keep their types: the API's calls lose only what the code can
\* lose and kill the process only for the listed reasons.
THEOREM TypeCorrect == Spec => []TypeOK
<1>1. IInv => TypeOK
  BY DEF IInv
<1> QED
  BY Invariance, <1>1, PTL

\* A live receiving context owns the interface's queue and is the only one,
\* for any number of contexts and whatever failed or was closed before.
THEOREM QueueOwned == Spec => []ReceiverOwnsQueue
<1>1. IInv => ReceiverOwnsQueue
  <2> SUFFICES ASSUME IInv PROVE Cardinality(Receivers) = IF queue = "held" THEN 1 ELSE 0
    BY DEF ReceiverOwnsQueue, Receivers
  <2>1. CASE queue = "held"
    <3>1. PICK c \in Ctxs : Receivers = {c}
      BY <2>1 DEF IInv, OneReceiver
    <3> QED
      BY <2>1, <3>1, FS_Singleton
  <2>2. CASE queue # "held"
    BY <2>2, FS_EmptySet DEF IInv, OneReceiver
  <2> QED
    BY <2>1, <2>2
<1> QED
  BY Invariance, <1>1, PTL

\* A channel the application holds has all the buffers of its kind, for any
\* number of channels, sends and closes, whichever allocation failed.
THEOREM ChannelsWhole == Spec => []HandlesWhole
<1>1. IInv => HandlesWhole
  BY DEF IInv
<1> QED
  BY Invariance, <1>1, PTL

=============================================================================
