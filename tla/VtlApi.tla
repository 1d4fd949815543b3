------------------------------- MODULE VtlApi -------------------------------
(***************************************************************************)
(* The VTL API of api.c as one process uses it: contexts with their        *)
(* sockets, channels with their buffers, and vtl_send through the adaptor  *)
(* (adaptor_send.c).  The state is who owns what: the memory blocks of the *)
(* channels, the application's own data buffers, and the receive queue of  *)
(* the interface, which the kernel gives to one AF_XDP socket at a time.   *)
(*                                                                         *)
(* The application keeps to the API: it sends on contexts made for sending *)
(* and uses no handle that it has closed or never got.  What vtl_receive   *)
(* does is the subject of module XskRx.                                    *)
(***************************************************************************)
EXTENDS Integers, Sequences, FiniteSets

CONSTANTS Ctxs,   \* context handles of the application
          Chans,  \* channel handles
          Bufs    \* data buffers the application sends from

ASSUME VtlApiAssumption == /\ IsFiniteSet(Ctxs)
                           /\ Bufs \cap {"null", "own"} = {}

Modes == {"IN", "OUT", "INOUT"}
Receives(mode) == mode \in {"IN", "INOUT"}
Sends(mode)    == mode \in {"OUT", "INOUT"}

\* The blocks of a channel, in the order of their allocation; a channel is
\* opened for receiving or accepted for sending.
OpenBlocks   == <<"ch", "rcvbuf", "rcv_data">>
AcceptBlocks == <<"ch", "sndbuf", "ip_flags", "snd_data", "snd_packet">>
BlocksOf(order) == {order[i] : i \in DOMAIN order}

NoChan == [blocks |-> {}, snd_data |-> "null", ends |-> {}]

VARIABLES
  ctx,     \* mode of each live context, or "null"
  queue,   \* the interface's queue: "free", "held" by a context; else bound to a
           \* descriptor nobody can close, after a failed creation ("lost") or
           \* the close of its socket ("unclosed")
  chan,    \* each channel: its blocks, snd_data's target, its endpoints
  buf,     \* "app" until the library frees the application's buffer
  leaked,  \* kinds of things allocated or opened that nobody can release
  fault    \* why the process was killed, or "none"

vars == <<ctx, queue, chan, buf, leaked, fault>>

Init ==
  /\ ctx = [c \in Ctxs |-> "null"]
  /\ queue = "free"
  /\ chan = [h \in Chans |-> NoChan]
  /\ buf = [b \in Bufs |-> "app"]
  /\ leaked = {} /\ fault = "none"

Lose(things) == leaked' = leaked \cup things

-----------------------------------------------------------------------------
(* Contexts and sockets.                                                   *)

\* What vtl_sock_in can end in: the queue is taken by somebody else or a step
\* before the registration fails; a step after it fails, with nobody left to
\* close the descriptor; or the socket is there.
vtl_sock_in ==
  {[ok |-> FALSE, queue |-> queue]}
    \cup (IF queue = "free" THEN {[ok |-> FALSE, queue |-> "lost"],
                                  [ok |-> TRUE, queue |-> "held"]}
                            ELSE {})

\* vtl_sock_out: socket(2) answers or not.
vtl_sock_out == BOOLEAN

\* Mutant: with INOUT only the sending side is looked at.
vtl_create_socket_out(mode) ==
  CASE mode = "IN"    -> vtl_sock_in
    [] mode = "OUT"   -> {[ok |-> raw, queue |-> queue] : raw \in vtl_sock_out}
    [] mode = "INOUT" -> {[ok |-> raw, queue |-> in.queue] :
                            in \in vtl_sock_in, raw \in vtl_sock_out}

\* vtl_create_socket.  INOUT falls through to OUT; when that fails the AF_XDP
\* socket stays behind, open and bound.
vtl_create_socket(mode) ==
  CASE mode = "IN"    -> vtl_sock_in
    [] mode = "OUT"   -> {[ok |-> raw, queue |-> queue] : raw \in vtl_sock_out}
    [] mode = "INOUT" ->
         {in \in vtl_sock_in : ~in.ok}
           \cup {[ok |-> raw, queue |-> IF raw THEN "held" ELSE "lost"] :
                   in \in {i \in vtl_sock_in : i.ok}, raw \in vtl_sock_out}

\* The socket's structure is allocated twice.  A context that cannot be
\* allocated is written to all the same.
vtl_init_ctx(c, mode) ==
  /\ fault = "none" /\ ctx[c] = "null"
  /\ \/ fault' = "null ctx" /\ UNCHANGED <<ctx, queue, leaked>>
     \/ \E sock \in vtl_create_socket(mode) :
          /\ queue' = sock.queue
          /\ ctx' = IF sock.ok THEN [ctx EXCEPT ![c] = mode] ELSE ctx
          /\ Lose({"sock"} \cup IF sock.ok THEN {} ELSE {"ctx"})
          /\ UNCHANGED fault
  /\ UNCHANGED <<chan, buf>>

\* vtl_close_socket.  sock->umem was never filled in, so xsk_umem__delete gets
\* NULL and the descriptor that umem and socket share stays open; so does the
\* raw socket's.
vtl_close_socket(mode) ==
  /\ queue' = IF Receives(mode) THEN "unclosed" ELSE queue
  /\ Lose((IF Receives(mode) THEN {"umem"} ELSE {})
            \cup (IF Sends(mode) THEN {"raw socket"} ELSE {}))

vtl_destroy_ctx(c) ==
  /\ fault = "none" /\ ctx[c] # "null"
  /\ vtl_close_socket(ctx[c])
  /\ ctx' = [ctx EXCEPT ![c] = "null"]
  /\ UNCHANGED <<chan, buf, fault>>

-----------------------------------------------------------------------------
(* Channels.                                                               *)

\* Endpoints that are refused: none, or no local one to be filled in.
Refused(ends, autofill) == ends = {} \/ (autofill /\ "local" \notin ends)

\* Mutant: only the first allocation is checked.
Allocate_unchecked(h, order, ends, autofill) ==
  /\ fault = "none" /\ chan[h] = NoChan
  /\ \/ Refused(ends, autofill) /\ Lose({"ch"}) /\ UNCHANGED chan
     \/ /\ ~Refused(ends, autofill)
        /\ \E i \in 1 .. Len(order) :
             chan' = [chan EXCEPT ![h] =
               [blocks |-> {order[j] : j \in 1 .. i}, ends |-> ends, snd_data |-> "null"]]
        /\ UNCHANGED leaked
  /\ UNCHANGED <<ctx, queue, buf, fault>>

\* The common part of vtl_open_channel and vtl_accept_channel.  Whichever
\* allocation fails, what was allocated before it is lost.
Allocate(h, order, ends, autofill) ==
  /\ fault = "none" /\ chan[h] = NoChan
  /\ \/ UNCHANGED <<chan, leaked>>          \* no memory for the channel itself
     \/ /\ Refused(ends, autofill)
        /\ Lose({"ch"}) /\ UNCHANGED chan
     \/ /\ ~Refused(ends, autofill)
        /\ \E i \in 2 .. Len(order) : Lose({order[j] : j \in 1 .. i - 1})
        /\ UNCHANGED chan
     \/ /\ ~Refused(ends, autofill)
        /\ chan' = [chan EXCEPT ![h] =
             [blocks |-> BlocksOf(order), ends |-> ends,
              snd_data |-> IF "snd_data" \in BlocksOf(order) THEN "own" ELSE "null"]]
        /\ UNCHANGED leaked
  /\ UNCHANGED <<ctx, queue, buf, fault>>

vtl_open_channel(h, ends, autofill)   == Allocate(h, OpenBlocks, ends, autofill)
vtl_accept_channel(h, ends, autofill) == Allocate(h, AcceptBlocks, ends, autofill)

\* Mutant: closing a channel whose handle is NULL is not an early return.
vtl_close_channel_null(h) ==
  /\ fault = "none"
  /\ fault' = IF chan[h] = NoChan THEN "null ch" ELSE "none"
  /\ chan' = [chan EXCEPT ![h] = NoChan]
  /\ UNCHANGED <<ctx, queue, leaked, buf>>

\* Every pointer of the channel is freed, snd_data whoever it belongs to.
vtl_close_channel(h) ==
  /\ fault = "none" /\ chan[h] # NoChan
  /\ chan' = [chan EXCEPT ![h] = NoChan]
  /\ IF chan[h].snd_data \in Bufs
     THEN /\ buf' = [buf EXCEPT ![chan[h].snd_data] = "freed"]
          /\ fault' = IF buf[chan[h].snd_data] = "freed" THEN "double free" ELSE "none"
     ELSE UNCHANGED <<buf, fault>>
  /\ UNCHANGED <<ctx, queue, leaked>>

-----------------------------------------------------------------------------
(* Sending.                                                                *)

\* adaptor__send_packet up to the payload: a missing remote endpoint gives
\* getaddrinfo no name, which fails; a missing local one is dereferenced once
\* the name was resolved.  Any of the system calls may fail.
adaptor__send_packet(ends, b) ==
  {"none"}
    \cup (IF ends = {"remote"} THEN {"null local"} ELSE {})
    \cup (IF ends = {"local", "remote"} /\ buf[b] = "freed" THEN {"freed data"} ELSE {})

\* vtl_send points the channel's snd_data at the application's buffer.
vtl_send(c, h, b) ==
  /\ fault = "none" /\ Sends(ctx[c]) /\ chan[h] # NoChan
  /\ \/ /\ "sndbuf" \notin chan[h].blocks
        /\ fault' = "null sndbuf"
        /\ UNCHANGED <<chan, leaked>>
     \/ /\ "sndbuf" \in chan[h].blocks
        /\ chan' = [chan EXCEPT ![h].snd_data = b]
        /\ Lose(IF chan[h].snd_data = "own" THEN {"snd_data"} ELSE {})
        /\ fault' \in adaptor__send_packet(chan[h].ends, b)
  /\ UNCHANGED <<ctx, queue, buf>>

-----------------------------------------------------------------------------
Next ==
  \/ \E c \in Ctxs : (\E mode \in Modes : vtl_init_ctx(c, mode)) \/ vtl_destroy_ctx(c)
  \/ \E h \in Chans :
       \/ \E ends \in SUBSET {"local", "remote"}, autofill \in BOOLEAN :
            vtl_open_channel(h, ends, autofill) \/ vtl_accept_channel(h, ends, autofill)
       \/ vtl_close_channel(h)
       \/ \E c \in Ctxs, b \in Bufs : vtl_send(c, h, b)

Spec == Init /\ [][Next]_vars

-----------------------------------------------------------------------------
Blocks == BlocksOf(OpenBlocks) \cup BlocksOf(AcceptBlocks)

\* Types of the variables.
TypeOK ==
  /\ ctx \in [Ctxs -> Modes \cup {"null"}]
  /\ queue \in {"free", "held", "lost", "unclosed"}
  /\ chan \in [Chans -> [blocks : SUBSET Blocks, snd_data : {"null", "own"} \cup Bufs,
                         ends : SUBSET {"local", "remote"}]]
  /\ buf \in [Bufs -> {"app", "freed"}]
  /\ leaked \subseteq Blocks \cup {"sock", "ctx", "umem", "raw socket"}
  /\ fault \in {"none", "null ctx", "null sndbuf", "null local", "freed data",
                "double free"}

\* A live receiving context owns the interface's queue and there is never a
\* second one: vtl_create_socket hands out no context whose AF_XDP socket is
\* not bound, whichever of its steps failed and whatever was closed before.
ReceiverOwnsQueue ==
  Cardinality({c \in Ctxs : Receives(ctx[c])}) = IF queue = "held" THEN 1 ELSE 0

\* A handle the application holds is whole: its channel has all the buffers of
\* its kind, snd_data among them, whichever allocation failed on the way and
\* after any sequence of sends and closes of this and other channels.
HandlesWhole ==
  \A h \in Chans : chan[h] # NoChan =>
    /\ chan[h].blocks \in {BlocksOf(OpenBlocks), BlocksOf(AcceptBlocks)}
    /\ chan[h].snd_data # "null" <=> "sndbuf" \in chan[h].blocks
    /\ chan[h].ends # {}

\* api.c, vtl_send: "Fill with data to send": the data given to vtl_send fills
\* the channel's buffer and stays the application's.
AppKeepsData == \A b \in Bufs : buf[b] = "app"

\* client-aware.c: "Destroy vtl context after use": with the contexts it got
\* destroyed, the application holds the interface's queue no longer.
QueueReleased == (\A c \in Ctxs : ctx[c] = "null") => queue # "unclosed"

=============================================================================
