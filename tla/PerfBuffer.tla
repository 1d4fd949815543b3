----------------------------- MODULE PerfBuffer -----------------------------
(***************************************************************************)
(* Reception through perf events: the XDP program of bpf_arqin.c hands     *)
(* every VTL packet to bpf_perf_event_output and drops it.  The adaptor's  *)
(* own reader is commented out, so the reader here is xdp_ack.c, which     *)
(* serves a program of its own with the same call (it sends the packet     *)
(* back instead of dropping it).  It attaches the program, opens one ring  *)
(* per CPU with libbpf's perf_buffer__new and polls.  The kernel writes    *)
(* each ring and publishes data_head; libbpf's bpf_perf_event_read_simple  *)
(* reads up to the head it saw and then writes data_tail back.             *)
(*                                                                         *)
(* A ring is a memory of 8-byte units; a record is a header unit, which    *)
(* holds its type and size, and the units behind it, wrapping at the end.  *)
(* Positions run freely and are reduced modulo the size of the ring.  The  *)
(* program ends with its first failure or signal, as the code does.        *)
(***************************************************************************)
EXTENDS Integers, Sequences, FiniteSets, FiniteSetsExt

CONSTANTS Cpus,      \* CPUs with a ring
          Size,      \* units of a ring (mmap_size)
          Lens,      \* units of a packet's record
          LostLen,   \* units of a record about lost packets
          MaxPkts    \* bound: VTL packets in a run

ASSUME PerfAssumption ==
  /\ Cpus \subseteq Nat /\ IsFiniteSet(Cpus) /\ Cpus # {}
  /\ Size \in Nat /\ Lens \subseteq 1 .. Size - 1 /\ LostLen \in 1 .. Size - 1
  /\ MaxPkts \in Nat

VARIABLES
  pc,          \* line of the reader
  attached,    \* the XDP program is on the interface
  opened,      \* CPUs whose ring is open and in my_map
  mem,         \* the units of each ring
  head,        \* end of what the kernel has written ...
  data_head,   \* ... and of what it has published
  data_tail,   \* the shared consumer position
  rb_lost,     \* packets lost since the kernel's last record
  rb_poll,     \* the ring is readable for epoll
  events,      \* rings the reader has still to process ...
  cpu,         \* ... the one it is at
  h, t,        \* data_head and data_tail as bpf_perf_event_read_simple has them
  pkts,        \* VTL packets the program has seen
  sample,      \* ghost: units the last callback was given
  got,         \* ghost: packets given to the callback, per CPU, in order
  unread,      \* ghost: packets dropped with no ring to write to
  full,        \* ghost: packets dropped for want of room, per CPU
  passed       \* ghost: losses in the lost records the reader went past, per CPU

hook   == <<attached, opened, pkts, unread>>
ringK  == <<mem, head, rb_lost, full>>
shared == <<data_head, data_tail, rb_poll>>
local  == <<events, cpu, h, t>>
output == <<sample, got, passed>>
vars   == <<pc, hook, ringK, shared, local, output>>

\* Where a position is in the memory.
slot(p) == p % Size

NoUnit == [type |-> "none", id |-> 0, off |-> 0, size |-> 0]

\* The units of a record of a type, with an identity, of n units.
Record(type, id, n) ==
  [k \in 1 .. n |-> [type |-> type, id |-> id, off |-> k, size |-> n]]

Init ==
  /\ pc = "attach" /\ attached = FALSE /\ opened = {} /\ pkts = 0
  /\ mem = [c \in Cpus |-> [u \in 0 .. Size - 1 |-> NoUnit]]
  /\ head = [c \in Cpus |-> 0] /\ data_head = head /\ data_tail = head
  /\ rb_lost = head /\ rb_poll = [c \in Cpus |-> FALSE]
  /\ events = {} /\ cpu \in Cpus /\ h = 0 /\ t = 0
  /\ sample = <<>> /\ got = [c \in Cpus |-> <<>>]
  /\ unread = {} /\ full = [c \in Cpus |-> {}] /\ passed = head

-----------------------------------------------------------------------------
(* The XDP program and the kernel's side of the rings (external).          *)

\* Units written at position p of ring m.
Written(m, p, units) ==
  [u \in DOMAIN m |-> LET d == slot(u - p)
                      IN  IF d < Len(units) THEN units[d + 1] ELSE m[u]]

\* What is written for a packet: first, if any were lost, how many.
Output(c, n) ==
  (IF rb_lost[c] > 0 THEN Record("lost", rb_lost[c], LostLen) ELSE <<>>)
    \o Record("sample", pkts + 1, n)

\* perf_output_begin: one unit of the ring is never used.
Room(c, units) == head[c] - data_tail[c] + Len(units) < Size

\* bpf_perf_event_output on a CPU with a ring.
perf_event_output(c, n) ==
  \/ /\ Room(c, Output(c, n))
     /\ mem' = [mem EXCEPT ![c] = Written(@, head[c], Output(c, n))]
     /\ head' = [head EXCEPT ![c] = @ + Len(Output(c, n))]
     /\ rb_lost' = [rb_lost EXCEPT ![c] = 0]
     /\ UNCHANGED full
  \/ /\ ~Room(c, Output(c, n))
     /\ rb_lost' = [rb_lost EXCEPT ![c] = @ + 1]
     /\ full' = [full EXCEPT ![c] = @ \cup {pkts + 1}]
     /\ UNCHANGED <<mem, head>>

\* A VTL packet arrives at CPU c, which has published its last record: whatever
\* bpf_perf_event_output answers, it is dropped.
xdp_arqin_prog(c, n) ==
  /\ attached /\ pkts < MaxPkts /\ head[c] = data_head[c]
  /\ pkts' = pkts + 1
  /\ \/ c \in opened /\ perf_event_output(c, n) /\ UNCHANGED unread
     \/ c \notin opened /\ unread' = unread \cup {pkts + 1} /\ UNCHANGED ringK
  /\ UNCHANGED <<pc, attached, opened, shared, local, output>>

\* perf_output_end: the head is published, then the ring is made readable.
perf_output_end(c) ==
  /\ head[c] # data_head[c]
  /\ data_head' = [data_head EXCEPT ![c] = head[c]]
  /\ rb_poll' = [rb_poll EXCEPT ![c] = TRUE]
  /\ UNCHANGED <<pc, hook, ringK, data_tail, local, output>>

-----------------------------------------------------------------------------
(* xdp_ack.c: main and its signal handler.                                 *)

\* do_attach; the program is there even when its id could not be read.
do_attach ==
  /\ pc = "attach"
  /\ \/ pc' = "open" /\ attached' = TRUE
     \/ pc' = "exit" /\ attached' \in BOOLEAN
  /\ UNCHANGED <<opened, pkts, unread, ringK, shared, local, output>>

\* The process is gone, or has freed its buffers: my_map has no ring any more.
Closed == opened' = {} /\ events' = {}

\* perf_buffer__new, one CPU at a time; when one cannot be opened, those that
\* were are freed, and main returns.
perf_buffer__open_cpu_buf ==
  /\ pc = "open"
  /\ \/ /\ opened' = opened \cup {Min(Cpus \ opened)}
        /\ pc' = IF opened' = Cpus THEN "poll" ELSE "open"
        /\ UNCHANGED events
     \/ pc' = "exit" /\ Closed
  /\ UNCHANGED <<attached, pkts, unread, ringK, shared, cpu, h, t, output>>

\* epoll_wait returns the readable rings, and none of them again before the
\* kernel writes more; or the time is up.
epoll_wait ==
  /\ pc = "poll"
  /\ \E ready \in SUBSET {c \in opened : rb_poll[c]} :
       /\ ready # {}
       /\ events' = ready
       /\ rb_poll' = [c \in Cpus |-> rb_poll[c] /\ c \notin ready]
  /\ pc' = "next"
  /\ UNCHANGED <<hook, ringK, data_head, data_tail, cpu, h, t, output>>

\* Mutant: of the rings epoll_wait returned only one is processed.
NextRing_first ==
  /\ pc = "next"
  /\ \/ /\ \E c \in events :
             /\ cpu' = c /\ events' = {}
             /\ h' = data_head[c] /\ t' = data_tail[c]
        /\ pc' = "read"
     \/ events = {} /\ pc' = "poll" /\ UNCHANGED <<events, cpu, h, t>>
  /\ UNCHANGED <<hook, ringK, shared, output>>

\* perf_buffer__poll goes to the next ring and reads its head once.
NextRing ==
  /\ pc = "next"
  /\ \/ /\ \E c \in events :
             /\ cpu' = c /\ events' = events \ {c}
             /\ h' = data_head[c] /\ t' = data_tail[c]
        /\ pc' = "read"
     \/ events = {} /\ pc' = "poll" /\ UNCHANGED <<events, cpu, h, t>>
  /\ UNCHANGED <<hook, ringK, shared, output>>

\* Mutant: the record is taken as if it did not wrap.
RecordAt_flat(p) ==
  LET size == mem[cpu][slot(p)].size
  IN  [k \in 1 .. size |-> IF slot(p) + k <= Size THEN mem[cpu][slot(p) + k - 1]
                                                   ELSE NoUnit]

\* The record at position p as the callback sees it: in place or, when it wraps,
\* put together from both ends in copy_mem.
RecordAt(p) ==
  LET size      == mem[cpu][slot(p)].size
      len_first == IF size < Size - slot(p) THEN size ELSE Size - slot(p)
  IN  [k \in 1 .. len_first |-> mem[cpu][slot(p) + k - 1]]
        \o [k \in 1 .. size - len_first |-> mem[cpu][k - 1]]

\* perf_buffer__process_record with the callbacks of xdp_ack, which sets sample_cb
\* only: nobody is told of a loss, its record is just gone past.
process_record(r) ==
  \/ /\ r[1].type = "sample"
     /\ sample' = r
     /\ got' = [got EXCEPT ![cpu] = Append(@, r[1].id)]
     /\ UNCHANGED passed
  \/ /\ r[1].type = "lost"
     /\ passed' = [passed EXCEPT ![cpu] = @ + r[1].id]
     /\ UNCHANGED <<sample, got>>

\* One round of bpf_perf_event_read_simple's loop.
read_simple ==
  /\ pc = "read" /\ t # h
  /\ process_record(RecordAt(t))
  /\ t' = t + Len(RecordAt(t))
  /\ UNCHANGED <<pc, hook, ringK, shared, events, cpu, h>>

\* Mutant: the failure returns before the tail is written.
CopyFailed_return ==
  /\ pc = "read" /\ t # h
  /\ slot(t) + mem[cpu][slot(t)].size > Size
  /\ data_tail' = [data_tail EXCEPT ![cpu] = @]
  /\ pc' = "killed"
  /\ h' = 0 /\ t' = 0
  /\ UNCHANGED <<hook, ringK, data_head, rb_poll, events, cpu, output>>

\* No memory to put a wrapping record together: the tail is written for what was
\* read, perf_buffer__poll returns the error and main kills its own group.
CopyFailed ==
  /\ pc = "read" /\ t # h
  /\ slot(t) + mem[cpu][slot(t)].size > Size
  /\ data_tail' = [data_tail EXCEPT ![cpu] = t]
  /\ pc' = "killed"
  /\ h' = 0 /\ t' = 0
  /\ UNCHANGED <<hook, ringK, data_head, rb_poll, events, cpu, output>>

\* Mutant: the tail is set one unit too far.
ring_buffer_write_tail_over ==
  /\ pc = "read" /\ t = h
  /\ data_tail' = [data_tail EXCEPT ![cpu] = t + 1]
  /\ pc' = "next"
  /\ h' = 0 /\ t' = 0
  /\ UNCHANGED <<hook, ringK, data_head, rb_poll, events, cpu, output>>

\* Mutant: the tail is set to the head as it is now.
ring_buffer_write_tail_now ==
  /\ pc = "read" /\ t = h
  /\ data_tail' = [data_tail EXCEPT ![cpu] = data_head[cpu]]
  /\ pc' = "next"
  /\ h' = 0 /\ t' = 0
  /\ UNCHANGED <<hook, ringK, data_head, rb_poll, events, cpu, output>>

\* Mutant: the tail is left where it was.
ring_buffer_write_tail_none ==
  /\ pc = "read" /\ t = h
  /\ data_tail' = [data_tail EXCEPT ![cpu] = @]
  /\ pc' = "next"
  /\ h' = 0 /\ t' = 0
  /\ UNCHANGED <<hook, ringK, data_head, rb_poll, events, cpu, output>>

\* ring_buffer_write_tail at the end of the loop.
ring_buffer_write_tail ==
  /\ pc = "read" /\ t = h
  /\ data_tail' = [data_tail EXCEPT ![cpu] = t]
  /\ pc' = "next"
  /\ h' = 0 /\ t' = 0
  /\ UNCHANGED <<hook, ringK, data_head, rb_poll, events, cpu, output>>

\* epoll_wait fails: perf_buffer__poll's answer ends main's loop just so.
PollFailed ==
  /\ pc = "poll" /\ pc' = "killed"
  /\ UNCHANGED <<hook, ringK, shared, local, output>>

\* SIGINT, SIGHUP or SIGTERM, wherever the reader is, or its own: sig_handler
\* detaches, if that works, frees the buffers and exits.
sig_handler ==
  /\ pc \in {"open", "poll", "next", "read", "killed"}
  /\ pc' = "exit" /\ attached' \in {FALSE, attached} /\ Closed
  /\ h' = 0 /\ t' = 0
  /\ UNCHANGED <<pkts, unread, ringK, shared, cpu, output>>

-----------------------------------------------------------------------------
Kernel == \E c \in Cpus : perf_output_end(c) \/ \E n \in Lens : xdp_arqin_prog(c, n)

ReaderStep == \/ perf_buffer__open_cpu_buf \/ epoll_wait \/ NextRing
              \/ read_simple \/ ring_buffer_write_tail

Next == \/ Kernel \/ ReaderStep \/ do_attach
        \/ PollFailed \/ CopyFailed \/ sig_handler

\* The reader goes on to its poll loop and stays in it while nothing ends it, and
\* the kernel publishes what it has written.
Fairness == WF_vars(ReaderStep) /\ \A c \in Cpus : WF_vars(perf_output_end(c))

Spec == Init /\ [][Next]_vars /\ Fairness

-----------------------------------------------------------------------------
Unit == [type : {"none", "sample", "lost"}, id : Nat, off : Nat, size : Nat]

Lines == {"attach", "open", "poll", "next", "read", "killed", "exit"}

HookTypes ==
  /\ pc \in Lines /\ attached \in BOOLEAN /\ opened \subseteq Cpus
  /\ pkts \in 0 .. MaxPkts /\ unread \subseteq 1 .. pkts

RingTypes ==
  /\ mem \in [Cpus -> [0 .. Size - 1 -> Unit]]
  /\ head \in [Cpus -> Nat] /\ data_head \in [Cpus -> Nat] /\ data_tail \in [Cpus -> Nat]
  /\ rb_lost \in [Cpus -> Nat] /\ full \in [Cpus -> SUBSET (1 .. pkts)]

ReaderTypes ==
  /\ rb_poll \in [Cpus -> BOOLEAN] /\ events \subseteq Cpus /\ cpu \in Cpus
  /\ h \in Nat /\ t \in Nat
  /\ sample \in Seq(Unit) /\ got \in [Cpus -> Seq(1 .. pkts)]
  /\ passed \in [Cpus -> Nat]

\* Types; the kernel's and the shared positions never overtake each other, and
\* a ring is never full to its last unit.
TypeOK ==
  /\ HookTypes /\ RingTypes /\ ReaderTypes
  /\ \A c \in Cpus : /\ data_tail[c] <= data_head[c] /\ data_head[c] <= head[c]
                     /\ head[c] - data_tail[c] < Size

\* The packet a callback is given is one packet, whole, from its first unit to its
\* last, also when its record wraps and while the kernel writes on behind it.
SampleIntact == sample # <<>> => sample = Record("sample", sample[1].id, Len(sample))

\* No callback comes twice and none out of turn: per CPU the packets are read in
\* the order of their arrival, across wraps, polls and lost packets.
ReadInOrder ==
  \A c \in Cpus : \A i, j \in DOMAIN got[c] : i < j => got[c][i] < got[c][j]

\* Where the records of a type begin that the reader has still to read.
Pending(c, type) ==
  LET from == IF pc = "read" /\ cpu = c THEN t ELSE data_tail[c]
  IN  {p \in from .. head[c] - 1 : /\ mem[c][slot(p)].type = type
                                   /\ mem[c][slot(p)].off = 1}

Waiting  == UNION {{mem[c][slot(p)].id : p \in Pending(c, "sample")} : c \in Cpus}
Received == UNION {{got[c][i] : i \in DOMAIN got[c]} : c \in Cpus}

\* The program has dropped every packet it saw; each was given to the callback,
\* waits in a ring, found the ring full, or came when its CPU had no ring.
PacketsAccounted ==
  1 .. pkts = Received \cup Waiting \cup unread \cup UNION {full[c] : c \in Cpus}

\* How many losses each lost record still in the ring announces.
Announced(c) == [p \in Pending(c, "lost") |-> mem[c][slot(p)].id]

\* What a full ring cost stays on record, though xdp_ack does not ask for it: until
\* the buffers are freed, the lost records gone past, those in front of the tail and
\* the kernel's counter add up to the packets that found no room, whatever wraps,
\* polls and failures lie between.  A lost_cb would be told each loss once.
LossAnnounced ==
  \A c \in opened :
    Cardinality(full[c]) = passed[c] + rb_lost[c] + SumFunction(Announced(c))

\* No wakeup is missed: a packet in a ring gets to the callback unless the reader
\* is ended, though epoll tells of a ring only once per wakeup.
WrittenIsRead ==
  \A p \in 1 .. MaxPkts :
    (p \in Waiting) ~> (p \in Received \/ pc \in {"killed", "exit"})

=============================================================================
