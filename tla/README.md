# TLA+ verification of Hooker / VTL

Specifications, model-checking runs and machine-checked proofs for the program
of this repository: the Hooker, which lets unmodified TCP applications use the
Virtual Transport Layer (VTL), and the part of VTL kept here, which sends and
receives packets for it and deploys its in-kernel functions.

`PROJECT.json` holds the same facts in machine-readable form: which lines each
definition stands for (`map`), the runs, the theorems, the findings, the hazards
and, for each property, one altered definition under which TLC finds it violated
(`mutants`; the altered definitions stand before the originals in the modules,
marked `Mutant`, and no specification uses them).

Contents: 1 The system · 2 Modules · 3 Runs · 4 Fairness · 5 Proofs ·
6 Findings · 7 Not modelled · 8 Plan

## 1. The system

### Components

| Component | State it keeps | Operations |
|---|---|---|
| AF_XDP receive path (`adaptor_receive.c`, `xsk_user_helpers.*`, rings of libbpf's `xsk.h`) | stack of free umem frames; fill and rx ring with shared and cached cursors; locals of the receive loop | `xsk_configure_socket`, `handle_receive_packets`, `process_packet`, frame alloc/free |
| Hooker BPF programs (`bpf_hooker.c`) | `SOCK_MAP` (sockets by address), `COOKIE_MAP` (socket cookies by address) | sockops `hooker_monitor`, sk_msg `hooker_redirect` |
| Hooker process (`hooker.c`) | attachments, redirection socket, two threads, `err` | load, attach, register the redirection socket, threads, detach, close |
| Launcher with XDP and TC helpers (`launcher.c`, `xdp_user_helpers.c`, `tc_user_helpers.c`) | what is attached to the interface; the loaded object and its `xsks_map` | deploy and remove, input (XDP) and output (TC) |
| Object loading (`xdp_user_helpers.c` over libbpf's `bpf_object`) | descriptors of the ELF file, the BTF, maps and programs | open, create maps, load programs, three passes of clean-up after a failure |
| Dashboard (`dashboard.c`) | `tf.index`, the screen | menu: deploy, remove, exit |
| XDP program (`bpf_xdp.c`) | `xsks_map` | a verdict per packet |
| VTL API (`api.c`) | contexts, sockets, channels, their buffers | create and destroy, open/accept/close channel, send, receive |
| Sending adaptor (`adaptor_send.c`) and `util.c` | the packet under construction | build the IPv4 header with `checksum()`, send |
| TC program (`bpf_tc.c`) | none | mark outgoing VTL packets |
| ARQ program (`bpf_arqin.c`) and a reader of perf events (`bpf_test/xdp_ack.c`, libbpf's `perf_buffer`) | one ring per CPU with head and tail; the rings `epoll` reports | report every VTL packet and drop it; attach, set up, poll, read, end |

### How they interact

- A TCP connection of any process on the host runs `hooker_monitor`, which
  writes both maps. A `sendmsg` on a socket in `SOCK_MAP` runs
  `hooker_redirect`, which reads `COOKIE_MAP` and moves the message to the
  redirection socket of the Hooker process. Its send thread hands it to the VTL
  API. Applications, kernel and Hooker process share only the two maps and that
  socket; none of them takes a lock.
- The dashboard calls the launcher, which loads object files and attaches them
  to an interface. Other processes using the API create AF_XDP sockets on the
  same interface at any time; libbpf then reads or *replaces* the attached
  program and writes its `xsks_map`.
- The kernel and the process share the fill and the rx ring without locks: the
  kernel consumes one and produces the other.
- `vtl_send` goes through the sending adaptor and a raw socket, `vtl_receive`
  through the receive path, which calls the application's callback per packet.
  In between are the egress filter, the link and the XDP program: nothing
  acknowledges a message, and the receiver knows its length only from the
  length of the frame. Both BPF programs see the whole host's traffic and take
  byte 23 of any frame for the IP protocol.
- A program that reports packets as perf events and the reader of them share one
  ring per CPU, again without locks; the kernel drops what does not fit and
  leaves a record of it in the ring. Here the program is `bpf_arqin.c`, whose own
  reader in the adaptor is commented out, and the reader is `xdp_ack.c`, which
  loads `xdp_ack_kern.c`, with the same call for ICMP packets: putting the two
  together is this project's doing.

### What is hard

- The ring cursors exist up to three times (shared, cached by the user, private
  to the kernel) and each copy lags differently.
- Kernel-side state outlives the process: the cgroup attachment, the maps, the
  attached XDP program and filter.
- `COOKIE_MAP` and `SOCK_MAP` are updated separately, with different flags, both
  results ignored, and only one of them is ever cleaned.
- Deploying has up to four steps that fail separately, and another process may
  act in between.
- Failure paths of the API decide who owns memory and descriptors; those of
  object loading, which descriptors stay open, with up to three functions closing
  the same slots one after the other.
- Results are ignored where there is nothing better to do: a detach that fails
  leaves its program behind.
- Lengths pass through fields of 16 and 32 bits, a padded frame and a umem frame,
  each with a limit of its own.
- A perf ring wraps in the middle of a record, fills up, and is reported to the
  reader once per wakeup.

### What makes each part correct

- *Receive path*: a frame is in one place at a time and never lost; the rings are
  not overrun; the kernel writes no frame the user can read; packets come out
  once, in order and unmodified; an accepted packet is delivered.
- *Hooker*: an address leads to the cookie of the socket that has it now; a
  message is not lost without reason; after `main` has returned nothing is
  attached but a monitor whose detach the kernel refused.
- *Launcher*: a reported outcome is the true one; map entries name live sockets;
  a deployed function serves open sockets; nothing is left behind.
- *API*: a receiving context owns the queue; handles are whole; the
  application's memory stays its own; destroying releases.
- *Checksum*: a receiver's verification of it succeeds, for any length.
- *Data path*: a chunk that reaches the callback was sent, is whole and in order;
  one that does not was lost for a reason that can be named; traffic that does
  not look like VTL's is untouched.
- *Perf events*: a packet is read whole, once, in order; the records of losses are
  exact and none is skipped; no wakeup is missed.
- *Object loading*: no slot holds a descriptor that is closed or another's; a
  failed load leaves nothing.

## 2. Modules

| Module | Models | Variables and actions |
|---|---|---|
| `XskRx` | receive path against the kernel | Each line of `handle_receive_packets` that touches shared state is an action at its own `pc` (`idle`, `stock`, `reserve`, `fill`, `submit`, `process`, `release`). Kernel steps: take a fill entry and write a packet, skip an invalid entry, publish either cursor. |
| `PacketQueue` | abstract: a bounded FIFO queue that is drained | `Accept`, `Deliver` |
| `Hooker` | `hooker.c`, `bpf_hooker.c`, applications | one action per fallible line of `main`, per thread, and per event of an application; the BPF programs are operators those events evaluate |
| `Launcher` | dashboard, launcher, both helpers, XDP program, applications opening AF_XDP sockets | one action per system call or `tc` command, with its failure |
| `VtlApi` | one process using the API | one action per API call, any of its allocations and system calls failing |
| `Checksum` | `checksum()` | one action per loop iteration |
| `DataPath` | a file transfer over `vtl_send`, header construction, `bpf_tc.c`, the link, `bpf_xdp.c`, `PacketQueue`, `process_packet` | `SendChunk` is one `vtl_send`; `Lose`, `Duplicate` and the choice in `Arrive` are the link's faults; `process_packet` is one callback. The case at hand (link, file) is chosen by `Init`. |
| `PerfBuffer` | `bpf_arqin.c`, `xdp_ack.c`, libbpf's perf buffer, the kernel's side of the rings | one action per packet and per publication of a head; the reader's steps are those of `main`, `perf_buffer__poll` and `bpf_perf_event_read_simple` at their `pc` |
| `BpfObject` | `load_bpf_and_xdp_attach` over libbpf's `bpf_prog_load_xattr`, by a process that deploys again and again | one action per stage of opening, per round of `create_maps` and `load_progs`, each with its failures, and per pass of clean-up; the end of the process anywhere |
| `MC*` | values and symmetry sets for TLC | |
| `XskRxProofs`, `HookerProofs`, `LauncherProofs`, `VtlApiProofs`, `ChecksumProofs`, `DataPathProofs`, `PerfBufferProofs`, `BpfObjectProofs` | the invariants, lemmas and theorems of section 5 | |

`XskRx` and `PacketQueue` are linked by the refinement `ImplementsQueue`: the
queue is the window of rx descriptors written and not yet processed; `Capacity`
is the size of the rx ring. `DataPath` composes the sender, the link and the
two BPF programs with that abstract queue in place of the whole receive path:
what it shows holds for the rings because `XskRx` implements the queue.

Abstractions, in all modules:

- A packet is its rank, an address a model value, a socket its cookie. Printing
  and formatting are left out.
- `XskRx`: a frame address is its index. The u32 cursors are naturals, because no
  frame comes back (finding 1) and a run ends before any cursor can wrap
  (theorem `NoCursorWraps`).
- `Hooker`: 0 is "no entry". The all-zero key of the redirection socket is kept
  apart, as `redir`, but counted in the size of `SOCK_MAP`. Reads of thread ids
  that were never written are a choice between an error and a crash. Each of the
  three detaches may be refused; `refused` remembers it. The kernel
  (established callbacks, removal of a closed socket from a sockhash, fate of
  maps and attachments at exit) is modelled from how the code relies on it.
- `Launcher`: a program is its kind, mode and map; one interface, one queue.
  `tf.index` starts with any value, as it is uninitialised in the code. The look
  for `xsks_map` after the attach (`launcher.c:158` to `:166`) is part of the
  attach: it asks for a map the object was loaded with, and cannot fail.
- `DataPath`: a message is the number of its chunk and its length; the addresses
  are right. A frame is VTL's, *alike* (another process's, with VTL's number in
  byte 23, of whatever Ethernet type) or other; the two programs cannot tell the
  first two apart. Beside what does not fit, the kernel refuses a frame when the
  umem has been used up (`NumFrames`, finding 1), and may refuse one while rings
  hold entries of packets the callback has already had (`Unreleased`). `UintMod`
  stands for 2^32, which TLC's integers cannot hold; its value in the run is
  larger than every length there is.
- `PerfBuffer`: memory is counted in units, a record is a header unit and what
  follows it; the 64-bit positions are naturals. A kernel CPU writes one record
  at a time and publishes it before the next. No `lost_cb` is set, as in
  `xdp_ack.c`; `passed` counts what a lost record said when the reader went past.
- `BpfObject`: what a descriptor refers to is forgotten with the handle (`Left`).
  A descriptor opened and closed within one step (libbpf's probes, a map whose
  contents cannot be set) does not show. A map or program gets the lowest free
  number, so a number that was closed is used again at once.
- `VtlApi`: blocks of memory are names; the application uses only handles it
  got. A fault ends the process (`fault`).
- `Checksum`: a byte has `B` values, so that a "16-bit" word has `B * B` and the
  "32-bit" sum `B ^ 4`; the code is `B = 256`.

## 3. Runs

| Run | Instance | Shows |
|---|---|---|
| `xskrx` | 8 frames, rings of 4, batches of 2 | `TypeOK`, `FramesExclusive`, `FramesConserved`, `FillNeverOverrun`, `ReserveNeverRetries`, `DeliveredInOrder`, `UserFramesStable`, `AcceptedIsDelivered`, `ImplementsQueue` in every interleaving with the kernel |
| `xskrx_leak` | 4 frames, rings of 2 | finding 1 |
| `hooker_safety` | 4 addresses, maps of 2 entries, 5 sockets | `TypeOK`, `CookieIsCurrent`, `DropOnlyWhenFull`, `AttachedInOrder` |
| `launcher` | 2 applications, 4 loads | `TypeOK`, `DeployIsReal`, `RemoveXdpIsReal`, `EntryIsActive` |
| `launcher_served` | 2 applications, 2 loads | finding 2 |
| `api_safety` | 2 contexts, 2 channels, 2 buffers | `TypeOK`, `ReceiverOwnsQueue`, `HandlesWhole` |
| `api_data`, `api_queue` | the same | findings 3 and 4 |
| `checksum` | bytes of 3 values, up to 6 of them | `TypeOK`, `ChecksumVerifies`, `ReadsEverything`, `Terminates` |
| `datapath` | 3 kinds of links, 9 files, a queue of 2, a umem of 3 frames | `TypeOK`, `CallbackGetsChunk`, `FileInOrder`, `SentIsTrue`, `SentIsSettled` |
| `perf` | 2 CPUs, rings of 8 units, 4 packets of 2 or 5 | `TypeOK`, `SampleIntact`, `ReadInOrder`, `PacketsAccounted`, `LossAnnounced`, `WrittenIsRead` |
| `bpfobject` | 3 maps, 2 programs, 14 descriptors | `TypeOK`, `HandlesValid`, `DescriptorsOwned` |

Some properties name what the code is known not to keep, and say that nothing
else goes wrong:

- `DeployIsReal` allows for libbpf's default program in place of a deployment that
  was reported as a success, attached by a socket that looked at the hook before
  (section 6).
- `AttachedInOrder` allows for a monitor whose detach was refused.
- `CallbackGetsChunk` and `SentIsTrue` allow for frames that look like VTL's, and
  the first for the padding of a short frame.
- `SentIsSettled` allows for chunks the receiving kernel refuses, which is all of
  them once the umem is used up.
- `PacketsAccounted` puts packets that found no ring in the map down as `unread`.
- `DescriptorsOwned` allows for the descriptors of loaded objects, which nobody
  closes, and of a file `elf_begin` refused.

### Why the bounds are enough

- *XskRx*: twice as many frames as ring entries, so that the fill ring is
  restocked a full round, both rings wrap, and the run goes on to the exhaustion
  of the umem, where the stack runs dry in the middle of a restocking. For all
  other sizes the safety properties are proved (section 5).
- *Hooker*: with four addresses over maps of two entries `COOKIE_MAP` fills while
  `SOCK_MAP` does not, and five sockets allow an address to be reused after that.
  `MaxQueue` bounds waiting messages only; nothing depends on their number.
- *Launcher*: four loads give the dashboard a deployment, a replacement, and each
  application a program of its own.
- *VtlApi*: with two of each, two contexts compete for the queue, and
  two channels can be given the same buffer.
- *Checksum*: with `B = 3` a word has nine values, so a sum over three words
  carries, and folding needs a second round.

- *DataPath*: the files are at the limits: empty, full chunks with an empty one
  behind them, the largest message for an MTU of 1500, for a umem frame and for
  16 bits, and one byte more of each; short chunks are padded. The links are an
  Ethernet, a link with every fault that does not pad, and one with large packets
  that only loses and duplicates. The queue of two overflows; files of three
  chunks, a duplicate and a frame that looks like VTL's use up the umem of three.
- *PerfBuffer*: the second of two long packets finds no room and the third
  neither, so a lost record tells of two; the fourth then wraps. With two rings
  `epoll` reports one, the other or both.
- *BpfObject*: with three maps and two programs a load fails at a first, a middle
  and a last one. Fourteen descriptors are two objects with their BTF and two
  more, fewer if `elf_begin` loses some: the load after them runs out at the ELF
  file, the BTF, any map and any program.

Deadlock is checked except where the program may stop: the Hooker's `main`
returns with every cookie of the bound handed out, an API process may have
faulted, `checksum()` returns, a file has been sent, and a reader of perf events
has ended.

## 4. Fairness

- `XskRx`: the receiving process goes on with a call it has begun and calls
  `vtl_receive` again, and the kernel publishes what it has written (`FairSpec`).
  That a receiver calls again is the API's use, not something `vtl_receive` does:
  one call takes at most a batch. `client-stream.c` loops on `vtl_rcv`, which
  `vtl_receive` has replaced; `client-aware.c:74` and `hooker__recv` call
  `vtl_receive` once, the former with its loop commented out, and for them only
  the safety properties say anything. Nothing is assumed there of the
  arrival of packets; only the run about the leak (`BusySpec`) has the kernel
  take frames and receive packets whenever it can, so that the counterexample is
  not just a quiet network.
- `Checksum`: a sequential call runs on.
- `DataPath`: the link moves the frames it carries (or loses them, where it may)
  and the receiver keeps calling `vtl_receive`, as above. The sender may stop at
  any time.
- `PerfBuffer`: the reader goes through its set-up and its poll loop, which has no
  other exit than a failure or a signal, and the kernel publishes the record it
  has written. Nothing is assumed of packets, failures or signals.

`Hooker`, `Launcher`, `VtlApi` and `BpfObject` have safety properties only: their
callers may stop at any time.

## 5. Proofs

Checked by TLAPS for every value of the constants that satisfies the named
assumptions, which TLC evaluates on every run:

| Assumption | Says | Because |
|---|---|---|
| `SizesAssumption` | sizes positive, the fill ring no larger than the umem | `NUM_FRAMES` is a multiple of the default ring size |
| `HookerAssumption` | finitely many addresses, maps with at least one entry | `LEGMAP_SIZE` |
| `LauncherAssumption` | the mark for "no application" is none; finitely many loads | a bound of the model |
| `VtlApiAssumption` | finitely many contexts; the application's buffers are none of the API's | |
| `ChecksumAssumption` | the length at most the number of 16-bit words | the code sums IPv4 headers |
| `DataPathAssumption` | chunks have a size, queue and umem have room for one, an unsigned int holds more than two 16-bit lengths | `server-stream.c`, widths of the code's integers |
| `PerfAssumption` | a record is shorter than a ring | `xdp_ack.c:179` asks for 8 pages a ring; `bpf_arqin.c:83` sends the whole packet (the limit of 64 bytes at `:82` is commented out), which the MTU keeps far below that |
| `BpfObjectAssumption` | an object has a map and a program | `bpf_xdp.c` |

Each proof has the same shape: an inductive invariant `IInv`, checked by TLC on
the run's instance as well, a lemma that `Init` has it, one per action that the
action keeps it, and the theorems as its consequences.

**Receive path** (`XskRxProofs`). None of the properties is inductive: whether
an entry may be overwritten depends on three copies of a cursor. The first layer,
`Base`, relates them at every line: the shared consumer lags the kernel's, the
cached one is at most a ring ahead of the shared one, and between reservation
and submission the cached producer is ahead by exactly `stock_frames`. From it
follow `TypeCorrect`, `FillRingSafe` and `NoRetry`. The second layer, `Own`, says
that stack, fill window, rx window and the frames given to the application
partition the umem, and what each window's frames contain; its key lemma,
`SlotsDiffer`, is that indices less than a ring's size apart have different
slots. From it follow `Exclusive`, `Conserved`, `InOrder` and, as an action
property, `Stable`. `RefinesQueue` is the refinement step by step: the kernel's
writing of a descriptor is `Accept`, the end of `process_packet` is `Deliver`,
and every other step leaves the window of waiting descriptors alone
(`QueueStep`). It is the safety part (`QSafety`) of the property
`ImplementsQueue`, and what lets `DataPath` use the queue for the rings.
`PeekSeesAll` is the safety part of `AcceptedIsDelivered`: an empty peek, which
is decided from a cached producer, means that every published packet was
delivered. `NoCursorWraps` justifies that the u32 cursors are naturals here: each
accepted packet uses up a frame for good (`FramePerPacket`, a cardinality) and a
call that reserves a ring's worth of fill entries at most releases a packet
(`FillPerPacket`), so no cursor passes `FqSize * (NumFrames + 2)`, which is about
2^23 with the code's sizes.

**Hooker** (`HookerProofs`). `CookieIsCurrent` is kept by the programs together
with: a socket stored without a cookie can only have come when `COOKIE_MAP` was
full (`MapInv`). Full is for ever while the monitor is attached, because nothing
deletes; when `main` closes an unattached set of maps they go, which is why the
second part of the invariant, `Stage`, follows `main`: what is attached, what may
be because a detach was refused, and which maps are empty at each of its lines, on
every failure path. Theorems:
`CookieCurrent`, `DropsWhenFull`, `Attached`. `TypeCorrect` adds that `SOCK_MAP`
stays within its size with the redirection socket in it (`Room`): that entry goes
in while the map is still empty, which is a fact of `Stage`.

**Launcher** (`LauncherProofs`). What the dashboard shows depends on the line it
came from (`Lines`: nothing is shown before the end, and an object was loaded
before it is attached). `EntryIsActive` is inductive only with `Sockets`: one
application at a time has the queue, and an entry is in the map its socket saw.
Theorems: `TypeCorrect`, `DeploysReal`, `RemovalsReal`, `EntriesActive`.

**API** (`VtlApiProofs`). `ReceiverOwnsQueue` counts contexts; the invariant says
the same without counting (`OneReceiver`) and the theorem `QueueOwned` goes back
to cardinalities. `ChannelsWhole` needs what each constructor returns for every
allocation that may fail. Also `TypeCorrect`.

**Checksum** (`ChecksumProofs`). The result is correct because sum and input stay
congruent modulo `M - 1` (`Congruent`): a fold removes a multiple of it. This
holds only as long as the 32-bit sum does not wrap (`Bounded`). `ReadsAll` says
what was read: `Sums` is the sum of the first n bytes, by recursion on n, and the
loop is always at an even prefix of it. `LoopsShrink` is an action property: each
iteration decreases a natural number (`Variant`), which is what `Terminates`
needs beside fairness. Also `ChecksumTyped`, `ChecksumCorrect`.

**Data path** (`DataPathProofs`). What a callback gets was decided several steps
before, so the invariant follows a frame: `Sending` (what `vtl_send` let
through), `Frames` (what each frame on the wire or accepted still is), `Ranks`
(the receive path holds the accepted frames in order) and `Ordered` (no frame
stands before an earlier one, from the file back to the wire, unless the link
reorders). Frames that look like VTL's go the same way and are kept apart by what
they are, which the programs do not see. Theorems: `TypeCorrect`,
`CallbacksWhole`, `FileOrdered`, `SentTrue`.
Two more are about the whole transfer. `NoChunkVanishes`, the safety part of
`SentIsSettled`: each chunk counted as sent is in the file, in the receive path,
on the wire or lost outside the programs (`Kept`). `FileCopied` combines it with
`Ordered`: when nothing was lost and nothing of other processes accepted, on a
link that neither duplicates nor reorders, the file at the receiver is the chunks
sent, without a gap. That a strictly
increasing sequence which has every number is the sequence of all numbers is
proved by the least index at which it is not (`Least`).

**Perf events** (`PerfBufferProofs`). The reader takes a size out of memory the
kernel wrote and jumps by it; that it lands on the next record is not visible in
any one position. `Records` says that every unit between `data_tail` and `head`
belongs to a record that is all there; `Bounds` that `data_head`, `h` and `t` are
where records begin; `Order` and `Fresh` that packets stand in order and that the
callback has had none of those ahead of it. The lemmas under it are about
positions modulo the size of the ring: what is written at the head changes no
unit less than a round behind it (`WrittenAt`), and the two pieces of a wrapping
record are the record (`RecordRead`). Theorems: `TypeCorrect`, `SamplesWhole`,
`ReadsOrdered`, `AllAccounted`. `LossesExact` adds up the numbers in the lost
records of a ring, gone past or waiting. The sum is a fold over a function; that
a new summand adds to it and a read one leaves it is proved from the definition
of the fold, with induction over finite sets put as a statement about a set of
sizes that has no least element (`WFMin`). `NoMissedWakeup` is the safety part of
`WrittenIsRead`: what is published in a ring is either still reported by `epoll`
or in the round being read (`Awake`), so the reader never sleeps on data.

**Object loading** (`BpfObjectProofs`). Slots and descriptors correspond in both
directions: the descriptor in a slot refers to what the slot is for (`Valid`), and
a descriptor that is not lost is in its slot (`Owning`). A descriptor put into a
slot that holds one would break the second, so the invariant also says which
slots are filled at which round of which loop (`Filled`). The clean-up is one
lemma for all three passes: closing any set of slots keeps both directions
(`CloseKeeps`). Theorems: `TypeCorrect`, `HandlesAreValid`, `DescriptorsAreOwned`.

Only model-checked:

- the liveness properties `AcceptedIsDelivered`, `Terminates`, `SentIsSettled`,
  `WrittenIsRead`, and the fairness in `ImplementsQueue`: the prover has no rules
  for fairness and `ENABLED`. What each of them needs of safety is proved
  (`PeekSeesAll`, `LoopsShrink`, `NoChunkVanishes`, `NoMissedWakeup`,
  `RefinesQueue`);
- the four findings, which are counterexamples.

Every other property of the runs is a theorem. The library's induction rules take
an operator as a parameter, which the provers cannot instantiate; where an
induction is needed it is by `WFMin` and `NatLessThanWellFounded`, on the set of
the numbers at which a statement fails.

## 6. Findings

Each is the counterexample of a run; `PROJECT.json` quotes the sentence of the
repository it contradicts.

1. `adaptor_receive.c:126`: no received frame ever returns to the umem; after
   `NUM_FRAMES` packets reception stops (`xskrx_leak`).
2. `launcher.c:151`: a deployment under an open socket installs an empty
   `xsks_map`; the socket gets nothing more (`launcher_served`).
3. `api.c:367`: closing a channel frees the application's data (`api_data`).
4. `api.c:101`: destroying a receiving context leaves the queue bound
   (`api_queue`).

Passing runs that state how far the code keeps what the documents say:

- `README.md:18` has a message delivered "either to the redirection socket or the
  original TCP socket". Once `COOKIE_MAP` has seen `LEGMAP_SIZE` addresses, the
  messages of new ones are dropped (`bpf_hooker.c:153`), and only then:
  `DropOnlyWhenFull`.
- A deployment shown as a success may be undone by an application's socket set-up
  that looked before it (`api.c:35` asks for no `XDP_FLAGS_UPDATE_IF_NOEXIST`):
  `DeployIsReal` holds with this one exception.
- `adaptor_send.c:250` calls the VTL data the application's payload. The receiver
  takes the length of the frame (`adaptor_receive.c:119`): a message of less than
  24 bytes arrives with the padding of an Ethernet frame behind it, and any other
  exactly: `CallbackGetsChunk`. The 21 bytes of `server-aware.c` arrive as 24.
- `bpf_tc.c:140` and `bpf_xdp.c:73` pick out VTL's packets without a test of the
  Ethernet type: any frame with 0xC8 in byte 23 is marked and redirected.
  `CallbackGetsChunk` and `SentIsTrue` say that no other is.
- `bpf_arqin.c:42` says the rings must be in the map before the program sends.
  `xdp_ack.c:167` attaches first; `PacketsAccounted` counts what is lost by it.

Seen while translating, and kept in the models as the code has them, without a
property of their own because each is one step long:

- `adaptor_receive.c:163`: with fewer free frames than free fill entries the loop
  submits `INVALID_UMEM_FRAME` to the kernel, which skips it (`KSkipInvalid`).
- `hooker.c:271` and `:337`: each of the two threads runs into a null pointer with
  its first message, so no redirected message is forwarded (`hooker__send`,
  `hooker__recv`).
- `hooker.c:424`: a failed map update lets `main` return 0.
- `hooker.c:426`, `:435`, `:459`: the results of the detaches are ignored; with the
  third refused `main` returns and the monitor goes on registering connections.
- `launcher.c:113`: a failed removal of the filter is shown as a success.
- `dashboard.c:528`: leaving the dashboard removes nothing.
- `adaptor_send.c:251`: a payload of more than 65513 bytes is copied past
  `snd_packet` before `sendto` refuses it.
- A message of more than 3804 bytes is sent on a link that carries it and fits no
  umem frame of the receiver.
- `xdp_ack.c:172`: a failure after `do_attach` returns with the program attached,
  and VTL packets are dropped unread.
- `xdp_ack.c:178` sets no `lost_cb`, and libbpf then drops the number in a lost
  record (`libbpf.c:5631`): nobody is told of a full ring.
- `adaptor_receive.c:119`: a frame of 34 or 35 bytes with VTL's number in byte 23,
  on a link that does not pad, gives the callback a size of almost 2^32.
- `launcher.c:152`: a loaded object is never closed, also when the attach fails.
- `libbpf.c:538`: when `elf_begin` refuses a file, `bpf_object__elf_finish` returns
  before it closes it, and the descriptor is lost.
- `api.c:228`: a channel from `vtl_open_channel` has no send buffer, and
  `vtl_send` on it faults.

## 7. Not modelled

- The tx and completion ring of the AF_XDP socket: set up, never used.
- ncurses screens, pcap capture, command lines, option parsing: I/O and
  formatting.
- The adaptor's own reader of perf events: commented out.
- Reuse and pinning of maps (`reuse_maps`, `load_xdp_object_file_reuse_maps`,
  `pin_maps_in_bpf_object` in `xdp_user_helpers.c`, `bpf_map__reuse_fd` and
  `bpf_object__pin_maps` below them): `launcher.c:151` and
  `tests/unit-tests/test_xdp_helpers.c:15` pass `reuse_maps` as false,
  `tests/capture` leaves the field at zero, and the pinning function is static and
  has no caller.
- `dashboard_simple.c`, `bpf_test`, `util`, `tests`: variants, prototypes and
  manual test programs, except the three that `PerfBuffer` and `DataPath` take
  their user process from (`xdp_ack.c`, `server-stream.c`, `client-stream.c`).
  `client_perf.c` receives through `vtl_rcv_perf`, commented out at `api.c:596`.
- libbpf and the kernel, beyond the operations named above. The repository holds
  libbpf twice, each with an older copy of its main file, and three sets of
  kernel headers; these are about nine tenths of its lines. What they do beyond
  descriptors and rings is parsing of ELF and BTF data and the encoding of
  system calls, which has no state to check, and most of it is never called from
  here. The `map` names the copy under `lib/libbpf`, which the makefiles build.

## 8. Plan

Done, in this order: receive path with its abstract queue and proofs; Hooker and
its proofs; launcher with applications; API; checksum and its proofs; data path
over the abstract queue; perf events; object loading; then the proofs about all
of these, and that the receive path implements the queue; then every remaining
invariant of the runs, the safety part of each liveness property, and the action
property `LoopsShrink`; then what the environment may do to the programs: refused
detaches, frames that look like VTL's, a umem that runs out, and the clean-up of
object loading pass by pass, in place of the pinning the program does not do.

Next:

1. More action properties: what a step of a detaching `Launcher` or of a reader of
   perf events may never undo.
2. A refinement of `PacketQueue` by one ring of `PerfBuffer`, on top of its
   `Records` and `Order`, with loss as a step of its own.
