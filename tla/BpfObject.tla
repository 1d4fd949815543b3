----------------------------- MODULE BpfObject -----------------------------
(***************************************************************************)
(* Loading of BPF objects: load_bpf_and_xdp_attach of xdp_user_helpers.c   *)
(* over libbpf's bpf_prog_load_xattr, in a process that deploys again and  *)
(* again.  Every step may fail, and a failure runs through up to three     *)
(* passes of clean-up that go over the same slots: the maps created so far *)
(* (bpf_object__create_maps), all maps and programs (bpf_object__unload),  *)
(* and the whole object (bpf_object__close).                               *)
(*                                                                         *)
(* An object has slots for the descriptors of its ELF file, its BTF, its   *)
(* maps and its programs; 0 stands for -1.  The descriptors of the process *)
(* are numbers in a table that says what each refers to; they run out.     *)
(* Every caller deploys with reuse_maps false, and nothing pins the maps   *)
(* of an object: the object always creates them.                           *)
(***************************************************************************)
EXTENDS Integers, FiniteSets, FiniteSetsExt

CONSTANTS NMaps,     \* maps of the object
          NProgs,    \* programs of the object
          MaxFd      \* descriptors the process may have

ASSUME BpfObjectAssumption ==
  NMaps \in Nat \ {0} /\ NProgs \in Nat \ {0} /\ MaxFd \in Nat

\* What a descriptor may be of: the maps from 1, the programs behind them, ...
Maps  == 1 .. NMaps
Progs == NMaps + 1 .. NMaps + NProgs
Btf   == 0
Elf   == -1
Items == Elf .. NMaps + NProgs

\* ... or nothing, or something the process has lost the number of.
Free == -2
Left == -3

Fds == 1 .. MaxFd

VARIABLES
  pc, i,      \* where the process is, and at which map or program
  fd,         \* the slots: efile.fd, btf->fd, map->fd, prog->instances.fds[0]
  fdt         \* what its descriptors refer to

vars == <<pc, i, fd, fdt>>

Init ==
  /\ pc = "idle" /\ i = 0
  /\ fd = [x \in Items |-> 0]
  /\ fdt = [f \in Fds |-> Free]

-----------------------------------------------------------------------------
(* Descriptors.                                                            *)

FreeFds == {f \in Fds : fdt[f] = Free}

\* A new descriptor, of x, has the lowest free number.
Open(x) ==
  /\ FreeFds # {}
  /\ fd' = [fd EXCEPT ![x] = Min(FreeFds)]
  /\ fdt' = [fdt EXCEPT ![Min(FreeFds)] = x]

Slots(S) == {fd[x] : x \in S} \ {0}

\* Mutant: what was closed stays in its slot.
zclose_keep(S) ==
  /\ fdt' = [f \in Fds |-> IF f \in Slots(S) THEN Free ELSE fdt[f]]
  /\ UNCHANGED fd

\* zclose for the slots of S: those that are set are closed, all are reset.
zclose(S) ==
  /\ fdt' = [f \in Fds |-> IF f \in Slots(S) THEN Free ELSE fdt[f]]
  /\ fd' = [x \in Items |-> IF x \in S THEN 0 ELSE fd[x]]

Goto(l, n) == pc' = l /\ i' = n

-----------------------------------------------------------------------------
(* Opening: bpf_object__open_xattr.                                        *)

\* bpf_object__elf_init.  When elf_begin fails, efile.elf is not set, and
\* bpf_object__elf_finish, here and from bpf_object__close, returns before it
\* closes the file.
bpf_object__elf_init ==
  /\ pc = "idle"
  /\ \/ Open(Elf) /\ Goto("collect", 0)
     \/ /\ FreeFds # {} /\ fdt' = [fdt EXCEPT ![Min(FreeFds)] = Left]
        /\ UNCHANGED <<pc, i, fd>>

\* Up to bpf_object__validate: the BTF, if there is any and the kernel takes it,
\* gets a descriptor; any part may fail.
bpf_object__elf_collect ==
  /\ pc = "collect"
  /\ Open(Btf) \/ UNCHANGED <<fd, fdt>>
  /\ Goto("finish", 0) \/ Goto("close", 0)

\* The file is closed.  An object without programs is not loaded.
bpf_object__elf_finish ==
  /\ pc = "finish"
  /\ zclose({Elf})
  /\ Goto("create", 1) \/ Goto("close", 0)

-----------------------------------------------------------------------------
(* bpf_object__load_xattr.                                                 *)

\* One round of bpf_object__create_maps.  The map is created, without its BTF if
\* need be; or it is not, or its contents cannot be set, when it is closed at once.
bpf_object__create_maps ==
  /\ pc = "create"
  /\ \/ Open(i) /\ IF i < NMaps THEN Goto("create", i + 1) ELSE Goto("load", i + 1)
     \/ Goto("undo", i) /\ UNCHANGED <<fd, fdt>>

\* Its error path closes the maps before that one.
err_out ==
  /\ pc = "undo"
  /\ zclose(1 .. i - 1)
  /\ Goto("unload", 0)

\* Mutant: one program too many.
bpf_object__load_progs_over ==
  /\ pc = "load"
  /\ \/ Open(i) /\ IF i <= NMaps + NProgs THEN Goto("load", i + 1) ELSE Goto("loaded", 0)
     \/ Goto("unload", 0) /\ UNCHANGED <<fd, fdt>>

\* bpf_object__relocate and one round of bpf_object__load_progs.
bpf_object__load_progs ==
  /\ pc = "load"
  /\ \/ Open(i) /\ IF i < NMaps + NProgs THEN Goto("load", i + 1) ELSE Goto("loaded", 0)
     \/ Goto("unload", 0) /\ UNCHANGED <<fd, fdt>>

\* Mutant: the programs are left out.
Unloaded_maps == Maps

\* What bpf_object__unload closes.
Unloaded == Maps \cup Progs

\* The failed load.
bpf_object__unload ==
  /\ pc = "unload"
  /\ zclose(Unloaded)
  /\ Goto("close", 0)

\* bpf_prog_load_xattr closes the object, or __bpf_object__open does: the file if
\* it is still open, maps and programs once more, the BTF.
bpf_object__close ==
  /\ pc = "close"
  /\ zclose({Elf, Btf} \cup Unloaded)
  /\ Goto("idle", 0)

-----------------------------------------------------------------------------
\* The rest of load_bpf_and_xdp_attach: whether it fails or the caller gets the
\* object, nobody closes it, and the process goes on to its next deployment.
load_bpf_and_xdp_attach ==
  /\ pc = "loaded"
  /\ fdt' = [f \in Fds |-> IF f \in Slots(Items) THEN Left ELSE fdt[f]]
  /\ fd' = [x \in Items |-> 0]
  /\ Goto("idle", 0)

\* The process ends, wherever it is, and another one is started.
Exit ==
  /\ fdt' = [f \in Fds |-> Free] /\ fd' = [x \in Items |-> 0]
  /\ Goto("idle", 0)

Next == \/ bpf_object__elf_init \/ bpf_object__elf_collect \/ bpf_object__elf_finish
        \/ bpf_object__create_maps \/ err_out \/ bpf_object__load_progs
        \/ bpf_object__unload \/ bpf_object__close
        \/ load_bpf_and_xdp_attach \/ Exit

Spec == Init /\ [][Next]_vars

-----------------------------------------------------------------------------
Index(l) == CASE l \in {"create", "undo"} -> Maps
              [] l = "load"               -> Progs
              [] OTHER                    -> {0}

\* Types; the index is one the loop at hand has.
TypeOK ==
  /\ pc \in {"idle", "collect", "finish", "create", "undo", "load", "unload", "close", "loaded"}
  /\ i \in Index(pc)
  /\ fd \in [Items -> 0 .. MaxFd]
  /\ fdt \in [Fds -> Items \cup {Free, Left}]

\* No slot dangles: the descriptor in it is open and refers to what the slot is
\* for, also between two passes of clean-up, so that none of them closes a number
\* a second time or one that meanwhile belongs to something else.  And an object
\* that counts as loaded has every map and program.
HandlesValid ==
  /\ \A x \in Items : fd[x] # 0 => fdt[fd[x]] = x
  /\ pc = "loaded" => \A x \in Unloaded : fd[x] # 0

\* No descriptor is lost: each open one is in its slot or was left behind with an
\* object that had been loaded whole or a file elf_begin did not take.  A load that
\* fails later, at whatever map or program, has closed all it opened when
\* bpf_prog_load_xattr returns.
DescriptorsOwned ==
  /\ \A f \in Fds : fdt[f] \in Items => fd[fdt[f]] = f
  /\ pc = "idle" => \A f \in Fds : fdt[f] \in {Free, Left}

=============================================================================
