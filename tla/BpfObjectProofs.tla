--------------------------- MODULE BpfObjectProofs ---------------------------
(***************************************************************************)
(* Proofs about BpfObject, for any number of maps, programs and            *)
(* descriptors: the types, that no slot dangles on any path of failure and *)
(* clean-up, and that no descriptor is lost but the ones the code loses.   *)
(***************************************************************************)
EXTENDS BpfObject, FiniteSetTheorems, TLAPS

\* The descriptor in a slot refers to what the slot is for, ...
Valid == \A x \in Items : fd[x] # 0 => fdt[fd[x]] = x

\* ... and every descriptor the process has not lost is in its slot.
Owning == \A f \in Fds : fdt[f] \in Items => fd[fdt[f]] = f

Empty(S) == \A x \in S : fd[x] = 0

\* Which slots are filled where: without it a descriptor could be put into a slot
\* that holds another one, which would be lost.
Filled ==
  /\ pc = "idle" => Empty(Items)
  /\ pc = "collect" => Empty(Items \ {Elf})
  /\ pc = "finish" => Empty(Unloaded)
  /\ pc \in {"create", "undo", "load"} => \A x \in Unloaded : fd[x] # 0 <=> x < i
  /\ pc = "loaded" => \A x \in Unloaded : fd[x] # 0

\* The inductive invariant.
IInv == TypeOK /\ Valid /\ Owning /\ Filled

\* The parts of the invariant that speak of the two tables.
Tables ==
  /\ fd \in [Items -> 0 .. MaxFd] /\ fdt \in [Fds -> Items \cup {Free, Left}]
  /\ Valid /\ Owning

-----------------------------------------------------------------------------
(* The helpers.                                                            *)

\* A set of numbers that is not empty has its minimum: the lowest free
\* descriptor is a free descriptor.
LEMMA MinIn ==
  ASSUME NEW S \in SUBSET Nat, S # {}
  PROVE  Min(S) \in S
<1> DEFINE Less == {ss \in Nat \X Nat : ss[1] < ss[2]}
<1>1. IsWellFoundedOn(Less, Nat)
  BY NatLessThanWellFounded DEF OpToRel
<1>2. PICK x \in S : \A y \in S : ~ (<<y, x>> \in Less)
  <2> HIDE DEF Less
  <2> QED
    BY <1>1, WFMin
<1>3. \A y \in S : x <= y
  <2> SUFFICES ASSUME NEW y \in S PROVE ~(y < x)
    OBVIOUS
  <2>1. y \in Nat /\ x \in Nat
    OBVIOUS
  <2>2. y < x => <<y, x>> \in Less
    BY <2>1
  <2> QED
    BY <1>2, <2>2
<1> QED
  BY <1>3 DEF Min

\* The number the kernel gives a new descriptor is free.
LEMMA FirstFree ==
  ASSUME FreeFds # {}
  PROVE  Min(FreeFds) \in Fds /\ fdt[Min(FreeFds)] = Free /\ Min(FreeFds) \in 1 .. MaxFd
<1>1. FreeFds \in SUBSET Nat
  BY BpfObjectAssumption DEF FreeFds, Fds
<1> QED
  BY <1>1, MinIn DEF FreeFds, Fds

\* What the numbers of the items are.
LEMMA ItemsAre ==
  /\ Elf \in Items /\ Btf \in Items /\ Unloaded \subseteq Items /\ Maps \subseteq Unloaded
  /\ Items = {Elf, Btf} \cup Unloaded /\ Elf \notin Unloaded /\ Btf \notin Unloaded /\ Elf # Btf
  /\ Free \notin Items /\ Left \notin Items /\ Free # Left
  /\ Unloaded = 1 .. NMaps + NProgs /\ NMaps \in Nat \ {0} /\ NProgs \in Nat \ {0}
BY BpfObjectAssumption DEF Items, Elf, Btf, Maps, Progs, Unloaded, Free, Left

\* The loops' bounds, line by line.
LEMMA IndexOf ==
  /\ Index("create") = Maps /\ Index("undo") = Maps /\ Index("load") = Progs
  /\ \A l \in {"idle", "collect", "finish", "unload", "close", "loaded"} : Index(l) = {0}
BY DEF Index

\* A descriptor put into an empty slot.
LEMMA OpenKeeps ==
  ASSUME Tables, NEW x \in Items, fd[x] = 0, Open(x)
  PROVE  /\ Tables' /\ fd'[x] # 0
         /\ \A y \in Items : y # x => fd'[y] = fd[y]
<1> DEFINE m == Min(FreeFds)
<1>1. /\ m \in Fds /\ fdt[m] = Free /\ m \in 1 .. MaxFd
      /\ fd' = [fd EXCEPT ![x] = m] /\ fdt' = [fdt EXCEPT ![m] = x]
  BY FirstFree DEF Open
<1> HIDE DEF m
<1>2. /\ fd' \in [Items -> 0 .. MaxFd] /\ fdt' \in [Fds -> Items \cup {Free, Left}]
      /\ fd'[x] = m /\ m # 0 /\ \A y \in Items : y # x => fd'[y] = fd[y]
      /\ fdt'[m] = x /\ \A f \in Fds : f # m => fdt'[f] = fdt[f]
  BY <1>1 DEF Tables
<1>3. Valid'
  <2> SUFFICES ASSUME NEW y \in Items, fd'[y] # 0 PROVE fdt'[fd'[y]] = y
    BY DEF Valid
  <2>1. CASE y = x
    BY <1>2, <2>1
  <2>2. CASE y # x
    <3>1. fd'[y] = fd[y] /\ fdt[fd[y]] = y /\ fd[y] \in Fds
      BY <1>2, <2>2 DEF Tables, Valid, Fds
    <3>2. fd[y] # m
      BY <1>1, <3>1, ItemsAre
    <3> QED BY <1>2, <3>1, <3>2
  <2> QED BY <2>1, <2>2
<1>4. Owning'
  <2> SUFFICES ASSUME NEW f \in Fds, fdt'[f] \in Items PROVE fd'[fdt'[f]] = f
    BY DEF Owning
  <2>1. CASE f = m
    BY <1>2, <2>1
  <2>2. CASE f # m
    <3>1. fdt'[f] = fdt[f] /\ fd[fdt[f]] = f /\ fdt[f] \in Items
      BY <1>2, <2>2 DEF Tables, Owning
    <3>2. fdt[f] # x
      BY <3>1, BpfObjectAssumption DEF Fds
    <3> QED BY <1>2, <3>1, <3>2
  <2> QED BY <2>1, <2>2
<1> QED BY <1>2, <1>3, <1>4 DEF Tables

\* A pass of clean-up over the slots of S: what is in them is closed, and nothing
\* else.
LEMMA CloseKeeps ==
  ASSUME Tables, NEW S \in SUBSET Items, zclose(S)
  PROVE  /\ Tables'
         /\ \A x \in S : fd'[x] = 0
         /\ \A x \in Items \ S : fd'[x] = fd[x]
<1>1. /\ fdt' = [f \in Fds |-> IF f \in Slots(S) THEN Free ELSE fdt[f]]
      /\ fd' = [x \in Items |-> IF x \in S THEN 0 ELSE fd[x]]
  BY DEF zclose
<1>2. /\ fd' \in [Items -> 0 .. MaxFd] /\ fdt' \in [Fds -> Items \cup {Free, Left}]
      /\ \A x \in S : fd'[x] = 0
      /\ \A x \in Items \ S : fd'[x] = fd[x]
      /\ \A f \in Fds : f \in Slots(S) => fdt'[f] = Free
      /\ \A f \in Fds : f \notin Slots(S) => fdt'[f] = fdt[f]
  BY <1>1, BpfObjectAssumption DEF Tables
<1>3. Valid'
  <2> SUFFICES ASSUME NEW y \in Items, fd'[y] # 0 PROVE fdt'[fd'[y]] = y
    BY DEF Valid
  <2>1. y \in Items \ S /\ fd'[y] = fd[y]
    BY <1>2
  <2>2. fdt[fd[y]] = y /\ fd[y] \in Fds
    BY <2>1 DEF Tables, Valid, Fds
  <2>3. fd[y] \notin Slots(S)
    <3> SUFFICES ASSUME NEW z \in S, fd[z] = fd[y] PROVE FALSE
      BY DEF Slots
    <3>1. fd[z] # 0
      BY <2>2, BpfObjectAssumption DEF Fds
    <3>2. fdt[fd[z]] = z
      BY <3>1 DEF Tables, Valid
    <3> QED BY <2>1, <2>2, <3>2
  <2> QED BY <1>2, <2>1, <2>2, <2>3
<1>4. Owning'
  <2> SUFFICES ASSUME NEW f \in Fds, fdt'[f] \in Items PROVE fd'[fdt'[f]] = f
    BY DEF Owning
  <2>1. f \notin Slots(S) /\ fdt'[f] = fdt[f]
    BY <1>2, ItemsAre
  <2>2. fd[fdt[f]] = f /\ fdt[f] \in Items
    BY <2>1 DEF Tables, Owning
  <2>3. fdt[f] \notin S
    BY <2>1, <2>2, BpfObjectAssumption DEF Slots, Fds
  <2> QED BY <1>2, <2>1, <2>2, <2>3
<1> QED BY <1>2, <1>3, <1>4 DEF Tables

\* The slots are given up, what was in them closed or lost.
LEMMA ForgetKeeps ==
  ASSUME NEW g \in [Fds -> {Free, Left}],
         fdt' = g, fd' = [x \in Items |-> 0]
  PROVE  Tables' /\ Empty(Items)'
<1>1. fd' \in [Items -> 0 .. MaxFd] /\ fdt' \in [Fds -> Items \cup {Free, Left}]
  BY BpfObjectAssumption
<1>2. Empty(Items)' /\ Valid'
  BY DEF Empty, Valid
<1>3. Owning'
  BY ItemsAre DEF Owning
<1> QED BY <1>1, <1>2, <1>3 DEF Tables

-----------------------------------------------------------------------------
(* The invariant holds at the start and is kept by every action.           *)

\* The invariant holds before the first load.
LEMMA Initially == Init => IInv
<1> SUFFICES ASSUME Init PROVE IInv
  OBVIOUS
<1>1. TypeOK
  BY IndexOf, BpfObjectAssumption DEF Init, TypeOK
<1>2. Valid /\ Owning
  BY ItemsAre DEF Init, Valid, Owning
<1>3. Filled
  BY ItemsAre DEF Init, Filled, Empty
<1> QED BY <1>1, <1>2, <1>3 DEF IInv

\* Every step of a load, of its clean-up and of the process keeps the invariant.
LEMMA Inductive == IInv /\ [Next]_vars => IInv'
<1> SUFFICES ASSUME IInv, [Next]_vars PROVE IInv'
  OBVIOUS
<1>0. /\ Tables /\ Filled /\ i \in Index(pc)
      /\ pc \in {"idle", "collect", "finish", "create", "undo", "load", "unload", "close", "loaded"}
  BY DEF IInv, TypeOK, Tables
<1> SUFFICES /\ Tables' /\ Filled'
             /\ pc' \in {"idle", "collect", "finish", "create", "undo", "load", "unload", "close", "loaded"}
             /\ i' \in Index(pc')
  BY DEF IInv, TypeOK, Tables, Index, Maps, Progs
<1>1. CASE bpf_object__elf_init
  <2>0. pc = "idle" /\ Empty(Items)
    BY <1>0, <1>1 DEF bpf_object__elf_init, Filled
  <2>1. CASE Open(Elf) /\ Goto("collect", 0)
    <3>1. Tables' /\ \A y \in Items : y # Elf => fd'[y] = 0
      BY <1>0, <2>0, <2>1, OpenKeeps, ItemsAre DEF Empty
    <3> QED BY <2>1, <3>1, IndexOf DEF Goto, Filled, Empty
  <2>2. CASE /\ FreeFds # {} /\ fdt' = [fdt EXCEPT ![Min(FreeFds)] = Left]
             /\ UNCHANGED <<pc, i, fd>>
    <3> DEFINE m == Min(FreeFds)
    <3>1. m \in Fds /\ fdt[m] = Free
      BY <2>2, FirstFree
    <3>2. fdt' = [fdt EXCEPT ![m] = Left] /\ fd' = fd
      BY <2>2
    <3> HIDE DEF m
    <3>3. fdt' \in [Fds -> Items \cup {Free, Left}]
      BY <1>0, <3>1, <3>2 DEF Tables
    <3>4. Valid'
      BY <2>0, <3>2 DEF Valid, Empty
    <3>5. Owning'
      <4> SUFFICES ASSUME NEW f \in Fds, fdt'[f] \in Items PROVE fd'[fdt'[f]] = f
        BY DEF Owning
      <4>1. f # m
        BY <1>0, <3>1, <3>2, ItemsAre DEF Tables
      <4> QED BY <1>0, <3>1, <3>2, <4>1 DEF Tables, Owning
    <3>6. Tables'
      BY <1>0, <3>2, <3>3, <3>4, <3>5 DEF Tables
    <3> QED BY <1>0, <2>0, <2>2, <3>6, IndexOf DEF Filled, Empty
  <2> QED BY <1>1, <2>1, <2>2 DEF bpf_object__elf_init
<1>2. CASE bpf_object__elf_collect
  <2>1. pc = "collect" /\ Empty(Items \ {Elf})
    BY <1>0, <1>2 DEF bpf_object__elf_collect, Filled
  <2>2. Tables' /\ \A y \in Unloaded : fd'[y] = 0
    <3>1. CASE Open(Btf)
      BY <1>0, <2>1, <3>1, OpenKeeps, ItemsAre DEF Empty
    <3>2. CASE UNCHANGED <<fd, fdt>>
      BY <1>0, <2>1, <3>2, ItemsAre DEF Tables, Valid, Owning, Empty
    <3> QED BY <1>2, <3>1, <3>2 DEF bpf_object__elf_collect
  <2>3. Goto("finish", 0) \/ Goto("close", 0)
    BY <1>2 DEF bpf_object__elf_collect
  <2> QED BY <2>2, <2>3, IndexOf DEF Goto, Filled, Empty
<1>3. CASE bpf_object__elf_finish
  <2>1. Empty(Unloaded) /\ zclose({Elf}) /\ (Goto("create", 1) \/ Goto("close", 0))
    BY <1>0, <1>3 DEF bpf_object__elf_finish, Filled
  <2>2. Tables' /\ \A y \in Unloaded : fd'[y] = 0
    BY <1>0, <2>1, CloseKeeps, ItemsAre DEF Empty
  <2>3. (\A x \in Unloaded : ~(x < 1)) /\ 1 \in Maps
    BY ItemsAre DEF Maps
  <2> QED BY <2>1, <2>2, <2>3, IndexOf DEF Goto, Filled, Empty
<1>4. CASE bpf_object__create_maps
  <2>0. /\ pc = "create" /\ i \in Maps /\ i \in Unloaded /\ i \in Items
        /\ \A x \in Unloaded : fd[x] # 0 <=> x < i
    BY <1>0, <1>4, IndexOf, ItemsAre DEF bpf_object__create_maps, Filled
  <2>1. CASE Open(i) /\ IF i < NMaps THEN Goto("create", i + 1) ELSE Goto("load", i + 1)
    <3>1. fd[i] = 0
      BY <2>0, ItemsAre
    <3>2. Tables' /\ fd'[i] # 0 /\ \A y \in Items : y # i => fd'[y] = fd[y]
      BY <1>0, <2>0, <2>1, <3>1, OpenKeeps
    <3>3. \A x \in Unloaded : fd'[x] # 0 <=> x < i + 1
      BY <2>0, <3>2, ItemsAre
    <3>4. /\ i' = i + 1
          /\ \/ pc' = "create" /\ i + 1 \in Maps
             \/ pc' = "load" /\ i + 1 \in Progs
      <4>1. i \in 1 .. NMaps /\ NMaps \in Nat /\ NProgs \in Nat \ {0}
        BY <2>0, ItemsAre DEF Maps
      <4>2. CASE i < NMaps
        <5>1. pc' = "create" /\ i' = i + 1
          BY <2>1, <4>2, Zenon DEF Goto
        <5> QED BY <4>1, <4>2, <5>1 DEF Maps
      <4>3. CASE ~(i < NMaps)
        <5>1. pc' = "load" /\ i' = i + 1
          BY <2>1, <4>3, Zenon DEF Goto
        <5> QED BY <4>1, <4>3, <5>1 DEF Progs
      <4> QED BY <4>2, <4>3
    <3> QED BY <3>2, <3>3, <3>4, IndexOf DEF Filled
  <2>2. CASE Goto("undo", i) /\ UNCHANGED <<fd, fdt>>
    <3>1. Tables'
      BY <1>0, <2>2 DEF Tables, Valid, Owning
    <3> QED BY <2>0, <2>2, <3>1, IndexOf DEF Goto, Filled
  <2> QED BY <1>4, <2>1, <2>2 DEF bpf_object__create_maps
<1>5. CASE err_out
  <2>1. 1 .. i - 1 \in SUBSET Items /\ zclose(1 .. i - 1) /\ Goto("unload", 0)
    <3>1. i \in Maps
      BY <1>0, <1>5, IndexOf DEF err_out
    <3>2. 1 .. i - 1 \subseteq 1 .. NMaps + NProgs
      BY <3>1, ItemsAre DEF Maps
    <3> QED BY <1>5, <3>2, ItemsAre DEF err_out
  <2>2. Tables'
    BY <1>0, <2>1, CloseKeeps
  <2> QED BY <2>1, <2>2, IndexOf DEF Goto, Filled
<1>6. CASE bpf_object__load_progs
  <2>0. /\ pc = "load" /\ i \in Progs /\ i \in Unloaded /\ i \in Items
        /\ \A x \in Unloaded : fd[x] # 0 <=> x < i
    BY <1>0, <1>6, IndexOf, ItemsAre DEF bpf_object__load_progs, Filled, Unloaded
  <2>1. CASE Open(i) /\ IF i < NMaps + NProgs THEN Goto("load", i + 1) ELSE Goto("loaded", 0)
    <3>1. fd[i] = 0
      BY <2>0, ItemsAre
    <3>2. Tables' /\ fd'[i] # 0 /\ \A y \in Items : y # i => fd'[y] = fd[y]
      BY <1>0, <2>0, <2>1, <3>1, OpenKeeps
    <3>3. \A x \in Unloaded : fd'[x] # 0 <=> x < i + 1
      BY <2>0, <3>2, ItemsAre
    <3>4. CASE i < NMaps + NProgs
      <4>1. pc' = "load" /\ i' = i + 1 /\ i + 1 \in Progs
        BY <2>0, <2>1, <3>4, ItemsAre DEF Goto, Progs
      <4> QED BY <3>2, <3>3, <4>1, IndexOf DEF Filled
    <3>5. CASE ~(i < NMaps + NProgs)
      <4>1. pc' = "loaded" /\ i' = 0
        BY <2>1, <3>5 DEF Goto
      <4>2. \A x \in Unloaded : x < i + 1
        BY <2>0, <3>5, ItemsAre DEF Progs
      <4> QED BY <3>2, <3>3, <4>1, <4>2, IndexOf DEF Filled
    <3> QED BY <3>4, <3>5
  <2>2. CASE Goto("unload", 0) /\ UNCHANGED <<fd, fdt>>
    <3>1. Tables'
      BY <1>0, <2>2 DEF Tables, Valid, Owning
    <3> QED BY <2>2, <3>1, IndexOf DEF Goto, Filled
  <2> QED BY <1>6, <2>1, <2>2 DEF bpf_object__load_progs
<1>7. CASE bpf_object__unload
  <2>1. Tables'
    BY <1>0, <1>7, CloseKeeps, ItemsAre DEF bpf_object__unload
  <2> QED BY <1>7, <2>1, IndexOf DEF bpf_object__unload, Goto, Filled
<1>8. CASE bpf_object__close
  <2>1. zclose(Items) /\ Goto("idle", 0)
    BY <1>8, ItemsAre DEF bpf_object__close
  <2>2. Tables' /\ \A x \in Items : fd'[x] = 0
    BY <1>0, <2>1, CloseKeeps
  <2> QED BY <2>1, <2>2, IndexOf DEF Goto, Filled, Empty
<1>9. CASE load_bpf_and_xdp_attach
  <2> DEFINE g == [f \in Fds |-> IF f \in Slots(Items) THEN Left ELSE fdt[f]]
  <2>1. fdt' = g /\ fd' = [x \in Items |-> 0] /\ Goto("idle", 0)
    BY <1>9 DEF load_bpf_and_xdp_attach
  <2>2. g \in [Fds -> {Free, Left}]
    <3> SUFFICES ASSUME NEW f \in Fds, f \notin Slots(Items) PROVE fdt[f] \in {Free, Left}
      OBVIOUS
    <3>1. fdt[f] \notin Items
      BY <1>0, BpfObjectAssumption DEF Tables, Owning, Slots, Fds
    <3> QED BY <1>0, <3>1 DEF Tables
  <2> HIDE DEF g
  <2>3. Tables' /\ Empty(Items)'
    BY <2>1, <2>2, ForgetKeeps
  <2> QED BY <2>1, <2>3, IndexOf DEF Goto, Filled
<1>10. CASE Exit
  <2>1. fdt' \in [Fds -> {Free, Left}] /\ fd' = [x \in Items |-> 0] /\ Goto("idle", 0)
    BY <1>10 DEF Exit
  <2>2. Tables' /\ Empty(Items)'
    BY <2>1, ForgetKeeps
  <2> QED BY <2>1, <2>2, IndexOf DEF Goto, Filled
<1>11. CASE UNCHANGED vars
  <2>1. Tables' /\ Filled'
    BY <1>0, <1>11 DEF vars, Tables, Valid, Owning, Filled, Empty
  <2> QED BY <1>0, <1>11, <2>1 DEF vars
<1> QED
  BY <1>1, <1>2, <1>3, <1>4, <1>5, <1>6, <1>7, <1>8, <1>9, <1>10, <1>11 DEF Next

\* The invariant of the whole.
LEMMA Invariance == Spec => []IInv
BY Initially, Inductive, PTL DEF Spec

-----------------------------------------------------------------------------
(* What follows from it.                                                   *)

\* The types hold, for any number of maps, programs and descriptors.
THEOREM TypeCorrect == Spec => []TypeOK
<1>1. IInv => TypeOK
  BY DEF IInv
<1> QED BY <1>1, Invariance, PTL

\* No slot dangles, from bpf_object__elf_init to the last pass of the clean-up: no
\* pass closes a number twice or one of something else, and a loaded object has all
\* its maps and programs.
THEOREM HandlesAreValid == Spec => []HandlesValid
<1>1. IInv => HandlesValid
  BY DEF IInv, Valid, Filled, HandlesValid
<1> QED BY <1>1, Invariance, PTL

\* Every open descriptor is in its slot, or was left by a load that succeeded or by
\* elf_begin; a load that failed otherwise has left none.
THEOREM DescriptorsAreOwned == Spec => []DescriptorsOwned
<1>1. IInv => DescriptorsOwned
  <2> SUFFICES ASSUME IInv PROVE DescriptorsOwned
    OBVIOUS
  <2>1. Owning /\ fdt \in [Fds -> Items \cup {Free, Left}]
    BY DEF IInv, TypeOK
  <2>2. ASSUME pc = "idle", NEW f \in Fds PROVE fdt[f] \in {Free, Left}
    <3>1. \A x \in Items : fd[x] = 0
      BY <2>2 DEF IInv, Filled, Empty
    <3>2. fdt[f] \notin Items
      BY <2>1, <3>1, BpfObjectAssumption DEF Owning, Fds
    <3> QED BY <2>1, <3>2
  <2> QED BY <2>1, <2>2 DEF Owning, DescriptorsOwned
<1> QED BY <1>1, Invariance, PTL

=============================================================================
