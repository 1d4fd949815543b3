---------------------------- MODULE LauncherProofs ----------------------------
(***************************************************************************)
(* Proofs about Launcher, for any number of applications and of programs   *)
(* loaded: the types, that what the dashboard reports is so, and that the  *)
(* entries of every xsks_map and the open sockets agree.                   *)
(***************************************************************************)
EXTENDS Launcher, TLAPS

\* The dashboard between two menus: nothing is reported yet, the object file
\* is loaded before it is attached and the qdisc added before the filter.
Lines ==
  /\ pc \notin {"menu", "exit"} => shown = "none"
  /\ pc \in {"xdp_attach", "xdp_swap", "xdp_retry"} => obj # 0
  /\ pc = "tc_filter" => clsact

\* One application at a time has the queue; an entry of a map is the one its
\* socket was registered in.
Sockets ==
  /\ \A a, b \in Apps : app[a] # "none" /\ app[b] # "none" => a = b
  /\ \A a \in Apps : app[a] \in {"open", "orphan"} => seen[a] # 0
  /\ \A m \in 1 .. MaxLoads : entry[m] # NoApp => m = seen[entry[m]]

\* The inductive invariant.
IInv == /\ TypeOK /\ Lines /\ Sockets
        /\ DeployIsReal /\ RemoveXdpIsReal /\ EntryIsActive

\* What can be on the hook when n maps were created.
HookTypes(n) == {NoProg} \cup [kind : {"foreign"}, mode : {"skb", "drv"}, map : {0}]
                  \cup [kind : {"vtl", "default"}, mode : {"skb"}, map : 1 .. n]

-----------------------------------------------------------------------------
(* The parts of the type invariant, so that no step needs all of it.       *)

\* What the later steps use of the types.
LEMMA Types ==
  ASSUME TypeOK
  PROVE  /\ xdp \in HookTypes(loads)
         /\ loads \in Int /\ 0 <= loads /\ loads <= MaxLoads
         /\ obj \in Int /\ 0 <= obj /\ obj <= loads
         /\ entry \in [1 .. MaxLoads -> Apps \cup {NoApp}]
         /\ app \in [Apps -> {"none", "load", "lookup", "open", "orphan", "closed"}]
         /\ seen \in [Apps -> 0 .. loads]
<1>1. xdp \in HookTypes(loads)
  BY DEF TypeOK, HookTypes
<1>2. loads \in 0 .. MaxLoads /\ obj \in 0 .. loads
  BY DEF TypeOK
<1>3. /\ loads \in Int /\ 0 <= loads /\ loads <= MaxLoads
      /\ obj \in Int /\ 0 <= obj /\ obj <= loads
  BY <1>2, LauncherAssumption
<1> QED
  BY <1>1, <1>3 DEF TypeOK

\* A program on the hook: none, somebody else's, or one with a map of ours,
\* which only the skb hook has.
LEMMA HookShape ==
  ASSUME NEW n \in Nat, NEW x \in HookTypes(n)
  PROVE  \/ x.kind = "none" /\ x.mode = "skb" /\ x.map = 0
         \/ x.kind = "foreign" /\ x.mode \in {"skb", "drv"} /\ x.map = 0
         \/ x.kind \in {"vtl", "default"} /\ x.mode = "skb" /\ x.map \in 1 .. n
BY DEF HookTypes, NoProg

\* More maps make no program on the hook wrong.
LEMMA HookGrows ==
  ASSUME NEW m \in Nat, NEW n \in Nat, m <= n, NEW x \in HookTypes(m)
  PROVE  x \in HookTypes(n)
<1>1. 1 .. m \subseteq 1 .. n
  OBVIOUS
<1> QED
  BY <1>1 DEF HookTypes

\* A program just attached, with one of the maps created.
LEMMA HookNew ==
  ASSUME NEW n \in Nat, NEW m \in 1 .. n, NEW kind \in {"vtl", "default"}
  PROVE  Prog(kind, "skb", m) \in HookTypes(n)
BY DEF HookTypes, Prog

-----------------------------------------------------------------------------
\* The dashboard starts with nothing of VTL's on the interface.
LEMMA Initially == Init => IInv
<1> SUFFICES ASSUME Init PROVE IInv
  OBVIOUS
<1> USE LauncherAssumption
<1>1. TypeOK
  <2>1. xdp \in HookTypes(loads)
    BY DEF Init, HookTypes, NoProg, Prog
  <2>2. loads \in 0 .. MaxLoads /\ obj \in 0 .. loads
    BY DEF Init
  <2>3. clsact \in BOOLEAN /\ filter \in BOOLEAN /\ (filter => clsact)
    BY DEF Init
  <2>4. /\ entry \in [1 .. MaxLoads -> Apps \cup {NoApp}]
        /\ app \in [Apps -> {"none", "load", "lookup", "open", "orphan", "closed"}]
        /\ seen \in [Apps -> 0 .. loads]
    BY DEF Init
  <2> QED
    BY <2>1, <2>2, <2>3, <2>4 DEF Init, TypeOK, HookTypes
<1>2. Lines /\ Sockets
  BY DEF Init, Lines, Sockets
<1>3. DeployIsReal /\ RemoveXdpIsReal /\ EntryIsActive
  BY DEF Init, DeployIsReal, RemoveXdpIsReal, EntryIsActive
<1> QED
  BY <1>1, <1>2, <1>3 DEF IInv

\* The sockets' part of the invariant depends on what the applications write.
LEMMA SocketsKept ==
  ASSUME IInv, UNCHANGED <<entry, app, seen>>
  PROVE  Sockets' /\ EntryIsActive'
BY DEF IInv, Sockets, EntryIsActive

\* The menu and the steps that touch nothing but the dashboard's own state.
LEMMA MenuStep ==
  ASSUME IInv, ChooseDeploy \/ ChooseRemove \/ ChooseExit \/ Restart \/ CheckDevice
  PROVE  IInv'
<1>1. UNCHANGED <<xdp, clsact, filter, loads, entry, app, seen, obj>>
  BY DEF ChooseDeploy, ChooseRemove, ChooseExit, Restart, CheckDevice, nic, xsks
<1>2. /\ pc' \in {"menu", "exit", "xdp_load", "tc_dev", "xdp_detach", "tc_remove", "tc_del"}
      /\ index' \in {BASIC_TF, ARQ_TF, Garbage}
      /\ shown' \in {"none", "failed"}
      /\ pc' \notin {"menu", "exit"} => shown' = "none"
  BY DEF ChooseDeploy, ChooseRemove, ChooseExit, Restart, CheckDevice, Fail,
         IInv, TypeOK, Lines
<1>3. TypeOK'
  BY <1>1, <1>2 DEF IInv, TypeOK
<1>4. Lines'
  BY <1>1, <1>2 DEF Lines
<1>5. DeployIsReal' /\ RemoveXdpIsReal'
  BY <1>2 DEF DeployIsReal, RemoveXdpIsReal
<1> QED
  BY <1>1, <1>3, <1>4, <1>5, SocketsKept DEF IInv

\* launcher__deploy_xdp_xsk and launcher__remove_xdp: success is reported after
\* the hook was set or cleared, and in the same step.
LEMMA XdpStep ==
  ASSUME IInv,
         load_xdp_object_file \/ xdp_link_attach \/ SwapMode \/ RetryAttach \/ xdp_link_detach
  PROVE  IInv'
<1> USE LauncherAssumption
<1>1. UNCHANGED <<clsact, filter, entry, app, seen, index>> /\ shown = "none"
  BY DEF load_xdp_object_file, xdp_link_attach, SwapMode, RetryAttach, xdp_link_detach,
         nic, xsks, IInv, Lines
<1>2. CASE load_xdp_object_file
  <2>1. UNCHANGED xdp /\ loads' \in 0 .. MaxLoads /\ loads <= loads' /\ obj' \in 0 .. loads'
    BY <1>2, Types DEF load_xdp_object_file, IInv, nic
  <2>2. \/ pc' = "xdp_attach" /\ obj' # 0 /\ shown' = "none"
        \/ pc' = "exit" /\ shown' = "failed"
    BY <1>1, <1>2, Types DEF load_xdp_object_file, Fail, IInv
  <2>3. TypeOK'
    <3>1. xdp' \in HookTypes(loads')
      BY <2>1, Types, HookGrows DEF IInv
    <3>2. seen' \in [Apps -> 0 .. loads']
      <4>1. 0 .. loads \subseteq 0 .. loads'
        BY <2>1, Types DEF IInv
      <4> QED
        BY <1>1, <4>1, Types DEF IInv
    <3> QED
      BY <1>1, <2>1, <2>2, <3>1, <3>2 DEF IInv, TypeOK, HookTypes
  <2>4. Lines'
    BY <2>2 DEF Lines
  <2>5. DeployIsReal' /\ RemoveXdpIsReal'
    BY <2>2 DEF DeployIsReal, RemoveXdpIsReal
  <2> QED
    BY <1>1, <2>3, <2>4, <2>5, SocketsKept DEF IInv
<1>3. CASE xdp_link_attach \/ SwapMode \/ RetryAttach \/ xdp_link_detach
  <2>1. UNCHANGED <<loads, obj>>
    BY <1>3 DEF xdp_link_attach, SwapMode, RetryAttach, xdp_link_detach, xsks
  <2>2. \/ xdp' = Prog("vtl", "skb", obj) /\ obj # 0 /\ Show("xdp deployed")
        \/ xdp' \in {xdp, NoProg} /\ pc' \in {"xdp_swap", "xdp_retry"} /\ shown' = "none" /\ obj # 0
        \/ xdp' = xdp /\ Fail
        \/ xdp' = (IF xdp.mode = "skb" THEN NoProg ELSE xdp) /\ Show("xdp removed")
    BY <1>1, <1>3 DEF xdp_link_attach, SwapMode, RetryAttach, xdp_link_detach, IInv, Lines
  <2>3. TypeOK'
    <3>1. xdp' \in HookTypes(loads')
      <4>1. obj # 0 => obj \in 1 .. loads
        BY Types DEF IInv
      <4>2. obj # 0 => Prog("vtl", "skb", obj) \in HookTypes(loads)
        BY <4>1, HookNew, Types DEF IInv
      <4>3. NoProg \in HookTypes(loads) /\ xdp \in HookTypes(loads)
        BY Types DEF IInv, HookTypes
      <4> QED
        BY <2>1, <2>2, <4>2, <4>3
    <3>2. /\ pc' \in {"menu", "exit", "xdp_swap", "xdp_retry"}
          /\ shown' \in {"none", "failed", "xdp deployed", "xdp removed"}
      BY <2>2 DEF Show, Fail
    <3> QED
      BY <1>1, <2>1, <3>1, <3>2 DEF IInv, TypeOK, HookTypes
  <2>4. Lines'
    BY <2>1, <2>2 DEF Lines, Show, Fail
  <2>5. DeployIsReal' /\ RemoveXdpIsReal'
    <3>1. CASE xdp' = Prog("vtl", "skb", obj) /\ Show("xdp deployed")
      BY <3>1 DEF DeployIsReal, RemoveXdpIsReal, Show, Prog
    <3>2. CASE shown' \in {"none", "failed"}
      BY <3>2 DEF DeployIsReal, RemoveXdpIsReal
    <3>3. CASE xdp' = (IF xdp.mode = "skb" THEN NoProg ELSE xdp) /\ Show("xdp removed")
      <4>1. loads \in Nat /\ xdp \in HookTypes(loads)
        BY Types DEF IInv
      <4>2. xdp.kind = "vtl" => xdp.mode = "skb"
        BY <4>1, HookShape
      <4>3. NoProg.kind # "vtl"
        BY DEF NoProg
      <4>4. xdp'.kind # "vtl"
        BY <3>3, <4>2, <4>3
      <4> QED
        BY <3>3, <4>4 DEF DeployIsReal, RemoveXdpIsReal, Show
    <3> QED
      BY <2>2, <3>1, <3>2, <3>3 DEF Fail
  <2> QED
    BY <1>1, <2>3, <2>4, <2>5, SocketsKept DEF IInv
<1> QED
  BY <1>2, <1>3

\* launcher__deploy_tc and launcher__remove_tc: the filter is added to a qdisc
\* that was added before, whatever became of the deletion.
LEMMA TcStep ==
  ASSUME IInv, tc_qdisc_del \/ tc_qdisc_add \/ tc_filter_add \/ tc_remove_egress
  PROVE  IInv'
<1>1. UNCHANGED <<xdp, loads, entry, app, seen, index, obj>> /\ shown = "none"
  BY DEF tc_qdisc_del, tc_qdisc_add, tc_filter_add, tc_remove_egress, xsks, IInv, Lines
<1>2. \/ pc' = "tc_add" /\ shown' = "none"
      \/ pc' = "tc_filter" /\ shown' = "none"
      \/ pc' = "menu" /\ shown' \in {"tc deployed", "tc removed"}
      \/ pc' = "exit" /\ shown' = "failed"
  BY <1>1 DEF tc_qdisc_del, tc_qdisc_add, tc_filter_add, tc_remove_egress, Show, Fail
<1>3. /\ clsact' \in BOOLEAN /\ filter' \in BOOLEAN
      /\ filter' => clsact'
      /\ pc' = "tc_filter" => clsact'
      /\ shown' = "tc deployed" => clsact' /\ filter'
  <2>1. CASE tc_qdisc_del
    <3>1. clsact \in BOOLEAN /\ filter \in BOOLEAN /\ (filter => clsact)
      BY DEF IInv, TypeOK
    <3>2. /\ \/ clsact' = FALSE /\ filter' = FALSE
             \/ clsact' = clsact /\ filter' = filter
          /\ pc' \in {"tc_add", "exit"} /\ shown' # "tc deployed"
      BY <1>1, <2>1 DEF tc_qdisc_del, Fail
    <3>3. CASE clsact' = FALSE /\ filter' = FALSE
      BY <3>2, <3>3
    <3>4. CASE clsact' = clsact /\ filter' = filter
      BY <3>1, <3>2, <3>4
    <3> QED
      BY <3>2, <3>3, <3>4
  <2>2. CASE tc_qdisc_add
    BY <2>2 DEF tc_qdisc_add, Fail, IInv, TypeOK, Lines
  <2>3. CASE tc_filter_add
    BY <2>3 DEF tc_filter_add, Show, Fail, IInv, TypeOK, Lines
  <2>4. CASE tc_remove_egress
    <3>1. clsact \in BOOLEAN /\ filter \in BOOLEAN /\ (filter => clsact)
      BY DEF IInv, TypeOK
    <3>2. /\ clsact' = clsact
          /\ filter' = FALSE \/ filter' = filter
          /\ pc' \in {"menu", "exit"} /\ shown' # "tc deployed"
      BY <2>4 DEF tc_remove_egress, Show, Fail
    <3>3. CASE filter' = FALSE
      BY <3>1, <3>2, <3>3
    <3>4. CASE filter' = filter
      BY <3>1, <3>2, <3>4
    <3> QED
      BY <3>2, <3>3, <3>4
  <2> QED
    BY <2>1, <2>2, <2>3, <2>4
<1>4. TypeOK'
  BY <1>1, <1>2, <1>3 DEF IInv, TypeOK
<1>5. Lines'
  BY <1>1, <1>2, <1>3 DEF Lines
<1>6. DeployIsReal' /\ RemoveXdpIsReal'
  BY <1>2, <1>3 DEF DeployIsReal, RemoveXdpIsReal
<1> QED
  BY <1>1, <1>4, <1>5, <1>6, SocketsKept DEF IInv

-----------------------------------------------------------------------------
(* Applications.                                                           *)

\* What an application does to the interface: nothing, or libbpf's default
\* program, with the newest map, replaces the one there is.
LEMMA HookStep ==
  ASSUME IInv, UNCHANGED <<clsact, filter, dash>>, loads' \in 0 .. MaxLoads,
         \/ UNCHANGED <<xdp, loads>>
         \/ loads' = loads + 1 /\ xdp' = Prog("default", "skb", loads')
  PROVE  /\ Lines' /\ DeployIsReal' /\ RemoveXdpIsReal' /\ loads <= loads'
         /\ xdp' \in HookTypes(loads')
         /\ obj' \in 0 .. loads'
<1> USE LauncherAssumption
<1>1. loads <= loads' /\ obj' \in 0 .. loads'
  BY Types DEF IInv, dash
<1>2. Lines'
  BY DEF IInv, Lines, dash
<1>3. CASE UNCHANGED <<xdp, loads>>
  <2>1. DeployIsReal' /\ RemoveXdpIsReal'
    BY <1>3 DEF IInv, DeployIsReal, RemoveXdpIsReal, dash
  <2> QED
    BY <1>1, <1>2, <1>3, <2>1, Types DEF IInv
<1>4. CASE loads' = loads + 1 /\ xdp' = Prog("default", "skb", loads')
  <2>1. loads' > obj' /\ loads' \in 1 .. loads' /\ loads' \in Nat
    BY <1>4, Types DEF IInv, dash
  <2>2. xdp'.kind = "default" /\ xdp'.map = loads'
    BY <1>4 DEF Prog
  <2>3. DeployIsReal' /\ RemoveXdpIsReal'
    BY <2>1, <2>2 DEF IInv, DeployIsReal, RemoveXdpIsReal, dash
  <2> QED
    BY <1>1, <1>2, <1>4, <2>1, <2>3, HookNew
<1> QED
  BY <1>3, <1>4

\* The types after a step of an application.
LEMMA AppTypes ==
  ASSUME IInv, NEW a \in Apps, UNCHANGED <<clsact, filter, dash>>,
         loads' \in 0 .. MaxLoads,
         \/ UNCHANGED <<xdp, loads>>
         \/ loads' = loads + 1 /\ xdp' = Prog("default", "skb", loads'),
         entry' \in [1 .. MaxLoads -> Apps \cup {NoApp}],
         app' \in [Apps -> {"none", "load", "lookup", "open", "orphan", "closed"}],
         seen' \in [Apps -> 0 .. loads'],
         Sockets', EntryIsActive'
  PROVE  IInv'
<1>1. TypeOK'
  BY ZenonT(60), HookStep DEF IInv, TypeOK, HookTypes, dash
<1> QED
  BY <1>1, HookStep DEF IInv

\* A socket is registered: nobody else has the queue, so the entry it takes
\* over is no open socket's.
LEMMA RegisterStep ==
  ASSUME IInv, NEW a \in Apps, app[a] \in {"load", "lookup"},
         NEW m \in 1 .. MaxLoads, Registered(a, m),
         seen' = [seen EXCEPT ![a] = m]
  PROVE  /\ Sockets' /\ EntryIsActive'
         /\ entry' \in [1 .. MaxLoads -> Apps \cup {NoApp}]
         /\ app' \in [Apps -> {"none", "load", "lookup", "open", "orphan", "closed"}]
<1> USE LauncherAssumption
<1>1. PICK result \in {"open", "orphan"} : app' = [app EXCEPT ![a] = result]
  BY DEF Registered
<1>2. /\ entry' = [entry EXCEPT ![m] = a]
      /\ entry \in [1 .. MaxLoads -> Apps \cup {NoApp}]
      /\ app \in [Apps -> {"none", "load", "lookup", "open", "orphan", "closed"}]
      /\ seen \in [Apps -> 0 .. loads]
  BY DEF Registered, IInv, TypeOK
<1>3. /\ \A b \in Apps : b # a => app[b] = "none" /\ app'[b] = "none"
      /\ app'[a] = result /\ seen'[a] = m /\ entry'[m] = a
  BY <1>1, <1>2 DEF IInv, Sockets
<1>4. \A n \in 1 .. MaxLoads : n # m => entry'[n] = NoApp
  <2> SUFFICES ASSUME NEW n \in 1 .. MaxLoads, n # m, entry[n] # NoApp PROVE FALSE
    BY <1>2
  <2>1. entry[n] \in Apps /\ app[entry[n]] \in {"open", "orphan"}
    BY <1>2 DEF IInv, EntryIsActive
  <2> QED
    BY <1>3, <2>1
<1>5. Sockets'
  BY <1>1, <1>2, <1>3, <1>4 DEF Sockets
<1>6. EntryIsActive'
  BY <1>1, <1>2, <1>3, <1>4 DEF EntryIsActive
<1> QED
  BY <1>1, <1>2, <1>5, <1>6

\* The socket is given up before it was registered.
LEMMA FailedStep ==
  ASSUME IInv, NEW a \in Apps, app[a] \in {"load", "lookup"}, CreateFailed(a),
         \A b \in Apps : b # a => seen'[b] = seen[b]
  PROVE  /\ Sockets' /\ EntryIsActive'
         /\ entry' \in [1 .. MaxLoads -> Apps \cup {NoApp}]
         /\ app' \in [Apps -> {"none", "load", "lookup", "open", "orphan", "closed"}]
<1> USE LauncherAssumption
<1>1. /\ entry' = entry /\ app' = [app EXCEPT ![a] = "none"]
      /\ entry \in [1 .. MaxLoads -> Apps \cup {NoApp}]
      /\ app \in [Apps -> {"none", "load", "lookup", "open", "orphan", "closed"}]
  BY DEF CreateFailed, IInv, TypeOK
<1>2. \A n \in 1 .. MaxLoads : entry[n] # a
  BY <1>1 DEF IInv, EntryIsActive
<1>3. Sockets'
  BY <1>1, <1>2 DEF IInv, Sockets
<1>4. EntryIsActive'
  BY <1>1, <1>2 DEF IInv, EntryIsActive
<1> QED
  BY <1>1, <1>3, <1>4

\* BindSocket: the queue was free.
LEMMA BindStep ==
  ASSUME IInv, NEW a \in Apps, BindSocket(a)
  PROVE  IInv'
<1> USE LauncherAssumption
<1>1. /\ entry' = entry /\ loads' = loads /\ UNCHANGED <<nic, dash>>
      /\ \A b \in Apps : app[b] = "none"
      /\ entry \in [1 .. MaxLoads -> Apps \cup {NoApp}]
      /\ app \in [Apps -> {"none", "load", "lookup", "open", "orphan", "closed"}]
      /\ seen \in [Apps -> 0 .. loads] /\ loads \in 0 .. MaxLoads
  BY DEF BindSocket, Bound, IInv, TypeOK
<1>2. PICK state \in {"load", "lookup"} : app' = [app EXCEPT ![a] = state]
  BY DEF BindSocket
<1>3. xdp.map \in 0 .. loads /\ seen' = [seen EXCEPT ![a] = xdp.map]
  BY Types, HookShape DEF BindSocket, IInv
<1>4. \A n \in 1 .. MaxLoads : entry[n] = NoApp
  BY <1>1 DEF IInv, EntryIsActive
<1>5. Sockets' /\ EntryIsActive'
  BY <1>1, <1>2, <1>3, <1>4 DEF Sockets, EntryIsActive
<1> QED
  BY <1>1, <1>2, <1>3, <1>5, AppTypes DEF nic

\* xsk_load_xdp_prog: the default program's map is a new one.
LEMMA LoadStep ==
  ASSUME IInv, NEW a \in Apps, xsk_load_xdp_prog(a)
  PROVE  IInv'
<1> USE LauncherAssumption
<1>1. /\ seen \in [Apps -> 0 .. loads] /\ loads \in 0 .. MaxLoads
      /\ app[a] \in {"load", "lookup"} /\ UNCHANGED <<clsact, filter, dash>>
  BY DEF xsk_load_xdp_prog, IInv, TypeOK
<1>2. CASE CreateFailed(a) /\ UNCHANGED <<xdp, loads, seen>>
  BY <1>1, <1>2, FailedStep, AppTypes
<1>3. CASE /\ loads < MaxLoads
           /\ loads' = loads + 1
           /\ xdp' = Prog("default", "skb", loads')
           /\ seen' = [seen EXCEPT ![a] = loads']
           /\ Registered(a, loads') \/ CreateFailed(a)
  <2>1. loads' \in 1 .. MaxLoads /\ seen' \in [Apps -> 0 .. loads']
    BY <1>1, <1>3
  <2>2. \A b \in Apps : b # a => seen'[b] = seen[b]
    BY <1>1, <1>3
  <2>3. CASE Registered(a, loads')
    <3>1. /\ Sockets' /\ EntryIsActive'
          /\ entry' \in [1 .. MaxLoads -> Apps \cup {NoApp}]
          /\ app' \in [Apps -> {"none", "load", "lookup", "open", "orphan", "closed"}]
      BY <1>1, <1>3, <2>1, <2>3, RegisterStep
    <3>2. loads' \in 0 .. MaxLoads
      BY <1>1, <1>3, <2>1
    <3> QED
      BY <1>1, <1>3, <2>1, <3>1, <3>2, AppTypes
  <2>4. CASE CreateFailed(a)
    BY <1>1, <1>3, <2>1, <2>2, <2>4, FailedStep, AppTypes
  <2> QED
    BY <1>3, <2>3, <2>4
<1> QED
  BY <1>2, <1>3 DEF xsk_load_xdp_prog

\* xsk_lookup_bpf_maps: the map of the program that was seen, replaced since
\* or not.
LEMMA LookupStep ==
  ASSUME IInv, NEW a \in Apps, xsk_lookup_bpf_maps(a)
  PROVE  IInv'
<1> USE LauncherAssumption
<1>1. /\ seen \in [Apps -> 0 .. loads] /\ loads \in 0 .. MaxLoads
      /\ app[a] \in {"load", "lookup"} /\ UNCHANGED <<xdp, clsact, filter, loads, seen, dash>>
  BY DEF xsk_lookup_bpf_maps, nic, IInv, TypeOK
<1>2. CASE CreateFailed(a)
  BY <1>1, <1>2, FailedStep, AppTypes
<1>3. CASE seen[a] # 0 /\ Registered(a, seen[a])
  <2>1. seen[a] \in 1 .. MaxLoads /\ seen' = [seen EXCEPT ![a] = seen[a]]
    BY <1>1, <1>3
  <2> QED
    BY <1>1, <1>3, <2>1, RegisterStep, AppTypes
<1> QED
  BY <1>2, <1>3 DEF xsk_lookup_bpf_maps

\* vtl_close_socket and AppExit: the application's entry is gone with its
\* socket, nobody else's is touched.
LEMMA CloseStep ==
  ASSUME IInv, NEW a \in Apps, vtl_close_socket(a) \/ AppExit(a)
  PROVE  IInv'
<1> USE LauncherAssumption
<1>1. /\ entry \in [1 .. MaxLoads -> Apps \cup {NoApp}]
      /\ app \in [Apps -> {"none", "load", "lookup", "open", "orphan", "closed"}]
      /\ seen \in [Apps -> 0 .. loads] /\ loads \in 0 .. MaxLoads
      /\ UNCHANGED <<xdp, clsact, filter, loads, seen, dash>>
  BY DEF vtl_close_socket, AppExit, nic, IInv, TypeOK
<1>2. PICK state \in {"none", "closed"} : app' = [app EXCEPT ![a] = state]
  BY DEF vtl_close_socket, AppExit
<1>3. app[a] # "none" /\ \A b \in Apps : b # a => app[b] = "none" /\ app'[b] = "none"
  BY <1>1, <1>2 DEF vtl_close_socket, AppExit, IInv, Sockets
<1>4. entry' \in [1 .. MaxLoads -> Apps \cup {NoApp}]
        /\ \A n \in 1 .. MaxLoads : entry'[n] = NoApp
  <2>1. \A n \in 1 .. MaxLoads : entry[n] # NoApp => entry[n] = a /\ n = seen[a]
    <3> SUFFICES ASSUME NEW n \in 1 .. MaxLoads, entry[n] # NoApp
                 PROVE  entry[n] = a /\ n = seen[a]
      OBVIOUS
    <3>1. entry[n] \in Apps /\ app[entry[n]] \in {"open", "orphan"} /\ n = seen[entry[n]]
      BY <1>1 DEF IInv, EntryIsActive, Sockets
    <3> QED
      BY <1>3, <3>1
  <2>2. CASE vtl_close_socket(a)
    BY <1>1, <2>1, <2>2 DEF vtl_close_socket, xsk_socket__delete
  <2>3. CASE AppExit(a)
    BY <1>1, <2>1, <2>3 DEF AppExit
  <2> QED
    BY <2>2, <2>3
<1>5. Sockets' /\ EntryIsActive'
  BY <1>1, <1>2, <1>3, <1>4 DEF Sockets, EntryIsActive
<1> QED
  BY <1>1, <1>2, <1>4, <1>5, AppTypes

-----------------------------------------------------------------------------
\* Every step of the dashboard and of the applications preserves the invariant.
LEMMA Inductive == IInv /\ [Next]_vars => IInv'
<1> SUFFICES ASSUME IInv, [Next]_vars PROVE IInv'
  OBVIOUS
<1>1. CASE UNCHANGED vars
  <2>1. TypeOK'
    BY ZenonT(60), <1>1 DEF IInv, TypeOK, vars, nic, xsks, dash
  <2>2. Lines' /\ DeployIsReal' /\ RemoveXdpIsReal'
    BY <1>1 DEF IInv, Lines, DeployIsReal, RemoveXdpIsReal, vars, nic, xsks, dash
  <2> QED
    BY <1>1, <2>1, <2>2, SocketsKept DEF IInv, vars, nic, xsks, dash
<1>2. CASE Dashboard
  BY <1>2, MenuStep, XdpStep, TcStep DEF Dashboard
<1>3. ASSUME NEW a \in Apps, Application(a) PROVE IInv'
  BY <1>3, BindStep, LoadStep, LookupStep, CloseStep DEF Application
<1> QED
  BY <1>1, <1>2, <1>3 DEF Next

\* The invariant holds in every reachable state.
LEMMA Invariance == Spec => []IInv
BY Initially, Inductive, PTL DEF Spec

\* The types: every map a program or an application refers to was created, and
\* there is no egress filter without its qdisc.
THEOREM TypeCorrect == Spec => []TypeOK
<1>1. IInv => TypeOK
  BY DEF IInv
<1> QED
  BY Invariance, <1>1, PTL

\* What the dashboard shows as deployed is on the interface, whichever step of
\* the helpers failed before and whatever the applications do meanwhile.
THEOREM DeploysReal == Spec => []DeployIsReal
<1>1. IInv => DeployIsReal
  BY DEF IInv
<1> QED
  BY Invariance, <1>1, PTL

\* After a reported removal VTL's program is not on the hook, in either mode.
THEOREM RemovalsReal == Spec => []RemoveXdpIsReal
<1>1. IInv => RemoveXdpIsReal
  BY DEF IInv
<1> QED
  BY Invariance, <1>1, PTL

\* A set entry of any xsks_map is a live socket's and every open socket is in
\* its map, however many programs replaced one another under it.
THEOREM EntriesActive == Spec => []EntryIsActive
<1>1. IInv => EntryIsActive
  BY DEF IInv
<1> QED
  BY Invariance, <1>1, PTL

=============================================================================
