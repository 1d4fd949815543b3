------------------------------ MODULE Launcher ------------------------------
(***************************************************************************)
(* Deployment of transport functions: the dashboard (dashboard.c) drives   *)
(* the launcher (launcher.c), which attaches VTL's XDP program and TC      *)
(* egress filter to one interface through xdp_user_helpers.c and           *)
(* tc_user_helpers.c.  Next to it, applications open and close VTL sockets *)
(* on the interface; libbpf's xsk_setup_xdp_prog registers such a socket   *)
(* in the map of the XDP program it finds, or attaches a default program.  *)
(*                                                                         *)
(* Only the control is kept: a program is its kind, mode and xsks_map.     *)
(***************************************************************************)
EXTENDS Integers, FiniteSets

CONSTANTS Apps,      \* processes that open a VTL socket on the interface
          NoApp,     \* an empty entry of an xsks_map
          MaxLoads   \* bound: XDP programs loaded in a run

ASSUME LauncherAssumption == NoApp \notin Apps /\ MaxLoads \in Nat

BASIC_TF == 1
ARQ_TF   == 2
Garbage  == 3   \* any other value of the uninitialised tf.index

\* What is attached to the XDP hook; the two modes exclude each other.
NoProg == [kind |-> "none", mode |-> "skb", map |-> 0]
Prog(kind, mode, map) == [kind |-> kind, mode |-> mode, map |-> map]

VARIABLES
  xdp,           \* program on the interface's XDP hook
  clsact,        \* the clsact qdisc is there ...
  filter,        \* ... with VTL's egress filter
  loads,         \* xsks_maps created so far
  entry,         \* socket registered in each map, queue 0
  app,           \* where each application is ...
  seen,          \* ... and the map of the program its libbpf found
  pc, index,     \* the dashboard's line and tf.index ...
  obj,           \* ... and the map of the object file it has loaded
  shown          \* outcome of the last operation the user was shown

nic  == <<xdp, clsact, filter>>
xsks == <<loads, entry, app, seen>>
dash == <<pc, index, obj, shown>>
vars == <<nic, xsks, dash>>

Init ==
  /\ xdp \in {NoProg, Prog("foreign", "drv", 0), Prog("foreign", "skb", 0)}
  /\ clsact \in BOOLEAN /\ filter = FALSE
  /\ loads = 0 /\ entry = [m \in 1 .. MaxLoads |-> NoApp]
  /\ app = [a \in Apps |-> "none"] /\ seen = [a \in Apps |-> 0]
  /\ pc = "menu" /\ index \in {BASIC_TF, ARQ_TF, Garbage}
  /\ obj = 0 /\ shown = "none"

\* The dashboard shows an outcome and waits for a key ...
Show(outcome) == pc' = "menu" /\ shown' = outcome
\* ... or leaves its loop after a negative return value.
Fail == pc' = "exit" /\ shown' = "failed"

-----------------------------------------------------------------------------
(* dashboard.c: main's menu.                                               *)

\* Choice 1: the function, the mode and the interface are asked for.
ChooseDeploy ==
  /\ pc = "menu"
  /\ \E i \in {BASIC_TF, ARQ_TF}, mode \in {"input", "output"} :
       /\ index' = i
       /\ \/ i = ARQ_TF /\ Fail
          \/ i = BASIC_TF /\ shown' = "none"
             /\ pc' = IF mode = "input" THEN "xdp_load" ELSE "tc_dev"
  /\ UNCHANGED <<nic, xsks, obj>>

\* Choice 2: only the mode and the interface; tf.index is what it was.
ChooseRemove ==
  /\ pc = "menu"
  /\ \E mode \in {"input", "output"} :
       \/ index # BASIC_TF /\ Fail
       \/ index = BASIC_TF /\ shown' = "none"
          /\ pc' = IF mode = "input" THEN "xdp_detach" ELSE "tc_remove"
  /\ UNCHANGED <<nic, xsks, index, obj>>

\* Choice 3, or a failure to list the devices: the program ends, and nothing
\* is removed.
ChooseExit ==
  /\ pc = "menu"
  /\ pc' = "exit" /\ shown' = "none"
  /\ UNCHANGED <<nic, xsks, index, obj>>

\* The user starts the dashboard again; tf is on its stack, not initialised.
Restart ==
  /\ pc = "exit"
  /\ pc' = "menu" /\ shown' = "none"
  /\ index' \in {BASIC_TF, ARQ_TF, Garbage}
  /\ UNCHANGED <<nic, xsks, obj>>

-----------------------------------------------------------------------------
(* launcher__deploy_xdp_xsk.                                               *)

\* bpf_set_link_xdp_fd(ifindex, fd, mode) (external): refused while a program
\* is attached in the other mode.
Refused(mode) == xdp.kind # "none" /\ xdp.mode # mode

\* The object file is loaded, with a map of its own (reuse_maps is false).
load_xdp_object_file ==
  /\ pc = "xdp_load"
  /\ \/ loads < MaxLoads /\ loads' = loads + 1 /\ obj' = loads'
        /\ pc' = "xdp_attach" /\ UNCHANGED shown
     \/ Fail /\ UNCHANGED <<loads, obj>>
  /\ UNCHANGED <<nic, entry, app, seen, index>>

\* Mutant: a refusal is taken for success.
xdp_link_attach_blind ==
  /\ pc = "xdp_attach"
  /\ xdp' = IF Refused("skb") THEN xdp ELSE Prog("vtl", "skb", obj)
  /\ Show("xdp deployed")
  /\ UNCHANGED <<clsact, filter, xsks, index, obj>>

\* xdp_link_attach, first attempt: it replaces whatever the skb hook has; on
\* EEXIST the program of the other mode has to go.  The look for xsks_map after
\* the attach cannot fail: the object of bpf_xdp.c was loaded with that map.
xdp_link_attach ==
  /\ pc = "xdp_attach"
  /\ \/ Refused("skb") /\ pc' = "xdp_swap" /\ UNCHANGED <<xdp, shown>>
     \/ ~Refused("skb") /\ xdp' = Prog("vtl", "skb", obj) /\ Show("xdp deployed")
     \/ Fail /\ UNCHANGED xdp
  /\ UNCHANGED <<clsact, filter, xsks, index, obj>>

\* The program of the opposite mode is unloaded ...
SwapMode ==
  /\ pc = "xdp_swap"
  /\ \/ xdp' = (IF xdp.mode = "drv" THEN NoProg ELSE xdp) /\ pc' = "xdp_retry"
        /\ UNCHANGED shown
     \/ Fail /\ UNCHANGED xdp
  /\ UNCHANGED <<clsact, filter, xsks, index, obj>>

\* ... and the attach tried once more.
RetryAttach ==
  /\ pc = "xdp_retry"
  /\ \/ ~Refused("skb") /\ xdp' = Prog("vtl", "skb", obj) /\ Show("xdp deployed")
     \/ Fail /\ UNCHANGED xdp
  /\ UNCHANGED <<clsact, filter, xsks, index, obj>>

\* Mutant: the hook is reported empty without a look at it.
xdp_link_detach_blind ==
  /\ pc = "xdp_detach"
  /\ Show("xdp removed")
  /\ UNCHANGED <<nic, xsks, index, obj>>

\* launcher__remove_xdp: xdp_link_detach with no expected program removes any
\* program of the skb hook.
xdp_link_detach ==
  /\ pc = "xdp_detach"
  /\ \/ /\ xdp' = IF xdp.mode = "skb" THEN NoProg ELSE xdp
        /\ Show("xdp removed")
     \/ Fail /\ UNCHANGED xdp
  /\ UNCHANGED <<clsact, filter, xsks, index, obj>>

-----------------------------------------------------------------------------
(* launcher__deploy_tc and launcher__remove_tc, one tc command per step.   *)

\* if_nametoindex fails for a name that is no device.
CheckDevice ==
  /\ pc = "tc_dev"
  /\ \/ pc' = "tc_del" /\ UNCHANGED shown
     \/ Fail
  /\ UNCHANGED <<nic, xsks, index, obj>>

\* Mutant: the filter is added without a new qdisc.
tc_qdisc_del_direct ==
  /\ pc = "tc_del"
  /\ clsact' = FALSE /\ filter' = FALSE /\ pc' = "tc_filter"
  /\ UNCHANGED <<xdp, xsks, index, obj, shown>>

\* qdisc del: its exit status does not matter, not being run does.
tc_qdisc_del ==
  /\ pc = "tc_del"
  /\ \/ clsact' = FALSE /\ filter' = FALSE /\ pc' = "tc_add" /\ UNCHANGED shown
     \/ UNCHANGED <<clsact, filter>> /\ pc' = "tc_add" /\ UNCHANGED shown
     \/ UNCHANGED <<clsact, filter>> /\ Fail
  /\ UNCHANGED <<xdp, xsks, index, obj>>

\* qdisc add: refused when the qdisc is still there.
tc_qdisc_add ==
  /\ pc = "tc_add"
  /\ \/ ~clsact /\ clsact' = TRUE /\ pc' = "tc_filter" /\ UNCHANGED shown
     \/ UNCHANGED clsact /\ Fail
  /\ UNCHANGED <<xdp, filter, xsks, index, obj>>

tc_filter_add ==
  /\ pc = "tc_filter"
  /\ \/ filter' = TRUE /\ Show("tc deployed")
     \/ UNCHANGED filter /\ Fail
  /\ UNCHANGED <<xdp, clsact, xsks, index, obj>>

\* tc_remove_egress; launcher__remove_tc ignores whether it worked.
tc_remove_egress ==
  /\ pc = "tc_remove"
  /\ \/ filter' = FALSE /\ Show("tc removed")
     \/ UNCHANGED filter /\ Show("tc removed")
     \/ UNCHANGED filter /\ Fail   \* not a device
  /\ UNCHANGED <<xdp, clsact, xsks, index, obj>>

-----------------------------------------------------------------------------
(* Applications: vtl_create_socket and vtl_close_socket.                   *)

\* The interface's queue is bound, by a socket in use or by one whose
\* descriptor vtl_close_socket left open.
Bound == \E b \in Apps : app[b] # "none"

\* xsk_socket__create binds the socket, then asks for the program on the hook:
\* with one mode in use the kernel's answer is that program, whichever mode.
BindSocket(a) ==
  /\ app[a] = "none" /\ ~Bound
  /\ app' = [app EXCEPT ![a] = IF xdp.kind = "none" THEN "load" ELSE "lookup"]
  /\ seen' = [seen EXCEPT ![a] = xdp.map]
  /\ UNCHANGED <<nic, loads, entry, dash>>

\* Once the socket is in the map xsk_configure_socket asks for the program once
\* more; should that fail, vtl_create_socket returns NULL and nobody can close
\* the socket any more.
Registered(a, m) ==
  /\ entry' = [entry EXCEPT ![m] = a]
  /\ \E result \in {"open", "orphan"} : app' = [app EXCEPT ![a] = result]

\* The umem is deleted and its descriptor, the socket, closed with it.
CreateFailed(a) == app' = [app EXCEPT ![a] = "none"] /\ UNCHANGED entry

\* No program was seen: libbpf's default one, with its own map, is attached
\* over whatever the hook has by now.  It stays when the map update fails.
xsk_load_xdp_prog(a) ==
  /\ app[a] = "load"
  /\ \/ /\ ~Refused("skb") /\ loads < MaxLoads
        /\ loads' = loads + 1
        /\ xdp' = Prog("default", "skb", loads')
        /\ seen' = [seen EXCEPT ![a] = loads']
        /\ Registered(a, loads') \/ CreateFailed(a)
     \/ CreateFailed(a) /\ UNCHANGED <<xdp, loads, seen>>
  /\ UNCHANGED <<clsact, filter, dash>>

\* A program was seen: the socket goes into its xsks_map, if it has one and
\* the program was not freed meanwhile.
xsk_lookup_bpf_maps(a) ==
  /\ app[a] = "lookup"
  /\ (seen[a] # 0 /\ Registered(a, seen[a])) \/ CreateFailed(a)
  /\ UNCHANGED <<nic, loads, seen, dash>>

\* Mutant: the map entry stays.
xsk_socket__delete_map(a) == UNCHANGED entry

\* xsk_socket__delete empties the queue's entry of the map the socket was put
\* in, whoever is there; the program stays attached.
xsk_socket__delete(a) == entry' = [entry EXCEPT ![seen[a]] = NoApp]

\* xsk_umem__delete is given NULL: the descriptor stays open, the queue bound.
vtl_close_socket(a) ==
  /\ app[a] = "open"
  /\ xsk_socket__delete(a)
  /\ app' = [app EXCEPT ![a] = "closed"]
  /\ UNCHANGED <<nic, loads, seen, dash>>

\* The process ends, wherever it is; the kernel closes what it left open and
\* takes its socket out of the maps.
AppExit(a) ==
  /\ app[a] # "none"
  /\ entry' = [m \in DOMAIN entry |-> IF entry[m] = a THEN NoApp ELSE entry[m]]
  /\ app' = [app EXCEPT ![a] = "none"]
  /\ UNCHANGED <<nic, loads, seen, dash>>

-----------------------------------------------------------------------------
\* What the attached program does with a packet of the queue: too short for
\* the headers, of another protocol, or VTL's.
xdp_sock_prog(packet) ==
  CASE packet = "short" -> "drop"
    [] packet = "other" -> "pass"
    [] packet = "vtl"   -> IF entry[xdp.map] # NoApp THEN "redirect" ELSE "pass"

Verdict(packet) ==
  IF xdp.kind = "vtl" THEN xdp_sock_prog(packet)
  ELSE IF xdp.kind = "default" /\ entry[xdp.map] # NoApp THEN "redirect"
  ELSE "pass"

Dashboard == \/ ChooseDeploy \/ ChooseRemove \/ ChooseExit \/ Restart
             \/ load_xdp_object_file \/ xdp_link_attach \/ SwapMode \/ RetryAttach
             \/ xdp_link_detach \/ CheckDevice \/ tc_qdisc_del \/ tc_qdisc_add
             \/ tc_filter_add \/ tc_remove_egress

Application(a) == \/ BindSocket(a) \/ xsk_load_xdp_prog(a) \/ xsk_lookup_bpf_maps(a)
                  \/ vtl_close_socket(a) \/ AppExit(a)

Next == Dashboard \/ \E a \in Apps : Application(a)

Spec == Init /\ [][Next]_vars

-----------------------------------------------------------------------------
\* Types; every map in use was created, and only the skb hook ever carries a
\* program of VTL or libbpf.
TypeOK ==
  /\ xdp \in {NoProg} \cup [kind : {"foreign"}, mode : {"skb", "drv"}, map : {0}]
           \cup [kind : {"vtl", "default"}, mode : {"skb"}, map : 1 .. loads]
  /\ clsact \in BOOLEAN /\ filter \in BOOLEAN /\ (filter => clsact)
  /\ loads \in 0 .. MaxLoads
  /\ entry \in [1 .. MaxLoads -> Apps \cup {NoApp}]
  /\ app \in [Apps -> {"none", "load", "lookup", "open", "orphan", "closed"}]
  /\ seen \in [Apps -> 0 .. loads]
  /\ pc \in {"menu", "exit", "xdp_load", "xdp_attach", "xdp_swap", "xdp_retry",
             "xdp_detach", "tc_dev", "tc_del", "tc_add", "tc_filter", "tc_remove"}
  /\ index \in {BASIC_TF, ARQ_TF, Garbage} /\ obj \in 0 .. loads
  /\ shown \in {"none", "failed", "xdp deployed", "xdp removed", "tc deployed",
                "tc removed"}

\* What the dashboard calls a success is one, whichever step of which helper
\* failed on the way: VTL's program or filter is on the interface, unless an
\* application's default program, loaded later, has replaced it.
DeployIsReal ==
  /\ shown = "xdp deployed" =>
       xdp.kind = "vtl" \/ (xdp.kind = "default" /\ xdp.map > obj)
  /\ shown = "tc deployed" => clsact /\ filter

\* A reported removal of the XDP function leaves no VTL program behind.
RemoveXdpIsReal == shown = "xdp removed" => xdp.kind # "vtl"

\* bpf_xdp.c: a set entry of xsks_map "means that the correspnding queue_id has
\* an active AF_XDP socket bound to it", and every open socket is in the map it
\* was registered in, also after programs and maps were replaced under the
\* applications' sockets.
EntryIsActive ==
  /\ \A m \in DOMAIN entry : entry[m] # NoApp => app[entry[m]] \in {"open", "orphan"}
  /\ \A a \in Apps : app[a] = "open" => entry[seen[a]] = a

\* README.md, Processing Incoming Packets: the XDP program passes VTL's packets
\* "to the VTL data path".  With the function just deployed and a socket open
\* that is the socket, whichever program has the hook by then.
DeployedServesSocket ==
  shown = "xdp deployed" /\ (\E a \in Apps : app[a] = "open")
    => Verdict("vtl") = "redirect"

=============================================================================
