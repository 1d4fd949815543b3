---------------------------- MODULE HookerProofs ----------------------------
(***************************************************************************)
(* Proofs about the Hooker for every set of addresses and every size of    *)
(* its maps.  The inductive invariant has two parts: what the BPF programs *)
(* keep true of the maps (MapInv), and where main is when hooks and        *)
(* threads are in place (Stage).  That the maps stay within max_entries    *)
(* rests on it: sock_redir goes into SOCK_MAP while it is still empty.     *)
(***************************************************************************)
EXTENDS Hooker, FiniteSetTheorems, TLAPS

Maps == [Keys -> 0 .. cookies]

Full == Cardinality(Entries(COOKIE_MAP)) = LEGMAP_SIZE

\* A socket without a cookie is there only because COOKIE_MAP was full.
MapInv ==
  /\ cookies \in Nat
  /\ conn \in Maps /\ SOCK_MAP \in Maps /\ COOKIE_MAP \in Maps
  /\ CookieIsCurrent
  /\ Cardinality(Entries(COOKIE_MAP)) <= LEGMAP_SIZE
  /\ \A k \in Keys : SOCK_MAP[k] # 0 /\ COOKIE_MAP[k] = 0 => Full

Early == {"load", "cgroup", "init_sock", "attach_redir", "add_redir", "attach_monitor"}

\* A monitor that main leaves behind is one whose detach was refused, and then
\* its verdict program and SOCK_MAP stay with it.
Stage ==
  /\ monitor \in BOOLEAN /\ verdict \in BOOLEAN
  /\ pc \in Early => ~monitor /\ SOCK_MAP = Empty /\ dropped = {}
  /\ pc \in {"close", "out"} /\ monitor => refused = TRUE
  /\ pc = "out" /\ ~monitor => ~verdict /\ SOCK_MAP = Empty
  /\ pc \in {"load", "cgroup", "init_sock", "attach_redir"} => ~verdict
  /\ pc \in {"add_redir", "attach_monitor"} => verdict = TRUE
  /\ sndRunning \/ rcvRunning => pc \notin Early
  /\ monitor => verdict

IInv == MapInv /\ Stage /\ DropOnlyWhenFull

\* The number of entries of a map, and of a map with one more.
LEMMA EntriesAdd ==
  ASSUME NEW map, NEW k
  PROVE  /\ Cardinality(Entries(map)) \in Nat
         /\ Cardinality(Entries(map) \cup {k}) =
              IF k \in Entries(map) THEN Cardinality(Entries(map))
                                    ELSE Cardinality(Entries(map)) + 1
<1>1. Entries(map) \subseteq Keys /\ IsFiniteSet(Keys)
  BY HookerAssumption DEF Entries
<1>2. IsFiniteSet(Entries(map))
  BY <1>1, FS_Subset
<1> QED
  BY <1>2, FS_CardinalityType, FS_AddElement

\* The empty map has no entries.
LEMMA EmptyEntries == Entries(Empty) = {} /\ Cardinality(Entries(Empty)) = 0
<1>1. Entries(Empty) = {}
  BY DEF Entries, Empty
<1> QED
  BY <1>1, FS_EmptySet

\* legapp_register keeps the maps consistent, and a full map full.
LEMMA Registering ==
  ASSUME MapInv, NEW k \in Keys, conn[k] = 0,
         cookies' = cookies + 1, conn' = [conn EXCEPT ![k] = cookies'],
         legapp_register(k, cookies')
  PROVE  MapInv' /\ (Full => Full')
<1>0. PICK v : v = cookies'
  OBVIOUS
<1>1. cookies \in Nat /\ v \in Nat \ {0} /\ v = cookies + 1 /\ LEGMAP_SIZE \in Nat
  BY <1>0, HookerAssumption DEF MapInv
<1>2. conn \in [Keys -> 0 .. cookies] /\ SOCK_MAP \in [Keys -> 0 .. cookies]
      /\ COOKIE_MAP \in [Keys -> 0 .. cookies]
  BY DEF MapInv, Maps
<1>3. SOCK_MAP[k] = 0
  BY DEF MapInv, CookieIsCurrent
<1>4. COOKIE_MAP' = (IF CookieRoom(k) THEN [COOKIE_MAP EXCEPT ![k] = v] ELSE COOKIE_MAP)
      /\ SOCK_MAP' = (IF SockRoom(k) THEN [SOCK_MAP EXCEPT ![k] = v] ELSE SOCK_MAP)
  BY <1>0 DEF legapp_register
<1>5. conn' \in [Keys -> 0 .. v] /\ SOCK_MAP' \in [Keys -> 0 .. v]
      /\ COOKIE_MAP' \in [Keys -> 0 .. v]
  <2>1. conn' = [conn EXCEPT ![k] = v]
    BY <1>0
  <2>2. v \in 0 .. v /\ \A i \in 0 .. cookies : i \in 0 .. v
    BY <1>1
  <2> QED
    BY <1>2, <1>4, <2>1, <2>2
<1>6. /\ Cardinality(Entries(COOKIE_MAP)) \in Nat
      /\ COOKIE_MAP[k] # 0 => Cardinality(Entries([COOKIE_MAP EXCEPT ![k] = v]))
                                = Cardinality(Entries(COOKIE_MAP))
      /\ COOKIE_MAP[k] = 0 => Cardinality(Entries([COOKIE_MAP EXCEPT ![k] = v]))
                                = Cardinality(Entries(COOKIE_MAP)) + 1
  <2>1. Entries([COOKIE_MAP EXCEPT ![k] = v]) = Entries(COOKIE_MAP) \cup {k}
    BY <1>1, <1>2 DEF Entries
  <2>2. k \in Entries(COOKIE_MAP) <=> COOKIE_MAP[k] # 0
    BY DEF Entries
  <2>3. /\ Cardinality(Entries(COOKIE_MAP)) \in Nat
        /\ Cardinality(Entries(COOKIE_MAP) \cup {k}) =
             IF k \in Entries(COOKIE_MAP) THEN Cardinality(Entries(COOKIE_MAP))
                                          ELSE Cardinality(Entries(COOKIE_MAP)) + 1
    BY EntriesAdd
  <2> QED
    BY <2>1, <2>2, <2>3
<1>7. Cardinality(Entries(COOKIE_MAP)) <= LEGMAP_SIZE
  BY DEF MapInv
<1>8. Cardinality(Entries(COOKIE_MAP')) <= LEGMAP_SIZE /\ (Full => Full')
  <2>1. CASE CookieRoom(k)
    <3>1. COOKIE_MAP' = [COOKIE_MAP EXCEPT ![k] = v]
      BY <1>4, <2>1
    <3> QED
      BY <1>1, <1>6, <1>7, <2>1, <3>1 DEF CookieRoom, Full
  <2>2. CASE ~CookieRoom(k)
    <3>1. COOKIE_MAP' = COOKIE_MAP
      BY <1>4, <2>2
    <3> QED
      BY <1>7, <3>1 DEF Full
  <2> QED
    BY <2>1, <2>2
<1>9. ~CookieRoom(k) => COOKIE_MAP[k] = 0 /\ Full
  BY <1>1, <1>6, <1>7 DEF CookieRoom, Full
<1>10. CookieIsCurrent'
  <2> SUFFICES ASSUME NEW j \in Keys, SOCK_MAP'[j] # 0
               PROVE  SOCK_MAP'[j] = conn'[j] /\ COOKIE_MAP'[j] \in {0, conn'[j]}
    BY DEF CookieIsCurrent
  <2>1. CASE j = k
    <3>1. SOCK_MAP'[k] = v /\ conn'[k] = v
      BY <1>2, <1>3, <1>4, <1>0, <2>1
    <3>2. COOKIE_MAP'[k] \in {0, v}
      BY <1>2, <1>4, <1>9
    <3> QED
      BY <2>1, <3>1, <3>2
  <2>2. CASE j # k
    <3>1. SOCK_MAP'[j] = SOCK_MAP[j] /\ COOKIE_MAP'[j] = COOKIE_MAP[j] /\ conn'[j] = conn[j]
      BY <1>2, <1>4, <2>2
    <3> QED
      BY <3>1 DEF MapInv, CookieIsCurrent
  <2> QED
    BY <2>1, <2>2
<1>11. \A j \in Keys : SOCK_MAP'[j] # 0 /\ COOKIE_MAP'[j] = 0 => Full'
  <2> SUFFICES ASSUME NEW j \in Keys, SOCK_MAP'[j] # 0, COOKIE_MAP'[j] = 0
               PROVE  Full'
    OBVIOUS
  <2>1. CASE j = k
    <3>1. ~CookieRoom(k)
      BY <1>1, <1>2, <1>4, <2>1
    <3> QED
      BY <1>8, <1>9, <3>1
  <2>2. CASE j # k
    <3>1. SOCK_MAP[j] # 0 /\ COOKIE_MAP[j] = 0
      BY <1>2, <1>4, <2>2
    <3> QED
      BY <1>8, <3>1 DEF MapInv
  <2> QED
    BY <2>1, <2>2
<1> QED
  BY <1>0, <1>1, <1>5, <1>8, <1>10, <1>11 DEF MapInv, Maps

\* Steps that touch neither maps nor connections.
LEMMA MapsKept == MapInv /\ UNCHANGED <<maps, apps>> => MapInv'
  BY DEF MapInv, Maps, maps, apps, CookieIsCurrent, Full, Entries

\* Before main has done anything the maps are empty and nothing is attached.
LEMMA Initially == Init => IInv
<1> SUFFICES ASSUME Init PROVE IInv
  OBVIOUS
<1>1. LEGMAP_SIZE \in Nat
  BY HookerAssumption
<1>2. COOKIE_MAP = Empty /\ SOCK_MAP = Empty /\ conn = Empty /\ cookies = 0
  BY DEF Init
<1>3. Empty \in [Keys -> 0 .. 0] /\ \A k \in Keys : Empty[k] = 0
  BY DEF Empty
<1>4. MapInv
  BY <1>1, <1>2, <1>3, EmptyEntries DEF MapInv, Maps, CookieIsCurrent
<1>5. Stage /\ DropOnlyWhenFull
  BY DEF Init, Stage, DropOnlyWhenFull, Early
<1> QED
  BY <1>4, <1>5 DEF IInv

\* The steps of the Hooker's process.
LEMMA ProcessStep == IInv /\ HookerStep => IInv'
<1> SUFFICES ASSUME IInv, HookerStep PROVE IInv'
  OBVIOUS
<1> USE DEF IInv
<1>1. ASSUME UNCHANGED <<maps, apps, traffic, monitor>>, Stage' PROVE IInv'
  <2>1. MapInv'
    BY <1>1, MapsKept
  <2>2. DropOnlyWhenFull'
    BY <1>1 DEF DropOnlyWhenFull, maps, traffic, Entries
  <2> QED
    BY <1>1, <2>1, <2>2
<1>2. CASE load_bpf_progs \/ get_cgroup_root_fd \/ hooker_init_sock
  <2>1. UNCHANGED <<maps, apps, traffic, monitor>>
    BY <1>2 DEF load_bpf_progs, get_cgroup_root_fd, hooker_init_sock, hooks
  <2>2. /\ pc \in {"load", "cgroup", "init_sock"}
        /\ pc' \in {"cgroup", "init_sock", "attach_redir", "out"}
        /\ UNCHANGED <<sndRunning, rcvRunning, monitor, verdict, SOCK_MAP, dropped>>
    BY <1>2 DEF load_bpf_progs, get_cgroup_root_fd, hooker_init_sock, Goto, hooks,
                maps, traffic
  <2>3. pc \in Early /\ ~monitor /\ ~verdict /\ SOCK_MAP = Empty /\ dropped = {}
        /\ ~sndRunning /\ ~rcvRunning
    BY <2>2 DEF Stage, Early
  <2>4. Stage'
    BY <2>2, <2>3 DEF Stage, Early
  <2> QED
    BY <1>1, <2>1, <2>4
<1>3. CASE AttachRedirect \/ AddRedirSocket
  <2>1. UNCHANGED <<maps, apps, traffic, monitor>>
    BY <1>3 DEF AttachRedirect, AddRedirSocket
  <2>2. /\ pc \in {"attach_redir", "add_redir"}
        /\ \/ pc' = "add_redir" /\ verdict' = TRUE
           \/ pc' = "attach_monitor" /\ verdict' = TRUE
           \/ pc' = "close" /\ verdict' \in {FALSE, verdict}
        /\ UNCHANGED <<sndRunning, rcvRunning, monitor, SOCK_MAP, dropped>>
    BY <1>3 DEF AttachRedirect, AddRedirSocket, DetachRedirect, Goto, maps, traffic, Stage
  <2>3. pc \in Early /\ ~monitor /\ SOCK_MAP = Empty /\ dropped = {}
        /\ ~sndRunning /\ ~rcvRunning
    BY <2>2 DEF Stage, Early
  <2>4. Stage'
    <3>1. CASE pc' = "add_redir" /\ verdict' = TRUE
      BY <2>2, <2>3, <3>1 DEF Stage, Early
    <3>2. CASE pc' = "attach_monitor" /\ verdict' = TRUE
      BY <2>2, <2>3, <3>2 DEF Stage, Early
    <3>3. CASE pc' = "close" /\ verdict' \in {FALSE, verdict}
      BY <2>2, <2>3, <3>3 DEF Stage, Early
    <3> QED
      BY <2>2, <3>1, <3>2, <3>3
  <2> QED
    BY <1>1, <2>1, <2>4
<1>4. CASE AttachMonitor
  <2>1. UNCHANGED <<maps, apps, traffic>> /\ dropped = {}
    BY <1>4 DEF AttachMonitor, Goto, Stage, Early
  <2>2. MapInv'
    BY <2>1, MapsKept
  <2>3. Stage'
    <3>1. /\ pc = "attach_monitor"
          /\ \/ pc' = "create_snd" /\ monitor' = TRUE /\ verdict' = verdict
             \/ pc' = "close" /\ monitor' = monitor /\ verdict' \in {FALSE, verdict}
      BY <1>4 DEF AttachMonitor, DetachRedirect, Goto
    <3>2. verdict = TRUE /\ ~monitor
      BY <3>1 DEF Stage, Early
    <3>3. CASE pc' = "create_snd" /\ monitor' = TRUE /\ verdict' = verdict
      BY <3>2, <3>3 DEF Stage, Early
    <3>4. CASE pc' = "close" /\ monitor' = monitor /\ verdict' \in {FALSE, verdict}
      BY <3>2, <3>4 DEF Stage, Early
    <3> QED
      BY <3>1, <3>3, <3>4
  <2>4. DropOnlyWhenFull'
    BY <2>1 DEF DropOnlyWhenFull, traffic
  <2> QED
    BY <2>2, <2>3, <2>4
<1>5. CASE CreateSendThread \/ CreateRecvThread
  <2>1. UNCHANGED <<maps, apps, traffic, monitor>>
    BY <1>5 DEF CreateSendThread, CreateRecvThread, hooks
  <2>2. Stage'
    BY <1>5 DEF Stage, CreateSendThread, CreateRecvThread, Goto, hooks, maps, traffic, Early
  <2> QED
    BY <1>1, <2>1, <2>2
<1>6. ASSUME Crash PROVE IInv'
  <2>1. MapInv'
    BY <1>6, MapsKept DEF Crash
  <2>2. Stage'
    BY <1>6 DEF Crash, Stage, maps, Early
  <2>3. DropOnlyWhenFull'
    BY <1>6 DEF Crash, DropOnlyWhenFull, maps, Entries
  <2> QED
    BY <2>1, <2>2, <2>3
<1>7. CASE JoinUnstarted
  <2>1. CASE Crash
    BY <1>6, <2>1
  <2>2. CASE \E e \in BOOLEAN : Goto("join", "detach", e)
             /\ UNCHANGED <<sndRunning, rcvRunning, hooks, maps, apps, traffic>>
    <3>1. UNCHANGED <<maps, apps, traffic, monitor>>
      BY <2>2 DEF hooks
    <3>2. Stage'
      BY <2>2 DEF Goto, Stage, hooks, maps, traffic, Early
    <3> QED
      BY <1>1, <3>1, <3>2
  <2> QED
    BY <1>7, <2>1, <2>2 DEF JoinUnstarted
<1>8. CASE DetachMonitor
  <2>1. MapInv'
    BY <1>8, MapsKept DEF DetachMonitor
  <2>2. Stage'
    <3>1. /\ pc = "detach" /\ pc' = "close"
          /\ \/ monitor' = FALSE
             \/ monitor' = monitor /\ refused' = TRUE
          /\ UNCHANGED <<sndRunning, rcvRunning, verdict, SOCK_MAP, dropped>>
      BY <1>8 DEF DetachMonitor, maps, traffic
    <3>2. monitor' \in BOOLEAN
      BY Zenon, <3>1 DEF Stage
    <3>3. monitor' => verdict'
      BY Zenon, <3>1 DEF Stage
    <3> QED
      BY <3>1, <3>2, <3>3 DEF Stage, Early
  <2>3. DropOnlyWhenFull'
    BY <1>8 DEF DetachMonitor, DropOnlyWhenFull, maps, traffic, Entries
  <2> QED
    BY <2>1, <2>2, <2>3
<1>9. CASE CloseAll
  <2>1. CASE monitor
    <3>1. UNCHANGED <<maps, apps, monitor, verdict, refused, dropped, sndRunning, rcvRunning>>
          /\ pc = "close" /\ pc' = "out"
      BY <1>9, <2>1 DEF CloseAll
    <3>2. MapInv'
      BY <3>1, MapsKept
    <3>3. Stage'
      BY <2>1, <3>1 DEF Stage, Early
    <3>4. DropOnlyWhenFull'
      BY <3>1 DEF DropOnlyWhenFull, maps, Entries
    <3> QED
      BY <3>2, <3>3, <3>4
  <2>2. CASE ~monitor
    <3>1. /\ ~monitor' /\ monitor' \in BOOLEAN /\ pc' = "out" /\ verdict' = FALSE
          /\ SOCK_MAP' = Empty /\ COOKIE_MAP' = Empty /\ conn' = conn /\ cookies' = cookies
          /\ UNCHANGED <<sndRunning, rcvRunning>>
      BY <1>9, <2>2 DEF CloseAll, Stage, apps
    <3>2. LEGMAP_SIZE \in Nat
      BY HookerAssumption
    <3>3. Empty \in [Keys -> 0 .. cookies] /\ \A k \in Keys : Empty[k] = 0
      BY DEF Empty, MapInv
    <3>4. MapInv'
      BY <3>1, <3>2, <3>3, EmptyEntries DEF MapInv, Maps, CookieIsCurrent
    <3>5. Stage'
      BY <3>1 DEF Stage, Early
    <3>6. DropOnlyWhenFull'
      BY <3>1 DEF DropOnlyWhenFull
    <3> QED
      BY <3>4, <3>5, <3>6
  <2> QED
    BY <2>1, <2>2
<1>10. CASE hooker__send \/ hooker__recv
  BY <1>6, <1>10 DEF hooker__send, hooker__recv
<1> QED
  BY <1>2, <1>3, <1>4, <1>5, <1>7, <1>8, <1>9, <1>10 DEF HookerStep, MainStep

\* The steps of the applications, with the BPF programs they run.
LEMMA ApplicationStep ==
  ASSUME IInv, NEW k \in Keys, Establish(k) \/ SendMsg(k) \/ CloseSocket(k)
  PROVE  IInv'
<1> USE DEF IInv
<1>1. CASE Establish(k)
  <2>1. /\ conn[k] = 0 /\ cookies' = cookies + 1 /\ conn' = [conn EXCEPT ![k] = cookies']
        /\ UNCHANGED <<pc, sndRunning, rcvRunning, monitor, verdict, refused, dropped>>
    BY <1>1 DEF Establish, process, hooks, traffic
  <2>2. CASE monitor
    <3>1. legapp_register(k, cookies')
      BY <1>1, <2>2 DEF Establish, hooker_monitor
    <3>2. MapInv' /\ (Full => Full')
      BY <2>1, <3>1, Registering
    <3>3. Stage'
      BY <2>1, <2>2 DEF Stage
    <3>4. DropOnlyWhenFull'
      BY <2>1, <3>2 DEF DropOnlyWhenFull, Full
    <3> QED
      BY <3>2, <3>3, <3>4
  <2>3. CASE ~monitor
    <3>1. SOCK_MAP' = SOCK_MAP /\ COOKIE_MAP' = COOKIE_MAP
      BY <1>1, <2>3 DEF Establish, hooker_monitor, maps
    <3>2. cookies' \in Nat /\ \A i \in 0 .. cookies : i \in 0 .. cookies'
      BY <2>1 DEF MapInv
    <3>3. conn' \in Maps' /\ SOCK_MAP' \in Maps' /\ COOKIE_MAP' \in Maps'
      <4>1. cookies' \in 0 .. cookies'
        BY <3>2
      <4> QED
        BY <2>1, <3>1, <3>2, <4>1 DEF MapInv, Maps
    <3>4. CookieIsCurrent'
      <4> SUFFICES ASSUME NEW j \in Keys, SOCK_MAP[j] # 0
                   PROVE  SOCK_MAP[j] = conn'[j] /\ COOKIE_MAP[j] \in {0, conn'[j]}
        BY <3>1 DEF CookieIsCurrent
      <4>1. SOCK_MAP[j] = conn[j] /\ COOKIE_MAP[j] \in {0, conn[j]}
        BY DEF MapInv, CookieIsCurrent
      <4>2. j # k
        BY <2>1, <4>1
      <4> QED
        BY <2>1, <4>1, <4>2 DEF MapInv, Maps
    <3>5. MapInv'
      BY <3>1, <3>2, <3>3, <3>4 DEF MapInv, Full
    <3>6. Stage' /\ DropOnlyWhenFull'
      BY <2>1, <2>3, <3>1 DEF Stage, DropOnlyWhenFull
    <3> QED
      BY <3>5, <3>6
  <2> QED
    BY <2>2, <2>3
<1>2. CASE SendMsg(k)
  <2>1. /\ UNCHANGED <<maps, apps>> /\ conn[k] # 0 /\ SOCK_MAP[k] = conn[k]
        /\ UNCHANGED <<pc, sndRunning, rcvRunning, monitor, verdict, refused>>
    BY <1>2 DEF SendMsg, process, hooks
  <2>2. MapInv'
    BY <2>1, MapsKept
  <2>3. pc \notin Early
    <3>1. SOCK_MAP # Empty
      BY <2>1 DEF Empty
    <3> QED
      BY <3>1 DEF Stage
  <2>4. Stage'
    BY <2>1, <2>3 DEF Stage, maps
  <2>5. dropped' = dropped \/ COOKIE_MAP[k] = 0
    BY <1>2 DEF SendMsg, hooker_redirect, traffic
  <2>6. DropOnlyWhenFull'
    <3>1. COOKIE_MAP[k] = 0 => Full
      BY <2>1 DEF MapInv
    <3> QED
      BY <2>1, <2>5, <3>1 DEF DropOnlyWhenFull, Full, maps
  <2> QED
    BY <2>2, <2>4, <2>6
<1>3. CASE CloseSocket(k)
  <2>1. /\ conn' = [conn EXCEPT ![k] = 0] /\ SOCK_MAP' = [SOCK_MAP EXCEPT ![k] = 0]
        /\ UNCHANGED <<COOKIE_MAP, cookies, pc, sndRunning, rcvRunning>>
        /\ UNCHANGED <<monitor, verdict, refused, dropped>>
    BY <1>3 DEF CloseSocket, process, hooks, traffic
  <2>2. conn' \in Maps' /\ SOCK_MAP' \in Maps' /\ COOKIE_MAP' \in Maps'
    BY <2>1 DEF MapInv, Maps
  <2>3. \A j \in Keys : /\ j = k => SOCK_MAP'[j] = 0
                        /\ j # k => SOCK_MAP'[j] = SOCK_MAP[j] /\ conn'[j] = conn[j]
    BY <2>1 DEF MapInv, Maps
  <2>4. CookieIsCurrent'
    BY <2>1, <2>3 DEF MapInv, CookieIsCurrent
  <2>5. MapInv'
    BY <2>1, <2>2, <2>3, <2>4 DEF MapInv, Full
  <2>6. SOCK_MAP = Empty => SOCK_MAP' = Empty
    BY <2>1 DEF Empty
  <2>7. Stage' /\ DropOnlyWhenFull'
    BY <2>1, <2>6 DEF Stage, DropOnlyWhenFull
  <2> QED
    BY <2>5, <2>7
<1> QED
  BY <1>1, <1>2, <1>3

\* Every step of process, programs and applications keeps the invariant.
LEMMA Inductive == IInv /\ [Next]_vars => IInv'
<1> SUFFICES ASSUME IInv, [Next]_vars PROVE IInv'
  OBVIOUS
<1>1. CASE HookerStep
  BY <1>1, ProcessStep
<1>2. CASE \E k \in Keys : Establish(k) \/ SendMsg(k) \/ CloseSocket(k)
  BY <1>2, ApplicationStep
<1>3. CASE UNCHANGED vars
  <2>1. UNCHANGED <<maps, apps>> /\ UNCHANGED <<pc, sndRunning, rcvRunning, monitor, verdict, refused, dropped>>
    BY <1>3 DEF vars, process, hooks, traffic
  <2>2. MapInv'
    BY <2>1, MapsKept DEF IInv
  <2>3. Stage' /\ DropOnlyWhenFull'
    BY <2>1 DEF IInv, Stage, DropOnlyWhenFull, maps
  <2> QED
    BY <2>2, <2>3 DEF IInv
<1> QED
  BY <1>1, <1>2, <1>3 DEF Next

\* Hence it holds in every state of every run.
LEMMA Invariance == Spec => []IInv
  BY Initially, Inductive, PTL DEF Spec

-----------------------------------------------------------------------------
(* Types and limits.                                                       *)

Flags ==
  /\ pc \in Lines
  /\ err \in BOOLEAN /\ sndRunning \in BOOLEAN /\ rcvRunning \in BOOLEAN
  /\ monitor \in BOOLEAN /\ verdict \in BOOLEAN /\ redir \in BOOLEAN
  /\ refused \in BOOLEAN

\* A queued or dropped message came from a socket that was opened.
Sources == queue \in Seq(1 .. cookies) /\ dropped \subseteq 1 .. cookies

Room == SockEntries <= LEGMAP_SIZE

\* Every line of main leads to a line, and every flag stays one.
LEMMA FlagsKept == Flags /\ [Next]_vars => Flags'
<1> SUFFICES ASSUME Flags, [Next]_vars PROVE Flags'
  OBVIOUS
<1>1. CASE load_bpf_progs \/ get_cgroup_root_fd \/ hooker_init_sock
  <2>1. pc' \in Lines /\ UNCHANGED <<sndRunning, rcvRunning, monitor, verdict, redir, refused>>
    BY <1>1 DEF load_bpf_progs, get_cgroup_root_fd, hooker_init_sock, Goto, hooks, Lines
  <2>2. err' \in BOOLEAN
    BY Zenon, <1>1 DEF load_bpf_progs, get_cgroup_root_fd, hooker_init_sock, Goto
  <2> QED
    BY Zenon, <2>1, <2>2 DEF Flags
<1>2. CASE AttachRedirect \/ AddRedirSocket \/ AttachMonitor
  <2>1. pc' \in Lines /\ UNCHANGED <<sndRunning, rcvRunning>>
    BY <1>2 DEF AttachRedirect, AddRedirSocket, AttachMonitor, Goto, Lines
  <2>2. /\ err' \in BOOLEAN /\ monitor' \in BOOLEAN /\ verdict' \in BOOLEAN
        /\ redir' \in BOOLEAN /\ refused' \in BOOLEAN
    <3>1. CASE AttachRedirect
      BY Zenon, <3>1 DEF Flags, AttachRedirect, Goto
    <3>2. CASE AddRedirSocket
      BY Zenon, <3>2 DEF Flags, AddRedirSocket, DetachRedirect, Goto
    <3>3. CASE AttachMonitor
      BY Zenon, <3>3 DEF Flags, AttachMonitor, DetachRedirect, Goto
    <3> QED
      BY <1>2, <3>1, <3>2, <3>3
  <2> QED
    BY Zenon, <2>1, <2>2 DEF Flags
<1>3. CASE CreateSendThread \/ CreateRecvThread
  <2>1. pc' \in Lines /\ UNCHANGED hooks
    BY <1>3 DEF CreateSendThread, CreateRecvThread, Goto, Lines
  <2>2. err' \in BOOLEAN /\ sndRunning' \in BOOLEAN /\ rcvRunning' \in BOOLEAN
    <3>1. CASE CreateSendThread
      BY Zenon, <3>1 DEF Flags, CreateSendThread, Goto
    <3>2. CASE CreateRecvThread
      BY Zenon, <3>2 DEF Flags, CreateRecvThread, Goto
    <3> QED
      BY <1>3, <3>1, <3>2
  <2> QED
    BY Zenon, <2>1, <2>2 DEF Flags, hooks
<1>4. ASSUME Crash PROVE Flags'
  <2>1. pc' \in Lines
    BY <1>4 DEF Crash, Lines
  <2> QED
    BY Zenon, <1>4, <2>1 DEF Flags, Crash
<1>5. CASE JoinUnstarted
  <2>1. CASE Crash
    BY <1>4, <2>1
  <2>2. CASE (\E e \in BOOLEAN : Goto("join", "detach", e))
             /\ UNCHANGED <<sndRunning, rcvRunning, hooks>>
    <3>1. pc' \in Lines
      BY <2>2 DEF Goto, Lines
    <3>2. err' \in BOOLEAN
      BY Zenon, <2>2 DEF Goto
    <3> QED
      BY Zenon, <2>2, <3>1, <3>2 DEF Flags, hooks
  <2> QED
    BY <1>5, <2>1, <2>2 DEF JoinUnstarted
<1>6. CASE DetachMonitor
  <2>1. pc' \in Lines
    BY <1>6 DEF DetachMonitor, Lines
  <2> QED
    BY Zenon, <1>6, <2>1 DEF DetachMonitor, Flags
<1>7. CASE CloseAll
  <2>1. pc' \in Lines
    BY <1>7 DEF CloseAll, Lines
  <2> QED
    BY Zenon, <1>7, <2>1 DEF CloseAll, Flags
<1>8. CASE hooker__send \/ hooker__recv
  BY <1>4, <1>8 DEF hooker__send, hooker__recv
<1>9. CASE (\E k \in Keys : Establish(k) \/ SendMsg(k) \/ CloseSocket(k)) \/ UNCHANGED vars
  <2>1. UNCHANGED <<process, hooks>>
    BY <1>9 DEF Establish, SendMsg, CloseSocket, vars
  <2> QED
    BY Zenon, <2>1 DEF Flags, process, hooks
<1> QED
  BY <1>1, <1>2, <1>3, <1>5, <1>6, <1>7, <1>8, <1>9 DEF Next, HookerStep, MainStep

\* A sequence over a set is one over any larger set.
LEMMA SeqLarger ==
  ASSUME NEW S, NEW T, S \subseteq T, NEW s \in Seq(S)
  PROVE  s \in Seq(T)
<1>1. Len(s) \in Nat /\ s \in [1 .. Len(s) -> S]
  OBVIOUS
<1>2. s \in [1 .. Len(s) -> T]
  BY <1>1
<1> QED
  BY <1>1, <1>2

\* Messages come from sockets that have a cookie, and cookies only grow.
LEMMA SourcesKept == MapInv /\ Sources /\ [Next]_vars => Sources'
<1> SUFFICES ASSUME MapInv, Sources, [Next]_vars PROVE Sources'
  OBVIOUS
<1>1. cookies \in Nat /\ conn \in [Keys -> 0 .. cookies]
  BY DEF MapInv, Maps
<1>2. ASSUME dropped' = dropped, queue' \in {queue, <<>>}, cookies' \in {cookies, cookies + 1}
      PROVE  Sources'
  <2>1. \A i \in 1 .. cookies : i \in 1 .. cookies'
    BY <1>1, <1>2
  <2>2. dropped' \subseteq 1 .. cookies'
    BY <1>2, <2>1 DEF Sources
  <2>3. queue' \in Seq(1 .. cookies')
    <3>1. queue' \in Seq(1 .. cookies)
      <4>1. queue \in Seq(1 .. cookies) /\ <<>> \in Seq(1 .. cookies)
        BY DEF Sources
      <4> QED
        BY Zenon, <1>2, <4>1
    <3> QED
      <4>1. 1 .. cookies \subseteq 1 .. cookies'
        BY <2>1
      <4> QED
        BY <3>1, <4>1, SeqLarger
  <2> QED
    BY <2>2, <2>3 DEF Sources
<1>3. CASE HookerStep
  <2>1. dropped' = dropped /\ queue' \in {queue, <<>>} /\ cookies' = cookies
    BY <1>3 DEF HookerStep, MainStep, load_bpf_progs, get_cgroup_root_fd, hooker_init_sock,
       AttachRedirect, AddRedirSocket, AttachMonitor, CreateSendThread, CreateRecvThread,
       JoinUnstarted, DetachMonitor, CloseAll, hooker__send, hooker__recv, Crash, traffic, apps
  <2> QED
    BY <1>2, <2>1
<1>4. ASSUME NEW k \in Keys, Establish(k) \/ CloseSocket(k) PROVE Sources'
  <2>1. UNCHANGED traffic /\ cookies' \in {cookies, cookies + 1}
    BY <1>4 DEF Establish, CloseSocket
  <2> QED
    BY <1>2, <2>1 DEF traffic
<1>5. ASSUME NEW k \in Keys, SendMsg(k) PROVE Sources'
  <2>1. conn[k] \in 1 .. cookies /\ cookies' = cookies
    BY <1>1, <1>5 DEF SendMsg, apps
  <2>2. \/ queue' = queue /\ dropped' \subseteq dropped \cup {conn[k]}
        \/ queue' = Append(queue, conn[k]) /\ dropped' = dropped
    BY <1>5 DEF SendMsg, traffic
  <2>3. CASE queue' = queue /\ dropped' \subseteq dropped \cup {conn[k]}
    BY <2>1, <2>3 DEF Sources
  <2>4. CASE queue' = Append(queue, conn[k]) /\ dropped' = dropped
    <3>1. Append(queue, conn[k]) \in Seq(1 .. cookies)
      BY <2>1 DEF Sources
    <3> QED
      BY <2>1, <2>4, <3>1 DEF Sources
  <2> QED
    BY <2>2, <2>3, <2>4
<1>6. CASE UNCHANGED vars
  BY <1>2, <1>6 DEF vars, traffic, apps
<1> QED
  BY <1>3, <1>4, <1>5, <1>6 DEF Next

\* The entries of SOCK_MAP before and after a step.
LEMMA SockEntriesNext ==
  \E n, m, r, q \in Nat :
    /\ SockEntries = n + r /\ SockEntries' = m + q
    /\ n = Cardinality(Entries(SOCK_MAP))
    /\ q <= 1 /\ (redir' = redir => q = r) /\ (redir' = FALSE => q = 0)
    /\ SOCK_MAP = Empty => n = 0
    /\ UNCHANGED SOCK_MAP => m = n
    /\ SOCK_MAP' = Empty => m = 0
    /\ (\E k : Entries(SOCK_MAP') = Entries(SOCK_MAP) \cup {k}) => m <= n + 1
    /\ Entries(SOCK_MAP') \subseteq Entries(SOCK_MAP) => m <= n
<1> DEFINE n == Cardinality(Entries(SOCK_MAP))
           m == Cardinality(Entries(SOCK_MAP'))
           r == IF redir THEN 1 ELSE 0
           q == IF redir' THEN 1 ELSE 0
<1>1. n \in Nat /\ m \in Nat
  BY EntriesAdd
<1>2. r \in Nat /\ q \in Nat
  OBVIOUS
<1>3. SockEntries = n + r /\ SockEntries' = m + q
  BY DEF SockEntries, Entries
<1>4. ASSUME NEW k, Entries(SOCK_MAP') = Entries(SOCK_MAP) \cup {k}
      PROVE  m <= n + 1
  <2>1. m = IF k \in Entries(SOCK_MAP) THEN n ELSE n + 1
    BY <1>4, EntriesAdd
  <2> HIDE DEF m, n
  <2> QED
    BY <1>1, <2>1
<1>5. ASSUME Entries(SOCK_MAP') \subseteq Entries(SOCK_MAP)
      PROVE  m <= n
  <2>1. IsFiniteSet(Entries(SOCK_MAP))
    BY HookerAssumption, FS_Subset DEF Entries
  <2> QED
    BY <1>5, <2>1, FS_Subset
<1>6. /\ SOCK_MAP = Empty => n = 0
      /\ SOCK_MAP' = Empty => m = 0
      /\ UNCHANGED SOCK_MAP => m = n
  BY EmptyEntries
<1>7. n = Cardinality(Entries(SOCK_MAP))
  OBVIOUS
<1>8. q <= 1 /\ (redir' = redir => q = r) /\ (redir' = FALSE => q = 0)
  <2>1. redir' = redir => q = r
    <3> SUFFICES ASSUME redir' = redir PROVE q = r
      BY Zenon
    <3>1. CASE redir
      <4>1. redir'
        BY <3>1
      <4> QED
        BY <3>1, <4>1
    <3>2. CASE ~redir
      <4>1. ~redir'
        BY <3>2
      <4> QED
        BY <3>2, <4>1
    <3> QED
      BY <3>1, <3>2
  <2>2. redir' = FALSE => q = 0
    BY Zenon
  <2>3. q <= 1
    OBVIOUS
  <2> HIDE DEF q, r
  <2> QED
    BY <2>1, <2>2, <2>3
<1> HIDE DEF n, m, r, q
<1> QED
  BY <1>1, <1>2, <1>3, <1>4, <1>5, <1>6, <1>7, <1>8

\* SOCK_MAP never holds more than max_entries sockets.
LEMMA RoomKept == IInv /\ Room /\ [Next]_vars => Room'
<1> SUFFICES ASSUME IInv, Room, [Next]_vars PROVE Room'
  OBVIOUS
<1>1. LEGMAP_SIZE \in Nat /\ LEGMAP_SIZE >= 1 /\ SockEntries <= LEGMAP_SIZE
  BY HookerAssumption DEF Room
<1>2. PICK n, m, r, q \in Nat :
    /\ SockEntries = n + r /\ SockEntries' = m + q
    /\ n = Cardinality(Entries(SOCK_MAP))
    /\ q <= 1 /\ (redir' = redir => q = r) /\ (redir' = FALSE => q = 0)
    /\ SOCK_MAP = Empty => n = 0
    /\ UNCHANGED SOCK_MAP => m = n
    /\ SOCK_MAP' = Empty => m = 0
    /\ (\E k : Entries(SOCK_MAP') = Entries(SOCK_MAP) \cup {k}) => m <= n + 1
    /\ Entries(SOCK_MAP') \subseteq Entries(SOCK_MAP) => m <= n
  BY SockEntriesNext
<1>3. ASSUME m <= n, q <= r PROVE Room'
  BY <1>1, <1>2, <1>3 DEF Room
<1>4. (redir' = redir => q = r) /\ (redir' = FALSE => q = 0)
  BY <1>2
<1>5. CASE AddRedirSocket
  <2>1. SOCK_MAP = Empty /\ SOCK_MAP' = SOCK_MAP
    BY <1>5 DEF AddRedirSocket, Goto, IInv, Stage, Early, maps
  <2>2. m = 0 /\ q <= 1
    BY <1>2, <2>1
  <2> QED
    BY <1>1, <1>2, <2>2 DEF Room
<1>6. ASSUME redir' \in {redir, FALSE}, SOCK_MAP' \in {SOCK_MAP, Empty} PROVE Room'
  <2>1. q <= r
    <3>1. q = r \/ q = 0
      BY Zenon, <1>4, <1>6
    <3> QED
      BY <1>2, <3>1
  <2>2. m <= n
    BY <1>2, <1>6
  <2> QED
    BY <1>3, <2>1, <2>2
<1>7. CASE HookerStep /\ ~AddRedirSocket
  <2>1. redir' \in {redir, FALSE} /\ SOCK_MAP' \in {SOCK_MAP, Empty}
    BY <1>7 DEF HookerStep, MainStep, load_bpf_progs, get_cgroup_root_fd, hooker_init_sock,
       AttachRedirect, AttachMonitor, CreateSendThread, CreateRecvThread,
       JoinUnstarted, DetachMonitor, CloseAll, hooker__send, hooker__recv, Crash, hooks, maps
  <2> QED
    BY <1>6, <2>1
<1>8. ASSUME NEW k \in Keys, Establish(k) PROVE Room'
  <2>1. redir' = redir
    BY <1>8 DEF Establish, hooks
  <2>2. CASE SOCK_MAP' = SOCK_MAP
    BY <1>6, <2>1, <2>2
  <2>3. CASE SockRoom(k) /\ SOCK_MAP' = [SOCK_MAP EXCEPT ![k] = cookies']
    <3>1. cookies' # 0 /\ SOCK_MAP \in [Keys -> 0 .. cookies]
      BY <1>8 DEF Establish, IInv, MapInv, Maps
    <3>2. Entries(SOCK_MAP') = Entries(SOCK_MAP) \cup {k}
      BY <1>8, <2>3, <3>1 DEF Entries
    <3>3. m <= n + 1 /\ q = r /\ SockEntries < LEGMAP_SIZE
      BY <1>2, <2>1, <2>3, <3>2 DEF SockRoom
    <3> QED
      BY <1>1, <1>2, <3>3 DEF Room
  <2> QED
    BY <1>8, <2>2, <2>3 DEF Establish, hooker_monitor, legapp_register, maps
<1>9. ASSUME NEW k \in Keys, SendMsg(k) PROVE Room'
  BY <1>6, <1>9 DEF SendMsg, hooks, maps
<1>10. ASSUME NEW k \in Keys, CloseSocket(k) PROVE Room'
  <2>1. redir' = redir /\ SOCK_MAP' = [SOCK_MAP EXCEPT ![k] = 0]
    BY <1>10 DEF CloseSocket, hooks
  <2>2. SOCK_MAP \in [Keys -> 0 .. cookies]
    BY DEF IInv, MapInv, Maps
  <2>3. Entries(SOCK_MAP') \subseteq Entries(SOCK_MAP)
    BY <2>1, <2>2 DEF Entries
  <2>4. m <= n /\ q = r
    BY Zenon, <1>2, <1>4, <2>1, <2>3
  <2> QED
    BY <1>2, <1>3, <2>4
<1>11. CASE UNCHANGED vars
  BY <1>6, <1>11 DEF vars, hooks, maps
<1> QED
  BY <1>5, <1>7, <1>8, <1>9, <1>10, <1>11 DEF Next

\* The invariant with the flags, what the maps hold and the room they have.
LEMMA TypesInvariant == Spec => [](IInv /\ Flags /\ Sources /\ Room)
<1>1. Init => Flags
  BY Zenon DEF Init, Flags, Lines
<1>2. Init => Sources
  BY DEF Init, Sources
<1>3. Init => Room
  <2> SUFFICES ASSUME Init PROVE Room
    OBVIOUS
  <2>1. Cardinality(Entries(SOCK_MAP)) = 0 /\ redir = FALSE /\ LEGMAP_SIZE \in Nat
    BY EmptyEntries, HookerAssumption DEF Init
  <2> QED
    BY <2>1 DEF Room, SockEntries
<1>4. IInv => MapInv
  BY DEF IInv
<1> QED
  BY <1>1, <1>2, <1>3, <1>4, Initially, Inductive, FlagsKept, SourcesKept, RoomKept, PTL DEF Spec

-----------------------------------------------------------------------------
(* Theorems.                                                               *)

\* Types, and the limits of the maps: whatever sockets come and go, SOCK_MAP with
\* sock_redir in it and COOKIE_MAP hold at most max_entries entries.
THEOREM TypeCorrect == Spec => []TypeOK
<1>1. IInv /\ Flags /\ Sources /\ Room => TypeOK
  <2> SUFFICES ASSUME IInv, Flags, Sources, Room PROVE TypeOK
    OBVIOUS
  <2>1. /\ cookies \in Nat /\ conn \in [Keys -> 0 .. cookies]
        /\ SOCK_MAP \in [Keys -> 0 .. cookies] /\ COOKIE_MAP \in [Keys -> 0 .. cookies]
        /\ Cardinality(Entries(COOKIE_MAP)) <= LEGMAP_SIZE
    BY DEF IInv, MapInv, Maps
  <2> QED
    BY Zenon, <2>1 DEF TypeOK, Flags, Sources, Room
<1> QED
  BY <1>1, TypesInvariant, PTL

\* CookieIsCurrent for any number of applications and any size of the maps:
\* legapp_register and the kernel's removals never mix two sockets up.
THEOREM CookieCurrent == Spec => []CookieIsCurrent
<1>1. IInv => CookieIsCurrent
  BY DEF IInv, MapInv
<1> QED
  BY <1>1, Invariance, PTL

\* DropOnlyWhenFull for any number of applications and any size of the maps:
\* hooker_redirect drops only after COOKIE_MAP has filled up.
THEOREM DropsWhenFull == Spec => []DropOnlyWhenFull
<1>1. IInv => DropOnlyWhenFull
  BY DEF IInv
<1> QED
  BY <1>1, Invariance, PTL

\* AttachedInOrder, through every failure of main and of the detaches it does
\* not look at: the monitor is attached only over a verdict program, and what a
\* main that has returned leaves on the host is a monitor whose detach was
\* refused, with what that monitor holds.
THEOREM Attached == Spec => []AttachedInOrder
<1>1. IInv => AttachedInOrder
  BY EmptyEntries DEF IInv, Stage, AttachedInOrder
<1> QED
  BY <1>1, Invariance, PTL

=============================================================================
