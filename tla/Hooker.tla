------------------------------- MODULE Hooker -------------------------------
(***************************************************************************)
(* The Hooker: the two BPF programs of bpf_hooker.c (the sockops monitor   *)
(* that registers established TCP sockets and the sk_msg program that      *)
(* redirects what they send), the user process of hooker.c that loads and  *)
(* attaches them, and the legacy applications of the host.                 *)
(*                                                                         *)
(* A key is the (sip4, dip4, sport, dport) of a connection; a socket is    *)
(* its kernel cookie, a number never given twice.  0 stands for no socket  *)
(* and no map entry.  The all-zero key of the redirection socket is kept   *)
(* apart, in redir.                                                        *)
(***************************************************************************)
EXTENDS Integers, Sequences, FiniteSets

CONSTANTS Keys,           \* addressing keys applications connect with
          RedirPortKeys,  \* those whose local port is HOOKER_REDIR_PORT
          LEGMAP_SIZE,    \* max_entries of both maps
          MaxSockets,     \* bound: sockets opened in a run
          MaxQueue        \* bound: messages waiting in the redirection socket

ASSUME HookerAssumption == /\ IsFiniteSet(Keys) /\ RedirPortKeys \subseteq Keys
                           /\ LEGMAP_SIZE \in Nat \ {0}
                           /\ MaxSockets \in Nat
                           /\ MaxQueue \in Nat

VARIABLES
  pc,          \* line of hooker.c's main; "crashed" once the process is killed
  err,         \* main's err is not zero
  sndRunning,  \* the thread hooker__send exists
  rcvRunning,  \* the thread hooker__recv exists
  monitor,     \* hooker_monitor is attached to the root cgroup
  verdict,     \* hooker_redirect is attached to SOCK_MAP
  redir,       \* SOCK_MAP holds sock_redir under the zero key
  refused,     \* ghost: the kernel refused a detach and main did not look
  SOCK_MAP,    \* socket stored under each key
  COOKIE_MAP,  \* cookie stored under each key
  conn,        \* open socket of each key
  cookies,     \* cookies handed out so far
  queue,       \* sockets whose messages wait in sock_redir
  dropped      \* ghost: sockets a message of which was dropped

process == <<pc, err, sndRunning, rcvRunning>>
hooks   == <<monitor, verdict, redir, refused>>
maps    == <<SOCK_MAP, COOKIE_MAP>>
apps    == <<conn, cookies>>
traffic == <<queue, dropped>>
vars    == <<process, hooks, maps, apps, traffic>>

Empty == [k \in Keys |-> 0]
Entries(map) == {k \in Keys : map[k] # 0}

\* sock_redir takes one of the entries of SOCK_MAP.
SockEntries == Cardinality(Entries(SOCK_MAP)) + IF redir THEN 1 ELSE 0

Init ==
  /\ pc = "load" /\ err = FALSE /\ sndRunning = FALSE /\ rcvRunning = FALSE
  /\ monitor = FALSE /\ verdict = FALSE /\ redir = FALSE /\ refused = FALSE
  /\ SOCK_MAP = Empty /\ COOKIE_MAP = Empty
  /\ conn = Empty /\ cookies = 0
  /\ queue = <<>> /\ dropped = {}

-----------------------------------------------------------------------------
(* main of hooker.c.  Each step may fail; a failure is reported in err     *)
(* where the code sets it.  The three bpf_prog_detach2 may fail as well,   *)
(* and no line of main looks at what they return.                          *)

Goto(at, next, failed) == pc = at /\ pc' = next /\ err' = failed

load_bpf_progs ==
  /\ Goto("load", "cgroup", FALSE) \/ Goto("load", "out", TRUE)
  /\ UNCHANGED <<sndRunning, rcvRunning, hooks, maps, apps, traffic>>

get_cgroup_root_fd ==
  /\ Goto("cgroup", "init_sock", FALSE) \/ Goto("cgroup", "out", TRUE)
  /\ UNCHANGED <<sndRunning, rcvRunning, hooks, maps, apps, traffic>>

hooker_init_sock ==
  /\ Goto("init_sock", "attach_redir", FALSE) \/ Goto("init_sock", "out", TRUE)
  /\ UNCHANGED <<sndRunning, rcvRunning, hooks, maps, apps, traffic>>

AttachRedirect ==
  /\ \/ Goto("attach_redir", "add_redir", FALSE) /\ verdict' = TRUE
     \/ Goto("attach_redir", "close", TRUE) /\ UNCHANGED verdict
  /\ UNCHANGED <<sndRunning, rcvRunning, monitor, redir, refused, maps, apps, traffic>>

\* bpf_prog_detach2 of hooker_redirect from SOCK_MAP.
DetachRedirect ==
  \/ verdict' = FALSE /\ UNCHANGED refused
  \/ refused' = TRUE /\ UNCHANGED verdict

\* A failed update leaves err at 0: main will return success.
AddRedirSocket ==
  /\ \/ Goto("add_redir", "attach_monitor", FALSE) /\ redir' = TRUE
        /\ UNCHANGED <<verdict, refused>>
     \/ Goto("add_redir", "close", FALSE) /\ DetachRedirect /\ UNCHANGED redir
  /\ UNCHANGED <<sndRunning, rcvRunning, monitor, maps, apps, traffic>>

AttachMonitor ==
  /\ \/ Goto("attach_monitor", "create_snd", FALSE) /\ monitor' = TRUE
        /\ UNCHANGED <<verdict, refused>>
     \/ Goto("attach_monitor", "close", TRUE) /\ DetachRedirect
        /\ UNCHANGED monitor
  /\ UNCHANGED <<sndRunning, rcvRunning, redir, maps, apps, traffic>>

CreateSendThread ==
  /\ \/ Goto("create_snd", "create_rcv", FALSE) /\ sndRunning' = TRUE
     \/ Goto("create_snd", "join", TRUE) /\ UNCHANGED sndRunning
  /\ UNCHANGED <<rcvRunning, hooks, maps, apps, traffic>>

CreateRecvThread ==
  /\ \/ Goto("create_rcv", "join", FALSE) /\ rcvRunning' = TRUE
     \/ Goto("create_rcv", "join", TRUE) /\ UNCHANGED rcvRunning
  /\ UNCHANGED <<sndRunning, hooks, maps, apps, traffic>>

\* The process is killed: its sockets are closed, what the kernel holds on its
\* own account (the cgroup attachment and the maps its program uses) stays.
Crash ==
  /\ pc' = "crashed"
  /\ redir' = FALSE /\ queue' = <<>>
  /\ sndRunning' = FALSE /\ rcvRunning' = FALSE
  /\ UNCHANGED <<err, monitor, verdict, refused, maps, apps, dropped>>

\* The joins after a failed creation read a thread id that was never written:
\* pthread_join may fail with an error or bring the process down.
JoinUnstarted ==
  /\ pc = "join" /\ ~sndRunning
  /\ \/ /\ \E e \in BOOLEAN : Goto("join", "detach", e)
        /\ UNCHANGED <<sndRunning, rcvRunning, hooks, maps, apps, traffic>>
     \/ Crash

\* Mutant: nobody asks for the monitor to be taken off the cgroup.
DetachMonitor_skip ==
  /\ pc = "detach" /\ pc' = "close"
  /\ UNCHANGED <<err, sndRunning, rcvRunning, hooks, maps, apps, traffic>>

DetachMonitor ==
  /\ pc = "detach" /\ pc' = "close"
  /\ \/ monitor' = FALSE /\ UNCHANGED refused
     \/ refused' = TRUE /\ UNCHANGED monitor
  /\ UNCHANGED <<err, sndRunning, rcvRunning, verdict, redir, maps, apps, traffic>>

\* The sockets are closed and main returns; with no cgroup attachment left to
\* hold them, programs and maps go with the process.
CloseAll ==
  /\ pc = "close" /\ pc' = "out"
  /\ redir' = FALSE /\ queue' = <<>>
  /\ IF monitor THEN UNCHANGED <<verdict, maps>>
                ELSE verdict' = FALSE /\ SOCK_MAP' = Empty /\ COOKIE_MAP' = Empty
  /\ UNCHANGED <<err, sndRunning, rcvRunning, monitor, refused, apps, dropped>>

\* hooker__send gets a message.  No cookie precedes the data (the program does
\* not push it), the looked up destination address is zero, and vtl_add_ip4
\* takes that integer for a string.
hooker__send ==
  /\ sndRunning /\ queue # <<>>
  /\ Crash

\* hooker__recv calls vtl_receive on vtl_sock, which nothing ever sets.
hooker__recv ==
  /\ rcvRunning
  /\ Crash

-----------------------------------------------------------------------------
(* The BPF programs.                                                       *)

\* bpf_map_update_elem(COOKIE_MAP, key, cookie, BPF_ANY): replaces an entry,
\* adds one while there is room.
CookieRoom(k) == COOKIE_MAP[k] # 0 \/ Cardinality(Entries(COOKIE_MAP)) < LEGMAP_SIZE

\* Mutant: the entry sock_redir takes is forgotten.
SockRoom_redir(k) == SOCK_MAP[k] = 0 /\ Cardinality(Entries(SOCK_MAP)) < LEGMAP_SIZE

\* bpf_sock_hash_update(SOCK_MAP, key, BPF_NOEXIST).
SockRoom(k) == SOCK_MAP[k] = 0 /\ SockEntries < LEGMAP_SIZE

\* Mutant: an address already known keeps its first cookie.
legapp_register_noexist(k, cookie) ==
  /\ COOKIE_MAP' = IF COOKIE_MAP[k] = 0 /\ CookieRoom(k)
                   THEN [COOKIE_MAP EXCEPT ![k] = cookie] ELSE COOKIE_MAP
  /\ SOCK_MAP' = IF SockRoom(k) THEN [SOCK_MAP EXCEPT ![k] = cookie] ELSE SOCK_MAP

\* Mutant: only the socket is registered.
legapp_register_sock(k, cookie) ==
  /\ UNCHANGED COOKIE_MAP
  /\ SOCK_MAP' = IF SockRoom(k) THEN [SOCK_MAP EXCEPT ![k] = cookie] ELSE SOCK_MAP

\* Both updates, neither result looked at.
legapp_register(k, cookie) ==
  /\ COOKIE_MAP' = IF CookieRoom(k) THEN [COOKIE_MAP EXCEPT ![k] = cookie]
                                    ELSE COOKIE_MAP
  /\ SOCK_MAP' = IF SockRoom(k) THEN [SOCK_MAP EXCEPT ![k] = cookie] ELSE SOCK_MAP

\* The sockops program, on the passive and active established callbacks.
hooker_monitor(k, cookie) ==
  IF monitor THEN legapp_register(k, cookie) ELSE UNCHANGED maps

\* What becomes of a message the sk_msg program sees; a redirection that finds
\* no socket under the zero key leaves the message on its own way.
hooker_redirect(k) ==
  IF k \in RedirPortKeys THEN "pass"
  ELSE IF COOKIE_MAP[k] = 0 THEN "drop"
  ELSE IF redir THEN "hooker" ELSE "pass"

-----------------------------------------------------------------------------
(* Applications of the host.                                               *)

\* A TCP connection is established, actively or passively.
Establish(k) ==
  /\ conn[k] = 0 /\ cookies < MaxSockets
  /\ cookies' = cookies + 1
  /\ conn' = [conn EXCEPT ![k] = cookies']
  /\ hooker_monitor(k, cookies')
  /\ UNCHANGED <<process, hooks, traffic>>

\* sendmsg on it: the sk_msg program runs if the socket is in SOCK_MAP.
SendMsg(k) ==
  /\ conn[k] # 0 /\ SOCK_MAP[k] = conn[k]
  /\ \/ /\ hooker_redirect(k) = "pass"
        /\ UNCHANGED traffic
     \/ /\ hooker_redirect(k) = "drop"
        /\ dropped' = dropped \cup {conn[k]}
        /\ UNCHANGED queue
     \/ /\ hooker_redirect(k) = "hooker" /\ Len(queue) < MaxQueue
        /\ queue' = Append(queue, conn[k])
        /\ UNCHANGED dropped
  /\ UNCHANGED <<process, hooks, maps, apps>>

\* The kernel takes a closed socket out of SOCK_MAP; nothing deletes its
\* COOKIE_MAP entry.
CloseSocket(k) ==
  /\ conn[k] # 0
  /\ conn' = [conn EXCEPT ![k] = 0]
  /\ SOCK_MAP' = [SOCK_MAP EXCEPT ![k] = 0]
  /\ UNCHANGED <<process, hooks, COOKIE_MAP, cookies, traffic>>

-----------------------------------------------------------------------------
MainStep == \/ load_bpf_progs \/ get_cgroup_root_fd \/ hooker_init_sock
            \/ AttachRedirect \/ AddRedirSocket \/ AttachMonitor
            \/ CreateSendThread \/ CreateRecvThread \/ JoinUnstarted
            \/ DetachMonitor \/ CloseAll

HookerStep == MainStep \/ hooker__send \/ hooker__recv

Next == \/ HookerStep
        \/ \E k \in Keys : Establish(k) \/ SendMsg(k) \/ CloseSocket(k)

Spec == Init /\ [][Next]_vars

-----------------------------------------------------------------------------
Lines == {"load", "cgroup", "init_sock", "attach_redir", "add_redir",
          "attach_monitor", "create_snd", "create_rcv", "join", "detach",
          "close", "out", "crashed"}

\* The variables' types; the maps of bpf_hooker.c stay within max_entries, with
\* sock_redir counted, and no cookie is in use that was not handed out.
TypeOK ==
  /\ pc \in Lines
  /\ err \in BOOLEAN /\ sndRunning \in BOOLEAN /\ rcvRunning \in BOOLEAN
  /\ monitor \in BOOLEAN /\ verdict \in BOOLEAN /\ redir \in BOOLEAN
  /\ refused \in BOOLEAN
  /\ cookies \in Nat /\ conn \in [Keys -> 0 .. cookies]
  /\ SOCK_MAP \in [Keys -> 0 .. cookies] /\ COOKIE_MAP \in [Keys -> 0 .. cookies]
  /\ queue \in Seq(1 .. cookies) /\ dropped \subseteq 1 .. cookies
  /\ SockEntries <= LEGMAP_SIZE
  /\ Cardinality(Entries(COOKIE_MAP)) <= LEGMAP_SIZE

\* A registered socket is reachable under its own address and the address leads
\* to its own cookie: reuse of an address after a close, with the old cookie
\* still in COOKIE_MAP, never mixes two applications up.
CookieIsCurrent ==
  \A k \in Keys : SOCK_MAP[k] # 0 =>
    /\ SOCK_MAP[k] = conn[k]
    /\ COOKIE_MAP[k] \in {0, conn[k]}

\* hooker_redirect drops the message of a live application only after
\* COOKIE_MAP, from which nothing is ever deleted, has filled up.
DropOnlyWhenFull ==
  dropped # {} /\ monitor => Cardinality(Entries(COOKIE_MAP)) = LEGMAP_SIZE

\* The monitor is attached only over a map with its verdict program, so that no
\* socket is registered whose messages nobody would see.  Once main has
\* returned, from whichever failure, only the monitor can still be on the host
\* and only because the kernel refused the detach whose result main ignores:
\* the verdict program and the registered sockets stay exactly as long as it
\* does, and a refused detach of the verdict program alone leaves nothing.
AttachedInOrder ==
  /\ monitor => verdict
  /\ pc = "out" => /\ monitor => refused
                   /\ verdict => monitor
                   /\ Entries(SOCK_MAP) # {} => monitor

=============================================================================
