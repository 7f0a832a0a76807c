----------------------------- MODULE UdpFromTo -----------------------------
(***************************************************************************)
(* The datagram functions of src/topo/udp.c under udp_server_proc: a server *)
(* bound to every address of its host learns from recvmsg to which of them  *)
(* a request was sent and has sendmsg reply from that one.  The kernel      *)
(* queues requests, knows a route to every client, and may fail a call.     *)
(***************************************************************************)
EXTENDS Integers, Sequences, FiniteSets

CONSTANTS Clients,
          Locals,     \* the addresses of the host
          Route,      \* the local address the kernel picks for a client
          MaxQueue,   \* requests the socket holds: later ones are dropped
          MaxSent     \* bound on the requests of a client

INADDR_ANY == "any"

ASSUME UdpAssumption ==
    /\ INADDR_ANY \notin Locals   \* a datagram is sent to an address of the host
    /\ Route \in [Clients -> Locals] /\ MaxQueue \in Nat /\ MaxSent \in Nat

VARIABLES up,        \* how far init_omp_server has come with the socket
          queue,     \* requests in the socket: client, local address, and whether
                     \* control data was kept with them
          sent,      \* requests each client has sent, by number
          replies,   \* replies sent: to whom, from where, to which request
          failed     \* requests whose handler failed in recvmsg or sendmsg

vars == <<up, queue, sent, replies, failed>>

-----------------------------------------------------------------------------
(* The socket is AF_INET, and the caller's lengths are those of sockaddr_in. *)

StepsBindFirst == <<"bind", "udp_fromto_init">>

\* What init_omp_server does with the socket, in this order.
Steps == <<"udp_fromto_init", "bind">>

Done(step) == \E i \in 1..up : Steps[i] = step

\* The kernel keeps control data with datagrams that arrive when it was asked to.
udp_fromto_init == Done("udp_fromto_init")
bound == Done("bind")

\* The address getsockname gives, replaced by the one in the control data.
udp_recv_fromto(d) ==
    [from |-> d.client, to |-> IF d.info THEN d.local ELSE INADDR_ANY]

\* ipi_spec_dst chooses the source address; without one the kernel does.
udp_send_fromto(from, to) ==
    [to |-> to, source |-> IF from = INADDR_ANY THEN Route[to] ELSE from]

-----------------------------------------------------------------------------
ClientSends(c, a) ==
    /\ sent[c] < MaxSent
    /\ sent' = [sent EXCEPT ![c] = @ + 1]
    /\ queue' = IF bound /\ Len(queue) < MaxQueue
                THEN Append(queue, [client |-> c, local |-> a, n |-> sent[c] + 1, info |-> udp_fromto_init])
                ELSE queue
    /\ UNCHANGED <<up, replies, failed>>

\* A step that fails ends the process; datagrams arrive between the steps.
init_omp_server == up < Len(Steps) /\ up' = up + 1 /\ UNCHANGED <<queue, sent, replies, failed>>

\* recvmsg, the node's entry, the reply, sendmsg.
udp_server_proc ==
    LET d == Head(queue)
        r == udp_recv_fromto(d)
        out == udp_send_fromto(r.to, r.from)
    IN  /\ up = Len(Steps) /\ queue # <<>>
        /\ queue' = Tail(queue)
        /\ \/ /\ replies' = replies \cup {[to |-> out.to, source |-> out.source, asked |-> d]}
              /\ UNCHANGED failed
           \/ failed' = failed + 1 /\ UNCHANGED replies
        /\ UNCHANGED <<up, sent>>

Init ==
    /\ up = 0 /\ queue = <<>> /\ sent = [c \in Clients |-> 0]
    /\ replies = {} /\ failed = 0

Next ==
    \/ init_omp_server
    \/ \E c \in Clients, a \in Locals : ClientSends(c, a)
    \/ udp_server_proc

Spec == Init /\ [][Next]_vars
-----------------------------------------------------------------------------
\* A client gets its replies from the address it asked, whatever address the
\* kernel would pick, whichever requests were queued meanwhile and however early
\* they came: behind a Service or a NAT a reply from another address never
\* arrives.
RepliesFromAskedAddress ==
    \A r \in replies : r.to = r.asked.client /\ r.source = r.asked.local
=============================================================================
