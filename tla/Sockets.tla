------------------------------ MODULE Sockets ------------------------------
(***************************************************************************)
(* Stream sockets: the kernel's registry (src/src/net/socket.rs), the      *)
(* calls of a process and of the daemon (src/src/syscall/net.rs), and the  *)
(* daemon itself (src/user/net-smoltcp), whose loop runs one phase a step. *)
(* A socket is a channel between the process and the daemon, which goes on *)
(* when the process has exited and was reaped.  smoltcp and                *)
(* the hosts on the network are external: a TCP socket of the daemon       *)
(* listens, or is connected to a peer, which sends numbered bytes.         *)
(***************************************************************************)
EXTENDS Integers, Sequences, FiniteSets, SequencesExt

CONSTANTS
  SockPlans,   \* what may happen, one plan per behaviour: the ports, bounds on
               \* the sockets, the connections, the bytes each way and the
               \* polls of accept, whether the process also connects and
               \* listens unbound, and whether it exits:
               \* [ports, sockets, conns, bytes, waits, connects, exits]
  CtrlLen      \* bytes of a message the daemon reads

VARIABLES
  reg,     \* the registry: next id, new sockets, owners, waiting and accepted
  chan,    \* the channels, in the order they were made
  plan,    \* the plan
  life,    \* the process: live, zombie, gone from the table
  fds,     \* the handles of the process: fd -> channel
  mine,    \* those of them that a call has returned to it
  phase,   \* where the daemon's loop is
  look,    \* its scan of listening sockets: the proxy i it is at, new_conns,
           \* and the fd and channel of daemon_create_conn
  proxies, \* the daemon's ProxyEntries
  tcp      \* its TCP sockets

userSide == <<plan, life, fds, mine>>
sockVars == <<reg, chan, userSide, phase, look, proxies, tcp>>

\* A channel: messages to the daemon, messages to the process, whether the
\* process still has its end, what it uses it for, the bytes it sent and got so
\* far, whether some were dropped because a buffer was too small, and the id of
\* the socket it is or was accepted by.
NewChannel(use, sid) ==
  [net |-> <<>>, user |-> <<>>, open |-> TRUE, use |-> use, sent |-> 0, got |-> 0, cut |-> FALSE, of |-> sid]
NoLook == [i |-> 0, new |-> <<>>, fd |-> 0, ch |-> 0]
Msg(op, val) == [op |-> op, val |-> val]

SockInit ==
  /\ reg = [next |-> 1, new |-> <<>>, owner |-> <<>>, waits |-> <<>>, accepted |-> <<>>]
  /\ plan \in SockPlans
  /\ chan = <<>> /\ life = "live" /\ fds = <<>> /\ mine = {}
  /\ phase = "drain" /\ look = NoLook /\ proxies = <<>> /\ tcp = <<>>

-----------------------------------------------------------------------------
(* The registry; waking the epoll waiters of a socket is Epoll's. *)

\* alloc_socket_id, register_socket_owner, push_new_socket
RegisterSocket(r, fd, ch) ==
  [r EXCEPT !.next = @ + 1, !.owner = Append(@, fd), !.new = Append(@, [sid |-> r.next, ch |-> ch]),
            !.waits = Append(@, 0), !.accepted = Append(@, <<>>)]

\* pop_new_socket until there is none.
PopNewSockets(r) == [r EXCEPT !.new = <<>>]

\* socket_id_for_fd: the least id ever owned with this fd.
SidOf(fd) == Min({sid \in DOMAIN reg.owner : reg.owner[sid] = fd})

AddPendingAccept(r, sid) == [r EXCEPT !.waits[sid] = @ + 1]
PopWaitingPid(r, sid) == [r EXCEPT !.waits[sid] = IF @ > 0 THEN @ - 1 ELSE @]
PushPendingAccepted(r, sid, fd) == [r EXCEPT !.accepted[sid] = Append(@, fd)]
PopPendingAccepted(r, sid) == [r EXCEPT !.accepted[sid] = Tail(@)]

FreeFd == Min(0..Cardinality(DOMAIN fds) \ DOMAIN fds)

-----------------------------------------------------------------------------
(* Calls of the process *)

daemonVars == <<phase, look, proxies, tcp>>

Socket ==
  /\ life = "live" /\ Len(reg.owner) < plan.sockets
  /\ chan' = Append(chan, NewChannel("fresh", reg.next))
  /\ fds' = (FreeFd :> Len(chan) + 1) @@ fds
  /\ mine' = mine \cup {FreeFd}
  /\ reg' = RegisterSocket(reg, FreeFd, Len(chan) + 1)
  /\ UNCHANGED <<plan, life, daemonVars>>

\* bind, listen, connect and sock_send leave a message for the daemon.
Tells(fd, msg, use) ==
  /\ chan' = [chan EXCEPT ![fds[fd]].net = Append(@, msg), ![fds[fd]].use = use,
                          ![fds[fd]].sent = IF msg.op = "send" THEN @ + Len(msg.val) ELSE @]
  /\ UNCHANGED <<reg, userSide, daemonVars>>

Bytes(from, n) == [i \in 1..n |-> from + i]
Use(fd) == chan[fds[fd]].use

\* A process binds a socket once, and listens or connects once.
Bind(fd, port) == Use(fd) = "fresh" /\ Tells(fd, Msg("bind", <<port>>), "bound")
Listen(fd)  == (Use(fd) = "bound" \/ (plan.connects /\ Use(fd) = "fresh")) /\ Tells(fd, Msg("listen", <<>>), "listen")
Connect(fd) == plan.connects /\ Use(fd) \in {"fresh", "bound"} /\ Tells(fd, Msg("connect", <<>>), "stream")

SockSend(fd, n) ==
  LET c == chan[fds[fd]]
  IN c.sent + n <= plan.bytes /\ Tells(fd, Msg("send", Bytes(c.sent, n)), c.use)

\* accept: the oldest connection of the socket; without one the process is
\* noted as waiting and asks again.
Accept(fd) ==
  /\ fd \in Range(reg.owner)
  /\ LET sid == SidOf(fd)
     IN IF reg.accepted[sid] # <<>>
        THEN reg' = PopPendingAccepted(reg, sid) /\ mine' = mine \cup {Head(reg.accepted[sid])}
        ELSE reg.waits[sid] < plan.waits /\ reg' = AddPendingAccept(reg, sid) /\ UNCHANGED mine
  /\ UNCHANGED <<chan, plan, life, fds, daemonVars>>

\* Faulty variant: a message that does not fit stays in the queue.
SockRecvAgain(fd, max) ==
  LET c == chan[fds[fd]] IN
  /\ c.user # <<>>
  /\ LET msg == Head(c.user)
     IN chan' = [chan EXCEPT ![fds[fd]] =
                   [c EXCEPT !.user = IF Len(msg) > max THEN @ ELSE Tail(@), !.got = @ + Min({Len(msg), max})]]
  /\ UNCHANGED <<reg, userSide, daemonVars>>

\* sock_recv, try_recv: one message; what does not fit is lost.
SockRecv(fd, max) ==
  LET c == chan[fds[fd]] IN
  /\ c.user # <<>>
  /\ LET msg == Head(c.user)
     IN chan' = [chan EXCEPT ![fds[fd]] =
                   [c EXCEPT !.user = Tail(@), !.got = @ + Min({Len(msg), max}), !.cut = @ \/ Len(msg) > max]]
  /\ UNCHANGED <<reg, userSide, daemonVars>>

\* The ends of a set of handles are dropped.
Dropped(ch, F) == [c \in DOMAIN ch |-> IF c \in {fds[fd] : fd \in F} THEN [ch[c] EXCEPT !.open = FALSE] ELSE ch[c]]

\* close: the registry keeps its entry of the socket.
CloseSocket(fd) ==
  /\ chan' = Dropped(chan, {fd})
  /\ fds' = [f \in DOMAIN fds \ {fd} |-> fds[f]]
  /\ mine' = mine \ {fd}
  /\ UNCHANGED <<reg, plan, life, daemonVars>>

\* exit closes the handles and leaves a zombie, which can still be given some;
\* with the reaping they go too.  The registry keeps what it has.
ProcessEnds ==
  /\ plan.exits /\ life # "gone"
  /\ life' = IF life = "live" THEN "zombie" ELSE "gone"
  /\ chan' = Dropped(chan, DOMAIN fds) /\ fds' = <<>> /\ mine' = {}
  /\ UNCHANGED <<reg, plan, daemonVars>>

-----------------------------------------------------------------------------
(* The daemon *)

NoChannel == 0
Proxy(ch, sid, mode, h) == [ch |-> ch, sid |-> sid, port |-> 0, mode |-> mode, h |-> h, tx |-> <<>>]
TcpSocket(port, st) == [port |-> port, st |-> st, in |-> <<>>, sent |-> 0, out |-> <<>>]

\* All new sockets get a proxy (daemon_next_socket).
Drain ==
  /\ phase = "drain" /\ phase' = "ctrl"
  /\ proxies' = proxies \o [i \in DOMAIN reg.new |-> Proxy(reg.new[i].ch, reg.new[i].sid, "new", 0)]
  /\ reg' = PopNewSockets(reg)
  /\ UNCHANGED <<chan, userSide, look, tcp>>

\* One message of a proxy's channel, if there is one.
Control(d, i) ==
  LET p   == d.proxies[i]
      msg == Head(d.chan[p.ch].net)
      h   == Len(d.tcp) + 1
      rest == [d EXCEPT !.chan[p.ch].net = Tail(@)]
  IN IF p.ch = NoChannel \/ d.chan[p.ch].net = <<>> THEN d
     ELSE CASE msg.op = "bind" -> [rest EXCEPT !.proxies[i].port = msg.val[1]]
            [] msg.op = "listen" ->
                 IF p.port = 0 THEN rest
                 ELSE [rest EXCEPT !.tcp = Append(@, TcpSocket(p.port, "listen")),
                                   !.proxies[i].mode = "listen", !.proxies[i].h = h]
            [] msg.op = "connect" ->
                 [rest EXCEPT !.tcp = Append(@, TcpSocket(0, "active")),
                              !.proxies[i].mode = "conn", !.proxies[i].h = h]
            [] msg.op = "send" ->
                 IF p.mode # "conn" THEN [rest EXCEPT !.chan[p.ch].cut = TRUE]
                 ELSE [rest EXCEPT !.proxies[i].tx = @ \o SubSeq(msg.val, 1, Min({CtrlLen, Len(msg.val)})),
                                   !.chan[p.ch].cut = @ \/ Len(msg.val) > CtrlLen]

ReadControl ==
  /\ phase = "ctrl" /\ phase' = "poll"
  /\ LET d == FoldLeft(Control, [chan |-> chan, proxies |-> proxies, tcp |-> tcp], [i \in DOMAIN proxies |-> i])
     IN chan' = d.chan /\ proxies' = d.proxies /\ tcp' = d.tcp
  /\ UNCHANGED <<reg, userSide, look>>

\* iface.poll: hosts connect to listening sockets and send on connections.
PeerConnects(h) ==
  /\ phase = "poll" /\ tcp[h].st = "listen"
  /\ Cardinality({k \in DOMAIN tcp : tcp[k].st = "active"}) < plan.conns
  /\ tcp' = [tcp EXCEPT ![h].st = "active"]
  /\ UNCHANGED <<reg, chan, userSide, phase, look, proxies>>

PeerSends(h) ==
  /\ phase = "poll" /\ tcp[h].st = "active" /\ tcp[h].sent < plan.bytes
  /\ tcp' = [tcp EXCEPT ![h].sent = @ + 1, ![h].in = Append(@, tcp[h].sent + 1)]
  /\ UNCHANGED <<reg, chan, userSide, phase, look, proxies>>

Connections == {i \in DOMAIN proxies : proxies[i].mode = "conn"}

\* The next proxy after i that listens with a socket that became connected, or
\* the end.
NextActive(i) ==
  Min({Len(proxies) + 1} \cup
      {j \in DOMAIN proxies : j > i /\ proxies[j].mode = "listen" /\ tcp[proxies[j].h].st = "active"})

\* After the poll, what is queued for a connection is sent as far as there is
\* room.
PollAndSend(room) ==
  /\ phase = "poll" /\ phase' = "listen" /\ look' = [NoLook EXCEPT !.i = NextActive(0)]
  /\ LET n(i) == Min({room, Len(proxies[i].tx)})
     IN /\ proxies' = [i \in DOMAIN proxies |->
                         IF i \in Connections THEN [proxies[i] EXCEPT !.tx = SubSeq(@, n(i) + 1, Len(@))]
                         ELSE proxies[i]]
        /\ tcp' = [h \in DOMAIN tcp |->
                     [tcp[h] EXCEPT !.out = @ \o FlattenSeq([i \in DOMAIN proxies |->
                        IF i \in Connections /\ proxies[i].h = h THEN SubSeq(proxies[i].tx, 1, n(i)) ELSE <<>>])]]
  /\ UNCHANGED <<reg, chan, userSide>>

\* The scan is over: the new connections join the proxies.
ConnJoined ==
  /\ phase = "listen" /\ look.i > Len(proxies)
  /\ phase' = "relay" /\ proxies' = proxies \o look.new /\ look' = NoLook
  /\ UNCHANGED <<reg, chan, userSide, tcp>>

\* The call has returned: the connection gets a proxy, and a new socket listens
\* in place of the old.
Returned(ch) ==
  LET p == proxies[look.i]
  IN /\ tcp' = Append(tcp, TcpSocket(p.port, "listen"))
     /\ proxies' = [proxies EXCEPT ![look.i].h = Len(tcp) + 1]
     /\ look' = [look EXCEPT !.i = NextActive(@), !.new = Append(@, Proxy(ch, 0, "conn", p.h)), !.fd = 0, !.ch = 0]
     /\ phase' = "listen"

\* daemon_create_conn makes a channel and gives its ends to the daemon and to
\* the owner of the socket.  If the owner is gone the call returns ESRCH, one
\* instruction too far, with the daemon's end left in its table; the daemon,
\* which only knows usize::MAX as a failure, takes the error for a descriptor.
CreateConn ==
  /\ phase = "listen" /\ look.i \in DOMAIN proxies
  /\ LET sid == proxies[look.i].sid
         new == NewChannel("stream", sid)
     IN IF life = "gone"
        THEN chan' = Append(chan, [new EXCEPT !.open = FALSE]) /\ Returned(NoChannel) /\ UNCHANGED fds
        ELSE /\ chan' = Append(chan, new)
             /\ fds' = (FreeFd :> Len(chan) + 1) @@ fds
             /\ look' = [look EXCEPT !.fd = FreeFd, !.ch = Len(chan) + 1]
             /\ phase' = "push" /\ UNCHANGED <<proxies, tcp>>
  /\ UNCHANGED <<reg, plan, life, mine>>

\* ... then the fd goes to the accepted ones, ...
PushConn ==
  /\ phase = "push" /\ phase' = "wake"
  /\ reg' = PushPendingAccepted(reg, proxies[look.i].sid, look.fd)
  /\ UNCHANGED <<chan, userSide, look, proxies, tcp>>

\* ... and one waiter is enqueued.
WakeAccept ==
  /\ phase = "wake"
  /\ reg' = PopWaitingPid(reg, proxies[look.i].sid)
  /\ Returned(look.ch)
  /\ UNCHANGED <<chan, userSide>>

\* What has arrived goes to the process, if it still has the channel.
Relay ==
  /\ phase = "relay" /\ phase' = "drain"
  /\ LET from(c) == {i \in Connections : proxies[i].ch = c /\ tcp[proxies[i].h].in # <<>>}
     IN chan' = [c \in DOMAIN chan |->
                   IF chan[c].open /\ from(c) # {}
                   THEN [chan[c] EXCEPT !.user = Append(@, tcp[proxies[Min(from(c))].h].in)] ELSE chan[c]]
  /\ tcp' = [h \in DOMAIN tcp |->
               IF \E i \in Connections : proxies[i].h = h THEN [tcp[h] EXCEPT !.in = <<>>] ELSE tcp[h]]
  /\ UNCHANGED <<reg, userSide, look, proxies>>

SockStep ==
  \/ Socket \/ ProcessEnds
  \/ \E fd \in mine :
       \/ \E port \in plan.ports : Bind(fd, port)
       \/ Listen(fd) \/ Connect(fd) \/ Accept(fd) \/ CloseSocket(fd)
       \/ \E n \in 1..(CtrlLen + 1) : SockSend(fd, n)
       \/ \E max \in 1..plan.bytes : SockRecv(fd, max)
  \/ Drain \/ ReadControl \/ ConnJoined \/ CreateConn \/ PushConn \/ WakeAccept \/ Relay
  \/ \E h \in DOMAIN tcp : PeerConnects(h) \/ PeerSends(h)
  \/ \E room \in {0, 1, plan.bytes} : PollAndSend(room)

-----------------------------------------------------------------------------
SockTypeOK ==
  /\ phase \in {"drain", "ctrl", "poll", "listen", "push", "wake", "relay"}
  /\ mine \subseteq DOMAIN fds
  /\ \A fd \in DOMAIN fds : fds[fd] \in DOMAIN chan /\ chan[fds[fd]].open
  /\ \A i \in DOMAIN proxies : proxies[i].ch \in DOMAIN chan \cup {NoChannel} /\ proxies[i].h \in 0..Len(tcp)
  /\ Len(reg.owner) = reg.next - 1

\* No byte is lost, doubled or out of order on its way through smoltcp's
\* buffers, the daemon and the channel, in either direction, on a socket the
\* process has open, unless a buffer of the process or of the daemon was too
\* small for a message (sock_send, sock_recv, and the daemon's loop).
StreamIntact ==
  \A i \in Connections : proxies[i].ch # NoChannel =>
    LET p == proxies[i]
        c == chan[p.ch]
        t == tcp[p.h]
        sending == FlattenSeq([k \in DOMAIN c.net |-> IF c.net[k].op = "send" THEN c.net[k].val ELSE <<>>])
    IN (c.open /\ ~c.cut) =>
         /\ FlattenSeq(c.user) \o t.in = Bytes(c.got, t.sent - c.got)
         /\ t.out \o p.tx \o sending = Bytes(0, c.sent)

\* The connections waiting for accept, over all sockets.
Waiting == {<<sid, k>> : sid \in DOMAIN reg.accepted, k \in 1..plan.conns}
           \cap UNION {{sid} \X DOMAIN reg.accepted[sid] : sid \in DOMAIN reg.accepted}
FdOf(w) == reg.accepted[w[1]][w[2]]

\* While the process lives, every connection is handed to it once: two of them
\* never wait under one number or share a channel, none waits under a number
\* the process already uses, and each is on the channel made for it and came in
\* on the port its listening socket was bound to, with sockets opened, closed
\* and opened again while daemon_create_conn is half way (daemon_create_conn,
\* accept, and the daemon's check of its listening sockets).  The numbers say
\* nothing of which socket accept looks at: see AcceptsItsOwn.
AcceptedOnce ==
  /\ \A i, j \in Connections :
       proxies[i].h = proxies[j].h \/ (proxies[i].ch = proxies[j].ch /\ proxies[i].ch # NoChannel) => i = j
  /\ \A i \in Connections, l \in DOMAIN proxies :
       (proxies[i].ch # NoChannel /\ proxies[l].mode = "listen" /\ proxies[l].sid = chan[proxies[i].ch].of /\ l # i)
         => tcp[proxies[i].h].port = proxies[l].port
  /\ life = "live" =>
       /\ \A w, v \in Waiting : FdOf(w) = FdOf(v) => w = v
       /\ \A w \in Waiting : /\ FdOf(w) \in DOMAIN fds \ mine
                            /\ chan[fds[FdOf(w)]].of = w[1] /\ chan[fds[FdOf(w)]].use = "stream"

\* What accept on a socket returns was made to that socket.  It does not hold:
\* socket_id_for_fd finds the oldest socket that had the number, closed or not.
AcceptsItsOwn ==
  \A fd \in mine : fd \in Range(reg.owner) /\ chan[fds[fd]].use = "listen" =>
    \A g \in Range(reg.accepted[SidOf(fd)]) : chan[fds[g]].of = chan[fds[fd]].of
=============================================================================
