---------------------------- MODULE EpollServer ----------------------------
(***************************************************************************)
(* The server under _SOCKET_run_epoll (socket_io.c): the loop takes one    *)
(* ready descriptor at a time and runs its handler to the end, clients     *)
(* connect, send, leave and reset at any moment in between.                *)
(*                                                                         *)
(* epoll is level-triggered, and a batch of events is handled after it was *)
(* taken, so a handler may run on a connection whose state has changed     *)
(* since: a reset is seen as EPOLLERR/EPOLLHUP, as a failing recv or as a  *)
(* failing send, and data that has just arrived does not stop a send.      *)
(***************************************************************************)
EXTENDS Server

vars == svars

\* EPOLLERR or EPOLLHUP: the descriptor is closed and nothing else is done.
Hangup(fd) ==
  /\ peer[fd] = "reset"
  /\ Become(CloseFd(server, fd), inbox, view)

\* EPOLLIN
Receive(fd) == \/ Hangup(fd)
               \/ Gone(fd) /\ ReceiveNothing(fd)
               \/ ReceiveRequest(fd)
               \/ ReceivePart(fd)

\* EPOLLOUT: SOCKET_send_all_data_fd goes on with the first pending transfer
\* of the client.
SendPending(fd) ==
  /\ fd \in server.open
  /\ Pending(server, fd) # {}
  /\ Send(First(Pending(server, fd)))

Next ==
  \/ \E fd \in Clients : \/ Accept(fd)
                         \/ Receive(fd)
                         \/ SendPending(fd)
                         \/ ClientSend(fd)
                         \/ ClientFin(fd)
                         \/ ClientReset(fd)
  \/ \E name \in Names, size \in Sizes : Edit(name, size)

\* epoll_wait reports every ready descriptor again until it has been dealt
\* with, and the loop handles every descriptor it reports; a client that is
\* sent something reads it, or its connection ends.  So Receive and SendPending
\* are weakly fair for each client.  The two conditions are when they are
\* enabled (a send of no bytes changes nothing): WF is written out with them,
\* since TLC takes very long to find ENABLED of a whole handler.
Readable(fd) == inbox[fd] # NoRequest \/ peer[fd] \in {"fin", "reset"}

Writable(fd) ==
  /\ Pending(server, fd) # {}
  /\ \/ peer[fd] = "reset"
     \/ Offered(server, disk, server.send_d[First(Pending(server, fd))]) # 0

Fairness ==
  \A fd \in Clients : /\ []<>~Readable(fd) \/ []<><<Receive(fd)>>_vars
                      /\ []<>~Writable(fd) \/ []<><<SendPending(fd)>>_vars

Spec == Init /\ [][Next]_vars /\ Fairness
=============================================================================
