---------------------------- MODULE SelectServer ----------------------------
(***************************************************************************)
(* The server under _SOCKET_run_select (socket_io.c).  select copies the   *)
(* readable descriptors to read_fds; the loop then counts i down from      *)
(* fdmax, handles i if its bit is set, and after every i, set or not, goes *)
(* through send_d[] and sends the next part of each pending transfer.      *)
(*                                                                         *)
(* Closing a connection clears its bit in master, not in read_fds: a bit   *)
(* can be stale when its turn comes.  SOCKET_process then fails to receive *)
(* and closes the number again.  What the number may have been given to in *)
(* the meantime is not modelled: run Select shows that no bit is stale as  *)
(* long as clients leave only when they have their answer, run SelectStale *)
(* stops at the first stale bit.                                           *)
(***************************************************************************)
EXTENDS Server

CONSTANT Listener     \* socket_server

\* Every client gets a number above the listening socket's.
ASSUME ListenerAssumption == Listener \in Nat \ {0} /\ \A fd \in Clients : Listener < fd

VARIABLES fdmax,      \* the highest number ever accepted
          read_fds,   \* the bits of read_fds below the i handled last
          i,          \* the descriptor handled last
          passes,     \* SOCKET_send_all_data calls to be made before the next one
          slot        \* the entry of send_d[] the present call has come to

loop == <<fdmax, read_fds, i, passes, slot>>
vars == <<svars, loop>>

LoopTypeOK ==
  /\ TypeOK
  /\ fdmax \in Clients \cup {Listener}
  /\ read_fds \subseteq Clients \cup {Listener}
  /\ i \in 0..fdmax + 1
  /\ passes \in 0..fdmax + 2
  /\ slot \in SendSlots \cup {0}

SelectInit ==
  /\ Init
  /\ fdmax = Listener
  /\ read_fds = {} /\ i = 0 /\ passes = 0 /\ slot = 0

-----------------------------------------------------------------------------
(* Between two descriptors. *)

PendingSlots(w, from) ==
  {j \in SendSlots : from <= j /\ w.send_d[j].http_content_size > 0
                                 /\ w.send_d[j].socket_fd > 0}

\* The next descriptor whose bit is set, or 0 for the end of the scan.
NextBit(bits) == IF bits = {} THEN 0 ELSE Last(bits)

\* The calls between descriptor n and the next one with its bit set: one after
\* each number in between and one at the end of the scan.
Between(n, bits) == n - NextBit(bits) - IF bits = {} THEN 0 ELSE 1

\* Up to the next handler or the next entry of send_d[] with something to send:
\* calls that find nothing pending are passed over.
Onward(w, n, calls, from) ==
  LET here == PendingSlots(w, from)
      again == PendingSlots(w, 1)
  IN IF calls > 0 /\ here # {}
     THEN passes' = calls /\ slot' = First(here) /\ i' = n
     ELSE IF calls > 1 /\ again # {}
     THEN passes' = calls - 1 /\ slot' = First(again) /\ i' = n
     ELSE passes' = 0 /\ slot' = 0 /\ i' = NextBit(read_fds')

-----------------------------------------------------------------------------
(* The loop. *)

\* The readable descriptors of master.  Mutant: the bit of a closed connection
\* is not cleared in master.
ReadyUncleared ==
  {fd \in Clients : /\ fd <= fdmax
                    /\ inbox[fd] # NoRequest \/ peer[fd] \in {"fin", "reset", "none"}}
Ready ==
  {fd \in Clients : /\ fd <= fdmax
                    /\ inbox[fd] # NoRequest \/ peer[fd] \in {"fin", "reset"}}

\* select returns at once: its timeout is zero.
Select ==
  /\ i = 0 /\ passes = 0
  /\ \E waiting \in SUBSET {Listener} : read_fds' = Ready \cup waiting
  /\ Onward(server, fdmax + 1, Between(fdmax + 1, read_fds'), 1)
  /\ UNCHANGED <<svars, fdmax>>

\* The handler of i has run, more calls of SOCKET_send_all_data are due.
Handled(calls) ==
  /\ read_fds' = read_fds \ {i}
  /\ Onward(server', i, calls + Between(i, read_fds'), 1)

Due(n) == passes = 0 /\ i = n

\* Mutant: fdmax is not raised.
FdmaxKept(fd) == fdmax
FdmaxAfter(fd) == IF fd > fdmax THEN fd ELSE fdmax

\* A client has connected.
AcceptClient(fd) ==
  /\ Due(Listener)
  /\ Accept(fd)
  /\ fdmax' = FdmaxAfter(fd)
  /\ Handled(1)

\* accept fails: with EAGAIN the loop goes straight on to the next descriptor.
AcceptFails ==
  /\ Due(Listener)
  /\ UNCHANGED <<svars, fdmax>>
  /\ Handled(IF HasRoom(server) THEN 0 ELSE 1)

\* SOCKET_process, which is not told whether the connection still exists.
Receive(fd) ==
  /\ Due(fd)
  /\ \/ (fd \notin server.open \/ Gone(fd)) /\ ReceiveNothing(fd)
     \/ ReceiveRequest(fd)
  /\ UNCHANGED fdmax
  /\ Handled(2)

\* SOCKET_send_all_data at one entry of send_d[].
Progress ==
  /\ passes > 0
  /\ Send(slot)
  /\ UNCHANGED <<read_fds, fdmax>>
  /\ Onward(server', i, passes, slot + 1)

WouldBlock ==
  /\ passes > 0
  /\ UNCHANGED <<svars, read_fds, fdmax>>
  /\ Onward(server, i, passes, slot + 1)

Loop ==
  \/ Select
  \/ \E fd \in Clients : AcceptClient(fd) \/ Receive(fd)
  \/ AcceptFails
  \/ Progress
  \/ WouldBlock

SelectNext ==
  \/ Loop
  \/ /\ \E fd \in Clients : ClientSend(fd) \/ ClientFin(fd)
     /\ UNCHANGED loop

\* The loop never waits and always has a step: weak fairness of Loop says that
\* it goes on.  A client that is sent something again and again reads it at some
\* time: Progress is strongly fair for each entry.
Fairness ==
  /\ []<><<Loop>>_vars
  /\ \A j \in SendSlots :
       <>[]~(passes > 0 /\ slot = j) \/ []<><<slot = j /\ Progress>>_vars

SelectSpec == SelectInit /\ [][SelectNext]_vars /\ Fairness

-----------------------------------------------------------------------------
(* As long as clients leave only when they have their answer. *)

\* SOCKET_process runs on connected clients only (socket_io.c:355): no handler
\* and no send between select and the turn of a descriptor closes it.
BitsAreConnections == read_fds \subseteq server.open \cup {Listener}
=============================================================================
