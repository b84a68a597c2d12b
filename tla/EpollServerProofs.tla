------------------------- MODULE EpollServerProofs -------------------------
(***************************************************************************)
(* The invariants of the server under epoll, for every number of clients,  *)
(* slots and files: first those that hold whatever clients and writers of  *)
(* files do, resets, hang-ups, pipelined requests and requests in parts    *)
(* included; then those that follow from SlotInv, TurnInv, SourceInv and   *)
(* LeaseInv, each under the hypotheses defined beside its inductive        *)
(* invariant in ServerProofs and TransferProofs.                           *)
(***************************************************************************)
EXTENDS EpollServer, TransferProofs

\* SOCKET_send_all_data_fd works on a pending slot of the client it is called
\* for.
LEMMA SendPendingIs ==
  ASSUME NEW fd \in Clients, SendPending(fd)
  PROVE  \E j \in SendSlots : /\ server.send_d[j].socket_fd = fd
                              /\ server.send_d[j].http_content_size > 0
                              /\ Send(j)
<1> DEFINE S == Pending(server, fd)
<1>1. /\ S \in SUBSET SendSlots /\ S # {}
      /\ \A j \in S : server.send_d[j].socket_fd = fd /\ server.send_d[j].http_content_size > 0
  BY DEF SendPending, Pending, SendSlotsOf
<1>2. Send(First(S))
  BY DEF SendPending
<1> HIDE DEF S
<1>3. First(S) \in S
  BY <1>1, FirstSendSlot
<1> QED
  BY <1>1, <1>2, <1>3

LEMMA SendPendingOK ==
  ASSUME Inv, NEW fd \in Clients, SendPending(fd)
  PROVE  Inv'
BY SendPendingIs, SendOK

\* Every event of the loop, and everything that happens around it, preserves the
\* invariant.
LEMMA EpollNext == Inv /\ [Next]_vars => Inv'
<1> SUFFICES ASSUME Inv, [Next]_vars
             PROVE  Inv'
  OBVIOUS
<1>1. ASSUME NEW fd \in Clients, Accept(fd)
      PROVE  Inv'
  BY <1>1, AcceptOK
<1>2. ASSUME NEW fd \in Clients, Receive(fd)
      PROVE  Inv'
  BY <1>2, GoneOK, ReceiveOK DEF Receive, Hangup
<1>3. ASSUME NEW fd \in Clients, SendPending(fd)
      PROVE  Inv'
  BY <1>3, SendPendingOK
<1>4. ASSUME NEW fd \in Clients, ClientSend(fd) \/ ClientFin(fd) \/ ClientReset(fd)
      PROVE  Inv'
  BY <1>4, EnvironmentOK
<1>5. ASSUME NEW name \in Names, NEW size \in Sizes, Edit(name, size)
      PROVE  Inv'
  BY <1>5, EnvironmentOK
<1>6. CASE UNCHANGED vars
  BY <1>6, EnvironmentOK DEF vars
<1> QED
  BY <1>1, <1>2, <1>3, <1>4, <1>5, <1>6 DEF Next

\* Tables, slots of send_d[], counter and connections are consistent in every
\* state the server reaches.
THEOREM ServerConsistent == Spec => []Inv
BY ServerInit, EpollNext, PTL DEF Spec

\* Every part of the server's record keeps its type: no chunk, second request or
\* reuse of a slot makes a size negative or a stream something else.
THEOREM TypeCorrect == Spec => []TypeOK
BY ServerConsistent, InvImplies, PTL

\* http_conn_count never exceeds the connections that are open and never falls
\* below -2, although SESSION_delete_send_struct and its callers count twice.
THEOREM NeverOvercounted == Spec => []CountNeverOver
BY ServerConsistent, InvImplies, PTL

\* Sent and missing bytes of each slot of send_d[] add up to the total.
THEOREM TransfersBalance == Spec => []TransferBalance
BY ServerConsistent, InvImplies, PTL

\* A slot whose transfer has ended on a connection that is not kept alive is
\* reset by the handler that ended it.
THEOREM FinishedAreCleared == Spec => []NoFinishedTransferKept
BY ServerConsistent, InvImplies, PTL

\* File table and cache agree after every handler, also after closes through
\* stale pointers of send_d[].
THEOREM TablesStayConsistent == Spec => []TablesAgree
BY ServerConsistent, InvImplies, PTL
-----------------------------------------------------------------------------
(* Clients that do not reset connections, and wait for their answers.      *)

\* A step is one of an open connection, of a client or of a writer of files:
\* nobody hangs up without a last word.
LEMMA EpollSteps ==
  ASSUME SlotInv, [Next]_vars
  PROVE  \/ \E fd \in Clients : Accept(fd)
         \/ \E fd \in Clients : Gone(fd) /\ ReceiveNothing(fd)
         \/ \E fd \in Clients : ReceiveRequest(fd) \/ ReceivePart(fd)
         \/ \E fd \in Clients : SendPending(fd)
         \/ \/ \E fd \in Clients : ClientSend(fd) \/ ClientFin(fd) \/ ClientReset(fd)
            \/ \E name \in Names, size \in Sizes : Edit(name, size)
            \/ UNCHANGED svars
<1>1. \A fd \in Clients : ~Hangup(fd)
  BY DEF SlotInv, Hangup
<1> QED
  BY <1>1 DEF Next, Receive, vars

\* Without resets every handler keeps slots and connections in step.
LEMMA EpollSlots ==
  ASSUME NoResets, FewConnections, SlotInv, [Next]_vars
  PROVE  SlotInv'
<1>1. ASSUME NEW fd \in Clients, SendPending(fd)
      PROVE  SlotInv'
  BY <1>1, SendPendingIs, SendSlotsKept
<1> QED
  BY <1>1, EpollSteps, AcceptSlots, GoneSlots, ReceiveSlots, EnvironmentSlots

\* Every open connection has one slot of send_d[], no slot outlives its
\* connection: accepts, refusals, closes by either side and reuses of a
\* descriptor never leave one over, as long as connections are not reset (a
\* hangup closes the descriptor and forgets the slot) and fewer than MAX_CLIENTS
\* are open (the next one is accepted without a slot).
THEOREM SlotPerConnection ==
  ASSUME NoResets, FewConnections
  PROVE  Spec => []OneSlotPerConnection
<1>1. Spec => []SlotInv
  <2>1. SlotInv /\ [Next]_vars => SlotInv'
    BY EpollSlots
  <2> QED
    BY SlotsInit, <2>1, PTL DEF Spec
<1> QED
  BY <1>1, OneSlotEach, PTL

\* The record of each transfer follows what its client has received.
LEMMA EpollTurns ==
  ASSUME InTurn, FewConnections, TurnInv, [Next]_vars
  PROVE  TurnInv'
<1>1. ASSUME NEW fd \in Clients, SendPending(fd)
      PROVE  TurnInv'
  BY <1>1, SendPendingIs, SendTurns
<1>2. SlotInv
  BY DEF TurnInv
<1> QED
  BY <1>1, <1>2, EpollSteps, AcceptTurns, GoneTurns, ReceiveTurns, EnvironmentTurns

LEMMA EpollInTurn ==
  ASSUME InTurn, FewConnections
  PROVE  Spec => []TurnInv
<1>1. TurnInv /\ [Next]_vars => TurnInv'
  BY EpollTurns
<1> QED
  BY TurnsInit, <1>1, PTL DEF Spec

\* What the server has sent of a transfer is what its client has received of the
\* answer it waits for, and what is missing is what the client still expects,
\* over any number of chunks, clients and reused slots.  A request that comes
\* early or in parts, or HEAD, makes a second header arrive inside the content.
THEOREM TransfersMatchViews ==
  ASSUME InTurn, FewConnections
  PROVE  Spec => []TransferMatchesView
BY EpollInTurn, TurnsImply, PTL

\* No connection stays open behind a complete answer to a client that asked to
\* close: what ended the transfer has closed it in the same step.
THEOREM ClosesWhenDone ==
  ASSUME InTurn, FewConnections
  PROVE  Spec => []ClosedWhenDone
BY EpollInTurn, TurnsImply, PTL

-----------------------------------------------------------------------------
(* Files that nobody edits, and room in the file table.                    *)

\* No handler takes away what another client is being sent from.
LEMMA EpollSources ==
  ASSUME Undisturbed, FewConnections, SourceInv, [Next]_vars
  PROVE  SourceInv' /\ CloseCaused
<1>1. SlotInv
  BY DEF SourceInv, TurnInv
<1>2. ASSUME NEW fd \in Clients, Accept(fd)
      PROVE  SourceInv' /\ CloseCaused
  BY <1>2, AcceptSources, OthersCaused
<1>3. ASSUME NEW fd \in Clients, Gone(fd) /\ ReceiveNothing(fd)
      PROVE  SourceInv' /\ CloseCaused
  BY <1>3, GoneSources, ReceiveCaused
<1>4. ASSUME NEW fd \in Clients, ReceiveRequest(fd) \/ ReceivePart(fd)
      PROVE  SourceInv' /\ CloseCaused
  BY <1>4, ReceiveSources, ReceiveCaused
<1>5. ASSUME NEW fd \in Clients, SendPending(fd)
      PROVE  SourceInv' /\ CloseCaused
  BY <1>5, SendPendingIs, SendSources, SendCaused
<1>6. ASSUME \/ \E fd \in Clients : ClientSend(fd) \/ ClientFin(fd) \/ ClientReset(fd)
             \/ \E name \in Names, size \in Sizes : Edit(name, size)
             \/ UNCHANGED svars
      PROVE  SourceInv' /\ CloseCaused
  BY <1>6, EnvironmentSources, OthersCaused
<1> QED
  BY <1>1, <1>2, <1>3, <1>4, <1>5, <1>6, EpollSteps

LEMMA EpollUndisturbed ==
  ASSUME Undisturbed, FewConnections
  PROVE  Spec => []SourceInv
<1>1. SourceInv /\ [Next]_vars => SourceInv'
  BY EpollSources
<1> QED
  BY SourcesInit, <1>1, PTL DEF Spec

\* Whatever other clients open and close, a pending transfer can read on: its
\* stream is open, its lease in the table, its content in the cache.  Undisturbed
\* says when: with the file table full a client reads through leases of others,
\* and a conditional request closes a file twice.
THEOREM TransfersCanReadOn ==
  ASSUME Undisturbed, FewConnections
  PROVE  Spec => []PendingReadable
BY EpollUndisturbed, SourcesImply, PTL

\* Every client receives the bytes of the file it asked for, in order, once, as
\* many as were announced, although streams, cache entries, slots and
\* descriptors are shared and reused by the others.
THEOREM ContentStaysIntact ==
  ASSUME Undisturbed, WholeFiles, FewConnections
  PROVE  Spec => []ContentIntact
<1>1. SourceInv => ContentIntact
  BY SourcesImply
<1> QED
  BY EpollUndisturbed, <1>1, PTL

\* The server ends a connection only when its client has left, has asked for it
\* or has sent what is refused: never because of what another client did, and
\* never in the middle of a transfer that is to be kept alive.
THEOREM ClosesForCause ==
  ASSUME Undisturbed, FewConnections
  PROVE  Spec => ClosedForCause
<1>1. SourceInv /\ [Next]_vars => [CloseCaused]_svars
  BY EpollSources
<1>2. Spec => [][CloseCaused]_svars
  BY EpollUndisturbed, <1>1, PTL DEF Spec
<1> QED
  BY <1>2 DEF ClosedForCause, CloseCaused

-----------------------------------------------------------------------------
(* Every connection gets one answer, and it has content.                   *)

LEMMA EpollLeases ==
  ASSUME Frugal, FewConnections, LeaseInv, [Next]_vars
  PROVE  LeaseInv'
<1>1. ASSUME NEW fd \in Clients, SendPending(fd)
      PROVE  LeaseInv'
  BY <1>1, SendPendingIs, SendLeases
<1>2. SlotInv
  BY DEF LeaseInv, TurnInv
<1> QED
  BY <1>1, <1>2, EpollSteps, AcceptLeases, GoneLeases, ReceiveLeases, EnvironmentLeases

\* No slot of the file table outlives the transfer it was made for: a server
\* that runs for long does not run out of them.  Keep-alive, empty files and
\* ranges leave slots behind, whoever their client is (see Frugal).
THEOREM LeasesEnd ==
  ASSUME Frugal, FewConnections
  PROVE  Spec => []NoOrphanLease
<1>1. Spec => []LeaseInv
  <2>1. LeaseInv /\ [Next]_vars => LeaseInv'
    BY EpollLeases
  <2>2. Init => LeaseInv
    BY LeasesInit DEF Frugal
  <2> QED
    BY <2>1, <2>2, PTL DEF Spec
<1> QED
  BY <1>1, LeasesImply, PTL
=============================================================================
