------------------------- MODULE SelectServerProofs -------------------------
(***************************************************************************)
(* The invariants of the server under select, for every number of clients, *)
(* slots and files: those it shares with epoll, and those of the scan.     *)
(* The last say that read_fds has no stale bits and that clients get what  *)
(* they asked for, from the inductive invariants of ServerProofs and       *)
(* TransferProofs.                                                         *)
(***************************************************************************)
EXTENDS SelectServer, TransferProofs

(***************************************************************************)
(* The scan: bits lie at or below fdmax; while SOCKET_send_all_data is     *)
(* called, below the number handled last, and slot is one with something   *)
(* to send; otherwise i is the next number with its bit set.               *)
(***************************************************************************)
ScanOK ==
  /\ fdmax \in Clients \cup {Listener}
  /\ Listener <= fdmax
  /\ read_fds \subseteq Clients \cup {Listener}
  /\ \A bit \in read_fds : bit <= fdmax
  /\ i \in 0..fdmax + 1
  /\ passes \in 0..fdmax + 2
  /\ slot \in SendSlots \cup {0}
  /\ passes > 0 => /\ slot \in PendingSlots(server, 1)
                   /\ \A bit \in read_fds : bit < i
  /\ passes = 0 => i = NextBit(read_fds)

SelectInv == Inv /\ ScanOK

\* Descriptors are numbers.
LEMMA BitType ==
  \A bit \in Clients \cup {Listener} : bit \in Nat \ {0}
BY ClientsAssumption, ListenerAssumption

\* The next bit is one of the bits, the highest, or 0.
LEMMA NextBitIs ==
  ASSUME NEW bits \in SUBSET (Clients \cup {Listener}), NEW n \in Nat,
         \A bit \in bits : bit <= n
  PROVE  /\ NextBit(bits) \in 0..n
         /\ bits = {} => NextBit(bits) = 0
         /\ bits # {} => /\ NextBit(bits) \in bits /\ NextBit(bits) > 0
                         /\ \A bit \in bits : bit <= NextBit(bits)
<1>1. CASE bits = {}
  BY <1>1 DEF NextBit
<1>2. CASE bits # {}
  <2>1. bits \in SUBSET (0..n)
    BY BitType
  <2>2. NextBit(bits) \in bits /\ \A bit \in bits : bit <= NextBit(bits)
    BY <1>2, <2>1, GreatestElement DEF NextBit
  <2> DEFINE next == NextBit(bits)
  <2>3. next \in bits /\ next \in 0..n
    BY <2>1, <2>2
  <2>4. next # 0
    BY <2>3, BitType
  <2> HIDE DEF next
  <2>5. next > 0
    BY <2>3, <2>4
  <2>6. NextBit(bits) \in 0..n /\ NextBit(bits) > 0
    BY <2>3, <2>5 DEF next
  <2> QED
    BY <1>2, <2>2, <2>6
<1> QED
  BY <1>1, <1>2

\* How often SOCKET_send_all_data is called before the next bit.
LEMMA BetweenIs ==
  ASSUME NEW bits \in SUBSET (Clients \cup {Listener}), NEW n \in Nat,
         \A bit \in bits : bit < n
  PROVE  Between(n, bits) \in 0..n
<1>1. \A bit \in bits : bit <= n /\ bit \in Nat
  BY BitType
<1>2. /\ NextBit(bits) \in 0..n
      /\ bits = {} => NextBit(bits) = 0
      /\ bits # {} => NextBit(bits) \in bits
  BY <1>1, NextBitIs
<1>3. CASE bits = {}
  BY <1>2, <1>3 DEF Between
<1>4. CASE bits # {}
  <2> DEFINE next == NextBit(bits)
  <2>1. next \in Nat /\ next < n
    BY <1>2, <1>4
  <2>2. Between(n, bits) = n - next - 1
    BY <1>4 DEF Between
  <2> HIDE DEF next
  <2> QED
    BY <2>1, <2>2
<1> QED
  BY <1>3, <1>4

\* Going on from number n: at the next entry of send_d[] with something to send,
\* or at the next bit.
LEMMA OnwardOK ==
  ASSUME NEW w, NEW n \in Nat, NEW calls \in Nat, NEW from \in Nat \ {0}, Onward(w, n, calls, from),
         w = server',
         fdmax' \in Clients \cup {Listener}, Listener <= fdmax',
         read_fds' \in SUBSET (Clients \cup {Listener}),
         \A bit \in read_fds' : bit < n /\ bit <= fdmax',
         n <= fdmax' + 1, calls <= fdmax' + 2
  PROVE  ScanOK'
<1> DEFINE here == PendingSlots(w, from)
           again == PendingSlots(w, 1)
<1>1. fdmax' \in Nat
  BY BitType
<1>2. here \in SUBSET SendSlots /\ again \in SUBSET SendSlots /\ here \subseteq again
  BY DEF PendingSlots, SendSlots
<1>3. /\ here # {} => First(here) \in here
      /\ again # {} => First(again) \in again
  BY <1>2, FirstSendSlot
<1>4. \/ /\ calls > 0 /\ passes' = calls /\ slot' \in again /\ i' = n
      \/ /\ calls > 1 /\ passes' = calls - 1 /\ slot' \in again /\ i' = n
      \/ /\ passes' = 0 /\ slot' = 0 /\ i' = NextBit(read_fds')
  <2> HIDE DEF here, again
  <2>1. IF calls > 0 /\ here # {}
        THEN passes' = calls /\ slot' = First(here) /\ i' = n
        ELSE IF calls > 1 /\ again # {}
        THEN passes' = calls - 1 /\ slot' = First(again) /\ i' = n
        ELSE passes' = 0 /\ slot' = 0 /\ i' = NextBit(read_fds')
    BY Zenon DEF Onward, here, again
  <2> QED
    BY <1>2, <1>3, <2>1
<1>5. NextBit(read_fds') \in 0..fdmax'
  BY <1>1, NextBitIs
<1>6. /\ i' \in 0..fdmax' + 1 /\ passes' \in 0..fdmax' + 2
      /\ slot' \in SendSlots \cup {0}
      /\ passes' > 0 => slot' \in again /\ \A bit \in read_fds' : bit < i'
      /\ passes' = 0 => i' = NextBit(read_fds')
  <2> HIDE DEF again
  <2>1. CASE passes' = 0 /\ slot' = 0 /\ i' = NextBit(read_fds')
    <3> DEFINE next == NextBit(read_fds')
               top == fdmax'
    <3>1. next \in 0..top /\ top \in Nat
      BY <1>1, <1>5
    <3> HIDE DEF next, top
    <3>2. next \in 0..top + 1 /\ 0 \in 0..top + 2
      BY <3>1
    <3> QED
      BY <2>1, <3>2 DEF next, top
  <2>2. CASE /\ passes' \in {calls, calls - 1} /\ passes' > 0 /\ slot' \in again /\ i' = n
    <3> DEFINE top == fdmax'
               left == passes'
    <3>1. top \in Nat /\ n <= top + 1 /\ calls <= top + 2
      BY <1>1
    <3>2. left \in {calls, calls - 1} /\ left > 0
      BY <2>2
    <3> HIDE DEF top, left
    <3>3. n \in 0..top + 1
      BY <3>1
    <3>4. left \in 0..top + 2 /\ left # 0
      BY <3>1, <3>2
    <3>5. \A bit \in read_fds' : bit < i'
      BY <2>2
    <3> QED
      BY <1>2, <2>2, <3>3, <3>4, <3>5 DEF top, left
  <2>3. calls - 1 > 0 <=> calls > 1
    OBVIOUS
  <2> QED
    BY <1>4, <2>1, <2>2, <2>3
<1>7. again = PendingSlots(server, 1)'
  BY DEF PendingSlots
<1>8. NextBit(read_fds') = NextBit(read_fds)'
  BY DEF NextBit
<1> HIDE DEF again
<1> QED
  BY <1>6, <1>7, <1>8 DEF ScanOK

\* The handler of i has run and read no bit above i.
LEMMA HandledOK ==
  ASSUME SelectInv, NEW calls \in 0..2, passes = 0, i > 0, Handled(calls),
         fdmax' \in Clients \cup {Listener}, fdmax <= fdmax'
  PROVE  ScanOK'
<1> DEFINE n == i
           bits == read_fds'
           top == fdmax'
           more == calls + Between(n, bits)
<1>1. /\ fdmax \in Nat /\ top \in Nat /\ Listener \in Nat
      /\ read_fds \in SUBSET (Clients \cup {Listener}) /\ \A bit \in read_fds : bit <= fdmax
      /\ n = NextBit(read_fds)
      /\ n \in Nat /\ n <= fdmax
  <2>1. /\ fdmax \in Nat /\ top \in Nat /\ Listener \in Nat
    BY BitType DEF SelectInv, ScanOK
  <2>2. /\ read_fds \in SUBSET (Clients \cup {Listener}) /\ \A bit \in read_fds : bit <= fdmax
        /\ n = NextBit(read_fds)
    BY DEF SelectInv, ScanOK
  <2>3. n \in 0..fdmax
    BY <2>1, <2>2, NextBitIs
  <2> QED
    BY <2>1, <2>2, <2>3
<1>2. n \in read_fds /\ \A bit \in read_fds : bit <= n
  BY <1>1, NextBitIs
<1>3. bits \in SUBSET (Clients \cup {Listener}) /\ \A bit \in bits : bit < n /\ bit <= top
  <2>1. bits = read_fds \ {n}
    BY DEF Handled
  <2>2. \A bit \in bits : bit \in Nat /\ bit <= n /\ bit # n
    BY <1>1, <1>2, <2>1, BitType
  <2>3. fdmax <= top
    OBVIOUS
  <2> HIDE DEF n, bits, top
  <2>4. \A bit \in bits : bit < n /\ bit <= top
    BY <1>1, <2>2, <2>3
  <2> QED
    BY <1>1, <2>1, <2>4
<1>4. Between(n, bits) \in 0..n
  <2> HIDE DEF n, bits
  <2> QED
    BY <1>1, <1>3, BetweenIs
<1>5. Onward(server', n, more, 1)
  BY DEF Handled
<1>6. fdmax <= top /\ Listener <= fdmax
  BY DEF SelectInv, ScanOK
<1> HIDE DEF n, top
<1>7. more \in Nat /\ more <= top + 2 /\ n <= top + 1 /\ Listener <= top
  <2> DEFINE between == Between(n, bits)
  <2>1. between \in 0..n
    BY <1>4
  <2> HIDE DEF between
  <2>2. calls + between \in Nat /\ calls + between <= top + 2
    BY <1>1, <1>6, <2>1
  <2> QED
    BY <1>1, <1>6, <2>2 DEF between
<1> HIDE DEF more
<1>8. /\ n \in Nat /\ more \in Nat /\ Onward(server', n, more, 1)
      /\ fdmax' \in Clients \cup {Listener} /\ Listener <= fdmax'
      /\ read_fds' \in SUBSET (Clients \cup {Listener})
      /\ \A bit \in read_fds' : bit < n /\ bit <= fdmax'
      /\ n <= fdmax' + 1 /\ more <= fdmax' + 2
  BY <1>1, <1>3, <1>5, <1>7 DEF top
<1> QED
  BY <1>8, OnwardOK

\* select has returned.
LEMMA SelectOK ==
  ASSUME SelectInv, Select
  PROVE  ScanOK'
<1> DEFINE bits == read_fds'
           n == fdmax + 1
           calls == Between(n, bits)
<1>1. fdmax' = fdmax /\ fdmax \in Clients \cup {Listener} /\ Listener <= fdmax
  BY DEF Select, SelectInv, ScanOK
<1>2. fdmax \in Nat /\ Listener \in Nat
  BY <1>1, BitType
<1>3. bits \in SUBSET (Clients \cup {Listener}) /\ \A bit \in bits : bit \in Nat /\ bit <= fdmax
  BY <1>1, BitType DEF Select, Ready
<1>4. \A bit \in bits : bit < n /\ bit <= fdmax'
  <2> HIDE DEF bits
  <2> QED
    BY <1>1, <1>2, <1>3
<1>5. n \in Nat /\ n <= fdmax' + 1 /\ n <= fdmax' + 2
  BY <1>1, <1>2
<1>6. calls \in 0..n
  <2> HIDE DEF n, bits
  <2> QED
    BY <1>3, <1>4, <1>5, BetweenIs
<1>7. Onward(server, n, calls, 1) /\ server = server'
  BY DEF Select, svars
<1> HIDE DEF n, calls
<1>8. calls \in Nat /\ calls <= fdmax' + 2
  <2> DEFINE top == fdmax'
  <2>1. top \in Nat
    BY <1>1, <1>2
  <2>2. n \in Nat /\ n <= top + 2
    BY <1>5
  <2> HIDE DEF top
  <2>3. calls \in Nat /\ calls <= top + 2
    BY <1>6, <2>1, <2>2
  <2> QED
    BY <2>3 DEF top
<1> QED
  BY <1>1, <1>3, <1>4, <1>5, <1>7, <1>8, OnwardOK

\* SOCKET_send_all_data has done with the present slot.
LEMMA PassOK ==
  ASSUME SelectInv, passes > 0, UNCHANGED <<read_fds, fdmax>>,
         Onward(server', i, passes, slot + 1)
  PROVE  ScanOK'
<1> DEFINE n == i
           calls == passes
           from == slot + 1
<1>1. fdmax' = fdmax /\ fdmax \in Clients \cup {Listener} /\ Listener <= fdmax /\ fdmax \in Nat
  BY BitType DEF SelectInv, ScanOK
<1>2. n \in 0..fdmax + 1 /\ calls \in 0..fdmax + 2 /\ slot \in SendSlots \cup {0}
  BY DEF SelectInv, ScanOK
<1>3. /\ read_fds' \in SUBSET (Clients \cup {Listener})
      /\ \A bit \in read_fds' : bit < n /\ bit <= fdmax'
  BY DEF SelectInv, ScanOK
<1>4. from \in Nat \ {0}
  BY <1>2 DEF SendSlots
<1>5. Onward(server', n, calls, from)
  OBVIOUS
<1> HIDE DEF n, calls, from
<1>6. n \in Nat /\ calls \in Nat /\ n <= fdmax' + 1 /\ calls <= fdmax' + 2
  BY <1>1, <1>2
<1> QED
  BY <1>1, <1>3, <1>4, <1>5, <1>6, OnwardOK

\* The slot SOCKET_send_all_data has come to is one of a client's, with something
\* to send.
LEMMA ProgressIs ==
  ASSUME SelectInv, Progress
  PROVE  /\ slot \in SendSlots
         /\ server.send_d[slot].socket_fd \in Clients
         /\ server.send_d[slot].http_content_size > 0
         /\ Send(slot)
<1>1. slot \in PendingSlots(server, 1) /\ server \in Servers
  BY DEF Progress, SelectInv, ScanOK, Inv, ServerOK
<1>2. /\ slot \in SendSlots /\ server.send_d[slot].socket_fd # 0
      /\ server.send_d[slot].http_content_size > 0
  BY <1>1 DEF PendingSlots
<1>3. server.send_d[slot].socket_fd \in Clients
  BY <1>1, <1>2 DEF Servers, SendInfo
<1> QED
  BY <1>2, <1>3 DEF Progress

LEMMA ProgressOK ==
  ASSUME SelectInv, Progress
  PROVE  Inv'
BY ProgressIs, SendOK DEF SelectInv

\* Every step of the loop, and of the clients, preserves both invariants.
LEMMA SelectStep == SelectInv /\ [SelectNext]_vars => SelectInv'
<1> SUFFICES ASSUME SelectInv, [SelectNext]_vars
             PROVE  Inv' /\ ScanOK'
  BY DEF SelectInv
<1>0. Inv /\ fdmax \in Clients \cup {Listener} /\ fdmax \in Nat /\ Listener \in Nat \ {0}
  BY BitType DEF SelectInv, ScanOK
<1>1. CASE Select
  BY <1>0, <1>1, SelectOK, EnvironmentOK DEF Select
<1>2. ASSUME NEW fd \in Clients, AcceptClient(fd)
      PROVE  Inv' /\ ScanOK'
  <2>1. fd \in Nat
    BY BitType
  <2>2. fdmax' \in Clients \cup {Listener} /\ fdmax <= fdmax'
    BY <1>0, <1>2, <2>1 DEF AcceptClient, FdmaxAfter
  <2>3. passes = 0 /\ i > 0 /\ Handled(1)
    BY <1>0, <1>2 DEF AcceptClient, Due
  <2> QED
    BY <1>0, <1>2, <2>2, <2>3, AcceptOK, HandledOK DEF AcceptClient
<1>3. CASE AcceptFails
  <2>1. passes = 0 /\ i > 0 /\ (Handled(0) \/ Handled(1)) /\ fdmax' = fdmax /\ UNCHANGED svars
    BY <1>0, <1>3 DEF AcceptFails, Due
  <2> QED
    BY <1>0, <2>1, EnvironmentOK, HandledOK
<1>4. ASSUME NEW fd \in Clients, Receive(fd)
      PROVE  Inv' /\ ScanOK'
  <2>1. fd \in Nat \ {0}
    BY BitType
  <2>2. passes = 0 /\ i > 0 /\ Handled(2) /\ fdmax' = fdmax
    BY <1>4, <2>1 DEF Receive, Due
  <2> QED
    BY <1>0, <1>4, <2>2, GoneOK, ReceiveOK, HandledOK DEF Receive
<1>5. CASE Progress
  BY <1>5, ProgressOK, PassOK DEF Progress
<1>6. CASE WouldBlock
  <2>1. server' = server
    BY <1>6 DEF WouldBlock, svars
  <2> QED
    BY <1>0, <1>6, <2>1, EnvironmentOK, PassOK DEF WouldBlock
<1>7. ASSUME UNCHANGED loop, server' = server
      PROVE  ScanOK'
  <2>1. PendingSlots(server, 1)' = PendingSlots(server, 1) /\ NextBit(read_fds)' = NextBit(read_fds)
    BY <1>7 DEF loop, PendingSlots, NextBit
  <2> QED
    BY <1>7, <2>1 DEF loop, SelectInv, ScanOK
<1>8. ASSUME NEW fd \in Clients, ClientSend(fd) \/ ClientFin(fd), UNCHANGED loop
      PROVE  Inv' /\ ScanOK'
  <2>1. server' = server
    BY <1>8 DEF ClientSend, ClientFin
  <2> QED
    BY <1>0, <1>7, <1>8, <2>1, EnvironmentOK
<1>9. CASE UNCHANGED vars
  BY <1>0, <1>7, <1>9, EnvironmentOK DEF vars, svars
<1> QED
  BY <1>1, <1>2, <1>3, <1>4, <1>5, <1>6, <1>8, <1>9 DEF SelectNext, Loop

\* The server starts before its first call of select.
LEMMA SelectStart == SelectInit => SelectInv
<1> SUFFICES ASSUME SelectInit
             PROVE  ScanOK
  BY ServerInit DEF SelectInit, SelectInv
<1>1. fdmax = Listener /\ Listener \in Nat \ {0}
  BY BitType DEF SelectInit
<1>2. NextBit(read_fds) = 0
  BY DEF SelectInit, NextBit
<1> QED
  BY <1>1, <1>2 DEF SelectInit, ScanOK

\* Tables, slots of send_d[], counter, connections and scan are consistent in
\* every state the server reaches.
THEOREM SelectConsistent == SelectSpec => []SelectInv
BY SelectStart, SelectStep, PTL DEF SelectSpec

\* The properties are parts of the invariant.
LEMMA SelectImplies ==
  SelectInv => LoopTypeOK /\ CountNeverOver /\ TransferBalance /\ TablesAgree
BY InvImplies DEF SelectInv, ScanOK, LoopTypeOK

\* The countdown never leaves 0..fdmax + 1, slot is an entry of send_d[], and the
\* server's record keeps its type, whatever send fails between two descriptors.
THEOREM ScanTypeCorrect == SelectSpec => []LoopTypeOK
BY SelectConsistent, SelectImplies, PTL

\* http_conn_count never exceeds the connections that are open, also when a bit
\* of read_fds was stale and its connection is closed a second time.
THEOREM SelectNeverOvercounted == SelectSpec => []CountNeverOver
BY SelectConsistent, SelectImplies, PTL

\* Sent and missing bytes of each slot of send_d[] add up to the total, although
\* every slot is visited after every descriptor.
THEOREM SelectTransfersBalance == SelectSpec => []TransferBalance
BY SelectConsistent, SelectImplies, PTL

\* File table and cache agree after every handler and every part sent.
THEOREM SelectTablesStayConsistent == SelectSpec => []TablesAgree
BY SelectConsistent, SelectImplies, PTL
-----------------------------------------------------------------------------
(* What the loop does to connections and transfers.                        *)

\* A step of the loop, or around it, as the event loops share them.
LEMMA SelectSteps ==
  ASSUME SelectInv, [SelectNext]_vars
  PROVE  \/ \E fd \in Clients : Accept(fd)
         \/ \E fd \in Clients : (fd \notin server.open \/ Gone(fd)) /\ ReceiveNothing(fd)
         \/ \E fd \in Clients : ReceiveRequest(fd)
         \/ \E j \in SendSlots : /\ server.send_d[j].socket_fd \in Clients
                                 /\ server.send_d[j].http_content_size > 0
                                 /\ Send(j)
         \/ \/ \E fd \in Clients : ClientSend(fd) \/ ClientFin(fd) \/ ClientReset(fd)
            \/ \E name \in Names, size \in Sizes : Edit(name, size)
            \/ UNCHANGED svars
<1>1. CASE Loop
  <2>1. CASE Progress
    BY <2>1, ProgressIs
  <2>2. CASE Select \/ AcceptFails \/ WouldBlock
    BY <2>2 DEF Select, AcceptFails, WouldBlock
  <2>3. CASE \E fd \in Clients : AcceptClient(fd) \/ Receive(fd)
    BY <2>3 DEF AcceptClient, Receive
  <2> QED
    BY <1>1, <2>1, <2>2, <2>3 DEF Loop
<1>2. CASE ~Loop
  BY <1>2 DEF SelectNext, vars
<1> QED
  BY <1>1, <1>2

LEMMA SelectSlots ==
  ASSUME NoResets, FewConnections, SelectInv, SlotInv, [SelectNext]_vars
  PROVE  SlotInv'
BY SelectSteps, AcceptSlots, GoneSlots, ReceiveSlots, SendSlotsKept, EnvironmentSlots

\* Every open connection has one slot of send_d[] and no slot outlives its
\* connection, although slots end in a loop over send_d[] that goes on with the
\* next one, and a descriptor is given away again in the same scan.
THEOREM SelectSlotPerConnection ==
  ASSUME NoResets, FewConnections
  PROVE  SelectSpec => []OneSlotPerConnection
<1>1. SelectSpec => []SlotInv
  <2>1. SelectInv /\ SlotInv /\ [SelectNext]_vars => SlotInv'
    BY SelectSlots
  <2>2. SelectInit => SlotInv
    BY SlotsInit DEF SelectInit
  <2> QED
    BY SelectConsistent, <2>1, <2>2, PTL DEF SelectSpec
<1> QED
  BY <1>1, OneSlotEach, PTL

LEMMA SelectTurns ==
  ASSUME InTurn, FewConnections, SelectInv, TurnInv, [SelectNext]_vars
  PROVE  TurnInv'
BY SelectSteps, AcceptTurns, GoneTurns, ReceiveTurns, SendTurns, EnvironmentTurns

LEMMA SelectInTurn ==
  ASSUME InTurn, FewConnections
  PROVE  SelectSpec => []TurnInv
<1>1. SelectInv /\ TurnInv /\ [SelectNext]_vars => TurnInv'
  BY SelectTurns
<1>2. SelectInit => TurnInv
  BY TurnsInit DEF SelectInit
<1> QED
  BY SelectConsistent, <1>1, <1>2, PTL DEF SelectSpec

LEMMA SelectSources ==
  ASSUME Undisturbed, FewConnections, SelectInv, SourceInv, [SelectNext]_vars
  PROVE  SourceInv' /\ CloseCaused
<1>1. ASSUME NEW fd \in Clients, Accept(fd)
      PROVE  SourceInv' /\ CloseCaused
  BY <1>1, AcceptSources, OthersCaused
<1>2. ASSUME NEW fd \in Clients, fd \notin server.open \/ Gone(fd), ReceiveNothing(fd)
      PROVE  SourceInv' /\ CloseCaused
  BY <1>2, GoneSources, ReceiveCaused
<1>3. ASSUME NEW fd \in Clients, ReceiveRequest(fd)
      PROVE  SourceInv' /\ CloseCaused
  BY <1>3, ReceiveSources, ReceiveCaused
<1>4. ASSUME NEW j \in SendSlots, server.send_d[j].http_content_size > 0, Send(j)
      PROVE  SourceInv' /\ CloseCaused
  BY <1>4, SendSources, SendCaused
<1>5. ASSUME \/ \E fd \in Clients : ClientSend(fd) \/ ClientFin(fd) \/ ClientReset(fd)
             \/ \E name \in Names, size \in Sizes : Edit(name, size)
             \/ UNCHANGED svars
      PROVE  SourceInv' /\ CloseCaused
  BY <1>5, EnvironmentSources, OthersCaused
<1> QED
  BY <1>1, <1>2, <1>3, <1>4, <1>5, SelectSteps

LEMMA SelectUndisturbed ==
  ASSUME Undisturbed, FewConnections
  PROVE  SelectSpec => []SourceInv
<1>1. SelectInv /\ SourceInv /\ [SelectNext]_vars => SourceInv'
  BY SelectSources
<1>2. SelectInit => SourceInv
  BY SourcesInit DEF SelectInit
<1> QED
  BY SelectConsistent, <1>1, <1>2, PTL DEF SelectSpec

\* Every client receives the bytes of the file it asked for, in order, once, as
\* many as were announced, although SOCKET_send_all_data serves every client
\* after each event of one of them.
THEOREM SelectContentIntact ==
  ASSUME Undisturbed, WholeFiles, FewConnections
  PROVE  SelectSpec => []ContentIntact
<1>1. SourceInv => ContentIntact
  BY SourcesImply
<1> QED
  BY SelectUndisturbed, <1>1, PTL

\* The server ends a connection only when its client has left, has asked for it
\* or has sent what is refused; no close through a bit of read_fds hits another.
THEOREM SelectClosesForCause ==
  ASSUME Undisturbed, FewConnections
  PROVE  SelectSpec => ClosedForCause
<1>1. SelectInv /\ SourceInv /\ [SelectNext]_vars => [CloseCaused]_svars
  BY SelectSources
<1>2. SelectSpec => [][CloseCaused]_svars
  BY SelectConsistent, SelectUndisturbed, <1>1, PTL DEF SelectSpec
<1> QED
  BY <1>2 DEF ClosedForCause, CloseCaused
-----------------------------------------------------------------------------
(* The bits of read_fds: BitsInv is invariant when clients close their     *)
(* side only while they wait for nothing.  A client that leaves in the     *)
(* middle of a transfer can be given up by a send between select and its   *)
(* turn.                                                                   *)

\* A set bit stands for a request that has not been read, or for a client that
\* has gone: nothing is pending for either, and no send closes it.
BitsInv ==
  /\ TurnInv
  /\ \A fd \in Clients : peer[fd] = "fin" => view[fd].phase = "idle"
  /\ \A fd \in read_fds \cap Clients : /\ fd \in server.open
                                       /\ inbox[fd] # NoRequest \/ peer[fd] = "fin"

\* What a handler for fd leaves of another client.
Untouched(c) ==
  c \in server.open => /\ c \in server'.open
                       /\ inbox'[c] = inbox[c] /\ peer'[c] = peer[c] /\ view'[c] = view[c]

LEMMA OthersUntouched ==
  ASSUME NEW fd \in Clients, NEW r, NEW unread, NEW seen, Become(r, unread, seen),
         OthersKept(server, r, fd),
         \A c \in Clients \ {fd} : unread[c] = inbox[c] /\ seen[c] = view[c]
  PROVE  \A c \in Clients \ {fd} : Untouched(c)
BY DEF Become, OthersKept, Untouched

\* SOCKET_process closes and answers the connection it is called for.
LEMMA ReceiveLeaves ==
  ASSUME TurnInv, InTurn, NEW fd \in Clients, ReceiveNothing(fd) \/ ReceiveRequest(fd)
  PROVE  \A c \in Clients \ {fd} : Untouched(c)
<1>1. /\ SlotInv /\ NoResets /\ ServerOK(server) /\ SlotsMatch(server)
      /\ disk \in [Names -> Nat \cup {Absent}]
      /\ inbox \in [Clients -> Inboxes] /\ view \in [Clients -> Views]
  BY DEF TurnInv, SlotInv, Inv, InTurn, NoResets, TypeOK, Inboxes, Views
<1>2. CASE ReceiveNothing(fd)
  <2> DEFINE r == Disconnect(server, fd)
  <2>1. OthersKept(server, r, fd)
    BY <1>1, DisconnectKeeps
  <2>2. Become(r, inbox, view)
    BY <1>2 DEF ReceiveNothing
  <2> HIDE DEF r
  <2> QED
    BY <2>1, <2>2, OthersUntouched
<1>3. CASE ReceiveRequest(fd)
  <2> DEFINE req == inbox[fd]
  <2>1. fd \in server.open /\ req \in Request /\ Process(fd, req, NoRequest)
    BY <1>3, TurnsOf
  <2> HIDE DEF req
  <2>2. PICK f \in Streams \ server.files.live :
          LET p == SESSION_prepare(server, disk, fd, req, f, 3)
          IN Become(p.server, [inbox EXCEPT ![fd] = NoRequest],
                    [view EXCEPT ![fd] = Answered(@, p)])
    BY <1>1, <2>1, ProcessIs
  <2> DEFINE p == SESSION_prepare(server, disk, fd, req, f, 3)
             r == p.server
             unread == [inbox EXCEPT ![fd] = NoRequest]
             seen == [view EXCEPT ![fd] = Answered(@, p)]
  <2>3. OthersKept(server, r, fd)
    BY <1>1, <2>1, PrepareKeeps
  <2>4. Become(r, unread, seen)
    BY <2>2
  <2>5. \A c \in Clients \ {fd} : unread[c] = inbox[c] /\ seen[c] = view[c]
    BY <1>1
  <2> HIDE DEF r, unread, seen
  <2> QED
    BY <2>3, <2>4, <2>5, OthersUntouched
<1> QED
  BY <1>2, <1>3

\* So does the sending of a part, for the client whose transfer it is.
LEMMA SendLeaves ==
  ASSUME TurnInv, NEW j \in SendSlots, server.send_d[j].socket_fd \in Clients, Send(j)
  PROVE  \A c \in Clients \ {server.send_d[j].socket_fd} : Untouched(c)
<1> DEFINE s == server.send_d[j]
           fd == s.socket_fd
<1>1. SlotInv /\ ServerOK(server) /\ SlotsMatch(server) /\ view \in [Clients -> Views]
  BY DEF TurnInv, SlotInv, Inv, TypeOK, Views
<1>2. PICK n \in Int : Become(SendChunk(server, j, n), inbox,
                              [view EXCEPT ![fd] = Received(@, s, n)])
  <2>1. \E n \in Written(Offered(server, disk, s), s.http_content_size, FALSE) :
          /\ n \in Int
          /\ Become(SendChunk(server, j, n), inbox, [view EXCEPT ![fd] = Received(@, s, n)])
    BY <1>1, SendIs
  <2> QED
    BY <2>1
<1> DEFINE r == SendChunk(server, j, n)
           seen == [view EXCEPT ![fd] = Received(@, s, n)]
<1>3. OthersKept(server, r, fd)
  BY <1>1, ChunkKeeps
<1>4. Become(r, inbox, seen)
  BY <1>2
<1>5. \A c \in Clients \ {fd} : seen[c] = view[c]
  BY <1>1
<1> HIDE DEF r, seen
<1> QED
  BY <1>3, <1>4, <1>5, OthersUntouched
\* A handler for fd, whose bit is not set any more, and not that of another set.
LEMMA BitsAfter ==
  ASSUME BitsInv, TurnInv', NEW fd \in Clients, \A c \in Clients \ {fd} : Untouched(c),
         \A c \in Clients : peer'[c] = "fin" => peer[c] = "fin", peer'[fd] # "fin",
         read_fds' \subseteq read_fds, fd \notin read_fds'
  PROVE  BitsInv'
<1>1. ASSUME NEW c \in Clients, peer'[c] = "fin"
      PROVE  view'[c].phase = "idle"
  <2>1. c # fd /\ peer[c] = "fin" /\ c \in server.open /\ view[c].phase = "idle"
    BY <1>1 DEF BitsInv, TurnInv, SlotInv
  <2> QED
    BY <2>1 DEF Untouched
<1>2. ASSUME NEW c \in Clients, c \in read_fds'
      PROVE  c \in server'.open /\ (inbox'[c] # NoRequest \/ peer'[c] = "fin")
  <2>1. c # fd /\ c \in server.open /\ (inbox[c] # NoRequest \/ peer[c] = "fin")
    BY <1>2 DEF BitsInv
  <2> QED
    BY <2>1 DEF Untouched
<1> QED
  BY <1>1, <1>2 DEF BitsInv

\* No client leaves before it has its answer.
NoEarlyLeave == "fin" \notin Faults

\* Handlers: each leaves the bits of the others alone.
LEMMA BitsAccept ==
  ASSUME FewConnections, BitsInv, NEW fd \in Clients, AcceptClient(fd)
  PROVE  BitsInv'
<1>1. Accept(fd) /\ TurnInv /\ TurnInv' /\ peer \in [Clients -> {"none", "up", "fin", "reset"}]
  BY AcceptTurns DEF AcceptClient, BitsInv, TurnInv, SlotInv, Inv, TypeOK
<1>2. inbox \in [Clients -> Inboxes] /\ view \in [Clients -> Views]
  BY <1>1 DEF TurnInv, SlotInv, Inv, TypeOK, Inboxes, Views
<1>3. server.open \subseteq server'.open
  <2> DEFINE r == AddSendStruct([server EXCEPT !.http_conn_count = @ + 1,
                                               !.open = @ \cup {fd}], fd)
  <2>1. server' = r
    BY <1>1 DEF Accept
  <2>2. r.open = server.open \cup {fd}
    BY <1>1, AcceptedMatches DEF TurnInv, SlotInv, Inv, Accept
  <2> HIDE DEF r
  <2> QED
    BY <2>1, <2>2
<1>4. \A c \in Clients \ {fd} : Untouched(c)
  BY <1>1, <1>2, <1>3 DEF Accept, Untouched
<1>5. (\A c \in Clients : peer'[c] = "fin" => peer[c] = "fin") /\ peer'[fd] # "fin"
  BY <1>1 DEF Accept
<1>6. read_fds' \subseteq read_fds /\ fd \notin read_fds'
  BY <1>1 DEF AcceptClient, Handled, Accept, BitsInv
<1> QED
  BY <1>1, <1>4, <1>5, <1>6, BitsAfter

LEMMA BitsReceive ==
  ASSUME InTurn, BitsInv, NEW fd \in Clients, Receive(fd)
  PROVE  BitsInv'
<1>1. TurnInv /\ (ReceiveNothing(fd) \/ ReceiveRequest(fd))
  BY DEF BitsInv, Receive
<1>2. TurnInv'
  BY <1>1, GoneTurns, ReceiveTurns
<1>3. \A c \in Clients \ {fd} : Untouched(c)
  BY <1>1, ReceiveLeaves
<1>4. read_fds' \subseteq read_fds /\ fd \notin read_fds'
  BY DEF Receive, Handled, Due
<1>5. \E w, unread, seen : Become(w, unread, seen)
  BY <1>1, Zenon DEF ReceiveNothing, ReceiveRequest, Process
<1>6. \A c \in Clients : peer'[c] \in {peer[c], "none"}
  BY <1>5 DEF Become
<1>7. peer'[fd] # "fin"
  <2>1. CASE ReceiveRequest(fd)
    <3>1. view[fd].phase = "wait"
      BY <1>1, <2>1, TurnsOf
    <3> QED
      BY <1>6, <3>1 DEF BitsInv
  <2>2. CASE ReceiveNothing(fd)
    <3> DEFINE r == Disconnect(server, fd)
    <3>1. fd \notin r.open
      BY <1>1, DisconnectKeeps DEF TurnInv, SlotInv
    <3>2. Become(r, inbox, view)
      BY <2>2 DEF ReceiveNothing
    <3> HIDE DEF r
    <3> QED
      BY <3>1, <3>2 DEF Become
  <2> QED
    BY <1>1, <2>1, <2>2
<1> QED
  BY <1>2, <1>3, <1>4, <1>6, <1>7, BitsAfter

\* A client that is being sent something has no bit.
LEMMA BitsProgress ==
  ASSUME SelectInv, BitsInv, Progress
  PROVE  BitsInv'
<1> DEFINE s == server.send_d[slot]
           fd == s.socket_fd
<1>1. slot \in SendSlots /\ fd \in Clients /\ s.http_content_size > 0 /\ Send(slot)
  BY ProgressIs
<1>2. TurnInv /\ TurnInv'
  BY <1>1, SendTurns DEF BitsInv
<1>3. \A c \in Clients \ {fd} : Untouched(c)
  BY <1>1, <1>2, SendLeaves
<1>4. view[fd].phase = "body"
  BY <1>1, <1>2 DEF TurnInv, Conversation, ViewMatches
<1>5. peer[fd] # "fin" /\ inbox[fd] = NoRequest
  BY <1>1, <1>2, <1>4 DEF BitsInv, TurnInv, Conversation
<1>6. fd \notin read_fds /\ read_fds' = read_fds
  BY <1>1, <1>5 DEF BitsInv, Progress
<1>7. \E w, unread, seen : Become(w, unread, seen)
  BY <1>1, Zenon DEF Send
<1>8. \A c \in Clients : peer'[c] \in {peer[c], "none"}
  BY <1>7 DEF Become
<1> HIDE DEF s, fd
<1> QED
  BY <1>1, <1>2, <1>3, <1>5, <1>6, <1>8, BitsAfter

LEMMA BitsStep ==
  ASSUME InTurn, NoEarlyLeave, FewConnections, SelectInv, BitsInv, [SelectNext]_vars
  PROVE  BitsInv'
<1>1. TurnInv /\ TurnInv'
  BY SelectTurns DEF BitsInv
<1>2. CASE Select
  <2>1. /\ read_fds' \cap Clients \subseteq Ready
        /\ UNCHANGED svars
    <3>1. Listener \notin Clients
      BY ListenerAssumption
    <3>2. PICK waiting \in SUBSET {Listener} : read_fds' = Ready \cup waiting
      BY <1>2 DEF Select
    <3>3. UNCHANGED svars
      BY <1>2 DEF Select
    <3> QED
      BY <3>1, <3>2, <3>3
  <2>2. \A fd \in Ready : fd \in server.open /\ (inbox[fd] # NoRequest \/ peer[fd] = "fin")
    BY <1>1 DEF Ready, TurnInv, SlotInv, Conversation
  <2> QED
    BY <1>1, <2>1, <2>2 DEF BitsInv, svars
<1>3. ASSUME UNCHANGED svars, read_fds' \subseteq read_fds
      PROVE  BitsInv'
  BY <1>1, <1>3 DEF BitsInv, svars
<1>4. CASE AcceptFails \/ WouldBlock \/ UNCHANGED vars
  BY <1>3, <1>4 DEF AcceptFails, WouldBlock, Handled, vars, loop
<1>5. ASSUME NEW fd \in Clients, ClientSend(fd), UNCHANGED loop
      PROVE  BitsInv'
  <2>1. /\ server' = server /\ peer' = peer /\ read_fds' = read_fds /\ peer[fd] = "up"
        /\ inbox[fd] = NoRequest
    BY <1>5 DEF ClientSend, loop
  <2>2. \A c \in Clients \ {fd} : inbox'[c] = inbox[c] /\ view'[c].phase = view[c].phase
    <3>1. inbox \in [Clients -> Inboxes] /\ view \in [Clients -> Views]
      BY <1>1 DEF TurnInv, SlotInv, Inv, TypeOK, Inboxes, Views
    <3> QED
      BY <1>5, <3>1 DEF ClientSend
  <2> QED
    BY <1>1, <2>1, <2>2 DEF BitsInv
<1>6. ASSUME NEW fd \in Clients, ClientFin(fd), UNCHANGED loop
      PROVE  BitsInv'
  <2>1. /\ server' = server /\ inbox' = inbox /\ view' = view /\ read_fds' = read_fds
        /\ view[fd].phase = "idle"
    BY <1>6 DEF ClientFin, loop, NoEarlyLeave
  <2>2. \A c \in Clients : peer'[c] = "fin" => c = fd \/ peer[c] = "fin"
    <3>1. peer \in [Clients -> {"none", "up", "fin", "reset"}]
      BY <1>1 DEF TurnInv, SlotInv, Inv, TypeOK
    <3> QED
      BY <1>6, <3>1 DEF ClientFin
  <2>3. \A c \in Clients : peer[c] = "fin" => peer'[c] = "fin"
    BY <1>6 DEF ClientFin
  <2> QED
    BY <1>1, <2>1, <2>2, <2>3 DEF BitsInv
<1> QED
  BY <1>2, <1>4, <1>5, <1>6, BitsAccept, BitsReceive, BitsProgress DEF SelectNext, Loop

\* Every bit of read_fds belongs to an open connection until its turn has come:
\* neither an earlier handler of the same scan, nor one of the sends after each
\* of them, closes it.  That needs clients that leave only when they have their
\* answer: one that closes its side early can be given up by a send first, and
\* SOCKET_process then closes the number a second time.
THEOREM BitsStayConnections ==
  ASSUME InTurn, NoEarlyLeave, FewConnections
  PROVE  SelectSpec => []BitsAreConnections
<1>1. SelectInit => BitsInv
  BY TurnsInit DEF SelectInit, Init, BitsInv
<1>2. SelectInv /\ BitsInv /\ [SelectNext]_vars => BitsInv'
  BY BitsStep
<1>3. SelectInv /\ BitsInv => BitsAreConnections
  BY DEF SelectInv, ScanOK, BitsInv, BitsAreConnections
<1> QED
  BY SelectConsistent, <1>1, <1>2, <1>3, PTL DEF SelectSpec
=============================================================================
