---------------------------- MODULE ServerProofs ----------------------------
(***************************************************************************)
(* Proofs about the handlers of the server, for every number of clients,   *)
(* files and slots.  ServerOK is stated for one value w of the server's    *)
(* record; the lemmas follow the calls of the code from the inside out,    *)
(* and end with the actions that both event loops are made of.  The second *)
(* part, from Looked on, relates the tables to each other and to what the  *)
(* clients have received.                                                  *)
(***************************************************************************)
EXTENDS Server, FilesIOProofs

\* What a slot of send_d[] says adds up, and a transfer that has ended on a
\* connection that is not kept alive is not in it any more.
SlotOK(s) == /\ s.sent_size + s.http_content_size = s.total_size
             /\ s.total_size > 0 /\ ~s.keep_alive => s.http_content_size > 0

CountOK(w) == /\ IsFiniteSet(w.open)
              /\ -2 <= w.http_conn_count
              /\ w.http_conn_count <= Cardinality(w.open)

ServerOK(w) == /\ w \in Servers
               /\ TablesOK(w.files)
               /\ \A i \in SendSlots : SlotOK(w.send_d[i])
               /\ CountOK(w)

\* The same, but for the slots of one client.
AlmostOK(w, fd) == /\ w \in Servers
                   /\ TablesOK(w.files)
                   /\ \A i \in SendSlots : w.send_d[i].socket_fd # fd => SlotOK(w.send_d[i])
                   /\ CountOK(w)

-----------------------------------------------------------------------------
(* Closing and counting. *)

\* battery_fclose of what a slot holds, a stream or nothing.
LEMMA FcloseSlotOK ==
  ASSUME NEW t, TablesOK(t), NEW file \in Streams \cup {NULL}, NEW fd \in Owners
  PROVE  TablesOK(Fclose(t, file, fd))
<1>1. CASE file = NULL
  BY <1>1 DEF Fclose
<1>2. CASE file # NULL
  BY <1>2, FcloseOK
<1> QED
  BY <1>1, <1>2

\* The loop over send_d[] of SESSION_delete_send_struct: the function that
\* describes it exists.
LEMMA FcloseAllRun ==
  ASSUME NEW w, NEW fd
  PROVE  \E g : /\ g[0] = w.files
                /\ \A i \in SendSlots :
                     g[i] = IF w.send_d[i].socket_fd = fd
                            THEN Fclose(g[i-1], w.send_d[i].file, fd) ELSE g[i-1]
                /\ FcloseAll(w, fd) = g[MaxClients]
<1> DEFINE Next1(t, i) == IF w.send_d[i].socket_fd = fd
                          THEN Fclose(t, w.send_d[i].file, fd) ELSE t
           Run(g, n) == g = [i \in 0..n |-> IF i = 0 THEN w.files
                                            ELSE IF w.send_d[i].socket_fd = fd
                                                 THEN Fclose(g[i-1], w.send_d[i].file, fd)
                                                 ELSE g[i-1]]
<1>1. MaxClients \in Nat
  BY MaxClientsAssumption
<1>2. \A n \in 0..MaxClients : \E g : Run(g, n)
  <2> DEFINE S == {n \in 0..MaxClients : ~ \E g : Run(g, n)}
  <2> SUFFICES ASSUME S # {}
               PROVE  FALSE
    OBVIOUS
  <2>0. S \in SUBSET Nat
    BY <1>1
  <2>1. PICK m \in S : \A y \in S : m <= y
    BY <2>0, LeastElement
  <2>2. m \in 0..MaxClients /\ ~ \E g : Run(g, m)
    OBVIOUS
  <2>3. CASE m = 0
    <3> DEFINE g == [i \in 0..0 |-> w.files]
    <3>1. Run(g, 0)
      OBVIOUS
    <3> QED
      BY <2>2, <2>3, <3>1
  <2>4. CASE m # 0
    <3>1. m-1 \in 0..MaxClients /\ m-1 < m /\ m \in Nat
      BY <1>1, <2>2, <2>4
    <3>2. m-1 \notin S
      BY <2>1, <3>1
    <3>3. PICK g : Run(g, m-1)
      BY <3>1, <3>2
    <3> DEFINE h == [i \in 0..m |-> IF i = m THEN Next1(g[m-1], m) ELSE g[i]]
               k == [i \in 0..m |-> IF i = 0 THEN w.files
                                    ELSE IF w.send_d[i].socket_fd = fd
                                         THEN Fclose(h[i-1], w.send_d[i].file, fd)
                                         ELSE h[i-1]]
    <3>4. ASSUME NEW i \in 0..m
          PROVE  h[i] = k[i]
      <4>1. i # 0 => i-1 \in 0..m-1 /\ i-1 # m /\ i-1 \in 0..m
        BY <3>1
      <4>2. i # 0 => h[i-1] = g[i-1]
        BY <4>1
      <4>3. CASE i = m
        BY <2>4, <4>2, <4>3
      <4>4. CASE i # m
        <5>1. i \in 0..m-1
          BY <3>1, <4>4
        <5>2. g[i] = IF i = 0 THEN w.files
                     ELSE IF w.send_d[i].socket_fd = fd
                          THEN Fclose(g[i-1], w.send_d[i].file, fd)
                          ELSE g[i-1]
          BY <3>3, <5>1
        <5> QED
          BY <4>2, <4>4, <5>2
      <4> QED
        BY <4>3, <4>4
    <3>5. h = k
      BY <3>4
    <3>6. Run(h, m)
      BY <3>5
    <3> QED
      BY <2>2, <3>6
  <2> QED
    BY <2>3, <2>4
<1> DEFINE after == CHOOSE g : Run(g, MaxClients)
<1>3. Run(after, MaxClients)
  <2> HIDE DEF Run
  <2>1. \E g : Run(g, MaxClients)
    BY <1>1, <1>2
  <2> QED
    BY <2>1
<1>4. FcloseAll(w, fd) = after[MaxClients]
  BY DEF FcloseAll
<1>5. /\ after[0] = w.files
      /\ \A i \in 1..MaxClients : after[i] = Next1(after[i-1], i)
  <2> HIDE DEF after
  <2> QED
    BY <1>1, <1>3
<1> HIDE DEF after
<1> QED
  BY <1>4, <1>5 DEF SendSlots

\* Each close of the loop keeps the tables consistent.
LEMMA FcloseAllOK ==
  ASSUME NEW w \in Servers, TablesOK(w.files), NEW fd \in Owners
  PROVE  TablesOK(FcloseAll(w, fd))
<1> DEFINE Next1(t, i) == IF w.send_d[i].socket_fd = fd
                          THEN Fclose(t, w.send_d[i].file, fd) ELSE t
<1>1. MaxClients \in Nat
  BY MaxClientsAssumption
<1>2. PICK after : /\ after[0] = w.files
                   /\ \A i \in SendSlots : after[i] = Next1(after[i-1], i)
                   /\ FcloseAll(w, fd) = after[MaxClients]
  BY FcloseAllRun
<1>3. \A t, i : TablesOK(t) /\ i \in SendSlots => TablesOK(Next1(t, i))
  <2> SUFFICES ASSUME NEW t, NEW i \in SendSlots, TablesOK(t)
               PROVE  TablesOK(Next1(t, i))
    BY Zenon
  <2>1. w.send_d[i].file \in Streams \cup {NULL}
    BY DEF Servers, SendInfo
  <2> QED
    BY <2>1, FcloseSlotOK
<1> HIDE DEF Next1
<1>4. \A n \in 0..MaxClients : TablesOK(after[n])
  <2> DEFINE S == {n \in 0..MaxClients : ~ TablesOK(after[n])}
  <2> SUFFICES ASSUME S # {}
               PROVE  FALSE
    OBVIOUS
  <2>0. S \in SUBSET Nat
    BY <1>1
  <2>1. PICK m \in S : \A y \in S : m <= y
    BY <2>0, LeastElement
  <2>2. m # 0
    BY <1>2
  <2>3. m-1 \in 0..MaxClients /\ m-1 < m /\ m \in 1..MaxClients
    BY <1>1, <2>2
  <2>4. TablesOK(after[m-1])
    BY <2>1, <2>3
  <2> QED
    BY <1>2, <1>3, <2>3, <2>4 DEF SendSlots
<1> QED
  BY <1>1, <1>2, <1>4

\* Counting down never exceeds the connections that are left, and stops at -2.
LEMMA CountDownOK ==
  ASSUME NEW count \in Int, -2 <= count, NEW k \in Nat
  PROVE  /\ CountDown(count, k) \in Int /\ -2 <= CountDown(count, k)
         /\ k = 0 => CountDown(count, k) = count
         /\ CountDown(count, k) = -2 \/ CountDown(count, k) = count - k
BY DEF CountDown

\* One connection less, counted down at least once.
LEMMA LessOpen ==
  ASSUME NEW open, IsFiniteSet(open), NEW fd
  PROVE  /\ IsFiniteSet(open \ {fd})
         /\ Cardinality(open \ {fd}) \in Nat /\ Cardinality(open) \in Nat
         /\ Cardinality(open) - 1 <= Cardinality(open \ {fd})
<1>1. CASE fd \in open
  BY <1>1, FS_RemoveElement, FS_CardinalityType, SMTT(40)
<1>2. CASE fd \notin open
  <2> DEFINE rest == open \ {fd}
  <2>1. rest = open
    BY <1>2
  <2>2. Cardinality(open) \in Nat
    BY FS_CardinalityType
  <2> HIDE DEF rest
  <2>3. IsFiniteSet(rest) /\ Cardinality(rest) \in Nat /\ Cardinality(open) - 1 <= Cardinality(rest)
    BY <2>1, <2>2
  <2> QED
    BY <2>2, <2>3 DEF rest
<1> QED
  BY <1>1, <1>2

\* SOCKET_close_fd of a descriptor that is open, or is not.
LEMMA CloseFdOK ==
  ASSUME NEW w, ServerOK(w), NEW fd
  PROVE  ServerOK(CloseFd(w, fd))
<1> DEFINE r == CloseFd(w, fd)
           count == CountDown(w.http_conn_count, 1)
<1>1. w \in Servers /\ w.http_conn_count \in Int /\ -2 <= w.http_conn_count
  BY DEF ServerOK, CountOK, Servers
<1>2. /\ r.files = w.files /\ r.send_d = w.send_d
      /\ r.open = w.open \ {fd} /\ r.http_conn_count = count
  BY <1>1 DEF CloseFd, Servers
<1>3. count \in Int /\ -2 <= count /\ (count = -2 \/ count = w.http_conn_count - 1)
  BY <1>1, CountDownOK, 1 \in Nat
<1>4. r \in Servers
  BY <1>1, <1>3 DEF CloseFd, Servers
<1> HIDE DEF r, count
<1>5. CountOK(r)
  <2>1. IsFiniteSet(w.open) /\ w.http_conn_count <= Cardinality(w.open)
    BY DEF ServerOK, CountOK
  <2>2. /\ IsFiniteSet(w.open \ {fd})
        /\ Cardinality(w.open \ {fd}) \in Nat /\ Cardinality(w.open) \in Nat
        /\ Cardinality(w.open) - 1 <= Cardinality(w.open \ {fd})
    BY <2>1, LessOpen
  <2> QED
    BY <1>1, <1>2, <1>3, <2>1, <2>2 DEF CountOK
<1>6. ServerOK(r)
  BY <1>2, <1>4, <1>5 DEF ServerOK
<1> QED
  BY <1>6 DEF r

\* A client has finitely many slots.
LEMMA FiniteSlots ==
  ASSUME NEW S \in SUBSET SendSlots
  PROVE  IsFiniteSet(S) /\ Cardinality(S) \in Nat /\ (Cardinality(S) = 0 <=> S = {})
<1>1. IsFiniteSet(SendSlots)
  BY FS_Interval, MaxClientsAssumption DEF SendSlots
<1>2. IsFiniteSet(S)
  BY <1>1, FS_Subset
<1> QED
  BY <1>2, FS_CardinalityType, FS_EmptySet

\* An empty slot adds up.
LEMMA FreeSendOK == FreeSend \in SendInfo /\ SlotOK(FreeSend)
BY DEF FreeSend, SendInfo, SlotOK

\* SESSION_delete_send_struct, which resets every slot of the client, whatever
\* is in it.
LEMMA DeleteSendStructOK ==
  ASSUME NEW w, NEW fd \in Owners, AlmostOK(w, fd)
  PROVE  ServerOK(DeleteSendStruct(w, fd))
<1> DEFINE mine == SendSlotsOf(w, fd)
           closing == {i \in mine : ~w.send_d[i].keep_alive}
           k == Cardinality(closing)
           count == CountDown(w.http_conn_count, k)
           slots == [i \in SendSlots |-> IF i \in mine THEN FreeSend ELSE w.send_d[i]]
           left == IF closing = {} THEN w.open ELSE w.open \ {fd}
           r == DeleteSendStruct(w, fd)
<1>1. /\ w \in Servers /\ TablesOK(w.files)
      /\ w.http_conn_count \in Int /\ -2 <= w.http_conn_count
      /\ IsFiniteSet(w.open) /\ w.http_conn_count <= Cardinality(w.open)
  BY DEF AlmostOK, CountOK, Servers
<1>2. k \in Nat /\ (k = 0 <=> closing = {})
  <2>1. closing \in SUBSET SendSlots
    BY DEF SendSlotsOf
  <2> QED
    BY <2>1, FiniteSlots
<1>3. TablesOK(FcloseAll(w, fd)) /\ FcloseAll(w, fd) \in Tables
  BY <1>1, FcloseAllOK DEF TablesOK
<1>4. /\ count \in Int /\ -2 <= count
      /\ k = 0 => count = w.http_conn_count
      /\ count = -2 \/ count = w.http_conn_count - k
  <2> HIDE DEF k
  <2> QED
    BY <1>1, <1>2, CountDownOK
<1>5. slots \in [SendSlots -> SendInfo] /\ \A i \in SendSlots : SlotOK(slots[i])
  BY <1>1, FreeSendOK DEF AlmostOK, Servers, SendSlotsOf
<1>6. /\ r.files = FcloseAll(w, fd) /\ r.send_d = slots
      /\ r.open = left /\ r.http_conn_count = count
      /\ r = [files |-> FcloseAll(w, fd), send_d |-> slots, open |-> left, http_conn_count |-> count]
  BY DEF DeleteSendStruct
<1> HIDE DEF r, count, slots, k
<1>7. left \in SUBSET Clients
  BY <1>1 DEF Servers
<1>8. r \in Servers
  BY <1>3, <1>4, <1>5, <1>6, <1>7 DEF Servers
<1>9. CountOK(r)
  <2>1. CASE closing = {}
    BY <1>1, <1>2, <1>4, <1>6, <2>1 DEF CountOK
  <2>2. CASE closing # {}
    <3>1. /\ IsFiniteSet(left) /\ left = w.open \ {fd}
          /\ Cardinality(left) \in Nat /\ Cardinality(w.open) \in Nat
          /\ Cardinality(w.open) - 1 <= Cardinality(left)
      BY <1>1, <2>2, LessOpen
    <3> HIDE DEF left
    <3> QED
      BY <1>1, <1>2, <1>4, <1>6, <2>2, <3>1 DEF CountOK
  <2> QED
    BY <2>1, <2>2
<1>10. ServerOK(r)
  BY <1>3, <1>5, <1>6, <1>8, <1>9 DEF ServerOK
<1> QED
  BY <1>10 DEF r

\* SOCKET_disconnect_client
LEMMA DisconnectOK ==
  ASSUME NEW w, NEW fd \in Owners, AlmostOK(w, fd)
  PROVE  ServerOK(Disconnect(w, fd))
BY DeleteSendStructOK, CloseFdOK DEF Disconnect

\* The sends of an answer, however many of them fail.
LEMMA AfterSendsOK ==
  ASSUME NEW w, ServerOK(w), NEW fd \in Owners, NEW m, NEW ok
  PROVE  ServerOK(AfterSends(w, fd, m, ok))
<1> DEFINE failed == IF ok >= m THEN 0 ELSE m - ok
           one == Disconnect(w, fd)
           two == Disconnect(one, fd)
           three == Disconnect(two, fd)
<1>0. \A u : ServerOK(u) => AlmostOK(u, fd)
  BY DEF ServerOK, AlmostOK
<1>1. ServerOK(one)
  BY <1>0, DisconnectOK
<1> HIDE DEF one
<1>2. ServerOK(two)
  BY <1>0, <1>1, DisconnectOK
<1> HIDE DEF two
<1>3. ServerOK(three)
  BY <1>0, <1>2, DisconnectOK
<1>4. AfterSends(w, fd, m, ok) \in {w, one, two, three}
  <2>1. AfterSends(w, fd, m, ok) = CASE failed = 0 -> w
                                     [] failed = 1 -> one
                                     [] failed = 2 -> two
                                     [] OTHER -> three
    BY DEF AfterSends, one, two
  <2> HIDE DEF three, failed
  <2> QED
    BY <2>1
<1> HIDE DEF three
<1> QED
  BY <1>1, <1>2, <1>3, <1>4

-----------------------------------------------------------------------------
(* The slots of send_d[]. *)

\* Other tables of files.
LEMMA NewFilesOK ==
  ASSUME NEW w, ServerOK(w), NEW t, TablesOK(t)
  PROVE  /\ ServerOK([w EXCEPT !.files = t])
         /\ [w EXCEPT !.files = t].files = t
<1> DEFINE r == [w EXCEPT !.files = t]
<1>1. w \in Servers /\ t \in Tables
  BY DEF ServerOK, TablesOK
<1>2. /\ r \in Servers /\ r.files = t /\ r.send_d = w.send_d
      /\ r.open = w.open /\ r.http_conn_count = w.http_conn_count
  BY <1>1 DEF Servers
<1> HIDE DEF r
<1>3. ServerOK(r)
  BY <1>2 DEF ServerOK, CountOK
<1> QED
  BY <1>2, <1>3 DEF r

\* Another content of one slot.
LEMMA NewSlotOK ==
  ASSUME NEW w, NEW i \in SendSlots, NEW s \in SendInfo, NEW fd,
         s.socket_fd = fd, w.send_d[i].socket_fd = fd \/ SlotOK(s), ServerOK(w)
  PROVE  /\ AlmostOK([w EXCEPT !.send_d[i] = s], fd)
         /\ SlotOK(s) => ServerOK([w EXCEPT !.send_d[i] = s])
<1> DEFINE r == [w EXCEPT !.send_d[i] = s]
<1>1. w \in Servers
  BY DEF ServerOK
<1>2. /\ r \in Servers /\ r.files = w.files /\ r.send_d = [w.send_d EXCEPT ![i] = s]
      /\ r.open = w.open /\ r.http_conn_count = w.http_conn_count
  BY <1>1 DEF Servers
<1>3. r.send_d[i] = s /\ \A j \in SendSlots \ {i} : r.send_d[j] = w.send_d[j]
  BY <1>1, <1>2 DEF Servers
<1> HIDE DEF r
<1>4. AlmostOK(r, fd) /\ (SlotOK(s) => ServerOK(r))
  BY <1>2, <1>3 DEF ServerOK, AlmostOK, CountOK
<1> QED
  BY <1>4 DEF r

\* First finds a slot of send_d[].
LEMMA FirstSendSlot ==
  ASSUME NEW S \in SUBSET SendSlots, S # {}
  PROVE  First(S) \in S
<1>1. PICK m \in S : \A y \in S : m <= y
  BY LeastElement, MaxClientsAssumption DEF SendSlots
<1> QED
  BY <1>1, Zenon DEF First

\* A client gets a slot, or the table is full.
LEMMA AddSendStructOK ==
  ASSUME NEW w, ServerOK(w), NEW fd \in Clients
  PROVE  ServerOK(AddSendStruct(w, fd))
<1> DEFINE free == {i \in SendSlots : w.send_d[i].socket_fd = 0 /\ w.send_d[i].file = NULL}
           s == [FreeSend EXCEPT !.socket_fd = fd]
<1>1. s \in SendInfo /\ SlotOK(s) /\ s.socket_fd = fd
  <2>1. FreeSend \in SendInfo
    BY FreeSendOK
  <2>2. s \in SendInfo /\ s.socket_fd = fd
    BY <2>1 DEF SendInfo
  <2>3. s.sent_size = 0 /\ s.http_content_size = 0 /\ s.total_size = 0
    BY DEF FreeSend
  <2> QED
    BY <2>2, <2>3 DEF SlotOK
<1>2. free # {} => First(free) \in SendSlots
  BY FirstSendSlot
<1>3. AddSendStruct(w, fd) = IF free = {} THEN w ELSE [w EXCEPT !.send_d[First(free)] = s]
  BY DEF AddSendStruct
<1> HIDE DEF free, s
<1> QED
  BY <1>1, <1>2, <1>3, NewSlotOK

\* A connection is accepted, counted and given a slot.
LEMMA AcceptedOK ==
  ASSUME NEW w, ServerOK(w), NEW fd \in Clients, fd \notin w.open
  PROVE  ServerOK(AddSendStruct([w EXCEPT !.http_conn_count = @ + 1,
                                          !.open = @ \cup {fd}], fd))
<1> DEFINE r == [w EXCEPT !.http_conn_count = @ + 1, !.open = @ \cup {fd}]
<1>1. w \in Servers
  BY DEF ServerOK
<1>2. /\ r \in Servers /\ r.files = w.files /\ r.send_d = w.send_d
      /\ r.open = w.open \cup {fd} /\ r.http_conn_count = w.http_conn_count + 1
  <2> DEFINE c == [w EXCEPT !.http_conn_count = @ + 1]
  <2>1. c \in Servers /\ r = [c EXCEPT !.open = @ \cup {fd}]
    BY <1>1 DEF Servers
  <2>2. /\ c.files = w.files /\ c.send_d = w.send_d
        /\ c.open = w.open /\ c.http_conn_count = w.http_conn_count + 1
    BY <1>1 DEF Servers
  <2> HIDE DEF c
  <2> QED
    BY <2>1, <2>2 DEF Servers
<1> HIDE DEF r
<1>3. CountOK(r)
  <2>1. IsFiniteSet(w.open) /\ w.http_conn_count \in Int /\ Cardinality(w.open) \in Nat
    BY <1>1, FS_CardinalityType DEF ServerOK, CountOK, Servers
  <2>2. /\ IsFiniteSet(w.open \cup {fd})
        /\ Cardinality(w.open \cup {fd}) = Cardinality(w.open) + 1
    BY <2>1, FS_AddElement
  <2> QED
    BY <1>2, <2>1, <2>2 DEF ServerOK, CountOK
<1>4. ServerOK(r)
  BY <1>2, <1>3 DEF ServerOK
<1>5. ServerOK(AddSendStruct(r, fd))
  BY <1>4, AddSendStructOK
<1> QED
  BY <1>5 DEF r

\* RESPONSE_file hands over a transfer.
LEMMA StartTransferOK ==
  ASSUME NEW w, ServerOK(w), NEW fd \in Clients, NEW file \in Streams,
         NEW size \in Nat \ {0}, NEW keep_alive \in BOOLEAN
  PROVE  ServerOK(StartTransfer(w, fd, file, size, keep_alive))
<1> DEFINE s == [file |-> file, http_content_size |-> size, sent_size |-> 0,
                 socket_fd |-> fd, total_size |-> size, keep_alive |-> keep_alive]
           mine == SendSlotsOf(w, fd)
<1>1. s \in SendInfo /\ SlotOK(s) /\ s.socket_fd = fd
  BY DEF SendInfo, SlotOK
<1>2. mine # {} => First(mine) \in SendSlots
  BY FirstSendSlot DEF SendSlotsOf
<1>3. StartTransfer(w, fd, file, size, keep_alive) =
        IF mine = {} THEN w ELSE [w EXCEPT !.send_d[First(mine)] = s]
  BY DEF StartTransfer
<1> HIDE DEF mine, s
<1> QED
  BY <1>1, <1>2, <1>3, NewSlotOK

\* A slot of which n bytes more have been sent, and the server with it.
Chunk(s, n) ==
  LET e == [s EXCEPT !.sent_size = @ + n]
  IN [e EXCEPT !.http_content_size = @ - n]
Advanced(w, i, n) == IF n > 0 THEN [w EXCEPT !.send_d[i] = Chunk(w.send_d[i], n)] ELSE w

\* Whether the connection is closed after the chunk.
Ends(w, i, n) ==
  \/ n < 0
  \/ Advanced(w, i, n).send_d[i].http_content_size <= 0 /\ ~w.send_d[i].keep_alive

\* SOCKET_send_all_data_fd in these terms.
LEMMA SendChunkIs ==
  ASSUME NEW w \in Servers, NEW i \in SendSlots, NEW n \in Int
  PROVE  SendChunk(w, i, n) = IF Ends(w, i, n)
                              THEN Disconnect(Advanced(w, i, n), w.send_d[i].socket_fd)
                              ELSE Advanced(w, i, n)
<1> DEFINE s == w.send_d[i]
           fd == s.socket_fd
           e1 == [s EXCEPT !.sent_size = @ + n]
           e == [e1 EXCEPT !.http_content_size = @ - n]
           v == IF n > 0 THEN [w EXCEPT !.send_d[i] = e] ELSE w
           w1 == [w EXCEPT !.send_d[i] = e1]
<1>1. [w EXCEPT !.send_d[i].sent_size = @ + n] = w1
  BY Zenon
<1>2. w1.send_d[i] = e1
  BY DEF Servers
<1>3. [w EXCEPT !.send_d[i].sent_size = @ + n, !.send_d[i].http_content_size = @ - n]
        = [w1 EXCEPT !.send_d[i].http_content_size = @ - n]
  BY <1>1
<1>4. v = Advanced(w, i, n)
  BY DEF Advanced, Chunk
<1> HIDE DEF e1
<1>5. [w1 EXCEPT !.send_d[i].http_content_size = @ - n] = [w1 EXCEPT !.send_d[i] = e]
  BY <1>2, Zenon
<1> HIDE DEF e
<1>6. [w1 EXCEPT !.send_d[i] = e] = [w EXCEPT !.send_d[i] = e]
  BY DEF Servers
<1> DEFINE x == [w EXCEPT !.send_d[i].sent_size = @ + n, !.send_d[i].http_content_size = @ - n]
           y == IF n > 0 THEN x ELSE w
<1>7. x = [w EXCEPT !.send_d[i] = e]
  BY <1>3, <1>5, <1>6
<1>8. y = v
  <2> HIDE DEF x
  <2> QED
    BY <1>7
<1>9. SendChunk(w, i, n) = IF n < 0 \/ (y.send_d[i].http_content_size <= 0 /\ ~s.keep_alive)
                           THEN Disconnect(y, fd) ELSE y
  BY Zenon DEF SendChunk
<1> HIDE DEF v, y
<1> QED
  BY <1>4, <1>8, <1>9 DEF Ends

\* A chunk moves bytes from what is missing to what is sent.
LEMMA ChunkFields ==
  ASSUME NEW s \in SendInfo, NEW n \in Nat
  PROVE  /\ Chunk(s, n) \in SendInfo
         /\ Chunk(s, n).sent_size = s.sent_size + n
         /\ Chunk(s, n).http_content_size = s.http_content_size - n
         /\ Chunk(s, n).socket_fd = s.socket_fd /\ Chunk(s, n).file = s.file
         /\ Chunk(s, n).total_size = s.total_size /\ Chunk(s, n).keep_alive = s.keep_alive
<1> DEFINE e == [s EXCEPT !.sent_size = @ + n]
<1>1. /\ e \in SendInfo /\ e.sent_size = s.sent_size + n
      /\ e.socket_fd = s.socket_fd /\ e.http_content_size = s.http_content_size
      /\ e.total_size = s.total_size /\ e.keep_alive = s.keep_alive /\ e.file = s.file
  BY DEF SendInfo
<1>2. Chunk(s, n) = [e EXCEPT !.http_content_size = @ - n]
  BY DEF Chunk
<1>3. e.http_content_size \in Int
  BY <1>1 DEF SendInfo
<1> HIDE DEF e
<1> QED
  BY <1>1, <1>2, <1>3 DEF SendInfo

\* The other slots, and everything else, are left alone.
LEMMA AdvancedIs ==
  ASSUME NEW w \in Servers, NEW i \in SendSlots, NEW n \in Int
  PROVE  LET v == Advanced(w, i, n)
         IN /\ v.files = w.files /\ v.open = w.open /\ v.http_conn_count = w.http_conn_count
            /\ v.send_d[i] = IF n > 0 THEN Chunk(w.send_d[i], n) ELSE w.send_d[i]
            /\ \A j \in SendSlots \ {i} : v.send_d[j] = w.send_d[j]
BY DEF Advanced, Servers

\* SOCKET_send_all_data_fd: a transfer without keep-alive that has nothing
\* missing any more is disconnected, and with that its slot is reset.
LEMMA SendChunkOK ==
  ASSUME NEW w, ServerOK(w), NEW i \in SendSlots, w.send_d[i].socket_fd \in Clients,
         NEW n \in Int
  PROVE  ServerOK(SendChunk(w, i, n))
<1> DEFINE s == w.send_d[i]
           fd == s.socket_fd
           e == Chunk(s, n)
           v == Advanced(w, i, n)
<1>1. w \in Servers /\ s \in SendInfo /\ SlotOK(s) /\ fd \in Owners
  BY DEF ServerOK, Servers, Owners
<1>2. n > 0 => /\ e \in SendInfo /\ e.socket_fd = fd
               /\ e.sent_size + e.http_content_size = e.total_size
               /\ e.keep_alive = s.keep_alive
  <2>1. /\ s.sent_size \in Nat /\ s.http_content_size \in Int /\ s.total_size \in Nat
        /\ s.sent_size + s.http_content_size = s.total_size
    BY <1>1 DEF SendInfo, SlotOK
  <2>2. n > 0 => n \in Nat
    OBVIOUS
  <2>3. n > 0 => /\ e \in SendInfo
                 /\ e.sent_size = s.sent_size + n
                 /\ e.http_content_size = s.http_content_size - n
                 /\ e.socket_fd = fd /\ e.total_size = s.total_size /\ e.keep_alive = s.keep_alive
    BY <1>1, <2>2, ChunkFields
  <2> HIDE DEF e, s, fd
  <2> QED
    BY <2>1, <2>3
<1>3. v = IF n > 0 THEN [w EXCEPT !.send_d[i] = e] ELSE w
  BY DEF Advanced
<1>4. v.send_d[i] = IF n > 0 THEN e ELSE s
  BY <1>1, AdvancedIs
<1>5. SendChunk(w, i, n) = IF Ends(w, i, n) THEN Disconnect(v, fd) ELSE v
  BY <1>1, SendChunkIs
<1>6. ~Ends(w, i, n) => v.send_d[i].http_content_size > 0 \/ s.keep_alive
  <2>1. v.send_d[i].http_content_size \in Int
    <3> HIDE DEF v, e
    <3> QED
      BY <1>1, <1>2, <1>4 DEF SendInfo
  <2> DEFINE left == v.send_d[i].http_content_size
  <2>2. Ends(w, i, n) <=> n < 0 \/ (left <= 0 /\ ~s.keep_alive)
    BY DEF Ends
  <2> HIDE DEF left
  <2>3. ~Ends(w, i, n) => left > 0 \/ s.keep_alive
    BY <2>1, <2>2 DEF left
  <2> QED
    BY <2>3 DEF left
<1> HIDE DEF v, e
<1>7. CASE n > 0
  <2>1. AlmostOK(v, fd)
    BY <1>2, <1>3, <1>7, NewSlotOK
  <2>2. ~Ends(w, i, n) => SlotOK(e)
    BY <1>2, <1>4, <1>6, <1>7 DEF SlotOK
  <2>3. ~Ends(w, i, n) => ServerOK(v)
    BY <1>2, <1>3, <1>7, <2>2, NewSlotOK
  <2> QED
    BY <1>1, <1>5, <2>1, <2>3, DisconnectOK
<1>8. CASE ~(n > 0)
  <2>1. AlmostOK(v, fd) /\ ServerOK(v)
    BY <1>3, <1>8 DEF ServerOK, AlmostOK
  <2> QED
    BY <1>1, <1>5, <2>1, DisconnectOK
<1> QED
  BY <1>7, <1>8

-----------------------------------------------------------------------------
(* The answers. *)

\* What a reply leaves behind, and what the client is told.
ReplyOK(p) == ServerOK(p.server) /\ p.status \in Nat /\ p.length \in Nat

\* A reply is made of its parts.
LEMMA ReplyParts ==
  ASSUME NEW w, ServerOK(w), NEW status \in Nat, NEW length \in Nat, NEW body
  PROVE  ReplyOK(Reply(w, status, length, body))
BY DEF Reply, ReplyOK

\* RESPONSE_error, RESPONSE_header and the refusals of SESSION_prepare.
LEMMA ShortRepliesOK ==
  ASSUME NEW w, ServerOK(w), NEW fd \in Owners, NEW status \in Nat, NEW ok
  PROVE  /\ ReplyOK(RESPONSE_error(w, fd, status, ok))
         /\ ReplyOK(RESPONSE_header(w, fd, status, ok))
         /\ ReplyOK(Reject(w, fd, status, ok))
<1>1. \A m : ServerOK(AfterSends(w, fd, m, ok))
  BY AfterSendsOK
<1>2. ServerOK(Disconnect(AfterSends(w, fd, 2, ok), fd))
  <2> DEFINE v == AfterSends(w, fd, 2, ok)
  <2>1. AlmostOK(v, fd)
    BY <1>1 DEF ServerOK, AlmostOK
  <2> HIDE DEF v
  <2>2. ServerOK(Disconnect(v, fd))
    BY <2>1, DisconnectOK
  <2> QED
    BY <2>2 DEF v
<1> QED
  BY <1>1, <1>2, ReplyParts DEF RESPONSE_error, RESPONSE_header, Reject

\* The "Range" branch of RESPONSE_file announces a length that is a number.
LEMMA RESPONSE_rangeOK ==
  ASSUME NEW w, ServerOK(w), NEW fd \in Owners, NEW req \in Request,
         NEW filesize \in Nat, NEW available, NEW ok
  PROVE  ReplyOK(RESPONSE_range(w, fd, req, filesize, available, ok))
<1> DEFINE total == RangeTotal(req, filesize)
           m == IF available > RangeStart(req) THEN 2 ELSE 3
<1>1. total \in Int
  <2>1. req.range[1] \in Int /\ req.range[2] \in Int
    BY DEF Request
  <2>2. RangeStart(req) \in Int /\ RangeFinish(req) \in Int
    BY <2>1 DEF RangeStart, RangeFinish
  <2> QED
    BY <2>2 DEF RangeTotal, RangeEnd
<1>2. RESPONSE_range(w, fd, req, filesize, available, ok) =
        IF RangeStart(req) < 0 \/ total <= 0 THEN RESPONSE_error(w, fd, 416, ok)
        ELSE Reply(AfterSends(w, fd, m, ok), 206, total + 1, "broken")
  BY DEF RESPONSE_range
<1> HIDE DEF total, m
<1>3. CASE RangeStart(req) < 0 \/ total <= 0
  BY <1>2, <1>3, ShortRepliesOK
<1>4. CASE ~(RangeStart(req) < 0 \/ total <= 0)
  <2>1. ServerOK(AfterSends(w, fd, m, ok))
    BY AfterSendsOK
  <2>2. total + 1 \in Nat
    BY <1>1, <1>4
  <2> QED
    BY <1>2, <1>4, <2>1, <2>2, ReplyParts
<1> QED
  BY <1>3, <1>4

\* battery_ftell returns a number.
LEMMA FtellType ==
  ASSUME NEW t \in Tables, NEW file
  PROVE  Ftell(t, file) \in Nat
<1> DEFINE h == HoldersOf(t, file)
<1>1. h # {} => First(h) \in Slots
  BY FirstIsMember DEF HoldersOf
<1>2. \A i \in Slots : t.opened[i].size \in Nat
  BY SlotType DEF OpenedFile, FreeOpened
<1> QED
  BY <1>1, <1>2 DEF Ftell

\* RESPONSE_file, for a file that exists.  The stream that fopen may return is
\* not in use, unless the file is open and fopen is not called.
LEMMA RESPONSE_fileOK ==
  ASSUME NEW w, ServerOK(w), NEW fd \in Clients, NEW req \in Request, NEW name \in Names,
         NEW d, d[name] \in Nat, NEW ok,
         NEW f \in Streams, OpenedAs(w.files, name) = {} => f \notin w.files.live
  PROVE  ReplyOK(RESPONSE_file(w, d, fd, req, name, f, ok))
<1> DEFINE new == Fresh(w, f)
           file == FopenResult(w.files, name, fd, new)
           opened == Fopen(w.files, name, fd, new, d[name])
           v == [w EXCEPT !.files = Fopen(@, name, fd, new, d[name])]
           closed == [v EXCEPT !.files = Fclose(@, file, fd)]
           filesize == Ftell(v.files, file)
           later == Reply(StartTransfer(AfterSends(v, fd, 1, ok), fd, file, filesize, KeepAlive(req)),
                          200, filesize, "later")
<1>1. fd \in Owners /\ TablesOK(w.files)
  BY DEF Owners, ServerOK
<1>2. OpenedAs(w.files, name) = {} => new \in (Streams \ w.files.live) \cup {NULL}
  BY DEF Fresh
<1>3. file # NULL => file \in Streams
  BY <1>1, <1>2, FopenResultMatches
<1>4. TablesOK(opened)
  BY <1>1, <1>2, FopenOK
<1>5. ServerOK(v) /\ v.files = opened
  BY <1>4, NewFilesOK
<1>6. RESPONSE_file(w, d, fd, req, name, f, ok) =
        IF file = NULL                        THEN RESPONSE_error(w, fd, 500, ok)
        ELSE IF req.if_modified = "same"      THEN RESPONSE_header(closed, fd, 304, ok)
        ELSE IF req.if_unmodified = "other"   THEN RESPONSE_header(closed, fd, 412, ok)
        ELSE IF filesize = 0                  THEN RESPONSE_error(v, fd, 204, ok)
        ELSE IF req.range = NoRange           THEN later
        ELSE RESPONSE_range(v, fd, req, filesize, d[name], ok)
  BY Zenon DEF RESPONSE_file
<1> HIDE DEF new, file, opened, v
<1>7. file # NULL => ServerOK(closed)
  <2>1. file # NULL => TablesOK(Fclose(v.files, file, fd))
    BY <1>1, <1>3, <1>4, <1>5, FcloseOK
  <2> QED
    BY <1>5, <2>1, NewFilesOK
<1>8. filesize \in Nat
  BY <1>4, <1>5, FtellType DEF TablesOK
<1> HIDE DEF closed, filesize
<1>9. file # NULL /\ filesize # 0 => ReplyOK(later)
  <2>1. ServerOK(AfterSends(v, fd, 1, ok))
    BY <1>1, <1>5, AfterSendsOK
  <2>2. KeepAlive(req) \in BOOLEAN
    BY DEF KeepAlive
  <2>3. file # NULL /\ filesize # 0
          => ServerOK(StartTransfer(AfterSends(v, fd, 1, ok), fd, file, filesize, KeepAlive(req)))
    BY <1>3, <1>8, <2>1, <2>2, StartTransferOK
  <2> QED
    BY <1>8, <2>3, ReplyParts
<1>10. ReplyOK(RESPONSE_range(v, fd, req, filesize, d[name], ok))
  BY <1>1, <1>5, <1>8, RESPONSE_rangeOK
<1>11. ReplyOK(RESPONSE_error(w, fd, 500, ok)) /\ ReplyOK(RESPONSE_error(v, fd, 204, ok))
  BY <1>1, <1>5, ShortRepliesOK
<1>12. file # NULL => /\ ReplyOK(RESPONSE_header(closed, fd, 304, ok))
                      /\ ReplyOK(RESPONSE_header(closed, fd, 412, ok))
  BY <1>1, <1>7, ShortRepliesOK
<1> HIDE DEF later
<1> QED
  BY <1>6, <1>9, <1>10, <1>11, <1>12

\* REQUEST_process
LEMMA REQUEST_processOK ==
  ASSUME NEW w, ServerOK(w), NEW fd \in Clients, NEW req \in Request, NEW name \in Names,
         NEW d \in [Names -> Nat \cup {Absent}], NEW ok,
         NEW f \in Streams, OpenedAs(w.files, name) = {} => f \notin w.files.live
  PROVE  ReplyOK(REQUEST_process(w, d, fd, req, name, f, ok))
<1> DEFINE found == d[name] # Absent /\ (OpenedAs(w.files, name) # {} \/ HasRoom(w))
           t == FopenUnlisted(w.files, name)
           v == IF found THEN [w EXCEPT !.files = FopenUnlisted(@, name)] ELSE w
           allowed == name \notin Protected \/ (req.auth = "good" /\ req.method # "POST")
           p == REQUEST_process(w, d, fd, req, name, f, ok)
<1>1. fd \in Owners /\ TablesOK(w.files) /\ w.files \in Tables
  BY DEF Owners, ServerOK, TablesOK
<1>2. TablesOK(t) /\ t.opened = w.files.opened /\ t.live = w.files.live
  BY <1>1, FopenUnlistedOK DEF FopenUnlisted, Tables
<1> HIDE DEF t
<1>3. ServerOK(v) /\ v.files \in {w.files, t}
  <2>1. v = IF found THEN [w EXCEPT !.files = t] ELSE w
    BY DEF t
  <2> HIDE DEF v, found
  <2> QED
    BY <1>2, <2>1, NewFilesOK
<1>4. OpenedAs(v.files, name) = {} => f \notin v.files.live
  BY <1>2, <1>3 DEF OpenedAs
<1>5. p = IF ~found                     THEN RESPONSE_error(w, fd, MissingStatus(name), ok)
          ELSE IF name \in Unreadable   THEN RESPONSE_error(v, fd, 403, ok)
          ELSE IF ~allowed              THEN RESPONSE_error(v, fd, 401, ok)
          ELSE IF req.method = "POST"   THEN Reply(v, Silent, 0, "sent")
          ELSE RESPONSE_file(v, d, fd, req, name, f, ok)
  BY Zenon DEF REQUEST_process
<1>6. MissingStatus(name) \in Nat /\ Silent \in Nat
  BY DEF MissingStatus, Silent
<1>7. found => d[name] \in Nat
  OBVIOUS
<1> HIDE DEF found, v, allowed, p
<1>8. /\ ReplyOK(RESPONSE_error(w, fd, MissingStatus(name), ok))
      /\ ReplyOK(RESPONSE_error(v, fd, 403, ok)) /\ ReplyOK(RESPONSE_error(v, fd, 401, ok))
  BY <1>1, <1>3, <1>6, ShortRepliesOK
<1>9. ReplyOK(Reply(v, Silent, 0, "sent"))
  BY <1>3, <1>6, ReplyParts
<1>10. found => ReplyOK(RESPONSE_file(v, d, fd, req, name, f, ok))
  BY <1>3, <1>4, <1>7, RESPONSE_fileOK
<1>11. ReplyOK(p)
  BY <1>5, <1>8, <1>9, <1>10, Zenon
<1> QED
  BY <1>11 DEF p

-----------------------------------------------------------------------------
(* SESSION_prepare. *)

\* battery_fopen opens no stream, or the name is in the table afterwards.
LEMMA FopenLists ==
  ASSUME NEW t, TablesOK(t), NEW name \in Names, NEW fd \in Owners,
         NEW new, OpenedAs(t, name) = {} => new \in (Streams \ t.live) \cup {NULL},
         NEW size \in Nat
  PROVE  LET r == Fopen(t, name, fd, new, size)
         IN r.live = t.live \/ OpenedAs(r, name) # {}
<1> DEFINE file == FopenResult(t, name, fd, new)
           free == HoldersOf(t, NULL)
           k == First(free)
           a == AddLease(t, k, file, name, fd, size)
           r == Fopen(t, name, fd, new, size)
<1>0. t \in Tables
  BY DEF TablesOK
<1>1. CASE file = NULL \/ OwnSlots(t, name, fd) # {}
  BY <1>1 DEF Fopen
<1>2. CASE ~(file = NULL \/ OwnSlots(t, name, fd) # {}) /\ free = {}
  BY <1>0, <1>2 DEF Fopen, Register, Tables
<1>3. CASE ~(file = NULL \/ OwnSlots(t, name, fd) # {}) /\ free # {}
  <2>1. k \in Slots
    BY <1>3, FirstIsMember DEF HoldersOf
  <2>2. r = IF UseSendfile THEN a ELSE CacheAdd(a, file, name, size)
    BY <1>3 DEF Fopen, Register, AddLease
  <2> HIDE DEF k
  <2>3. a.opened[k].filename = name
    BY <1>0, <2>1 DEF AddLease, Tables
  <2> HIDE DEF a
  <2>4. r.opened = a.opened
    <3>1. CASE UseSendfile
      BY <2>2, <3>1
    <3>2. CASE ~UseSendfile
      <4>1. a \in [opened : {a.opened}, cached : {a.cached}, live : {a.live}, leaked : {a.leaked}]
        BY <1>0 DEF a, AddLease, Tables
      <4>2. CacheAdd(a, file, name, size).opened = a.opened
        BY <4>1 DEF CacheAdd
      <4> QED
        BY <2>2, <3>2, <4>2
    <3> QED
      BY <3>1, <3>2
  <2> QED
    BY <2>1, <2>3, <2>4 DEF OpenedAs
<1> QED
  BY <1>1, <1>2, <1>3

\* The file that is answered with, whichever index file is found.
LEMMA RequestedNameType ==
  ASSUME NEW w, NEW d, NEW req \in Request, NEW f
  PROVE  /\ RequestedName(w, d, req, f) \in Names
         /\ req.dir /\ IndexFound(w, d, f) # {} => d[RequestedName(w, d, req, f)] # Absent
<1> DEFINE S == IndexFound(w, d, f)
<1>1. /\ S \subseteq DOMAIN IndexNames
      /\ \A k \in S : d[IndexNames[k]] # Absent
      /\ DOMAIN IndexNames \subseteq Nat
      /\ \A k \in DOMAIN IndexNames : IndexNames[k] \in Names
      /\ SITE_INDEX \in Names
  BY IndexNamesAssumption DEF IndexFound
<1> HIDE DEF S
<1>2. S # {} => First(S) \in S
  <2> SUFFICES ASSUME S # {}
               PROVE  First(S) \in S
    OBVIOUS
  <2>1. PICK m \in S : \A y \in S : m <= y
    BY <1>1, LeastElement
  <2> QED
    BY <2>1, Zenon DEF First
<1>3. req.name \in Names
  BY DEF Request
<1>4. RequestedName(w, d, req, f) = IF ~req.dir THEN req.name
                                    ELSE IF S = {} THEN SITE_INDEX
                                    ELSE IndexNames[First(S)]
  BY DEF RequestedName, S
<1> QED
  BY <1>1, <1>2, <1>3, <1>4 DEF S

\* REQUEST_get_index lists the index file, and the stream that fopen may return
\* is free afterwards, or is the one of the file that is asked for.
LEMMA PinIndexOK ==
  ASSUME NEW w, ServerOK(w), NEW d \in [Names -> Nat \cup {Absent}], NEW req \in Request,
         NEW f \in Streams \ w.files.live
  PROVE  LET v == PinIndex(w, d, req, f)
         IN /\ ServerOK(v)
            /\ OpenedAs(v.files, RequestedName(w, d, req, f)) = {} => f \notin v.files.live
<1> DEFINE name == RequestedName(w, d, req, f)
           new == Fresh(w, f)
           t == Fopen(w.files, name, Probe, new, d[name])
           v == PinIndex(w, d, req, f)
           skip == ~req.dir \/ req.method = "other" \/ req.uri = "long" \/ IndexFound(w, d, f) = {}
<1>1. name \in Names /\ (~skip => d[name] \in Nat)
  BY RequestedNameType
<1>2. new \in (Streams \ w.files.live) \cup {NULL} /\ (new = f \/ new = NULL)
  BY DEF Fresh
<1>3. Probe \in Owners /\ TablesOK(w.files)
  BY DEF Owners, ServerOK
<1>4. v = IF skip THEN w ELSE [w EXCEPT !.files = t]
  BY Zenon DEF PinIndex
<1> HIDE DEF name, new, skip
<1>5. ASSUME ~skip
      PROVE  TablesOK(t) /\ (t.live = w.files.live \/ OpenedAs(t, name) # {})
  BY <1>1, <1>2, <1>3, <1>5, FopenOK, FopenLists
<1> HIDE DEF t
<1>6. ServerOK(v) /\ v.files = IF skip THEN w.files ELSE t
  <2> HIDE DEF v
  <2> QED
    BY <1>4, <1>5, NewFilesOK
<1>7. OpenedAs(v.files, name) = {} => f \notin v.files.live
  BY <1>5, <1>6
<1> QED
  BY <1>6, <1>7 DEF name

\* SESSION_prepare decides for one of its statuses, never for the one of an
\* answer with content.
LEMMA VerdictType ==
  ASSUME NEW req, NEW count
  PROVE  Verdict(req, count) \in Nat \ {200}
<1> DEFINE c == Checks(req, count)
           S == {k \in DOMAIN c : c[k][1]}
<1>1. DOMAIN c = 1..10 /\ c[10][1] /\ \A k \in 1..10 : c[k][2] \in Nat \ {200}
  BY DEF Checks, Silent, Proceed
<1> HIDE DEF c
<1>2. S # {} /\ S \in SUBSET Nat /\ S \subseteq 1..10
  BY <1>1
<1>3. First(S) \in S
  <2>1. PICK m \in S : \A y \in S : m <= y
    BY <1>2, LeastElement
  <2> QED
    BY <2>1, Zenon DEF First
<1>4. Verdict(req, count) = c[First(S)][2]
  BY DEF Verdict, c
<1>5. First(S) \in 1..10
  BY <1>2, <1>3
<1> HIDE DEF S
<1> QED
  BY <1>1, <1>4, <1>5

\* Whatever request arrives, its handler leaves a consistent server behind.
LEMMA SESSION_prepareOK ==
  ASSUME NEW w, ServerOK(w), NEW fd \in Clients, NEW req \in Request,
         NEW d \in [Names -> Nat \cup {Absent}], NEW f \in Streams \ w.files.live, NEW ok
  PROVE  ReplyOK(SESSION_prepare(w, d, fd, req, f, ok))
<1> DEFINE v == PinIndex(w, d, req, f)
           name == RequestedName(w, d, req, f)
           verdict == Verdict(req, w.http_conn_count)
           p == SESSION_prepare(w, d, fd, req, f, ok)
<1>1. p = IF verdict = Silent THEN Reply(v, Silent, 0, "sent")
          ELSE IF verdict # Proceed THEN Reject(v, fd, verdict, ok)
          ELSE REQUEST_process(v, d, fd, req, name, f, ok)
  BY Zenon DEF SESSION_prepare
<1>2. ServerOK(v) /\ (OpenedAs(v.files, name) = {} => f \notin v.files.live)
  BY PinIndexOK
<1>3. name \in Names /\ verdict \in Nat /\ fd \in Owners
  BY RequestedNameType, VerdictType DEF Owners
<1> HIDE DEF v, name, verdict, p
<1>4. ReplyOK(Reply(v, Silent, 0, "sent"))
  BY <1>2, ReplyParts DEF Silent
<1>5. ReplyOK(Reject(v, fd, verdict, ok))
  BY <1>2, <1>3, ShortRepliesOK
<1>6. ReplyOK(REQUEST_process(v, d, fd, req, name, f, ok))
  BY <1>2, <1>3, REQUEST_processOK
<1>7. ReplyOK(p)
  BY <1>1, <1>4, <1>5, <1>6, Zenon
<1> QED
  BY <1>7 DEF p

-----------------------------------------------------------------------------
(* The actions both event loops are made of. *)

Inv == TypeOK /\ ServerOK(server)

Inboxes == Requests \cup {NoRequest} \cup {Remainder(req) : req \in Requests}
Views == [phase : {"idle", "wait", "body"}, request : Requests \cup {NoRequest},
          status : Nat, length : Nat, got : Nat, ok : BOOLEAN]

\* The server starts without connections, transfers and open files.
LEMMA ServerInit == Init => Inv
<1> SUFFICES ASSUME Init
             PROVE  Inv
  OBVIOUS
<1>1. TablesOK(EmptyTables)
  <2>1. EmptyTables \in Tables
    BY DEF EmptyTables, Tables
  <2>2. Leased(EmptyTables) = {} /\ Cached(EmptyTables) = {} /\ EmptyTables.live = {}
    BY DEF EmptyTables, Leased, Cached, FreeOpened, FreeCached
  <2> QED
    BY <2>1, <2>2 DEF TablesOK, SharedStreams, UniqueLeases, LiveLeases, LeasedCache,
                      UniqueCache, CacheUnused
<1>2. StartedServer \in Servers
  BY <1>1, FreeSendOK DEF StartedServer, Servers, TablesOK
<1>3. CountOK(StartedServer)
  BY FS_EmptySet DEF CountOK, StartedServer
<1>4. ServerOK(StartedServer)
  BY <1>1, <1>2, <1>3, FreeSendOK DEF ServerOK, StartedServer
<1>5. NewView \in Views
  BY DEF NewView, Views
<1> QED
  BY <1>2, <1>4, <1>5, InitDiskAssumption DEF Init, Inv, TypeOK, Views

\* What a handler leaves behind is consistent if its server is.
LEMMA BecomeOK ==
  ASSUME TypeOK, NEW w, ServerOK(w), NEW unread \in [Clients -> Inboxes],
         NEW seen \in [Clients -> Views], Become(w, unread, seen)
  PROVE  Inv'
<1>1. server' = w /\ w \in Servers
  BY DEF Become, ServerOK
<1>2. peer' \in [Clients -> {"none", "up", "fin", "reset"}]
  BY DEF Become, TypeOK
<1>3. inbox' \in [Clients -> Inboxes]
  BY DEF Become, Inboxes
<1>4. view' \in [Clients -> Views]
  <2>1. \A fd \in Clients : [NewView EXCEPT !.ok = seen[fd].ok] \in Views
    BY DEF NewView, Views
  <2> QED
    BY <2>1 DEF Become
<1>5. disk' \in [Names -> Nat \cup {Absent}]
  BY DEF Become, TypeOK
<1>6. ServerOK(server')
  BY <1>1
<1>7. ServerOK(server)'
  BY <1>6
<1>8. TypeOK'
  BY <1>1, <1>2, <1>3, <1>4, <1>5 DEF TypeOK, Views, Inboxes
<1> QED
  BY <1>7, <1>8 DEF Inv

\* A connection is accepted.
LEMMA AcceptOK ==
  ASSUME Inv, NEW fd \in Clients, Accept(fd)
  PROVE  Inv'
<1>1. ServerOK(server')
  BY AcceptedOK DEF Accept, Inv
<1>2. server' \in Servers
  BY <1>1 DEF ServerOK
<1>3. NewView \in Views
  BY DEF NewView, Views
<1>4. TypeOK'
  BY <1>2, <1>3 DEF Accept, Inv, TypeOK, Views
<1>5. ServerOK(server)'
  BY <1>1
<1> QED
  BY <1>4, <1>5 DEF Inv

\* A client that is gone is disconnected, or its descriptor is closed.
LEMMA GoneOK ==
  ASSUME Inv, NEW fd \in Clients,
         ReceiveNothing(fd) \/ Become(CloseFd(server, fd), inbox, view)
  PROVE  Inv'
<1>1. /\ TypeOK /\ inbox \in [Clients -> Inboxes] /\ view \in [Clients -> Views]
      /\ fd \in Owners /\ ServerOK(server)
  BY DEF Inv, TypeOK, Views, Inboxes, Owners
<1>2. ServerOK(CloseFd(server, fd))
  BY <1>1, CloseFdOK
<1>3. ServerOK(Disconnect(server, fd))
  <2>1. AlmostOK(server, fd)
    BY <1>1 DEF ServerOK, AlmostOK
  <2> QED
    BY <1>1, <2>1, DisconnectOK
<1> QED
  BY <1>1, <1>2, <1>3, BecomeOK DEF ReceiveNothing

\* A request, or what looks like one, is handled.
LEMMA ProcessOK ==
  ASSUME Inv, NEW fd \in Clients, NEW req \in Request, NEW rest \in Inboxes,
         Process(fd, req, rest)
  PROVE  Inv'
<1>1. PICK f \in Streams \ server.files.live, ok \in Successes(fd) :
        Become(SESSION_prepare(server, disk, fd, req, f, ok).server,
               [inbox EXCEPT ![fd] = rest],
               [view EXCEPT ![fd] = Answered(@, SESSION_prepare(server, disk, fd, req, f, ok))])
  BY Zenon DEF Process
<1> DEFINE reply == SESSION_prepare(server, disk, fd, req, f, ok)
<1>2. /\ TypeOK /\ inbox \in [Clients -> Inboxes] /\ view \in [Clients -> Views]
      /\ disk \in [Names -> Nat \cup {Absent}] /\ ServerOK(server)
  BY DEF Inv, TypeOK, Views, Inboxes
<1>3. ReplyOK(reply)
  BY <1>2, SESSION_prepareOK
<1> HIDE DEF reply
<1>4. Answered(view[fd], reply) \in Views
  <2> DEFINE v == view[fd]
             phase == IF reply.body = "later" /\ v.request.method # "HEAD" THEN "body" ELSE "idle"
             good == v.ok /\ v.phase = "wait" /\ reply.body # "broken"
  <2>1. v \in Views /\ v.ok \in BOOLEAN
    BY <1>2 DEF Views
  <2>2. phase \in {"idle", "body"} /\ good \in BOOLEAN
    BY <2>1
  <2>3. reply.status \in Nat /\ reply.length \in Nat
    BY <1>3 DEF ReplyOK
  <2>4. Answered(v, reply) =
          IF reply.status = Silent THEN v
          ELSE [v EXCEPT !.phase = phase, !.status = reply.status, !.length = reply.length,
                         !.got = 0, !.ok = good]
    BY Zenon DEF Answered
  <2> HIDE DEF v, phase, good
  <2>5. [v EXCEPT !.phase = phase, !.status = reply.status, !.length = reply.length,
                  !.got = 0, !.ok = good] \in Views
    BY <2>1, <2>2, <2>3 DEF Views
  <2>6. Answered(v, reply) \in Views
    BY <2>1, <2>4, <2>5
  <2> QED
    BY <2>6 DEF v
<1>5. /\ [inbox EXCEPT ![fd] = rest] \in [Clients -> Inboxes]
      /\ [view EXCEPT ![fd] = Answered(@, reply)] \in [Clients -> Views]
  BY <1>2, <1>4
<1>6. ServerOK(reply.server)
  BY <1>3 DEF ReplyOK
<1>7. Become(reply.server, [inbox EXCEPT ![fd] = rest], [view EXCEPT ![fd] = Answered(@, reply)])
  BY <1>1 DEF reply
<1> QED
  BY <1>2, <1>5, <1>6, <1>7, BecomeOK

\* What is left of a request, and each of its parts, is parsed like a request.
LEMMA RequestParts ==
  ASSUME NEW req \in Request
  PROVE  Remainder(req) \in Request /\ Parts(req) \subseteq Request
<1> DEFINE fieldless == [req EXCEPT !.host = FALSE, !.connection = "none", !.length = "none",
                               !.if_modified = "none", !.if_unmodified = "none",
                               !.range = NoRange, !.auth = "none"]
           old == [fieldless EXCEPT !.version = "other"]
           cut == [fieldless EXCEPT !.method = "other"]
           short == [req EXCEPT !.length = "short"]
<1>1. Remainder(req) \in Request
  BY DEF Remainder, Request
<1>2. fieldless \in Request
  BY ZenonT(40) DEF Request, NoRange
<1>3. HeaderParts(req) = {fieldless, old, cut}
  BY Zenon DEF HeaderParts
<1>4. short \in Request
  BY DEF Request
<1>5. BodyParts(req) \subseteq {req, short}
  BY DEF BodyParts
<1> HIDE DEF fieldless
<1>6. old \in Request /\ cut \in Request
  BY <1>2 DEF Request
<1> HIDE DEF old, cut, short
<1>7. Parts(req) \subseteq HeaderParts(req) \cup BodyParts(req)
  BY Zenon DEF Parts
<1> QED
  BY <1>1, <1>2, <1>3, <1>4, <1>5, <1>6, <1>7

\* SOCKET_process with a request, or with a part of one.
LEMMA ReceiveOK ==
  ASSUME Inv, NEW fd \in Clients, ReceiveRequest(fd) \/ ReceivePart(fd)
  PROVE  Inv'
<1>1. inbox[fd] \in Inboxes
  BY DEF Inv, TypeOK, Inboxes
<1>2. \A req \in Requests : req \in Request /\ Remainder(req) \in Request /\ Parts(req) \subseteq Request
  BY RequestParts, RequestsAssumption
<1>3. CASE ReceiveRequest(fd)
  <2>1. inbox[fd] \in Request
    BY <1>1, <1>2, <1>3 DEF ReceiveRequest, Inboxes
  <2>2. Process(fd, inbox[fd], NoRequest) /\ NoRequest \in Inboxes
    BY <1>3 DEF ReceiveRequest, Inboxes
  <2> QED
    BY <2>1, <2>2, ProcessOK
<1>4. CASE ReceivePart(fd)
  <2>1. PICK part \in Parts(inbox[fd]) : Process(fd, part, Remainder(inbox[fd]))
    BY <1>4, Zenon DEF ReceivePart
  <2>2. inbox[fd] \in Requests
    BY <1>4 DEF ReceivePart
  <2>3. part \in Request /\ Remainder(inbox[fd]) \in Inboxes
    BY <1>2, <2>1, <2>2 DEF Inboxes
  <2> QED
    BY <2>1, <2>3, ProcessOK
<1> QED
  BY <1>3, <1>4

\* The next part of a transfer is sent.
LEMMA SendOK ==
  ASSUME Inv, NEW i \in SendSlots, server.send_d[i].socket_fd \in Clients, Send(i)
  PROVE  Inv'
<1> DEFINE s == server.send_d[i]
           fd == s.socket_fd
<1>1. /\ TypeOK /\ inbox \in [Clients -> Inboxes] /\ view \in [Clients -> Views]
      /\ ServerOK(server) /\ s \in SendInfo
  BY DEF Inv, TypeOK, Views, Inboxes, Servers
<1>2. PICK n \in Written(Offered(server, disk, s), s.http_content_size, peer[fd] = "reset") :
        Become(SendChunk(server, i, n), inbox, [view EXCEPT ![fd] = Received(@, s, n)])
  BY Zenon DEF Send
<1>3. n \in Int
  <2>1. s.http_content_size \in Int
    BY <1>1 DEF SendInfo
  <2> HIDE DEF s
  <2> QED
    BY <2>1 DEF Written
<1>4. Received(view[fd], s, n) \in Views
  <2> DEFINE v == view[fd]
             got == v.got + n
             phase == IF v.phase = "body" /\ got >= v.length THEN "idle" ELSE v.phase
             right == /\ v.ok
                      /\ v.phase = "body"
                      /\ s.sent_size = v.got
                      /\ SourceLength(s) = v.length
                      /\ SourceName(s) \in Asked(v.request)
                      /\ got <= v.length
  <2>1. v \in Views /\ v.phase \in {"idle", "wait", "body"} /\ v.got \in Nat
    BY <1>1 DEF Views
  <2>2. phase \in {"idle", "wait", "body"} /\ right \in BOOLEAN
    BY <2>1
  <2>3. n > 0 => got \in Nat
    BY <1>3, <2>1
  <2>4. Received(v, s, n) =
          IF n <= 0 THEN v
          ELSE [v EXCEPT !.phase = phase, !.got = IF v.phase = "body" THEN got ELSE @,
                         !.ok = right]
    BY Zenon DEF Received
  <2> HIDE DEF v, got, phase, right
  <2>5. n > 0 => [v EXCEPT !.phase = phase, !.got = IF v.phase = "body" THEN got ELSE @,
                           !.ok = right] \in Views
    BY <2>1, <2>2, <2>3 DEF Views
  <2>6. Received(v, s, n) \in Views
    BY <1>3, <2>1, <2>4, <2>5
  <2> QED
    BY <2>6 DEF v
<1>5. ServerOK(SendChunk(server, i, n))
  BY <1>1, <1>3, SendChunkOK
<1> HIDE DEF s, fd
<1>6. [view EXCEPT ![fd] = Received(@, s, n)] \in [Clients -> Views]
  BY <1>1, <1>4
<1> QED
  BY <1>1, <1>2, <1>5, <1>6, BecomeOK

\* What clients and writers of files do leaves the server as it is.
LEMMA EnvironmentOK ==
  ASSUME Inv,
         \/ \E fd \in Clients : ClientSend(fd) \/ ClientFin(fd) \/ ClientReset(fd)
         \/ \E name \in Names, size \in Sizes : Edit(name, size)
         \/ UNCHANGED svars
  PROVE  Inv'
<1>1. TypeOK /\ ServerOK(server) /\ view \in [Clients -> Views]
  BY DEF Inv, TypeOK, Views
<1>2. ASSUME NEW fd \in Clients, ClientSend(fd)
      PROVE  TypeOK'
  <2>1. PICK req \in Requests :
          /\ inbox' = [inbox EXCEPT ![fd] = req]
          /\ view' = [view EXCEPT ![fd].phase = IF @ = "idle" THEN "wait" ELSE @,
                                  ![fd].request = req, ![fd].status = 0]
    BY <1>2, Zenon DEF ClientSend
  <2>2. \A v \in Views : [v EXCEPT !.phase = IF @ = "idle" THEN "wait" ELSE @,
                                    !.request = req, !.status = 0] \in Views
    BY DEF Views
  <2>3. view' \in [Clients -> Views]
    BY <1>1, <2>1, <2>2
  <2> QED
    BY <1>1, <1>2, <2>1, <2>3 DEF ClientSend, TypeOK, Views
<1>3. ASSUME NEW fd \in Clients, ClientFin(fd) \/ ClientReset(fd)
      PROVE  TypeOK'
  BY <1>1, <1>3 DEF ClientFin, ClientReset, TypeOK
<1>4. ASSUME NEW name \in Names, NEW size \in Sizes, Edit(name, size)
      PROVE  TypeOK'
  BY <1>1, <1>4, SizesAssumption DEF Edit, TypeOK
<1>5. ASSUME UNCHANGED svars
      PROVE  TypeOK'
  BY <1>1, <1>5 DEF svars, TypeOK
<1>6. server' = server
  BY DEF ClientSend, ClientFin, ClientReset, Edit, svars
<1>7. ServerOK(server)'
  BY <1>1, <1>6
<1> QED
  BY <1>2, <1>3, <1>4, <1>5, <1>7 DEF Inv

\* The properties of the server are parts of the invariant.
LEMMA InvImplies ==
  Inv => TypeOK /\ CountNeverOver /\ TransferBalance /\ NoFinishedTransferKept /\ TablesAgree
<1> SUFFICES ASSUME Inv
             PROVE  /\ TypeOK /\ CountNeverOver /\ TransferBalance /\ NoFinishedTransferKept
                    /\ TablesAgree
  OBVIOUS
<1>1. TypeOK /\ CountNeverOver
  BY DEF Inv, ServerOK, CountOK, CountNeverOver
<1>2. TransferBalance /\ NoFinishedTransferKept
  BY DEF Inv, ServerOK, SlotOK, TransferBalance, NoFinishedTransferKept
<1>3. Table!Used = Leased(server.files) /\ Table!InCache = Cached(server.files)
  BY DEF Table!Used, Table!InCache, Leased, Cached, Table!Slots, Slots
<1>4. TablesAgree
  BY <1>3 DEF Inv, ServerOK, TablesOK, SharedStreams, UniqueLeases, LiveLeases, LeasedCache,
              UniqueCache, TablesAgree, Table!OneStreamPerName, Table!OneLeasePerClient,
              Table!LeasesAreLive, Table!CacheMatchesLeases, Table!OneCacheEntryPerFile
<1> QED
  BY <1>1, <1>2, <1>4

-----------------------------------------------------------------------------
(***************************************************************************)
(* The conversation between the server and clients that wait for an answer *)
(* before they ask again: slots of send_d[], connections, and what the     *)
(* clients have received correspond to each other (SlotInv, TurnInv).  The *)
(* faults and requests that the code does not survive are excluded by      *)
(* hypotheses of the theorems, each defined here beside the invariant that *)
(* needs it.                                                               *)
(***************************************************************************)
(* The answer to a request that reaches the client.                        *)

\* The server when the path has been looked up and file_params has been called,
\* and when battery_fopen has been called for the client.
Looked(w, d, req, f) ==
  [PinIndex(w, d, req, f) EXCEPT !.files = FopenUnlisted(@, RequestedName(w, d, req, f))]
Opened(u, d, fd, name, f) ==
  [u EXCEPT !.files = Fopen(@, name, fd, Fresh(u, f), d[name])]

IsConditional(req) == req.if_modified = "same" \/ req.if_unmodified = "other"

\* An answer without content to follow: a header or an error page.
Short(p) == p.status \notin {Silent, 200} /\ p.body # "later"

\* A step that leaves slots and connections alone.
SameSlots(w, u) == u.send_d = w.send_d /\ u.open = w.open

\* RESPONSE_file, when every send succeeds.
FileOutcome(p, u, d, fd, req, name, f) ==
  LET v == Opened(u, d, fd, name, f)
      file == FopenResult(u.files, name, fd, Fresh(u, f))
  IN /\ file # NULL /\ d[name] \in Nat
     /\ \/ /\ Short(p) /\ p.body = "sent" /\ IsConditional(req)
           /\ p.server = [v EXCEPT !.files = Fclose(@, file, fd)]
        \/ /\ Short(p) /\ (p.body = "broken" => req.range # NoRange)
           /\ Ftell(v.files, file) = 0 \/ req.range # NoRange
           /\ p.server = v
        \/ /\ p.status = 200 /\ p.body = "later"
           /\ p.length = Ftell(v.files, file) /\ p.length # 0
           /\ ~IsConditional(req)
           /\ p.server = StartTransfer(v, fd, file, p.length, KeepAlive(req))

\* SESSION_prepare, when every send succeeds.
Outcome(p, w, d, fd, req, f) ==
  LET v == PinIndex(w, d, req, f)
      u == Looked(w, d, req, f)
  IN \/ p.status = Silent /\ p.server \in {v, u}
     \/ /\ Short(p) /\ p.body = "sent"
        /\ Verdict(req, w.http_conn_count) # Proceed
        /\ p.server = Disconnect(v, fd)
     \/ Short(p) /\ p.body = "sent" /\ p.server \in {v, u}
     \/ FileOutcome(p, u, d, fd, req, RequestedName(w, d, req, f), f)

\* An answer all of whose sends succeed leaves the connection alone.
LEMMA AllSent ==
  ASSUME NEW w, NEW fd, NEW m \in 0..3
  PROVE  AfterSends(w, fd, m, 3) = w
<1>1. 3 >= m
  OBVIOUS
<1> QED
  BY <1>1 DEF AfterSends

\* The parts of a reply.
LEMMA ShortOutcome ==
  ASSUME NEW w, NEW fd, NEW status, status \notin {Silent, 200}
  PROVE  /\ LET p == RESPONSE_error(w, fd, status, 3)
            IN Short(p) /\ p.body = "sent" /\ p.server = w
         /\ LET p == RESPONSE_header(w, fd, status, 3)
            IN Short(p) /\ p.body = "sent" /\ p.server = w
         /\ LET p == Reject(w, fd, status, 3)
            IN Short(p) /\ p.body = "sent" /\ p.server = Disconnect(w, fd)
<1>1. AfterSends(w, fd, 1, 3) = w /\ AfterSends(w, fd, 2, 3) = w
  BY AllSent
<1> QED
  BY <1>1 DEF RESPONSE_error, RESPONSE_header, Reject, Reply, Short

\* The "Range" branch leaves the connection alone.
LEMMA RangeOutcome ==
  ASSUME NEW w, NEW fd, NEW req, NEW filesize, NEW available, req.range # NoRange
  PROVE  LET p == RESPONSE_range(w, fd, req, filesize, available, 3)
         IN Short(p) /\ p.server = w
<1> DEFINE m == IF available > RangeStart(req) THEN 2 ELSE 3
           total == RangeTotal(req, filesize)
           p == RESPONSE_range(w, fd, req, filesize, available, 3)
<1>1. AfterSends(w, fd, m, 3) = w
  BY AllSent
<1>2. p = IF RangeStart(req) < 0 \/ total <= 0 THEN RESPONSE_error(w, fd, 416, 3)
          ELSE Reply(AfterSends(w, fd, m, 3), 206, total + 1, "broken")
  BY DEF RESPONSE_range
<1> HIDE DEF m, total, p
<1>3. CASE RangeStart(req) < 0 \/ total <= 0
  BY <1>2, <1>3, ShortOutcome DEF Silent, p
<1>4. CASE ~(RangeStart(req) < 0 \/ total <= 0)
  BY <1>1, <1>2, <1>4 DEF Reply, Short, Silent, p
<1> QED
  BY <1>3, <1>4

\* RESPONSE_file for a file that exists.
LEMMA FileOutcomeOK ==
  ASSUME NEW u, NEW d, NEW fd, NEW req, NEW name, NEW f, d[name] \in Nat
  PROVE  LET p == RESPONSE_file(u, d, fd, req, name, f, 3)
         IN \/ Short(p) /\ p.body = "sent" /\ p.server = u
            \/ FileOutcome(p, u, d, fd, req, name, f)
<1> DEFINE file == FopenResult(u.files, name, fd, Fresh(u, f))
           v == Opened(u, d, fd, name, f)
           closed == [v EXCEPT !.files = Fclose(@, file, fd)]
           filesize == Ftell(v.files, file)
           later == Reply(StartTransfer(AfterSends(v, fd, 1, 3), fd, file, filesize, KeepAlive(req)),
                          200, filesize, "later")
           p == RESPONSE_file(u, d, fd, req, name, f, 3)
<1>1. p = IF file = NULL                        THEN RESPONSE_error(u, fd, 500, 3)
          ELSE IF req.if_modified = "same"      THEN RESPONSE_header(closed, fd, 304, 3)
          ELSE IF req.if_unmodified = "other"   THEN RESPONSE_header(closed, fd, 412, 3)
          ELSE IF filesize = 0                  THEN RESPONSE_error(v, fd, 204, 3)
          ELSE IF req.range = NoRange           THEN later
          ELSE RESPONSE_range(v, fd, req, filesize, d[name], 3)
  BY Zenon DEF RESPONSE_file, Opened
<1>2. later = Reply(StartTransfer(v, fd, file, filesize, KeepAlive(req)), 200, filesize, "later")
  BY AllSent
<1> HIDE DEF file, v, closed, filesize, later, p
<1>3. CASE file = NULL
  BY <1>1, <1>3, ShortOutcome DEF Silent, p
<1>4. CASE file # NULL /\ IsConditional(req)
  <2>1. p \in {RESPONSE_header(closed, fd, 304, 3), RESPONSE_header(closed, fd, 412, 3)}
    BY <1>1, <1>4 DEF IsConditional
  <2>2. Short(p) /\ p.body = "sent" /\ p.server = closed
    BY <2>1, ShortOutcome DEF Silent
  <2> QED
    BY <1>4, <2>2 DEF FileOutcome, file, v, closed, p
<1>5. CASE file # NULL /\ ~IsConditional(req) /\ filesize = 0
  <2>1. p = RESPONSE_error(v, fd, 204, 3)
    BY <1>1, <1>5 DEF IsConditional
  <2>2. Short(p) /\ p.body = "sent" /\ p.server = v
    BY <2>1, ShortOutcome DEF Silent
  <2> QED
    BY <1>5, <2>2 DEF FileOutcome, file, v, filesize, p
<1>6. CASE file # NULL /\ ~IsConditional(req) /\ filesize # 0 /\ req.range = NoRange
  <2>1. p = later
    BY <1>1, <1>6 DEF IsConditional
  <2>2. /\ p.status = 200 /\ p.body = "later" /\ p.length = filesize
        /\ p.server = StartTransfer(v, fd, file, filesize, KeepAlive(req))
    BY <1>2, <2>1 DEF Reply
  <2> QED
    BY <1>6, <2>2 DEF FileOutcome, file, v, filesize, p
<1>7. CASE file # NULL /\ ~IsConditional(req) /\ filesize # 0 /\ req.range # NoRange
  <2>1. p = RESPONSE_range(v, fd, req, filesize, d[name], 3)
    BY <1>1, <1>7 DEF IsConditional
  <2>2. Short(p) /\ p.server = v
    BY <1>7, <2>1, RangeOutcome
  <2> QED
    BY <1>7, <2>2 DEF FileOutcome, file, v, filesize, p
<1> QED
  BY <1>3, <1>4, <1>5, <1>6, <1>7 DEF p

\* SESSION_prepare has one of the outcomes above.
LEMMA PrepareOutcome ==
  ASSUME NEW w, NEW d \in [Names -> Nat \cup {Absent}], NEW fd, NEW req \in Request, NEW f
  PROVE  Outcome(SESSION_prepare(w, d, fd, req, f, 3), w, d, fd, req, f)
<1> DEFINE v == PinIndex(w, d, req, f)
           u == Looked(w, d, req, f)
           name == RequestedName(w, d, req, f)
           verdict == Verdict(req, w.http_conn_count)
           found == d[name] # Absent /\ (OpenedAs(v.files, name) # {} \/ HasRoom(v))
           after == IF found THEN [v EXCEPT !.files = FopenUnlisted(@, name)] ELSE v
           allowed == name \notin Protected \/ (req.auth = "good" /\ req.method # "POST")
           q == REQUEST_process(v, d, fd, req, name, f, 3)
           p == SESSION_prepare(w, d, fd, req, f, 3)
<1>1. p = IF verdict = Silent THEN Reply(v, Silent, 0, "sent")
          ELSE IF verdict # Proceed THEN Reject(v, fd, verdict, 3)
          ELSE q
  BY Zenon DEF SESSION_prepare
<1>2. q = IF ~found                     THEN RESPONSE_error(v, fd, MissingStatus(name), 3)
          ELSE IF name \in Unreadable   THEN RESPONSE_error(after, fd, 403, 3)
          ELSE IF ~allowed              THEN RESPONSE_error(after, fd, 401, 3)
          ELSE IF req.method = "POST"   THEN Reply(after, Silent, 0, "sent")
          ELSE RESPONSE_file(after, d, fd, req, name, f, 3)
  BY Zenon DEF REQUEST_process
<1>3. name \in Names
  BY RequestedNameType
<1>4. found => after = u /\ d[name] \in Nat
  BY <1>3 DEF Looked
<1>5. verdict # 200
  BY VerdictType
<1>6. MissingStatus(name) \notin {Silent, 200}
  BY DEF MissingStatus, Silent
<1> HIDE DEF v, u, name, verdict, found, after, allowed, p, q
<1>7. CASE verdict = Silent
  <2>1. p.status = Silent /\ p.server = v
    BY <1>1, <1>7 DEF Reply
  <2> QED
    BY <2>1 DEF Outcome, p, v
<1>8. CASE verdict \notin {Silent, Proceed}
  <2>1. p = Reject(v, fd, verdict, 3)
    BY <1>1, <1>8
  <2>2. Short(p) /\ p.body = "sent" /\ p.server = Disconnect(v, fd)
    BY <1>5, <1>8, <2>1, ShortOutcome
  <2> QED
    BY <1>8, <2>2 DEF Outcome, p, v, verdict
<1>9. CASE verdict = Proceed
  <2>0. p = q
    BY <1>1, <1>9 DEF Silent, Proceed
  <2>1. CASE ~found
    <3>1. Short(p) /\ p.body = "sent" /\ p.server = v
      BY <1>2, <1>6, <2>0, <2>1, ShortOutcome
    <3> QED
      BY <3>1 DEF Outcome, p, v
  <2>2. CASE found /\ (name \in Unreadable \/ ~allowed)
    <3>1. p \in {RESPONSE_error(u, fd, 403, 3), RESPONSE_error(u, fd, 401, 3)}
      BY <1>2, <1>4, <2>0, <2>2
    <3>2. Short(p) /\ p.body = "sent" /\ p.server = u
      BY <3>1, ShortOutcome DEF Silent
    <3> QED
      BY <3>2 DEF Outcome, p, u
  <2>3. CASE found /\ ~(name \in Unreadable \/ ~allowed) /\ req.method = "POST"
    <3>1. p.status = Silent /\ p.server = u
      BY <1>2, <1>4, <2>0, <2>3 DEF Reply
    <3> QED
      BY <3>1 DEF Outcome, p, u
  <2>4. CASE found /\ ~(name \in Unreadable \/ ~allowed) /\ req.method # "POST"
    <3>1. p = RESPONSE_file(u, d, fd, req, name, f, 3)
      BY <1>2, <1>4, <2>0, <2>4
    <3>2. \/ Short(p) /\ p.body = "sent" /\ p.server = u
          \/ FileOutcome(p, u, d, fd, req, name, f)
      BY <1>4, <2>4, <3>1, FileOutcomeOK
    <3> QED
      BY <3>2 DEF Outcome, p, u, name
  <2> QED
    BY <2>1, <2>2, <2>3, <2>4
<1> QED
  BY <1>7, <1>8, <1>9

-----------------------------------------------------------------------------
(* Slots and connections.                                                  *)

\* MAX_CLIENTS is not reached: the process has fewer descriptors, or there are
\* fewer clients.
FewConnections ==
  \/ FdLimit <= MaxClients
  \/ IsFiniteSet(Clients) /\ Cardinality(Clients) <= MaxClients

\* Every slot is free or belongs to an open connection, no two to the same, and
\* every open connection has one.
SlotsMatch(w) ==
  /\ \A j \in SendSlots : IF w.send_d[j].socket_fd = 0 THEN w.send_d[j] = FreeSend
                          ELSE w.send_d[j].socket_fd \in w.open
  /\ \A j, k \in SendSlots :
       w.send_d[j].socket_fd = w.send_d[k].socket_fd => j = k \/ w.send_d[j].socket_fd = 0
  /\ \A fd \in w.open : \E j \in SendSlots : w.send_d[j].socket_fd = fd

SlotInv == /\ Inv
           /\ SlotsMatch(server)
           /\ \A fd \in Clients : /\ peer[fd] # "reset"
                                 /\ fd \in server.open <=> peer[fd] # "none"

\* SESSION_delete_send_struct and SOCKET_close_fd together.
LEMMA DisconnectEffect ==
  ASSUME NEW w, NEW fd
  PROVE  LET r == Disconnect(w, fd)
         IN /\ r.files = FcloseAll(w, fd)
            /\ r.open = w.open \ {fd}
            /\ r.send_d = [j \in SendSlots |-> IF w.send_d[j].socket_fd = fd
                                               THEN FreeSend ELSE w.send_d[j]]
<1> DEFINE v == DeleteSendStruct(w, fd)
           r == Disconnect(w, fd)
<1>1. /\ v.files = FcloseAll(w, fd)
      /\ v.open = w.open \/ v.open = w.open \ {fd}
      /\ v.send_d = [j \in SendSlots |-> IF w.send_d[j].socket_fd = fd
                                         THEN FreeSend ELSE w.send_d[j]]
      /\ v \in [files : {v.files}, send_d : {v.send_d}, open : {v.open},
                http_conn_count : {v.http_conn_count}]
  BY DEF DeleteSendStruct, SendSlotsOf
<1>2. r = CloseFd(v, fd)
  BY DEF Disconnect
<1> HIDE DEF v, r
<1>3. r.files = v.files /\ r.send_d = v.send_d /\ r.open = v.open \ {fd}
  BY <1>1, <1>2 DEF CloseFd
<1> QED
  BY <1>1, <1>3 DEF r

\* Disconnecting a client frees its slot and leaves the others theirs.
LEMMA DisconnectMatches ==
  ASSUME NEW w, SlotsMatch(w), NEW fd, fd # 0
  PROVE  SlotsMatch(Disconnect(w, fd))
<1> DEFINE r == Disconnect(w, fd)
<1>1. /\ r.open = w.open \ {fd}
      /\ r.send_d = [j \in SendSlots |-> IF w.send_d[j].socket_fd = fd
                                         THEN FreeSend ELSE w.send_d[j]]
  BY DisconnectEffect
<1> HIDE DEF r
<1>2. \A j \in SendSlots : /\ w.send_d[j].socket_fd = fd => r.send_d[j] = FreeSend
                           /\ w.send_d[j].socket_fd # fd => r.send_d[j] = w.send_d[j]
  BY <1>1
<1>3. FreeSend.socket_fd = 0
  BY DEF FreeSend
<1>4. SlotsMatch(r)
  BY <1>1, <1>2, <1>3 DEF SlotsMatch
<1> QED
  BY <1>4 DEF r

\* What matters are the owners of the slots.
LEMMA SameOwners ==
  ASSUME NEW w, SlotsMatch(w), NEW u, u.open = w.open,
         \A j \in SendSlots : /\ u.send_d[j].socket_fd = w.send_d[j].socket_fd
                              /\ w.send_d[j].socket_fd = 0 => u.send_d[j] = w.send_d[j]
  PROVE  SlotsMatch(u)
BY DEF SlotsMatch

\* The slot a client's transfer goes to is its only one.
LEMMA StartTransferEffect ==
  ASSUME NEW w, w \in Servers, SlotsMatch(w), NEW fd \in w.open, NEW file, NEW size, NEW keep_alive
  PROVE  LET r == StartTransfer(w, fd, file, size, keep_alive)
             s == [file |-> file, http_content_size |-> size, sent_size |-> 0,
                   socket_fd |-> fd, total_size |-> size, keep_alive |-> keep_alive]
         IN /\ r.files = w.files /\ r.open = w.open
            /\ r.http_conn_count = w.http_conn_count
            /\ \E k \in SendSlots : /\ w.send_d[k].socket_fd = fd
                                    /\ r.send_d[k] = s
                                    /\ \A j \in SendSlots \ {k} : /\ w.send_d[j].socket_fd # fd
                                                                  /\ r.send_d[j] = w.send_d[j]
            /\ SlotsMatch(r)
<1> DEFINE mine == SendSlotsOf(w, fd)
           k == First(mine)
           s == [file |-> file, http_content_size |-> size, sent_size |-> 0,
                 socket_fd |-> fd, total_size |-> size, keep_alive |-> keep_alive]
           r == StartTransfer(w, fd, file, size, keep_alive)
<1>1. mine # {} /\ fd # 0
  BY ClientsAssumption DEF SlotsMatch, SendSlotsOf, Servers
<1>2. k \in SendSlots /\ w.send_d[k].socket_fd = fd
  <2>1. k \in mine
    BY <1>1, FirstSendSlot DEF SendSlotsOf
  <2> QED
    BY <2>1 DEF SendSlotsOf
<1>3. r = [w EXCEPT !.send_d[k] = s]
  BY <1>1 DEF StartTransfer
<1> HIDE DEF mine, k
<1>4. /\ r.files = w.files /\ r.open = w.open /\ r.http_conn_count = w.http_conn_count
      /\ r.send_d[k] = s /\ \A j \in SendSlots \ {k} : r.send_d[j] = w.send_d[j]
  BY <1>2, <1>3 DEF Servers
<1>5. \A j \in SendSlots \ {k} : w.send_d[j].socket_fd # fd
  BY <1>1, <1>2 DEF SlotsMatch
<1>6. s.socket_fd = fd
  OBVIOUS
<1> HIDE DEF r, s
<1>7. SlotsMatch(r)
  <2>1. \A j \in SendSlots : /\ r.send_d[j].socket_fd = w.send_d[j].socket_fd
                             /\ w.send_d[j].socket_fd = 0 => r.send_d[j] = w.send_d[j]
    BY <1>1, <1>2, <1>4, <1>6
  <2> QED
    BY <1>4, <2>1, SameOwners
<1>8. \E l \in SendSlots : /\ w.send_d[l].socket_fd = fd
                           /\ r.send_d[l] = s
                           /\ \A j \in SendSlots \ {l} : /\ w.send_d[j].socket_fd # fd
                                                         /\ r.send_d[j] = w.send_d[j]
  BY <1>2, <1>4, <1>5
<1> QED
  BY <1>4, <1>7, <1>8 DEF r, s

\* When no slot is free, as many connections are open as there are slots.
LEMMA SlotIsFree ==
  ASSUME NEW w, w \in Servers, SlotsMatch(w), CountOK(w), Cardinality(w.open) < MaxClients
  PROVE  \E j \in SendSlots : w.send_d[j] = FreeSend
<1> SUFFICES ASSUME \A j \in SendSlots : w.send_d[j] # FreeSend
             PROVE  FALSE
  OBVIOUS
<1> DEFINE owner == [j \in SendSlots |-> w.send_d[j].socket_fd]
<1>1. \A j \in SendSlots : w.send_d[j].socket_fd # 0 /\ w.send_d[j].socket_fd \in w.open
  BY DEF SlotsMatch
<1>2. owner \in [SendSlots -> w.open]
  BY <1>1
<1>3. IsFiniteSet(w.open) /\ IsFiniteSet(SendSlots) /\ Cardinality(SendSlots) = MaxClients
  BY FS_Interval, MaxClientsAssumption DEF CountOK, SendSlots
<1> HIDE DEF owner
<1>4. \E j, k \in SendSlots : j # k /\ owner[j] = owner[k]
  BY <1>2, <1>3, FS_PigeonHole
<1> QED
  BY <1>1, <1>4 DEF SlotsMatch, owner

\* A connection that is accepted gets a slot.
LEMMA AcceptedMatches ==
  ASSUME NEW w, ServerOK(w), SlotsMatch(w), NEW fd \in Clients, fd \notin w.open,
         FewConnections, HasRoom(w)
  PROVE  LET r == AddSendStruct([w EXCEPT !.http_conn_count = @ + 1, !.open = @ \cup {fd}], fd)
         IN /\ r.files = w.files /\ r.open = w.open \cup {fd}
            /\ \E k \in SendSlots :
                 /\ w.send_d[k] = FreeSend
                 /\ r.send_d[k] = [FreeSend EXCEPT !.socket_fd = fd]
                 /\ \A j \in SendSlots \ {k} : r.send_d[j] = w.send_d[j]
            /\ SlotsMatch(r)
<1> DEFINE v == [w EXCEPT !.http_conn_count = @ + 1, !.open = @ \cup {fd}]
           free == {j \in SendSlots : v.send_d[j].socket_fd = 0 /\ v.send_d[j].file = NULL}
           k == First(free)
           s == [FreeSend EXCEPT !.socket_fd = fd]
           r == AddSendStruct(v, fd)
<1>1. w \in Servers /\ CountOK(w) /\ fd # 0 /\ IsFiniteSet(w.open)
  BY ClientsAssumption DEF ServerOK, CountOK
<1>2. v.files = w.files /\ v.send_d = w.send_d /\ v.open = w.open \cup {fd}
  BY <1>1 DEF Servers
<1>3. Cardinality(w.open) < MaxClients
  <2>0. MaxClients \in Nat /\ Cardinality(w.open) \in Nat
    BY <1>1, FS_CardinalityType, MaxClientsAssumption
  <2>1. CASE FdLimit <= MaxClients
    <3>1. Cardinality(w.open) + Cardinality(w.files.live) + w.files.leaked < FdLimit
      BY DEF HasRoom
    <3>2. w.files.leaked \in Nat /\ Cardinality(w.files.live) \in Nat
      <4>1. w.files.live \subseteq Streams /\ w.files.leaked \in Nat
        BY <1>1 DEF Servers, Tables
      <4> QED
        BY <4>1, StreamsAssumption, FS_Subset, FS_CardinalityType
    <3> QED
      BY <2>0, <2>1, <3>1, <3>2, FdLimitAssumption
  <2>2. CASE IsFiniteSet(Clients) /\ Cardinality(Clients) <= MaxClients
    <3>1. w.open \subseteq Clients /\ w.open # Clients
      BY <1>1 DEF Servers
    <3>2. Cardinality(w.open) <= Cardinality(Clients) /\ Cardinality(w.open) # Cardinality(Clients)
      BY <2>2, <3>1, FS_Subset
    <3>3. Cardinality(Clients) \in Nat
      BY <2>2, FS_CardinalityType
    <3> QED
      BY <2>0, <2>2, <3>2, <3>3
  <2> QED
    BY <2>1, <2>2 DEF FewConnections
<1>4. free # {}
  BY <1>1, <1>2, <1>3, SlotIsFree DEF FreeSend
<1>5. k \in SendSlots /\ w.send_d[k].socket_fd = 0
  <2>1. k \in free
    BY <1>4, FirstSendSlot
  <2> QED
    BY <1>2, <2>1
<1>6. w.send_d[k] = FreeSend
  BY <1>5 DEF SlotsMatch
<1>7. r = [v EXCEPT !.send_d[k] = s]
  BY <1>4 DEF AddSendStruct
<1>8. v \in [files : {v.files}, send_d : {w.send_d}, open : {v.open},
             http_conn_count : {v.http_conn_count}]
  BY <1>1 DEF Servers
<1> HIDE DEF v, free, k
<1>9. /\ r.files = w.files /\ r.open = w.open \cup {fd}
      /\ r.send_d[k] = s /\ \A j \in SendSlots \ {k} : r.send_d[j] = w.send_d[j]
  BY <1>1, <1>2, <1>5, <1>7, <1>8 DEF Servers
<1>10. s.socket_fd = fd
  BY DEF FreeSend
<1> HIDE DEF r, s
<1>11. \A j \in SendSlots : w.send_d[j].socket_fd # fd
  BY <1>1 DEF SlotsMatch
<1>12. SlotsMatch(r)
  <2>1. \A j \in SendSlots : IF r.send_d[j].socket_fd = 0 THEN r.send_d[j] = FreeSend
                             ELSE r.send_d[j].socket_fd \in r.open
    BY <1>1, <1>9, <1>10 DEF SlotsMatch
  <2>2. \A j, l \in SendSlots : r.send_d[j].socket_fd = r.send_d[l].socket_fd
                                  => j = l \/ r.send_d[j].socket_fd = 0
    BY <1>9, <1>10, <1>11 DEF SlotsMatch
  <2>3. \A c \in r.open : \E j \in SendSlots : r.send_d[j].socket_fd = c
    <3> SUFFICES ASSUME NEW c \in r.open
                 PROVE  \E j \in SendSlots : r.send_d[j].socket_fd = c
      OBVIOUS
    <3>1. CASE c = fd
      BY <1>5, <1>9, <1>10, <3>1
    <3>2. CASE c # fd
      <4>1. PICK j \in SendSlots : w.send_d[j].socket_fd = c
        BY <1>9, <3>2 DEF SlotsMatch
      <4>2. c \in Clients
        BY <1>1, <1>9, <3>2 DEF Servers
      <4>3. j # k
        BY <1>5, <4>1, <4>2, ClientsAssumption
      <4> QED
        BY <1>9, <4>1, <4>3
    <3> QED
      BY <3>1, <3>2
  <2> QED
    BY <2>1, <2>2, <2>3 DEF SlotsMatch
<1> QED
  BY <1>5, <1>6, <1>9, <1>12 DEF r, s, v
-----------------------------------------------------------------------------
(* The steps of an answer, one by one. *)

\* The index files of the document root.
Indexes == {SITE_INDEX} \cup {IndexNames[k] : k \in DOMAIN IndexNames}

\* Other tables leave slots and connections alone.
LEMMA FilesOnly ==
  ASSUME NEW w \in Servers, NEW t
  PROVE  /\ SameSlots(w, [w EXCEPT !.files = t])
         /\ [w EXCEPT !.files = t].files = t
BY DEF Servers, SameSlots

\* The answer comes from a file that was asked for.
LEMMA RequestedIsAsked ==
  ASSUME NEW w, NEW d, NEW req \in Request, NEW f
  PROVE  /\ RequestedName(w, d, req, f) \in Asked(req)
         /\ req.dir => RequestedName(w, d, req, f) \in Indexes
<1> DEFINE S == IndexFound(w, d, f)
<1>1. S \subseteq DOMAIN IndexNames /\ DOMAIN IndexNames \subseteq Nat
  BY IndexNamesAssumption DEF IndexFound
<1>2. RequestedName(w, d, req, f) = IF ~req.dir THEN req.name
                                    ELSE IF S = {} THEN SITE_INDEX
                                    ELSE IndexNames[First(S)]
  BY DEF RequestedName
<1> HIDE DEF S
<1>3. S # {} => First(S) \in S
  <2> SUFFICES ASSUME S # {}
               PROVE  First(S) \in S
    OBVIOUS
  <2>1. PICK m \in S : \A y \in S : m <= y
    BY <1>1, LeastElement
  <2> QED
    BY <2>1, Zenon DEF First
<1>4. req.dir => RequestedName(w, d, req, f) \in Indexes
  BY <1>1, <1>2, <1>3 DEF Indexes
<1> QED
  BY <1>2, <1>4 DEF Asked, Indexes

\* SESSION_local_path_is_valid, REQUEST_get_index and file_params: at most the
\* index file is opened, and the stream that fopen may return stays unused.
LEMMA LookedOK ==
  ASSUME NEW w, ServerOK(w), NEW d \in [Names -> Nat \cup {Absent}], NEW req \in Request,
         NEW f \in Streams \ w.files.live
  PROVE  LET v == PinIndex(w, d, req, f)
             u == Looked(w, d, req, f)
             name == RequestedName(w, d, req, f)
         IN /\ ServerOK(v) /\ SameSlots(w, v) /\ ServerOK(u) /\ SameSlots(w, u)
            /\ u.files.opened = v.files.opened /\ u.files.cached = v.files.cached
            /\ \/ v = w
               \/ /\ name \in Names /\ d[name] \in Nat /\ name \in Indexes
                  /\ v.files = Fopen(w.files, name, Probe, Fresh(w, f), d[name])
            /\ OpenedAs(u.files, name) = {} => Fresh(u, f) \in (Streams \ u.files.live) \cup {NULL}
<1> DEFINE name == RequestedName(w, d, req, f)
           t == Fopen(w.files, name, Probe, Fresh(w, f), d[name])
           skip == ~req.dir \/ req.method = "other" \/ req.uri = "long" \/ IndexFound(w, d, f) = {}
           v == PinIndex(w, d, req, f)
           r == FopenUnlisted(v.files, name)
           u == Looked(w, d, req, f)
<1>1. ServerOK(v) /\ (OpenedAs(v.files, name) = {} => f \notin v.files.live)
  BY PinIndexOK
<1>2. name \in Names /\ (~skip => d[name] \in Nat /\ name \in Indexes)
  BY RequestedNameType, RequestedIsAsked
<1>3. v = IF skip THEN w ELSE [w EXCEPT !.files = t]
  BY Zenon DEF PinIndex
<1>4. u = [v EXCEPT !.files = r]
  BY DEF Looked
<1> HIDE DEF name, t, skip, v, u
<1>5. SameSlots(w, v) /\ (v = w \/ (~skip /\ v.files = t))
  <2>1. w \in Servers
    BY DEF ServerOK
  <2>2. SameSlots(w, [w EXCEPT !.files = t]) /\ [w EXCEPT !.files = t].files = t
    BY <2>1, FilesOnly
  <2> QED
    BY <1>3, <2>2 DEF SameSlots
<1>6. TablesOK(v.files) /\ v.files \in Tables
  BY <1>1 DEF ServerOK, TablesOK
<1>7. TablesOK(r) /\ r.opened = v.files.opened /\ r.cached = v.files.cached /\ r.live = v.files.live
  <2>1. TablesOK(r)
    BY <1>2, <1>6, FopenUnlistedOK
  <2> QED
    BY <1>6, <2>1 DEF FopenUnlisted, Tables
<1> HIDE DEF r
<1>8. ServerOK(u) /\ SameSlots(v, u) /\ u.files = r
  <2>1. v \in Servers
    BY <1>1 DEF ServerOK
  <2> QED
    BY <1>1, <1>4, <1>7, <2>1, NewFilesOK, FilesOnly
<1>9. SameSlots(w, u)
  BY <1>5, <1>8 DEF SameSlots
<1>10. OpenedAs(u.files, name) = {} => Fresh(u, f) \in (Streams \ u.files.live) \cup {NULL}
  BY <1>1, <1>7, <1>8 DEF OpenedAs, Fresh
<1>11. /\ ServerOK(v) /\ SameSlots(w, v) /\ ServerOK(u) /\ SameSlots(w, u)
       /\ u.files.opened = v.files.opened /\ u.files.cached = v.files.cached
       /\ v = w \/ (/\ name \in Names /\ d[name] \in Nat /\ name \in Indexes
                    /\ v.files = t)
  BY <1>1, <1>2, <1>5, <1>7, <1>8, <1>9
<1> QED
  BY <1>10, <1>11 DEF name, v, u, t

\* battery_fopen for the client, and the close after a conditional request.
LEMMA OpenedOK ==
  ASSUME NEW u, ServerOK(u), NEW d, NEW name \in Names, d[name] \in Nat,
         NEW fd \in Clients, NEW f,
         OpenedAs(u.files, name) = {} => Fresh(u, f) \in (Streams \ u.files.live) \cup {NULL}
  PROVE  LET v == Opened(u, d, fd, name, f)
             file == FopenResult(u.files, name, fd, Fresh(u, f))
             c == [v EXCEPT !.files = Fclose(@, file, fd)]
         IN /\ ServerOK(v) /\ SameSlots(u, v)
            /\ v.files = Fopen(u.files, name, fd, Fresh(u, f), d[name])
            /\ SameSlots(v, c) /\ c.files = Fclose(v.files, file, fd)
            /\ file # NULL => file \in Streams /\ Matching(u.files, name, file)
<1> DEFINE file == FopenResult(u.files, name, fd, Fresh(u, f))
           t == Fopen(u.files, name, fd, Fresh(u, f), d[name])
           v == Opened(u, d, fd, name, f)
           c == [v EXCEPT !.files = Fclose(@, file, fd)]
<1>1. fd \in Owners /\ TablesOK(u.files) /\ u \in Servers
  BY DEF Owners, ServerOK
<1>2. TablesOK(t) /\ (file # NULL => file \in Streams /\ Matching(u.files, name, file))
  BY <1>1, FopenOK, FopenResultMatches
<1>3. v = [u EXCEPT !.files = t]
  BY DEF Opened
<1> HIDE DEF file, t, v
<1>4. ServerOK(v) /\ v.files = t /\ SameSlots(u, v)
  BY <1>1, <1>2, <1>3, NewFilesOK, FilesOnly
<1>5. c = [v EXCEPT !.files = Fclose(v.files, file, fd)]
  OBVIOUS
<1>6. SameSlots(v, c) /\ c.files = Fclose(v.files, file, fd)
  <2>1. v \in Servers
    BY <1>4 DEF ServerOK
  <2> HIDE DEF c
  <2> QED
    BY <1>5, <2>1, FilesOnly
<1> QED
  BY <1>2, <1>4, <1>6 DEF file, t, v

-----------------------------------------------------------------------------
(* What a handler leaves to the other clients. *)

OthersKept(w, r, fd) ==
  \A c \in Clients \ {fd} :
    /\ c \in r.open <=> c \in w.open
    /\ \A j \in SendSlots :
         w.send_d[j].socket_fd = c \/ r.send_d[j].socket_fd = c => r.send_d[j] = w.send_d[j]

\* An answer that does not end with the content of a file to come.
Quiet(p) == p.status = Silent \/ Short(p)

\* A disconnected client is the only one that is.
LEMMA DisconnectKeeps ==
  ASSUME NEW w, SlotsMatch(w), NEW fd \in Clients
  PROVE  LET r == Disconnect(w, fd)
         IN SlotsMatch(r) /\ OthersKept(w, r, fd) /\ r.open = w.open \ {fd}
<1> DEFINE r == Disconnect(w, fd)
<1>1. fd # 0 /\ \A c \in Clients : c # 0
  BY ClientsAssumption
<1>2. SlotsMatch(r)
  BY <1>1, DisconnectMatches
<1>3. /\ r.open = w.open \ {fd}
      /\ r.send_d = [j \in SendSlots |-> IF w.send_d[j].socket_fd = fd
                                         THEN FreeSend ELSE w.send_d[j]]
  BY DisconnectEffect
<1> HIDE DEF r
<1>4. OthersKept(w, r, fd)
  BY <1>1, <1>3 DEF OthersKept, FreeSend
<1> QED
  BY <1>2, <1>3, <1>4 DEF r

\* What SESSION_prepare does to slots and connections.
LEMMA PrepareKeeps ==
  ASSUME NEW w, ServerOK(w), SlotsMatch(w), NEW d \in [Names -> Nat \cup {Absent}],
         NEW fd \in w.open, NEW req \in Request, NEW f \in Streams \ w.files.live
  PROVE  LET p == SESSION_prepare(w, d, fd, req, f, 3)
             r == p.server
         IN /\ SlotsMatch(r) /\ OthersKept(w, r, fd)
            /\ \/ Quiet(p) /\ SameSlots(w, r)
               \/ /\ Quiet(p) /\ r.open = w.open \ {fd}
                  /\ Verdict(req, w.http_conn_count) # Proceed
               \/ /\ p.status = 200 /\ p.body = "later" /\ r.open = w.open
                  /\ \A j \in SendSlots : r.send_d[j].socket_fd = fd =>
                       /\ r.send_d[j].sent_size = 0
                       /\ r.send_d[j].http_content_size = p.length
                       /\ r.send_d[j].total_size = p.length
                       /\ r.send_d[j].keep_alive = KeepAlive(req)
<1> DEFINE v == PinIndex(w, d, req, f)
           u == Looked(w, d, req, f)
           name == RequestedName(w, d, req, f)
           p == SESSION_prepare(w, d, fd, req, f, 3)
           r == p.server
           Same == Quiet(p) /\ SameSlots(w, r)
           Ended == /\ Quiet(p) /\ r.open = w.open \ {fd}
                    /\ Verdict(req, w.http_conn_count) # Proceed
           Mine(j) == /\ r.send_d[j].sent_size = 0
                      /\ r.send_d[j].http_content_size = p.length
                      /\ r.send_d[j].total_size = p.length
                      /\ r.send_d[j].keep_alive = KeepAlive(req)
           Begun == /\ p.status = 200 /\ p.body = "later" /\ r.open = w.open
                    /\ \A j \in SendSlots : r.send_d[j].socket_fd = fd => Mine(j)
<1>1. fd \in Clients /\ \A c \in Clients : c # 0
  BY ClientsAssumption DEF ServerOK, Servers
<1>2. /\ ServerOK(v) /\ SameSlots(w, v) /\ ServerOK(u) /\ SameSlots(w, u)
      /\ OpenedAs(u.files, name) = {} => Fresh(u, f) \in (Streams \ u.files.live) \cup {NULL}
  BY LookedOK
<1>3. name \in Names
  BY RequestedNameType
<1>4. Outcome(p, w, d, fd, req, f)
  BY PrepareOutcome
<1>5. ASSUME SameSlots(w, r)
      PROVE  SlotsMatch(r) /\ OthersKept(w, r, fd)
  BY <1>5 DEF SameSlots, SlotsMatch, OthersKept
<1> HIDE DEF p, v, u, name
<1>6. CASE p.status = Silent /\ r \in {v, u}
  <2>1. Same
    BY <1>2, <1>6 DEF Quiet
  <2> QED
    BY <1>5, <2>1 DEF p
<1>7. CASE Short(p) /\ Verdict(req, w.http_conn_count) # Proceed /\ r = Disconnect(v, fd)
  <2>1. SlotsMatch(v)
    BY <1>2 DEF SameSlots, SlotsMatch
  <2>2. SlotsMatch(r) /\ OthersKept(v, r, fd) /\ r.open = v.open \ {fd}
    BY <1>1, <1>7, <2>1, DisconnectKeeps
  <2>3. OthersKept(w, r, fd) /\ Ended
    BY <1>2, <1>7, <2>2 DEF SameSlots, OthersKept, Quiet
  <2> QED
    BY <2>2, <2>3 DEF p
<1>8. CASE Short(p) /\ r \in {v, u}
  <2>1. Same
    BY <1>2, <1>8 DEF Quiet
  <2> QED
    BY <1>5, <2>1 DEF p
<1>9. CASE FileOutcome(p, u, d, fd, req, name, f)
  <2> DEFINE o == Opened(u, d, fd, name, f)
             file == FopenResult(u.files, name, fd, Fresh(u, f))
             c == [o EXCEPT !.files = Fclose(@, file, fd)]
  <2>1. d[name] \in Nat
    BY <1>9 DEF FileOutcome
  <2>2. ServerOK(o) /\ SameSlots(u, o) /\ SameSlots(o, c)
    BY <1>1, <1>2, <1>3, <2>1, OpenedOK
  <2>3. \/ Short(p) /\ r \in {o, c}
        \/ /\ p.status = 200 /\ p.body = "later"
           /\ r = StartTransfer(o, fd, file, p.length, KeepAlive(req))
    BY <1>9 DEF FileOutcome
  <2> HIDE DEF o, file, c
  <2>4. CASE Short(p) /\ r \in {o, c}
    <3>1. Same
      BY <1>2, <2>2, <2>4 DEF Quiet, SameSlots
    <3> QED
      BY <1>5, <3>1 DEF p
  <2>5. CASE /\ p.status = 200 /\ p.body = "later"
             /\ r = StartTransfer(o, fd, file, p.length, KeepAlive(req))
    <3> DEFINE s == [file |-> file, http_content_size |-> p.length, sent_size |-> 0,
                     socket_fd |-> fd, total_size |-> p.length, keep_alive |-> KeepAlive(req)]
    <3>1. SlotsMatch(o) /\ o \in Servers /\ fd \in o.open /\ SameSlots(w, o)
      BY <1>2, <2>2 DEF SameSlots, SlotsMatch, ServerOK
    <3>2. /\ r.open = o.open /\ SlotsMatch(r)
          /\ \E k \in SendSlots : /\ o.send_d[k].socket_fd = fd
                                  /\ r.send_d[k] = s
                                  /\ \A j \in SendSlots \ {k} : /\ o.send_d[j].socket_fd # fd
                                                                /\ r.send_d[j] = o.send_d[j]
      BY <2>5, <3>1, StartTransferEffect
    <3>3. PICK k \in SendSlots : /\ o.send_d[k].socket_fd = fd
                                 /\ r.send_d[k] = s
                                 /\ \A j \in SendSlots \ {k} : /\ o.send_d[j].socket_fd # fd
                                                               /\ r.send_d[j] = o.send_d[j]
      BY <3>2
    <3>4. /\ s.socket_fd = fd /\ s.sent_size = 0 /\ s.http_content_size = p.length
          /\ s.total_size = p.length /\ s.keep_alive = KeepAlive(req)
      OBVIOUS
    <3> HIDE DEF s
    <3>5. \A j \in SendSlots : r.send_d[j].socket_fd = fd => Mine(j)
      BY <3>3, <3>4
    <3>6. OthersKept(w, r, fd)
      BY <3>1, <3>2, <3>3, <3>4 DEF OthersKept, SameSlots
    <3>7. Begun
      BY <2>5, <3>1, <3>2, <3>5 DEF SameSlots
    <3> QED
      BY <3>2, <3>6, <3>7 DEF p
  <2> QED
    BY <2>3, <2>4, <2>5
<1> QED
  BY <1>4, <1>6, <1>7, <1>8, <1>9 DEF Outcome, u, v, name

\* What SOCKET_send_all_data_fd does to slots and connections.
LEMMA ChunkKeeps ==
  ASSUME NEW w, ServerOK(w), SlotsMatch(w), NEW i \in SendSlots, NEW n \in Int,
         w.send_d[i].socket_fd \in Clients
  PROVE  LET r == SendChunk(w, i, n)
             fd == w.send_d[i].socket_fd
         IN /\ SlotsMatch(r) /\ OthersKept(w, r, fd)
            /\ \/ Ends(w, i, n) /\ r.open = w.open \ {fd}
               \/ ~Ends(w, i, n) /\ r = Advanced(w, i, n) /\ r.open = w.open
<1> DEFINE v == Advanced(w, i, n)
           r == SendChunk(w, i, n)
           s == w.send_d[i]
           fd == s.socket_fd
           e == IF n > 0 THEN Chunk(s, n) ELSE s
<1>1. w \in Servers /\ s \in SendInfo /\ \A c \in Clients : c # 0
  BY ClientsAssumption DEF ServerOK, Servers
<1>2. r = IF Ends(w, i, n) THEN Disconnect(v, fd) ELSE v
  BY <1>1, SendChunkIs
<1>3. /\ v.open = w.open /\ v.send_d[i] = e
      /\ \A j \in SendSlots \ {i} : v.send_d[j] = w.send_d[j]
  BY <1>1, AdvancedIs
<1>4. e.socket_fd = fd
  <2>1. n > 0 => n \in Nat
    OBVIOUS
  <2> QED
    BY <1>1, <2>1, ChunkFields
<1>5. \A j \in SendSlots : /\ v.send_d[j].socket_fd = w.send_d[j].socket_fd
                           /\ w.send_d[j].socket_fd # fd => v.send_d[j] = w.send_d[j]
  BY <1>3, <1>4
<1> HIDE DEF v, r, e
<1>6. SlotsMatch(v)
  <2>1. \A j \in SendSlots : w.send_d[j].socket_fd = 0 => v.send_d[j] = w.send_d[j]
    BY <1>1, <1>5
  <2> QED
    BY <1>3, <1>5, <2>1, SameOwners
<1>7. OthersKept(w, v, fd)
  BY <1>1, <1>3, <1>5 DEF OthersKept
<1>8. CASE ~Ends(w, i, n)
  <2>1. r = v
    BY <1>2, <1>8
  <2> QED
    BY <1>3, <1>6, <1>7, <1>8, <2>1 DEF v, r
<1>9. CASE Ends(w, i, n)
  <2>1. r = Disconnect(v, fd) /\ fd \in Clients
    BY <1>2, <1>9
  <2>2. SlotsMatch(r) /\ OthersKept(v, r, fd) /\ r.open = v.open \ {fd}
    BY <1>6, <2>1, DisconnectKeeps
  <2>3. OthersKept(w, r, fd)
    BY <1>7, <2>2 DEF OthersKept
  <2>4. r.open = w.open \ {fd}
    BY <1>3, <2>2
  <2> QED
    BY <1>9, <2>2, <2>3, <2>4 DEF r
<1> QED
  BY <1>8, <1>9
-----------------------------------------------------------------------------
(* SlotInv is invariant when connections are not reset: Hangup closes the  *)
(* descriptor of a reset connection and leaves its slot as it is.          *)

NoResets == "reset" \notin Faults

\* A handler that has run.
LEMMA BecomeSlots ==
  ASSUME SlotInv, Inv', NEW r, NEW unread, NEW seen, Become(r, unread, seen),
         SlotsMatch(r), r.open \subseteq server.open
  PROVE  SlotInv'
<1>1. server' = r /\ peer' = [fd \in Clients |-> IF fd \in r.open THEN peer[fd] ELSE "none"]
  BY DEF Become
<1>2. SlotsMatch(server')
  BY <1>1
<1>3. SlotsMatch(server)'
  BY <1>2
<1>4. \A fd \in Clients : peer'[fd] # "reset" /\ (fd \in server'.open <=> peer'[fd] # "none")
  BY <1>1 DEF SlotInv
<1> QED
  BY <1>3, <1>4 DEF SlotInv

\* Without resets every send of an answer succeeds.
LEMMA ProcessIs ==
  ASSUME SlotInv, NoResets, NEW fd \in Clients, NEW req, NEW rest, Process(fd, req, rest)
  PROVE  \E f \in Streams \ server.files.live :
           LET p == SESSION_prepare(server, disk, fd, req, f, 3)
           IN Become(p.server, [inbox EXCEPT ![fd] = rest],
                     [view EXCEPT ![fd] = Answered(@, p)])
<1>1. PICK f \in Streams \ server.files.live, ok \in Successes(fd) :
        LET p == SESSION_prepare(server, disk, fd, req, f, ok)
        IN Become(p.server, [inbox EXCEPT ![fd] = rest], [view EXCEPT ![fd] = Answered(@, p)])
  BY Zenon DEF Process
<1>2. ok = 3
  BY DEF Successes, SlotInv, NoResets
<1> QED
  BY <1>1, <1>2, Zenon

\* Nor does a chunk fail for another reason than a stale file.
LEMMA SendIs ==
  ASSUME SlotInv, NEW i \in SendSlots, server.send_d[i].socket_fd \in Clients, Send(i)
  PROVE  LET s == server.send_d[i]
         IN \E n \in Written(Offered(server, disk, s), s.http_content_size, FALSE) :
              /\ n \in Int
              /\ Become(SendChunk(server, i, n), inbox,
                        [view EXCEPT ![s.socket_fd] = Received(@, s, n)])
<1> DEFINE s == server.send_d[i]
           fd == s.socket_fd
<1>1. PICK n \in Written(Offered(server, disk, s), s.http_content_size, peer[fd] = "reset") :
        Become(SendChunk(server, i, n), inbox, [view EXCEPT ![fd] = Received(@, s, n)])
  BY Zenon DEF Send
<1>2. (peer[fd] = "reset") = FALSE
  BY DEF SlotInv
<1>3. n \in Int
  <2>1. s.http_content_size \in Int
    BY DEF SlotInv, Inv, ServerOK, Servers, SendInfo
  <2> HIDE DEF s
  <2> QED
    BY <2>1 DEF Written
<1> QED
  BY <1>1, <1>2, <1>3

\* A new connection.
LEMMA AcceptSlots ==
  ASSUME SlotInv, FewConnections, NEW fd \in Clients, Accept(fd)
  PROVE  SlotInv'
<1> DEFINE r == AddSendStruct([server EXCEPT !.http_conn_count = @ + 1,
                                             !.open = @ \cup {fd}], fd)
<1>1. Inv' /\ server' = r /\ peer' = [peer EXCEPT ![fd] = "up"]
  BY AcceptOK DEF SlotInv, Accept
<1>2. r.open = server.open \cup {fd} /\ SlotsMatch(r)
  BY AcceptedMatches DEF SlotInv, Inv, Accept
<1> HIDE DEF r
<1>3. SlotsMatch(server')
  BY <1>1, <1>2
<1>4. SlotsMatch(server)'
  BY <1>3
<1>5. peer \in [Clients -> {"none", "up", "fin", "reset"}]
  BY DEF SlotInv, Inv, TypeOK
<1>6. \A c \in Clients : peer'[c] # "reset" /\ (c \in server'.open <=> peer'[c] # "none")
  BY <1>1, <1>2, <1>5 DEF SlotInv
<1> QED
  BY <1>1, <1>4, <1>6 DEF SlotInv

\* A client that is gone.
LEMMA GoneSlots ==
  ASSUME SlotInv, NEW fd \in Clients, ReceiveNothing(fd)
  PROVE  SlotInv'
<1>1. Inv'
  BY GoneOK DEF SlotInv
<1>2. Become(Disconnect(server, fd), inbox, view)
  BY DEF ReceiveNothing
<1>3. /\ SlotsMatch(Disconnect(server, fd))
      /\ Disconnect(server, fd).open = server.open \ {fd}
  BY DisconnectKeeps DEF SlotInv
<1> QED
  BY <1>1, <1>2, <1>3, BecomeSlots

\* A request, or what looks like one.
LEMMA ProcessSlots ==
  ASSUME SlotInv, NoResets, NEW fd \in server.open, NEW req \in Request,
         NEW rest \in Inboxes, Process(fd, req, rest)
  PROVE  SlotInv'
<1>1. fd \in Clients
  BY DEF SlotInv, Inv, ServerOK, Servers
<1>2. Inv'
  BY <1>1, ProcessOK DEF SlotInv
<1>3. PICK f \in Streams \ server.files.live :
        LET p == SESSION_prepare(server, disk, fd, req, f, 3)
        IN Become(p.server, [inbox EXCEPT ![fd] = rest],
                  [view EXCEPT ![fd] = Answered(@, p)])
  BY <1>1, ProcessIs
<1> DEFINE p == SESSION_prepare(server, disk, fd, req, f, 3)
<1>4. SlotsMatch(p.server) /\ p.server.open \subseteq server.open
  <2>1. disk \in [Names -> Nat \cup {Absent}] /\ ServerOK(server) /\ SlotsMatch(server)
    BY DEF SlotInv, Inv, TypeOK
  <2>2. /\ SlotsMatch(p.server)
        /\ \/ SameSlots(server, p.server)
           \/ p.server.open = server.open \ {fd}
           \/ p.server.open = server.open
    BY <2>1, PrepareKeeps
  <2> QED
    BY <2>2 DEF SameSlots
<1> HIDE DEF p
<1> QED
  BY <1>2, <1>3, <1>4, BecomeSlots DEF p

\* A client that has sent something is connected.
LEMMA ReceiveSlots ==
  ASSUME SlotInv, NoResets, NEW fd \in Clients, ReceiveRequest(fd) \/ ReceivePart(fd)
  PROVE  SlotInv'
<1>1. fd \in server.open /\ inbox[fd] \in Inboxes
  BY DEF SlotInv, Inv, TypeOK, Inboxes, ReceiveRequest, ReceivePart
<1>2. \A req \in Requests : req \in Request /\ Remainder(req) \in Request /\ Parts(req) \subseteq Request
  BY RequestParts, RequestsAssumption
<1>3. CASE ReceiveRequest(fd)
  <2>1. inbox[fd] \in Request
    BY <1>1, <1>2, <1>3 DEF ReceiveRequest, Inboxes
  <2>2. Process(fd, inbox[fd], NoRequest) /\ NoRequest \in Inboxes
    BY <1>3 DEF ReceiveRequest, Inboxes
  <2> QED
    BY <1>1, <2>1, <2>2, ProcessSlots
<1>4. CASE ReceivePart(fd)
  <2>1. PICK part \in Parts(inbox[fd]) : Process(fd, part, Remainder(inbox[fd]))
    BY <1>4, Zenon DEF ReceivePart
  <2>2. inbox[fd] \in Requests
    BY <1>4 DEF ReceivePart
  <2>3. part \in Request /\ Remainder(inbox[fd]) \in Inboxes
    BY <1>2, <2>1, <2>2 DEF Inboxes
  <2> QED
    BY <1>1, <2>1, <2>3, ProcessSlots
<1> QED
  BY <1>3, <1>4

\* The next part of a transfer.
LEMMA SendSlotsKept ==
  ASSUME SlotInv, NEW i \in SendSlots, server.send_d[i].socket_fd \in Clients, Send(i)
  PROVE  SlotInv'
<1> DEFINE s == server.send_d[i]
<1>1. Inv'
  BY SendOK DEF SlotInv
<1>2. PICK n \in Int : Become(SendChunk(server, i, n), inbox,
                              [view EXCEPT ![s.socket_fd] = Received(@, s, n)])
  BY SendIs
<1>3. /\ SlotsMatch(SendChunk(server, i, n))
      /\ SendChunk(server, i, n).open \subseteq server.open
  BY ChunkKeeps DEF SlotInv, Inv
<1> HIDE DEF s
<1> QED
  BY <1>1, <1>2, <1>3, BecomeSlots

\* Clients that send or leave, and writers of files.
LEMMA EnvironmentSlots ==
  ASSUME SlotInv, NoResets,
         \/ \E fd \in Clients : ClientSend(fd) \/ ClientFin(fd) \/ ClientReset(fd)
         \/ \E name \in Names, size \in Sizes : Edit(name, size)
         \/ UNCHANGED svars
  PROVE  SlotInv'
<1>1. Inv'
  BY EnvironmentOK DEF SlotInv
<1>2. server' = server
  BY DEF ClientSend, ClientFin, ClientReset, Edit, svars
<1>3. SlotsMatch(server)'
  BY <1>2 DEF SlotInv
<1>4. \A c \in Clients : peer'[c] # "reset" /\ (c \in server'.open <=> peer'[c] # "none")
  <2>1. CASE UNCHANGED peer
    BY <1>2, <2>1 DEF SlotInv
  <2>2. CASE \E fd \in Clients : peer[fd] = "up" /\ peer' = [peer EXCEPT ![fd] = "fin"]
    BY <1>2, <2>2 DEF SlotInv, Inv, TypeOK
  <2> QED
    BY <2>1, <2>2 DEF ClientSend, ClientFin, ClientReset, Edit, svars, NoResets
<1> QED
  BY <1>1, <1>3, <1>4 DEF SlotInv

\* The server starts without slots and connections.
LEMMA SlotsInit == Init => SlotInv
<1> SUFFICES ASSUME Init
             PROVE  SlotInv
  OBVIOUS
<1>1. SlotsMatch(StartedServer)
  BY DEF SlotsMatch, StartedServer, FreeSend
<1>2. SlotsMatch(server)
  BY <1>1 DEF Init
<1> QED
  BY <1>2, ServerInit DEF Init, SlotInv, StartedServer

\* Every connection has exactly one slot, and every slot in use a connection.
LEMMA OneSlotEach == SlotInv => OneSlotPerConnection
<1> SUFFICES ASSUME SlotInv
             PROVE  OneSlotPerConnection
  OBVIOUS
<1>1. ASSUME NEW fd \in server.open
      PROVE  Cardinality(SendSlotsOf(server, fd)) = 1
  <2>1. fd # 0
    BY ClientsAssumption DEF SlotInv, Inv, ServerOK, Servers
  <2>2. PICK j \in SendSlots : server.send_d[j].socket_fd = fd
    BY DEF SlotInv, SlotsMatch
  <2>3. SendSlotsOf(server, fd) = {j}
    BY <2>1, <2>2 DEF SlotInv, SlotsMatch, SendSlotsOf
  <2> QED
    BY <2>3, FS_Singleton
<1>2. ASSUME NEW i \in SendSlots, server.send_d[i].socket_fd # 0
      PROVE  server.send_d[i].socket_fd \in server.open
  BY <1>2 DEF SlotInv, SlotsMatch
<1> QED
  BY <1>1, <1>2 DEF OneSlotPerConnection
-----------------------------------------------------------------------------
(* TurnInv: what the server has recorded of a transfer is what the client  *)
(* has seen of it.  It is invariant when clients wait for an answer before *)
(* they ask again (InTurn).  The code does not keep requests apart: one    *)
(* that comes early, or in two parts, makes a header arrive while content  *)
(* is missing, and so does the content that answers HEAD.                  *)

InTurn == /\ {"reset", "pipeline", "split", "cut"} \cap Faults = {}
          /\ \A req \in Requests : req.method # "HEAD"

\* Slot s, if it is pending, against what its client has seen.
ViewMatches(s, v) ==
  s.http_content_size > 0 => /\ v.phase = "body"
                             /\ v.got = s.sent_size
                             /\ v.length = s.total_size
                             /\ s.keep_alive = KeepAlive(v.request)

\* A request is unread only while its client waits for the answer; what ends an
\* answer with content is the end of the connection, or keep-alive.
Conversation(w, fd, unread, v) ==
  /\ unread # NoRequest => /\ fd \in w.open
                           /\ unread \in Requests
                           /\ v.phase = "wait"
                           /\ v.request = unread
  /\ v.phase # "idle" => v.request \in Requests
  /\ v.phase = "idle" /\ v.status = 200 => KeepAlive(v.request)
  /\ \A j \in SendSlots : w.send_d[j].socket_fd = fd => ViewMatches(w.send_d[j], v)

TurnInv == SlotInv /\ \A fd \in Clients : Conversation(server, fd, inbox[fd], view[fd])

\* A handler that has run for one client.
LEMMA BecomeTurns ==
  ASSUME TurnInv, SlotInv', NEW fd \in Clients, NEW r, NEW unread, NEW seen,
         Become(r, unread, seen), OthersKept(server, r, fd),
         \A c \in Clients \ {fd} : unread[c] = inbox[c] /\ seen[c] = view[c],
         fd \in r.open => Conversation(r, fd, unread[fd], seen[fd])
  PROVE  TurnInv'
<1>1. server' = r /\ SlotsMatch(server')
  <2>1. SlotsMatch(server)'
    BY DEF SlotInv
  <2> QED
    BY <2>1 DEF Become
<1>2. ASSUME NEW c \in Clients
      PROVE  Conversation(server', c, inbox'[c], view'[c])
  <2>1. CASE c \notin r.open
    <3> DEFINE v == [NewView EXCEPT !.ok = seen[c].ok]
    <3>1. inbox'[c] = NoRequest /\ view'[c] = v
      BY <2>1 DEF Become
    <3>2. v.phase = "idle" /\ v.status = 0
      BY DEF NewView
    <3> HIDE DEF v
    <3>3. \A j \in SendSlots : r.send_d[j].socket_fd # c
      BY <1>1, <2>1, ClientsAssumption DEF SlotsMatch
    <3> QED
      BY <1>1, <3>1, <3>2, <3>3 DEF Conversation
  <2>2. CASE c \in r.open
    <3>1. inbox'[c] = unread[c] /\ view'[c] = seen[c]
      BY <2>2 DEF Become
    <3>2. CASE c = fd
      BY <1>1, <2>2, <3>1, <3>2
    <3>3. CASE c # fd
      <4>1. Conversation(server, c, unread[c], seen[c])
        BY <3>3 DEF TurnInv
      <4>2. Conversation(r, c, unread[c], seen[c])
        BY <2>2, <3>3, <4>1 DEF OthersKept, Conversation
      <4> QED
        BY <1>1, <3>1, <4>2
    <3> QED
      BY <3>2, <3>3
  <2> QED
    BY <2>1, <2>2
<1> QED
  BY <1>2 DEF TurnInv

\* A client that is gone, or that the server gives up.
LEMMA GoneTurns ==
  ASSUME TurnInv, NEW fd \in Clients, ReceiveNothing(fd)
  PROVE  TurnInv'
<1> DEFINE r == Disconnect(server, fd)
<1>1. SlotInv'
  BY GoneSlots DEF TurnInv
<1>2. Become(r, inbox, view)
  BY DEF ReceiveNothing
<1>3. OthersKept(server, r, fd) /\ r.open = server.open \ {fd}
  BY DisconnectKeeps DEF TurnInv, SlotInv
<1> HIDE DEF r
<1> QED
  BY <1>1, <1>2, <1>3, BecomeTurns

\* A new connection: nothing has been asked or sent on it.
LEMMA AcceptTurns ==
  ASSUME TurnInv, FewConnections, NEW fd \in Clients, Accept(fd)
  PROVE  TurnInv'
<1> DEFINE r == AddSendStruct([server EXCEPT !.http_conn_count = @ + 1,
                                             !.open = @ \cup {fd}], fd)
           s == [FreeSend EXCEPT !.socket_fd = fd]
<1>0. SlotInv /\ fd \notin server.open /\ fd # 0
  BY ClientsAssumption DEF TurnInv, Accept
<1>1. SlotInv'
  BY <1>0, AcceptSlots
<1>2. /\ server' = r
      /\ inbox' = [inbox EXCEPT ![fd] = NoRequest] /\ view' = [view EXCEPT ![fd] = NewView]
      /\ inbox \in [Clients -> Inboxes] /\ view \in [Clients -> Views]
  BY <1>0 DEF Accept, SlotInv, Inv, TypeOK, Inboxes, Views
<1>3. ServerOK(server) /\ SlotsMatch(server) /\ HasRoom(server)
  BY <1>0 DEF SlotInv, Inv, Accept
<1>4. /\ r.open = server.open \cup {fd}
      /\ \E k \in SendSlots :
           /\ server.send_d[k] = FreeSend
           /\ r.send_d[k] = s
           /\ \A j \in SendSlots \ {k} : r.send_d[j] = server.send_d[j]
  BY <1>0, <1>3, AcceptedMatches, ZenonT(40)
<1>5. FreeSend.socket_fd = 0 /\ s.socket_fd = fd /\ s.http_content_size = 0
  BY DEF FreeSend
<1> HIDE DEF r, s
<1>6. PICK k \in SendSlots : /\ server.send_d[k] = FreeSend
                             /\ r.send_d[k] = s
                             /\ \A j \in SendSlots \ {k} : r.send_d[j] = server.send_d[j]
  BY <1>4
<1>7. ASSUME NEW c \in Clients
      PROVE  Conversation(r, c, inbox'[c], view'[c])
  <2>1. CASE c = fd
    <3>1. inbox'[fd] = NoRequest /\ view'[fd] = NewView
      BY <1>2
    <3>2. NewView.phase = "idle" /\ NewView.status = 0
      BY DEF NewView
    <3>3. \A j \in SendSlots : server.send_d[j].socket_fd # fd
      BY <1>0 DEF SlotInv, SlotsMatch
    <3>4. \A j \in SendSlots : r.send_d[j].socket_fd = fd => r.send_d[j].http_content_size = 0
      BY <1>5, <1>6, <3>3
    <3> QED
      BY <2>1, <3>1, <3>2, <3>4 DEF Conversation, ViewMatches
  <2>2. CASE c # fd
    <3>1. inbox'[c] = inbox[c] /\ view'[c] = view[c] /\ Conversation(server, c, inbox[c], view[c])
      BY <1>2, <2>2 DEF TurnInv
    <3>2. \A j \in SendSlots : r.send_d[j].socket_fd = c => r.send_d[j] = server.send_d[j]
      BY <1>5, <1>6, <2>2
    <3> QED
      BY <1>4, <2>2, <3>1, <3>2 DEF Conversation
  <2> QED
    BY <2>1, <2>2
<1> QED
  BY <1>1, <1>2, <1>7 DEF TurnInv

\* What InTurn excludes, and what it says of a request that is received.
LEMMA TurnsOf ==
  ASSUME TurnInv, InTurn, NEW fd \in Clients, ReceiveRequest(fd) \/ ReceivePart(fd)
  PROVE  /\ fd \in server.open /\ inbox[fd] \in Requests
         /\ Requests \subseteq Request /\ inbox[fd].method # "HEAD"
         /\ view[fd].phase = "wait" /\ view[fd].request = inbox[fd]
         /\ Process(fd, inbox[fd], NoRequest)
BY RequestsAssumption DEF TurnInv, Conversation, InTurn, ReceiveRequest, ReceivePart, Parts

\* A request: while the client waited there was nothing pending for it.
LEMMA ReceiveTurns ==
  ASSUME TurnInv, InTurn, NEW fd \in Clients, ReceiveRequest(fd) \/ ReceivePart(fd)
  PROVE  TurnInv'
<1> DEFINE req == inbox[fd]
           v == view[fd]
<1>1. /\ fd \in server.open /\ req \in Requests /\ req \in Request /\ req.method # "HEAD"
      /\ v.phase = "wait" /\ v.request = req
      /\ Process(fd, req, NoRequest)
  BY TurnsOf
<1>2. SlotInv /\ NoResets
  BY DEF TurnInv, InTurn, NoResets
<1>3. SlotInv'
  BY <1>2, ReceiveSlots
<1>4. PICK f \in Streams \ server.files.live :
        LET p == SESSION_prepare(server, disk, fd, req, f, 3)
        IN Become(p.server, [inbox EXCEPT ![fd] = NoRequest],
                  [view EXCEPT ![fd] = Answered(@, p)])
  BY <1>1, <1>2, ProcessIs
<1> DEFINE p == SESSION_prepare(server, disk, fd, req, f, 3)
           r == p.server
           a == Answered(v, p)
           unread == [inbox EXCEPT ![fd] = NoRequest]
           seen == [view EXCEPT ![fd] = a]
           Begun == /\ p.status = 200 /\ p.body = "later" /\ r.open = server.open
                    /\ \A j \in SendSlots : r.send_d[j].socket_fd = fd =>
                         /\ r.send_d[j].sent_size = 0
                         /\ r.send_d[j].http_content_size = p.length
                         /\ r.send_d[j].total_size = p.length
                         /\ r.send_d[j].keep_alive = KeepAlive(req)
<1>5. /\ ServerOK(server) /\ SlotsMatch(server) /\ disk \in [Names -> Nat \cup {Absent}]
      /\ inbox \in [Clients -> Inboxes] /\ view \in [Clients -> Views]
  BY <1>2 DEF SlotInv, Inv, TypeOK, Inboxes, Views
<1>6. /\ OthersKept(server, r, fd)
      /\ \/ Quiet(p) /\ (SameSlots(server, r) \/ r.open = server.open \ {fd})
         \/ Begun
  BY <1>1, <1>5, PrepareKeeps
<1>7. Become(r, unread, seen)
  BY <1>4
<1>8. a = IF p.status = Silent THEN v
          ELSE [v EXCEPT !.phase  = IF p.body = "later" /\ v.request.method # "HEAD"
                                    THEN "body" ELSE "idle",
                         !.status = p.status, !.length = p.length, !.got = 0,
                         !.ok     = @ /\ v.phase = "wait" /\ p.body # "broken"]
  BY Zenon DEF Answered
<1>9. v \in Views
  BY <1>5
<1> HIDE DEF p, r, v, a, req
<1>10. /\ a.request = v.request
       /\ p.status = Silent => a = v
       /\ p.status # Silent => /\ a.status = p.status /\ a.length = p.length /\ a.got = 0
                               /\ a.phase = IF p.body = "later" THEN "body" ELSE "idle"
  BY <1>1, <1>8, <1>9 DEF Views
<1>11. unread[fd] = NoRequest /\ seen[fd] = a
  BY <1>5
<1>12. fd \in r.open => Conversation(r, fd, unread[fd], seen[fd])
  <2>1. CASE Quiet(p) /\ SameSlots(server, r)
    <3>1. \A j \in SendSlots : r.send_d[j].socket_fd = fd => ~(r.send_d[j].http_content_size > 0)
      BY <1>1, <2>1 DEF TurnInv, Conversation, ViewMatches, SameSlots, v
    <3>2. a.phase # "idle" => a.request \in Requests
      BY <1>1, <1>10
    <3>3. a.phase = "idle" => a.status # 200
      BY <1>1, <1>10, <2>1 DEF Quiet, Short
    <3> QED
      BY <1>11, <3>1, <3>2, <3>3 DEF Conversation, ViewMatches
  <2>2. CASE r.open = server.open \ {fd}
    BY <2>2
  <2>3. CASE Begun
    <3>1. /\ a.phase = "body" /\ a.got = 0 /\ a.length = p.length /\ a.request = req
      BY <1>1, <1>10, <2>3 DEF Silent
    <3>2. \A j \in SendSlots : r.send_d[j].socket_fd = fd => ViewMatches(r.send_d[j], a)
      BY <2>3, <3>1 DEF ViewMatches
    <3> QED
      BY <1>1, <1>11, <3>1, <3>2 DEF Conversation
  <2> QED
    BY <1>6, <2>1, <2>2, <2>3
<1>13. \A c \in Clients \ {fd} : unread[c] = inbox[c] /\ seen[c] = view[c]
  BY <1>5
<1> HIDE DEF unread, seen
<1> QED
  BY <1>3, <1>6, <1>7, <1>12, <1>13, BecomeTurns
\* A chunk: what arrives is counted as the slot counts it.
LEMMA SendTurns ==
  ASSUME TurnInv, NEW i \in SendSlots, server.send_d[i].socket_fd \in Clients,
         server.send_d[i].http_content_size > 0, Send(i)
  PROVE  TurnInv'
<1> DEFINE s == server.send_d[i]
           fd == s.socket_fd
           v == view[fd]
<1>0. SlotInv
  BY DEF TurnInv
<1>1. SlotInv'
  BY <1>0, SendSlotsKept
<1>2. PICK n \in Int : Become(SendChunk(server, i, n), inbox,
                              [view EXCEPT ![fd] = Received(@, s, n)])
  BY <1>0, SendIs
<1> DEFINE r == SendChunk(server, i, n)
           a == Received(v, s, n)
           seen == [view EXCEPT ![fd] = a]
<1>3. Become(r, inbox, seen)
  BY <1>2
<1>4. /\ ServerOK(server) /\ server \in Servers /\ SlotsMatch(server)
      /\ s \in SendInfo /\ s.sent_size + s.http_content_size = s.total_size
      /\ view \in [Clients -> Views] /\ v \in Views
  BY <1>0 DEF SlotInv, Inv, TypeOK, Views, ServerOK, Servers, SlotOK
<1>5. /\ OthersKept(server, r, fd)
      /\ \/ Ends(server, i, n) /\ r.open = server.open \ {fd}
         \/ ~Ends(server, i, n) /\ r = Advanced(server, i, n)
  BY <1>4, ChunkKeeps
<1>6. /\ v.phase = "body" /\ v.got = s.sent_size /\ v.length = s.total_size
      /\ s.keep_alive = KeepAlive(v.request) /\ v.request \in Requests /\ inbox[fd] = NoRequest
  BY DEF TurnInv, Conversation, ViewMatches
<1>7. /\ n <= 0 => a = v
      /\ n > 0 => /\ a.got = v.got + n /\ a.length = v.length /\ a.request = v.request
                  /\ a.status = v.status
                  /\ a.phase = IF v.got + n >= v.length THEN "idle" ELSE "body"
  <2> DEFINE right == /\ v.ok
                      /\ v.phase = "body"
                      /\ s.sent_size = v.got
                      /\ SourceLength(s) = v.length
                      /\ SourceName(s) \in Asked(v.request)
                      /\ v.got + n <= v.length
  <2>1. a = IF n <= 0 THEN v
            ELSE [v EXCEPT !.phase = IF @ = "body" /\ v.got + n >= v.length THEN "idle" ELSE @,
                           !.got = IF v.phase = "body" THEN v.got + n ELSE @,
                           !.ok = right]
    BY Zenon DEF Received
  <2> HIDE DEF right, a, v, s
  <2> QED
    BY <1>4, <1>6, <2>1 DEF Views
<1>8. seen[fd] = a /\ \A c \in Clients \ {fd} : seen[c] = view[c]
  BY <1>4
<1>9. fd \in r.open => Conversation(r, fd, inbox[fd], seen[fd])
  <2> SUFFICES ASSUME ~Ends(server, i, n), r = Advanced(server, i, n)
               PROVE  Conversation(r, fd, inbox[fd], seen[fd])
    BY <1>5
  <2> DEFINE e == r.send_d[i]
  <2>1. /\ e = IF n > 0 THEN Chunk(s, n) ELSE s
        /\ \A j \in SendSlots \ {i} : r.send_d[j] = server.send_d[j]
    BY <1>4, AdvancedIs
  <2>2. \A j \in SendSlots : r.send_d[j].socket_fd = fd => j = i
    BY <1>4, <2>1, ClientsAssumption DEF SlotsMatch
  <2>3. n >= 0 /\ (e.http_content_size <= 0 => s.keep_alive)
    BY DEF Ends
  <2> HIDE DEF a, r, v, seen, e
  <2>4. CASE n = 0
    <3>1. e = s /\ a = v
      BY <1>7, <2>1, <2>4
    <3> QED
      BY <1>6, <1>8, <2>2, <3>1 DEF Conversation, ViewMatches, e
  <2>5. CASE n > 0
    <3>1. n \in Nat /\ e = Chunk(s, n)
      BY <2>1, <2>5
    <3>2. /\ e.sent_size = s.sent_size + n /\ e.http_content_size = s.http_content_size - n
          /\ e.total_size = s.total_size /\ e.keep_alive = s.keep_alive
      BY <1>4, <3>1, ChunkFields
    <3>3. s.sent_size \in Nat /\ s.http_content_size \in Int /\ s.total_size \in Nat
      BY <1>4 DEF SendInfo
    <3> HIDE DEF s, fd
    <3>4. /\ a.got = s.sent_size + n /\ a.length = s.total_size /\ a.request = v.request
          /\ a.phase = IF s.sent_size + n >= s.total_size THEN "idle" ELSE "body"
      BY <1>6, <1>7, <2>5
    <3>5. ViewMatches(e, a)
      BY <1>4, <1>6, <3>2, <3>3, <3>4 DEF ViewMatches
    <3>6. a.phase = "idle" => KeepAlive(a.request)
      BY <1>4, <1>6, <2>3, <3>2, <3>3, <3>4
    <3> QED
      BY <1>6, <1>8, <2>2, <3>4, <3>5, <3>6 DEF Conversation, e
  <2> QED
    BY <2>3, <2>4, <2>5
<1> HIDE DEF r, seen
<1> QED
  BY <1>1, <1>3, <1>5, <1>8, <1>9, BecomeTurns

\* Clients that send, leave or write to files.
LEMMA EnvironmentTurns ==
  ASSUME TurnInv, InTurn,
         \/ \E fd \in Clients : ClientSend(fd) \/ ClientFin(fd) \/ ClientReset(fd)
         \/ \E name \in Names, size \in Sizes : Edit(name, size)
         \/ UNCHANGED svars
  PROVE  TurnInv'
<1>1. SlotInv'
  BY EnvironmentSlots DEF TurnInv, InTurn, NoResets
<1>2. server' = server
  BY DEF ClientSend, ClientFin, ClientReset, Edit, svars
<1>3. /\ inbox \in [Clients -> Inboxes] /\ view \in [Clients -> Views]
  BY DEF TurnInv, SlotInv, Inv, TypeOK, Inboxes, Views
<1>4. CASE UNCHANGED <<inbox, view>>
  BY <1>1, <1>2, <1>4 DEF TurnInv
<1>5. ASSUME NEW fd \in Clients, ClientSend(fd)
      PROVE  TurnInv'
  <2>1. PICK req \in Requests :
          /\ inbox' = [inbox EXCEPT ![fd] = req]
          /\ view' = [view EXCEPT ![fd].phase = IF @ = "idle" THEN "wait" ELSE @,
                                  ![fd].request = req, ![fd].status = 0]
    BY <1>5, Zenon DEF ClientSend
  <2> DEFINE a == [view[fd] EXCEPT !.phase = IF @ = "idle" THEN "wait" ELSE @,
                                   !.request = req, !.status = 0]
  <2>2. view[fd].phase = "idle" /\ fd \in server.open
    BY <1>5 DEF ClientSend, InTurn, TurnInv, SlotInv
  <2>3. view'[fd] = a /\ \A c \in Clients \ {fd} : view'[c] = view[c]
    BY <1>3, <2>1
  <2>4. a.phase = "wait" /\ a.request = req
    BY <1>3, <2>2 DEF Views
  <2> HIDE DEF a
  <2>5. inbox'[fd] = req /\ \A c \in Clients \ {fd} : inbox'[c] = inbox[c]
    BY <1>3, <2>1
  <2>6. Conversation(server, fd, inbox'[fd], view'[fd])
    <3>1. \A j \in SendSlots : server.send_d[j].socket_fd = fd
                                 => ~(server.send_d[j].http_content_size > 0)
      BY <2>2 DEF TurnInv, Conversation, ViewMatches
    <3> QED
      BY <2>2, <2>3, <2>4, <2>5, <3>1 DEF Conversation, ViewMatches
  <2>7. \A c \in Clients : Conversation(server', c, inbox'[c], view'[c])
    <3> TAKE c \in Clients
    <3>1. CASE c = fd
      BY <1>2, <2>6, <3>1
    <3>2. CASE c # fd
      BY <1>2, <2>3, <2>5, <3>2 DEF TurnInv
    <3> QED
      BY <3>1, <3>2
  <2> QED
    BY <1>1, <2>7 DEF TurnInv
<1> QED
  BY <1>4, <1>5 DEF ClientFin, ClientReset, Edit, svars

\* Nobody has asked for anything yet.
LEMMA TurnsInit == Init => TurnInv
<1> SUFFICES ASSUME Init
             PROVE  TurnInv
  OBVIOUS
<1>1. NewView.phase = "idle" /\ NewView.status = 0
  BY DEF NewView
<1>2. \A j \in SendSlots : server.send_d[j].socket_fd = 0
  BY DEF Init, StartedServer, FreeSend
<1>3. ASSUME NEW fd \in Clients
      PROVE  Conversation(server, fd, inbox[fd], view[fd])
  <2>1. inbox[fd] = NoRequest /\ view[fd] = NewView /\ fd # 0
    BY ClientsAssumption DEF Init
  <2> QED
    BY <1>1, <1>2, <2>1 DEF Conversation
<1> QED
  BY <1>3, SlotsInit DEF TurnInv

\* What the server's record says of a transfer is what its client has seen, and
\* a client that asked to close and has everything is not connected any more.
LEMMA TurnsImply == TurnInv => TransferMatchesView /\ ClosedWhenDone
<1> SUFFICES ASSUME TurnInv
             PROVE  TransferMatchesView /\ ClosedWhenDone
  OBVIOUS
<1>1. server \in Servers
  BY DEF TurnInv, SlotInv, Inv, ServerOK
<1>2. ASSUME NEW i \in Transfers
      PROVE  server.send_d[i].socket_fd \in Clients
  <2>1. i \in SendSlots /\ server.send_d[i].http_content_size > 0
    BY DEF Transfers
  <2>2. server.send_d[i] # FreeSend
    BY <2>1 DEF FreeSend
  <2>3. server.send_d[i].socket_fd \in server.open
    BY <2>1, <2>2 DEF TurnInv, SlotInv, SlotsMatch
  <2> QED
    BY <1>1, <2>3 DEF Servers
<1>3. TransferMatchesView
  BY <1>2 DEF TransferMatchesView, Transfers, TurnInv, Conversation, ViewMatches
<1>4. ClosedWhenDone
  BY <1>1 DEF ClosedWhenDone, TurnInv, Conversation, Servers
<1> QED
  BY <1>3, <1>4
=============================================================================
