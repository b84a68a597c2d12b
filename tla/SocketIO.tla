------------------------------ MODULE SocketIO ------------------------------
(***************************************************************************)
(* Connections and their pending transfers: the table send_d[] (session.c) *)
(* and the closing and counting of connections (socket_io.c).              *)
(*                                                                         *)
(* As in FilesIO the operators take and return one record, the server:     *)
(*   files            the tables of FilesIO                                *)
(*   send_d           send_d[], one entry per connection                   *)
(*   http_conn_count  the number the code keeps of connected clients       *)
(*   open             the client descriptors that really are open, which   *)
(*                    is also the set registered with epoll                *)
(***************************************************************************)
EXTENDS FilesIO

CONSTANTS MaxClients,     \* MAX_CLIENTS, 10240 in shared.h
          UploadBuffer    \* UPLOAD_BUFFER, 16384 in shared.h

ASSUME MaxClientsAssumption == MaxClients \in Nat \ {0}
ASSUME UploadBufferAssumption == UploadBuffer \in Nat \ {0}

SendSlots == 1..MaxClients

FreeSend == [file |-> NULL, http_content_size |-> 0, sent_size |-> 0,
             socket_fd |-> 0, total_size |-> 0, keep_alive |-> FALSE]

SendInfo == [file : Streams \cup {NULL}, http_content_size : Int, sent_size : Nat,
             socket_fd : Clients \cup {0}, total_size : Nat, keep_alive : BOOLEAN]

Servers == [files : Tables, send_d : [SendSlots -> SendInfo],
            http_conn_count : Int, open : SUBSET Clients]

StartedServer == [files |-> EmptyTables, send_d |-> [i \in SendSlots |-> FreeSend],
                  http_conn_count |-> 0, open |-> {}]

SendSlotsOf(w, fd) == {i \in SendSlots : w.send_d[i].socket_fd = fd}

\* SESSION_add_new_send_struct: a client that finds the table full gets no slot.
AddSendStruct(w, fd) ==
  LET free == {i \in SendSlots : w.send_d[i].socket_fd = 0 /\ w.send_d[i].file = NULL}
  IN IF free = {} THEN w
     ELSE [w EXCEPT !.send_d[First(free)] = [FreeSend EXCEPT !.socket_fd = fd]]

\* SOCKET_modify_clients_count( -1 ), k times.  The guard subtracts a negative
\* number, so it lets the counter fall to -2.
CountDown(count, k) == IF count - k >= -2 THEN count - k ELSE -2

\* Mutant: the connection is closed without being counted down.
CloseFdUncounted(w, fd) == [w EXCEPT !.open = @ \ {fd}]

\* SOCKET_close_fd.  Closing a descriptor twice counts twice.
CloseFd(w, fd) ==
  [w EXCEPT !.open = @ \ {fd}, !.http_conn_count = CountDown(@, 1)]

\* Mutant: the slots are given back, the files stay open.
FcloseNone(w, fd) == w.files

\* battery_fclose of what each slot of the client holds, in table order.
FcloseAll(w, fd) ==
  LET after[i \in 0..MaxClients] ==
        IF i = 0 THEN w.files
        ELSE IF w.send_d[i].socket_fd = fd
             THEN Fclose(after[i-1], w.send_d[i].file, fd)
             ELSE after[i-1]
  IN after[MaxClients]

\* Mutant: the slots keep the descriptor.
DeleteNoReset(w, fd) ==
  LET closing == {i \in SendSlotsOf(w, fd) : ~w.send_d[i].keep_alive}
  IN [files  |-> FcloseAll(w, fd),
      send_d |-> w.send_d,
      open   |-> IF closing = {} THEN w.open ELSE w.open \ {fd},
      http_conn_count |-> CountDown(w.http_conn_count, Cardinality(closing))]

\* SESSION_delete_send_struct: every slot of the client is reset, and the
\* connection closed once for each that was not keep-alive.
DeleteSendStruct(w, fd) ==
  LET mine == SendSlotsOf(w, fd)
      closing == {i \in mine : ~w.send_d[i].keep_alive}
  IN [files  |-> FcloseAll(w, fd),
      send_d |-> [i \in SendSlots |-> IF i \in mine THEN FreeSend ELSE w.send_d[i]],
      open   |-> IF closing = {} THEN w.open ELSE w.open \ {fd},
      http_conn_count |-> CountDown(w.http_conn_count, Cardinality(closing))]

\* SOCKET_disconnect_client, and the same two calls elsewhere.
Disconnect(w, fd) == CloseFd(DeleteSendStruct(w, fd), fd)

\* A response of m calls of SOCKET_send of which the first ok succeed.  Every
\* call that fails, also for want of buffer space, disconnects the client, and
\* on a closed descriptor the next call fails again.
AfterSends(w, fd, m, ok) ==
  LET failed == IF ok >= m THEN 0 ELSE m - ok
      one == Disconnect(w, fd)
      two == Disconnect(one, fd)
  IN CASE failed = 0 -> w
       [] failed = 1 -> one
       [] failed = 2 -> two
       [] OTHER -> Disconnect(two, fd)

\* Mutant: sent_size is left from the transfer before.
StartTransferResumed(w, fd, file, size, keep_alive) ==
  IF SendSlotsOf(w, fd) = {} THEN w
  ELSE LET i == First(SendSlotsOf(w, fd))
       IN [w EXCEPT !.send_d[i] =
             [file |-> file, http_content_size |-> size,
              sent_size |-> w.send_d[i].sent_size,
              socket_fd |-> fd, total_size |-> size, keep_alive |-> keep_alive]]

\* RESPONSE_file hands the transfer to SOCKET_send_all_data_fd through the
\* first slot of the client.
StartTransfer(w, fd, file, size, keep_alive) ==
  IF SendSlotsOf(w, fd) = {} THEN w
  ELSE [w EXCEPT !.send_d[First(SendSlotsOf(w, fd))] =
          [file |-> file, http_content_size |-> size, sent_size |-> 0,
           socket_fd |-> fd, total_size |-> size, keep_alive |-> keep_alive]]

\* Mutant: the last byte is not waited for.
PendingMany(w, fd) == {i \in SendSlotsOf(w, fd) : w.send_d[i].http_content_size > 1}

\* The slot SOCKET_send_all_data_fd works on.
Pending(w, fd) == {i \in SendSlotsOf(w, fd) : w.send_d[i].http_content_size > 0}

\* What sendfile() can read: the file as it is now.  A closed stream has no
\* descriptor (-1).
Sendable(w, disk, s) ==
  IF s.file \notin w.files.live THEN -1
  ELSE LET name == w.files.opened[First(HoldersOf(w.files, s.file))].filename
           rest == disk[name] - s.sent_size
       IN IF rest <= 0 THEN 0 ELSE IF rest < UploadBuffer THEN rest ELSE UploadBuffer

\* Bytes offered to the socket in one turn; -1 where the code reads through a
\* stale pointer or gets SIZE_MAX from battery_fread.
Offered(w, disk, s) ==
  IF UseSendfile THEN Sendable(w, disk, s)
  ELSE Fread(w.files, s.file, s.socket_fd, s.sent_size, UploadBuffer)

\* What send can return.  An offer of -1 is undefined: an error, or any number
\* of bytes of no file; one byte and more than was missing stand for them.
Written(offered, missing, reset) ==
  IF reset THEN {-1}
  ELSE IF offered = -1 THEN {-1, 1, missing + 1}
  ELSE IF offered = 0 THEN {0}
  ELSE 1..offered

\* Mutants: keep_alive is not looked at; the connection is never closed; the
\* offset is not advanced; only an exact end counts as the end.
SendChunkWith(w, i, n, advance, closes(_, _)) ==
  LET s == w.send_d[i]
      v == IF n > 0
           THEN [w EXCEPT !.send_d[i].sent_size = @ + advance,
                          !.send_d[i].http_content_size = @ - n]
           ELSE w
  IN IF n < 0 \/ closes(v.send_d[i].http_content_size, s.keep_alive)
     THEN Disconnect(v, s.socket_fd) ELSE v

SendChunkAlwaysCloses(w, i, n) == SendChunkWith(w, i, n, n, LAMBDA c, k : c <= 0)
SendChunkNeverCloses(w, i, n)  == SendChunkWith(w, i, n, n, LAMBDA c, k : FALSE)
SendChunkSameOffset(w, i, n)   == SendChunkWith(w, i, n, 0, LAMBDA c, k : c <= 0 /\ ~k)
SendChunkExact(w, i, n)        == SendChunkWith(w, i, n, n, LAMBDA c, k : c = 0 /\ ~k)

\* SOCKET_send_all_data_fd, once its slot i and the result n of send are known.
SendChunk(w, i, n) ==
  LET s == w.send_d[i]
      v == IF n > 0
           THEN [w EXCEPT !.send_d[i].sent_size = @ + n,
                          !.send_d[i].http_content_size = @ - n]
           ELSE w
      done == v.send_d[i].http_content_size <= 0 /\ ~s.keep_alive
  IN IF n < 0 \/ done THEN Disconnect(v, s.socket_fd) ELSE v
=============================================================================
