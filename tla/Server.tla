------------------------------- MODULE Server -------------------------------
(***************************************************************************)
(* What the two event loops of socket_io.c share: the clients and the disk *)
(* as actions, the receiving of a request, what a client makes of what it  *)
(* receives, and the properties of the server.  EpollServer and            *)
(* SelectServer add a loop each.                                           *)
(***************************************************************************)
EXTENDS HttpProtocol

CONSTANTS Requests,   \* the requests clients send
          Sizes,      \* lengths an edit can leave
          InitDisk,   \* the lengths of the files at the start
          Faults      \* which of "fin", "leave", "reset", "edit", "pipeline",
                      \* "split", "cut" may happen

ASSUME RequestsAssumption == Requests \subseteq Request
ASSUME SizesAssumption == Sizes \subseteq Nat
ASSUME InitDiskAssumption == InitDisk \in [Names -> Nat \cup {Absent}]

VARIABLES server,   \* the record of SocketIO
          peer,     \* peer[fd]: the other end of the connection
          inbox,    \* inbox[fd]: a request not yet received
          disk,     \* disk[n]: the present length of file n
          view      \* view[fd]: what the client has received so far

svars == <<server, peer, inbox, disk, view>>

NoRequest == [method |-> "none"]

\* What is left of a request when a part of it has been received: it does not
\* begin with a method.
Remainder(req) == [req EXCEPT !.method = "other"]

(***************************************************************************)
(* The client's side, which judges the server and does not influence it:   *)
(*   phase   idle, wait (request sent, no header yet), body (header of a   *)
(*           200 received, content still to come)                          *)
(*   request what was asked last                                           *)
(*   status  of the last reply to it, 0 if none                            *)
(*   length  the announced Content-Length;  got: bytes of it received      *)
(*   ok      every byte so far was the right one in the right place        *)
(***************************************************************************)
NewView == [phase |-> "idle", request |-> NoRequest, status |-> 0,
            length |-> 0, got |-> 0, ok |-> TRUE]

TypeOK ==
  /\ server \in Servers
  /\ peer \in [Clients -> {"none", "up", "fin", "reset"}]
  /\ inbox \in [Clients -> Requests \cup {NoRequest} \cup {Remainder(req) : req \in Requests}]
  /\ disk \in [Names -> Nat \cup {Absent}]
  /\ view \in [Clients -> [phase : {"idle", "wait", "body"},
                           request : Requests \cup {NoRequest},
                           status : Nat, length : Nat, got : Nat, ok : BOOLEAN]]

Init ==
  /\ server = StartedServer
  /\ peer = [fd \in Clients |-> "none"]
  /\ inbox = [fd \in Clients |-> NoRequest]
  /\ disk = InitDisk
  /\ view = [fd \in Clients |-> NewView]

-----------------------------------------------------------------------------
(* The environment. *)

\* A client asks for something: when it has its last answer, or earlier.
ClientSend(fd) ==
  /\ peer[fd] = "up"
  /\ inbox[fd] = NoRequest
  /\ view[fd].phase = "idle" \/ "pipeline" \in Faults
  /\ \E req \in Requests :
       /\ inbox' = [inbox EXCEPT ![fd] = req]
       /\ view' = [view EXCEPT ![fd].phase = IF @ = "idle" THEN "wait" ELSE @,
                               ![fd].request = req, ![fd].status = 0]
  /\ UNCHANGED <<server, peer, disk>>

\* The client closes its side: at any time, or when it has its answer.
ClientFin(fd) ==
  /\ "fin" \in Faults \/ ("leave" \in Faults /\ view[fd].phase = "idle")
  /\ peer[fd] = "up"
  /\ peer' = [peer EXCEPT ![fd] = "fin"]
  /\ UNCHANGED <<server, inbox, disk, view>>

\* The connection is reset.
ClientReset(fd) ==
  /\ "reset" \in Faults
  /\ peer[fd] \in {"up", "fin"}
  /\ peer' = [peer EXCEPT ![fd] = "reset"]
  /\ UNCHANGED <<server, inbox, disk, view>>

\* A served file is written to, in place.
Edit(name, size) ==
  /\ "edit" \in Faults
  /\ disk[name] # Absent
  /\ disk' = [disk EXCEPT ![name] = size]
  /\ UNCHANGED <<server, peer, inbox, view>>

-----------------------------------------------------------------------------
(* The handlers. *)

\* A closed descriptor takes its connection with it; of what the client has
\* seen only the judgement is kept.
Become(w, unread, seen) ==
  /\ server' = w
  /\ peer' = [fd \in Clients |-> IF fd \in w.open THEN peer[fd] ELSE "none"]
  /\ inbox' = [fd \in Clients |-> IF fd \in w.open THEN unread[fd] ELSE NoRequest]
  /\ view' = [fd \in Clients |-> IF fd \in w.open THEN seen[fd]
                                 ELSE [NewView EXCEPT !.ok = seen[fd].ok]]
  /\ UNCHANGED disk

\* A connection is accepted: accept gives any free descriptor.
Accept(fd) ==
  /\ fd \notin server.open
  /\ HasRoom(server)
  /\ server' = AddSendStruct([server EXCEPT !.http_conn_count = @ + 1,
                                            !.open = @ \cup {fd}], fd)
  /\ peer' = [peer EXCEPT ![fd] = "up"]
  /\ inbox' = [inbox EXCEPT ![fd] = NoRequest]
  /\ view' = [view EXCEPT ![fd] = NewView]
  /\ UNCHANGED disk

\* recv returns 0 or an error.
Gone(fd) == peer[fd] = "reset" \/ (peer[fd] = "fin" /\ inbox[fd] = NoRequest)

\* SOCKET_process when it receives nothing.
ReceiveNothing(fd) == Become(Disconnect(server, fd), inbox, view)

\* How many calls of send in one response may succeed.
Successes(fd) ==
  IF peer[fd] = "reset" THEN {0} ELSE IF "reset" \in Faults THEN 0..3 ELSE {3}

\* A header that arrives while content is missing is taken for content; the
\* answer to HEAD ends with its header.
Answered(v, reply) ==
  IF reply.status = Silent THEN v
  ELSE [v EXCEPT !.phase  = IF reply.body = "later" /\ v.request.method # "HEAD"
                            THEN "body" ELSE "idle",
                 !.status = reply.status,
                 !.length = reply.length,
                 !.got    = 0,
                 !.ok     = @ /\ v.phase = "wait" /\ reply.body # "broken"]

\* SOCKET_process when recv returns req and leaves rest unread.
Process(fd, req, rest) ==
  \E f \in Streams \ server.files.live, ok \in Successes(fd) :
    LET reply == SESSION_prepare(server, disk, fd, req, f, ok)
    IN Become(reply.server, [inbox EXCEPT ![fd] = rest],
              [view EXCEPT ![fd] = Answered(@, reply)])

ReceiveRequest(fd) ==
  /\ inbox[fd] # NoRequest
  /\ peer[fd] \in {"up", "fin"}
  /\ Process(fd, inbox[fd], NoRequest)

\* What a handler makes of the first part of a request; nothing joins it to
\* the rest.  Without the end of the header it finds no header fields at all,
\* and the version or the method may be cut as well.
HeaderParts(req) ==
  LET fieldless == [req EXCEPT !.host = FALSE, !.connection = "none", !.length = "none",
                          !.if_modified = "none", !.if_unmodified = "none",
                          !.range = NoRange, !.auth = "none"]
  IN {fieldless, [fieldless EXCEPT !.version = "other"], [fieldless EXCEPT !.method = "other"]}

\* With a part of the body, the request is incomplete; but the line end before
\* the body is counted too, so a body that lacks one or two bytes is complete.
BodyParts(req) ==
  IF req.length = "whole" THEN {req, [req EXCEPT !.length = "short"]} ELSE {}

Parts(req) == {part \in HeaderParts(req) : "cut" \in Faults}
              \cup {part \in BodyParts(req) : "split" \in Faults}

ReceivePart(fd) ==
  /\ inbox[fd] \in Requests
  /\ peer[fd] \in {"up", "fin"}
  /\ \E part \in Parts(inbox[fd]) : Process(fd, part, Remainder(inbox[fd]))

\* The content the next chunk of slot s is taken from has this length, hence
\* is the announced one if the lengths agree.
SourceLength(s) ==
  IF UseSendfile
  THEN IF HoldersOf(server.files, s.file) = {} THEN Absent
       ELSE disk[server.files.opened[First(HoldersOf(server.files, s.file))].filename]
  ELSE CachedContent(server.files, s.file).size

SourceName(s) ==
  IF HoldersOf(server.files, s.file) = {} THEN NULL
  ELSE server.files.opened[First(HoldersOf(server.files, s.file))].filename

\* The files that may answer a request: for a path that ends in "/", the index
\* file that is found first.
Asked(req) ==
  IF req.dir THEN {SITE_INDEX} \cup {IndexNames[k] : k \in DOMAIN IndexNames} ELSE {req.name}

Received(v, s, n) ==
  IF n <= 0 THEN v
  ELSE LET got == v.got + n
       IN [v EXCEPT !.phase = IF @ = "body" /\ got >= v.length THEN "idle" ELSE @,
                    !.got = IF v.phase = "body" THEN got ELSE @,
                    !.ok = /\ @
                           /\ v.phase = "body"
                           /\ s.sent_size = v.got
                           /\ SourceLength(s) = v.length
                           /\ SourceName(s) \in Asked(v.request)
                           /\ got <= v.length]

\* The next part of the transfer in slot i is sent.  EWOULDBLOCK leaves
\* everything as it is.
Send(i) ==
  LET s == server.send_d[i]
      fd == s.socket_fd
  IN \E n \in Written(Offered(server, disk, s), s.http_content_size,
                      peer[fd] = "reset") :
       Become(SendChunk(server, i, n), inbox, [view EXCEPT ![fd] = Received(@, s, n)])

-----------------------------------------------------------------------------
(* What holds whatever the clients and the disk do. *)

\* The counter never exceeds the number of connections that are open, so a 503
\* is only sent when MAX_CLIENTS connections exist; and the double counting of
\* closes (SESSION_delete_send_struct, then its caller) is stopped at -2.
CountNeverOver ==
  -2 <= server.http_conn_count /\ server.http_conn_count <= Cardinality(server.open)

\* In every slot what was sent and what is missing add up to the total, over
\* any sequence of chunks, restarts by a second request and reuses of the slot.
TransferBalance ==
  \A i \in SendSlots :
    LET s == server.send_d[i]
    IN s.sent_size + s.http_content_size = s.total_size

\* The file table and the cache agree (see OpenFiles) after every handler,
\* the closes through stale pointers of send_d[] included.
Table == INSTANCE OpenFiles WITH tables <- server.files
TablesAgree == /\ Table!OneStreamPerName
               /\ Table!OneLeasePerClient
               /\ Table!LeasesAreLive
               /\ Table!CacheMatchesLeases
               /\ Table!OneCacheEntryPerFile

\* A transfer that has ended on a connection that is not keep-alive has been
\* cleared away in the same step: it is neither reported as pending again nor
\* left in the slot of the next client.
NoFinishedTransferKept ==
  \A i \in SendSlots :
    server.send_d[i].total_size > 0 /\ ~server.send_d[i].keep_alive
      => server.send_d[i].http_content_size > 0

-----------------------------------------------------------------------------
(* What holds as long as clients wait for an answer before they ask again, *)
(* do not reset connections, and nobody edits the files.                   *)

Transfers == {i \in SendSlots : server.send_d[i].http_content_size > 0}

\* Slots and connections correspond one to one: every connection can be
\* answered with a file, and no slot survives its connection.
OneSlotPerConnection ==
  /\ \A fd \in server.open : Cardinality(SendSlotsOf(server, fd)) = 1
  /\ \A i \in SendSlots :
       server.send_d[i].socket_fd # 0 => server.send_d[i].socket_fd \in server.open

\* Whatever other clients open and close, a pending transfer can read on: its
\* stream is open, its lease is in the table and its content in the cache.
PendingReadable ==
  \A i \in Transfers : Offered(server, disk, server.send_d[i]) > 0

\* The server's record of a transfer and what the client has received agree.
TransferMatchesView ==
  \A i \in Transfers :
    LET v == view[server.send_d[i].socket_fd]
    IN /\ v.phase = "body"
       /\ v.got = server.send_d[i].sent_size
       /\ v.length = server.send_d[i].total_size

\* Every client gets the bytes of the file it asked for, in order, once, as
\* many as Content-Length announced, although files, streams, slots and
\* descriptors are shared and reused.
ContentIntact == \A fd \in Clients : view[fd].ok

\* When a client that asked to close has its whole file, the connection is closed.
ClosedWhenDone ==
  \A fd \in server.open :
    view[fd].phase = "idle" /\ view[fd].status = 200 => KeepAlive(view[fd].request)

\* No slot of the file table outlives the transfer it was made for: each
\* belongs to an open connection that is being sent this very file.
NoOrphanLease ==
  \A i \in Slots :
    LET e == server.files.opened[i]
    IN e.socket_fd \in Clients =>
         \E j \in Transfers : /\ server.send_d[j].socket_fd = e.socket_fd
                              /\ server.send_d[j].file = e.file

\* The server ends a connection only when the client has left, asked for it,
\* or sent a request SESSION_prepare refuses.
ClosedForCause ==
  [][\A fd \in server.open \ server'.open :
       \/ peer[fd] # "up"
       \/ ~KeepAlive(view[fd].request)
       \/ Verdict(view[fd].request, server.http_conn_count) # Proceed]_svars

\* The code leaves two kinds of request without an answer: one whose body it
\* takes for incomplete, and a POST to a file that is there for everybody.
LeftUnanswered(req) ==
  \/ Verdict(req, 0) = Silent
  \/ /\ Verdict(req, 0) = Proceed
     /\ req.method = "POST"
     /\ \E name \in Asked(req) \ (Unreadable \cup Protected) : disk[name] # Absent

\* Every other request is answered to the last byte, or the connection ends.
\* (A range counts as answered whatever its bytes are, see RESPONSE_range.)
AnswerCompletes ==
  \A fd \in Clients :
    view[fd].phase # "idle" /\ ~LeftUnanswered(view[fd].request)
      ~> (view[fd].phase = "idle" \/ fd \notin server.open)

-----------------------------------------------------------------------------
(* What comments of the sources say and the code does not do. *)

\* shared.h:225: the cache holds the files clients are being sent.
RequestedIsCached ==
  \A i \in Transfers : CacheOf(server.files, server.send_d[i].file) # {}

\* files_io.c:95: file_params returns 0, answered by 404, for what does not exist.
NotFoundIsAbsent ==
  \A fd \in Clients : view[fd].status = 404 => disk[view[fd].request.name] = Absent
=============================================================================
