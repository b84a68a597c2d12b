---------------------------- MODULE HttpProtocol ----------------------------
(***************************************************************************)
(* The handling of one request: SESSION_prepare (session.c) and            *)
(* REQUEST_process with RESPONSE_file and RESPONSE_error                   *)
(* (http_protocol.c).  A request is a record of what its header fields     *)
(* parse to; what the client receives is a reply record.  Both handlers    *)
(* are operators on the server record of SocketIO, applied in one step:    *)
(* the server is single-threaded and recv to return is one callback.       *)
(***************************************************************************)
EXTENDS SocketIO, Sequences

CONSTANTS Absent,        \* the length of a file that is not on disk
          FdLimit,       \* open-file limit of the process
          IndexNames,    \* index_file_list for the document root
          SITE_INDEX,    \* the name taken when none of them is found
          Unreadable,    \* files without read permission
          Protected,     \* files listed in ht_access[]
          Bare,          \* names without an extension
          Directories    \* names that are directories, asked for without "/"

ASSUME AbsentAssumption == Absent \notin Nat
ASSUME FdLimitAssumption == FdLimit \in Nat
ASSUME IndexNamesAssumption == IndexNames \in Seq(Names) /\ SITE_INDEX \in Names
\* There is always an address for one more stream.
ASSUME StreamsAssumption ==
  /\ IsFiniteSet(Streams) /\ IsFiniteSet(Names)
  /\ \/ Cardinality(Streams) > Cardinality(Names)
     \/ Cardinality(Streams) > MaxOpenFiles
     \/ Cardinality(Streams) > FdLimit

Request == [method        : {"GET", "HEAD", "POST", "other"},
            uri           : {"ok", "long", "dots"},
            dir           : BOOLEAN,      \* the path ends in "/"
            name          : Names,        \* the file, when dir is FALSE
            version       : {"1.1", "1.0", "other"},
            host          : BOOLEAN,
            connection    : {"none", "keep-alive", "close"},
            length        : {"none", "whole", "short", "huge"},
            if_modified   : {"none", "same", "other"},   \* than the file's date
            if_unmodified : {"none", "same", "other"},
            range         : (Nat \cup {-1}) \X (Nat \cup {-1}),   \* "first-last"
            auth          : {"none", "good", "bad"}]

NoRange == <<-1, -1>>     \* no header field "Range"

\* REQUEST_get_range for the two ends.  What stands before the last character
\* is read as the first position, what stands behind the last "-" as the last
\* one, and nothing as 0: "-5" starts at 0, and "-50" at -5.
RangeStart(req)  == IF req.range # NoRange /\ req.range[1] = -1
                    THEN -(req.range[2] \div 10) ELSE req.range[1]
RangeFinish(req) == IF req.range # NoRange /\ req.range[2] = -1 THEN 0 ELSE req.range[2]

\* SESSION_get_connection
KeepAlive(req) == \/ req.connection = "keep-alive"
                  \/ req.connection = "none" /\ req.version = "1.1"

(***************************************************************************)
(* The checks of SESSION_prepare in their order; the first that applies    *)
(* decides.  Silent: the body is incomplete, the handler returns without a *)
(* reply and the part it has read is lost (received_all is set to 0 in a   *)
(* session that is freed, so the continuation code never runs).            *)
(***************************************************************************)
Silent == 0
Proceed == 1

Checks(req, count) ==
  << <<req.method = "other",                          501>>,
     <<req.uri = "long",                              414>>,
     <<req.uri = "dots",                              400>>,
     <<req.version = "1.1" /\ ~req.host,              400>>,
     <<req.version = "other",                         505>>,
     <<count = MaxClients,                            503>>,
     <<req.length = "short",                          Silent>>,
     <<req.length = "huge",                           413>>,
     <<req.length = "none" /\ req.method = "POST",    411>>,
     <<TRUE,                                          Proceed>> >>

Verdict(req, count) ==
  LET checks == Checks(req, count)
  IN checks[First({k \in DOMAIN checks : checks[k][1]})][2]

(***************************************************************************)
(* Descriptors.                                                            *)
(***************************************************************************)
HasRoom(w) ==
  Cardinality(w.open) + Cardinality(w.files.live) + w.files.leaked < FdLimit

\* fopen on an existing file: f, or NULL when the process is at its limit.
Fresh(w, f) == IF HasRoom(w) THEN f ELSE NULL

(***************************************************************************)
(* A reply: the server after it, the status, the announced Content-Length, *)
(* and the body: "sent" with the header, "later" by the event loop, or     *)
(* "broken" when the bytes sent are not those that were announced.         *)
(***************************************************************************)
Reply(w, status, length, body) ==
  [server |-> w, status |-> status, length |-> length, body |-> body]

\* Mutants: the error disconnects; a refusal closes without giving back the
\* slot; a header is not sent.
ErrorDisconnects(w, fd, status, ok) ==
  Reply(Disconnect(AfterSends(w, fd, 2, ok), fd), status, 0, "sent")
RejectKeepsSlot(w, fd, status, ok) ==
  Reply(CloseFd(AfterSends(w, fd, 2, ok), fd), status, 0, "sent")
HeaderMissing(w, fd, status, ok) == Reply(w, Silent, 0, "sent")

\* RESPONSE_error: header and message are sent by two calls.
RESPONSE_error(w, fd, status, ok) == Reply(AfterSends(w, fd, 2, ok), status, 0, "sent")

\* The refusals of SESSION_prepare: the error, then SOCKET_disconnect_client.
Reject(w, fd, status, ok) ==
  Reply(Disconnect(AfterSends(w, fd, 2, ok), fd), status, 0, "sent")

\* RESPONSE_header without content.
RESPONSE_header(w, fd, status, ok) == Reply(AfterSends(w, fd, 1, ok), status, 0, "sent")

(***************************************************************************)
(* The "Range" branch of RESPONSE_file.  fseek refuses a negative start    *)
(* only, one behind the end it accepts.  The last position is lowered by   *)
(* one and the length taken as the difference, so total is one less than   *)
(* the range holds, Content-Length is total + 1, and the byte sent after   *)
(* the total that were read lies behind the buffer.                        *)
(***************************************************************************)
RangeEnd(req, filesize) == (IF RangeFinish(req) <= 0 THEN filesize ELSE RangeFinish(req)) - 1
RangeTotal(req, filesize) == RangeEnd(req, filesize) - RangeStart(req)

RESPONSE_range(w, fd, req, filesize, available, ok) ==
  LET total == RangeTotal(req, filesize)
  IN IF RangeStart(req) < 0 \/ total <= 0
     THEN RESPONSE_error(w, fd, 416, ok)
     ELSE Reply(AfterSends(w, fd, IF available > RangeStart(req) THEN 2 ELSE 3, ok),
                206, total + 1, "broken")

\* RESPONSE_file
RESPONSE_file(w, disk, fd, req, name, f, ok) ==
  LET new == Fresh(w, f)
      file == FopenResult(w.files, name, fd, new)
      v == [w EXCEPT !.files = Fopen(@, name, fd, new, disk[name])]
      closed == [v EXCEPT !.files = Fclose(@, file, fd)]
      filesize == Ftell(v.files, file)
  IN IF file = NULL                        THEN RESPONSE_error(w, fd, 500, ok)
     ELSE IF req.if_modified = "same"      THEN RESPONSE_header(closed, fd, 304, ok)
     ELSE IF req.if_unmodified = "other"   THEN RESPONSE_header(closed, fd, 412, ok)
     ELSE IF filesize = 0                  THEN RESPONSE_error(v, fd, 204, ok)
     ELSE IF req.range = NoRange
          THEN Reply(StartTransfer(AfterSends(v, fd, 1, ok), fd, file, filesize, KeepAlive(req)),
                     200, filesize, "later")
     ELSE RESPONSE_range(v, fd, req, filesize, disk[name], ok)

\* What REQUEST_process answers when file_params finds no file.
MissingStatus(name) ==
  IF name \notin Bare THEN 404 ELSE IF name \in Directories THEN 302 ELSE 400

\* REQUEST_process.  A POST to a file that needs no login gets no answer.
REQUEST_process(w, disk, fd, req, name, f, ok) ==
  LET found == disk[name] # Absent /\ (OpenedAs(w.files, name) # {} \/ HasRoom(w))
      v == IF found THEN [w EXCEPT !.files = FopenUnlisted(@, name)] ELSE w
      allowed == name \notin Protected \/ (req.auth = "good" /\ req.method # "POST")
  IN IF ~found                     THEN RESPONSE_error(w, fd, MissingStatus(name), ok)
     ELSE IF name \in Unreadable   THEN RESPONSE_error(v, fd, 403, ok)
     ELSE IF ~allowed              THEN RESPONSE_error(v, fd, 401, ok)
     ELSE IF req.method = "POST"   THEN Reply(v, Silent, 0, "sent")
     ELSE RESPONSE_file(v, disk, fd, req, name, f, ok)

(***************************************************************************)
(* SESSION_local_path_is_valid and REQUEST_get_index: for a path that ends *)
(* in "/" the first index file that can be opened is opened, listed under  *)
(* -133 and never closed.                                                  *)
(***************************************************************************)
IndexFound(w, disk, f) ==
  {k \in DOMAIN IndexNames :
     /\ disk[IndexNames[k]] # Absent
     /\ FopenResult(w.files, IndexNames[k], Probe, Fresh(w, f)) # NULL}

RequestedName(w, disk, req, f) ==
  IF ~req.dir THEN req.name
  ELSE IF IndexFound(w, disk, f) = {} THEN SITE_INDEX
  ELSE IndexNames[First(IndexFound(w, disk, f))]

PinIndex(w, disk, req, f) ==
  IF ~req.dir \/ req.method = "other" \/ req.uri = "long" \/ IndexFound(w, disk, f) = {}
  THEN w
  ELSE LET name == RequestedName(w, disk, req, f)
       IN [w EXCEPT !.files = Fopen(@, name, Probe, Fresh(w, f), disk[name])]

\* SESSION_prepare
SESSION_prepare(w, disk, fd, req, f, ok) ==
  LET v == PinIndex(w, disk, req, f)
      verdict == Verdict(req, w.http_conn_count)
  IN IF verdict = Silent THEN Reply(v, Silent, 0, "sent")
     ELSE IF verdict # Proceed THEN Reject(v, fd, verdict, ok)
     ELSE REQUEST_process(v, disk, fd, req, RequestedName(w, disk, req, f), f, ok)
=============================================================================
