# A TLA+ model of battery-http-server

battery is a single-threaded HTTP/1.1 server in C. One event loop serves all
clients; files that several clients fetch at once share one stream and one
copy of the content; an answer longer than a chunk is continued by the loop
from a table of pending transfers. This directory holds TLA+ modules of that
machinery under both event loops, of the loading of the configuration, of Base64 and of
the log; TLC configurations that check them; and TLAPS proofs about each of these parts.

## 1. The system

### Components

| Component (source, under `src/source`) | State | Operations | Modelled in |
|---|---|---|---|
| File table (`files_io.c`) | `opened_files[1024]`: name, stream, size at registration, client | `battery_fopen`, `battery_fclose`, `battery_ftell`, `battery_fread`, `file_exists`, `file_params` | `FilesIO`, `OpenFiles` |
| Content cache (`cache.c`) | `cached_files[1024]`: name, stream, content, size | `CACHE_add`, `CACHE_delete` | `FilesIO`, `OpenFiles` |
| Pending transfers (`session.c`) | `send_d[10240]`: stream, bytes sent, bytes missing, total, client, keep-alive | `SESSION_add_new_send_struct`, `SESSION_find_response_struct_by_id`, `SESSION_delete_send_struct` | `SocketIO` |
| Event loop, epoll (`socket_io.c`) | open connections, `http_conn_count` | accept, hang-up, `SOCKET_process`, `SOCKET_send_all_data_fd`, `SOCKET_close_fd`, `SOCKET_disconnect_client` | `SocketIO`, `Server`, `EpollServer` |
| Event loop, select (`socket_io.c`) | `master`, `read_fds`, `fdmax` | `_SOCKET_run_select`, `SOCKET_send_all_data` | `Server`, `SelectServer` |
| Requests (`session.c`, `http_protocol.c`) | none between requests | `SESSION_prepare`, `REQUEST_process`, `RESPONSE_file`, `RESPONSE_error`, `RESPONSE_header`, `REQUEST_get_index`, `REQUEST_get_range` | `HttpProtocol` |
| Configuration, access list, MIME types (`core.c`, `htaccess_manager.c`, `mime_types.c`) | settings, `ht_access[256]`, `index_file_list[8]`, `mime_types[256]`, the working directory | the four loaders, run once; `file_params`, `REQUEST_get_mime_type` and `SESSION_check_auth`, which use what they loaded | `Config` |
| Base64 (`base64.c`) | none | `base64_encode`, `base64_decode` | `Base64` |
| Log (`log.c`) | `log_object`, the log file | `LOG_print`, `LOG_save` | `Log` |
| Start and termination (`battery.c`, `SOCKET_free`) | registration with `atexit` | `main`, `app_terminate`, `SOCKET_free` | `Log`, as far as they log |
| Helpers (`string_utils.c`, `time_utils.c`, `mem_manager.c`) | none | pure, or exit | not modelled |
| CGI (`cgi_manager.c`) | | not built, called by nothing | not modelled |

### How they interact

The configuration is read before the first client connects and never changes
afterwards. Everything but the signal handlers runs in one thread. `epoll_wait`
(or `select`) reports descriptors; for each one the loop calls one handler, which
runs to its end:

- a new connection is counted (`http_conn_count`) and given a slot of `send_d[]`;
- a request goes through `SESSION_prepare` (which may refuse it and
  disconnect), `REQUEST_process` and `RESPONSE_file`, which lists the client in
  `opened_files[]`, puts the content into the cache (unless `use_sendfile`),
  sends the header and stores what is left to do in the client's slot of `send_d[]`;
- a writable connection with a pending transfer gets the next chunk; after the
  last one, or an error, the connection is closed unless it is kept alive, and
  the slot and the file are given back. The select loop does this for every
  pending transfer after each descriptor it looks at.

So four tables describe the same conversation, tied together only by the
descriptor number and the `FILE *`, both of which are reused. The clients and
the files on disk change between any two handlers. Signals interrupt anything.

### What is hard here, and what would be right

| Behaviour | Property |
|---|---|
| Two clients share a stream, one closes | `OneStreamPerName`, `ClosedWithLastUser`, `LeasesAreLive`, `PendingReadable` |
| Cached content against the leases on a file; edits in between | `CacheMatchesLeases`, `OneCacheEntryPerFile`, `ImplementsStore` |
| Slots and descriptors reused from transfer to transfer | `TransferBalance`, `TransferMatchesView`, `OneSlotPerConnection`, `NoOrphanLease`, `ContentIntact` |
| Descriptors closed twice and counted twice | `CountNeverOver` |
| Resets, pipelined requests and requests in parts between two handlers | `TablesAgree` |
| Under select, a connection closed between `select` and its turn | `BitsAreConnections` (with `SelectStale` for when it fails) |
| When a connection may, and must, end | `ClosedForCause`, `ClosedWhenDone` |
| An answer must be completed | `AnswerCompletes`, `NoFinishedTransferKept` |
| A request in two parts | run `SplitPost` |
| Four loaders over one file, at the limits of their tables; relative paths, while lines change the working directory | `LastSettingWins`, `FirstEntriesKept`, `LoadingEnds` |
| Several access lines for a file; the login compared as it was encoded | `AdmittedAsConfigured`, `LoginIsDecoded` |
| Decoding text that is no base64 | `StaysInside` (in `LoginIsDecoded`, and proved) |
| A signal inside `LOG_print` or `LOG_save` | `NothingLost`, `InOrder`, `SignalEnds` |
| The overlap of log lines with the end of the buffer, and with the end of the array behind it | `LoggedOnce`, `OnlyLongTailsOverrun` |

`PROJECT.json` lists every hazard at its line, with what its properties leave open, and
also those no property covers, with the reason.

## 2. The modules

    FilesIO ---- operators on opened_files[], cached_files[] and the streams
      |           (FilesIOProofs: lemmas about them)
      +-- OpenFiles ---- all callers of files_io.c in any order
      |     |            (refines FileStore: leases and snapshots)
      |     +-- MCOpenFiles, OpenFilesProofs
      |
      +-- SocketIO ---- operators on send_d[], descriptors and the counter
            +-- HttpProtocol ---- SESSION_prepare ... RESPONSE_file as operators
                  +-- Server ---- clients, disk, receiving and sending; the properties
                        |         (ServerProofs, TransferProofs: lemmas about
                        |          operators and actions)
                        +-- EpollServer ---- _SOCKET_run_epoll
                        |     +-- MCEpollServer, EpollServerProofs
                        +-- SelectServer ---- _SOCKET_run_select
                        |     +-- MCSelectServer, SelectServerProofs
                        +-- MCServer ---- values for both
    Base64 ---- encoder, decoder, RFC 3548 as reference
      +-- Config ---- the loaders and what requests do with their tables
            +-- MCConfig, ConfigProofs
    Log ---- the log and the end of the process
      +-- MCLog, LogProofs

A handler that runs to its end without giving up the processor is one action.
The functions it calls are operators from record to record, in the order in
which the code calls them, so that `FilesIO` is used unchanged both by
`OpenFiles` and by the server.

**FilesIO.** A record `[opened, cached, live, leaked]`. `Lookup`, `Register`,
`Fopen` follow `battery_fopen`: a client's own slot first, otherwise any slot
with the name; registration in the first free slot, cache entry in the last
one. `Fclose` counts the users before discounting the caller, empties the
cache entry with the last user, and closes the stream only when the caller had
a slot. `live` are the open streams the table knows; `leaked` counts those
that never get a slot (`file_params`, and `battery_fopen` with a full table), and so are
never closed. `LeasesAreLive` is about `live` only.

**OpenFiles.** The tables and the disk; one action per entry point of
`files_io.c`, with `stale_fclose` for the close of a stream the caller has no slot
for, and `Edit` for a writer of the file.

**FileStore.** What the two tables promise without slots and streams: a set
of leases and one snapshot per file, taken by the first lease that finds
content, unchanged until the last is released.

**SocketIO.** A record `[files, send_d, open, http_conn_count]`.
`SESSION_delete_send_struct` closes the files and the descriptor of the client
(`FcloseAll`, `DeleteSendStruct`), its callers close the descriptor again
(`Disconnect`), and each close counts down (`CloseFd`). `SendChunk` is
`SOCKET_send_all_data_fd` after its call of `send`, for the three outcomes: some
bytes, none, an error.

**HttpProtocol.** The handling of a request. `Checks` is the sequence of tests of
`SESSION_prepare`; then file lookup, permission, login and conditional headers
in the order of `REQUEST_process` and `RESPONSE_file`. `RangeStart` follows
`atoi` into what is not a number: "-5" starts at 0, "-50" at -5, which `fseek` refuses. Where no index file is
found, `RequestedName` is `SITE_INDEX`. The `ok` argument says how
many of the sends in an answer succeed; a failing one disconnects in the
middle and the rest of the handler goes on with the closed descriptor, as in the code.

**Server.** What both loops share: the clients (`peer`, `inbox`), the disk, the
receiving of a request or a part of one (`ReceiveRequest`, `ReceivePart`), the
sending of a chunk (`Send`), and the properties. `view` is a ghost variable: what each client has received, judged against what
it asked for; no action of the server reads it, and clients look only at
its phase (whether they are waiting for an answer).

**EpollServer.** One event at a time: a hang-up, something to receive, or room
to send.

**SelectServer.** The scan of `_SOCKET_run_select`: `read_fds` is what is left of
the copy `select` made, `i` the number handled last. Numbers without a bit and calls
of `SOCKET_send_all_data` that find nothing pending change nothing and are passed over
(`Onward`, `Between`), so that a step is one handler or one send. A stale bit is
handled as the code does: `recv` fails, and the number is closed again.

**Base64.** `base64_encode` and `base64_decode` as functions of the position in
the text, so that no recursion is needed: the decoder's loop is the least group
that is not full (`Rounds`). Characters that are skipped are dropped first (`Kept`).
`Rfc3548` is the encoding written down independently, bit by bit.

**Config.** battery.conf as a sequence of lines, a line as the sequence of its words.
Each loader is a pass over it with one action per line and one for its end; `Start` is
what `CORE_initialize` and `SOCKET_initialization` check. `cwd` is the working directory: `document_root` changes it,
`LOG_save` and a `LOG_print` that fills the buffer change it to `app_path`; since how full the buffer is depends on paths
and earlier lines, each `LOG_print` may (`LogPrints`). `FileExists` looks from there, but finds what was found before by its name alone, since
`file_exists` leaves the file open (`listed`). One access line more than `ht_access[]` holds, and the
`"%s"` without an argument that is logged for an unknown processor (`Processor`), are undefined: the first ends in
"overrun", the second may end in "crashed", and nothing is said of what follows. One `Request` then asks for a
file, with the text of an Authorization header or without.

**Log.** Each library call of `LOG_print`, `LOG_save`, `SOCKET_free`, `app_terminate`
and `exit` is a step on a list `todo`; `Signal` replaces the list. Characters
are numbered in the order they are logged. The array ends where it ends in the build (`Memory` is `LOG_BUFFER +
STD_BUFF_SIZE`): a line or a copied tail that does not fit with its NUL is "overrun", the last step there is.

### What is abstracted

- The content of a file is its length, and every edit changes the length, so
  equal lengths are equal contents. Edits happen in place; renaming over a file
  is not modelled. A read from the wrong file, offset or snapshot shows as
  another length, name or position in `view`.
- A request is what its header fields parse to (`HTTP_INFO`), received by one
  `recv` or in two parts. A part is handled as a request of its own, because
  `received_all` is set in a session that is freed: the continuation in
  `SOCKET_process` cannot run. The first part (`Parts`) lacks the end of the header, so that no
  field is found, and maybe part of the version or of the method too; or it lacks the end of the body. What the
  code takes for the body begins with the empty line before it (http_protocol.c:35), so a body that lacks one or two bytes counts as complete. The rest does not begin with a
  method. A first part that ends before the version copies from a null pointer and is left out, as are
  several requests in one `recv`, and more than two parts.
- The names of files are absolute paths. With a relative `document_root`, the `directory_exists` of a request for a directory
  (http_protocol.c:503) would change what all later names mean; that is not modelled.
- The header and an error page are sent whole or fail; the code treats a
  partial send of them as complete.
- `RESOURCE_TYPE` is dropped: the built sources register only `STD_FILE`.
- In the server modules `Protected` and `Request.auth` stand for what `Config` models in
  full: the access list, and the comparison of the text sent with it. The content type
  is in `Config` only. The Digest branch of `SESSION_check_auth` is not modelled.
- An offer through a stale pointer, or of the SIZE_MAX that `battery_fread`
  returns without a cache entry, is undefined: `Written` then lets the send fail,
  send one byte, or send more than is missing.
- Under select, the number of a connection that was closed may be given to a file
  before its stale bit is handled; what `SOCKET_process` does to that file is not modelled.
  Run `Select` shows that no bit is stale in the cases it covers, run `SelectStale`
  stops at the first. Resets, edits and requests in parts are left to the runs under epoll.
- In `Config`, words fit their buffers, and a line fits `fgets`; `atoi` gives a number that
  fits; `opened_files[]` has room for the certificates and keys that are looked for. Neither login nor password is empty or contains a colon.
- Index files are looked for under `/`; `file_exists` calls during
  configuration open before any client connects and are `file_exists` in `OpenFiles`.
- In `Log`, library calls are atomic, and the locks inside `malloc` and stdio are not modelled; nor is what
  the characters behind the array belong to.

## 3. The runs

`tlc -config <run>.cfg <module>` in this directory.

| Run | Question | Result |
|---|---|---|
| `OpenFiles` | Do the tables keep their structure, and implement leases and snapshots (`FileStore`), under every order of calls, with the table full and no descriptor left? Is a file closed with its last user, and by no one else? | holds |
| `EpollClose` | With sendfile, closing and half-closing clients and growing files: does the accounting balance, is everything given back, is every request answered? | holds |
| `EpollKeepAlive` | Do kept-alive and closing clients that share files get exactly what they asked for? | holds |
| `EpollRude` | Resets at any moment, pipelined requests and requests in two parts: do the file tables stay consistent and the counter not overcount? | holds |
| `EpollRequests` | Every verdict of `SESSION_prepare` but 503, and every branch of `REQUEST_process` and `RESPONSE_file` by GET and POST, one after the other on one connection, down to the last descriptor: which end the connection, and is each answered that the code does not leave unanswered? | holds |
| `Select` | Under select, with clients that leave when they have their answer: is a bit of `read_fds` a connection when its turn comes, and does every client get its file? | holds |
| `Config` | Does every configuration file mean what its lines say, relative paths included as far as they depend on `app_path` alone, and is a request admitted accordingly? | holds |
| `Log` | Is every line logged once and in order, is nothing lost by a signal, does a signal end the process, and which lines alone can overrun the array? | holds |
| `EvictedTransfer` | Does the cache hold the files being sent (shared.h:225)? | violated: a 304 gives up the lease of a transfer |
| `LostStreams` | Does 404 mean the file does not exist (files_io.c:95)? | violated: `file_params` loses a stream per call |
| `SelectStale` | Is a bit of `read_fds` a connection (socket_io.c:360) when clients leave at any time? | violated: a send closes it before its turn |
| `SplitPost` | Is a POST in two parts joined (session.c:284, 287)? | violated: the first part is dropped, the rest refused, and the client disconnected |

The four violations are the `findings` of `PROJECT.json`, each with the quoted line.
Other things the modelling showed, in places where a run of their own would add nothing:

- `http_conn_count` is not the number of clients (shared.h:228): a close counts down
  twice or more (`DeleteSendStruct`, then `CloseFd`), stopped at -2;
- HEAD is answered with the content of the file (http_protocol.c:532);
- a client that asked for no keep-alive is not disconnected after an error
  (session.c:229 says it is);
- the limit on clients is compared with `==` (session.c:245);
- a hang-up (socket_io.c:419) closes the descriptor and leaves the client's slot and files;
- a second file on a kept-alive connection overwrites the first stream in `send_d[]`
  (http_protocol.c:400), whose lease stays;
- with sendfile, a file that grows is sent beyond its Content-Length (socket_io.c:179);
- without the option, `connection_processor` stays epoll, where battery.conf:32 says
  "default: select"; so it does for an unknown processor, where core.c:264 logs
  `select(). "%s" is not supported.`, with no argument for the `%s`. `LastSettingWins` says which one runs;
- index names are limited to 8 (`MaxIndexNames`), where battery.conf:48 says 256;
- a relative path of a certificate or key is looked for in the directory of the log, in `document_root`, or in `app_path`,
  depending on the lines before it (files_io.c:46, log.c:106), and so TLS is on or off;
- `"Range: bytes=-5"` asks for the last five bytes and is answered with the first, `"bytes=-50"` with 416
  (http_protocol.c:631).

### Bounds, and why they are enough

- **OpenFiles**: two files, two streams, two clients besides the index owner
  -133, three slots, two descriptors, lengths 0 to 2. A stream can be shared
  by all three owners of a file; three slots are fewer than the six leases that
  could exist, and streams lost by `file_params` use up the descriptors, so the full
  table and the failing `fopen` are reached. Two lengths beside 0 let
  an edit between two non-empty contents be seen. Names and streams are
  symmetric: no definition orders them. The theorems of section 4 cover all other sizes.
- **Epoll runs**: two connections, two files (eight names in `EpollRequests`), files of
  one and two bytes, chunks of one or two bytes, `MaxClients` 2, and a descriptor
  limit that is reached (five, or four descriptors). Transfers of two chunks can be interleaved with
  a whole conversation of the other client, and the descriptor of a finished
  connection is taken by the next. Two clients are the smallest number that can
  share a file; a third shares it in the same way, since the tables do
  not distinguish the other users. `EpollRequests` has one client and a request for each
  branch: the branches do not depend on other clients but on what earlier
  requests of the same connection left in the tables. The exceptions are 503, which takes as many connections as slots
  (it occurs in `EpollKeepAlive` and `EpollRude`), and HEAD, left out since the content behind its
  header is taken for the next answer.
- The number of streams exceeds the number of names that can be open
  (`StreamsAssumption`), as addresses do.
- `EpollRude` uses `VIEW WithoutView`: with pipelining clients no action's
  guard, and none of its properties, reads `view`, so states that differ only there
  have the same futures. Stream symmetry is used only in runs without liveness;
  streams are never ordered.
- **Select, SelectStale**: as `EpollKeepAlive`, with descriptors 4 and 5 above the listener 3,
  so that a connection can be closed by the sends between two turns, `fdmax` can lie above the
  connections there are, and a scan begins below a client accepted during it.
- **Config**: every file of up to two lines of 18 kinds, of the document root with up to
  three more settings or three more entries, and of port 443 with up to four lines for certificate, key and document root; limits of two index
  names, two types and two access lines, which three lines exceed; two access lines for one file; three places: `app_path`, the
  directory of the log, and the document root, with an absolute path that is found from all of them, and relative ones found in one only; three accounts whose texts need no, one and two
  characters of padding, and texts without padding, with a foreign character, and empty.
- **Log**: `LogBuffer` 4, with 8 characters behind it, and lines of 1, 3 and 5 characters: a line can fill the
  buffer exactly, cross its end, cross it with a tail as long as the buffer, and with one that has no room a second
  time (4 characters, as 128 in the build). `MaxTrouble` 1: one signal or one failing call per execution; the theorems are about any number.
  `MaxLogged` 10 fills the buffer more than twice.
- `CHECK_DEADLOCK FALSE` is set in the epoll runs (lost descriptors can end up using the
  limit, so that nobody is accepted any more: that is the code), in `Log` (the
  process ends) and in `Config` (after the request, or the exit). The select runs check
  deadlock: the loop never stops; so does `OpenFiles`.
- `EpollClose` limits edits to length 3, longer than the files at the
  start: files only grow, which with sendfile makes `http_content_size` negative
  (socket_io.c:179 does not limit the amount to what is missing). With files
  that shrink, no chunk would ever be offered and a transfer never ends.

### Which faults a property assumes away

`CountNeverOver` and `TablesAgree` hold with resets and pipelining; `TransferBalance`
and `NoFinishedTransferKept` with half-closing clients and growing files. The properties of the
second group in `Server` are checked with clients that wait for an answer
and connections that are not reset, because the code does not provide them
otherwise:

- a hang-up leaves slot and files to the next connection with that number (against
  `OneSlotPerConnection`);
- a second file on a kept-alive connection leaves the lease of the first (against
  `NoOrphanLease`, hence checked with closing clients only);
- with sendfile, a file that grows is sent beyond its Content-Length (against
  `ContentIntact`).

### Fairness

Under epoll, `Fairness` is weak fairness of `Receive` and `SendPending` for each
client. epoll is used level-triggered, so a readable or writable
descriptor is reported again by every `epoll_wait` until it is dealt with; each
batch is handled completely; and no handler blocks, as client sockets are non-blocking. A batch of
`MAX_EVENTS` descriptors cannot hide one for ever, since Linux reports ready
descriptors in turn. Weak fairness is enough although a readable descriptor is
received from before it is sent to: a client has a bounded number of unread
requests. The conditions (`Readable`, `Writable`) and the `[]<>` are written out, because
TLC takes very long to evaluate ENABLED of a whole handler; so
a send that returns no bytes does not count as progress. Of clients it is assumed
that one that is sent something reads it in time, or its connection ends: without that no
server completes an answer. They need not send another request, nor leave.

Under select the loop polls, so it always has a step (`Loop`, weakly fair), and whether a send
makes progress is up to the client: `Progress` is strongly fair for each entry of `send_d[]`,
since `SOCKET_send_all_data` comes to an entry again and again, with sends that would block in between.

In `Config`, `WF_vars(Load)`, and in `Log`, `WF_vars(Step)`: a program that runs takes its next step.

`AnswerCompletes` excepts the requests the code leaves without an answer (`LeftUnanswered`): POST to a
file that needs no login, and incomplete bodies (http_protocol.c:531, session.c:402). `EpollRequests` has both, between
requests that are answered. A range counts as answered whatever bytes are sent for it. `SignalEnds` ends with the overrun of the array, too: what
the process does after it is undefined.

## 4. The proofs

`tlapm <module>.tla` for each of the eight proof modules. Nothing is assumed but the named
ASSUMEs on the constants, which TLC evaluates in the runs: table sizes are positive, `NULL` is no name or
stream, descriptors of clients are positive (and above `Listener`'s), lengths are natural
numbers, a battery.conf is a sequence of lines (`ConfigFilesAssumption`), of any number, whose logins and passwords are characters
(`HtAccessAssumption`), `app_path` and the directory of the log are places (`PlacesAssumption`), clients' logins and passwords are not empty and have no colon
(`AccountsAssumption`), one line has room behind the log's buffer, as in the build (`MemoryAssumption`), `Absent` is none, index names and `SITE_INDEX` are names, `Request`s have their type, and there are
more addresses of streams than can be open at a time (`StreamsAssumption`). `Faults` is a
constant without assumption: where a theorem about the server does not say otherwise, it holds with
every fault the model has.

**FilesIOProofs** has the lemmas about the operators of the file table. `TablesOK` is stated for
a record of tables, not for a variable, so that the lemmas serve `OpenFiles` and the server. It joins

- names and streams of used slots determine each other (`SharedStreams`), a
  client has one slot per file (`UniqueLeases`), the open streams are those of
  the used slots (`LiveLeases`);
- every cache entry belongs to a used slot with its name and stream
  (`LeasedCache`), and a stream has one entry (`UniqueCache`), so that
  `CACHE_delete`, which stops at the first it finds, leaves none;
- with sendfile nothing is cached (`CacheUnused`). This is the strengthening:
  `battery_fclose` skips `CACHE_delete` when sendfile is used, so an entry would
  outlive its file and break `LeasedCache` in the next step.

That a slot is free in all of its fields or in none is part of the type `Tables`.

`AddLeaseOK`, `CacheAddOK`, `LeakOK` and `SmallerOK` say what a change of the record
preserves; `FopenOK`, `FopenUnlistedOK` and `FcloseOK` are built from them, one per
entry point. The delicate one is
`FcloseOK`: the code counts the users of a stream before discounting the caller,
so it needs that a client has one slot per file (`AtMostOneLease`), or the stream
would stay open or the cache entry would go while in use.

**OpenFilesProofs** proves, for any number of slots, files, streams and clients, that
the invariants of run `OpenFiles` hold, and its action property `ClosedWithLastUser`: whatever others do, a slot and its stream stay until the
client's own `battery_fclose`, and then the stream is closed exactly if no other slot has it (`LastUserCloses`). What the theorems say of streams is
about those with a slot; the code loses others, and run `LostStreams` shows how. Neither the single invariants nor their
conjunction is inductive; `TypeOK` with `TablesOK` is (`InvNext` has one step per action).

Its second part proves `StoreImplemented`: without sendfile, `Spec => ImplementsStore`.
The assumption is needed: with sendfile nothing is snapshotted. A stale close of
a stream with one other user drops its snapshot early, and the abstract store allows for that
(`Forget`). `CacheHasRoom` is the
counting argument that a free slot of `opened_files[]` implies a free one in
`cached_files[]`: cached files inject into used slots.

`First` and `Last` choose the least and the greatest of a set of slots; that they
exist is proved once, from the well-foundedness of `<` on Nat (`LeastElement`).

**ConfigProofs** has two parts. The first is about Base64, for texts of every length: `base64_encode` writes the encoding of RFC 3548
(`EncodesAsRfc`); `base64_decode` reads back what `base64_encode` makes (`RoundTrip`) and so what any client
makes by the RFC (`DecodesRfc`, which includes that dropping other characters drops none of these); and whatever the
text, also one that is no base64, the loop ends at or before the four `=` that are appended to the
copy (`DecoderStaysInside`). None needs an induction over texts: a text is a function of the
position, the round the loop stops in is the least group that is not full, which exists by the
well-foundedness of `<`; that a group of three bytes survives is arithmetic on
`div` and `%` (`GroupRoundTrip` and the lemmas before it). The function behind `Kept` is shown to exist by a least counterexample (`KeptRun`).

The second part proves, for every battery.conf, all the invariants of run `Config`. They speak of the end of loading and of the file as a whole;
the inductive invariant `ConfigInv` says the same of the lines read so far. Its parts are

- `SettingsInv`: while `CORE_load_configuration` runs, each setting is what the last line about it among the lines
  before `line` says (`Settings`), a certificate that does not exist counting as a reset and an unknown processor not at all; whether a relative path existed
  is known for lines that are read in `app_path` (`AtHome`) and for absolute paths, so the invariant carries along where `cwd` is;
  `ssl_on` is what its end made of port, certificate and key; the later loaders change no setting (`SettingsStay`), and
  `Start` turns them into `LastSettings`;
- `TablesInv`: each table holds the first lines of its kind, in order and up to its limit, among the lines its
  own loader has read: none before it runs, all when it has ended (`Holds`, with `AccessRead`, `NamesRead` and `TypesRead`
  for how far each has come). `HoldsMore` adds a line to a table with room; `HoldsFull` says that further
  lines do not matter to a full one, which is why the break in `CORE_load_index_names` may leave lines unread; for `ht_access[]`, which has no limit in the code,
  the loader gets to its end only if there were no more lines than entries;
- `SessionInv`: a session is admitted by what `file_params` finds in the tables, and has the words of the decoded text.

From it, `RequiredIs` finds the first access line behind the first entry of the table, `EncodesAsRfc` gives its text, and
`WordsAre` cuts "login:password" in two.

**ServerProofs** follows the calls of the server's handlers from the inside out, for one value of
the record `server`. The invariant `ServerOK` is: `TablesOK` of the file tables, every slot of
`send_d[]` adds up and holds no ended transfer of a closing client (`SlotOK`), and the counter
lies between -2 and the number of connections (`CountOK`). It is not preserved by every call: between the last chunk
and the reset of the slot an ended transfer is there, so the lemmas about
`SESSION_delete_send_struct` start from `AlmostOK`, which excepts the slots of the client
being disconnected. Three arguments are worth a look:

- `FcloseAll`, the loop that closes the files of a client, is a recursive function of the slot;
  that it exists, and that each of its steps keeps `TablesOK`, is shown by a least counterexample (`FcloseAllOK`);
- `CountDownOK`: a close that finds nothing to close still counts down, which keeps the counter below the
  number of connections, but only the guard of the code keeps it from falling below -2;
- `PinIndex` may give the handler a stream that is already open; then its name is listed
  (`FopenLists`), so that `battery_fopen` after it shares the stream and opens no second one.

The first part of the module ends with one lemma per action both loops are made of (`AcceptOK`, `GoneOK`, `ReceiveOK`, `SendOK`,
`EnvironmentOK`), from which **EpollServerProofs** proves `TypeOK`, `CountNeverOver`, `TransferBalance`,
`NoFinishedTransferKept` and `TablesAgree` for `Spec`, with all faults at once, where the runs take them
one group at a time.

**SelectServerProofs** proves the same for `SelectSpec`, together with `LoopTypeOK`. Its invariant adds
`ScanOK`: the bits left lie at or below `fdmax`, and while `SOCKET_send_all_data` is called, below the number handled
last; between two calls `i` is the next number with a bit, and the entry of `send_d[]` the call has come to has a
client and something to send. Stale bits are allowed: `ScanOK` does not say that a bit is a connection.

The second part of **ServerProofs**, and **TransferProofs** after it, are about what the tables of the server say of each
other and of what clients have received. They hold lemmas for both loops: one per inductive
invariant and action of `Server`. The code does not keep these promises to every client, so each
invariant comes with hypotheses, defined beside it. They speak of constants only (which faults
happen, which requests are sent, how large the table is), and each excludes something that the
code answers with a broken conversation:

| Invariant | Says | Under | Because otherwise |
|---|---|---|---|
| `SlotInv` | every slot of `send_d[]` is free or belongs to an open connection, no two to the same, and each connection has one | `NoResets` | a hang-up closes the descriptor and leaves the slot (socket_io.c:419) |
| | | `FewConnections` | the connection that reaches `MAX_CLIENTS` is accepted without a slot |
| `TurnInv` | what a slot records as sent, missing and kept alive is what its client has received, still expects and has asked for; an unread request means a waiting client with nothing pending | `InTurn`: no resets, no pipelined, split or cut requests, no HEAD | the second header arrives inside the content, and is taken for it |
| `SourceInv` | every pending transfer has its lease, on one of the files that may answer the request, in the announced length; sizes in table and cache are those on disk | `NoEdits` | the size on disk is no longer the one announced |
| | | `Roomy`: as many slots as pairs of client and file | a client that finds `opened_files[]` full reads through the leases of others |
| | | `NoStaleCloses`: sendfile, or no conditional requests | a 304 closes a file whose stream the slot still has; the second close drops the cache entry of others (run `EvictedTransfer`) |
| `LeaseInv` | every client's slot of `opened_files[]` is for its pending transfer | `OneAnswerEach` | the second file on a kept-alive connection overwrites the first stream in `send_d[]` |
| | | `WholeFiles`, `NoEmptyFiles` | a range or an empty file is answered without a transfer that would close it |

`Undisturbed` is `InTurn`, `NoEdits`, `Roomy` and `NoStaleCloses` together; `Frugal` is `InTurn`, `OneAnswerEach`,
`WholeFiles` and `NoEmptyFiles`. The hypotheses are met by the runs: all of `Undisturbed` by `EpollKeepAlive`, all of `Frugal` by
`EpollClose`, `NoResets`, `FewConnections` and `InTurn` by all passing runs but `EpollRude`. `Select` has fewer slots
than `Roomy` asks for: there TLC also shows the properties with the table nearly full.

Each invariant is needed for the next. That slots and connections correspond makes `Disconnect`, which
searches slots by descriptor, touch one client only (`OthersKept`); that a client with an unread request has
nothing pending lets `RESPONSE_file` overwrite its slot; and only with the client's record beside the
slot can one say that a lease is for the file that was asked for. `PrepareOutcome` sums up what
`SESSION_prepare` can come to, so that the invariants are not each carried through its forty
branches: nothing sent, a short answer, a refusal that disconnects, or a file with its transfer.
That a registered file has a slot free for it is a counting argument (`RoomForLease`), as is that an accepted
client finds a free slot of `send_d[]` (`SlotIsFree`).

**EpollServerProofs** draws from these `OneSlotPerConnection`, `TransferMatchesView`, `ClosedWhenDone`, `PendingReadable`,
`ContentIntact`, `NoOrphanLease` and the action property `ClosedForCause`; **SelectServerProofs** draws
`OneSlotPerConnection`, `ContentIntact` and `ClosedForCause`, and proves `BitsAreConnections`. The last needs `BitsInv`: a
client with a bit has an unread request, or has left and waits for nothing. In neither case is anything pending for it, so no
send closes it before its turn. `NoEarlyLeave` is the hypothesis that makes it inductive; run `SelectStale` shows what happens without.

**LogProofs** has two inductive invariants, for buffers and lines of any length.

- `OnceInv` is for executions in which nothing has gone wrong yet: it says of each step of `todo` what file and
  buffer hold before it (`Clean`): before `"write"`, that the first `LogBuffer + len` characters are just what the file
  lacks, though the tail stands behind them once more; before `"clear"`, that the file has it all. From it follows `LoggedOnce` (`EveryLineOnce`), up to an overrun; and what overruns is a tail
  of at least half the room (`LongTailsOverrun`).
- `LogInv` is for executions with any number of signals and failing calls. A signal after the tail was copied, or
  a close that fails, leaves the tail in the buffer twice, and it is copied again with the next line; so what lies behind
  the buffer can grow with each trouble until it no longer fits. `TextInv` holds up to there. It says that the text ends within the array (`TextOf`), that file and
  buffer together are in order, that nothing is missing while no call has failed, and, since a signal may replace `todo` at any step, which lists
  of steps there can be and that each still contains a save if one is owed (`Shape`, `SavedInv`). Where a text does
  not fit, the model stops (`Overran`), with what is in the file still in order. `TypeOK`, `NothingLost`
  and `InOrder` follow (`LogTypeCorrect`, `SignalLosesNothing`, `LinesInOrder`).

Of the room behind the buffer they assume only what the build has: that of one line. `NothingLost` is about processes that
end, so it says nothing of one that overran the array; `TypeOK` says that until then `strlen` never runs out of it.

Only model-checked: all liveness, `LoadingEnds`, `AnswerCompletes` and `SignalEnds` (the prover has no ENABLED), and
what the violation runs show. Every invariant of a passing run is a theorem about the specification of one of the runs that check it.

## 5. Not modelled

- **CGI** (`cgi_manager.c`): not among the objects of the makefile, and nothing calls it.
- **String, time and memory helpers**: pure functions on buffers, or exit; their results appear
  as the fields of `Request`.
- **Digest authentication** (session.c:139): the arguments of `strstr` are swapped, so that the branch is taken
  only if the value of the header is a part of " Digest "; it then frees a session that the caller goes on using.
- **Wire format**: header lines, dates, file names; lines longer than a buffer; a header that is sent in
  part (http_protocol.c:259), which would need the bytes of the header.
- **Under select**, a number that is reused by a file before its stale bit is handled: the effect
  (`recv` on a file, then `close` of it) depends on which file got it.
- **Windows** variants of the sockets and of the memory manager.

## 6. Plan

Modelled, checked and proved are the parts above. Next: several requests in one `recv` (socket_io.c:496), with the loss
of all but the first, and headers that are sent in part.
