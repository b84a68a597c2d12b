------------------------------ MODULE FilesIO ------------------------------
(***************************************************************************)
(* The table of opened files (files_io.c) and the content cache (cache.c). *)
(*                                                                         *)
(* The module has no variables.  Its operators take and return the tables  *)
(* of the two files as one record:                                         *)
(*   opened  opened_files[]: which client uses which stream                *)
(*   cached  cached_files[]: the content read when a file was registered   *)
(*   live    the open streams (FILE * ) that a slot of opened refers to    *)
(*   leaked  how many open streams nobody has a pointer to any more        *)
(*                                                                         *)
(* The content of a file is abstracted to its length: every edit changes   *)
(* the length, so equal lengths are equal contents.  RESOURCE_TYPE is      *)
(* dropped: the built sources register nothing but STD_FILE.               *)
(***************************************************************************)
EXTENDS Integers, FiniteSets

CONSTANTS Names,          \* full file names
          Streams,        \* the values a FILE * can have
          Clients,        \* file descriptors of client connections
          NULL,           \* no stream, and the empty file name
          MaxOpenFiles,   \* MAX_OPEN_FILES, 1024 in shared.h
          UseSendfile     \* use_sendfile, read from battery.conf

ASSUME MaxOpenFilesAssumption == MaxOpenFiles \in Nat \ {0}
ASSUME NullAssumption == NULL \notin Names /\ NULL \notin Streams
ASSUME ClientsAssumption == Clients \subseteq Nat \ {0}
ASSUME UseSendfileAssumption == UseSendfile \in BOOLEAN

Probe == -133                   \* the descriptor file_exists opens under
Owners == Clients \cup {Probe}
Slots == 1..MaxOpenFiles

FreeOpened == [filename |-> NULL, file |-> NULL, size |-> 0, socket_fd |-> 0]
FreeCached == [filename |-> NULL, file |-> NULL, size |-> 0]

OpenedFile == [filename : Names, file : Streams, size : Nat, socket_fd : Owners]
FileCache  == [filename : Names, file : Streams, size : Nat \ {0}]

Tables == [opened : [Slots -> OpenedFile \cup {FreeOpened}],
           cached : [Slots -> FileCache \cup {FreeCached}],
           live   : SUBSET Streams,
           leaked : Nat]

EmptyTables == [opened |-> [i \in Slots |-> FreeOpened],
                cached |-> [i \in Slots |-> FreeCached],
                live   |-> {},
                leaked |-> 0]

First(S) == CHOOSE i \in S : \A j \in S : i <= j
Last(S)  == CHOOSE i \in S : \A j \in S : j <= i

(***************************************************************************)
(* Slots of the two tables, by what is stored in them.                     *)
(***************************************************************************)
OpenedAs(t, name)      == {i \in Slots : t.opened[i].filename = name}
HoldersOf(t, file)     == {i \in Slots : t.opened[i].file = file}
LeasesOf(t, file, fd)  == {i \in HoldersOf(t, file) : t.opened[i].socket_fd = fd}
CacheOf(t, file)       == {i \in Slots : t.cached[i].file = file}
CachedAs(t, name)      == {i \in Slots : t.cached[i].filename = name}

(***************************************************************************)
(* CACHE_add and CACHE_delete: both scan from the highest index.           *)
(***************************************************************************)
\* Mutants: CACHE_add without its test for an empty file, or for the name.
CacheAddEmpty(t, file, name, size) ==
  IF CachedAs(t, name) # {} \/ CacheOf(t, NULL) = {} THEN t
  ELSE [t EXCEPT !.cached[Last(CacheOf(t, NULL))] =
          [filename |-> name, file |-> file, size |-> size]]

CacheAddTwice(t, file, name, size) ==
  IF size = 0 \/ CacheOf(t, NULL) = {} THEN t
  ELSE [t EXCEPT !.cached[Last(CacheOf(t, NULL))] =
          [filename |-> name, file |-> file, size |-> size]]

CacheAdd(t, file, name, size) ==
  IF size = 0 \/ CachedAs(t, name) # {} \/ CacheOf(t, NULL) = {}
  THEN t
  ELSE [t EXCEPT !.cached[Last(CacheOf(t, NULL))] =
          [filename |-> name, file |-> file, size |-> size]]

CacheDelete(t, file) ==
  IF CacheOf(t, file) = {}
  THEN t
  ELSE [t EXCEPT !.cached[Last(CacheOf(t, file))] = FreeCached]

(***************************************************************************)
(* The lookup of battery_fopen: the slot of this client if it has one,     *)
(* otherwise the last slot with this name.                                 *)
(***************************************************************************)
OwnSlots(t, name, fd) ==
  {i \in OpenedAs(t, name) : t.opened[i].socket_fd = fd}

\* Mutant: only the slots of the client itself are searched.
LookupOwn(t, name, fd) ==
  IF OwnSlots(t, name, fd) = {} THEN NULL
  ELSE t.opened[First(OwnSlots(t, name, fd))].file

Lookup(t, name, fd) ==
  IF OwnSlots(t, name, fd) # {}
  THEN t.opened[First(OwnSlots(t, name, fd))].file
  ELSE IF OpenedAs(t, name) # {}
       THEN t.opened[Last(OpenedAs(t, name))].file
       ELSE NULL

\* The stream battery_fopen returns when fopen would return new.
FopenResult(t, name, fd, new) ==
  IF Lookup(t, name, fd) = NULL THEN new ELSE Lookup(t, name, fd)

\* The first free slot gets the stream, the client and the file's current size.
\* With no free slot a newly opened stream is lost: battery_ftell finds no size
\* for it, so RESPONSE_file never stores it in send_d[].
Register(t, file, name, fd, size) ==
  LET free == HoldersOf(t, NULL)
      r == [t EXCEPT !.live = @ \cup {file},
                     !.opened[First(free)] =
              [filename |-> name, file |-> file, size |-> size, socket_fd |-> fd]]
  IN IF free = {} THEN (IF file \in t.live THEN t ELSE [t EXCEPT !.leaked = @ + 1])
     ELSE IF UseSendfile THEN r ELSE CacheAdd(r, file, name, size)

\* Mutant: battery_fopen forgets client_exist.
FopenAgain(t, name, fd, new, size) ==
  LET file == FopenResult(t, name, fd, new)
  IN IF file = NULL THEN t ELSE Register(t, file, name, fd, size)

\* battery_fopen with add_to_list = 1.  new is what fopen returns if it is
\* called: a stream not in use, or NULL.
Fopen(t, name, fd, new, size) ==
  LET file == FopenResult(t, name, fd, new)
  IN IF file = NULL \/ OwnSlots(t, name, fd) # {}
     THEN t
     ELSE Register(t, file, name, fd, size)

\* battery_fopen with add_to_list = 0: file_params only looks whether the
\* result is NULL, so a stream that had to be opened is lost.
FopenUnlisted(t, name) ==
  IF OpenedAs(t, name) = {} THEN [t EXCEPT !.leaked = @ + 1] ELSE t

\* Mutants: battery_fclose counts the other users only; leaves the cache entry;
\* leaves the name in the slot.
FcloseEarly(t, file, fd) ==
  LET mine == LeasesOf(t, file, fd)
      u == [t EXCEPT !.opened = [i \in Slots |-> IF i \in mine THEN FreeOpened ELSE @[i]]]
      c == IF UseSendfile THEN u ELSE CacheDelete(u, file)
  IN IF file = NULL THEN t
     ELSE IF Cardinality(HoldersOf(u, file)) > 1 THEN u
     ELSE [c EXCEPT !.live = IF mine = {} THEN @ ELSE @ \ {file}]

FcloseKeepsCache(t, file, fd) ==
  LET mine == LeasesOf(t, file, fd)
      u == [t EXCEPT !.opened = [i \in Slots |-> IF i \in mine THEN FreeOpened ELSE @[i]]]
  IN IF file = NULL \/ Cardinality(HoldersOf(t, file)) > 1 THEN u
     ELSE [u EXCEPT !.live = IF mine = {} THEN @ ELSE @ \ {file}]

FcloseKeepsName(t, file, fd) ==
  LET mine == LeasesOf(t, file, fd)
  IN [t EXCEPT !.opened = [i \in Slots |->
        IF i \in mine THEN [FreeOpened EXCEPT !.filename = t.opened[i].filename]
        ELSE @[i]]]

\* battery_fclose.  The count of users is taken before the caller's own slot
\* is discounted; the stream is closed only if the caller had a slot.
Fclose(t, file, fd) ==
  LET mine == LeasesOf(t, file, fd)
      u == [t EXCEPT !.opened = [i \in Slots |-> IF i \in mine THEN FreeOpened ELSE @[i]]]
      c == IF UseSendfile THEN u ELSE CacheDelete(u, file)
  IN IF file = NULL THEN t
     ELSE IF Cardinality(HoldersOf(t, file)) > 1 THEN u
     ELSE [c EXCEPT !.live = IF mine = {} THEN @ ELSE @ \ {file}]

\* battery_ftell
Ftell(t, file) ==
  IF HoldersOf(t, file) = {} THEN 0 ELSE t.opened[First(HoldersOf(t, file))].size

\* battery_fread: how many bytes it returns for a read of n bytes at pos; -1
\* (SIZE_MAX in the code) when this client has no slot for the stream.  An
\* uncached file yields no bytes; pos beyond size wraps to an empty read.
Fread(t, file, fd, pos, n) ==
  LET mine == LeasesOf(t, file, fd)
      size == t.opened[First(mine)].size
  IN IF file = NULL \/ mine = {} THEN -1
     ELSE IF UseSendfile \/ CacheOf(t, file) = {} \/ pos > size THEN 0
     ELSE IF pos + n > size THEN size - pos ELSE n

\* The content those bytes come from.
CachedContent(t, file) ==
  IF CacheOf(t, file) = {} THEN FreeCached ELSE t.cached[Last(CacheOf(t, file))]
=============================================================================
