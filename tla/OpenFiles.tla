----------------------------- MODULE OpenFiles -----------------------------
(***************************************************************************)
(* The file table and the cache on their own: every caller of files_io.c   *)
(* in any order, among them the close of a stream the caller has no slot   *)
(* for, which SESSION_delete_send_struct makes when send_d[] still holds   *)
(* the stream of a request that was answered without a body.               *)
(***************************************************************************)
EXTENDS FilesIO

CONSTANTS Sizes,     \* lengths a file can be edited to
          Absent,    \* the length of a file that is not on disk
          FdLimit,   \* open-file limit of the process
          Faults     \* which of "edit", "stale_close" the environment may do

ASSUME SizesAssumption == Sizes \subseteq Nat
ASSUME AbsentAssumption == Absent \notin Nat
ASSUME FdLimitAssumption == FdLimit \in Nat

VARIABLES tables,    \* opened_files[], cached_files[] and the streams
          disk       \* disk[n]: the present length of file n

vars == <<tables, disk>>

TypeOK == /\ tables \in Tables
          /\ disk \in [Names -> Sizes \cup {Absent}]

Init == /\ tables = EmptyTables
        /\ disk \in [Names -> Sizes \cup {Absent}]

\* What fopen(name) can return.
NewStreams(name) ==
  IF disk[name] # Absent /\ Cardinality(tables.live) + tables.leaked < FdLimit
  THEN Streams \ tables.live
  ELSE {NULL}

\* RESPONSE_file: the file is opened for a client and listed.
battery_fopen(name, fd) ==
  /\ disk[name] # Absent
  /\ \E new \in NewStreams(name) : tables' = Fopen(tables, name, fd, new, disk[name])
  /\ UNCHANGED disk

\* file_exists: the file is listed under -133 and stays open.
file_exists(name) ==
  /\ disk[name] # Absent
  /\ \E new \in NewStreams(name) : tables' = Fopen(tables, name, Probe, new, disk[name])
  /\ UNCHANGED disk

\* file_params: stat succeeds, then the file is opened without being listed.
file_params(name) ==
  /\ disk[name] # Absent
  /\ NewStreams(name) # {NULL}
  /\ tables' = FopenUnlisted(tables, name)
  /\ UNCHANGED disk

\* battery_fclose by a client that has the file open.
battery_fclose(file, fd) ==
  /\ LeasesOf(tables, file, fd) # {}
  /\ tables' = Fclose(tables, file, fd)
  /\ UNCHANGED disk

\* battery_fclose of a pointer the client no longer has a slot for.
stale_fclose(file, fd) ==
  /\ "stale_close" \in Faults
  /\ LeasesOf(tables, file, fd) = {}
  /\ tables' = Fclose(tables, file, fd)
  /\ UNCHANGED disk

\* Somebody writes to the file in place.
Edit(name, size) ==
  /\ "edit" \in Faults
  /\ disk[name] # Absent
  /\ disk' = [disk EXCEPT ![name] = size]
  /\ UNCHANGED tables

Next ==
  \/ \E name \in Names : \/ file_exists(name)
                         \/ file_params(name)
                         \/ \E fd \in Clients : battery_fopen(name, fd)
                         \/ \E size \in Sizes : Edit(name, size)
  \/ \E file \in Streams, fd \in Clients : \/ battery_fclose(file, fd)
                                           \/ stale_fclose(file, fd)

Spec == Init /\ [][Next]_vars

-----------------------------------------------------------------------------
Used == {i \in Slots : tables.opened[i].file # NULL}
InCache == {i \in Slots : tables.cached[i].file # NULL}

\* The table exists so that a file is opened once however many clients want
\* it (shared.h:222): two used slots name the same file exactly when they
\* hold the same stream.
OneStreamPerName ==
  \A i, j \in Used : tables.opened[i].filename = tables.opened[j].filename
                       <=> tables.opened[i].file = tables.opened[j].file

\* A client has at most one slot for a file, so one battery_fclose ends its use.
OneLeasePerClient ==
  \A i, j \in Used : /\ tables.opened[i].filename = tables.opened[j].filename
                     /\ tables.opened[i].socket_fd = tables.opened[j].socket_fd
                     => i = j

\* No slot holds a stream that battery_fclose has already given to fclose, and a
\* stream that had a slot is closed when it has none.  Nothing is said here of
\* streams that never get one: those of file_params and of a full table stay open
\* for good and are counted in leaked.
LeasesAreLive == tables.live = {tables.opened[i].file : i \in Used}

\* What a client has open is taken from it by its own battery_fclose only, whatever
\* the others open, close or have closed before; the stream goes to fclose exactly
\* if nobody else has a slot for it, and is not lost.
ClosedWithLastUser ==
  [][\A i \in Used :
       LET lease == tables.opened[i]
       IN \/ /\ tables'.opened[i] = lease
             /\ lease.file \in tables'.live
          \/ /\ battery_fclose(lease.file, lease.socket_fd)
             /\ tables'.opened[i] = FreeOpened
             /\ lease.file \in tables'.live
                  <=> \E j \in Used \ {i} : tables.opened[j].file = lease.file
             /\ tables'.leaked = tables.leaked]_vars

\* Cached content always belongs to a file that some client has open, under
\* the same name and stream; a stale entry would be served for another file.
CacheMatchesLeases ==
  \A k \in InCache : \E i \in Used :
    /\ tables.opened[i].filename = tables.cached[k].filename
    /\ tables.opened[i].file = tables.cached[k].file

\* A file has one cache entry: CACHE_delete removes only the first it finds.
OneCacheEntryPerFile ==
  \A k, l \in InCache : tables.cached[k].file = tables.cached[l].file => k = l

\* The two tables implement the leases and snapshots of FileStore, edits of
\* the files and closes of what was not opened included.
LeaseSet == {<<tables.opened[i].filename, tables.opened[i].socket_fd>> : i \in Used}
SnapshotOf == [n \in Names |->
                IF CachedAs(tables, n) = {} THEN 0
                ELSE tables.cached[Last(CachedAs(tables, n))].size]

Store == INSTANCE FileStore WITH leases <- LeaseSet, snapshot <- SnapshotOf,
                                 content <- disk
ImplementsStore == Store!Spec
=============================================================================
