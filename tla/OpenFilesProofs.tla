-------------------------- MODULE OpenFilesProofs --------------------------
(***************************************************************************)
(* Proofs about OpenFiles, for every number of slots, clients and files:   *)
(* TablesOK of FilesIOProofs is its inductive invariant, and with it       *)
(* OpenFiles implements FileStore.                                         *)
(***************************************************************************)
EXTENDS OpenFiles, FilesIOProofs

Inv == TypeOK /\ TablesOK(tables)

\* The tables start empty, which satisfies the inductive invariant.
LEMMA InvInit == Init => Inv
<1> SUFFICES ASSUME Init
             PROVE  Inv
  OBVIOUS
<1>1. tables = EmptyTables /\ TypeOK
  BY DEF Init, TypeOK, EmptyTables, Tables
<1>2. Leased(tables) = {} /\ Cached(tables) = {} /\ tables.live = {}
  BY <1>1 DEF EmptyTables, Leased, Cached, FreeOpened, FreeCached
<1> QED
  BY <1>1, <1>2 DEF Inv, TypeOK, TablesOK, SharedStreams, UniqueLeases, LiveLeases,
                    LeasedCache, UniqueCache, CacheUnused

\* Each call into files_io.c and each edit preserves the inductive invariant.
LEMMA InvNext == Inv /\ [Next]_vars => Inv'
<1> SUFFICES ASSUME Inv, [Next]_vars
             PROVE  Inv'
  OBVIOUS
<1> USE DEF Inv
<1>1. disk \in [Names -> Sizes \cup {Absent}] /\ TablesOK(tables)
  BY DEF TypeOK
<1>2. \A name \in Names : NewStreams(name) \subseteq (Streams \ tables.live) \cup {NULL}
  BY DEF NewStreams
<1>3. \A name \in Names : disk[name] # Absent => disk[name] \in Nat
  BY <1>1, SizesAssumption
<1>4. TablesOK(tables') /\ disk' \in [Names -> Sizes \cup {Absent}] => Inv'
  BY DEF TypeOK, TablesOK
<1>5. ASSUME NEW name \in Names, file_exists(name)
      PROVE  Inv'
  <2>1. Probe \in Owners
    BY DEF Owners
  <2>2. TablesOK(tables')
    BY <1>1, <1>2, <1>3, <1>5, <2>1, FopenOK DEF file_exists
  <2> QED
    BY <1>1, <1>4, <1>5, <2>2 DEF file_exists
<1>6. ASSUME NEW name \in Names, file_params(name)
      PROVE  Inv'
  BY <1>1, <1>4, <1>6, FopenUnlistedOK DEF file_params
<1>7. ASSUME NEW name \in Names, NEW fd \in Clients, battery_fopen(name, fd)
      PROVE  Inv'
  <2>1. fd \in Owners
    BY DEF Owners
  <2>2. TablesOK(tables')
    BY <1>1, <1>2, <1>3, <1>7, <2>1, FopenOK DEF battery_fopen
  <2> QED
    BY <1>1, <1>4, <1>7, <2>2 DEF battery_fopen
<1>8. ASSUME NEW name \in Names, NEW size \in Sizes, Edit(name, size)
      PROVE  Inv'
  BY <1>1, <1>4, <1>8 DEF Edit
<1>9. ASSUME NEW file \in Streams, NEW fd \in Clients,
             battery_fclose(file, fd) \/ stale_fclose(file, fd)
      PROVE  Inv'
  <2>1. fd \in Owners
    BY DEF Owners
  <2>2. TablesOK(tables')
    BY <1>1, <1>9, <2>1, FcloseOK DEF battery_fclose, stale_fclose
  <2> QED
    BY <1>1, <1>4, <1>9, <2>2 DEF battery_fclose, stale_fclose
<1>10. CASE UNCHANGED vars
  BY <1>10 DEF vars, TypeOK
<1> QED
  BY <1>5, <1>6, <1>7, <1>8, <1>9, <1>10 DEF Next

\* Every reachable state of the tables is consistent, the closes of streams the
\* caller has no slot for (SESSION_delete_send_struct after a 304) included.
THEOREM TablesConsistent == Spec => []Inv
BY InvInit, InvNext, PTL DEF Spec

\* The invariants the runs check are parts of the inductive one.
LEMMA InvImplies ==
  Inv => /\ TypeOK
         /\ OneStreamPerName /\ OneLeasePerClient /\ LeasesAreLive
         /\ CacheMatchesLeases /\ OneCacheEntryPerFile
<1> SUFFICES ASSUME Inv
             PROVE  /\ TypeOK
                    /\ OneStreamPerName /\ OneLeasePerClient /\ LeasesAreLive
                    /\ CacheMatchesLeases /\ OneCacheEntryPerFile
  OBVIOUS
<1>1. Used = Leased(tables) /\ InCache = Cached(tables)
  BY DEF Used, InCache, Leased, Cached
<1> QED
  BY <1>1 DEF Inv, TablesOK, SharedStreams, UniqueLeases, LiveLeases, LeasedCache, UniqueCache,
              OneStreamPerName, OneLeasePerClient, LeasesAreLive, CacheMatchesLeases,
              OneCacheEntryPerFile

\* The tables keep their types: no slot is half used.
THEOREM TypeCorrect == Spec => []TypeOK
BY TablesConsistent, InvImplies, PTL

\* A file is open once, however many clients use it: opened_files[] never has
\* one name with two streams, nor one stream under two names.
THEOREM StreamsAreShared == Spec => []OneStreamPerName
BY TablesConsistent, InvImplies, PTL

\* One battery_fclose ends a client's use of a file.
THEOREM LeasesAreUnique == Spec => []OneLeasePerClient
BY TablesConsistent, InvImplies, PTL

\* No slot holds a stream that was given to fclose, and of the streams that had a
\* slot none is open without one.  The streams that never had a slot are not
\* among those of live: file_params and a full table leave them open.
THEOREM NoStaleStream == Spec => []LeasesAreLive
BY TablesConsistent, InvImplies, PTL

\* The cache holds content of opened files only, under their stream and name.
THEOREM CacheIsLeased == Spec => []CacheMatchesLeases
BY TablesConsistent, InvImplies, PTL

\* CACHE_delete, which removes the first entry it finds, removes the only one.
THEOREM CacheIsUnique == Spec => []OneCacheEntryPerFile
BY TablesConsistent, InvImplies, PTL

\* What a lease is before a step and after it.
LeaseKept(i) == tables'.opened[i] = tables.opened[i] /\ tables.opened[i].file \in tables'.live

LeaseGone(i) ==
  LET lease == tables.opened[i]
  IN /\ battery_fclose(lease.file, lease.socket_fd)
     /\ tables'.opened[i] = FreeOpened
     /\ lease.file \in tables'.live <=> \E j \in Used \ {i} : tables.opened[j].file = lease.file
     /\ tables'.leaked = tables.leaked

\* A call that leaves the slots of others alone keeps their streams open.
LEMMA KeptIsLive ==
  ASSUME Inv, Inv', Kept(tables, tables'), NEW i \in Used
  PROVE  LeaseKept(i)
<1>1. Used = Leased(tables) /\ TablesOK(tables')
  BY DEF Used, Leased, Inv
<1>2. i \in Leased(tables') /\ tables'.opened[i] = tables.opened[i]
  BY <1>1 DEF Kept
<1>3. tables'.live = {tables'.opened[j].file : j \in Leased(tables')}
  BY <1>1, Zenon DEF TablesOK, LiveLeases
<1> QED
  BY <1>2, <1>3 DEF LeaseKept

\* CACHE_delete neither opens nor loses a stream.
LEMMA CacheDeleteLeaks ==
  ASSUME NEW u \in Tables, NEW file
  PROVE  CacheDelete(u, file) \in Tables /\ CacheDelete(u, file).leaked = u.leaked
<1> DEFINE k == Last(CacheOf(u, file))
<1>1. [u EXCEPT !.cached[k] = FreeCached] \in Tables
      /\ [u EXCEPT !.cached[k] = FreeCached].leaked = u.leaked
  BY DEF Tables
<1> QED
  BY <1>1 DEF CacheDelete

\* battery_fclose takes the slot of its caller and no other.
LEMMA FcloseTakesOne ==
  ASSUME Inv, Inv', NEW file \in Streams, NEW fd \in Clients,
         battery_fclose(file, fd) \/ stale_fclose(file, fd), NEW i \in Used
  PROVE  LeaseKept(i) \/ LeaseGone(i)
<1> DEFINE mine == LeasesOf(tables, file, fd)
           lease == tables.opened[i]
<1>1. /\ TablesOK(tables) /\ TablesOK(tables') /\ tables \in Tables
      /\ Used = Leased(tables) /\ fd \in Owners
      /\ tables' = Fclose(tables, file, fd)
  BY DEF Inv, TablesOK, Used, Leased, Owners, battery_fclose, stale_fclose
<1>2. /\ Leased(tables') = Leased(tables) \ mine
      /\ \A j \in Leased(tables') : tables'.opened[j] = tables.opened[j]
  BY <1>1, FcloseEffect
<1>3. tables'.live = {tables'.opened[j].file : j \in Leased(tables')}
  BY <1>1, Zenon DEF TablesOK, LiveLeases
<1>4. CASE i \notin mine
  <2>1. i \in Leased(tables')
    BY <1>1, <1>2, <1>4
  <2> QED
    BY <1>2, <1>3, <2>1 DEF LeaseKept
<1>5. CASE i \in mine
  <2>1. lease.file = file /\ lease.socket_fd = fd /\ battery_fclose(file, fd) /\ mine = {i}
    <3>1. mine = {i}
      BY <1>1, <1>5, AtMostOneLease
    <3>2. mine # {}
      BY <1>5
    <3> HIDE DEF mine
    <3>3. lease.file = file /\ lease.socket_fd = fd
      BY <1>5 DEF mine, LeasesOf, HoldersOf
    <3> QED
      BY <3>1, <3>2, <3>3 DEF mine, stale_fclose
  <2>2. tables'.opened[i] = FreeOpened
    <3>1. i \in Slots /\ i \notin Leased(tables')
      BY <1>1, <1>2, <1>5 DEF Leased
    <3> QED
      BY <1>1, <3>1, SlotType DEF Leased, TablesOK
  <2>3. lease.file \in tables'.live <=> \E j \in Used \ {i} : tables.opened[j].file = lease.file
    <3>1. Leased(tables') = Used \ {i}
      BY <1>1, <1>2, <2>1
    <3> HIDE DEF lease
    <3> QED
      BY <1>2, <1>3, <3>1
  <2>4. tables'.leaked = tables.leaked
    <3>1. \A u \in Tables : [u EXCEPT !.live = IF mine = {} THEN @ ELSE @ \ {file}].leaked = u.leaked
      BY DEF Tables
    <3>2. DropLeases(tables, file, fd) \in Tables
          /\ DropLeases(tables, file, fd).leaked = tables.leaked
      BY <1>1, DropLeasesFacts
    <3>3. \A u \in Tables : CacheDelete(u, file) \in Tables /\ CacheDelete(u, file).leaked = u.leaked
      BY CacheDeleteLeaks
    <3> QED
      BY <1>1, <3>1, <3>2, <3>3 DEF Fclose, DropLeases
  <2> QED
    BY <2>1, <2>2, <2>3, <2>4 DEF LeaseGone
<1> QED
  BY <1>4, <1>5

\* battery_fclose takes a stream from nobody but its caller, and closes it for the
\* last one: not while another client has a slot for it, and not later.
THEOREM LastUserCloses == Spec => ClosedWithLastUser
<1>1. ASSUME Inv, Inv', [Next]_vars, NEW i \in Used
      PROVE  LeaseKept(i) \/ LeaseGone(i)
  <2>1. /\ disk \in [Names -> Sizes \cup {Absent}] /\ TablesOK(tables) /\ tables \in Tables
        /\ \A name \in Names : disk[name] # Absent => disk[name] \in Nat
        /\ \A name \in Names : NewStreams(name) \subseteq (Streams \ tables.live) \cup {NULL}
    BY <1>1, SizesAssumption DEF Inv, TypeOK, TablesOK, NewStreams
  <2>2. ASSUME NEW name \in Names, NEW fd \in Owners, NEW new \in NewStreams(name),
               disk[name] # Absent, tables' = Fopen(tables, name, fd, new, disk[name])
        PROVE  LeaseKept(i)
    <3>1. Kept(tables, tables')
      BY <2>1, <2>2, FopenEffect
    <3> QED
      BY <1>1, <3>1, KeptIsLive
  <2>3. ASSUME NEW name \in Names, file_exists(name)
        PROVE  LeaseKept(i)
    BY <2>2, <2>3 DEF file_exists, Owners
  <2>4. ASSUME NEW name \in Names, NEW fd \in Clients, battery_fopen(name, fd)
        PROVE  LeaseKept(i)
    BY <2>2, <2>4 DEF battery_fopen, Owners
  <2>5. ASSUME tables'.opened = tables.opened, tables'.cached = tables.cached
        PROVE  LeaseKept(i)
    <3>1. Kept(tables, tables')
      BY <2>5 DEF Kept, Leased, Cached
    <3> QED
      BY <1>1, <3>1, KeptIsLive
  <2>6. ASSUME NEW name \in Names, file_params(name)
        PROVE  LeaseKept(i)
    <3>1. tables'.opened = tables.opened /\ tables'.cached = tables.cached
      BY <2>1, <2>6 DEF file_params, FopenUnlisted, Tables
    <3> QED
      BY <2>5, <3>1
  <2>7. ASSUME NEW name \in Names, NEW size \in Sizes, Edit(name, size)
        PROVE  LeaseKept(i)
    BY <2>5, <2>7 DEF Edit
  <2>8. ASSUME NEW file \in Streams, NEW fd \in Clients,
               battery_fclose(file, fd) \/ stale_fclose(file, fd)
        PROVE  LeaseKept(i) \/ LeaseGone(i)
    BY <1>1, <2>8, FcloseTakesOne
  <2>9. CASE UNCHANGED vars
    BY <2>5, <2>9 DEF vars
  <2> QED
    BY <1>1, <2>3, <2>4, <2>6, <2>7, <2>8, <2>9 DEF Next
<1>2. Inv /\ Inv' /\ [Next]_vars =>
        [\A i \in Used :
           LET lease == tables.opened[i]
           IN \/ /\ tables'.opened[i] = lease
                 /\ lease.file \in tables'.live
              \/ /\ battery_fclose(lease.file, lease.socket_fd)
                 /\ tables'.opened[i] = FreeOpened
                 /\ lease.file \in tables'.live
                      <=> \E j \in Used \ {i} : tables.opened[j].file = lease.file
                 /\ tables'.leaked = tables.leaked]_vars
  BY <1>1, Zenon DEF LeaseKept, LeaseGone
<1> QED
  BY <1>2, TablesConsistent, PTL DEF Spec, ClosedWithLastUser

-----------------------------------------------------------------------------
(***************************************************************************)
(* OpenFiles implements FileStore: the two tables with their scans, their  *)
(* shared streams and the count of users in battery_fclose behave like a   *)
(* set of leases with one snapshot per file, closes of files that were not *)
(* opened included.  One condition: the content is cached (no sendfile).   *)
(***************************************************************************)

Pair(t, i) == <<t.opened[i].filename, t.opened[i].socket_fd>>
LeaseSetOf(t) == {Pair(t, i) : i \in Leased(t)}

SnapshotIn(t) == [n \in Names |-> IF CachedAs(t, n) = {} THEN 0
                                  ELSE t.cached[Last(CachedAs(t, n))].size]

-----------------------------------------------------------------------------
(* The snapshot of a name. *)

\* A cache entry is the snapshot of its name, and there is no other.
LEMMA SnapshotOfEntry ==
  ASSUME NEW t, TablesOK(t), NEW k \in Cached(t)
  PROVE  /\ t.cached[k].filename \in Names
         /\ CachedAs(t, t.cached[k].filename) = {k}
         /\ SnapshotIn(t)[t.cached[k].filename] = t.cached[k].size
         /\ t.cached[k].size \in Nat \ {0}
<1> DEFINE n == t.cached[k].filename
<1>1. t.cached[k] \in FileCache /\ n \in Names /\ t.cached[k].size \in Nat \ {0}
  BY SlotType DEF TablesOK, Cached, FileCache, FreeCached
<1>2. ASSUME NEW l \in CachedAs(t, n)
      PROVE  l = k
  <2>1. l \in Cached(t)
    BY <1>1, <1>2, SlotType, NullAssumption DEF TablesOK, CachedAs, Cached, FreeCached
  <2>2. t.cached[l].filename = n
    BY DEF CachedAs
  <2> HIDE DEF n
  <2>3. PICK i \in Leased(t) : t.opened[i].filename = n /\ t.opened[i].file = t.cached[l].file
    BY <2>1, <2>2 DEF TablesOK, LeasedCache
  <2>4. PICK j \in Leased(t) : t.opened[j].filename = n /\ t.opened[j].file = t.cached[k].file
    BY DEF TablesOK, LeasedCache, n
  <2>5. t.cached[l].file = t.cached[k].file
    BY <2>3, <2>4 DEF TablesOK, SharedStreams
  <2> QED
    BY <2>1, <2>5 DEF TablesOK, UniqueCache
<1>3. CachedAs(t, n) = {k}
  BY <1>2 DEF CachedAs, Cached
<1>4. Last(CachedAs(t, n)) = k
  BY <1>3, LastIsMember DEF CachedAs
<1> QED
  BY <1>1, <1>3, <1>4 DEF SnapshotIn

\* A name without a cache entry has no snapshot.
LEMMA NoSnapshot ==
  ASSUME NEW t, TablesOK(t), NEW n \in Names, \A k \in Cached(t) : t.cached[k].filename # n
  PROVE  CachedAs(t, n) = {} /\ SnapshotIn(t)[n] = 0
<1>1. CachedAs(t, n) = {}
  BY SlotType, NullAssumption DEF TablesOK, CachedAs, Cached, FreeCached
<1> QED
  BY <1>1 DEF SnapshotIn

-----------------------------------------------------------------------------
(* Each operation is a step of FileStore or changes nothing. *)

\* What Acquire does, for the client fd and a file of the given size.
Acquired(t, r, name, fd, size) ==
  /\ <<name, fd>> \notin LeaseSetOf(t)
  /\ LeaseSetOf(r) = LeaseSetOf(t) \cup {<<name, fd>>}
  /\ SnapshotIn(r) = [SnapshotIn(t) EXCEPT ![name] = IF @ = 0 THEN size ELSE @]

Unchanged(t, r) == LeaseSetOf(r) = LeaseSetOf(t) /\ SnapshotIn(r) = SnapshotIn(t)

\* CACHE_add takes the snapshot, unless there is one or there is no content.
LEMMA CacheAddSnapshot ==
  ASSUME NEW t, TablesOK(t), ~UseSendfile,
         NEW file \in Streams, NEW name \in Names, NEW size \in Nat,
         NEW k \in Slots, t.opened[k].filename = name, t.opened[k].file = file,
         CacheOf(t, NULL) # {}
  PROVE  SnapshotIn(CacheAdd(t, file, name, size)) =
           [SnapshotIn(t) EXCEPT ![name] = IF @ = 0 THEN size ELSE @]
<1> DEFINE c == Last(CacheOf(t, NULL))
           e == [filename |-> name, file |-> file, size |-> size]
           r == CacheAdd(t, file, name, size)
<1>0. t \in Tables
  BY DEF TablesOK
<1>1. TablesOK(r) /\ r \in Tables
  BY CacheAddOK DEF TablesOK
<1>2. CASE CachedAs(t, name) # {}
  <2>1. PICK l \in CachedAs(t, name) : TRUE
    BY <1>2
  <2>2. l \in Cached(t) /\ t.cached[l].filename = name
    BY <1>0, <2>1, SlotType, NullAssumption DEF CachedAs, Cached, FreeCached
  <2>3. SnapshotIn(t)[name] # 0
    BY <2>2, SnapshotOfEntry
  <2>4. r = t
    BY <1>2 DEF CacheAdd
  <2> QED
    BY <2>3, <2>4 DEF SnapshotIn
<1>3. CASE CachedAs(t, name) = {} /\ size = 0
  <2>1. r = t
    BY <1>3 DEF CacheAdd
  <2>2. SnapshotIn(t)[name] = 0
    BY <1>3 DEF SnapshotIn
  <2> QED
    BY <1>3, <2>1, <2>2 DEF SnapshotIn
<1>4. CASE CachedAs(t, name) = {} /\ size # 0
  <2>1. r = [t EXCEPT !.cached[c] = e]
    BY <1>4 DEF CacheAdd
  <2>2. c \in Slots /\ t.cached[c].file = NULL
    <3>1. c \in CacheOf(t, NULL)
      BY LastIsMember DEF CacheOf
    <3> QED
      BY <3>1 DEF CacheOf
  <2> HIDE DEF c
  <2>3. r.cached[c] = e /\ \A i \in Slots \ {c} : r.cached[i] = t.cached[i]
    BY <1>0, <2>1, <2>2 DEF Tables
  <2>4. t.cached[c].filename = NULL
    BY <1>0, <2>2, SlotType DEF FreeCached
  <2> HIDE DEF r
  <2>5. e.filename = name /\ e.file = file /\ e.size = size
    OBVIOUS
  <2> HIDE DEF e
  <2>6. c \in Cached(r) /\ SnapshotIn(r)[name] = size
    <3>1. c \in Cached(r)
      BY <2>2, <2>3, <2>5, NullAssumption DEF Cached
    <3> QED
      BY <1>1, <2>3, <2>5, <3>1, SnapshotOfEntry
  <2>7. SnapshotIn(t)[name] = 0
    BY <1>4 DEF SnapshotIn
  <2>8. ASSUME NEW n \in Names, n # name
        PROVE  SnapshotIn(r)[n] = SnapshotIn(t)[n]
    <3>1. CachedAs(r, n) = CachedAs(t, n)
      BY <2>2, <2>3, <2>4, <2>5, <2>8, NullAssumption DEF CachedAs
    <3>2. CASE CachedAs(t, n) = {}
      BY <3>1, <3>2 DEF SnapshotIn
    <3>3. CASE CachedAs(t, n) # {}
      <4>1. Last(CachedAs(t, n)) \in CachedAs(t, n)
        BY <3>3, LastIsMember DEF CachedAs
      <4>2. Last(CachedAs(t, n)) # c /\ Last(CachedAs(t, n)) \in Slots
        BY <2>4, <4>1, NullAssumption DEF CachedAs
      <4> QED
        BY <2>3, <3>1, <3>3, <4>2 DEF SnapshotIn
    <3> QED
      BY <3>2, <3>3
  <2> QED
    BY <2>6, <2>7, <2>8 DEF SnapshotIn, r
<1> QED
  BY <1>2, <1>3, <1>4

\* A client without a slot for the file acquires a lease if there is a slot.
LEMMA RegisterRefines ==
  ASSUME NEW t, TablesOK(t), ~UseSendfile,
         NEW file \in Streams, NEW name \in Names, NEW fd \in Owners, NEW size \in Nat,
         Matching(t, name, file), OwnSlots(t, name, fd) = {}
  PROVE  LET r == Register(t, file, name, fd, size)
         IN Unchanged(t, r) \/ Acquired(t, r, name, fd, size)
<1> DEFINE free == HoldersOf(t, NULL)
           k == First(free)
           a == AddLease(t, k, file, name, fd, size)
           r == Register(t, file, name, fd, size)
<1>0. t \in Tables
  BY DEF TablesOK
<1>1. CASE free = {}
  <2>1. r = t \/ r = [t EXCEPT !.leaked = @ + 1]
    BY <1>1 DEF Register
  <2>2. r.opened = t.opened /\ r.cached = t.cached
    BY <1>0, <2>1 DEF Tables
  <2> QED
    BY <2>2 DEF Unchanged, LeaseSetOf, Leased, Pair, SnapshotIn, CachedAs
<1>2. CASE free # {}
  <2>1. k \in Slots /\ t.opened[k].file = NULL
    <3>1. k \in free
      BY <1>2, FirstIsMember DEF HoldersOf
    <3> QED
      BY <3>1 DEF HoldersOf
  <2>2. r = CacheAdd(a, file, name, size)
    BY <1>2 DEF Register, AddLease
  <2> HIDE DEF k
  <2>3. \A i \in Leased(t) : ~(t.opened[i].filename = name /\ t.opened[i].socket_fd = fd)
    BY DEF OwnSlots, OpenedAs, Leased
  <2>4. TablesOK(a)
    BY <2>1, <2>3, AddLeaseOK
  <2>5. /\ a.opened = [t.opened EXCEPT ![k] =
             [filename |-> name, file |-> file, size |-> size, socket_fd |-> fd]]
        /\ a.cached = t.cached
    BY <1>0 DEF AddLease, Tables
  <2> HIDE DEF a
  <2>6. /\ a.opened[k].filename = name /\ a.opened[k].file = file
        /\ Pair(a, k) = <<name, fd>>
        /\ \A i \in Slots \ {k} : a.opened[i] = t.opened[i]
    BY <1>0, <2>1, <2>5 DEF Tables, Pair
  <2>7. Leased(a) = Leased(t) \cup {k} /\ k \notin Leased(t)
    BY <2>1, <2>6, NullAssumption DEF Leased
  <2>8. \A i \in Leased(t) : Pair(a, i) = Pair(t, i)
    BY <2>6, <2>7 DEF Pair, Leased
  <2>9. LeaseSetOf(a) = LeaseSetOf(t) \cup {<<name, fd>>}
    BY <2>6, <2>7, <2>8 DEF LeaseSetOf
  <2>10. <<name, fd>> \notin LeaseSetOf(t)
    BY <2>3 DEF LeaseSetOf, Pair
  <2>11. CacheOf(a, NULL) # {}
    BY <2>1, <2>5, CacheHasRoom DEF CacheOf
  <2>12. /\ r.opened = a.opened
         /\ SnapshotIn(r) = [SnapshotIn(a) EXCEPT ![name] = IF @ = 0 THEN size ELSE @]
    BY <2>1, <2>2, <2>4, <2>6, <2>11, CacheAddOK, CacheAddSnapshot
  <2>13. SnapshotIn(a) = SnapshotIn(t)
    BY <2>5 DEF SnapshotIn, CachedAs
  <2>14. LeaseSetOf(r) = LeaseSetOf(a)
    BY <2>12 DEF LeaseSetOf, Leased, Pair
  <2> QED
    BY <2>9, <2>10, <2>12, <2>13, <2>14 DEF Acquired
<1> QED
  BY <1>1, <1>2

\* battery_fopen with add_to_list = 1 acquires a lease or changes nothing.
LEMMA FopenRefines ==
  ASSUME NEW t, TablesOK(t), ~UseSendfile, NEW name \in Names, NEW fd \in Owners,
         NEW new \in (Streams \ t.live) \cup {NULL}, NEW size \in Nat
  PROVE  LET r == Fopen(t, name, fd, new, size)
         IN Unchanged(t, r) \/ Acquired(t, r, name, fd, size)
<1> DEFINE file == FopenResult(t, name, fd, new)
<1>1. CASE file = NULL \/ OwnSlots(t, name, fd) # {}
  BY <1>1 DEF Fopen, Unchanged
<1>2. CASE file # NULL /\ OwnSlots(t, name, fd) = {}
  <2>1. file \in Streams /\ Matching(t, name, file)
    BY <1>2, FopenResultMatches
  <2>2. Fopen(t, name, fd, new, size) = Register(t, file, name, fd, size)
    BY <1>2 DEF Fopen
  <2> HIDE DEF file
  <2> QED
    BY <1>2, <2>1, <2>2, RegisterRefines
<1> QED
  BY <1>1, <1>2

\* What Release does, for the client fd.
Released(t, r, name, fd) ==
  /\ <<name, fd>> \in LeaseSetOf(t)
  /\ LeaseSetOf(r) = LeaseSetOf(t) \ {<<name, fd>>}
  /\ SnapshotIn(r) = [SnapshotIn(t) EXCEPT
       ![name] = IF \E p \in Owners \ {fd} : <<name, p>> \in LeaseSetOf(t) THEN @ ELSE 0]

\* Two consistent tables with the same cache entry for a name, or none, have
\* the same snapshot of it.
LEMMA SameSnapshot ==
  ASSUME NEW t, TablesOK(t), NEW r, TablesOK(r), NEW n \in Names,
         \A k \in Slots : /\ k \in Cached(t) /\ t.cached[k].filename = n
                             => k \in Cached(r) /\ r.cached[k] = t.cached[k]
                          /\ k \in Cached(r) /\ r.cached[k].filename = n => k \in Cached(t)
                                                   /\ r.cached[k] = t.cached[k]
  PROVE  SnapshotIn(r)[n] = SnapshotIn(t)[n]
<1>1. CASE \E k \in Cached(t) : t.cached[k].filename = n
  <2>1. PICK k \in Cached(t) : t.cached[k].filename = n
    BY <1>1
  <2>2. k \in Cached(r) /\ r.cached[k] = t.cached[k]
    BY <2>1 DEF Cached
  <2> QED
    BY <2>1, <2>2, SnapshotOfEntry
<1>2. CASE \A k \in Cached(t) : t.cached[k].filename # n
  <2>1. \A k \in Cached(r) : r.cached[k].filename # n
    BY <1>2 DEF Cached
  <2> QED
    BY <1>2, <2>1, NoSnapshot
<1> QED
  BY <1>1, <1>2

\* battery_fclose by a client with a lease releases it; the count of users
\* tells whether somebody else still needs the snapshot.
LEMMA FcloseRefines ==
  ASSUME NEW t, TablesOK(t), ~UseSendfile, NEW file \in Streams, NEW fd \in Owners,
         NEW i \in LeasesOf(t, file, fd)
  PROVE  /\ t.opened[i].filename \in Names
         /\ Released(t, Fclose(t, file, fd), t.opened[i].filename, fd)
<1> DEFINE mine == LeasesOf(t, file, fd)
           holders == HoldersOf(t, file)
           n == t.opened[i].filename
           u == DropLeases(t, file, fd)
           c == CacheDelete(u, file)
           r == Fclose(t, file, fd)
           others == \E p \in Owners \ {fd} : <<n, p>> \in LeaseSetOf(t)
<1>1. t \in Tables
  BY DEF TablesOK
<1>2. /\ u \in Tables
      /\ u.cached = t.cached /\ u.live = t.live /\ u.leaked = t.leaked
      /\ Leased(u) = Leased(t) \ mine
      /\ \A j \in Leased(u) : u.opened[j] = t.opened[j]
  BY <1>1, DropLeasesFacts
<1>3. /\ i \in Leased(t) /\ t.opened[i].file = file /\ t.opened[i].socket_fd = fd
      /\ mine = {i} /\ holders \in SUBSET Slots
      /\ holders = {j \in Leased(t) : t.opened[j].file = file}
  BY AtMostOneLease, NullAssumption DEF HoldersOf, LeasesOf, Leased
<1>4. n \in Names /\ \A j \in Leased(t) : t.opened[j].filename = n <=> j \in holders
  <2>1. n \in Names
    BY <1>1, <1>3, SlotType DEF Leased, OpenedFile, FreeOpened
  <2> QED
    BY <1>3, <2>1 DEF TablesOK, SharedStreams
<1>5. TablesOK(r)
  BY FcloseOK
<1>6. UniqueCache(u)
  BY <1>2 DEF TablesOK, UniqueCache, Cached
<1>7. /\ c.opened = u.opened
      /\ Cached(c) = Cached(u) \ CacheOf(u, file)
      /\ \A k \in Cached(c) : c.cached[k] = u.cached[k]
      /\ c \in Tables
  BY <1>2, <1>6, CacheDeleteFacts
<1>8. r = IF Cardinality(holders) > 1 THEN u ELSE [c EXCEPT !.live = @ \ {file}]
  BY <1>3, NullAssumption DEF Fclose, DropLeases
<1>9. /\ r.opened = u.opened
      /\ r.cached = IF Cardinality(holders) > 1 THEN t.cached ELSE c.cached
  BY <1>2, <1>7, <1>8 DEF Tables
<1> HIDE DEF r, u, c
<1>10. Cached(u) = Cached(t)
  BY <1>2 DEF Cached
<1>11. <<n, fd>> \in LeaseSetOf(t)
  BY <1>3 DEF LeaseSetOf, Pair
<1>12. LeaseSetOf(r) = LeaseSetOf(t) \ {<<n, fd>>}
  <2>1. Leased(r) = Leased(t) \ {i} /\ \A j \in Leased(r) : Pair(r, j) = Pair(t, j)
    BY <1>2, <1>3, <1>9 DEF Leased, Pair
  <2>2. \A j \in Leased(t) : Pair(t, j) = <<n, fd>> <=> j = i
    BY <1>3 DEF Pair, TablesOK, UniqueLeases
  <2> QED
    BY <2>1, <2>2 DEF LeaseSetOf
<1>13. others <=> \E j \in holders : j # i
  <2>1. ASSUME NEW p \in Owners \ {fd}, <<n, p>> \in LeaseSetOf(t)
        PROVE  \E j \in holders : j # i
    <3>1. PICK j \in Leased(t) : t.opened[j].filename = n /\ t.opened[j].socket_fd = p
      BY <2>1 DEF LeaseSetOf, Pair
    <3> QED
      BY <1>3, <1>4, <3>1
  <2>2. ASSUME NEW j \in holders, j # i
        PROVE  others
    <3>1. j \in Leased(t) /\ t.opened[j].filename = n
      BY <1>3, <1>4
    <3>2. t.opened[j].socket_fd # fd
      BY <1>3, <2>2, <3>1 DEF TablesOK, UniqueLeases
    <3>3. t.opened[j].socket_fd \in Owners
      BY <1>1, <3>1, SlotType DEF Leased, OpenedFile, FreeOpened
    <3> QED
      BY <3>1, <3>2, <3>3 DEF LeaseSetOf, Pair
  <2> QED
    BY <2>1, <2>2
<1>14. Cardinality(holders) > 1 <=> others
  BY <1>3, <1>13, MoreThanOne
<1> HIDE DEF n, others
<1>15. SnapshotIn(r) = [SnapshotIn(t) EXCEPT ![n] = IF others THEN @ ELSE 0]
  <2>1. CASE others
    <3>1. r.cached = t.cached
      BY <1>9, <1>14, <2>1
    <3> QED
      BY <2>1, <3>1 DEF SnapshotIn, CachedAs
  <2>2. CASE ~others
    <3>1. r.cached = c.cached
      BY <1>9, <1>14, <2>2
    <3>2. Cached(r) = Cached(t) \ CacheOf(t, file) /\ \A k \in Cached(r) : r.cached[k] = t.cached[k]
      BY <1>2, <1>7, <1>10, <3>1 DEF Cached, CacheOf
    <3>3. \A k \in Cached(t) : k \in CacheOf(t, file) <=> t.cached[k].filename = n
      <4> TAKE k \in Cached(t)
      <4>1. PICK j \in Leased(t) : /\ t.opened[j].filename = t.cached[k].filename
                                   /\ t.opened[j].file = t.cached[k].file
        BY DEF TablesOK, LeasedCache
      <4> QED
        BY <1>3, <1>4, <4>1 DEF CacheOf, Cached
    <3>4. SnapshotIn(r)[n] = 0
      BY <1>4, <1>5, <3>2, <3>3, NoSnapshot DEF n
    <3>5. ASSUME NEW m \in Names, m # n
          PROVE  SnapshotIn(r)[m] = SnapshotIn(t)[m]
      BY <1>5, <3>2, <3>3, <3>5, SameSnapshot
    <3> QED
      BY <2>2, <3>4, <3>5 DEF SnapshotIn
  <2> QED
    BY <2>1, <2>2
<1> QED
  BY <1>4, <1>11, <1>12, <1>15 DEF Released, n, others, r

\* What Forget does, while o is the only one that has the file.
Forgotten(t, r, name, o) ==
  /\ <<name, o>> \in LeaseSetOf(t)
  /\ \A p \in Owners \ {o} : <<name, p>> \notin LeaseSetOf(t)
  /\ LeaseSetOf(r) = LeaseSetOf(t)
  /\ SnapshotIn(r) = [SnapshotIn(t) EXCEPT ![name] = 0]

\* battery_fclose by a client without a lease forgets the snapshot of a file
\* that one other client has, or changes nothing.
LEMMA StaleFcloseRefines ==
  ASSUME NEW t, TablesOK(t), ~UseSendfile, NEW file \in Streams, NEW fd \in Owners,
         LeasesOf(t, file, fd) = {}
  PROVE  LET r == Fclose(t, file, fd)
         IN \/ Unchanged(t, r)
            \/ \E n \in Names, o \in Owners : Forgotten(t, r, n, o)
<1> DEFINE holders == HoldersOf(t, file)
           u == DropLeases(t, file, fd)
           c == CacheDelete(u, file)
           r == Fclose(t, file, fd)
<1>1. t \in Tables
  BY DEF TablesOK
<1>2. /\ u \in Tables
      /\ u.cached = t.cached /\ u.live = t.live /\ u.leaked = t.leaked
      /\ Leased(u) = Leased(t)
      /\ \A j \in Leased(u) : u.opened[j] = t.opened[j]
  <2>1. Leased(u) = Leased(t) \ LeasesOf(t, file, fd)
    BY <1>1, DropLeasesFacts
  <2>2. Leased(u) = Leased(t)
    BY <2>1
  <2> QED
    BY <1>1, <2>2, DropLeasesFacts
<1>3. holders \in SUBSET Slots /\ holders = {j \in Leased(t) : t.opened[j].file = file}
  BY NullAssumption DEF HoldersOf, Leased
<1>4. TablesOK(r)
  BY FcloseOK
<1>5. Cached(u) = Cached(t) /\ CacheOf(u, file) = CacheOf(t, file) /\ UniqueCache(u)
  BY <1>2 DEF Cached, CacheOf, TablesOK, UniqueCache
<1>6. /\ c.opened = u.opened
      /\ Cached(c) = Cached(u) \ CacheOf(u, file)
      /\ \A k \in Cached(c) : c.cached[k] = u.cached[k]
      /\ c \in Tables
  BY <1>2, <1>5, CacheDeleteFacts
<1>7. r = IF Cardinality(holders) > 1 THEN u ELSE [c EXCEPT !.live = @]
  BY NullAssumption DEF Fclose, DropLeases
<1>8. /\ r.opened = u.opened
      /\ r.cached = IF Cardinality(holders) > 1 THEN t.cached ELSE c.cached
  BY <1>2, <1>6, <1>7 DEF Tables
<1> HIDE DEF r, u, c
<1>9. LeaseSetOf(r) = LeaseSetOf(t)
  <2>1. Leased(r) = Leased(t) /\ \A j \in Leased(r) : Pair(r, j) = Pair(t, j)
    BY <1>2, <1>8 DEF Leased, Pair
  <2> QED
    BY <2>1 DEF LeaseSetOf
<1>10. CASE Cardinality(holders) > 1
  <2>1. r.cached = t.cached
    BY <1>8, <1>10
  <2> QED
    BY <1>9, <2>1 DEF Unchanged, SnapshotIn, CachedAs, r
<1>11. CASE ~(Cardinality(holders) > 1) /\ CacheOf(t, file) = {}
  <2>1. /\ r.cached = c.cached
        /\ Cached(c) = Cached(t)
    BY <1>5, <1>6, <1>8, <1>11
  <2>2. Cached(r) = Cached(t) /\ \A k \in Cached(r) : r.cached[k] = t.cached[k]
    BY <1>2, <1>6, <2>1 DEF Cached
  <2>3. \A n \in Names : SnapshotIn(r)[n] = SnapshotIn(t)[n]
    BY <1>4, <2>2, SameSnapshot
  <2>4. SnapshotIn(r) = SnapshotIn(t)
    BY <2>3 DEF SnapshotIn
  <2> QED
    BY <1>9, <2>4 DEF Unchanged, r
<1>12. CASE ~(Cardinality(holders) > 1) /\ CacheOf(t, file) # {}
  <2>1. PICK k \in Cached(t) : t.cached[k].file = file
    BY <1>12, NullAssumption DEF CacheOf, Cached
  <2>2. PICK i \in Leased(t) : /\ t.opened[i].filename = t.cached[k].filename
                              /\ t.opened[i].file = file
    BY <2>1 DEF TablesOK, LeasedCache
  <2> DEFINE n == t.opened[i].filename
             o == t.opened[i].socket_fd
  <2>3. n \in Names /\ o \in Owners /\ <<n, o>> \in LeaseSetOf(t)
    BY <1>1, SlotType DEF Leased, OpenedFile, FreeOpened, LeaseSetOf, Pair
  <2>4. \A j \in Leased(t) : t.opened[j].filename = n <=> j = i
    <3>1. \A j \in Leased(t) : t.opened[j].filename = n <=> t.opened[j].file = file
      BY <2>2 DEF TablesOK, SharedStreams
    <3>2. \A x, y \in holders : x = y
      BY <1>3, <1>12, MoreThanOne
    <3> QED
      BY <1>3, <2>2, <3>1, <3>2
  <2>5. \A p \in Owners \ {o} : <<n, p>> \notin LeaseSetOf(t)
    BY <2>4 DEF LeaseSetOf, Pair
  <2>6. /\ Cached(r) = Cached(t) \ CacheOf(t, file)
        /\ \A l \in Cached(r) : r.cached[l] = t.cached[l]
    BY <1>2, <1>5, <1>6, <1>8, <1>12 DEF Cached
  <2>7. \A l \in Cached(t) : l \in CacheOf(t, file) <=> t.cached[l].filename = n
    <3> TAKE l \in Cached(t)
    <3>1. PICK j \in Leased(t) : /\ t.opened[j].filename = t.cached[l].filename
                                 /\ t.opened[j].file = t.cached[l].file
      BY DEF TablesOK, LeasedCache
    <3>2. t.opened[j].file = file <=> t.opened[j].filename = n
      BY <2>2 DEF TablesOK, SharedStreams
    <3> QED
      BY <3>1, <3>2 DEF CacheOf, Cached
  <2> HIDE DEF n, o
  <2>8. SnapshotIn(r)[n] = 0
    BY <1>4, <2>3, <2>6, <2>7, NoSnapshot
  <2>9. ASSUME NEW m \in Names, m # n
        PROVE  SnapshotIn(r)[m] = SnapshotIn(t)[m]
    BY <1>4, <2>6, <2>7, <2>9, SameSnapshot
  <2>10. SnapshotIn(r) = [SnapshotIn(t) EXCEPT ![n] = 0]
    BY <2>3, <2>8, <2>9 DEF SnapshotIn
  <2> QED
    BY <1>9, <2>3, <2>5, <2>10 DEF Forgotten, r
<1> QED
  BY <1>10, <1>11, <1>12

-----------------------------------------------------------------------------
(* The refinement. *)

\* The refinement mapping of OpenFiles, in terms of the tables' record.
LEMMA RefinedVariables ==
  /\ LeaseSet = LeaseSetOf(tables)
  /\ SnapshotOf = SnapshotIn(tables)
BY DEF LeaseSet, LeaseSetOf, Pair, Used, Leased, SnapshotOf, SnapshotIn

\* Empty tables are no leases and no snapshots.
LEMMA RefinesInit == Init => Store!Init
<1> SUFFICES ASSUME Init
             PROVE  Store!Init
  OBVIOUS
<1>1. \A n \in Names : CachedAs(tables, n) = {}
  BY NullAssumption DEF Init, EmptyTables, CachedAs, FreeCached
<1>2. LeaseSet = {}
  BY DEF Init, EmptyTables, LeaseSet, Used, FreeOpened
<1> QED
  BY <1>1, <1>2 DEF Init, Store!Init, SnapshotOf

\* Every call into files_io.c is one Acquire, Release, Forget or Edit of the
\* store, or changes nothing it shows.
LEMMA RefinesNext ==
  ASSUME ~UseSendfile
  PROVE  Inv /\ [Next]_vars => [Store!Next]_Store!vars
<1> SUFFICES ASSUME Inv, [Next]_vars
             PROVE  [Store!Next]_Store!vars
  OBVIOUS
<1>1. disk \in [Names -> Sizes \cup {Absent}] /\ TablesOK(tables)
  BY DEF Inv, TypeOK
<1>2. \A name \in Names : NewStreams(name) \subseteq (Streams \ tables.live) \cup {NULL}
  BY DEF NewStreams
<1>3. \A name \in Names : disk[name] # Absent => disk[name] \in Nat
  BY <1>1, SizesAssumption
<1>4. /\ LeaseSet = LeaseSetOf(tables) /\ SnapshotOf = SnapshotIn(tables)
      /\ LeaseSet' = LeaseSetOf(tables') /\ SnapshotOf' = SnapshotIn(tables')
  BY RefinedVariables DEF LeaseSet, LeaseSetOf, Pair, Used, Leased, SnapshotOf, SnapshotIn
<1>5. Unchanged(tables, tables') /\ UNCHANGED disk => UNCHANGED Store!vars
  BY <1>4 DEF Unchanged, Store!vars
<1>6. ASSUME NEW name \in Names, NEW fd \in Owners, disk[name] # Absent,
             NEW new \in NewStreams(name),
             tables' = Fopen(tables, name, fd, new, disk[name]), UNCHANGED disk
      PROVE  [Store!Next]_Store!vars
  <2>1. CASE Unchanged(tables, tables')
    BY <1>5, <1>6, <2>1
  <2>2. CASE Acquired(tables, tables', name, fd, disk[name])
    <3>1. Store!Acquire(name, fd)
      BY <1>4, <1>6, <2>2 DEF Store!Acquire, Acquired
    <3> QED
      BY <3>1 DEF Store!Next
  <2> QED
    BY <1>1, <1>2, <1>3, <1>6, <2>1, <2>2, FopenRefines
<1>7. ASSUME NEW name \in Names, file_exists(name)
      PROVE  [Store!Next]_Store!vars
  BY <1>6, <1>7 DEF file_exists, Owners
<1>8. ASSUME NEW name \in Names, NEW fd \in Clients, battery_fopen(name, fd)
      PROVE  [Store!Next]_Store!vars
  BY <1>6, <1>8 DEF battery_fopen, Owners
<1>9. ASSUME NEW name \in Names, file_params(name)
      PROVE  [Store!Next]_Store!vars
  <2>1. tables'.opened = tables.opened /\ tables'.cached = tables.cached
    BY <1>1, <1>9 DEF file_params, FopenUnlisted, TablesOK, Tables
  <2>2. Unchanged(tables, tables')
    BY <2>1 DEF Unchanged, LeaseSetOf, Leased, Pair, SnapshotIn, CachedAs
  <2> QED
    BY <1>5, <1>9, <2>2 DEF file_params
<1>10. ASSUME NEW name \in Names, NEW size \in Sizes, Edit(name, size)
       PROVE  [Store!Next]_Store!vars
  <2>1. LeaseSet' = LeaseSet /\ SnapshotOf' = SnapshotOf
    BY <1>4, <1>10 DEF Edit
  <2>2. Store!Edit(name)
    BY <1>10, <2>1 DEF Edit, Store!Edit
  <2> QED
    BY <2>2 DEF Store!Next
<1>11. ASSUME NEW file \in Streams, NEW fd \in Clients, battery_fclose(file, fd)
       PROVE  [Store!Next]_Store!vars
  <2>1. PICK i \in LeasesOf(tables, file, fd) : TRUE
    BY <1>11 DEF battery_fclose
  <2>2. /\ fd \in Owners /\ tables.opened[i].filename \in Names
        /\ Released(tables, tables', tables.opened[i].filename, fd)
    BY <1>1, <1>11, FcloseRefines DEF battery_fclose, Owners
  <2>3. Store!Release(tables.opened[i].filename, fd)
    BY <1>4, <1>11, <2>2 DEF Store!Release, Released, battery_fclose
  <2> QED
    BY <2>2, <2>3 DEF Store!Next
<1>12. ASSUME NEW file \in Streams, NEW fd \in Clients, stale_fclose(file, fd)
       PROVE  [Store!Next]_Store!vars
  <2>1. CASE Unchanged(tables, tables')
    BY <1>5, <1>12, <2>1 DEF stale_fclose
  <2>2. CASE \E n \in Names, o \in Owners : Forgotten(tables, tables', n, o)
    <3>1. PICK n \in Names, o \in Owners : Forgotten(tables, tables', n, o)
      BY <2>2
    <3>2. Store!Forget(n, o)
      BY <1>4, <1>12, <3>1 DEF Store!Forget, Forgotten, stale_fclose
    <3> QED
      BY <3>2 DEF Store!Next
  <2> QED
    BY <1>1, <1>12, <2>1, <2>2, StaleFcloseRefines DEF stale_fclose, Owners
<1>13. CASE UNCHANGED vars
  BY <1>4, <1>5, <1>13 DEF vars, Unchanged
<1> QED
  BY <1>7, <1>8, <1>9, <1>10, <1>11, <1>12, <1>13 DEF Next

\* The file table and the cache keep the promise of FileStore: whoever opens a
\* file keeps the content that was read when it was first opened, until the last
\* user closes it or a stranger's close is taken for it, whatever is written to
\* the file meanwhile.
THEOREM StoreImplemented ==
  ASSUME ~UseSendfile
  PROVE  Spec => ImplementsStore
<1>1. Inv /\ [Next]_vars => [Store!Next]_Store!vars
  BY RefinesNext
<1> QED
  BY <1>1, RefinesInit, TablesConsistent, PTL DEF Spec, ImplementsStore, Store!Spec
=============================================================================
