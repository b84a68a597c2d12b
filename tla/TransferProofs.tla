--------------------------- MODULE TransferProofs ---------------------------
(***************************************************************************)
(* Proofs about what clients receive and what is kept open for them, on    *)
(* top of TurnInv.  SourceInv says of every pending transfer that its file *)
(* can be read to the end and is the one that was asked for, LeaseInv that *)
(* no slot of the file table outlives its transfer.                        *)
(***************************************************************************)
EXTENDS ServerProofs

(***************************************************************************)
(* Who can have a slot of the file table: -133 for the index files, and    *)
(* every client for every file that can be asked for.  A client that finds *)
(* the table full is answered by 204, or reads through the slots of        *)
(* others; Roomy says that it is not full.                                 *)
(***************************************************************************)
Leasable == {p \in Names \X Owners :
               \/ p[2] = Probe /\ p[1] \in Indexes
               \/ p[2] \in Clients /\ \E req \in Requests : p[1] \in Asked(req)}

Roomy == IsFiniteSet(Leasable) /\ Cardinality(Leasable) <= MaxOpenFiles

\* Sizes in the table and the cache are those of the files, slots are held by
\* those who can have one, and what is read from the cache is there.
Accurate(t, d) ==
  /\ \A j \in Leased(t) : /\ t.opened[j].size = d[t.opened[j].filename]
                          /\ <<t.opened[j].filename, t.opened[j].socket_fd>> \in Leasable
  /\ \A k \in Cached(t) : t.cached[k].size = d[t.cached[k].filename]
  /\ ~UseSendfile => \A j \in Leased(t) : t.opened[j].size # 0 =>
                       CacheOf(t, t.opened[j].file) # {}

\* Everybody but fd keeps what is opened.
OthersLeases(t, r, fd) ==
  \A j \in Leased(t) : t.opened[j].socket_fd # fd => j \in Leased(r) /\ r.opened[j] = t.opened[j]

-----------------------------------------------------------------------------
(* The file table. *)

\* A used slot is one of a name, a stream and an owner.
LEMMA LeaseType ==
  ASSUME NEW t \in Tables, NEW j \in Leased(t)
  PROVE  /\ j \in Slots /\ t.opened[j] \in OpenedFile
         /\ t.opened[j].filename \in Names /\ t.opened[j].file \in Streams
         /\ t.opened[j].size \in Nat /\ t.opened[j].socket_fd \in Owners
BY SlotType DEF Leased, OpenedFile, FreeOpened

\* The slots of a client for a stream are used.
LEMMA LeasesUsed ==
  ASSUME NEW t \in Tables, NEW file, NEW fd \in Clients
  PROVE  LeasesOf(t, file, fd) =
           {j \in Leased(t) : t.opened[j].file = file /\ t.opened[j].socket_fd = fd}
<1>1. ASSUME NEW j \in Slots, t.opened[j].socket_fd = fd
      PROVE  t.opened[j].file # NULL
  BY <1>1, SlotType, ClientsAssumption DEF FreeOpened
<1> QED
  BY <1>1 DEF LeasesOf, HoldersOf, Leased

\* Whoever can have a slot and has none finds a free one.
LEMMA RoomForLease ==
  ASSUME NEW t, TablesOK(t), NEW d, Accurate(t, d), Roomy,
         NEW name, NEW fd, <<name, fd>> \in Leasable, OwnSlots(t, name, fd) = {}
  PROVE  HoldersOf(t, NULL) # {}
<1> SUFFICES ASSUME HoldersOf(t, NULL) = {}
             PROVE  FALSE
  OBVIOUS
<1> DEFINE p == <<name, fd>>
           others == Leasable \ {p}
           lease == [j \in Slots |-> <<t.opened[j].filename, t.opened[j].socket_fd>>]
<1>1. Leased(t) = Slots
  BY DEF HoldersOf, Leased
<1>2. \A j \in Slots : lease[j] \in others
  <2> TAKE j \in Slots
  <2>1. lease[j] \in Leasable
    BY <1>1 DEF Accurate
  <2>2. lease[j] # p
    BY DEF OwnSlots, OpenedAs
  <2> QED
    BY <2>1, <2>2
<1>3. lease \in [Slots -> others]
  BY <1>2
<1>4. IsFiniteSet(Slots) /\ Cardinality(Slots) = MaxOpenFiles
  BY FS_Interval, MaxOpenFilesAssumption DEF Slots
<1>5. /\ IsFiniteSet(others) /\ Cardinality(others) = Cardinality(Leasable) - 1
      /\ Cardinality(Leasable) \in Nat /\ Cardinality(Leasable) <= MaxOpenFiles
  <2>1. IsFiniteSet(Leasable) /\ Cardinality(Leasable) <= MaxOpenFiles /\ p \in Leasable
    BY DEF Roomy
  <2> QED
    BY <2>1, FS_RemoveElement, FS_CardinalityType
<1> HIDE DEF others, lease, p
<1>6. Cardinality(others) < Cardinality(Slots)
  BY <1>4, <1>5, MaxOpenFilesAssumption
<1>7. \E j, k \in Slots : j # k /\ lease[j] = lease[k]
  BY <1>3, <1>4, <1>5, <1>6, FS_PigeonHole
<1>8. PICK j \in Slots, k \in Slots : j # k /\ lease[j] = lease[k]
  BY <1>7
<1>9. /\ t.opened[j].filename = t.opened[k].filename
      /\ t.opened[j].socket_fd = t.opened[k].socket_fd
  BY <1>8 DEF lease
<1> QED
  BY <1>1, <1>8, <1>9 DEF TablesOK, UniqueLeases

\* battery_fopen with room for everybody: the caller has a slot, nobody loses
\* one, and sizes stay right.
LEMMA FopenAccurate ==
  ASSUME NEW t, TablesOK(t), NEW d, Accurate(t, d), Roomy,
         NEW name \in Names, NEW fd \in Owners, <<name, fd>> \in Leasable, d[name] \in Nat,
         NEW new, OpenedAs(t, name) = {} => new \in (Streams \ t.live) \cup {NULL}
  PROVE  LET r == Fopen(t, name, fd, new, d[name])
             file == FopenResult(t, name, fd, new)
         IN /\ Accurate(r, d) /\ Kept(t, r)
            /\ file # NULL => LeasesOf(r, file, fd) # {} /\ Matching(r, name, file)
<1> DEFINE size == d[name]
           r == Fopen(t, name, fd, new, size)
           file == FopenResult(t, name, fd, new)
           own == OwnSlots(t, name, fd)
<1>1. own = {} => HoldersOf(t, NULL) # {}
  BY RoomForLease
<1>2. /\ Kept(t, r) /\ Added(t, r, file, name, fd, size)
      /\ file # NULL => LeasesOf(r, file, fd) # {}
      /\ file # NULL /\ own = {} /\ ~UseSendfile /\ size # 0 => CacheOf(r, file) # {}
  BY <1>1, FopenEffect
<1>3. file = NULL \/ own # {} => r = t
  BY DEF Fopen
<1>4. file # NULL => Matching(t, name, file)
  BY FopenResultMatches
<1> HIDE DEF r, file, own
<1>5. ASSUME NEW j \in Leased(r)
      PROVE  /\ r.opened[j].size = d[r.opened[j].filename]
             /\ <<r.opened[j].filename, r.opened[j].socket_fd>> \in Leasable
  <2>1. CASE j \in Leased(t)
    BY <1>2, <2>1 DEF Kept, Accurate
  <2>2. CASE j \notin Leased(t)
    <3>1. /\ r.opened[j].filename = name /\ r.opened[j].size = size
          /\ r.opened[j].socket_fd = fd
      BY <1>2, <2>2 DEF Added
    <3> QED
      BY <3>1
  <2> QED
    BY <2>1, <2>2
<1>6. ASSUME NEW k \in Cached(r)
      PROVE  r.cached[k].size = d[r.cached[k].filename]
  <2>1. CASE k \in Cached(t)
    BY <1>2, <2>1 DEF Kept, Accurate
  <2>2. CASE k \notin Cached(t)
    <3>1. r.cached[k].filename = name /\ r.cached[k].size = size
      BY <1>2, <2>2 DEF Added
    <3> QED
      BY <3>1
  <2> QED
    BY <2>1, <2>2
<1>7. ASSUME ~UseSendfile, NEW j \in Leased(r), r.opened[j].size # 0
      PROVE  CacheOf(r, r.opened[j].file) # {}
  <2>1. CASE j \in Leased(t)
    <3>1. r.opened[j] = t.opened[j] /\ t.opened[j].file # NULL
      BY <1>2, <2>1 DEF Kept, Leased
    <3>2. PICK k \in Slots : t.cached[k].file = t.opened[j].file
      BY <1>7, <2>1, <3>1 DEF Accurate, CacheOf
    <3>3. k \in Cached(t)
      BY <3>1, <3>2 DEF Cached
    <3> QED
      BY <1>2, <3>1, <3>2, <3>3 DEF Kept, CacheOf
  <2>2. CASE j \notin Leased(t)
    <3>1. r.opened[j].file = file /\ r.opened[j].size = size
      BY <1>2, <2>2 DEF Added
    <3>2. file # NULL /\ own = {}
      BY <1>3, <2>2
    <3> QED
      BY <1>2, <1>7, <3>1, <3>2
  <2> QED
    BY <2>1, <2>2
<1>8. Accurate(r, d)
  BY <1>5, <1>6, <1>7 DEF Accurate
<1>9. file # NULL => Matching(r, name, file)
  BY <1>2, <1>4 DEF Matching, Kept, Added
<1> QED
  BY <1>2, <1>8, <1>9 DEF r, file

\* battery_fclose of a client that has a slot, or where nothing is cached.
LEMMA FcloseAccurate ==
  ASSUME NEW t, TablesOK(t), NEW d, Accurate(t, d), NEW file \in Streams \cup {NULL},
         NEW fd \in Owners,
         file # NULL /\ ~UseSendfile => LeasesOf(t, file, fd) # {}
  PROVE  LET r == Fclose(t, file, fd)
         IN Accurate(r, d) /\ OthersLeases(t, r, fd)
<1> DEFINE r == Fclose(t, file, fd)
           mine == LeasesOf(t, file, fd)
<1>1. CASE file = NULL
  BY <1>1 DEF Fclose, OthersLeases
<1>2. CASE file # NULL
  <2>1. /\ Leased(r) = Leased(t) \ mine
        /\ \A j \in Leased(r) : r.opened[j] = t.opened[j]
        /\ Cached(r) \subseteq Cached(t)
        /\ \A k \in Cached(r) : r.cached[k] = t.cached[k]
        /\ UseSendfile \/ mine # {} =>
             \A j \in Leased(r), k \in Cached(t) :
               t.cached[k].file = r.opened[j].file => k \in Cached(r)
    BY <1>2, FcloseEffect
  <2> HIDE DEF r, mine
  <2>2. ASSUME ~UseSendfile, NEW j \in Leased(r), r.opened[j].size # 0
        PROVE  CacheOf(r, r.opened[j].file) # {}
    <3>1. j \in Leased(t) /\ r.opened[j] = t.opened[j] /\ t.opened[j].file # NULL
      BY <2>1 DEF Leased
    <3>2. PICK k \in Slots : t.cached[k].file = t.opened[j].file
      BY <2>2, <3>1 DEF Accurate, CacheOf
    <3>3. k \in Cached(t)
      BY <3>1, <3>2 DEF Cached
    <3>4. k \in Cached(r)
      BY <1>2, <2>1, <2>2, <3>1, <3>2, <3>3 DEF mine
    <3> QED
      BY <2>1, <3>1, <3>2, <3>4 DEF CacheOf
  <2>3. Accurate(r, d)
    BY <2>1, <2>2 DEF Accurate
  <2>4. OthersLeases(t, r, fd)
    BY <2>1 DEF OthersLeases, mine, LeasesOf
  <2> QED
    BY <2>3, <2>4 DEF r
<1> QED
  BY <1>1, <1>2

\* A client that has one slot of send_d[], or none, has at most one file closed.
LEMMA FcloseAllIs ==
  ASSUME NEW w, SlotsMatch(w), NEW fd \in Clients
  PROVE  \/ FcloseAll(w, fd) = w.files /\ \A j \in SendSlots : w.send_d[j].socket_fd # fd
         \/ \E k \in SendSlots : /\ w.send_d[k].socket_fd = fd
                                 /\ FcloseAll(w, fd) = Fclose(w.files, w.send_d[k].file, fd)
<1>1. MaxClients \in Nat /\ fd # 0
  BY MaxClientsAssumption, ClientsAssumption
<1>2. PICK g : /\ g[0] = w.files
               /\ \A i \in SendSlots : g[i] = IF w.send_d[i].socket_fd = fd
                                              THEN Fclose(g[i-1], w.send_d[i].file, fd)
                                              ELSE g[i-1]
               /\ FcloseAll(w, fd) = g[MaxClients]
  BY FcloseAllRun
<1>3. ASSUME \A j \in SendSlots : w.send_d[j].socket_fd # fd
      PROVE  g[MaxClients] = w.files
  <2> DEFINE S == {n \in 0..MaxClients : g[n] # w.files}
  <2> SUFFICES ASSUME S # {}
               PROVE  FALSE
    BY <1>1
  <2>1. S \in SUBSET Nat
    BY <1>1
  <2>2. PICK m \in S : \A y \in S : m <= y
    BY <2>1, LeastElement
  <2>3. m # 0
    BY <1>2
  <2>4. m-1 \in 0..MaxClients /\ m-1 < m /\ m \in SendSlots
    BY <1>1, <2>3 DEF SendSlots
  <2>5. m-1 \notin S
    BY <2>2, <2>4
  <2> QED
    BY <1>2, <1>3, <2>4, <2>5
<1>4. ASSUME NEW k \in SendSlots, w.send_d[k].socket_fd = fd
      PROVE  g[MaxClients] = Fclose(w.files, w.send_d[k].file, fd)
  <2> DEFINE closed == Fclose(w.files, w.send_d[k].file, fd)
             S == {n \in 0..MaxClients : g[n] # IF n < k THEN w.files ELSE closed}
  <2>0. k \in 1..MaxClients /\ \A j \in SendSlots : w.send_d[j].socket_fd = fd => j = k
    BY <1>1, <1>4 DEF SlotsMatch, SendSlots
  <2>1. S = {}
    <3> SUFFICES ASSUME S # {}
                 PROVE  FALSE
      OBVIOUS
    <3>1. S \in SUBSET Nat
      BY <1>1
    <3>2. PICK m \in S : \A y \in S : m <= y
      BY <3>1, LeastElement
    <3>3. m # 0
      BY <1>2, <2>0
    <3>4. m-1 \in 0..MaxClients /\ m-1 < m /\ m \in SendSlots /\ m \in Nat
      BY <1>1, <3>3 DEF SendSlots
    <3>5. m-1 \notin S
      BY <3>2, <3>4
    <3>6. g[m-1] = IF m-1 < k THEN w.files ELSE closed
      BY <3>4, <3>5
    <3>7. g[m] # IF m < k THEN w.files ELSE closed
      BY <3>2
    <3> HIDE DEF S
    <3>8. CASE m = k
      <4>1. g[m-1] = w.files
        BY <2>0, <3>4, <3>6, <3>8
      <4>2. g[m] = Fclose(g[m-1], w.send_d[m].file, fd)
        BY <1>2, <1>4, <3>4, <3>8
      <4> QED
        BY <2>0, <3>7, <3>8, <4>1, <4>2
    <3>9. CASE m # k
      <4>1. g[m] = g[m-1]
        BY <1>2, <2>0, <3>4, <3>9
      <4> HIDE DEF closed
      <4> QED
        BY <2>0, <3>4, <3>6, <3>7, <3>9, <4>1
    <3> QED
      BY <3>8, <3>9
  <2> QED
    BY <1>1, <2>0, <2>1
<1>5. CASE \A j \in SendSlots : w.send_d[j].socket_fd # fd
  BY <1>2, <1>3, <1>5
<1>6. CASE \E k \in SendSlots : w.send_d[k].socket_fd = fd
  BY <1>2, <1>4, <1>6
<1> QED
  BY <1>5, <1>6
-----------------------------------------------------------------------------
(* SourceInv is invariant when, in addition to InTurn, nobody edits the    *)
(* files, the file table has room, and no client closes a file twice: a    *)
(* conditional request closes the file of an earlier transfer, whose slot  *)
(* keeps the stream, and when that is closed again the cache entry goes    *)
(* that others read from.                                                  *)

NoEdits == "edit" \notin Faults
NoStaleCloses == UseSendfile \/ \A req \in Requests : ~IsConditional(req)
Undisturbed == InTurn /\ NoEdits /\ Roomy /\ NoStaleCloses

\* A reply to a request without "Range" is never broken.
WholeFiles == \A req \in Requests : req.range = NoRange

\* Slot s of send_d[] for a client that has asked for req: the client's slot of
\* the file table is still there, and while the transfer is pending it is for
\* one of the files that may answer req, in its announced length.
SourceOK(t, s, req) ==
  /\ s.file # NULL /\ ~UseSendfile => LeasesOf(t, s.file, s.socket_fd) # {}
  /\ s.http_content_size > 0 =>
       \E l \in LeasesOf(t, s.file, s.socket_fd) : /\ t.opened[l].size = s.total_size
                                                   /\ t.opened[l].filename \in Asked(req)

SourceInv ==
  /\ TurnInv
  /\ Accurate(server.files, disk)
  /\ \A j \in SendSlots : server.send_d[j].socket_fd # 0 =>
       SourceOK(server.files, server.send_d[j], view[server.send_d[j].socket_fd].request)
  /\ WholeFiles => \A fd \in Clients : view[fd].ok

\* What others have open stays open.
LEMMA SourceKept ==
  ASSUME NEW t \in Tables, NEW r \in Tables, NEW fd, OthersLeases(t, r, fd),
         NEW s, s.socket_fd \in Clients \ {fd}, NEW req, SourceOK(t, s, req)
  PROVE  SourceOK(r, s, req)
<1>1. /\ LeasesOf(t, s.file, s.socket_fd) =
           {j \in Leased(t) : t.opened[j].file = s.file /\ t.opened[j].socket_fd = s.socket_fd}
      /\ LeasesOf(r, s.file, s.socket_fd) =
           {j \in Leased(r) : r.opened[j].file = s.file /\ r.opened[j].socket_fd = s.socket_fd}
  BY LeasesUsed
<1>2. \A l \in LeasesOf(t, s.file, s.socket_fd) :
        l \in LeasesOf(r, s.file, s.socket_fd) /\ r.opened[l] = t.opened[l]
  BY <1>1 DEF OthersLeases
<1> QED
  BY <1>2 DEF SourceOK

\* What is only added to is kept for everybody.
LEMMA KeptLeases ==
  ASSUME NEW t, NEW r, Kept(t, r), NEW fd
  PROVE  OthersLeases(t, r, fd)
BY DEF Kept, OthersLeases

\* Two steps.
LEMMA LeasesAfterBoth ==
  ASSUME NEW t, NEW u, NEW r, NEW fd, OthersLeases(t, u, fd), OthersLeases(u, r, fd)
  PROVE  OthersLeases(t, r, fd)
BY DEF OthersLeases

\* The client's slot of the file table is there, as far as it matters.
OwnLease(w, fd) ==
  \A j \in SendSlots : w.send_d[j].socket_fd = fd /\ w.send_d[j].file # NULL /\ ~UseSendfile
                         => LeasesOf(w.files, w.send_d[j].file, fd) # {}

\* SOCKET_disconnect_client closes what the client has open, and nothing of the
\* others.
LEMMA DisconnectSources ==
  ASSUME NEW w, NEW fd \in Clients, AlmostOK(w, fd), SlotsMatch(w),
         NEW d, Accurate(w.files, d), OwnLease(w, fd)
  PROVE  LET r == Disconnect(w, fd)
         IN Accurate(r.files, d) /\ OthersLeases(w.files, r.files, fd)
<1> DEFINE r == Disconnect(w, fd)
<1>1. r.files = FcloseAll(w, fd)
  BY DisconnectEffect
<1> HIDE DEF r
<1>2. CASE FcloseAll(w, fd) = w.files
  BY <1>1, <1>2 DEF OthersLeases, r
<1>3. CASE \E k \in SendSlots : /\ w.send_d[k].socket_fd = fd
                                /\ FcloseAll(w, fd) = Fclose(w.files, w.send_d[k].file, fd)
  <2>1. PICK k \in SendSlots : /\ w.send_d[k].socket_fd = fd
                               /\ FcloseAll(w, fd) = Fclose(w.files, w.send_d[k].file, fd)
    BY <1>3
  <2> DEFINE file == w.send_d[k].file
  <2>2. file \in Streams \cup {NULL} /\ TablesOK(w.files) /\ fd \in Owners
    BY DEF AlmostOK, Servers, SendInfo, Owners
  <2>3. file # NULL /\ ~UseSendfile => LeasesOf(w.files, file, fd) # {}
    BY <2>1 DEF OwnLease
  <2>4. r.files = Fclose(w.files, file, fd)
    BY <1>1, <2>1
  <2> HIDE DEF file
  <2>5. Accurate(r.files, d) /\ OthersLeases(w.files, r.files, fd)
    BY <2>2, <2>3, <2>4, FcloseAccurate
  <2> QED
    BY <2>5 DEF r
<1> QED
  BY <1>2, <1>3, FcloseAllIs

\* A handler that has run for one client.
LEMMA BecomeSources ==
  ASSUME SourceInv, TurnInv', NEW fd \in Clients, NEW r, NEW unread, NEW seen,
         Become(r, unread, seen), OthersKept(server, r, fd),
         \A c \in Clients \ {fd} : seen[c] = view[c],
         Accurate(r.files, disk), OthersLeases(server.files, r.files, fd),
         fd \in r.open => \A j \in SendSlots : r.send_d[j].socket_fd = fd =>
                            SourceOK(r.files, r.send_d[j], seen[fd].request),
         WholeFiles => seen[fd].ok
  PROVE  SourceInv'
<1>1. server' = r /\ disk' = disk /\ ServerOK(server') /\ SlotsMatch(server')
  <2>1. ServerOK(server)' /\ SlotsMatch(server)'
    BY DEF TurnInv, SlotInv, Inv
  <2> QED
    BY <2>1 DEF Become
<1>2. r \in Servers /\ r.files \in Tables /\ server \in Servers /\ server.files \in Tables
  BY <1>1 DEF ServerOK, TablesOK, SourceInv, TurnInv, SlotInv, Inv
<1>3. ASSUME NEW j \in SendSlots, r.send_d[j].socket_fd # 0
      PROVE  SourceOK(r.files, r.send_d[j], view'[r.send_d[j].socket_fd].request)
  <2> DEFINE c == r.send_d[j].socket_fd
  <2>1. c \in r.open
    BY <1>1, <1>3 DEF SlotsMatch
  <2>2. c \in Clients
    BY <1>2, <2>1 DEF Servers
  <2>3. view'[c] = seen[c]
    BY <2>1, <2>2 DEF Become
  <2>4. CASE c = fd
    BY <2>1, <2>3, <2>4
  <2>5. CASE c # fd
    <3>1. r.send_d[j] = server.send_d[j]
      BY <2>2, <2>5 DEF OthersKept
    <3>2. SourceOK(server.files, r.send_d[j], view[c].request)
      BY <1>3, <3>1 DEF SourceInv
    <3> HIDE DEF c
    <3>3. r.send_d[j].socket_fd \in Clients \ {fd}
      BY <2>2, <2>5 DEF c
    <3>4. SourceOK(r.files, r.send_d[j], view[c].request)
      BY <1>2, <3>2, <3>3, SourceKept
    <3> QED
      BY <2>2, <2>3, <2>5, <3>4 DEF c
  <2> QED
    BY <2>4, <2>5
<1>4. ASSUME WholeFiles, NEW c \in Clients
      PROVE  view'[c].ok
  <2>1. seen[c].ok
    BY <1>4 DEF SourceInv
  <2> DEFINE gone == [NewView EXCEPT !.ok = seen[c].ok]
  <2>2. gone.ok = seen[c].ok
    BY DEF NewView
  <2>3. view'[c] = IF c \in r.open THEN seen[c] ELSE gone
    BY DEF Become
  <2> HIDE DEF gone
  <2> QED
    BY <2>1, <2>2, <2>3
<1>5. Accurate(server'.files, disk')
  BY <1>1
<1>6. \A j \in SendSlots : server'.send_d[j].socket_fd # 0 =>
        SourceOK(server'.files, server'.send_d[j], view'[server'.send_d[j].socket_fd].request)
  BY <1>1, <1>3
<1>7. WholeFiles => \A c \in Clients : view'[c].ok
  BY <1>4
<1> QED
  BY <1>5, <1>6, <1>7 DEF SourceInv, Accurate, SourceOK, WholeFiles
\* As long as the transfer of a slot is not closed twice.
LEMMA OwnLeaseOf ==
  ASSUME SourceInv, NEW fd \in Clients
  PROVE  OwnLease(server, fd)
BY ClientsAssumption DEF SourceInv, SourceOK, OwnLease

\* A client that is gone.
LEMMA GoneSources ==
  ASSUME SourceInv, NEW fd \in Clients, ReceiveNothing(fd)
  PROVE  SourceInv'
<1> DEFINE r == Disconnect(server, fd)
<1>1. /\ ServerOK(server) /\ SlotsMatch(server) /\ TurnInv /\ Accurate(server.files, disk)
  BY DEF SourceInv, TurnInv, SlotInv, Inv
<1>2. TurnInv' /\ Become(r, inbox, view)
  BY <1>1, GoneTurns DEF ReceiveNothing
<1>3. OthersKept(server, r, fd) /\ r.open = server.open \ {fd}
  BY <1>1, DisconnectKeeps
<1>4. Accurate(r.files, disk) /\ OthersLeases(server.files, r.files, fd)
  <2>1. AlmostOK(server, fd) /\ OwnLease(server, fd)
    BY <1>1, OwnLeaseOf DEF AlmostOK, ServerOK
  <2> QED
    BY <1>1, <2>1, DisconnectSources
<1>5. WholeFiles => view[fd].ok
  BY DEF SourceInv
<1> HIDE DEF r
<1> QED
  BY <1>2, <1>3, <1>4, <1>5, BecomeSources

\* A new connection: its slot is empty.
LEMMA AcceptSources ==
  ASSUME SourceInv, FewConnections, NEW fd \in Clients, Accept(fd)
  PROVE  SourceInv'
<1> DEFINE r == AddSendStruct([server EXCEPT !.http_conn_count = @ + 1,
                                             !.open = @ \cup {fd}], fd)
           s == [FreeSend EXCEPT !.socket_fd = fd]
<1>1. /\ ServerOK(server) /\ SlotsMatch(server) /\ TurnInv
      /\ fd \notin server.open /\ HasRoom(server) /\ fd # 0
  BY ClientsAssumption DEF SourceInv, TurnInv, SlotInv, Inv, Accept
<1>2. /\ r.files = server.files
      /\ \E k \in SendSlots :
           /\ server.send_d[k] = FreeSend
           /\ r.send_d[k] = s
           /\ \A j \in SendSlots \ {k} : r.send_d[j] = server.send_d[j]
  BY <1>1, AcceptedMatches, ZenonT(40)
<1>3. s.file = NULL /\ s.http_content_size = 0 /\ s.socket_fd = fd
  BY DEF FreeSend
<1>4. /\ server' = r /\ disk' = disk /\ view' = [view EXCEPT ![fd] = NewView]
      /\ view \in [Clients -> Views] /\ server \in Servers
  BY <1>1 DEF Accept, TurnInv, SlotInv, Inv, TypeOK, Views
<1> HIDE DEF r, s
<1>5. PICK k \in SendSlots : /\ server.send_d[k] = FreeSend
                             /\ r.send_d[k] = s
                             /\ \A j \in SendSlots \ {k} : r.send_d[j] = server.send_d[j]
  BY <1>2
<1>6. ASSUME NEW j \in SendSlots, r.send_d[j].socket_fd # 0
      PROVE  SourceOK(r.files, r.send_d[j], view'[r.send_d[j].socket_fd].request)
  <2>1. CASE j = k
    BY <1>3, <1>5, <2>1 DEF SourceOK
  <2>2. CASE j # k
    <3>1. r.send_d[j] = server.send_d[j] /\ server.send_d[j].socket_fd \in server.open
      BY <1>1, <1>5, <1>6, <2>2 DEF SlotsMatch
    <3> DEFINE c == server.send_d[j].socket_fd
    <3>2. c \in Clients \ {fd}
      BY <1>1, <1>4, <3>1 DEF Servers
    <3> HIDE DEF c
    <3>3. view'[c] = view[c]
      BY <1>4, <3>2
    <3>4. SourceOK(server.files, server.send_d[j], view[c].request)
      BY <1>6, <3>1 DEF SourceInv, c
    <3> QED
      BY <1>2, <3>1, <3>3, <3>4 DEF c
  <2> QED
    BY <2>1, <2>2
<1>7. WholeFiles => \A c \in Clients : view'[c].ok
  <2>1. NewView.ok
    BY DEF NewView
  <2> QED
    BY <1>4, <2>1 DEF SourceInv
<1>8. Accurate(server'.files, disk')
  BY <1>2, <1>4 DEF SourceInv
<1>9. \A j \in SendSlots : server'.send_d[j].socket_fd # 0 =>
        SourceOK(server'.files, server'.send_d[j], view'[server'.send_d[j].socket_fd].request)
  BY <1>4, <1>6
<1>10. TurnInv'
  BY <1>1, AcceptTurns
<1> QED
  BY <1>7, <1>8, <1>9, <1>10 DEF SourceInv, Accurate, SourceOK, WholeFiles

\* A client's own slots are kept too when tables are only added to.
LEMMA LeasesKept ==
  ASSUME NEW t \in Tables, NEW r, Kept(t, r), NEW file, NEW fd \in Clients
  PROVE  LeasesOf(t, file, fd) \subseteq LeasesOf(r, file, fd)
<1>1. LeasesOf(t, file, fd) =
        {j \in Leased(t) : t.opened[j].file = file /\ t.opened[j].socket_fd = fd}
  BY LeasesUsed
<1> QED
  BY <1>1 DEF Kept, Leased, LeasesOf, HoldersOf

\* What is looked up for a request is only added.
LEMMA LookedSources ==
  ASSUME NEW w, ServerOK(w), NEW d \in [Names -> Nat \cup {Absent}], NEW req \in Request,
         NEW f \in Streams \ w.files.live, Accurate(w.files, d), Roomy
  PROVE  LET v == PinIndex(w, d, req, f)
             u == Looked(w, d, req, f)
         IN /\ Accurate(v.files, d) /\ Kept(w.files, v.files)
            /\ Accurate(u.files, d) /\ Kept(w.files, u.files)
<1> DEFINE v == PinIndex(w, d, req, f)
           u == Looked(w, d, req, f)
           name == RequestedName(w, d, req, f)
<1>1. /\ u.files.opened = v.files.opened /\ u.files.cached = v.files.cached
      /\ \/ v = w
         \/ /\ name \in Names /\ d[name] \in Nat /\ name \in Indexes
            /\ v.files = Fopen(w.files, name, Probe, Fresh(w, f), d[name])
  BY LookedOK
<1>2. TablesOK(w.files) /\ Probe \in Owners
  BY DEF ServerOK, Owners
<1>3. Fresh(w, f) \in (Streams \ w.files.live) \cup {NULL}
  BY DEF Fresh
<1> HIDE DEF u, v, name
<1>4. Accurate(v.files, d) /\ Kept(w.files, v.files)
  <2>1. CASE v = w
    BY <2>1 DEF Kept
  <2>2. CASE /\ name \in Names /\ d[name] \in Nat /\ name \in Indexes
             /\ v.files = Fopen(w.files, name, Probe, Fresh(w, f), d[name])
    <3>1. <<name, Probe>> \in Leasable
      BY <1>2, <2>2 DEF Leasable
    <3> QED
      BY <1>2, <1>3, <2>2, <3>1, FopenAccurate, SMTT(40)
  <2> QED
    BY <1>1, <2>1, <2>2
<1>5. /\ Leased(u.files) = Leased(v.files) /\ Cached(u.files) = Cached(v.files)
      /\ \A file : CacheOf(u.files, file) = CacheOf(v.files, file)
  BY <1>1 DEF Leased, Cached, CacheOf
<1>6. Accurate(u.files, d) /\ Kept(w.files, u.files)
  BY <1>1, <1>4, <1>5 DEF Accurate, Kept
<1> QED
  BY <1>4, <1>6 DEF u, v
\* Every slot of the table for a stream has the name and the size of its file.
LEMMA LeaseSizes ==
  ASSUME NEW t \in Tables, NEW d, Accurate(t, d), NEW name, NEW file \in Streams,
         Matching(t, name, file), NEW l \in HoldersOf(t, file)
  PROVE  /\ t.opened[l].filename = name /\ t.opened[l].size = d[name]
         /\ Ftell(t, file) = d[name]
<1> DEFINE S == HoldersOf(t, file)
<1>1. \A j \in S : j \in Leased(t) /\ t.opened[j].file = file
  BY NullAssumption DEF HoldersOf, Leased
<1>2. \A j \in S : t.opened[j].filename = name /\ t.opened[j].size = d[name]
  BY <1>1 DEF Matching, Accurate
<1>3. First(S) \in S
  BY FirstIsMember DEF HoldersOf
<1> QED
  BY <1>2, <1>3 DEF Ftell

\* RESPONSE_file: a transfer that begins has its slot of the file table, with
\* the length that is announced.
LEMMA FileSources ==
  ASSUME NEW u, ServerOK(u), SlotsMatch(u), NEW d, Accurate(u.files, d),
         Roomy, NoStaleCloses, NEW fd \in Clients, fd \in u.open, OwnLease(u, fd),
         \A j \in SendSlots : u.send_d[j].socket_fd = fd => ~(u.send_d[j].http_content_size > 0),
         NEW req \in Requests, NEW name \in Names, name \in Asked(req), NEW f,
         OpenedAs(u.files, name) = {} => Fresh(u, f) \in (Streams \ u.files.live) \cup {NULL},
         NEW p, FileOutcome(p, u, d, fd, req, name, f)
  PROVE  LET r == p.server
         IN /\ Accurate(r.files, d) /\ OthersLeases(u.files, r.files, fd)
            /\ \A j \in SendSlots : r.send_d[j].socket_fd = fd =>
                 SourceOK(r.files, r.send_d[j], req)
            /\ p.body = "broken" => req.range # NoRange
<1> DEFINE r == p.server
           o == Opened(u, d, fd, name, f)
           file == FopenResult(u.files, name, fd, Fresh(u, f))
           c == [o EXCEPT !.files = Fclose(@, file, fd)]
<1>1. file # NULL /\ d[name] \in Nat
  BY DEF FileOutcome
<1>2. /\ ServerOK(o) /\ SameSlots(u, o)
      /\ o.files = Fopen(u.files, name, fd, Fresh(u, f), d[name])
      /\ SameSlots(o, c) /\ c.files = Fclose(o.files, file, fd)
      /\ file \in Streams
  BY <1>1, OpenedOK
<1>3. fd \in Owners /\ TablesOK(u.files) /\ <<name, fd>> \in Leasable
  BY DEF Owners, ServerOK, Leasable
<1>4. /\ Accurate(o.files, d) /\ Kept(u.files, o.files)
      /\ LeasesOf(o.files, file, fd) # {} /\ Matching(o.files, name, file)
  BY <1>1, <1>2, <1>3, FopenAccurate
<1>5. \/ IsConditional(req) /\ p.body = "sent" /\ r = c
      \/ r = o /\ (p.body = "broken" => req.range # NoRange)
      \/ /\ p.body = "later" /\ p.length = Ftell(o.files, file)
         /\ r = StartTransfer(o, fd, file, p.length, KeepAlive(req))
  BY DEF FileOutcome
<1> HIDE DEF r, o, file, c
<1>6. /\ TablesOK(o.files) /\ o.files \in Tables /\ u.files \in Tables /\ o \in Servers
      /\ SlotsMatch(o) /\ fd \in o.open
  BY <1>2, <1>3 DEF ServerOK, TablesOK, SameSlots, SlotsMatch
<1>7. OthersLeases(u.files, o.files, fd)
  BY <1>4, KeptLeases
<1>8. \A g : LeasesOf(u.files, g, fd) \subseteq LeasesOf(o.files, g, fd)
  BY <1>4, <1>6, LeasesKept
<1>9. CASE IsConditional(req) /\ p.body = "sent" /\ r = c
  <2>1. UseSendfile
    BY <1>9 DEF NoStaleCloses
  <2>2. Accurate(r.files, d) /\ OthersLeases(o.files, r.files, fd)
    BY <1>2, <1>3, <1>4, <1>6, <1>9, <2>1, FcloseAccurate
  <2>3. OthersLeases(u.files, r.files, fd)
    BY <1>7, <2>2, LeasesAfterBoth
  <2>4. r.send_d = u.send_d
    BY <1>2, <1>9 DEF SameSlots
  <2> QED
    BY <1>9, <2>1, <2>2, <2>3, <2>4 DEF r, SourceOK
<1>10. CASE r = o /\ (p.body = "broken" => req.range # NoRange)
  <2>1. r.send_d = u.send_d
    BY <1>2, <1>10 DEF SameSlots
  <2>2. \A j \in SendSlots : r.send_d[j].socket_fd = fd => SourceOK(r.files, r.send_d[j], req)
    BY <1>8, <1>10, <2>1 DEF SourceOK, OwnLease
  <2> QED
    BY <1>4, <1>7, <1>10, <2>2 DEF r
<1>11. CASE /\ p.body = "later" /\ p.length = Ftell(o.files, file)
            /\ r = StartTransfer(o, fd, file, p.length, KeepAlive(req))
  <2> DEFINE s == [file |-> file, http_content_size |-> p.length, sent_size |-> 0,
                   socket_fd |-> fd, total_size |-> p.length, keep_alive |-> KeepAlive(req)]
  <2>1. /\ r.files = o.files
        /\ \E k \in SendSlots : /\ o.send_d[k].socket_fd = fd
                                /\ r.send_d[k] = s
                                /\ \A j \in SendSlots \ {k} : /\ o.send_d[j].socket_fd # fd
                                                              /\ r.send_d[j] = o.send_d[j]
    BY <1>6, <1>11, StartTransferEffect
  <2>2. s.file = file /\ s.socket_fd = fd /\ s.total_size = p.length
    OBVIOUS
  <2> HIDE DEF s
  <2>3. PICK l \in LeasesOf(o.files, file, fd) : TRUE
    BY <1>4
  <2>4. l \in HoldersOf(o.files, file)
    BY <2>3 DEF LeasesOf
  <2>5. o.files.opened[l].filename = name /\ o.files.opened[l].size = p.length
    BY <1>2, <1>4, <1>6, <1>11, <2>4, LeaseSizes
  <2>6. SourceOK(r.files, s, req)
    BY <1>4, <2>1, <2>2, <2>3, <2>5 DEF SourceOK
  <2>7. \A j \in SendSlots : r.send_d[j].socket_fd = fd => r.send_d[j] = s
    BY <2>1
  <2> QED
    BY <1>4, <1>7, <1>11, <2>1, <2>6, <2>7 DEF r
<1> QED
  BY <1>5, <1>9, <1>10, <1>11
\* SESSION_prepare, for a client that nothing is pending for.
LEMMA PrepareSources ==
  ASSUME NEW w, ServerOK(w), SlotsMatch(w), NEW d \in [Names -> Nat \cup {Absent}],
         Accurate(w.files, d), Roomy, NoStaleCloses,
         NEW fd \in Clients, fd \in w.open, OwnLease(w, fd),
         \A j \in SendSlots : w.send_d[j].socket_fd = fd => ~(w.send_d[j].http_content_size > 0),
         NEW req \in Requests, NEW f \in Streams \ w.files.live
  PROVE  LET p == SESSION_prepare(w, d, fd, req, f, 3)
             r == p.server
         IN /\ Accurate(r.files, d) /\ OthersLeases(w.files, r.files, fd)
            /\ fd \in r.open => \A j \in SendSlots : r.send_d[j].socket_fd = fd =>
                                  SourceOK(r.files, r.send_d[j], req)
            /\ p.body = "broken" => p.status = Silent \/ req.range # NoRange
<1> DEFINE v == PinIndex(w, d, req, f)
           u == Looked(w, d, req, f)
           name == RequestedName(w, d, req, f)
           p == SESSION_prepare(w, d, fd, req, f, 3)
           r == p.server
<1>1. req \in Request
  BY RequestsAssumption
<1>2. name \in Names /\ name \in Asked(req)
  BY <1>1, RequestedNameType, RequestedIsAsked
<1>3. /\ ServerOK(v) /\ SameSlots(w, v) /\ ServerOK(u) /\ SameSlots(w, u)
      /\ OpenedAs(u.files, name) = {} => Fresh(u, f) \in (Streams \ u.files.live) \cup {NULL}
  BY <1>1, LookedOK
<1>4. /\ Accurate(v.files, d) /\ Kept(w.files, v.files)
      /\ Accurate(u.files, d) /\ Kept(w.files, u.files)
  BY <1>1, LookedSources
<1>5. Outcome(p, w, d, fd, req, f)
  BY <1>1, PrepareOutcome
<1> HIDE DEF p, v, u, name
<1>6. w.files \in Tables
  BY DEF ServerOK, TablesOK
<1>7. ASSUME NEW z, SameSlots(w, z), Accurate(z.files, d), Kept(w.files, z.files)
      PROVE  /\ OthersLeases(w.files, z.files, fd) /\ OwnLease(z, fd)
             /\ \A j \in SendSlots : z.send_d[j].socket_fd = fd =>
                  ~(z.send_d[j].http_content_size > 0) /\ SourceOK(z.files, z.send_d[j], req)
  <2>1. OthersLeases(w.files, z.files, fd)
    BY <1>7, KeptLeases
  <2>2. \A g : LeasesOf(w.files, g, fd) \subseteq LeasesOf(z.files, g, fd)
    BY <1>6, <1>7, LeasesKept
  <2>3. OwnLease(z, fd)
    BY <1>7, <2>2 DEF OwnLease, SameSlots
  <2> QED
    BY <1>7, <2>1, <2>3 DEF OwnLease, SameSlots, SourceOK
<1>8. CASE r \in {v, u} /\ (p.status = Silent \/ p.body = "sent")
  <2>1. SameSlots(w, r) /\ Accurate(r.files, d) /\ Kept(w.files, r.files)
    BY <1>3, <1>4, <1>8
  <2> HIDE DEF r
  <2>2. /\ OthersLeases(w.files, r.files, fd)
        /\ \A j \in SendSlots : r.send_d[j].socket_fd = fd => SourceOK(r.files, r.send_d[j], req)
    BY <1>7, <2>1
  <2> QED
    BY <1>8, <2>1, <2>2 DEF r, p
<1>9. CASE p.body = "sent" /\ r = Disconnect(v, fd)
  <2>1. OthersLeases(w.files, v.files, fd) /\ OwnLease(v, fd) /\ SlotsMatch(v)
    BY <1>3, <1>4, <1>7 DEF SameSlots, SlotsMatch
  <2>2. Accurate(r.files, d) /\ OthersLeases(v.files, r.files, fd)
    <3>1. AlmostOK(v, fd)
      BY <1>3 DEF AlmostOK, ServerOK
    <3> QED
      BY <1>4, <1>9, <2>1, <3>1, DisconnectSources
  <2>3. fd \notin r.open
    <3>1. Disconnect(v, fd).open = v.open \ {fd}
      BY DisconnectEffect
    <3> QED
      BY <1>9, <3>1
  <2>4. OthersLeases(w.files, r.files, fd)
    BY <2>1, <2>2, LeasesAfterBoth
  <2> QED
    BY <1>9, <2>2, <2>3, <2>4 DEF p
<1>10. CASE FileOutcome(p, u, d, fd, req, name, f)
  <2>1. /\ OthersLeases(w.files, u.files, fd) /\ OwnLease(u, fd)
        /\ \A j \in SendSlots : u.send_d[j].socket_fd = fd => ~(u.send_d[j].http_content_size > 0)
    BY <1>3, <1>4, <1>7
  <2>2. /\ SlotsMatch(u) /\ fd \in u.open /\ ServerOK(u) /\ Accurate(u.files, d)
        /\ OpenedAs(u.files, name) = {} => Fresh(u, f) \in (Streams \ u.files.live) \cup {NULL}
    BY <1>3, <1>4 DEF SameSlots, SlotsMatch
  <2>3. /\ name \in Names /\ name \in Asked(req) /\ FileOutcome(p, u, d, fd, req, name, f)
        /\ fd \in u.open /\ OwnLease(u, fd) /\ ServerOK(u) /\ SlotsMatch(u)
        /\ Accurate(u.files, d) /\ Roomy /\ NoStaleCloses
        /\ \A j \in SendSlots : u.send_d[j].socket_fd = fd => ~(u.send_d[j].http_content_size > 0)
        /\ OpenedAs(u.files, name) = {} => Fresh(u, f) \in (Streams \ u.files.live) \cup {NULL}
    BY <1>2, <1>10, <2>1, <2>2
  <2> HIDE DEF r
  <2>4. Accurate(r.files, d) /\ OthersLeases(u.files, r.files, fd)
    BY <2>3, FileSources DEF r
  <2>5. \A j \in SendSlots : r.send_d[j].socket_fd = fd => SourceOK(r.files, r.send_d[j], req)
    BY <2>3, FileSources DEF r
  <2>6. p.body = "broken" => req.range # NoRange
    BY <2>3, FileSources, SMTT(40)
  <2>7. OthersLeases(w.files, r.files, fd)
    BY <2>1, <2>4, LeasesAfterBoth
  <2> QED
    BY <2>4, <2>5, <2>6, <2>7 DEF p, r
<1>11. \/ p.status = Silent /\ r \in {v, u}
       \/ p.body = "sent" /\ r = Disconnect(v, fd)
       \/ p.body = "sent" /\ r \in {v, u}
       \/ FileOutcome(p, u, d, fd, req, name, f)
  BY <1>5 DEF Outcome, v, u, name
<1> QED
  BY <1>8, <1>9, <1>10, <1>11

\* A request that is received.
LEMMA ReceiveSources ==
  ASSUME SourceInv, Undisturbed, NEW fd \in Clients, ReceiveRequest(fd) \/ ReceivePart(fd)
  PROVE  SourceInv'
<1> DEFINE req == inbox[fd]
           v == view[fd]
<1>1. TurnInv /\ InTurn /\ SlotInv /\ NoResets /\ Roomy /\ NoStaleCloses
  BY DEF SourceInv, Undisturbed, TurnInv, InTurn, NoResets
<1>2. /\ fd \in server.open /\ req \in Requests /\ v.phase = "wait" /\ v.request = req
      /\ Process(fd, req, NoRequest) /\ TurnInv'
  BY <1>1, TurnsOf, ReceiveTurns
<1>3. PICK f \in Streams \ server.files.live :
        LET p == SESSION_prepare(server, disk, fd, req, f, 3)
        IN Become(p.server, [inbox EXCEPT ![fd] = NoRequest],
                  [view EXCEPT ![fd] = Answered(@, p)])
  BY <1>1, <1>2, ProcessIs
<1> DEFINE p == SESSION_prepare(server, disk, fd, req, f, 3)
           r == p.server
           a == Answered(v, p)
           unread == [inbox EXCEPT ![fd] = NoRequest]
           seen == [view EXCEPT ![fd] = a]
<1>4. /\ ServerOK(server) /\ SlotsMatch(server) /\ disk \in [Names -> Nat \cup {Absent}]
      /\ view \in [Clients -> Views] /\ Accurate(server.files, disk)
  BY <1>1 DEF SlotInv, Inv, TypeOK, Views, SourceInv
<1>5. OwnLease(server, fd)
  BY OwnLeaseOf
<1>6. \A j \in SendSlots : server.send_d[j].socket_fd = fd
                             => ~(server.send_d[j].http_content_size > 0)
  BY <1>1, <1>2 DEF TurnInv, Conversation, ViewMatches
<1>7. /\ Accurate(r.files, disk) /\ OthersLeases(server.files, r.files, fd)
      /\ fd \in r.open => \A j \in SendSlots : r.send_d[j].socket_fd = fd =>
                            SourceOK(r.files, r.send_d[j], req)
      /\ p.body = "broken" => p.status = Silent \/ req.range # NoRange
  BY <1>1, <1>2, <1>4, <1>5, <1>6, PrepareSources
<1>8. OthersKept(server, r, fd)
  BY <1>2, <1>4, RequestsAssumption, PrepareKeeps
<1>9. Become(r, unread, seen)
  BY <1>3
<1>10. a = IF p.status = Silent THEN v
           ELSE [v EXCEPT !.phase  = IF p.body = "later" /\ v.request.method # "HEAD"
                                     THEN "body" ELSE "idle",
                          !.status = p.status, !.length = p.length, !.got = 0,
                          !.ok     = @ /\ v.phase = "wait" /\ p.body # "broken"]
  BY Zenon DEF Answered
<1>11. v \in Views
  BY <1>4
<1>12. seen[fd] = a /\ \A c \in Clients \ {fd} : seen[c] = view[c]
  BY <1>4
<1>13. WholeFiles => v.ok
  BY DEF SourceInv
<1> HIDE DEF p, r, v, a, req, seen, unread
<1>14. a.request = v.request
  BY <1>10, <1>11 DEF Views
<1>15. ASSUME WholeFiles
       PROVE  a.ok
  <2>1. CASE p.status = Silent
    BY <1>10, <1>13, <1>15, <2>1
  <2>2. CASE p.status # Silent
    <3>1. p.body # "broken"
      BY <1>2, <1>7, <1>15, <2>2 DEF WholeFiles
    <3> DEFINE good == v.ok /\ v.phase = "wait" /\ p.body # "broken"
    <3>2. good = TRUE
      BY <1>2, <1>11, <1>13, <1>15, <3>1 DEF Views
    <3>3. a = [v EXCEPT !.phase  = IF p.body = "later" /\ v.request.method # "HEAD"
                                   THEN "body" ELSE "idle",
                        !.status = p.status, !.length = p.length, !.got = 0, !.ok = good]
      BY <1>10, <2>2
    <3> HIDE DEF good
    <3>4. a.ok = good
      BY <1>11, <3>3 DEF Views
    <3> QED
      BY <3>2, <3>4
  <2> QED
    BY <2>1, <2>2
<1> QED
  BY <1>2, <1>7, <1>8, <1>9, <1>12, <1>14, <1>15, BecomeSources
\* The owner of a pending slot.
LEMMA PendingOwner ==
  ASSUME SlotInv, NEW i \in SendSlots, server.send_d[i].http_content_size > 0
  PROVE  /\ server.send_d[i].socket_fd \in Clients /\ server.send_d[i].socket_fd \in server.open
         /\ server.send_d[i] \in SendInfo
         /\ server.send_d[i].sent_size + server.send_d[i].http_content_size
              = server.send_d[i].total_size
<1>1. server.send_d[i] # FreeSend
  BY DEF FreeSend
<1>2. server.send_d[i].socket_fd \in server.open
  BY <1>1 DEF SlotInv, SlotsMatch
<1> QED
  BY <1>2 DEF SlotInv, Inv, ServerOK, Servers, SlotOK

\* A pending transfer can be read on, from the file that was asked for, in the
\* length that was announced.
LEMMA SourceReadable ==
  ASSUME SourceInv, NEW i \in SendSlots, server.send_d[i].http_content_size > 0
  PROVE  LET s == server.send_d[i]
         IN /\ Offered(server, disk, s) \in 1..s.http_content_size
            /\ SourceLength(s) = s.total_size
            /\ SourceName(s) \in Asked(view[s.socket_fd].request)
<1> DEFINE s == server.send_d[i]
           t == server.files
           fd == s.socket_fd
           h == First(HoldersOf(t, s.file))
           k == Last(CacheOf(t, s.file))
<1>1. /\ SlotInv /\ TablesOK(t) /\ t \in Tables /\ Accurate(t, disk)
      /\ fd \in Clients /\ fd \in Owners /\ fd # 0
      /\ s.http_content_size \in Nat \ {0} /\ s.sent_size \in Nat
      /\ s.total_size = s.sent_size + s.http_content_size
  <2>1. SlotInv /\ TablesOK(t) /\ t \in Tables /\ Accurate(t, disk)
    BY DEF SourceInv, TurnInv, SlotInv, Inv, ServerOK, TablesOK
  <2> QED
    BY <2>1, PendingOwner, ClientsAssumption DEF Owners, SendInfo
<1>2. \E l \in LeasesOf(t, s.file, fd) : /\ t.opened[l].size = s.total_size
                                         /\ t.opened[l].filename \in Asked(view[fd].request)
  BY <1>1 DEF SourceInv, SourceOK
<1>3. PICK l \in LeasesOf(t, s.file, fd) : /\ t.opened[l].size = s.total_size
                                           /\ t.opened[l].filename \in Asked(view[fd].request)
  BY <1>2
<1> HIDE DEF s, t, fd, h, k
<1>4. l \in Leased(t) /\ t.opened[l].file = s.file /\ t.opened[l].socket_fd = fd
  BY <1>1, LeasesUsed
<1>5. s.file \in Streams /\ s.file # NULL /\ s.file \in t.live
  BY <1>1, <1>4, LeaseType, NullAssumption DEF TablesOK, LiveLeases
<1>6. h \in HoldersOf(t, s.file) /\ HoldersOf(t, s.file) # {}
  <2>1. HoldersOf(t, s.file) # {} /\ HoldersOf(t, s.file) \in SUBSET Slots
    BY <1>3 DEF LeasesOf, HoldersOf
  <2> QED
    BY <2>1, FirstIsMember DEF h
<1>7. t.opened[h].filename = t.opened[l].filename
  BY <1>1, <1>4, <1>5, <1>6 DEF TablesOK, SharedStreams, HoldersOf, Leased
<1>8. disk[t.opened[l].filename] = s.total_size
  BY <1>1, <1>3, <1>4 DEF Accurate
<1>9. SourceName(s) \in Asked(view[fd].request)
  BY <1>3, <1>6, <1>7 DEF SourceName, h, t
<1>10. ASSUME NEW n, n = IF s.http_content_size < UploadBuffer THEN s.http_content_size
                         ELSE UploadBuffer
       PROVE  n \in 1..s.http_content_size
  BY <1>1, <1>10, UploadBufferAssumption
<1>11. CASE UseSendfile
  <2> DEFINE rest == disk[t.opened[h].filename] - s.sent_size
  <2>1. rest = s.http_content_size
    BY <1>1, <1>7, <1>8
  <2>2. Sendable(server, disk, s) = IF rest <= 0 THEN 0
                                    ELSE IF rest < UploadBuffer THEN rest ELSE UploadBuffer
    BY <1>5 DEF Sendable, h, t
  <2> HIDE DEF rest
  <2>3. Sendable(server, disk, s) \in 1..s.http_content_size
    BY <1>1, <1>10, <2>1, <2>2
  <2>4. SourceLength(s) = s.total_size
    BY <1>6, <1>7, <1>8, <1>11 DEF SourceLength, h, t
  <2> QED
    BY <1>9, <1>11, <2>3, <2>4 DEF Offered, s, fd
<1>12. CASE ~UseSendfile
  <2> DEFINE mine == LeasesOf(t, s.file, fd)
             m == First(mine)
             size == t.opened[m].size
  <2>1. m \in mine /\ mine # {}
    <3>1. mine # {} /\ mine \in SUBSET Slots
      BY <1>3 DEF LeasesOf, HoldersOf
    <3> HIDE DEF mine
    <3> QED
      BY <3>1, FirstIsMember
  <2>2. m = l
    BY <1>1, <1>3, <1>5, <2>1, AtMostOneLease
  <2>3. size = s.total_size
    BY <1>3, <2>2
  <2>4. CacheOf(t, s.file) # {}
    BY <1>1, <1>3, <1>4, <1>12 DEF Accurate
  <2>5. k \in CacheOf(t, s.file)
    <3>1. CacheOf(t, s.file) \in SUBSET Slots
      BY DEF CacheOf
    <3> QED
      BY <2>4, <3>1, LastIsMember DEF k
  <2>6. k \in Cached(t) /\ t.cached[k].file = s.file
    BY <1>5, <2>5 DEF Cached, CacheOf
  <2>7. t.cached[k].filename = t.opened[l].filename
    <3>1. PICK j \in Leased(t) : /\ t.opened[j].filename = t.cached[k].filename
                                 /\ t.opened[j].file = t.cached[k].file
      BY <1>1, <2>6 DEF TablesOK, LeasedCache
    <3> QED
      BY <1>1, <1>4, <2>6, <3>1 DEF TablesOK, SharedStreams
  <2>8. t.cached[k].size = s.total_size
    BY <1>1, <1>8, <2>6, <2>7 DEF Accurate
  <2>9. SourceLength(s) = s.total_size
    <3>1. CachedContent(t, s.file) = t.cached[k]
      BY <2>4 DEF CachedContent, k
    <3> QED
      BY <1>12, <2>8, <3>1 DEF SourceLength, t
  <2>10. Fread(t, s.file, fd, s.sent_size, UploadBuffer) =
           IF s.sent_size > size THEN 0
           ELSE IF s.sent_size + UploadBuffer > size THEN size - s.sent_size ELSE UploadBuffer
    BY <1>5, <1>12, <2>1, <2>4 DEF Fread
  <2> HIDE DEF size, m, mine
  <2>11. Fread(t, s.file, fd, s.sent_size, UploadBuffer) \in 1..s.http_content_size
    BY <1>1, <2>3, <2>10, UploadBufferAssumption
  <2> QED
    BY <1>9, <1>12, <2>9, <2>11 DEF Offered, s, fd, t
<1> QED
  BY <1>11, <1>12

\* What can be sent is sent, and it is right.
LEMMA SendSources ==
  ASSUME SourceInv, NEW i \in SendSlots, server.send_d[i].http_content_size > 0, Send(i)
  PROVE  SourceInv'
<1> DEFINE s == server.send_d[i]
           fd == s.socket_fd
           v == view[fd]
<1>1. /\ TurnInv /\ SlotInv /\ fd \in Clients /\ fd \in server.open /\ s \in SendInfo
      /\ s.sent_size + s.http_content_size = s.total_size
  BY PendingOwner DEF SourceInv, TurnInv
<1>2. TurnInv'
  BY <1>1, SendTurns
<1>3. PICK n \in Written(Offered(server, disk, s), s.http_content_size, FALSE) :
        /\ n \in Int
        /\ Become(SendChunk(server, i, n), inbox,
                  [view EXCEPT ![s.socket_fd] = Received(@, s, n)])
  BY <1>1, SendIs
<1> DEFINE r == SendChunk(server, i, n)
           a == Received(v, s, n)
           seen == [view EXCEPT ![fd] = a]
<1>4. Become(r, inbox, seen)
  BY <1>3
<1>5. /\ Offered(server, disk, s) \in 1..s.http_content_size
      /\ SourceLength(s) = s.total_size
      /\ SourceName(s) \in Asked(v.request)
  BY SourceReadable
<1>6. n \in 1..s.http_content_size /\ n \in Int /\ n \in Nat /\ n > 0
  <2> DEFINE o == Offered(server, disk, s)
  <2>1. s.http_content_size \in Int /\ o \in 1..s.http_content_size
    BY <1>1, <1>5 DEF SendInfo
  <2>2. n \in Written(o, s.http_content_size, FALSE)
    BY <1>3
  <2> HIDE DEF o, s
  <2>3. n \in 1..s.http_content_size
    BY <2>1, <2>2 DEF Written
  <2> QED
    BY <2>1, <2>3
<1>7. /\ ServerOK(server) /\ server \in Servers /\ SlotsMatch(server)
      /\ view \in [Clients -> Views] /\ v \in Views /\ Accurate(server.files, disk)
      /\ fd \in Owners /\ fd # 0
  BY <1>1, ClientsAssumption DEF SlotInv, Inv, TypeOK, Views, ServerOK, SourceInv, Owners
<1>8. /\ OthersKept(server, r, fd)
      /\ \/ Ends(server, i, n) /\ r.open = server.open \ {fd}
         \/ ~Ends(server, i, n) /\ r = Advanced(server, i, n)
  BY <1>1, <1>6, <1>7, ChunkKeeps
<1>9. /\ v.phase = "body" /\ v.got = s.sent_size /\ v.length = s.total_size
  BY <1>1 DEF TurnInv, Conversation, ViewMatches
<1>10. a.request = v.request /\ (v.ok => a.ok)
  <2> DEFINE right == /\ v.ok
                      /\ v.phase = "body"
                      /\ s.sent_size = v.got
                      /\ SourceLength(s) = v.length
                      /\ SourceName(s) \in Asked(v.request)
                      /\ v.got + n <= v.length
  <2>1. a = IF n <= 0 THEN v
            ELSE [v EXCEPT !.phase = IF @ = "body" /\ v.got + n >= v.length THEN "idle" ELSE @,
                           !.got = IF v.phase = "body" THEN v.got + n ELSE @,
                           !.ok = right]
    BY Zenon DEF Received
  <2>2. v.got + n <= v.length
    <3>1. s.sent_size \in Nat /\ s.http_content_size \in Int /\ s.total_size \in Nat
      BY <1>1 DEF SendInfo
    <3> HIDE DEF s, v
    <3> QED
      BY <1>1, <1>6, <1>9, <3>1
  <2>3. v.ok => right
    BY <1>5, <1>9, <2>2
  <2> HIDE DEF right, a, v, s
  <2>4. a.request = v.request /\ (n > 0 => (a.ok = right))
    BY <1>6, <1>7, <2>1 DEF Views
  <2> QED
    BY <1>6, <2>3, <2>4
<1>11. seen[fd] = a /\ \A c \in Clients \ {fd} : seen[c] = view[c]
  BY <1>1, <1>7
<1> DEFINE z == Advanced(server, i, n)
           e == Chunk(s, n)
<1>12. /\ z.files = server.files /\ z.open = server.open /\ z.send_d[i] = e
       /\ \A j \in SendSlots \ {i} : z.send_d[j] = server.send_d[j]
  BY <1>6, <1>7, AdvancedIs
<1>13. /\ e.file = s.file /\ e.socket_fd = fd /\ e.total_size = s.total_size
       /\ e.http_content_size > 0 => s.http_content_size > 0
  <2>1. /\ e.file = s.file /\ e.socket_fd = fd /\ e.total_size = s.total_size
        /\ e.http_content_size = s.http_content_size - n
    BY <1>1, <1>6, ChunkFields
  <2>2. s.http_content_size \in Int
    BY <1>1 DEF SendInfo
  <2> HIDE DEF e, s, fd
  <2> QED
    BY <1>6, <2>1, <2>2
<1> HIDE DEF r, a, seen, z, e
<1>14. \A j \in SendSlots : z.send_d[j].socket_fd = fd =>
         SourceOK(z.files, z.send_d[j], v.request)
  <2>1. SourceOK(server.files, s, v.request)
    BY <1>7 DEF SourceInv
  <2>2. SourceOK(z.files, e, v.request)
    BY <1>12, <1>13, <2>1 DEF SourceOK
  <2>3. \A j \in SendSlots : z.send_d[j].socket_fd = fd => j = i
    BY <1>7, <1>12 DEF SlotsMatch
  <2> QED
    BY <1>12, <2>2, <2>3
<1>15. Accurate(r.files, disk) /\ OthersLeases(server.files, r.files, fd)
  <2>1. CASE ~Ends(server, i, n)
    <3>1. r.files = server.files
      BY <1>8, <1>12, <2>1 DEF z
    <3> QED
      BY <1>7, <3>1 DEF OthersLeases
  <2>2. CASE Ends(server, i, n)
    <3>1. r = Disconnect(z, fd)
      BY <1>6, <1>7, <2>2, SendChunkIs DEF r, z
    <3>2. AlmostOK(z, fd)
      <4>1. e \in SendInfo /\ e.socket_fd = fd
        BY <1>1, <1>6, ChunkFields DEF e
      <4>2. z = [server EXCEPT !.send_d[i] = e]
        BY <1>6 DEF Advanced, z, e
      <4> QED
        BY <1>7, <4>1, <4>2, NewSlotOK
    <3>3. SlotsMatch(z)
      <4>1. \A j \in SendSlots : /\ z.send_d[j].socket_fd = server.send_d[j].socket_fd
                                 /\ server.send_d[j].socket_fd = 0 => z.send_d[j] = server.send_d[j]
        BY <1>7, <1>12, <1>13
      <4> QED
        BY <1>7, <1>12, <4>1, SameOwners
    <3>4. OwnLease(z, fd) /\ Accurate(z.files, disk)
      BY <1>7, <1>12, <1>14 DEF OwnLease, SourceOK
    <3>5. Accurate(r.files, disk) /\ OthersLeases(z.files, r.files, fd)
      BY <1>1, <3>1, <3>2, <3>3, <3>4, DisconnectSources
    <3> QED
      BY <1>12, <3>5
  <2> QED
    BY <2>1, <2>2
<1>16. fd \in r.open => \A j \in SendSlots : r.send_d[j].socket_fd = fd =>
                          SourceOK(r.files, r.send_d[j], seen[fd].request)
  BY <1>8, <1>10, <1>11, <1>14 DEF z
<1>17. WholeFiles => seen[fd].ok
  BY <1>1, <1>10, <1>11 DEF SourceInv
<1> QED
  BY <1>1, <1>2, <1>4, <1>8, <1>11, <1>15, <1>16, <1>17, BecomeSources
\* Clients that send or leave.
LEMMA EnvironmentSources ==
  ASSUME SourceInv, Undisturbed,
         \/ \E fd \in Clients : ClientSend(fd) \/ ClientFin(fd) \/ ClientReset(fd)
         \/ \E name \in Names, size \in Sizes : Edit(name, size)
         \/ UNCHANGED svars
  PROVE  SourceInv'
<1>1. TurnInv /\ InTurn /\ TurnInv'
  BY EnvironmentTurns DEF SourceInv, Undisturbed
<1>2. server' = server /\ disk' = disk
  BY DEF ClientSend, ClientFin, ClientReset, Edit, svars, Undisturbed, NoEdits
<1>3. view \in [Clients -> Views]
  BY <1>1 DEF TurnInv, SlotInv, Inv, TypeOK, Views
<1>4. CASE view' = view
  BY <1>1, <1>2, <1>4 DEF SourceInv, Accurate, SourceOK, WholeFiles
<1>5. ASSUME NEW fd \in Clients, ClientSend(fd)
      PROVE  SourceInv'
  <2>1. PICK req \in Requests :
          view' = [view EXCEPT ![fd].phase = IF @ = "idle" THEN "wait" ELSE @,
                               ![fd].request = req, ![fd].status = 0]
    BY <1>5, Zenon DEF ClientSend
  <2> DEFINE a == [view[fd] EXCEPT !.phase = IF @ = "idle" THEN "wait" ELSE @,
                                   !.request = req, !.status = 0]
  <2>2. view[fd].phase = "idle"
    BY <1>1, <1>5 DEF ClientSend, InTurn
  <2>3. view'[fd] = a /\ \A c \in Clients \ {fd} : view'[c] = view[c]
    BY <1>3, <2>1
  <2>4. a.ok = view[fd].ok
    BY <1>3 DEF Views
  <2> HIDE DEF a
  <2>5. \A j \in SendSlots : server.send_d[j].socket_fd = fd
                               => ~(server.send_d[j].http_content_size > 0)
    BY <1>1, <2>2 DEF TurnInv, Conversation, ViewMatches
  <2>6. ASSUME NEW j \in SendSlots, server.send_d[j].socket_fd # 0
        PROVE  SourceOK(server.files, server.send_d[j], view'[server.send_d[j].socket_fd].request)
    <3>1. SourceOK(server.files, server.send_d[j], view[server.send_d[j].socket_fd].request)
      BY <2>6 DEF SourceInv
    <3>2. CASE server.send_d[j].socket_fd = fd
      BY <2>5, <3>1, <3>2 DEF SourceOK
    <3>3. CASE server.send_d[j].socket_fd # fd
      <4>1. server.send_d[j].socket_fd \in Clients
        BY <1>1, <2>6 DEF TurnInv, SlotInv, SlotsMatch, Inv, ServerOK, Servers
      <4> QED
        BY <2>3, <3>1, <3>3, <4>1
    <3> QED
      BY <3>2, <3>3
  <2>7. WholeFiles => \A c \in Clients : view'[c].ok
    BY <2>3, <2>4 DEF SourceInv
  <2> QED
    BY <1>1, <1>2, <2>6, <2>7 DEF SourceInv, Accurate, SourceOK, WholeFiles
<1> QED
  BY <1>4, <1>5 DEF ClientFin, ClientReset, Edit, svars

\* At the start there are neither transfers nor open files.
LEMMA SourcesInit == Init => SourceInv
<1> SUFFICES ASSUME Init
             PROVE  SourceInv
  OBVIOUS
<1>1. Leased(EmptyTables) = {} /\ Cached(EmptyTables) = {}
  BY DEF Leased, Cached, EmptyTables, FreeOpened, FreeCached
<1>2. Accurate(server.files, disk)
  <2>1. server.files = EmptyTables
    BY DEF Init, StartedServer
  <2> QED
    BY <1>1, <2>1 DEF Accurate
<1>3. \A j \in SendSlots : server.send_d[j].socket_fd = 0
  BY DEF Init, StartedServer, FreeSend
<1>4. \A fd \in Clients : view[fd].ok
  <2>1. NewView.ok
    BY DEF NewView
  <2> QED
    BY <2>1 DEF Init
<1> QED
  BY <1>2, <1>3, <1>4, TurnsInit DEF SourceInv

\* Whatever others do, a transfer can be read on, and clients that ask for whole
\* files have received them unchanged.
LEMMA SourcesImply == SourceInv => PendingReadable /\ (WholeFiles => ContentIntact)
<1> SUFFICES ASSUME SourceInv
             PROVE  PendingReadable /\ (WholeFiles => ContentIntact)
  OBVIOUS
<1>1. ASSUME NEW i \in SendSlots, server.send_d[i].http_content_size > 0
      PROVE  Offered(server, disk, server.send_d[i]) > 0
  <2>1. server.send_d[i].http_content_size \in Int
    BY DEF SourceInv, TurnInv, SlotInv, Inv, ServerOK, Servers, SendInfo
  <2> DEFINE n == Offered(server, disk, server.send_d[i])
  <2>2. n \in 1..server.send_d[i].http_content_size
    BY <1>1, SourceReadable
  <2> HIDE DEF n
  <2>3. n > 0
    BY <2>1, <2>2
  <2> QED
    BY <2>3 DEF n
<1>2. PendingReadable
  BY <1>1 DEF PendingReadable, Transfers
<1> QED
  BY <1>2 DEF ContentIntact, SourceInv
-----------------------------------------------------------------------------
(* Why a connection ends. *)

\* The step of ClosedForCause.
CloseCaused ==
  \A fd \in server.open \ server'.open :
    \/ peer[fd] # "up"
    \/ ~KeepAlive(view[fd].request)
    \/ Verdict(view[fd].request, server.http_conn_count) # Proceed

\* Only SOCKET_process, finding that the client has left or a request that is
\* refused, and the end of a transfer close a connection.
LEMMA ReceiveCaused ==
  ASSUME SourceInv, Undisturbed, NEW fd \in Clients,
         \/ (fd \notin server.open \/ Gone(fd)) /\ ReceiveNothing(fd)
         \/ ReceiveRequest(fd) \/ ReceivePart(fd)
  PROVE  CloseCaused
<1>1. /\ TurnInv /\ InTurn /\ SlotInv /\ NoResets
      /\ ServerOK(server) /\ SlotsMatch(server) /\ disk \in [Names -> Nat \cup {Absent}]
  BY DEF SourceInv, Undisturbed, TurnInv, InTurn, NoResets, SlotInv, Inv, TypeOK
<1>2. CASE (fd \notin server.open \/ Gone(fd)) /\ ReceiveNothing(fd)
  <2>1. server' = Disconnect(server, fd)
    BY <1>2 DEF ReceiveNothing, Become
  <2>2. Disconnect(server, fd).open = server.open \ {fd}
    BY <1>1, DisconnectKeeps
  <2> QED
    BY <1>2, <2>1, <2>2 DEF CloseCaused, Gone
<1>3. CASE ReceiveRequest(fd) \/ ReceivePart(fd)
  <2> DEFINE req == inbox[fd]
  <2>1. /\ fd \in server.open /\ req \in Request /\ view[fd].request = req
        /\ Process(fd, req, NoRequest)
    BY <1>1, <1>3, TurnsOf
  <2>2. PICK f \in Streams \ server.files.live :
          LET p == SESSION_prepare(server, disk, fd, req, f, 3)
          IN Become(p.server, [inbox EXCEPT ![fd] = NoRequest],
                    [view EXCEPT ![fd] = Answered(@, p)])
    BY <1>1, <2>1, ProcessIs
  <2> DEFINE r == SESSION_prepare(server, disk, fd, req, f, 3).server
  <2>3. \/ SameSlots(server, r) \/ r.open = server.open
        \/ /\ r.open = server.open \ {fd}
           /\ Verdict(req, server.http_conn_count) # Proceed
    BY <1>1, <2>1, PrepareKeeps
  <2>4. server' = r
    BY <2>2 DEF Become
  <2> HIDE DEF r, req
  <2> QED
    BY <2>1, <2>3, <2>4 DEF CloseCaused, SameSlots
<1> QED
  BY <1>2, <1>3

LEMMA SendCaused ==
  ASSUME SourceInv, NEW i \in SendSlots, server.send_d[i].http_content_size > 0, Send(i)
  PROVE  CloseCaused
<1> DEFINE s == server.send_d[i]
           fd == s.socket_fd
           n0 == Offered(server, disk, s)
<1>1. /\ TurnInv /\ SlotInv /\ fd \in Clients /\ s \in SendInfo
      /\ ServerOK(server) /\ SlotsMatch(server)
  BY PendingOwner DEF SourceInv, TurnInv, SlotInv, Inv
<1>2. PICK n \in Written(n0, s.http_content_size, FALSE) :
        /\ n \in Int
        /\ Become(SendChunk(server, i, n), inbox,
                  [view EXCEPT ![s.socket_fd] = Received(@, s, n)])
  BY <1>1, SendIs
<1>3. n0 \in 1..s.http_content_size /\ s.http_content_size \in Int
  BY <1>1, SourceReadable DEF SendInfo
<1> HIDE DEF n0
<1>4. n > 0 /\ n \in Int
  BY <1>2, <1>3 DEF Written
<1> DEFINE r == SendChunk(server, i, n)
<1>5. \/ Ends(server, i, n) /\ r.open = server.open \ {fd}
      \/ r.open = server.open
  BY <1>1, <1>4, ChunkKeeps
<1>6. Ends(server, i, n) => ~s.keep_alive
  BY <1>4 DEF Ends
<1>7. s.keep_alive = KeepAlive(view[fd].request)
  BY <1>1 DEF TurnInv, Conversation, ViewMatches
<1>8. server' = r
  BY <1>2 DEF Become
<1> HIDE DEF r
<1> QED
  BY <1>5, <1>6, <1>7, <1>8 DEF CloseCaused

\* Connections are not closed by anything else.
LEMMA OthersCaused ==
  ASSUME SourceInv, FewConnections,
         \/ \E fd \in Clients : Accept(fd) \/ ClientSend(fd) \/ ClientFin(fd) \/ ClientReset(fd)
         \/ \E name \in Names, size \in Sizes : Edit(name, size)
         \/ UNCHANGED svars
  PROVE  CloseCaused
<1>1. ASSUME NEW fd \in Clients, Accept(fd)
      PROVE  server.open \subseteq server'.open
  <2> DEFINE r == AddSendStruct([server EXCEPT !.http_conn_count = @ + 1,
                                               !.open = @ \cup {fd}], fd)
  <2>1. ServerOK(server) /\ SlotsMatch(server) /\ fd \notin server.open /\ HasRoom(server)
    BY <1>1 DEF SourceInv, TurnInv, SlotInv, Inv, Accept
  <2>2. r.open = server.open \cup {fd}
    BY <2>1, AcceptedMatches
  <2>3. server' = r
    BY <1>1 DEF Accept
  <2> HIDE DEF r
  <2> QED
    BY <2>2, <2>3
<1>2. CASE server' = server
  BY <1>2 DEF CloseCaused
<1> QED
  BY <1>1, <1>2 DEF CloseCaused, ClientSend, ClientFin, ClientReset, Edit, svars
-----------------------------------------------------------------------------
(* LeaseInv: slots of the file table are given back with the transfer they *)
(* were made for.  It is invariant when every connection is closed after   *)
(* its answer, and every answer has content: keep-alive keeps the slot     *)
(* until the connection ends, an empty file or a range is answered without *)
(* a transfer, and the slot then has nobody who closes it.                 *)

OneAnswerEach == \A req \in Requests : ~KeepAlive(req)
NoEmptyFiles == 0 \notin Sizes /\ \A name \in Names : InitDisk[name] # 0
Frugal == InTurn /\ OneAnswerEach /\ WholeFiles /\ NoEmptyFiles

\* Every client's slot of the file table belongs to its pending transfer.
UsedBy(w, e) == \E j \in SendSlots : /\ w.send_d[j].http_content_size > 0
                                     /\ w.send_d[j].socket_fd = e.socket_fd
                                     /\ w.send_d[j].file = e.file

LeaseUsed(w) ==
  \A l \in Leased(w.files) :
    LET e == w.files.opened[l]
    IN e.size # 0 /\ (e.socket_fd \in Clients => UsedBy(w, e))

LeaseInv == TurnInv /\ LeaseUsed(server) /\ \A name \in Names : disk[name] # 0

\* What a handler for fd does to the slots of the table: those of the others
\* are as before, those that are new are its own or an index file's.
LeasesAfter(w, r, fd) ==
  \A l \in Leased(r.files) :
    LET e == r.files.opened[l]
    IN \/ l \in Leased(w.files) /\ e = w.files.opened[l] /\ e.socket_fd # fd
       \/ e.size # 0 /\ (e.socket_fd = Probe \/ (e.socket_fd = fd /\ UsedBy(r, e)))

LEMMA UsedAfter ==
  ASSUME NEW w, NEW r, NEW fd \in Clients, LeaseUsed(w), OthersKept(w, r, fd),
         LeasesAfter(w, r, fd)
  PROVE  LeaseUsed(r)
<1> SUFFICES ASSUME NEW l \in Leased(r.files)
             PROVE  LET e == r.files.opened[l]
                    IN e.size # 0 /\ (e.socket_fd \in Clients => UsedBy(r, e))
  BY DEF LeaseUsed
<1> DEFINE e == r.files.opened[l]
<1>1. CASE l \in Leased(w.files) /\ e = w.files.opened[l] /\ e.socket_fd # fd
  <2>1. e.size # 0 /\ (e.socket_fd \in Clients => UsedBy(w, e))
    BY <1>1 DEF LeaseUsed
  <2> HIDE DEF e
  <2>2. e.socket_fd \in Clients => UsedBy(r, e)
    BY <1>1, <2>1 DEF UsedBy, OthersKept
  <2> QED
    BY <2>1, <2>2 DEF e
<1>2. CASE e.size # 0 /\ (e.socket_fd = Probe \/ (e.socket_fd = fd /\ UsedBy(r, e)))
  <2>1. Probe \notin Clients
    BY ClientsAssumption DEF Probe
  <2> QED
    BY <1>2, <2>1
<1> QED
  BY <1>1, <1>2 DEF LeasesAfter

\* Every slot of the table that the client has is for the file of its slot of
\* send_d[].
OwnFile(w, fd) ==
  \A l \in Leased(w.files) : w.files.opened[l].socket_fd = fd =>
    \E j \in SendSlots : w.send_d[j].socket_fd = fd /\ w.send_d[j].file = w.files.opened[l].file

\* SOCKET_disconnect_client then leaves none of them.
LEMMA DisconnectLeases ==
  ASSUME NEW w, NEW fd \in Clients, AlmostOK(w, fd), SlotsMatch(w), OwnFile(w, fd)
  PROVE  LET r == Disconnect(w, fd)
         IN \A l \in Leased(r.files) : /\ l \in Leased(w.files)
                                       /\ r.files.opened[l] = w.files.opened[l]
                                       /\ r.files.opened[l].socket_fd # fd
<1> DEFINE r == Disconnect(w, fd)
           t == w.files
<1>1. r.files = FcloseAll(w, fd)
  BY DisconnectEffect
<1>2. TablesOK(t) /\ t \in Tables /\ fd \in Owners /\ w \in Servers
  BY DEF AlmostOK, TablesOK, Owners
<1> HIDE DEF r
<1>3. CASE FcloseAll(w, fd) = t /\ \A j \in SendSlots : w.send_d[j].socket_fd # fd
  BY <1>1, <1>3 DEF OwnFile, r
<1>4. CASE \E k \in SendSlots : /\ w.send_d[k].socket_fd = fd
                                /\ FcloseAll(w, fd) = Fclose(t, w.send_d[k].file, fd)
  <2>1. PICK k \in SendSlots : /\ w.send_d[k].socket_fd = fd
                               /\ FcloseAll(w, fd) = Fclose(t, w.send_d[k].file, fd)
    BY <1>4
  <2> DEFINE file == w.send_d[k].file
             mine == LeasesOf(t, file, fd)
  <2>2. file \in Streams \cup {NULL}
    BY <1>2 DEF Servers, SendInfo
  <2>3. \A l \in Leased(t) : t.opened[l].socket_fd = fd => t.opened[l].file = file
    <3>1. fd # 0
      BY ClientsAssumption
    <3>2. \A j \in SendSlots : w.send_d[j].socket_fd = fd => j = k
      BY <2>1, <3>1 DEF SlotsMatch
    <3> QED
      BY <3>2 DEF OwnFile
  <2>4. r.files = Fclose(t, file, fd)
    BY <1>1, <2>1
  <2>5. mine = {l \in Leased(t) : t.opened[l].file = file /\ t.opened[l].socket_fd = fd}
    BY <1>2, LeasesUsed
  <2> HIDE DEF file, mine
  <2>6. CASE file = NULL
    <3>1. r.files = t
      BY <2>4, <2>6 DEF Fclose
    <3>2. \A l \in Leased(t) : t.opened[l].socket_fd # fd
      BY <2>3, <2>6 DEF Leased
    <3> QED
      BY <3>1, <3>2 DEF r, t
  <2>7. CASE file # NULL
    <3>1. /\ Leased(r.files) = Leased(t) \ mine
          /\ \A j \in Leased(r.files) : r.files.opened[j] = t.opened[j]
      BY <1>2, <2>2, <2>4, <2>7, FcloseEffect DEF mine
    <3>2. \A l \in Leased(r.files) : /\ l \in Leased(t)
                                     /\ r.files.opened[l] = t.opened[l]
                                     /\ r.files.opened[l].socket_fd # fd
      BY <2>3, <2>5, <3>1
    <3> QED
      BY <3>2 DEF r, t
  <2> QED
    BY <2>6, <2>7
<1> QED
  BY <1>3, <1>4, FcloseAllIs

\* An index file that is pinned while a request is looked up has content too.
LEMMA LookedLeases ==
  ASSUME NEW w, ServerOK(w), NEW d \in [Names -> Nat \cup {Absent}],
         \A name \in Names : d[name] # 0, NEW req \in Request,
         NEW f \in Streams \ w.files.live, NEW fd \in Clients,
         \A l \in Leased(w.files) : w.files.opened[l].socket_fd # fd
  PROVE  LET v == PinIndex(w, d, req, f)
             u == Looked(w, d, req, f)
         IN /\ Leased(u.files) = Leased(v.files) /\ u.files.opened = v.files.opened
            /\ \A l \in Leased(v.files) :
                 LET e == v.files.opened[l]
                 IN /\ e.socket_fd # fd
                    /\ \/ l \in Leased(w.files) /\ e = w.files.opened[l]
                       \/ e.size # 0 /\ e.socket_fd = Probe
<1> DEFINE v == PinIndex(w, d, req, f)
           u == Looked(w, d, req, f)
           name == RequestedName(w, d, req, f)
<1>1. /\ u.files.opened = v.files.opened
      /\ \/ v = w
         \/ /\ name \in Names /\ d[name] \in Nat
            /\ v.files = Fopen(w.files, name, Probe, Fresh(w, f), d[name])
  BY LookedOK
<1>2. TablesOK(w.files) /\ Probe \in Owners /\ fd # Probe
  BY ClientsAssumption DEF ServerOK, Owners, Probe
<1>3. Fresh(w, f) \in (Streams \ w.files.live) \cup {NULL}
  BY DEF Fresh
<1> HIDE DEF u, v, name
<1>4. Leased(u.files) = Leased(v.files)
  BY <1>1 DEF Leased
<1>5. CASE v = w
  BY <1>1, <1>4, <1>5 DEF u, v
<1>6. CASE /\ name \in Names /\ d[name] \in Nat
           /\ v.files = Fopen(w.files, name, Probe, Fresh(w, f), d[name])
  <2> DEFINE file == FopenResult(w.files, name, Probe, Fresh(w, f))
             e == [filename |-> name, file |-> file, size |-> d[name], socket_fd |-> Probe]
  <2>1. Kept(w.files, v.files) /\ Added(w.files, v.files, file, name, Probe, d[name])
    BY <1>2, <1>3, <1>6, FopenEffect
  <2>2. \A l \in Leased(v.files) \ Leased(w.files) : v.files.opened[l] = e
    BY <2>1 DEF Added
  <2>3. e.size # 0 /\ e.socket_fd = Probe
    BY <1>6
  <2> HIDE DEF e
  <2>4. \A l \in Leased(v.files) :
          /\ v.files.opened[l].socket_fd # fd
          /\ \/ l \in Leased(w.files) /\ v.files.opened[l] = w.files.opened[l]
             \/ v.files.opened[l].size # 0 /\ v.files.opened[l].socket_fd = Probe
    BY <1>2, <2>1, <2>2, <2>3 DEF Kept
  <2> QED
    BY <1>1, <1>4, <2>4 DEF u, v
<1> QED
  BY <1>1, <1>5, <1>6
\* RESPONSE_file for a request without "Range", of a client that has no slot of
\* the table: if it has one afterwards, this is for the transfer that begins.
LEMMA FileLeases ==
  ASSUME NEW u, ServerOK(u), SlotsMatch(u), NEW d, NEW fd \in Clients, fd \in u.open,
         NEW req, req.range = NoRange, NEW name \in Names, d[name] # 0, NEW f,
         OpenedAs(u.files, name) = {} => Fresh(u, f) \in (Streams \ u.files.live) \cup {NULL},
         \A l \in Leased(u.files) : /\ u.files.opened[l].size # 0
                                    /\ u.files.opened[l].socket_fd # fd,
         NEW p, FileOutcome(p, u, d, fd, req, name, f)
  PROVE  LeasesAfter(u, p.server, fd)
<1> DEFINE r == p.server
           o == Opened(u, d, fd, name, f)
           file == FopenResult(u.files, name, fd, Fresh(u, f))
           c == [o EXCEPT !.files = Fclose(@, file, fd)]
           own == [filename |-> name, file |-> file, size |-> d[name], socket_fd |-> fd]
<1>1. file # NULL /\ d[name] \in Nat
  BY DEF FileOutcome
<1>2. /\ ServerOK(o) /\ SameSlots(u, o)
      /\ o.files = Fopen(u.files, name, fd, Fresh(u, f), d[name])
      /\ SameSlots(o, c) /\ c.files = Fclose(o.files, file, fd)
      /\ file \in Streams
  BY <1>1, OpenedOK
<1>3. fd \in Owners /\ TablesOK(u.files) /\ TablesOK(o.files) /\ o.files \in Tables /\ o \in Servers
  BY <1>2 DEF Owners, ServerOK, TablesOK
<1>4. Kept(u.files, o.files) /\ Added(u.files, o.files, file, name, fd, d[name])
  BY <1>1, <1>2, <1>3, FopenEffect
<1>5. \/ r = c
      \/ r = o /\ Ftell(o.files, file) = 0
      \/ /\ p.length = Ftell(o.files, file) /\ p.length # 0
         /\ r = StartTransfer(o, fd, file, p.length, KeepAlive(req))
  BY DEF FileOutcome
<1>6. /\ own.file = file /\ own.size # 0 /\ own.socket_fd = fd
      /\ \A l \in Leased(o.files) \ Leased(u.files) : o.files.opened[l] = own
  BY <1>4 DEF Added
<1> HIDE DEF r, o, file, c, own
<1>7. ASSUME NEW l \in Leased(o.files)
      PROVE  LET e == o.files.opened[l]
             IN /\ e.size # 0
                /\ \/ l \in Leased(u.files) /\ e = u.files.opened[l] /\ e.socket_fd # fd
                   \/ e.socket_fd = fd /\ e.file = file
  BY <1>4, <1>6 DEF Kept
<1>8. CASE r = c
  <2>1. /\ Leased(r.files) = Leased(o.files) \ LeasesOf(o.files, file, fd)
        /\ \A l \in Leased(r.files) : r.files.opened[l] = o.files.opened[l]
    BY <1>2, <1>3, <1>8, FcloseEffect
  <2>2. LeasesOf(o.files, file, fd) =
          {l \in Leased(o.files) : o.files.opened[l].file = file /\ o.files.opened[l].socket_fd = fd}
    BY <1>3, LeasesUsed
  <2> QED
    BY <1>7, <2>1, <2>2 DEF LeasesAfter, r
<1>9. CASE r = o /\ Ftell(o.files, file) = 0
  <2>1. HoldersOf(o.files, file) = {}
    <3> SUFFICES ASSUME HoldersOf(o.files, file) # {}
                 PROVE  FALSE
      OBVIOUS
    <3> DEFINE h == First(HoldersOf(o.files, file))
    <3>1. h \in HoldersOf(o.files, file)
      <4>1. HoldersOf(o.files, file) \in SUBSET Slots
        BY DEF HoldersOf
      <4> QED
        BY <4>1, FirstIsMember
    <3>2. o.files.opened[h].size = 0
      BY <1>9 DEF Ftell
    <3> HIDE DEF h
    <3>3. h \in Leased(o.files)
      BY <1>1, <3>1 DEF HoldersOf, Leased
    <3> QED
      BY <1>7, <3>2, <3>3
  <2>2. \A l \in Leased(o.files) : o.files.opened[l].file # file
    BY <2>1 DEF HoldersOf, Leased
  <2> QED
    BY <1>7, <1>9, <2>2 DEF LeasesAfter, r
<1>10. CASE /\ p.length = Ftell(o.files, file) /\ p.length # 0
            /\ r = StartTransfer(o, fd, file, p.length, KeepAlive(req))
  <2> DEFINE s == [file |-> file, http_content_size |-> p.length, sent_size |-> 0,
                   socket_fd |-> fd, total_size |-> p.length, keep_alive |-> KeepAlive(req)]
  <2>1. SlotsMatch(o) /\ fd \in o.open
    BY <1>2 DEF SameSlots, SlotsMatch
  <2>2. /\ r.files = o.files
        /\ \E k \in SendSlots : /\ o.send_d[k].socket_fd = fd
                                /\ r.send_d[k] = s
                                /\ \A j \in SendSlots \ {k} : /\ o.send_d[j].socket_fd # fd
                                                              /\ r.send_d[j] = o.send_d[j]
    BY <1>3, <1>10, <2>1, StartTransferEffect
  <2>3. p.length > 0
    BY <1>3, <1>10, FtellType
  <2>4. s.file = file /\ s.socket_fd = fd /\ s.http_content_size = p.length
    OBVIOUS
  <2> HIDE DEF s
  <2>5. \A e : e.socket_fd = fd /\ e.file = file => UsedBy(r, e)
    BY <2>2, <2>3, <2>4 DEF UsedBy
  <2> QED
    BY <1>7, <2>2, <2>5 DEF LeasesAfter, r
<1> QED
  BY <1>5, <1>8, <1>9, <1>10

\* SESSION_prepare for a client that has no slot of the table.
LEMMA PrepareLeases ==
  ASSUME NEW w, ServerOK(w), SlotsMatch(w), LeaseUsed(w),
         NEW d \in [Names -> Nat \cup {Absent}], \A name \in Names : d[name] # 0,
         NEW fd \in Clients, fd \in w.open, NEW req \in Request, req.range = NoRange,
         NEW f \in Streams \ w.files.live,
         \A l \in Leased(w.files) : w.files.opened[l].socket_fd # fd
  PROVE  LeasesAfter(w, SESSION_prepare(w, d, fd, req, f, 3).server, fd)
<1> DEFINE v == PinIndex(w, d, req, f)
           u == Looked(w, d, req, f)
           name == RequestedName(w, d, req, f)
           p == SESSION_prepare(w, d, fd, req, f, 3)
           r == p.server
<1>1. name \in Names
  BY RequestedNameType
<1>2. /\ ServerOK(v) /\ SameSlots(w, v) /\ ServerOK(u) /\ SameSlots(w, u)
      /\ OpenedAs(u.files, name) = {} => Fresh(u, f) \in (Streams \ u.files.live) \cup {NULL}
  BY LookedOK
<1>3. /\ Leased(u.files) = Leased(v.files) /\ u.files.opened = v.files.opened
      /\ \A l \in Leased(v.files) :
           LET e == v.files.opened[l]
           IN /\ e.socket_fd # fd
              /\ \/ l \in Leased(w.files) /\ e = w.files.opened[l]
                 \/ e.size # 0 /\ e.socket_fd = Probe
  BY LookedLeases
<1>4. Outcome(p, w, d, fd, req, f)
  BY PrepareOutcome
<1>5. \/ r = Disconnect(v, fd)
      \/ r \in {v, u}
      \/ FileOutcome(p, u, d, fd, req, name, f)
  BY <1>4 DEF Outcome
<1> HIDE DEF v, u, name, p, r
<1>6. CASE r \in {v, u}
  BY <1>3, <1>6 DEF LeasesAfter, p, r
<1>7. CASE r = Disconnect(v, fd)
  <2>1. AlmostOK(v, fd) /\ SlotsMatch(v) /\ OwnFile(v, fd)
    BY <1>2, <1>3 DEF AlmostOK, ServerOK, SameSlots, SlotsMatch, OwnFile
  <2>2. \A l \in Leased(r.files) : /\ l \in Leased(v.files)
                                   /\ r.files.opened[l] = v.files.opened[l]
    BY <1>7, <2>1, DisconnectLeases
  <2> QED
    BY <1>3, <2>2 DEF LeasesAfter, p, r
<1>8. CASE FileOutcome(p, u, d, fd, req, name, f)
  <2>1. \A l \in Leased(u.files) : /\ u.files.opened[l].size # 0
                                   /\ u.files.opened[l].socket_fd # fd
    BY <1>3 DEF LeaseUsed
  <2>2. SlotsMatch(u) /\ fd \in u.open /\ d[name] # 0
    BY <1>1, <1>2 DEF SameSlots, SlotsMatch
  <2>3. LeasesAfter(u, r, fd)
    BY <1>1, <1>2, <1>8, <2>1, <2>2, FileLeases DEF r
  <2>4. LeasesAfter(w, r, fd)
    <3> SUFFICES ASSUME NEW l \in Leased(r.files)
                 PROVE  LET e == r.files.opened[l]
                        IN \/ l \in Leased(w.files) /\ e = w.files.opened[l] /\ e.socket_fd # fd
                           \/ e.size # 0 /\ (e.socket_fd = Probe \/ (e.socket_fd = fd /\ UsedBy(r, e)))
      BY DEF LeasesAfter
    <3>1. \/ l \in Leased(u.files) /\ r.files.opened[l] = u.files.opened[l]
          \/ /\ r.files.opened[l].size # 0
             /\ \/ r.files.opened[l].socket_fd = Probe
                \/ r.files.opened[l].socket_fd = fd /\ UsedBy(r, r.files.opened[l])
      BY <2>3 DEF LeasesAfter
    <3> QED
      BY <1>3, <3>1
  <2> QED
    BY <2>4 DEF p, r
<1> QED
  BY <1>5, <1>6, <1>7, <1>8
\* A handler that has run for one client.
LEMMA BecomeLeases ==
  ASSUME LeaseInv, TurnInv', NEW fd \in Clients, NEW r, NEW unread, NEW seen,
         Become(r, unread, seen), OthersKept(server, r, fd), LeasesAfter(server, r, fd)
  PROVE  LeaseInv'
<1>1. server' = r /\ disk' = disk
  BY DEF Become
<1>2. LeaseUsed(r)
  BY UsedAfter DEF LeaseInv
<1>3. LeaseUsed(server)'
  BY <1>1, <1>2 DEF LeaseUsed, UsedBy
<1> QED
  BY <1>1, <1>3 DEF LeaseInv

\* A client that is gone.
LEMMA GoneLeases ==
  ASSUME LeaseInv, NEW fd \in Clients, ReceiveNothing(fd)
  PROVE  LeaseInv'
<1> DEFINE r == Disconnect(server, fd)
<1>1. AlmostOK(server, fd) /\ SlotsMatch(server) /\ TurnInv
  BY DEF LeaseInv, TurnInv, SlotInv, Inv, AlmostOK, ServerOK
<1>2. TurnInv' /\ Become(r, inbox, view)
  BY <1>1, GoneTurns DEF ReceiveNothing
<1>3. OthersKept(server, r, fd)
  BY <1>1, DisconnectKeeps
<1>4. OwnFile(server, fd)
  BY DEF LeaseInv, LeaseUsed, UsedBy, OwnFile
<1>5. LeasesAfter(server, r, fd)
  <2>1. \A l \in Leased(r.files) : /\ l \in Leased(server.files)
                                   /\ r.files.opened[l] = server.files.opened[l]
                                   /\ r.files.opened[l].socket_fd # fd
    BY <1>1, <1>4, DisconnectLeases
  <2> HIDE DEF r
  <2> QED
    BY <2>1 DEF LeasesAfter
<1> HIDE DEF r
<1> QED
  BY <1>2, <1>3, <1>5, BecomeLeases

\* A new connection: no transfer and no file yet.
LEMMA AcceptLeases ==
  ASSUME LeaseInv, FewConnections, NEW fd \in Clients, Accept(fd)
  PROVE  LeaseInv'
<1> DEFINE r == AddSendStruct([server EXCEPT !.http_conn_count = @ + 1,
                                             !.open = @ \cup {fd}], fd)
<1>1. /\ ServerOK(server) /\ SlotsMatch(server) /\ TurnInv
      /\ fd \notin server.open /\ HasRoom(server)
  BY DEF LeaseInv, TurnInv, SlotInv, Inv, Accept
<1>2. /\ r.files = server.files
      /\ \E k \in SendSlots :
           /\ server.send_d[k] = FreeSend
           /\ r.send_d[k] = [FreeSend EXCEPT !.socket_fd = fd]
           /\ \A j \in SendSlots \ {k} : r.send_d[j] = server.send_d[j]
  BY <1>1, AcceptedMatches, ZenonT(40)
<1>3. server' = r /\ disk' = disk
  BY DEF Accept
<1> HIDE DEF r
<1>4. FreeSend.http_content_size = 0
  BY DEF FreeSend
<1>5. \A e : UsedBy(server, e) => UsedBy(r, e)
  BY <1>2, <1>4 DEF UsedBy
<1>6. LeaseUsed(r)
  BY <1>2, <1>5 DEF LeaseInv, LeaseUsed
<1>7. LeaseUsed(server)'
  BY <1>3, <1>6 DEF LeaseUsed, UsedBy
<1>8. TurnInv'
  BY <1>1, AcceptTurns
<1> QED
  BY <1>3, <1>7, <1>8 DEF LeaseInv

\* A request.
LEMMA ReceiveLeases ==
  ASSUME LeaseInv, Frugal, NEW fd \in Clients, ReceiveRequest(fd) \/ ReceivePart(fd)
  PROVE  LeaseInv'
<1> DEFINE req == inbox[fd]
<1>1. /\ TurnInv /\ InTurn /\ SlotInv /\ NoResets /\ LeaseUsed(server)
      /\ ServerOK(server) /\ SlotsMatch(server) /\ disk \in [Names -> Nat \cup {Absent}]
      /\ \A name \in Names : disk[name] # 0
  BY DEF LeaseInv, Frugal, TurnInv, InTurn, NoResets, SlotInv, Inv, TypeOK
<1>2. /\ fd \in server.open /\ req \in Requests /\ req \in Request /\ view[fd].phase = "wait"
      /\ Process(fd, req, NoRequest) /\ TurnInv'
  BY <1>1, TurnsOf, ReceiveTurns
<1>3. PICK f \in Streams \ server.files.live :
        LET p == SESSION_prepare(server, disk, fd, req, f, 3)
        IN Become(p.server, [inbox EXCEPT ![fd] = NoRequest],
                  [view EXCEPT ![fd] = Answered(@, p)])
  BY <1>1, <1>2, ProcessIs
<1> DEFINE p == SESSION_prepare(server, disk, fd, req, f, 3)
           r == p.server
           unread == [inbox EXCEPT ![fd] = NoRequest]
           seen == [view EXCEPT ![fd] = Answered(@, p)]
<1>4. Become(r, unread, seen)
  BY <1>3
<1>5. \A l \in Leased(server.files) : server.files.opened[l].socket_fd # fd
  <2>1. \A j \in SendSlots : server.send_d[j].socket_fd = fd
                               => ~(server.send_d[j].http_content_size > 0)
    BY <1>1, <1>2 DEF TurnInv, Conversation, ViewMatches
  <2> QED
    BY <1>1, <2>1 DEF LeaseUsed, UsedBy
<1>6. req.range = NoRange
  BY <1>2 DEF Frugal, WholeFiles
<1>7. LeasesAfter(server, r, fd)
  BY <1>1, <1>2, <1>5, <1>6, PrepareLeases
<1>8. OthersKept(server, r, fd)
  BY <1>1, <1>2, PrepareKeeps
<1> HIDE DEF r, unread, seen
<1> QED
  BY <1>2, <1>4, <1>7, <1>8, BecomeLeases

\* A chunk: the transfer goes on, or the connection and with it the slot of the
\* table ends.
LEMMA SendLeases ==
  ASSUME LeaseInv, Frugal, NEW i \in SendSlots, server.send_d[i].http_content_size > 0, Send(i)
  PROVE  LeaseInv'
<1> DEFINE s == server.send_d[i]
           fd == s.socket_fd
<1>1. /\ TurnInv /\ SlotInv /\ fd \in Clients /\ fd \in server.open /\ s \in SendInfo
      /\ ServerOK(server) /\ server \in Servers /\ SlotsMatch(server)
      /\ LeaseUsed(server) /\ fd # 0
  BY PendingOwner, ClientsAssumption DEF LeaseInv, TurnInv, SlotInv, Inv, ServerOK
<1>2. TurnInv'
  BY <1>1, SendTurns
<1>3. PICK n \in Int : Become(SendChunk(server, i, n), inbox,
                              [view EXCEPT ![s.socket_fd] = Received(@, s, n)])
  BY <1>1, SendIs
<1> DEFINE r == SendChunk(server, i, n)
           z == Advanced(server, i, n)
           e == z.send_d[i]
           seen == [view EXCEPT ![fd] = Received(@, s, n)]
<1>4. Become(r, inbox, seen)
  BY <1>3
<1>5. /\ OthersKept(server, r, fd)
      /\ Ends(server, i, n) \/ r = z
  BY <1>1, ChunkKeeps
<1>6. /\ z.files = server.files /\ z.open = server.open
      /\ e = IF n > 0 THEN Chunk(s, n) ELSE s
      /\ \A j \in SendSlots \ {i} : z.send_d[j] = server.send_d[j]
  BY <1>1, AdvancedIs
<1>7. e \in SendInfo /\ e.socket_fd = fd /\ e.file = s.file
  <2>1. CASE n > 0
    BY <1>1, <1>6, <2>1, ChunkFields
  <2>2. CASE ~(n > 0)
    BY <1>1, <1>6, <2>2
  <2> QED
    BY <2>1, <2>2
<1>8. ~s.keep_alive
  BY <1>1 DEF TurnInv, Conversation, ViewMatches, Frugal, OneAnswerEach
<1>9. ~Ends(server, i, n) => e.http_content_size > 0
  <2>1. e.http_content_size \in Int
    BY <1>7 DEF SendInfo
  <2> DEFINE left == e.http_content_size
  <2>2. Ends(server, i, n) <=> n < 0 \/ (left <= 0 /\ ~s.keep_alive)
    BY DEF Ends
  <2> HIDE DEF left
  <2> QED
    BY <1>8, <2>1, <2>2 DEF left
<1>10. \A l \in Leased(server.files) :
         server.files.opened[l].socket_fd = fd => server.files.opened[l].file = s.file
  <2>1. \A j \in SendSlots : server.send_d[j].socket_fd = fd => j = i
    BY <1>1 DEF SlotsMatch
  <2> QED
    BY <1>1, <2>1 DEF LeaseUsed, UsedBy
<1>11. LeasesAfter(server, r, fd)
  <2>1. CASE ~Ends(server, i, n)
    <3>1. r = z /\ e.http_content_size > 0
      BY <1>5, <1>9, <2>1
    <3> HIDE DEF r, z, s
    <3>2. \A c : c.socket_fd = fd /\ c.file = s.file => UsedBy(r, c)
      BY <1>7, <3>1 DEF UsedBy
    <3>3. \A l \in Leased(server.files) : server.files.opened[l].size # 0
      BY <1>1 DEF LeaseUsed
    <3> QED
      BY <1>6, <1>10, <3>1, <3>2, <3>3 DEF LeasesAfter
  <2>2. CASE Ends(server, i, n)
    <3>1. r = Disconnect(z, fd)
      BY <1>1, <2>2, SendChunkIs
    <3> HIDE DEF r, z
    <3>2. AlmostOK(z, fd)
      <4>1. CASE n > 0
        <5>1. z = [server EXCEPT !.send_d[i] = e]
          BY <1>6, <4>1 DEF Advanced, z
        <5> HIDE DEF e, s
        <5>2. server.send_d[i].socket_fd = fd
          BY DEF s
        <5> QED
          BY <1>1, <1>7, <5>1, <5>2, NewSlotOK
      <4>2. CASE ~(n > 0)
        <5>1. z = server
          BY <4>2 DEF Advanced, z
        <5> QED
          BY <1>1, <5>1 DEF AlmostOK, ServerOK
      <4> QED
        BY <4>1, <4>2
    <3>3. SlotsMatch(z)
      <4>1. \A j \in SendSlots : /\ z.send_d[j].socket_fd = server.send_d[j].socket_fd
                                 /\ server.send_d[j].socket_fd = 0 => z.send_d[j] = server.send_d[j]
        BY <1>1, <1>6, <1>7
      <4> QED
        BY <1>1, <1>6, <4>1, SameOwners
    <3>4. OwnFile(z, fd)
      BY <1>6, <1>7, <1>10 DEF OwnFile
    <3>5. \A l \in Leased(r.files) : /\ l \in Leased(z.files)
                                     /\ r.files.opened[l] = z.files.opened[l]
                                     /\ r.files.opened[l].socket_fd # fd
      BY <1>1, <3>1, <3>2, <3>3, <3>4, DisconnectLeases
    <3> QED
      BY <1>6, <3>5 DEF LeasesAfter
  <2> QED
    BY <2>1, <2>2
<1> HIDE DEF r, seen
<1> QED
  BY <1>1, <1>2, <1>4, <1>5, <1>11, BecomeLeases

\* Clients that send or leave, and writers who do not empty files.
LEMMA EnvironmentLeases ==
  ASSUME LeaseInv, Frugal,
         \/ \E fd \in Clients : ClientSend(fd) \/ ClientFin(fd) \/ ClientReset(fd)
         \/ \E name \in Names, size \in Sizes : Edit(name, size)
         \/ UNCHANGED svars
  PROVE  LeaseInv'
<1>1. TurnInv'
  BY EnvironmentTurns DEF LeaseInv, Frugal
<1>2. server' = server
  BY DEF ClientSend, ClientFin, ClientReset, Edit, svars
<1>3. LeaseUsed(server)'
  BY <1>2 DEF LeaseInv, LeaseUsed, UsedBy
<1>4. \A name \in Names : disk'[name] # 0
  <2>1. disk \in [Names -> Nat \cup {Absent}]
    BY DEF LeaseInv, TurnInv, SlotInv, Inv, TypeOK
  <2>2. CASE disk' = disk
    BY <2>2 DEF LeaseInv
  <2>3. CASE \E name \in Names, size \in Sizes : Edit(name, size)
    BY <2>1, <2>3 DEF Edit, LeaseInv, Frugal, NoEmptyFiles
  <2> QED
    BY <2>2, <2>3 DEF ClientSend, ClientFin, ClientReset, svars
<1> QED
  BY <1>1, <1>3, <1>4 DEF LeaseInv

\* No file is open yet.
LEMMA LeasesInit == Init /\ NoEmptyFiles => LeaseInv
<1> SUFFICES ASSUME Init, NoEmptyFiles
             PROVE  LeaseInv
  OBVIOUS
<1>1. Leased(server.files) = {}
  BY DEF Init, StartedServer, Leased, EmptyTables, FreeOpened
<1> QED
  BY <1>1, TurnsInit DEF Init, LeaseInv, LeaseUsed, NoEmptyFiles

LEMMA LeasesImply == LeaseInv => NoOrphanLease
<1> SUFFICES ASSUME LeaseInv, NEW l \in Slots,
                    server.files.opened[l].socket_fd \in Clients
             PROVE  \E j \in Transfers :
                      /\ server.send_d[j].socket_fd = server.files.opened[l].socket_fd
                      /\ server.send_d[j].file = server.files.opened[l].file
  BY DEF NoOrphanLease
<1>1. server.files \in Tables
  BY DEF LeaseInv, TurnInv, SlotInv, Inv, ServerOK, TablesOK
<1>2. l \in Leased(server.files)
  BY <1>1, SlotType, ClientsAssumption DEF Leased, FreeOpened
<1>3. UsedBy(server, server.files.opened[l])
  BY <1>2 DEF LeaseInv, LeaseUsed
<1> QED
  BY <1>3 DEF UsedBy, Transfers
=============================================================================
