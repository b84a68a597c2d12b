---------------------------- MODULE FilesIOProofs ----------------------------
(***************************************************************************)
(* Proofs about the operators of FilesIO, for every number of slots,       *)
(* clients and files: what CacheAdd, Register, Fopen, FopenUnlisted and    *)
(* Fclose preserve of the tables they are applied to.                      *)
(*                                                                         *)
(* TablesOK is stated for one value t of tables, so that the lemmas serve  *)
(* the actions of OpenFiles and the handlers of the server alike.          *)
(***************************************************************************)
EXTENDS FilesIO, FiniteSetTheorems, WellFoundedInduction, TLAPS

Leased(t) == {i \in Slots : t.opened[i].file # NULL}
Cached(t) == {i \in Slots : t.cached[i].file # NULL}

SharedStreams(t) ==
  \A i, j \in Leased(t) : t.opened[i].filename = t.opened[j].filename
                            <=> t.opened[i].file = t.opened[j].file

UniqueLeases(t) ==
  \A i, j \in Leased(t) : /\ t.opened[i].filename = t.opened[j].filename
                          /\ t.opened[i].socket_fd = t.opened[j].socket_fd
                          => i = j

LiveLeases(t) == t.live = {t.opened[i].file : i \in Leased(t)}

LeasedCache(t) ==
  \A k \in Cached(t) : \E i \in Leased(t) :
    /\ t.opened[i].filename = t.cached[k].filename
    /\ t.opened[i].file = t.cached[k].file

UniqueCache(t) ==
  \A k, l \in Cached(t) : t.cached[k].file = t.cached[l].file => k = l

\* CacheDelete is not called when sendfile is used, so nothing may be cached.
CacheUnused(t) == UseSendfile => Cached(t) = {}

TablesOK(t) == /\ t \in Tables
               /\ SharedStreams(t)
               /\ UniqueLeases(t)
               /\ LiveLeases(t)
               /\ LeasedCache(t)
               /\ UniqueCache(t)
               /\ CacheUnused(t)

-----------------------------------------------------------------------------
(* Choices and cardinalities. *)

\* Every non-empty set of natural numbers has a least element.
LEMMA LeastElement ==
  ASSUME NEW S \in SUBSET Nat, S # {}
  PROVE  \E m \in S : \A y \in S : m <= y
<1>1. PICK m \in S : \A y \in S : ~(<<y, m>> \in OpToRel(<, Nat))
  BY WFMin, NatLessThanWellFounded
<1>2. \A y \in S : y \in Nat /\ m \in Nat
  OBVIOUS
<1>3. \A y \in S : ~(y < m)
  BY <1>1, <1>2, Zenon DEF OpToRel
<1> QED
  BY <1>2, <1>3

\* First finds a slot: the scans of the table from below end at one.
LEMMA FirstIsMember ==
  ASSUME NEW S \in SUBSET Slots, S # {}
  PROVE  First(S) \in S
<1>1. PICK m \in S : \A y \in S : m <= y
  BY LeastElement DEF Slots
<1> QED
  BY <1>1, Zenon DEF First

\* Last finds a member of a set of numbers up to a bound.
LEMMA GreatestElement ==
  ASSUME NEW N \in Nat, NEW S \in SUBSET (0..N), S # {}
  PROVE  Last(S) \in S /\ \A x \in S : x <= Last(S)
<1> DEFINE T == {N - x : x \in S}
<1>1. T # {}
  OBVIOUS
<1>2. T \in SUBSET Nat
  <2>1. \A x \in S : N - x \in Nat
    OBVIOUS
  <2> QED
    BY <2>1
<1>3. PICK m \in T : \A y \in T : m <= y
  BY <1>1, <1>2, LeastElement
<1>4. PICK l \in S : m = N - l
  OBVIOUS
<1>5. \A x \in S : x <= l
  <2> TAKE x \in S
  <2>1. N - l <= N - x
    BY <1>3, <1>4
  <2> QED
    BY <2>1
<1> QED
  BY <1>5, Zenon DEF Last

\* Last finds a slot: the scans from above end at one.
LEMMA LastIsMember ==
  ASSUME NEW S \in SUBSET Slots, S # {}
  PROVE  Last(S) \in S
<1>1. S \in SUBSET (0..MaxOpenFiles) /\ MaxOpenFiles \in Nat
  BY MaxOpenFilesAssumption DEF Slots
<1> QED
  BY <1>1, GreatestElement

\* A set of slots has more than one member if and only if two of them differ.
LEMMA MoreThanOne ==
  ASSUME NEW S \in SUBSET Slots
  PROVE  Cardinality(S) > 1 <=> \E i, j \in S : i # j
<1>1. IsFiniteSet(S) /\ Cardinality(S) \in Nat
  <2>1. IsFiniteSet(Slots)
    BY FS_Interval, MaxOpenFilesAssumption DEF Slots
  <2>2. IsFiniteSet(S)
    BY <2>1, FS_Subset
  <2> QED
    BY <2>2, FS_CardinalityType
<1>2. ASSUME NEW i \in S, NEW j \in S, i # j
      PROVE  Cardinality(S) > 1
  <2>1. IsFiniteSet({i}) /\ Cardinality({i}) = 1
    BY FS_Singleton
  <2>2. Cardinality({i}) <= Cardinality(S) /\ (Cardinality(S) = Cardinality({i}) => S = {i})
    BY <1>1, FS_Subset
  <2> QED
    BY <1>1, <1>2, <2>1, <2>2
<1>3. ASSUME Cardinality(S) > 1
      PROVE  \E i, j \in S : i # j
  <2>1. S # {}
    BY <1>3, FS_EmptySet
  <2>2. PICK i \in S : TRUE
    BY <2>1
  <2>3. S # {i}
    BY <1>3, FS_Singleton
  <2> QED
    BY <2>2, <2>3
<1> QED
  BY <1>2, <1>3
-----------------------------------------------------------------------------
(* What an operator changes. *)

\* One more lease: the stream goes into a free slot of the table.
AddLease(t, k, file, name, fd, size) ==
  [t EXCEPT !.live = @ \cup {file},
            !.opened[k] = [filename |-> name, file |-> file, size |-> size, socket_fd |-> fd]]

\* The name and the stream may share a slot: whoever has one has the other.
Matching(t, name, file) ==
  \A i \in Leased(t) : t.opened[i].filename = name <=> t.opened[i].file = file

\* A slot of the table is in use with a name, a stream and a client, or free.
LEMMA SlotType ==
  ASSUME NEW t \in Tables, NEW i \in Slots
  PROVE  /\ t.opened[i] \in OpenedFile \cup {FreeOpened}
         /\ t.cached[i] \in FileCache \cup {FreeCached}
         /\ t.opened[i].file = NULL <=> t.opened[i] = FreeOpened
         /\ t.opened[i].filename = NULL <=> t.opened[i] = FreeOpened
         /\ t.cached[i].file = NULL <=> t.cached[i] = FreeCached
         /\ t.cached[i].filename = NULL <=> t.cached[i] = FreeCached
<1>1. /\ t.opened[i] \in OpenedFile \cup {FreeOpened}
      /\ t.cached[i] \in FileCache \cup {FreeCached}
  BY DEF Tables
<1> QED
  BY <1>1, NullAssumption DEF OpenedFile, FileCache, FreeOpened, FreeCached

\* A lease in a free slot keeps the table and the cache consistent.
LEMMA AddLeaseOK ==
  ASSUME NEW t, TablesOK(t),
         NEW k \in Slots, t.opened[k].file = NULL,
         NEW file \in Streams, NEW name \in Names, NEW fd \in Owners, NEW size \in Nat,
         Matching(t, name, file),
         \A i \in Leased(t) : ~(t.opened[i].filename = name /\ t.opened[i].socket_fd = fd)
  PROVE  TablesOK(AddLease(t, k, file, name, fd, size))
<1> DEFINE r == AddLease(t, k, file, name, fd, size)
           e == [filename |-> name, file |-> file, size |-> size, socket_fd |-> fd]
<1>1. t \in Tables
  BY DEF TablesOK
<1>2. /\ r.opened = [t.opened EXCEPT ![k] = e]
      /\ r.cached = t.cached
      /\ r.live = t.live \cup {file}
      /\ r.leaked = t.leaked
  BY <1>1 DEF AddLease, Tables
<1>3. r \in Tables
  <2>1. e \in OpenedFile
    BY DEF OpenedFile
  <2> QED
    BY <1>1, <2>1 DEF AddLease, Tables
<1>4. /\ r.opened[k] = e
      /\ \A i \in Slots \ {k} : r.opened[i] = t.opened[i]
  BY <1>1, <1>2 DEF Tables
<1>5. Leased(r) = Leased(t) \cup {k} /\ k \notin Leased(t)
  BY <1>4, NullAssumption DEF Leased
<1>6. Cached(r) = Cached(t)
  BY <1>2 DEF Cached
<1> HIDE DEF r, e
<1>7. e.filename = name /\ e.file = file /\ e.socket_fd = fd
  BY DEF e
<1>8. \A i \in Leased(t) : i \in Slots /\ i # k /\ r.opened[i] = t.opened[i]
  BY <1>4, <1>5 DEF Leased
<1>9. SharedStreams(r)
  BY <1>4, <1>5, <1>7, <1>8 DEF TablesOK, SharedStreams, Matching
<1>10. UniqueLeases(r)
  BY <1>4, <1>5, <1>7, <1>8 DEF TablesOK, UniqueLeases
<1>11. LiveLeases(r)
  BY <1>2, <1>4, <1>5, <1>7, <1>8 DEF TablesOK, LiveLeases
<1>12. LeasedCache(r)
  BY <1>2, <1>5, <1>6, <1>8 DEF TablesOK, LeasedCache
<1>13. UniqueCache(r) /\ CacheUnused(r)
  BY <1>2, <1>6 DEF TablesOK, UniqueCache, CacheUnused
<1> QED
  BY <1>3, <1>9, <1>10, <1>11, <1>12, <1>13 DEF TablesOK, r

\* CACHE_add keeps them consistent if the file has a slot of the table.
LEMMA CacheAddOK ==
  ASSUME NEW t, TablesOK(t), ~UseSendfile,
         NEW file \in Streams, NEW name \in Names, NEW size \in Nat,
         NEW k \in Slots, t.opened[k].filename = name, t.opened[k].file = file
  PROVE  /\ TablesOK(CacheAdd(t, file, name, size))
         /\ CacheAdd(t, file, name, size).opened = t.opened
<1> DEFINE free == CacheOf(t, NULL)
           c == Last(free)
           e == [filename |-> name, file |-> file, size |-> size]
           r == [t EXCEPT !.cached[c] = e]
<1>1. CASE size = 0 \/ CachedAs(t, name) # {} \/ free = {}
  BY <1>1 DEF CacheAdd
<1>2. CASE ~(size = 0 \/ CachedAs(t, name) # {} \/ free = {})
  <2>1. CacheAdd(t, file, name, size) = r
    BY <1>2 DEF CacheAdd
  <2>2. t \in Tables
    BY DEF TablesOK
  <2>3. c \in Slots /\ t.cached[c].file = NULL
    <3>1. free \subseteq Slots
      BY DEF CacheOf
    <3>2. c \in free
      BY <1>2, <3>1, LastIsMember
    <3> QED
      BY <3>2 DEF CacheOf
  <2> HIDE DEF c
  <2>4. /\ r.opened = t.opened /\ r.live = t.live /\ r.leaked = t.leaked
        /\ r.cached = [t.cached EXCEPT ![c] = e]
    BY <2>2 DEF Tables
  <2>5. e \in FileCache
    BY <1>2 DEF FileCache
  <2>6. r \in Tables
    BY <2>2, <2>5 DEF Tables
  <2>7. r.cached[c] = e /\ \A i \in Slots \ {c} : r.cached[i] = t.cached[i]
    BY <2>2, <2>3, <2>4 DEF Tables
  <2> HIDE DEF r
  <2>8. Leased(r) = Leased(t) /\ Cached(r) = Cached(t) \cup {c} /\ c \notin Cached(t)
    BY <2>3, <2>4, <2>7, NullAssumption DEF Leased, Cached
  <2>9. k \in Leased(t)
    BY NullAssumption DEF Leased
  <2>10. e.filename = name /\ e.file = file
    OBVIOUS
  <2> HIDE DEF e
  <2>11. \A i \in Cached(t) : t.cached[i].file # file
    <3> SUFFICES ASSUME NEW i \in Cached(t), t.cached[i].file = file
                 PROVE  FALSE
      OBVIOUS
    <3>1. PICK j \in Leased(t) : /\ t.opened[j].filename = t.cached[i].filename
                                 /\ t.opened[j].file = t.cached[i].file
      BY DEF TablesOK, LeasedCache
    <3>2. t.cached[i].filename = name
      BY <2>9, <3>1 DEF TablesOK, SharedStreams
    <3> QED
      BY <1>2, <3>2 DEF CachedAs, Cached
  <2>12. SharedStreams(r) /\ UniqueLeases(r) /\ LiveLeases(r)
    BY <2>4, <2>8 DEF TablesOK, SharedStreams, UniqueLeases, LiveLeases
  <2>13. LeasedCache(r)
    <3> SUFFICES ASSUME NEW l \in Cached(r)
                 PROVE  \E i \in Leased(r) : /\ r.opened[i].filename = r.cached[l].filename
                                             /\ r.opened[i].file = r.cached[l].file
      BY DEF LeasedCache
    <3>1. CASE l = c
      BY <2>4, <2>7, <2>8, <2>9, <2>10, <3>1
    <3>2. CASE l # c
      BY <2>4, <2>7, <2>8, <3>2 DEF TablesOK, LeasedCache, Cached
    <3> QED
      BY <3>1, <3>2
  <2>14. UniqueCache(r)
    <3>1. \A i \in Cached(t) : r.cached[i] = t.cached[i]
      BY <2>7, <2>8 DEF Cached
    <3> QED
      BY <2>7, <2>8, <2>10, <2>11, <3>1 DEF TablesOK, UniqueCache
  <2>15. CacheUnused(r)
    BY DEF CacheUnused
  <2> QED
    BY <2>1, <2>4, <2>6, <2>12, <2>13, <2>14, <2>15 DEF TablesOK
<1> QED
  BY <1>1, <1>2

\* The count of lost streams does not matter.
LEMMA LeakOK ==
  ASSUME NEW t, TablesOK(t)
  PROVE  TablesOK([t EXCEPT !.leaked = @ + 1])
<1> DEFINE r == [t EXCEPT !.leaked = @ + 1]
<1>1. t \in Tables
  BY DEF TablesOK
<1>2. r \in Tables /\ r.opened = t.opened /\ r.cached = t.cached /\ r.live = t.live
  BY <1>1 DEF Tables
<1> HIDE DEF r
<1>3. Leased(r) = Leased(t) /\ Cached(r) = Cached(t)
  BY <1>2 DEF Leased, Cached
<1>4. TablesOK(r)
  BY <1>2, <1>3 DEF TablesOK, SharedStreams, UniqueLeases, LiveLeases, LeasedCache,
                    UniqueCache, CacheUnused
<1> QED
  BY <1>4 DEF r

\* The second half of battery_fopen keeps table and cache consistent for a
\* client without a slot.
LEMMA RegisterOK ==
  ASSUME NEW t, TablesOK(t),
         NEW file \in Streams, NEW name \in Names, NEW fd \in Owners, NEW size \in Nat,
         Matching(t, name, file), OwnSlots(t, name, fd) = {}
  PROVE  TablesOK(Register(t, file, name, fd, size))
<1> DEFINE free == HoldersOf(t, NULL)
           k == First(free)
           r == AddLease(t, k, file, name, fd, size)
<1>1. CASE free = {}
  <2>1. \/ Register(t, file, name, fd, size) = t
        \/ Register(t, file, name, fd, size) = [t EXCEPT !.leaked = @ + 1]
    BY <1>1 DEF Register
  <2> QED
    BY <2>1, LeakOK
<1>2. CASE free # {}
  <2>1. k \in Slots /\ t.opened[k].file = NULL
    <3>1. k \in free
      BY <1>2, FirstIsMember DEF HoldersOf
    <3> QED
      BY <3>1 DEF HoldersOf
  <2>2. \A i \in Leased(t) : ~(t.opened[i].filename = name /\ t.opened[i].socket_fd = fd)
    BY DEF OwnSlots, OpenedAs, Leased
  <2>3. Register(t, file, name, fd, size) =
          IF UseSendfile THEN r ELSE CacheAdd(r, file, name, size)
    BY <1>2 DEF Register, AddLease
  <2> HIDE DEF k
  <2>4. TablesOK(r)
    BY <2>1, <2>2, AddLeaseOK
  <2>5. r.opened[k].filename = name /\ r.opened[k].file = file
    BY <2>1 DEF AddLease, TablesOK, Tables
  <2> HIDE DEF r
  <2> QED
    BY <2>1, <2>3, <2>4, <2>5, CacheAddOK
<1> QED
  BY <1>1, <1>2

\* The stream battery_fopen finds, or opens, for a name is the one that every
\* slot with this name, and no other slot, holds.  It opens one, which is not in
\* use, only if no slot has the name.
LEMMA FopenResultMatches ==
  ASSUME NEW t, TablesOK(t), NEW name \in Names, NEW fd \in Owners,
         NEW new, OpenedAs(t, name) = {} => new \in (Streams \ t.live) \cup {NULL},
         FopenResult(t, name, fd, new) # NULL
  PROVE  /\ FopenResult(t, name, fd, new) \in Streams
         /\ Matching(t, name, FopenResult(t, name, fd, new))
<1> DEFINE found == OpenedAs(t, name)
           own == OwnSlots(t, name, fd)
           file == FopenResult(t, name, fd, new)
<1>0. t \in Tables
  BY DEF TablesOK
<1>1. found \subseteq Leased(t)
  BY <1>0, SlotType, NullAssumption DEF OpenedAs, Leased
<1>2. CASE found = {}
  <2>1. file = new /\ file \in Streams \ t.live
    BY <1>2 DEF FopenResult, Lookup, OwnSlots
  <2>2. \A i \in Leased(t) : t.opened[i].filename # name /\ t.opened[i].file # file
    BY <1>2, <2>1 DEF OpenedAs, Leased, TablesOK, LiveLeases
  <2> QED
    BY <2>1, <2>2 DEF Matching
<1>3. CASE found # {}
  <2>1. PICK i \in found : Lookup(t, name, fd) = t.opened[i].file
    <3>1. own # {} => First(own) \in own
      BY FirstIsMember DEF OwnSlots, OpenedAs
    <3>2. Last(found) \in found
      BY <1>3, LastIsMember DEF OpenedAs
    <3> QED
      BY <1>3, <3>1, <3>2 DEF Lookup, OwnSlots
  <2>2. file = t.opened[i].file /\ i \in Leased(t) /\ t.opened[i].filename = name
    BY <1>1, <2>1 DEF FopenResult, Leased, OpenedAs
  <2>3. file \in Streams
    BY <1>0, <2>2, SlotType, NullAssumption DEF Leased, OpenedFile, FreeOpened
  <2>4. Matching(t, name, file)
    BY <2>2 DEF Matching, TablesOK, SharedStreams
  <2> QED
    BY <2>3, <2>4
<1> QED
  BY <1>2, <1>3

\* battery_fopen with add_to_list = 1.
LEMMA FopenOK ==
  ASSUME NEW t, TablesOK(t), NEW name \in Names, NEW fd \in Owners,
         NEW new, OpenedAs(t, name) = {} => new \in (Streams \ t.live) \cup {NULL},
         NEW size \in Nat
  PROVE  TablesOK(Fopen(t, name, fd, new, size))
<1> DEFINE file == FopenResult(t, name, fd, new)
<1>1. CASE file = NULL \/ OwnSlots(t, name, fd) # {}
  BY <1>1 DEF Fopen
<1>2. CASE file # NULL /\ OwnSlots(t, name, fd) = {}
  <2>1. file \in Streams /\ Matching(t, name, file)
    BY <1>2, FopenResultMatches
  <2>2. Fopen(t, name, fd, new, size) = Register(t, file, name, fd, size)
    BY <1>2 DEF Fopen
  <2> HIDE DEF file
  <2> QED
    BY <1>2, <2>1, <2>2, RegisterOK
<1> QED
  BY <1>1, <1>2

\* battery_fopen with add_to_list = 0.
LEMMA FopenUnlistedOK ==
  ASSUME NEW t, TablesOK(t), NEW name \in Names
  PROVE  TablesOK(FopenUnlisted(t, name))
BY LeakOK DEF FopenUnlisted

(***************************************************************************)
(* battery_fclose.  DropLeases is the table without the caller's leases,   *)
(* the part of battery_fclose that it always does.                         *)
(***************************************************************************)
DropLeases(t, file, fd) ==
  [t EXCEPT !.opened = [i \in Slots |-> IF i \in LeasesOf(t, file, fd) THEN FreeOpened ELSE @[i]]]

\* The leases that are left are those of the others, unchanged.
LEMMA DropLeasesFacts ==
  ASSUME NEW t \in Tables, NEW file \in Streams, NEW fd \in Owners
  PROVE  LET u == DropLeases(t, file, fd)
         IN /\ u \in Tables
            /\ u.cached = t.cached /\ u.live = t.live /\ u.leaked = t.leaked
            /\ Leased(u) = Leased(t) \ LeasesOf(t, file, fd)
            /\ \A i \in Leased(u) : u.opened[i] = t.opened[i]
<1> DEFINE mine == LeasesOf(t, file, fd)
           u == DropLeases(t, file, fd)
<1>1. /\ u.opened = [i \in Slots |-> IF i \in mine THEN FreeOpened ELSE t.opened[i]]
      /\ u.cached = t.cached /\ u.live = t.live /\ u.leaked = t.leaked
  BY DEF DropLeases, Tables
<1>2. u \in Tables
  <2>1. u.opened \in [Slots -> OpenedFile \cup {FreeOpened}]
    BY <1>1 DEF Tables
  <2> QED
    BY <2>1 DEF DropLeases, Tables
<1>3. Leased(u) = Leased(t) \ mine
  BY <1>1, NullAssumption DEF Leased, FreeOpened
<1>4. \A i \in Leased(u) : u.opened[i] = t.opened[i]
  BY <1>1, <1>3 DEF Leased
<1> QED
  BY <1>1, <1>2, <1>3, <1>4

\* CACHE_delete removes every cache entry of the file: there is only one.
LEMMA CacheDeleteFacts ==
  ASSUME NEW t \in Tables, UniqueCache(t), NEW file \in Streams
  PROVE  LET c == CacheDelete(t, file)
         IN /\ c \in Tables
            /\ c.opened = t.opened /\ c.live = t.live /\ c.leaked = t.leaked
            /\ Cached(c) = Cached(t) \ CacheOf(t, file)
            /\ \A i \in Cached(c) : c.cached[i] = t.cached[i]
<1> DEFINE old == CacheOf(t, file)
           l == Last(old)
           c == CacheDelete(t, file)
<1>1. CASE old = {}
  BY <1>1 DEF CacheDelete, Cached
<1>2. CASE old # {}
  <2>1. l \in old
    BY <1>2, LastIsMember DEF CacheOf
  <2>2. l \in Slots /\ l \in Cached(t)
    BY <2>1, NullAssumption DEF CacheOf, Cached
  <2>3. old = {l}
    BY <2>1, NullAssumption DEF CacheOf, Cached, UniqueCache
  <2>4. c = [t EXCEPT !.cached[l] = FreeCached]
    BY <1>2 DEF CacheDelete
  <2> HIDE DEF l
  <2>5. /\ c.opened = t.opened /\ c.live = t.live /\ c.leaked = t.leaked
        /\ c.cached = [t.cached EXCEPT ![l] = FreeCached]
        /\ c \in Tables
    BY <2>4 DEF Tables
  <2>6. c.cached[l] = FreeCached /\ \A i \in Slots \ {l} : c.cached[i] = t.cached[i]
    BY <2>2, <2>5 DEF Tables
  <2> HIDE DEF c
  <2>7. Cached(c) = Cached(t) \ {l}
    BY <2>6, NullAssumption DEF Cached, FreeCached
  <2>8. \A i \in Cached(c) : c.cached[i] = t.cached[i]
    BY <2>6, <2>7 DEF Cached
  <2> QED
    BY <2>3, <2>5, <2>7, <2>8 DEF c
<1> QED
  BY <1>1, <1>2

\* The consistency of the rest, when leases and cache entries are taken away
\* and every cache entry that remains keeps a lease.
LEMMA SmallerOK ==
  ASSUME NEW t, TablesOK(t), NEW r \in Tables,
         Leased(r) \subseteq Leased(t), \A i \in Leased(r) : r.opened[i] = t.opened[i],
         Cached(r) \subseteq Cached(t), \A i \in Cached(r) : r.cached[i] = t.cached[i],
         LiveLeases(r),
         \A k \in Cached(r) : \E i \in Leased(r) : r.opened[i].file = r.cached[k].file
  PROVE  TablesOK(r)
<1>1. SharedStreams(r)
  BY DEF TablesOK, SharedStreams
<1>2. UniqueLeases(r)
  BY DEF TablesOK, UniqueLeases
<1>3. LeasedCache(r)
  <2> SUFFICES ASSUME NEW k \in Cached(r)
               PROVE  \E i \in Leased(r) : /\ r.opened[i].filename = r.cached[k].filename
                                           /\ r.opened[i].file = r.cached[k].file
    BY DEF LeasedCache
  <2>1. PICK i \in Leased(r) : r.opened[i].file = r.cached[k].file
    OBVIOUS
  <2>2. PICK j \in Leased(t) : /\ t.opened[j].filename = t.cached[k].filename
                               /\ t.opened[j].file = t.cached[k].file
    BY DEF TablesOK, LeasedCache
  <2>3. t.opened[i].file = t.opened[j].file /\ i \in Leased(t)
    BY <2>1, <2>2
  <2>4. t.opened[i].filename = t.opened[j].filename
    BY <2>3 DEF TablesOK, SharedStreams
  <2> QED
    BY <2>1, <2>2, <2>4
<1>4. UniqueCache(r) /\ CacheUnused(r)
  BY DEF TablesOK, UniqueCache, CacheUnused
<1> QED
  BY <1>1, <1>2, <1>3, <1>4 DEF TablesOK

\* A client has at most one lease on a stream.
LEMMA AtMostOneLease ==
  ASSUME NEW t, TablesOK(t), NEW file \in Streams, NEW fd \in Owners
  PROVE  \A i, j \in LeasesOf(t, file, fd) : i = j
<1> SUFFICES ASSUME NEW i \in LeasesOf(t, file, fd), NEW j \in LeasesOf(t, file, fd)
             PROVE  i = j
  OBVIOUS
<1>1. /\ i \in Leased(t) /\ t.opened[i].file = file /\ t.opened[i].socket_fd = fd
      /\ j \in Leased(t) /\ t.opened[j].file = file /\ t.opened[j].socket_fd = fd
  BY NullAssumption DEF LeasesOf, HoldersOf, Leased
<1>2. t.opened[i].filename = t.opened[j].filename
  BY <1>1 DEF TablesOK, SharedStreams
<1> QED
  BY <1>1, <1>2 DEF TablesOK, UniqueLeases

\* battery_fclose keeps table and cache consistent, whoever calls it with
\* whatever stream.
LEMMA FcloseOK ==
  ASSUME NEW t, TablesOK(t), NEW file \in Streams, NEW fd \in Owners
  PROVE  TablesOK(Fclose(t, file, fd))
<1> DEFINE mine == LeasesOf(t, file, fd)
           holders == HoldersOf(t, file)
           u == DropLeases(t, file, fd)
           c == IF UseSendfile THEN u ELSE CacheDelete(u, file)
           r == [c EXCEPT !.live = IF mine = {} THEN @ ELSE @ \ {file}]
<1>1. t \in Tables
  BY DEF TablesOK
<1>2. /\ u \in Tables
      /\ u.cached = t.cached /\ u.live = t.live /\ u.leaked = t.leaked
      /\ Leased(u) = Leased(t) \ mine
      /\ \A i \in Leased(u) : u.opened[i] = t.opened[i]
  BY <1>1, DropLeasesFacts
<1>3. Fclose(t, file, fd) = IF Cardinality(holders) > 1 THEN u ELSE r
  BY NullAssumption DEF Fclose, DropLeases
<1>4. /\ holders \in SUBSET Slots
      /\ mine \subseteq holders
      /\ holders = {i \in Leased(t) : t.opened[i].file = file}
  BY NullAssumption DEF HoldersOf, LeasesOf, Leased
<1> HIDE DEF u
<1>5. Cached(u) = Cached(t)
  BY <1>2 DEF Cached
<1>6. CASE Cardinality(holders) > 1
  <2>1. PICK i \in holders : i \notin mine
    BY <1>4, <1>6, MoreThanOne, AtMostOneLease
  <2>2. i \in Leased(u) /\ u.opened[i].file = file
    BY <1>2, <1>4, <2>1
  <2>3. LiveLeases(u)
    <3>1. \A j \in Leased(t) : \E m \in Leased(u) : u.opened[m].file = t.opened[j].file
      BY <1>2, <1>4, <2>2
    <3> QED
      BY <1>2, <3>1 DEF TablesOK, LiveLeases
  <2>4. \A k \in Cached(u) : \E j \in Leased(u) : u.opened[j].file = u.cached[k].file
    BY <1>2, <1>4, <1>5, <2>2 DEF TablesOK, LeasedCache
  <2>5. TablesOK(u)
    BY <1>2, <1>5, <2>3, <2>4, SmallerOK
  <2> QED
    BY <1>3, <1>6, <2>5
<1>7. CASE ~(Cardinality(holders) > 1)
  <2>1. \A i, j \in holders : i = j
    BY <1>4, <1>7, MoreThanOne
  <2>2. mine # {} => mine = holders
    BY <1>4, <2>1
  <2>3. UniqueCache(u)
    BY <1>2, <1>5 DEF TablesOK, UniqueCache
  <2>4. /\ c \in Tables
        /\ c.opened = u.opened /\ c.live = u.live /\ c.leaked = u.leaked
        /\ Cached(c) \subseteq {k \in Cached(u) : u.cached[k].file # file}
        /\ \A i \in Cached(c) : c.cached[i] = u.cached[i]
    <3>1. CASE UseSendfile
      BY <1>2, <1>5, <3>1 DEF TablesOK, CacheUnused
    <3>2. CASE ~UseSendfile
      BY <1>2, <2>3, <3>2, CacheDeleteFacts DEF CacheOf, Cached
    <3> QED
      BY <3>1, <3>2
  <2> HIDE DEF c
  <2>5. /\ r \in Tables
        /\ r.opened = u.opened /\ r.cached = c.cached
        /\ r.live = IF mine = {} THEN t.live ELSE t.live \ {file}
    BY <1>2, <2>4 DEF Tables
  <2> HIDE DEF r
  <2>6. Leased(r) = Leased(u) /\ Cached(r) = Cached(c)
    BY <2>5 DEF Leased, Cached
  <2>7. LiveLeases(r)
    <3>1. CASE mine = {}
      BY <1>2, <2>5, <2>6, <3>1 DEF TablesOK, LiveLeases
    <3>2. CASE mine # {}
      <4>1. \A i \in Leased(r) : r.opened[i] = t.opened[i] /\ r.opened[i].file # file
        BY <1>2, <1>4, <2>2, <2>5, <2>6, <3>2
      <4>2. Leased(r) = {i \in Leased(t) : t.opened[i].file # file}
        BY <1>2, <1>4, <2>2, <2>6, <3>2
      <4> QED
        BY <2>5, <3>2, <4>1, <4>2 DEF TablesOK, LiveLeases
    <3> QED
      BY <3>1, <3>2
  <2>8. \A k \in Cached(r) : \E i \in Leased(r) : r.opened[i].file = r.cached[k].file
    <3> SUFFICES ASSUME NEW k \in Cached(r)
                 PROVE  \E i \in Leased(r) : r.opened[i].file = r.cached[k].file
      OBVIOUS
    <3>1. r.cached[k] = t.cached[k] /\ k \in Cached(t) /\ t.cached[k].file # file
      BY <1>2, <1>5, <2>4, <2>5, <2>6
    <3>2. PICK i \in Leased(t) : t.opened[i].file = t.cached[k].file
      BY <3>1 DEF TablesOK, LeasedCache
    <3>3. i \in Leased(r) /\ r.opened[i] = t.opened[i]
      BY <1>2, <1>4, <2>5, <2>6, <3>1, <3>2
    <3> QED
      BY <3>1, <3>2, <3>3
  <2>9. TablesOK(r)
    BY <1>2, <1>5, <2>4, <2>5, <2>6, <2>7, <2>8, SmallerOK
  <2> QED
    BY <1>3, <1>7, <2>9
<1> QED
  BY <1>6, <1>7

\* When the table has a free slot the cache has one: there are at most as many
\* cache entries as leases.
LEMMA CacheHasRoom ==
  ASSUME NEW t, TablesOK(t), NEW k \in Slots, t.opened[k].file = NULL
  PROVE  CacheOf(t, NULL) # {}
<1> SUFFICES ASSUME CacheOf(t, NULL) = {}
             PROVE  FALSE
  OBVIOUS
<1> DEFINE holder == [l \in Slots |-> CHOOSE i \in Leased(t) : t.opened[i].file = t.cached[l].file]
<1>1. Cached(t) = Slots
  BY DEF CacheOf, Cached
<1>2. \A l \in Slots : holder[l] \in Leased(t) /\ t.opened[holder[l]].file = t.cached[l].file
  <2> TAKE l \in Slots
  <2>1. \E i \in Leased(t) : t.opened[i].file = t.cached[l].file
    BY <1>1 DEF TablesOK, LeasedCache
  <2>2. holder[l] = CHOOSE i \in Leased(t) : t.opened[i].file = t.cached[l].file
    OBVIOUS
  <2> QED
    BY <2>1, <2>2, Zenon
<1> HIDE DEF holder
<1>3. IsFiniteSet(Slots) /\ Leased(t) \subseteq Slots /\ k \notin Leased(t)
  BY FS_Interval, MaxOpenFilesAssumption DEF Slots, Leased
<1>4. IsFiniteSet(Leased(t)) /\ Cardinality(Leased(t)) < Cardinality(Slots)
  <2>1. /\ IsFiniteSet(Leased(t))
        /\ Cardinality(Leased(t)) <= Cardinality(Slots)
        /\ Cardinality(Leased(t)) # Cardinality(Slots)
    BY <1>3, FS_Subset
  <2>2. Cardinality(Leased(t)) \in Nat /\ Cardinality(Slots) \in Nat
    BY <1>3, <2>1, FS_CardinalityType
  <2> QED
    BY <2>1, <2>2
<1>5. holder \in [Slots -> Leased(t)]
  BY <1>2 DEF holder
<1>6. PICK l \in Slots, m \in Slots : l # m /\ holder[l] = holder[m]
  <2>1. \E x, y \in Slots : x # y /\ holder[x] = holder[y]
    BY <1>3, <1>4, <1>5, FS_PigeonHole
  <2> QED
    BY <2>1
<1> QED
  BY <1>1, <1>2, <1>6 DEF TablesOK, UniqueCache

(***************************************************************************)
(* What the operators add, and what they leave to the others.              *)
(***************************************************************************)
Kept(t, r) == /\ \A j \in Leased(t) : j \in Leased(r) /\ r.opened[j] = t.opened[j]
              /\ \A k \in Cached(t) : k \in Cached(r) /\ r.cached[k] = t.cached[k]

Added(t, r, file, name, fd, size) ==
  /\ \A j \in Leased(r) \ Leased(t) :
       r.opened[j] = [filename |-> name, file |-> file, size |-> size, socket_fd |-> fd]
  /\ \A k \in Cached(r) \ Cached(t) :
       r.cached[k] = [filename |-> name, file |-> file, size |-> size]

\* CACHE_add fills a free entry or does nothing; a file with content is in the
\* cache afterwards if there was room.
LEMMA CacheAddEffect ==
  ASSUME NEW t \in Tables, NEW file \in Streams, NEW name \in Names, NEW fd, NEW size \in Nat
  PROVE  LET r == CacheAdd(t, file, name, size)
         IN /\ r.opened = t.opened
            /\ Kept(t, r) /\ Added(t, r, file, name, fd, size)
            /\ size # 0 /\ CacheOf(t, NULL) # {} => CachedAs(t, name) # {} \/ CacheOf(r, file) # {}
<1> DEFINE free == CacheOf(t, NULL)
           c == Last(free)
           e == [filename |-> name, file |-> file, size |-> size]
           r == CacheAdd(t, file, name, size)
<1>1. CASE size = 0 \/ CachedAs(t, name) # {} \/ free = {}
  BY <1>1 DEF CacheAdd, Kept, Added
<1>2. CASE ~(size = 0 \/ CachedAs(t, name) # {} \/ free = {})
  <2>1. r = [t EXCEPT !.cached[c] = e]
    BY <1>2 DEF CacheAdd
  <2>2. c \in Slots /\ t.cached[c].file = NULL
    <3>1. c \in free
      BY <1>2, LastIsMember DEF CacheOf
    <3> QED
      BY <3>1 DEF CacheOf
  <2> HIDE DEF c, r
  <2>3. /\ r.opened = t.opened /\ r.cached[c] = e
        /\ \A k \in Slots \ {c} : r.cached[k] = t.cached[k]
    BY <2>1, <2>2 DEF Tables
  <2>4. Leased(r) = Leased(t) /\ c \notin Cached(t) /\ e.file = file
    BY <2>2, <2>3 DEF Leased, Cached
  <2> HIDE DEF e
  <2>5. Cached(r) = Cached(t) \cup {c}
    BY <2>2, <2>3, <2>4, NullAssumption DEF Cached
  <2>6. Kept(t, r)
    BY <2>3, <2>4, <2>5 DEF Kept, Cached
  <2>7. Added(t, r, file, name, fd, size)
    BY <2>3, <2>4, <2>5 DEF Added, e
  <2>8. c \in CacheOf(r, file)
    BY <2>2, <2>3, <2>4 DEF CacheOf
  <2> QED
    BY <2>3, <2>6, <2>7, <2>8 DEF r
<1> QED
  BY <1>1, <1>2

\* The second half of battery_fopen adds the client's own slot, if there is a
\* free one, and the content if it is not empty.
LEMMA RegisterEffect ==
  ASSUME NEW t, TablesOK(t),
         NEW file \in Streams, NEW name \in Names, NEW fd \in Owners, NEW size \in Nat,
         Matching(t, name, file), OwnSlots(t, name, fd) = {}
  PROVE  LET r == Register(t, file, name, fd, size)
         IN /\ Kept(t, r) /\ Added(t, r, file, name, fd, size)
            /\ HoldersOf(t, NULL) # {} =>
                 /\ LeasesOf(r, file, fd) # {}
                 /\ ~UseSendfile /\ size # 0 => CacheOf(r, file) # {}
<1> DEFINE free == HoldersOf(t, NULL)
           k == First(free)
           e == [filename |-> name, file |-> file, size |-> size, socket_fd |-> fd]
           a == AddLease(t, k, file, name, fd, size)
           r == Register(t, file, name, fd, size)
<1>0. t \in Tables
  BY DEF TablesOK
<1>1. CASE free = {}
  <2>1. r = t \/ r = [t EXCEPT !.leaked = @ + 1]
    BY <1>1 DEF Register
  <2>2. r.opened = t.opened /\ r.cached = t.cached
    BY <1>0, <2>1 DEF Tables
  <2> HIDE DEF r
  <2>3. Leased(r) = Leased(t) /\ Cached(r) = Cached(t)
    BY <2>2 DEF Leased, Cached
  <2>4. Kept(t, r) /\ Added(t, r, file, name, fd, size)
    BY <2>2, <2>3 DEF Kept, Added
  <2> QED
    BY <1>1, <2>4 DEF r
<1>2. CASE free # {}
  <2>1. k \in Slots /\ t.opened[k].file = NULL
    <3>1. k \in free
      BY <1>2, FirstIsMember DEF HoldersOf
    <3> QED
      BY <3>1 DEF HoldersOf
  <2>2. r = IF UseSendfile THEN a ELSE CacheAdd(a, file, name, size)
    BY <1>2 DEF Register, AddLease
  <2>3. \A j \in Leased(t) : ~(t.opened[j].filename = name /\ t.opened[j].socket_fd = fd)
    BY DEF OwnSlots, OpenedAs, Leased
  <2> HIDE DEF k
  <2>4. TablesOK(a)
    BY <2>1, <2>3, AddLeaseOK
  <2>5. /\ a.opened[k] = e /\ a.cached = t.cached
        /\ \A j \in Slots \ {k} : a.opened[j] = t.opened[j]
    BY <1>0, <2>1 DEF AddLease, Tables
  <2> HIDE DEF a, r
  <2>6. e.file = file /\ e.socket_fd = fd /\ e.filename = name
    OBVIOUS
  <2> HIDE DEF e
  <2>7. /\ Leased(a) = Leased(t) \cup {k} /\ k \notin Leased(t)
        /\ Cached(a) = Cached(t)
    BY <2>1, <2>5, <2>6, NullAssumption DEF Leased, Cached
  <2>8. Kept(t, a) /\ Added(t, a, file, name, fd, size)
    <3>1. \A j \in Leased(t) : j \in Slots \ {k}
      BY <2>7 DEF Leased
    <3> QED
      BY <2>5, <2>7, <3>1 DEF Kept, Added, e
  <2>9. k \in LeasesOf(a, file, fd)
    BY <2>1, <2>5, <2>6 DEF LeasesOf, HoldersOf
  <2>10. CASE UseSendfile
    BY <2>2, <2>8, <2>9, <2>10 DEF r
  <2>11. CASE ~UseSendfile
    <3>1. r = CacheAdd(a, file, name, size) /\ a \in Tables
      BY <2>2, <2>4, <2>11 DEF TablesOK
    <3>2. /\ r.opened = a.opened
          /\ Kept(a, r) /\ Added(a, r, file, name, fd, size)
          /\ size # 0 /\ CacheOf(a, NULL) # {} => CachedAs(a, name) # {} \/ CacheOf(r, file) # {}
      BY <3>1, CacheAddEffect
    <3>3. Leased(r) = Leased(a)
      BY <3>2 DEF Leased
    <3>4. Kept(t, r)
      BY <2>8, <3>2 DEF Kept
    <3>5. Added(t, r, file, name, fd, size)
      BY <2>7, <2>8, <3>2, <3>3 DEF Added
    <3>6. k \in LeasesOf(r, file, fd)
      BY <2>9, <3>2 DEF LeasesOf, HoldersOf
    <3>7. CacheOf(a, NULL) # {}
      <4>1. CacheOf(t, NULL) # {}
        BY <2>1, CacheHasRoom
      <4> QED
        BY <2>5, <4>1 DEF CacheOf
    <3>8. CachedAs(a, name) # {} => CacheOf(r, file) # {}
      <4> SUFFICES ASSUME NEW l \in CachedAs(a, name)
                   PROVE  l \in CacheOf(r, file)
        OBVIOUS
      <4>1. l \in Cached(a) /\ l \in Slots /\ a.cached[l].filename = name
        BY <3>1, SlotType, NullAssumption DEF CachedAs, Cached
      <4>2. PICK j \in Leased(a) : a.opened[j].filename = name /\ a.opened[j].file = a.cached[l].file
        BY <2>4, <4>1 DEF TablesOK, LeasedCache
      <4>3. a.cached[l].file = file
        BY <2>4, <2>5, <2>6, <2>7, <4>2 DEF TablesOK, SharedStreams
      <4> QED
        BY <3>2, <4>1, <4>3 DEF Kept, CacheOf
    <3> QED
      BY <3>2, <3>4, <3>5, <3>6, <3>7, <3>8 DEF r
  <2> QED
    BY <2>10, <2>11
<1> QED
  BY <1>1, <1>2

\* battery_fopen: the caller has a slot for the stream afterwards, if there was
\* one free, and nobody else's slot or content has changed.
LEMMA FopenEffect ==
  ASSUME NEW t, TablesOK(t), NEW name \in Names, NEW fd \in Owners,
         NEW new, OpenedAs(t, name) = {} => new \in (Streams \ t.live) \cup {NULL},
         NEW size \in Nat
  PROVE  LET r == Fopen(t, name, fd, new, size)
             file == FopenResult(t, name, fd, new)
         IN /\ Kept(t, r) /\ Added(t, r, file, name, fd, size)
            /\ file # NULL /\ (OwnSlots(t, name, fd) = {} => HoldersOf(t, NULL) # {}) =>
                 /\ LeasesOf(r, file, fd) # {}
                 /\ ~UseSendfile /\ size # 0 /\ OwnSlots(t, name, fd) = {} => CacheOf(r, file) # {}
<1> DEFINE file == FopenResult(t, name, fd, new)
           own == OwnSlots(t, name, fd)
           r == Fopen(t, name, fd, new, size)
<1>1. CASE file = NULL
  BY <1>1 DEF Fopen, Kept, Added
<1>2. CASE file # NULL /\ own # {}
  <2>1. r = t
    BY <1>2 DEF Fopen
  <2>2. First(own) \in own
    BY <1>2, FirstIsMember DEF OwnSlots, OpenedAs
  <2>3. t.opened[First(own)].file = file
    <3>1. /\ First(own) \in Slots /\ t.opened[First(own)].filename = name /\ t \in Tables
          /\ name # NULL
      BY <2>2, NullAssumption DEF OwnSlots, OpenedAs, TablesOK
    <3>2. t.opened[First(own)].file # NULL
      BY <3>1, SlotType
    <3>3. Lookup(t, name, fd) = t.opened[First(own)].file
      BY <1>2 DEF Lookup
    <3> QED
      BY <3>2, <3>3 DEF FopenResult
  <2>4. First(own) \in LeasesOf(r, file, fd)
    BY <2>1, <2>2, <2>3 DEF LeasesOf, HoldersOf, OwnSlots, OpenedAs
  <2>5. Kept(t, r) /\ Added(t, r, file, name, fd, size)
    BY <2>1 DEF Kept, Added
  <2> QED
    BY <1>2, <2>4, <2>5
<1>3. CASE file # NULL /\ own = {}
  <2>1. file \in Streams /\ Matching(t, name, file)
    BY <1>3, FopenResultMatches
  <2>2. r = Register(t, file, name, fd, size)
    BY <1>3 DEF Fopen
  <2> HIDE DEF file, r
  <2>3. /\ Kept(t, r) /\ Added(t, r, file, name, fd, size)
        /\ HoldersOf(t, NULL) # {} => /\ LeasesOf(r, file, fd) # {}
                                      /\ ~UseSendfile /\ size # 0 => CacheOf(r, file) # {}
    BY <1>3, <2>1, <2>2, RegisterEffect
  <2> QED
    BY <1>3, <2>3 DEF file, r
<1> QED
  BY <1>1, <1>2, <1>3

\* battery_fclose: the caller's slot is gone, the others have theirs; content
\* that somebody still has a slot for stays, unless the caller had none.
LEMMA FcloseEffect ==
  ASSUME NEW t, TablesOK(t), NEW file \in Streams, NEW fd \in Owners
  PROVE  LET r == Fclose(t, file, fd)
             mine == LeasesOf(t, file, fd)
         IN /\ Leased(r) = Leased(t) \ mine
            /\ \A j \in Leased(r) : r.opened[j] = t.opened[j]
            /\ Cached(r) \subseteq Cached(t)
            /\ \A k \in Cached(r) : r.cached[k] = t.cached[k]
            /\ UseSendfile \/ mine # {} =>
                 \A j \in Leased(r), k \in Cached(t) :
                   t.cached[k].file = r.opened[j].file => k \in Cached(r)
<1> DEFINE mine == LeasesOf(t, file, fd)
           holders == HoldersOf(t, file)
           u == DropLeases(t, file, fd)
           c == IF UseSendfile THEN u ELSE CacheDelete(u, file)
           r == [c EXCEPT !.live = IF mine = {} THEN @ ELSE @ \ {file}]
           q == Fclose(t, file, fd)
<1>1. t \in Tables
  BY DEF TablesOK
<1>2. /\ u \in Tables /\ u.cached = t.cached
      /\ Leased(u) = Leased(t) \ mine
      /\ \A j \in Leased(u) : u.opened[j] = t.opened[j]
  BY <1>1, DropLeasesFacts
<1>3. q = IF Cardinality(holders) > 1 THEN u ELSE r
  BY NullAssumption DEF Fclose, DropLeases
<1> HIDE DEF u, q
<1>4. Cached(u) = Cached(t)
  BY <1>2 DEF Cached
<1>5. CASE Cardinality(holders) > 1
  BY <1>2, <1>3, <1>4, <1>5 DEF q
<1>6. CASE ~(Cardinality(holders) > 1)
  <2>1. UniqueCache(u)
    BY <1>2, <1>4 DEF TablesOK, UniqueCache
  <2>2. /\ c \in Tables /\ c.opened = u.opened
        /\ Cached(c) = IF UseSendfile THEN Cached(u) ELSE Cached(u) \ CacheOf(u, file)
        /\ \A k \in Cached(c) : c.cached[k] = u.cached[k]
    BY <1>2, <2>1, CacheDeleteFacts
  <2> HIDE DEF c
  <2>3. q = r /\ r.opened = u.opened /\ r.cached = c.cached
    BY <1>3, <1>6, <2>2 DEF Tables
  <2> HIDE DEF r
  <2>4. Leased(q) = Leased(u) /\ Cached(q) = Cached(c)
    BY <2>3 DEF Leased, Cached
  <2>5. mine # {} => \A j \in Leased(q) : q.opened[j].file # file
    <3> SUFFICES ASSUME mine # {}, NEW j \in Leased(q), q.opened[j].file = file
                 PROVE  FALSE
      OBVIOUS
    <3>1. j \in holders /\ j \notin mine
      BY <1>2, <2>3, <2>4 DEF HoldersOf, Leased
    <3>2. holders \in SUBSET Slots /\ mine \subseteq holders
      BY DEF HoldersOf, LeasesOf
    <3> QED
      BY <1>6, <3>1, <3>2, MoreThanOne
  <2>6. \A j \in Leased(q), k \in Cached(t) :
          UseSendfile \/ mine # {} => (t.cached[k].file = q.opened[j].file => k \in Cached(q))
    BY <1>2, <1>4, <2>2, <2>3, <2>4, <2>5 DEF CacheOf, Cached
  <2>7. /\ Leased(q) = Leased(t) \ mine
        /\ \A j \in Leased(q) : q.opened[j] = t.opened[j]
        /\ Cached(q) \subseteq Cached(t)
        /\ \A k \in Cached(q) : q.cached[k] = t.cached[k]
    BY <1>2, <1>4, <2>2, <2>3, <2>4
  <2> QED
    BY <2>6, <2>7 DEF q
<1> QED
  BY <1>5, <1>6
=============================================================================
