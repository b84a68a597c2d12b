----------------------------- MODULE FileStore -----------------------------
(***************************************************************************)
(* What the file table and the cache promise together, without slots or    *)
(* streams: a client leases a file; the first lease that finds content     *)
(* takes a snapshot of it; the snapshot does not change while a lease is   *)
(* held and is dropped with the last one.  A close by somebody without a   *)
(* lease, while there is one, drops the snapshot too.                      *)
(***************************************************************************)
EXTENDS Integers

CONSTANTS Names, Owners, Sizes, Absent,
          Faults    \* "stale_close": somebody closes what it has not leased

VARIABLES leases,     \* pairs <<name, owner>>
          snapshot,   \* length of the content held for a name, 0 if none
          content     \* length of the file on disk, Absent if there is none

vars == <<leases, snapshot, content>>

Init == /\ leases = {}
        /\ snapshot = [n \in Names |-> 0]
        /\ content \in [Names -> Sizes \cup {Absent}]

Acquire(n, o) ==
  /\ <<n, o>> \notin leases
  /\ content[n] # Absent
  /\ leases' = leases \cup {<<n, o>>}
  /\ snapshot' = [snapshot EXCEPT ![n] = IF @ = 0 THEN content[n] ELSE @]
  /\ UNCHANGED content

Release(n, o) ==
  /\ <<n, o>> \in leases
  /\ leases' = leases \ {<<n, o>>}
  /\ snapshot' = [snapshot EXCEPT
       ![n] = IF \E p \in Owners \ {o} : <<n, p>> \in leases THEN @ ELSE 0]
  /\ UNCHANGED content

\* A close by somebody without a lease counts as the last one if a single
\* client holds the file: the next client takes a new snapshot.
Forget(n, o) ==
  /\ "stale_close" \in Faults
  /\ <<n, o>> \in leases
  /\ \A p \in Owners \ {o} : <<n, p>> \notin leases
  /\ snapshot' = [snapshot EXCEPT ![n] = 0]
  /\ UNCHANGED <<leases, content>>

Edit(n) ==
  /\ content[n] # Absent
  /\ \E c \in Sizes : content' = [content EXCEPT ![n] = c]
  /\ UNCHANGED <<leases, snapshot>>

Next == \E n \in Names : \/ Edit(n)
                         \/ \E o \in Owners : Acquire(n, o) \/ Release(n, o) \/ Forget(n, o)

Spec == Init /\ [][Next]_vars
=============================================================================
