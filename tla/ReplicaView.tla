---------------------------- MODULE ReplicaView ----------------------------
(***************************************************************************)
(* What replication promises the KDC (docs/architecture/kdb.md, section 5):*)
(* the replica is always the authority's state at one timestamp, the       *)
(* checkpoint; the checkpoint only moves forward; and once it is reached,  *)
(* nothing is ever committed at or below it.  Replication implements this  *)
(* specification; the consistency gate is modelled on top of it.           *)
(***************************************************************************)
EXTENDS Integers

CONSTANTS Keys, Values, Gone

VARIABLES
    rows,       \* every committed version of every entity
    checkpoint, \* -1 before the first snapshot
    view        \* what the KDC reads for each entity

Contents == Values \union {Gone}
NoCheckpoint == -1

LatestAt(k, t) ==
    {r \in rows : /\ r.key = k
                  /\ r.ts <= t
                  /\ \A q \in rows : q.key = k /\ q.ts <= t => q.ts <= r.ts}

\* What k authoritatively is at t.
ValAt(k, t) ==
    IF LatestAt(k, t) = {} THEN Gone ELSE (CHOOSE r \in LatestAt(k, t) : TRUE).val

Init ==
    /\ rows = {}
    /\ checkpoint = NoCheckpoint
    /\ view = [k \in Keys |-> Gone]

\* A commit adds versions above the checkpoint, and rewrites no history.
Write ==
    /\ rows \subseteq rows'
    /\ \A r \in rows' \ rows : r.ts > checkpoint
    /\ UNCHANGED <<checkpoint, view>>

\* The replica moves to a later timestamp as a whole.
Advance ==
    /\ checkpoint' >= checkpoint
    /\ checkpoint' # NoCheckpoint
    /\ view' = [k \in Keys |-> ValAt(k, checkpoint')]
    /\ UNCHANGED rows

Next == Write \/ Advance

Spec == Init /\ [][Next]_<<rows, checkpoint, view>>

=============================================================================
