---------------------------- MODULE Replication ----------------------------
(***************************************************************************)
(* Replication of the CockroachDB authority into one KDC's Turso replica:  *)
(* the replication log and its pruning (krb5-rs-kdb-cockroach, store.rs),  *)
(* the polling engine (src/kdc/replication/engine.rs) and the replica sink *)
(* (krb5-rs-kdb-turso, replica.rs and changes.rs).                         *)
(*                                                                         *)
(* A timestamp is a HLC reading (ReplicationTs) in whole seconds; 0 is     *)
(* ReplicationTs::ZERO.  A key names one replicated entity (a principal,   *)
(* a policy or a lockout row) and a value stands for its whole contents.   *)
(* CockroachDB itself is external: MVCC versions, AS OF SYSTEM TIME reads  *)
(* and the timestamp cache are modelled from what the code relies on.      *)
(***************************************************************************)
EXTENDS Integers, FiniteSets, FiniteSetsExt

CONSTANTS
    Keys,           \* replicated entities
    Values,         \* contents of a live row
    Gone,           \* contents of a tombstone, and of an absent row
    BucketWidth,    \* replication_meta.bucket_width_seconds
    Overlap,        \* transaction_timeout + COMMIT_SKEW_MARGIN
    BatchLimit,     \* ReplicationConfig.batch_limit
    FollowerLag,    \* how far into the past a replication read may reach
    Retentions,     \* the values of `prune --older-than` an operator uses
    Policies,       \* the RebuildPolicy in use: "auto", "manual" or either
    MaxTs,          \* bound: the clock stops here
    MaxRows,        \* bound on the row versions written
    MaxPrunes       \* bound on the prune transactions

ASSUME ValueAssumption == Gone \notin Values
ASSUME BucketAssumption == BucketWidth \in Nat \ {0}
ASSUME OverlapAssumption == Overlap \in Nat
ASSUME LimitAssumption == BatchLimit \in Nat \ {0}
ASSUME LagAssumption == FollowerLag \in Nat
ASSUME RetentionAssumption == Retentions \subseteq Nat
ASSUME PolicyAssumption == Policies \subseteq {"auto", "manual"}
ASSUME BoundAssumption == MaxTs \in Nat

VARIABLES
    now,        \* the source clock
    policy,     \* the KDC's RebuildPolicy, which no step changes
    rows,       \* every MVCC version of every entity row ever committed
    log,        \* every replication_log row ever committed
    prunes,     \* the committed prune transactions
    readlog,    \* timestamp cache: highest read of each log bucket
    readrow,    \* timestamp cache: highest snapshot read of each entity row
    db,         \* the replica's rows (the database CURRENT names)
    checkpoint, \* the replica's checkpoint; NoCheckpoint before bootstrap
    pc,         \* where the engine is in its cycle
    job,        \* what the engine carries between the awaits of a cycle
    status      \* StatusSnapshot, shared with gates and heartbeats

\* What only transactions at the authority change, and the configuration
authority == <<rows, log, prunes, policy>>
cache == <<readlog, readrow>>
replica == <<db, checkpoint>>
engine == <<pc, job, status>>
vars == <<now, authority, cache, replica, engine>>

Contents == Values \union {Gone}
NoCheckpoint == -1

\* A replica row; version 0 with no contents is a row that does not exist.
Row == [ver : Nat, val : Contents]
AbsentRow == [ver |-> 0, val |-> Gone]
NoRows == [k \in Keys |-> AbsentRow]

Higher(a, b) == IF a < b THEN b ELSE a

-----------------------------------------------------------------------------
(* Buckets of the replication log                                          *)

Bucket(t) == t \div BucketWidth

\* The buckets a log row can carry while the clock is bounded by MaxTs.
Buckets == 0 .. Bucket(MaxTs)

\* Mutant of ScanFirst: the scan starts in the checkpoint's own bucket.
ScanFirst_NoOverlap(since) == Bucket(since)

\* scan_buckets: every row committed in (since, upto] started no earlier
\* than Overlap before `since`.
ScanFirst(since) == Bucket(since - Overlap)
ScanLast(upto) == Bucket(upto)

-----------------------------------------------------------------------------
(* Reading the authority AS OF SYSTEM TIME t                               *)

\* The newest version of k's row at t: one row, or none before the first.
LatestAt(k, t) ==
    {r \in rows : /\ r.key = k
                  /\ r.ts <= t
                  /\ \A q \in rows : q.key = k /\ q.ts <= t => q.ts <= r.ts}

\* Mutant of PrunedPast: each prune overwrites the watermark.
PrunedPast_Overwritten(c, t) ==
    \E p \in prunes : /\ p.ts <= t /\ c < p.cutoff
                      /\ \A q \in prunes : q.ts <= t => q.ts <= p.ts

\* Is timestamp c below replication_meta.pruned_before as read at t?
PrunedPast(c, t) == \E p \in prunes : p.ts <= t /\ c < p.cutoff

\* The row a SELECT at t finds: a prune deleted tombstones below its cutoff.
RowAt(k, t) == {r \in LatestAt(k, t) : ~(r.val = Gone /\ PrunedPast(r.ts, t))}

\* What k authoritatively is at t, whether or not its tombstone was pruned.
ValAt(k, t) ==
    IF LatestAt(k, t) = {} THEN Gone ELSE (CHOOSE r \in LatestAt(k, t) : TRUE).val

\* The replication_log rows a SELECT at t finds.
LogAt(t) ==
    {l \in log : /\ l.ts <= t
                 /\ ~\E p \in prunes : /\ p.ts <= t
                                       /\ l.ts < p.ts
                                       /\ l.bucket < ScanFirst(p.cutoff)}

\* The timestamps a replication read may be opened at: the present, or up to
\* FollowerLag in the past (follower_read_timestamp()).
ReadTs == {t \in 0 .. now : now - t <= FollowerLag}

-----------------------------------------------------------------------------
(* Writers                                                                 *)

Tick ==
    /\ now < MaxTs
    /\ now' = now + 1
    /\ UNCHANGED <<authority, cache, replica, engine>>

\* A serializable transaction that began at `start` and commits at `ts`
\* writes the rows `writes` and one log row for each, in the bucket of its
\* start.  CockroachDB commits above every read of what it writes, and within
\* the transaction timeout (Overlap).
Commit(start, ts, writes) ==
    /\ Cardinality(rows) + Cardinality(DOMAIN writes) <= MaxRows
    /\ ts >= start /\ ts > 0 /\ ts <= start + Overlap
    /\ ts > readlog[Bucket(start)]
    /\ \A k \in DOMAIN writes :
          /\ ts > readrow[k]
          /\ \A r \in rows : r.key = k => r.ts < ts
          /\ writes[k] = Gone => \E r \in LatestAt(k, ts) : r.val # Gone
    /\ rows' = rows \union
          {[key |-> k, ts |-> ts, val |-> writes[k]] : k \in DOMAIN writes}
    /\ log' = log \union
          {[key |-> k, ts |-> ts, bucket |-> Bucket(start)] : k \in DOMAIN writes}
    /\ UNCHANGED <<now, prunes, policy, cache, replica, engine>>

\* `prune --older-than retention`: one transaction deletes the log buckets
\* that hold no row at or above the cutoff, raises pruned_before to it and
\* deletes the tombstones below it.  A cutoff at or below zero does nothing.
Prune(start, ts, retention) ==
    LET cutoff == start - retention
    IN  /\ Cardinality(prunes) < MaxPrunes
        /\ ts >= start /\ ts <= start + Overlap
        /\ cutoff > 0
        /\ \A p \in prunes : p.ts < ts
        /\ prunes' = prunes \union {[ts |-> ts, cutoff |-> cutoff]}
        /\ UNCHANGED <<now, rows, log, policy, cache, replica, engine>>

-----------------------------------------------------------------------------
(* The source: what poll and a snapshot page return                        *)

\* poll's scan at read timestamp t: the log rows after `since`.
Candidates(since, t) ==
    {l \in LogAt(t) : /\ l.bucket \in ScanFirst(since) .. ScanLast(t)
                      /\ l.ts > since}

\* The timestamp of the BatchLimit-th candidate in timestamp order.
Cutoffs(cands) ==
    {c \in {l.ts : l \in cands} :
        /\ Cardinality({l \in cands : l.ts < c}) < BatchLimit
        /\ Cardinality({l \in cands : l.ts <= c}) >= BatchLimit}

\* Where the batch ends: at the read timestamp, or, when more than the limit
\* was found, at the limit's timestamp (a timestamp is never split).
BatchEnds(cands, t) ==
    IF Cardinality(cands) <= BatchLimit
      THEN {t}
      ELSE {IF \E l \in cands : l.ts > c THEN c ELSE t : c \in Cutoffs(cands)}

\* The commit timestamp of the newest fetched log row that names k.
NewestOf(k, fetched) == Max({l.ts : l \in {f \in fetched : f.key = k}})

\* materialize_changes for k at t: its row there; a missing row is a delete
\* with the version of the newest log row that names it.
ChangeOf(k, t, fetched) ==
    IF RowAt(k, t) = {}
      THEN [ver |-> NewestOf(k, fetched), val |-> Gone]
      ELSE LET r == CHOOSE r \in RowAt(k, t) : TRUE
           IN  [ver |-> r.ts, val |-> r.val]

Materialize(t, fetched) ==
    [k \in Keys |-> IF \E l \in fetched : l.key = k
                      THEN ChangeOf(k, t, fetched) ELSE AbsentRow]

\* The snapshot's row for k: a tombstone below pruned_before is left out.
PageOf(k, t) ==
    LET found == {r \in RowAt(k, t) : ~(r.val = Gone /\ PrunedPast(r.ts, t))}
    IN  IF found = {} THEN AbsentRow
        ELSE LET r == CHOOSE r \in found : TRUE
             IN  [ver |-> r.ts, val |-> r.val]

\* apply_changes: a change no newer than the stored row is skipped as stale.
ApplyChanges(base, changes) ==
    [k \in Keys |-> IF base[k].ver >= changes[k].ver THEN base[k] ELSE changes[k]]

-----------------------------------------------------------------------------
(* The engine                                                              *)

NoJob == [upto |-> 0, fetched |-> {}, changes |-> NoRows, todo |-> {}]

InitStatus == [bootstrapped |-> FALSE, applied |-> 0,
               rebuilding |-> FALSE, needsRebuild |-> FALSE]

GoTo(label, newjob) == pc' = label /\ job' = newjob

\* cycle(): read the checkpoint and the present pruned_before, then poll,
\* rebuild, or refuse until an operator rebuilds.
BeginCycle ==
    /\ pc = "cycle"
    /\ \/ /\ \/ checkpoint = NoCheckpoint
             \/ PrunedPast(checkpoint, now) /\ policy = "auto"
          /\ GoTo("open", NoJob)
          /\ status' = [status EXCEPT !.rebuilding = TRUE]
       \/ /\ checkpoint # NoCheckpoint
          /\ PrunedPast(checkpoint, now) /\ policy = "manual"
          /\ status' = [status EXCEPT !.needsRebuild = TRUE, !.bootstrapped = FALSE]
          /\ UNCHANGED <<pc, job>>
       \/ /\ checkpoint # NoCheckpoint
          /\ ~PrunedPast(checkpoint, now)
          /\ GoTo("poll", NoJob)
          /\ UNCHANGED status
    /\ UNCHANGED <<now, authority, cache, replica>>

\* poll refuses a checkpoint below the watermark it reads at t.
PollStale(t) ==
    /\ pc = "poll"
    /\ PrunedPast(checkpoint, t)
    /\ GoTo("cycle", NoJob)
    /\ UNCHANGED <<now, authority, cache, replica, status>>

\* A read at or below the checkpoint knows nothing new.
PollNothing(t) ==
    /\ pc = "poll"
    /\ ~PrunedPast(checkpoint, t)
    /\ t <= checkpoint
    /\ GoTo("publish", [NoJob EXCEPT !.upto = checkpoint])
    /\ UNCHANGED <<now, authority, cache, replica, status>>

\* poll scans the log at t; a complete batch is materialized in the same
\* transaction, a truncated one in a second read at its end.
PollScan(t) ==
    /\ pc = "poll"
    /\ ~PrunedPast(checkpoint, t)
    /\ t > checkpoint
    /\ readlog' = [b \in Buckets |->
                      IF b \in ScanFirst(checkpoint) .. ScanLast(t)
                        THEN Higher(readlog[b], t) ELSE readlog[b]]
    /\ \E upto \in BatchEnds(Candidates(checkpoint, t), t) :
          LET fetched == {l \in Candidates(checkpoint, t) : l.ts <= upto}
          IN  \/ /\ upto = t
                 /\ GoTo("apply", [NoJob EXCEPT !.upto = t,
                                     !.changes = Materialize(t, fetched)])
              \/ /\ upto < t
                 /\ GoTo("materialize", [NoJob EXCEPT !.upto = upto,
                                           !.fetched = fetched])
    /\ UNCHANGED <<now, authority, readrow, replica, status>>

\* Mutant of MaterializeTruncated: the second read is of the present.
MaterializeTruncated_Present ==
    /\ pc = "materialize"
    /\ GoTo("apply", [NoJob EXCEPT !.upto = job.upto,
                        !.changes = Materialize(now, job.fetched)])
    /\ UNCHANGED <<now, authority, cache, replica, status>>

\* The second read of a truncated poll, AS OF its end.
MaterializeTruncated ==
    /\ pc = "materialize"
    /\ GoTo("apply", [NoJob EXCEPT !.upto = job.upto,
                        !.changes = Materialize(job.upto, job.fetched)])
    /\ UNCHANGED <<now, authority, cache, replica, status>>

\* ReplicaSink::apply: the changes and the checkpoint in one transaction.
Apply ==
    /\ pc = "apply"
    /\ db' = ApplyChanges(db, job.changes)
    /\ checkpoint' = job.upto
    /\ GoTo("publish", [NoJob EXCEPT !.upto = job.upto])
    /\ UNCHANGED <<now, authority, cache, status>>

\* Mutant of Publish: the source's time is reported as applied.
Publish_SourceNow ==
    /\ pc = "publish"
    /\ status' = [status EXCEPT !.bootstrapped = TRUE, !.applied = now,
                                !.needsRebuild = FALSE]
    /\ GoTo("cycle", NoJob)
    /\ UNCHANGED <<now, authority, cache, replica>>

\* The end of cycle(): the status other tasks read.
Publish ==
    /\ pc = "publish"
    /\ status' = [status EXCEPT !.bootstrapped = TRUE, !.applied = job.upto,
                                !.needsRebuild = FALSE]
    /\ GoTo("cycle", NoJob)
    /\ UNCHANGED <<now, authority, cache, replica>>

\* rebuild(): open a snapshot at t and an empty database beside the current.
OpenSnapshot(t) ==
    /\ pc = "open"
    /\ GoTo("pages", [NoJob EXCEPT !.upto = t, !.todo = Keys])
    /\ UNCHANGED <<now, authority, cache, replica, status>>

\* One page: a row at the snapshot timestamp, written to the new database.
CopyPage(k) ==
    /\ pc = "pages"
    /\ k \in job.todo
    /\ readrow' = [readrow EXCEPT ![k] = Higher(@, job.upto)]
    /\ GoTo("pages", [job EXCEPT !.todo = @ \ {k},
                                 !.changes[k] = PageOf(k, job.upto)])
    /\ UNCHANGED <<now, authority, readlog, replica, status>>

\* RebuildWriter::commit: the checkpoint is written into the new database and
\* CURRENT is renamed to name it.
Install ==
    /\ pc = "pages"
    /\ job.todo = {}
    /\ db' = job.changes
    /\ checkpoint' = job.upto
    /\ GoTo("installed", [NoJob EXCEPT !.upto = job.upto])
    /\ UNCHANGED <<now, authority, cache, status>>

\* Mutant of PublishRebuild: the rebuilding mark is not cleared.
PublishRebuild_StillMarked ==
    /\ pc = "installed"
    /\ status' = [bootstrapped |-> TRUE, applied |-> job.upto,
                  rebuilding |-> TRUE, needsRebuild |-> FALSE]
    /\ GoTo("cycle", NoJob)
    /\ UNCHANGED <<now, authority, cache, replica>>

\* The end of rebuild(): the status other tasks read.
PublishRebuild ==
    /\ pc = "installed"
    /\ status' = [bootstrapped |-> TRUE, applied |-> job.upto,
                  rebuilding |-> FALSE, needsRebuild |-> FALSE]
    /\ GoTo("cycle", NoJob)
    /\ UNCHANGED <<now, authority, cache, replica>>

\* A source or sink error ends the cycle; a rebuild is aborted and the files
\* it wrote are removed.
Fail ==
    /\ pc \in {"poll", "materialize", "apply", "open", "pages"}
    /\ GoTo("cycle", NoJob)
    /\ status' = [status EXCEPT !.rebuilding = FALSE]
    /\ UNCHANGED <<now, authority, cache, replica>>

\* Mutant of Crash: the status starts from the checkpoint, absent or not.
Crash_FromCheckpoint ==
    /\ GoTo("cycle", NoJob)
    /\ status' = [InitStatus EXCEPT !.applied = checkpoint]
    /\ UNCHANGED <<now, authority, cache, replica>>

\* The process stops at any point and starts again: only the database that
\* CURRENT names survives.
Crash ==
    /\ GoTo("cycle", NoJob)
    /\ status' = InitStatus
    /\ UNCHANGED <<now, authority, cache, replica>>

Init ==
    /\ now = 0
    /\ policy \in Policies
    /\ rows = {} /\ log = {} /\ prunes = {}
    /\ readlog = [b \in Buckets |-> 0]
    /\ readrow = [k \in Keys |-> 0]
    /\ db = NoRows
    /\ checkpoint = NoCheckpoint
    /\ pc = "cycle" /\ job = NoJob
    /\ status = InitStatus

Write ==
    \E start \in 0 .. now, ts \in 0 .. MaxTs, S \in (SUBSET Keys) \ {{}} :
        \E writes \in [S -> Contents] : Commit(start, ts, writes)

PruneLog ==
    \E start \in 0 .. now, ts \in 0 .. MaxTs, retention \in Retentions :
        Prune(start, ts, retention)

Poll == \E t \in ReadTs : PollStale(t) \/ PollNothing(t) \/ PollScan(t)

Rebuild ==
    \/ \E t \in ReadTs : OpenSnapshot(t)
    \/ \E k \in Keys : CopyPage(k)
    \/ Install
    \/ PublishRebuild

Next ==
    \/ Tick
    \/ Write
    \/ PruneLog
    \/ BeginCycle
    \/ Poll
    \/ MaterializeTruncated
    \/ Apply
    \/ Publish
    \/ Rebuild
    \/ Fail
    \/ Crash

Spec == Init /\ [][Next]_vars

-----------------------------------------------------------------------------
(* Properties                                                              *)

\* Every variable has its type (ReplicationTs, StatusSnapshot, the rows).
TypeOK ==
    /\ now \in 0 .. MaxTs
    /\ policy \in {"auto", "manual"}
    /\ rows \subseteq [key : Keys, ts : 1 .. MaxTs, val : Contents]
    /\ log \subseteq [key : Keys, ts : 1 .. MaxTs, bucket : Buckets]
    /\ prunes \subseteq [ts : 1 .. MaxTs, cutoff : 1 .. MaxTs]
    /\ readlog \in [Buckets -> 0 .. MaxTs]
    /\ readrow \in [Keys -> 0 .. MaxTs]
    /\ db \in [Keys -> Row]
    /\ checkpoint \in {NoCheckpoint} \union 0 .. MaxTs
    /\ pc \in {"cycle", "poll", "materialize", "apply", "publish",
               "open", "pages", "installed"}
    /\ job \in [upto : 0 .. MaxTs, fetched : SUBSET log,
                changes : [Keys -> Row], todo : SUBSET Keys]
    /\ status \in [bootstrapped : BOOLEAN, applied : 0 .. MaxTs,
                   rebuilding : BOOLEAN, needsRebuild : BOOLEAN]

\* The replica is the authority's state at its checkpoint: no committed change
\* at or below the checkpoint is missing, and none above it is present, across
\* truncated polls, pruning, rebuilds, failures and crashes (poll,
\* materialize_changes, prune, ReplicaSink::apply, RebuildWriter::commit).
ReplicaExact ==
    checkpoint # NoCheckpoint => \A k \in Keys : db[k].val = ValAt(k, checkpoint)

\* The strengthening of ReplicaExact that every step preserves.

\* No transaction can still commit at or below t: every log bucket such a
\* commit could land in, or every row, has been read at or above t.
Closed(t) ==
    \A k \in Keys, c \in 1 .. t, b \in Buckets :
        Bucket(c - Overlap) <= b /\ b <= Bucket(c)
            => c <= readrow[k] \/ c <= readlog[b]

\* Every write is logged at its commit timestamp, in the bucket of its start.
LogMatchesRows ==
    /\ \A r \in rows : \E l \in log : l.key = r.key /\ l.ts = r.ts
    /\ \A l \in log : \E r \in rows : l.key = r.key /\ l.ts = r.ts
    /\ \A l \in log : Bucket(l.ts - Overlap) <= l.bucket /\ l.bucket <= Bucket(l.ts)

\* A row has one version at a timestamp.
OneVersion ==
    \A r, q \in rows : r.key = q.key /\ r.ts = q.ts => r = q

\* The installed database is exact, and its checkpoint can no longer change.
ReplicaInv ==
    checkpoint # NoCheckpoint =>
        /\ Closed(checkpoint)
        /\ \A k \in Keys : db[k].ver <= checkpoint /\ db[k].val = ValAt(k, checkpoint)

\* The changes of a batch that ends at t are exactly what moves the database
\* from its checkpoint to t.
BatchExact(changes, t) ==
    \A k \in Keys :
        \/ changes[k] = AbsentRow /\ ValAt(k, t) = ValAt(k, checkpoint)
        \/ /\ changes[k].ver > checkpoint /\ changes[k].ver <= t
           /\ changes[k].val = ValAt(k, t)

\* The log rows of a batch that ends at t name every key that changed.
FetchedCovers(fetched, t) ==
    /\ \A l \in fetched : l.ts > checkpoint /\ l.ts <= t
    /\ \A r \in rows : r.ts > checkpoint /\ r.ts <= t
                        => \E l \in fetched : l.key = r.key

\* What the engine carries between two awaits stays true meanwhile.
JobInv ==
    /\ pc \in {"poll", "materialize", "apply", "publish", "installed"}
          => checkpoint # NoCheckpoint
    /\ pc = "materialize" => /\ checkpoint <= job.upto
                             /\ Closed(job.upto)
                             /\ FetchedCovers(job.fetched, job.upto)
    /\ pc = "apply" => /\ checkpoint <= job.upto
                       /\ Closed(job.upto)
                       /\ BatchExact(job.changes, job.upto)
    /\ pc = "pages" => \A k \in Keys \ job.todo :
                          /\ readrow[k] >= job.upto
                          /\ job.changes[k].ver <= job.upto
                          /\ job.changes[k].val = ValAt(k, job.upto)

IInv == TypeOK /\ LogMatchesRows /\ OneVersion /\ ReplicaInv /\ JobInv

\* FreshnessGate::check lets requests through.
GateOpen == status.bootstrapped /\ ~status.needsRebuild /\ ~status.rebuilding

\* The timestamp heartbeats and the gate vouch for is one the database that
\* CURRENT names has durably reached.
StatusDurable == status.bootstrapped => status.applied <= checkpoint

\* An operator prunes what is older than any read: the documented retention
\* is days (prune --older-than 7d), a follower read lags by seconds.
LagWithinRetention == \A r \in Retentions : FollowerLag <= r

\* The strengthening of StatusDurable: pruning stays behind every read, so a
\* rebuild starts from a snapshot above the checkpoint it replaces.
StatusInv ==
    /\ StatusDurable
    /\ \A p \in prunes : p.cutoff + FollowerLag <= now
    /\ pc = "open" => checkpoint = NoCheckpoint \/ checkpoint + FollowerLag < now
    /\ pc = "pages" => checkpoint <= job.upto
    /\ pc \in {"publish", "installed"} => job.upto <= checkpoint

\* Replication implements what the KDC is promised of its store: every step
\* of cycle() and rebuild() moves the view to a later timestamp as a whole or
\* leaves it alone, and no commit lands at or below the checkpoint.
View == INSTANCE ReplicaView WITH view <- [k \in Keys |-> db[k].val]
ImplementsView == View!Spec

\* The polling loop and the clock never stop for good; failures and restarts
\* eventually do (run() retries for ever, and a rebuild needs its pages to
\* arrive in one attempt).
Fairness ==
    /\ WF_vars(Tick)
    /\ WF_vars(BeginCycle)
    /\ WF_vars(Poll)
    /\ WF_vars(MaterializeTruncated)
    /\ WF_vars(Apply)
    /\ WF_vars(Publish)
    /\ WF_vars(Rebuild)
    /\ <>[][~(Fail \/ Crash)]_vars

FairSpec == Spec /\ Fairness

\* Every timestamp that replication reads have passed is eventually applied
\* and vouched for by an open gate, whatever was pruned meanwhile.
CatchesUp ==
    \A t \in 0 .. MaxTs :
        policy = "auto" /\ now >= t + FollowerLag ~> GateOpen /\ status.applied >= t

=============================================================================
