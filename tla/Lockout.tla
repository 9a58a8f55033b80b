------------------------------- MODULE Lockout -------------------------------
(***************************************************************************)
(* Lockout of one principal across the realm's KDCs (src/kdc/lockout.rs):  *)
(* failure counters shared through CockroachDB with a local fallback in    *)
(* each KDC's Turso replica (SharedAuthState in src/kdc/store.rs), lockout *)
(* reports written asynchronously (reporter.rs) and replicated to every    *)
(* KDC, and the administrator's unlock, delete and create.                 *)
(*                                                                         *)
(* Times are Unix seconds and 0 is never.  The principal requires          *)
(* pre-authentication and has a policy; lockout is enabled.  The time of   *)
(* the last success decides nothing and is left out.  Replication is the   *)
(* atomic copy that ReplicaView promises, at an arbitrary delay.           *)
(***************************************************************************)
EXTENDS Integers, Sequences, FiniteSets

CONSTANTS
    Kdcs,           \* the realm's KDCs
    Workers,        \* requests in flight at once
    MaxFail,        \* pw_max_fail
    QueueLimit,     \* the lockout reporter's channel capacity
    U32Max,         \* u32::MAX, the count of a replicated lockout
    Settings        \* a realm's policy and the bounds on what happens in it

\* kdcs, workers: the ones in use
\* interval, duration: pw_failcnt_interval, pw_lockout_duration
\* up: is the authority reachable at the start?
\* success: is disable_last_success unset?
\* time, admin, flips, crashes, rebuilds: bounds on the clock, on the
\* administrator's operations, on changes of reachability, on restarts of
\* KDCs and on commits of rebuilds
Setting ==
    [kdcs : (SUBSET Kdcs) \ {{}}, workers : (SUBSET Workers) \ {{}}, interval : Nat, duration : Nat,
     up : BOOLEAN, success : BOOLEAN, time : Nat \ {0}, admin : Nat, flips : Nat, crashes : Nat,
     rebuilds : Nat]

ASSUME SetAssumption == Kdcs # {} /\ Workers # {} /\ IsFiniteSet(Workers)
ASSUME PolicyAssumption == MaxFail \in Nat \ {0}
ASSUME QueueAssumption == QueueLimit \in Nat \ {0}
ASSUME WidthAssumption == U32Max \in Nat /\ U32Max > MaxFail
ASSUME SettingAssumption == Settings \subseteq Setting

VARIABLES
    set,        \* the setting, which no step changes
    now,        \* the clock all KDCs share
    prin,       \* the principal in CockroachDB: live, last_admin_unlock
    shared,     \* its auth_state row in CockroachDB
    row,        \* its lockouts row in CockroachDB
    up,         \* can the KDC reach CockroachDB?
    rep,        \* the KDC's replica: principal and lockouts row
    local,      \* the KDC's own auth_state row (Turso)
    copy,       \* auth_state carried into the database a rebuild commits
    queue,      \* lockout reports waiting to be written
    req,        \* the AS requests in flight
    tried,      \* wrong passwords audited since the count last restarted
    used        \* how much of each bound is used up

authority == <<prin, shared, row>>
vars == <<set, now, authority, up, rep, local, copy, queue, req, tried, used>>

NoState == [fail |-> 0, last |-> 0]
NoRow == [active |-> FALSE, at |-> 0, until |-> 0]
NoCopy == [fail |-> -1, last |-> 0]

Idle == [pc |-> "idle", kdc |-> CHOOSE k \in Kdcs : TRUE, stamp |-> 0,
         unlock |-> 0, good |-> FALSE, clear |-> FALSE, state |-> NoState]

-----------------------------------------------------------------------------
(* Counting                                                                *)

\* locked_check_p: no failure since the last unlock, or too few of them, or
\* all too long ago, is not a lockout.
Locked(time, state, unlock) ==
    /\ state.last > unlock
    /\ state.fail >= MaxFail
    /\ set.duration = 0 \/ state.last + set.duration > time

\* Too long since the last failure for the count to go on.
IntervalOver(state, stamp) == set.interval # 0 /\ stamp > state.last + set.interval

\* AuthState::apply of AuthStateUpdate::Failure.
CountFailure(state, stamp, unlock) ==
    LET restarted == IntervalOver(state, stamp) \/ (unlock # 0 /\ state.last <= unlock)
        count == IF restarted THEN 0 ELSE state.fail
    IN  [fail |-> IF count = U32Max THEN U32Max ELSE count + 1, last |-> stamp]

\* AuthState::apply of AuthStateUpdate::Success.
RecordedSuccess(state, clear) == IF clear THEN [state EXCEPT !.fail = 0] ELSE state

\* Is a replicated lockout in force?
RowActive(r) == r.active /\ (r.until = 0 \/ r.until > now)

\* TursoReplica::auth_state: the local counters with merge_lockout.
LocalState(k) ==
    IF RowActive(rep[k].row)
      THEN [fail |-> U32Max,
            last |-> IF local[k].last < rep[k].row.at THEN rep[k].row.at
                                                      ELSE local[k].last]
      ELSE local[k]

-----------------------------------------------------------------------------
(* One AS request: process_as_req, check_lockout, audit_as                 *)

Step(w, label) == req' = [req EXCEPT ![w].pc = label]
Done(w) == req' = [req EXCEPT ![w] = Idle]

\* The request arrives and the client entry is looked up in the replica; an
\* unknown client is refused and nothing is audited.
Start(w, k) ==
    /\ req[w].pc = "idle"
    /\ req' = IF rep[k].live
                THEN [req EXCEPT ![w] = [Idle EXCEPT !.pc = "check", !.kdc = k, !.stamp = now,
                                                     !.unlock = rep[k].unlock]]
                ELSE req
    /\ UNCHANGED <<set, now, authority, up, rep, local, copy, queue, tried, used>>

\* A wrong password that counts: one tried in the second of an unlock, or
\* before it, is forgiven by it.
Wrong(w) == ~req[w].good /\ prin.live /\ req[w].stamp > prin.unlock

\* One more try; beyond this the number no longer matters.
OneMore == IF tried > MaxFail + Cardinality(set.workers) THEN tried ELSE tried + 1

\* Does request w take the principal for locked in state s?
Refused(w, s) == Locked(req[w].stamp, s, req[w].unlock)

\* check_lockout with the state s it read.
AfterCheck(w, s) == IF Refused(w, s) THEN Done(w) ELSE Step(w, "verify")

\* A wrong password is audited once audit_as has read a state that locks.
CountRefused(w, s) == tried' = IF Refused(w, s) /\ Wrong(w) THEN OneMore ELSE tried

\* audit_as with the state s it read: a locked principal is left alone, and a
\* success that has nothing to record writes nothing.
AfterAuditRead(w, s) ==
    IF Refused(w, s) \/ (req[w].good /\ s.fail = 0 /\ ~set.success)
      THEN Done(w)
      ELSE req' = [req EXCEPT ![w].pc = "apply", ![w].clear = req[w].good /\ s.fail # 0]

\* SharedAuthState::auth_state: the shared counters, to be mirrored; the
\* local ones only while the authority is unreachable.
ReadShared(w, mirror) ==
    /\ up[req[w].kdc]
    /\ req' = [req EXCEPT ![w].pc = mirror, ![w].state = shared]

FallsBack(w) == ~up[req[w].kdc]

Check(w) ==
    /\ req[w].pc = "check"
    /\ \/ ReadShared(w, "mirrorCheck")
       \/ FallsBack(w) /\ AfterCheck(w, LocalState(req[w].kdc))
    /\ UNCHANGED <<set, now, authority, up, rep, local, copy, queue, tried, used>>

AuditRead(w) ==
    /\ req[w].pc = "audit"
    /\ \/ ReadShared(w, "mirrorAudit") /\ CountRefused(w, shared)
       \/ /\ FallsBack(w)
          /\ AfterAuditRead(w, LocalState(req[w].kdc))
          /\ CountRefused(w, LocalState(req[w].kdc))
    /\ UNCHANGED <<set, now, authority, up, rep, local, copy, queue, used>>

\* Pre-authentication succeeds or fails.
Verify(w, good) ==
    /\ req[w].pc = "verify"
    /\ req' = [req EXCEPT ![w].pc = "audit", ![w].good = good]
    /\ UNCHANGED <<set, now, authority, up, rep, local, copy, queue, tried, used>>

\* The request ends without a count: the check refuses it because a store
\* failed, another rule rejects it, or audit_as ignores a store's error.
Abandon(w) ==
    /\ req[w].pc \in {"check", "verify", "audit", "apply"}
    /\ Done(w)
    /\ UNCHANGED <<set, now, authority, up, rep, local, copy, queue, tried, used>>

Updated(w, state) ==
    IF req[w].good THEN RecordedSuccess(state, req[w].clear)
                   ELSE CountFailure(state, req[w].stamp, req[w].unlock)

\* The tries since the count restarted, once w's outcome is applied to state.
TriedAfter(w, state) ==
    IF req[w].clear THEN 0
    ELSE IF ~Wrong(w) THEN tried
    ELSE IF IntervalOver(state, req[w].stamp) THEN 1 ELSE OneMore

\* The report of a lockout that audit_as makes after a failure.
ReportOf(w) ==
    [at |-> req[w].stamp,
     until |-> IF set.duration = 0 THEN 0 ELSE req[w].stamp + set.duration]

Tripped(w, after) == ~req[w].good /\ Refused(w, after)

\* Mutant of Report: the channel has no limit.
Report_Unbounded(w, after) ==
    queue' = IF Tripped(w, after)
               THEN [queue EXCEPT ![req[w].kdc] = Append(@, ReportOf(w))]
               ELSE queue

\* A failure that locks is reported, unless the reporter's queue is full.
Report(w, after) ==
    queue' = IF Tripped(w, after) /\ Len(queue[req[w].kdc]) < QueueLimit
               THEN [queue EXCEPT ![req[w].kdc] = Append(@, ReportOf(w))]
               ELSE queue

\* Mutant of ApplyShared: the counter is written from the state read before.
ApplyShared_ReadModifyWrite(w) ==
    /\ req[w].pc = "apply"
    /\ up[req[w].kdc]
    /\ shared' = IF prin.live THEN Updated(w, req[w].state) ELSE shared
    /\ req' = [req EXCEPT ![w].pc = "mirrorApply", ![w].state = Updated(w, req[w].state)]
    /\ tried' = TriedAfter(w, shared)
    /\ UNCHANGED <<set, now, prin, row, up, rep, local, copy, queue, used>>

\* Mutant of ApplyShared: counters are written for a deleted principal too.
ApplyShared_NoLiveCheck(w) ==
    /\ req[w].pc = "apply"
    /\ up[req[w].kdc]
    /\ shared' = Updated(w, shared)
    /\ req' = [req EXCEPT ![w].pc = "mirrorApply", ![w].state = Updated(w, shared)]
    /\ tried' = TriedAfter(w, shared)
    /\ UNCHANGED <<set, now, prin, row, up, rep, local, copy, queue, used>>

\* CockroachStore::apply: read, modify and write in one transaction, and
\* nothing is written for a principal that was deleted.
ApplyShared(w) ==
    /\ req[w].pc = "apply"
    /\ up[req[w].kdc]
    /\ shared' = IF prin.live THEN Updated(w, shared) ELSE shared
    /\ req' = [req EXCEPT ![w].pc = "mirrorApply", ![w].state = Updated(w, shared)]
    /\ tried' = TriedAfter(w, shared)
    /\ UNCHANGED <<set, now, prin, row, up, rep, local, copy, queue, used>>

\* Mutant of ApplyLocal: the write does not wait for a committing rebuild.
ApplyLocal_NoGuard(w) ==
    LET k == req[w].kdc
        after == Updated(w, local[k])
    IN  /\ req[w].pc = "apply"
        /\ ~up[k]
        /\ local' = [local EXCEPT ![k] = after]
        /\ tried' = TriedAfter(w, local[k])
        /\ Report(w, after)
        /\ Done(w)
        /\ UNCHANGED <<set, now, authority, up, rep, copy, used>>

\* TursoReplica::apply, under the guard a committing rebuild excludes.
ApplyLocal(w) ==
    LET k == req[w].kdc
        after == Updated(w, local[k])
    IN  /\ req[w].pc = "apply"
        /\ ~up[k]
        /\ copy[k] = NoCopy
        /\ local' = [local EXCEPT ![k] = after]
        /\ tried' = TriedAfter(w, local[k])
        /\ Report(w, after)
        /\ Done(w)
        /\ UNCHANGED <<set, now, authority, up, rep, copy, used>>

\* SharedAuthState::mirror: the shared counters are copied into the local
\* store (no commit of a rebuild goes on meanwhile), unless that shows a
\* replicated lockout; then the caller goes on.
Mirror(w) ==
    LET k == req[w].kdc
        s == req[w].state
    IN  /\ \/ LocalState(k).fail = U32Max /\ UNCHANGED local
           \/ /\ LocalState(k).fail # U32Max
              /\ copy[k] = NoCopy
              /\ local' = [local EXCEPT ![k] = s]
        /\ \/ /\ req[w].pc = "mirrorCheck"
              /\ AfterCheck(w, s)
              /\ UNCHANGED queue
           \/ /\ req[w].pc = "mirrorAudit"
              /\ AfterAuditRead(w, s)
              /\ UNCHANGED queue
           \/ /\ req[w].pc = "mirrorApply"
              /\ Report(w, s)
              /\ Done(w)
        /\ UNCHANGED <<set, now, authority, up, rep, copy, tried, used>>

-----------------------------------------------------------------------------
(* The reporter, replication and rebuilds of a KDC                         *)

\* report_lockout: upsert the row; no other state is looked at.
SendReport(k) ==
    /\ queue[k] # <<>>
    /\ up[k]
    /\ row' = [active |-> TRUE, at |-> Head(queue[k]).at, until |-> Head(queue[k]).until]
    /\ queue' = [queue EXCEPT ![k] = Tail(@)]
    /\ UNCHANGED <<set, now, prin, shared, up, rep, local, copy, req, tried, used>>

\* The reporter gives a report up after its retries.
DropReport(k) ==
    /\ queue[k] # <<>>
    /\ ~up[k]
    /\ queue' = [queue EXCEPT ![k] = Tail(@)]
    /\ UNCHANGED <<set, now, authority, up, rep, local, copy, req, tried, used>>

\* The replica moves to the authority's present state.
Replicate(k) ==
    /\ up[k]
    /\ rep' = [rep EXCEPT ![k] = [live |-> prin.live, unlock |-> prin.unlock, row |-> row]]
    /\ UNCHANGED <<set, now, authority, up, local, copy, queue, req, tried, used>>

\* TursoRebuild::commit takes the guard and copies the counters ...
BeginRebuildCommit(k) ==
    /\ used.rebuilds < set.rebuilds
    /\ used' = [used EXCEPT !.rebuilds = @ + 1]
    /\ copy[k] = NoCopy
    /\ copy' = [copy EXCEPT ![k] = local[k]]
    /\ UNCHANGED <<set, now, authority, up, rep, local, queue, req, tried>>

\* ... and swaps the databases, or fails and leaves the old one.
EndRebuildCommit(k) ==
    /\ copy[k] # NoCopy
    /\ local' \in {local, [local EXCEPT ![k] = copy[k]]}
    /\ copy' = [copy EXCEPT ![k] = NoCopy]
    /\ UNCHANGED <<set, now, authority, up, rep, queue, req, tried, used>>

\* The process stops: requests, queued reports and an unfinished rebuild are
\* lost, the database is not.
Crash(k) ==
    /\ used.crashes < set.crashes
    /\ used' = [used EXCEPT !.crashes = @ + 1]
    /\ req' = [w \in Workers |-> IF req[w].kdc = k THEN Idle ELSE req[w]]
    /\ queue' = [queue EXCEPT ![k] = <<>>]
    /\ copy' = [copy EXCEPT ![k] = NoCopy]
    /\ UNCHANGED <<set, now, authority, up, rep, local, tried>>

-----------------------------------------------------------------------------
(* The administrator, the network and the clock                            *)

Administer ==
    /\ used.admin < set.admin
    /\ used' = [used EXCEPT !.admin = @ + 1]
    /\ UNCHANGED <<set, now, up, rep, local, copy, queue, req>>

\* update_principal by modprinc -unlock or a password change: an unlock time
\* other than the last one lifts the lockouts row and zeroes the counter.
Unlock ==
    /\ Administer
    /\ prin.live
    /\ prin' = [prin EXCEPT !.unlock = now]
    /\ IF prin.unlock # now
         THEN /\ row' = [row EXCEPT !.active = FALSE]
              /\ shared' = [shared EXCEPT !.fail = 0]
              /\ tried' = 0
         ELSE UNCHANGED <<row, shared, tried>>

\* delete_principal removes the counters and lifts the lockout.
Delete ==
    /\ Administer
    /\ prin.live
    /\ prin' = [live |-> FALSE, unlock |-> 0]
    /\ shared' = NoState
    /\ row' = [row EXCEPT !.active = FALSE]
    /\ tried' = 0

\* rename_raw to another name takes the counters along; the lockouts row of
\* the old name stays.
Rename ==
    /\ Administer
    /\ prin.live
    /\ prin' = [live |-> FALSE, unlock |-> 0]
    /\ shared' = NoState
    /\ tried' = 0
    /\ UNCHANGED row

\* create_principal of a name that was deleted or renamed.
Create ==
    /\ Administer
    /\ ~prin.live
    /\ prin' = [live |-> TRUE, unlock |-> 0]
    /\ tried' = 0
    /\ UNCHANGED <<shared, row>>

\* CockroachDB becomes reachable or unreachable from k.
Flip(k) ==
    /\ used.flips < set.flips
    /\ used' = [used EXCEPT !.flips = @ + 1]
    /\ up' = [up EXCEPT ![k] = ~@]
    /\ UNCHANGED <<set, now, authority, rep, local, copy, queue, req, tried>>

Tick ==
    /\ now < set.time
    /\ now' = now + 1
    /\ UNCHANGED <<set, authority, up, rep, local, copy, queue, req, tried, used>>

Init ==
    /\ set \in Settings
    /\ now = 1
    /\ prin = [live |-> TRUE, unlock |-> 0]
    /\ shared = NoState
    /\ row = NoRow
    /\ up = [k \in Kdcs |-> set.up]
    /\ rep = [k \in Kdcs |-> [live |-> TRUE, unlock |-> 0, row |-> NoRow]]
    /\ local = [k \in Kdcs |-> NoState]
    /\ copy = [k \in Kdcs |-> NoCopy]
    /\ queue = [k \in Kdcs |-> <<>>]
    /\ req = [w \in Workers |-> Idle]
    /\ tried = 0
    /\ used = [admin |-> 0, flips |-> 0, crashes |-> 0, rebuilds |-> 0]

Request(w) ==
    \/ \E k \in set.kdcs : Start(w, k)
    \/ Check(w)
    \/ \E good \in BOOLEAN : Verify(w, good)
    \/ AuditRead(w)
    \/ Abandon(w)
    \/ ApplyShared(w)
    \/ ApplyLocal(w)
    \/ Mirror(w)

Kdc(k) ==
    \/ SendReport(k)
    \/ DropReport(k)
    \/ Replicate(k)
    \/ BeginRebuildCommit(k)
    \/ EndRebuildCommit(k)
    \/ Crash(k)
    \/ Flip(k)

Next ==
    \/ \E w \in set.workers : Request(w)
    \/ \E k \in set.kdcs : Kdc(k)
    \/ Unlock
    \/ Delete
    \/ Rename
    \/ Create
    \/ Tick

Spec == Init /\ [][Next]_vars

-----------------------------------------------------------------------------
(* Properties                                                              *)

AuthState == [fail : 0 .. U32Max, last : 0 .. set.time]
LockRow == [active : BOOLEAN, at : 0 .. set.time, until : 0 .. set.time + set.duration]

\* Every variable has its type (AuthState, LockoutRecord, PrincipalEntry).
TypeOK ==
    /\ set \in Settings
    /\ now \in 1 .. set.time
    /\ prin \in [live : BOOLEAN, unlock : 0 .. set.time]
    /\ shared \in AuthState
    /\ row \in LockRow
    /\ up \in [Kdcs -> BOOLEAN]
    /\ rep \in [Kdcs -> [live : BOOLEAN, unlock : 0 .. set.time, row : LockRow]]
    /\ local \in [Kdcs -> AuthState]
    /\ copy \in [Kdcs -> AuthState \union {NoCopy}]
    /\ queue \in [Kdcs -> Seq([at : 0 .. set.time, until : 0 .. set.time + set.duration])]
    /\ \A k \in Kdcs : Len(queue[k]) <= QueueLimit
    /\ req \in [Workers ->
          [pc : {"idle", "check", "mirrorCheck", "verify", "audit", "mirrorAudit",
                 "apply", "mirrorApply"},
           kdc : Kdcs, stamp : 0 .. set.time, unlock : 0 .. set.time,
           good : BOOLEAN, clear : BOOLEAN, state : AuthState]]
    /\ tried \in Nat
    /\ used \in [admin : 0 .. set.admin, flips : 0 .. set.flips,
                crashes : 0 .. set.crashes, rebuilds : 0 .. set.rebuilds]

\* Wrong passwords tried that no count restart, unlock or error forgave: the
\* audited ones and those still on their way to the audit.
OnTheWay ==
    {w \in Workers :
        /\ Wrong(w)
        /\ \/ req[w].pc \in {"audit", "apply"}
           \/ req[w].pc = "mirrorAudit" /\ ~Refused(w, req[w].state)}
Tries == tried + Cardinality(OnTheWay)

\* One count goes on: locks last, the administrator does not act, and the KDCs
\* share the counters throughout, or one KDC counts alone.
OneCount ==
    /\ set.duration = 0
    /\ set.admin = 0
    /\ set.flips = 0
    /\ set.up \/ \E k \in Kdcs : set.kdcs = {k}

\* A lock without a duration comes after pw_max_fail wrong passwords, tried on
\* any KDCs while the counters are shared, or on a KDC that counts alone: only
\* the other requests already in flight can still try one more each
\* (AuthState::apply under each store's atomicity, audit_as, check_lockout).
ThresholdHolds == OneCount => Tries <= MaxFail + Cardinality(set.workers) - 1

\* A deleted principal has no counters, so none wait for a later principal of
\* that name (CockroachStore::apply, delete_principal).
DeletedClean == ~prin.live => shared = NoState

\* The lockouts row in force is not about a failure before the last unlock:
\* an administrative unlock lifts the replicated lockout (update_principal).
UnlockLifts == RowActive(row) => row.at >= prin.unlock

\* A principal locked without a duration stays locked until an administrator
\* unlocks or replaces it.
LockHolds ==
    [][set.duration = 0 /\ Locked(now, shared, prin.unlock) /\ used'.admin = used.admin
          => Locked(now', shared', prin'.unlock)]_vars

=============================================================================
