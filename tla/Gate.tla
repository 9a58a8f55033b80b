-------------------------------- MODULE Gate --------------------------------
(***************************************************************************)
(* The consistency gate of a KDC that serves a replica (FreshnessGate and  *)
(* StrictGate in src/kdc/replication/engine.rs) and the AS request it      *)
(* guards: look the entries up, ask the gate, validate, issue.             *)
(*                                                                         *)
(* The authority's present is the length of its history, and every write   *)
(* takes a time of its own.  The replica is the history at the time of its *)
(* checkpoint, which is what Replication shows.  The KDC's monotonic clock *)
(* runs at the authority's rate.                                           *)
(***************************************************************************)
EXTENDS Integers, Sequences, FiniteSets

CONSTANTS
    Roles,          \* the request's subjects, a sequence over client and server
    Strict,         \* consistency_mode = strict
    MaxStaleness,   \* max_staleness
    FollowerLag,    \* how far a follower read lies in the past
    MaxPoll,        \* the longest time from a read's clock sample to its return
    MaxTime,        \* bound: the clock stops here
    MaxWrites       \* bound: writes of the administrator

ASSUME RolesAssumption ==
    /\ Roles \in Seq({"client", "server"})
    /\ Roles # <<>>
ASSUME SwitchAssumption == Strict \in BOOLEAN
ASSUME TimeAssumption ==
    /\ MaxStaleness \in Nat /\ FollowerLag \in Nat /\ MaxPoll \in Nat
    /\ MaxTime \in Nat \ {0}
ASSUME WritesAssumption == MaxWrites \in Nat

VARIABLES
    hist,       \* the authority's state at each time
    rep,        \* the replica's checkpoint; 0 before the first snapshot
    status,     \* the engine's StatusSnapshot
    job,        \* the poll or rebuild under way
    req         \* the AS request under way

vars == <<hist, rep, status, job, req>>

Subjects == DOMAIN Roles
now == Len(hist)

\* A principal as the authority has it: its keys are the time they were made,
\* raw says that they were last written through the raw MIT entry, and born
\* tells apart the principals a name had one after the other.
Entry == [live : BOOLEAN, disabled : BOOLEAN, locked : BOOLEAN, epoch : 1 .. MaxTime,
          key : 1 .. MaxTime, raw : BOOLEAN, born : 1 .. MaxTime]
NewEntry(time) == [live |-> TRUE, disabled |-> FALSE, locked |-> FALSE, epoch |-> 1,
                   key |-> time, raw |-> FALSE, born |-> time]

InitStatus == [boot |-> FALSE, rebuilding |-> FALSE, needs |-> FALSE, lag |-> 0, seen |-> 0]
NoJob == [pc |-> "idle", upto |-> 0, sampled |-> 0, seen |-> 0]
NoReq == [pc |-> "idle", index |-> 1, entry |-> [s \in Subjects |-> NewEntry(1)],
          gate |-> 0, read |-> [s \in Subjects |-> 0]]

-----------------------------------------------------------------------------
(* The authority                                                           *)

\* Time passes only while a read that is under way may still take longer.
TimePasses ==
    /\ now < MaxTime
    /\ job.pc \in {"poll", "open"} => now - job.sampled < MaxPoll

Writes == {t \in 2 .. now : hist[t] # hist[t - 1]}

Commit(s, e) ==
    /\ TimePasses
    /\ Cardinality(Writes) < MaxWrites
    /\ hist' = Append(hist, [hist[now] EXCEPT ![s] = e])
    /\ UNCHANGED <<rep, status, job, req>>

Tick ==
    /\ TimePasses
    /\ hist' = Append(hist, hist[now])
    /\ UNCHANGED <<rep, status, job, req>>

\* modprinc -allow_tix or +allow_tix: a change of attributes bumps the epoch.
SetDisabled(s) ==
    LET e == hist[now][s]
    IN  e.live /\ Commit(s, [e EXCEPT !.disabled = ~@, !.epoch = @ + 1])

\* cpw or randkey: new keys, the epoch is bumped and a lockout is lifted.
ChangeKey(s) ==
    LET e == hist[now][s]
    IN  e.live /\ Commit(s, [e EXCEPT !.key = now + 1, !.raw = FALSE,
                                       !.epoch = @ + 1, !.locked = FALSE])

\* kadmind's setkey and purgekeys write the raw MIT entry, which carries no
\* epoch: from_mit gives the changed keys the epoch of the entry before.
SetRawKey(s) ==
    LET e == hist[now][s]
    IN  e.live /\ Commit(s, [e EXCEPT !.key = now + 1, !.raw = TRUE])

\* report_lockout touches the lockouts row only.
Lock(s) ==
    LET e == hist[now][s]
    IN  e.live /\ Commit(s, [e EXCEPT !.locked = TRUE])

Delete(s) ==
    LET e == hist[now][s]
    IN  e.live /\ Commit(s, [e EXCEPT !.live = FALSE, !.locked = FALSE])

\* Mutant of Create: the entry keeps the epoch it was built with.
Create_EpochZero(s) ==
    /\ ~hist[now][s].live
    /\ Commit(s, [NewEntry(now + 1) EXCEPT !.epoch = 0])

\* addprinc: a new principal starts at epoch 1.
Create(s) ==
    /\ ~hist[now][s].live
    /\ Commit(s, NewEntry(now + 1))

-----------------------------------------------------------------------------
(* The engine                                                              *)

\* A read at t samples the present first.
ReadTs == {t \in 1 .. now : t >= now - FollowerLag}

\* cycle polls: the batch ends at the read time, earlier when it is truncated,
\* and at the checkpoint when the read knows nothing new.
BeginPoll(t, upto) ==
    /\ job.pc = "idle"
    /\ rep # 0
    /\ IF t <= rep THEN upto = rep ELSE upto \in rep + 1 .. t
    /\ job' = [NoJob EXCEPT !.pc = "poll", !.upto = upto, !.sampled = now]
    /\ UNCHANGED <<hist, rep, status, req>>

\* The poll returned: Instant::now() is the time of observation.
PollReturns ==
    /\ job.pc = "poll"
    /\ job' = [job EXCEPT !.pc = "apply", !.seen = now]
    /\ UNCHANGED <<hist, rep, status, req>>

Apply ==
    /\ job.pc = "apply"
    /\ rep' = job.upto
    /\ job' = [job EXCEPT !.pc = "publish"]
    /\ UNCHANGED <<hist, status, req>>

Fresh(j) == [boot |-> TRUE, rebuilding |-> FALSE, needs |-> FALSE,
             lag |-> j.sampled - j.upto, seen |-> j.seen]

\* Mutant of Publish: the observation is taken when the status is written.
Publish_SeenNow ==
    /\ job.pc = "publish"
    /\ status' = [Fresh(job) EXCEPT !.seen = now]
    /\ job' = NoJob
    /\ UNCHANGED <<hist, rep, req>>

\* cycle writes the status after the sink has applied.
Publish ==
    /\ job.pc = "publish"
    /\ status' = Fresh(job)
    /\ job' = NoJob
    /\ UNCHANGED <<hist, rep, req>>

\* The source pruned past the checkpoint and rebuilds are manual.
NeedsRebuild ==
    /\ job.pc = "idle"
    /\ rep # 0
    /\ status' = [status EXCEPT !.needs = TRUE, !.boot = FALSE]
    /\ UNCHANGED <<hist, rep, job, req>>

BeginRebuild(t) ==
    /\ job.pc = "idle"
    /\ status' = [status EXCEPT !.rebuilding = TRUE]
    /\ job' = [NoJob EXCEPT !.pc = "open", !.upto = t, !.sampled = now]
    /\ UNCHANGED <<hist, rep, req>>

SnapshotOpens ==
    /\ job.pc = "open"
    /\ job' = [job EXCEPT !.pc = "copy", !.seen = now]
    /\ UNCHANGED <<hist, rep, status, req>>

\* RebuildWriter::commit swaps the database; the status follows.
Install ==
    /\ job.pc = "copy"
    /\ rep' = job.upto
    /\ job' = [job EXCEPT !.pc = "publishRebuild"]
    /\ UNCHANGED <<hist, status, req>>

PublishRebuild ==
    /\ job.pc = "publishRebuild"
    /\ status' = Fresh(job)
    /\ job' = NoJob
    /\ UNCHANGED <<hist, rep, req>>

\* The source or the sink fails: the published freshness only ages.
Fail ==
    /\ job.pc \in {"poll", "apply", "open", "copy"}
    /\ status' = [status EXCEPT !.rebuilding = FALSE]
    /\ job' = NoJob
    /\ UNCHANGED <<hist, rep, req>>

\* The process restarts; the replica is on disk.
Crash ==
    /\ status' = InitStatus
    /\ job' = NoJob
    /\ req' = NoReq
    /\ UNCHANGED <<hist, rep>>

-----------------------------------------------------------------------------
(* The request                                                             *)

Refuse == req' = NoReq

\* StatusSnapshot::freshness and FreshnessGate::check.
Freshness == status.lag + (now - status.seen)
Open ==
    /\ status.boot /\ ~status.needs /\ ~status.rebuilding
    /\ Freshness <= MaxStaleness

\* process_as_req looks one subject up in the replica after the other.
Lookup ==
    /\ req.pc \in {"idle", "lookup"}
    /\ rep # 0
    /\ LET e == hist[rep][req.index]
       IN  IF ~e.live THEN Refuse
           ELSE req' = [req EXCEPT
                    !.entry[req.index] = e,
                    !.index = IF req.index = Len(Roles) THEN 1 ELSE @ + 1,
                    !.pc = IF req.index = Len(Roles) THEN "gate" ELSE "lookup"]
    /\ UNCHANGED <<hist, rep, status, job>>

\* consistency_gate: freshness first, then the authority in strict mode.
CheckFreshness ==
    /\ req.pc = "gate"
    /\ IF Open
         THEN req' = [req EXCEPT !.pc = IF Strict THEN "authority" ELSE "validate", !.gate = now]
         ELSE Refuse
    /\ UNCHANGED <<hist, rep, status, job>>

\* Mutant of Contradicts: no comparison of epochs.
Contradicts_NoEpoch(a, e, role) ==
    \/ ~a.live
    \/ a.disabled /\ ~e.disabled
    \/ a.locked /\ role = "client"

\* StrictGate::check: the authority's state a denies or rejects the local
\* entry e.
Contradicts(a, e, role) ==
    \/ ~a.live
    \/ a.disabled /\ ~e.disabled
    \/ a.locked /\ role = "client"
    \/ a.epoch > e.epoch

CheckAuthority ==
    LET s == req.index
    IN  /\ req.pc = "authority"
        /\ \/ Refuse        \* the authority is slow or unreachable
           \/ /\ Contradicts(hist[now][s], req.entry[s], Roles[s])
              /\ Refuse
           \/ /\ ~Contradicts(hist[now][s], req.entry[s], Roles[s])
              /\ req' = [req EXCEPT !.read[s] = now,
                                    !.index = IF s = Len(Roles) THEN 1 ELSE @ + 1,
                                    !.pc = IF s = Len(Roles) THEN "validate" ELSE @]
        /\ UNCHANGED <<hist, rep, status, job>>

\* validate_as_request refuses a disabled client or server.
Validate ==
    /\ req.pc = "validate"
    /\ IF \E s \in Subjects : req.entry[s].disabled
         THEN Refuse
         ELSE req' = [req EXCEPT !.pc = "issued"]
    /\ UNCHANGED <<hist, rep, status, job>>

Reply ==
    /\ req.pc = "issued"
    /\ Refuse
    /\ UNCHANGED <<hist, rep, status, job>>

-----------------------------------------------------------------------------
Init ==
    /\ hist = <<[s \in Subjects |-> NewEntry(1)]>>
    /\ rep = 0
    /\ status = InitStatus
    /\ job = NoJob
    /\ req = NoReq

Admin ==
    \E s \in Subjects :
        SetDisabled(s) \/ ChangeKey(s) \/ SetRawKey(s) \/ Lock(s) \/ Delete(s) \/ Create(s)

Engine ==
    \/ \E t \in ReadTs, upto \in 1 .. now : BeginPoll(t, upto)
    \/ PollReturns
    \/ Apply
    \/ Publish
    \/ NeedsRebuild
    \/ \E t \in ReadTs : BeginRebuild(t)
    \/ SnapshotOpens
    \/ Install
    \/ PublishRebuild
    \/ Fail

Request == Lookup \/ CheckFreshness \/ CheckAuthority \/ Validate \/ Reply

Next ==
    \/ Tick
    \/ Admin
    \/ Engine
    \/ Crash
    \/ Request

Spec == Init /\ [][Next]_vars

-----------------------------------------------------------------------------
(* Properties                                                              *)

Times == 0 .. MaxTime

\* Every variable has its type (StatusSnapshot, PollResult, PrincipalEntry).
TypeOK ==
    /\ hist \in Seq([Subjects -> Entry])
    /\ now \in 1 .. MaxTime
    /\ rep \in 0 .. now
    /\ status \in [boot : BOOLEAN, rebuilding : BOOLEAN, needs : BOOLEAN,
                   lag : Times, seen : 0 .. now]
    /\ job \in [pc : {"idle", "poll", "apply", "publish", "open", "copy", "publishRebuild"},
                upto : 0 .. now, sampled : 0 .. now, seen : 0 .. now]
    /\ req \in [pc : {"idle", "lookup", "gate", "authority", "validate", "issued"},
                index : Subjects, entry : [Subjects -> Entry],
                gate : 0 .. now, read : [Subjects -> 0 .. now]]

\* A gate that is open stands before a replica no older than max_staleness and
\* the time a read takes: whatever polls, rebuilds, failures and restarts went
\* before, the freshness the gate computes is about the database it serves.
OpenBounded == Open => now - rep <= MaxStaleness + MaxPoll

\* A ticket is issued from entries that were the authority's at some time in
\* the max_staleness before the gate allowed it.
IssuedWithinWindow ==
    req.pc = "issued" =>
        \A s \in Subjects :
            \E t \in 1 .. req.gate :
                t >= req.gate - MaxStaleness /\ hist[t][s] = req.entry[s]

\* In strict mode a ticket is issued only for principals the authority had not
\* disabled, deleted or locked out when the gate read their state, and with
\* the keys they had then, however old the replica's entries were, as long as
\* the name still belongs to the same principal and cpw, randkey or addprinc
\* made those keys: of keys that setkey or purgekeys wrote the epoch says
\* nothing (StrictReplaced).
StrictUpToDate ==
    req.pc = "issued" /\ Strict =>
        \A s \in Subjects :
            LET a == hist[req.read[s]][s]
            IN  /\ a.live /\ ~a.disabled
                /\ Roles[s] = "client" => ~a.locked
                /\ a.born = req.entry[s].born /\ ~a.raw => a.key = req.entry[s].key

\* In strict mode the keys of a principal that was deleted are not used for
\* the one created under its name: a stale local entry is rejected.
StrictRecreated ==
    req.pc = "issued" /\ Strict =>
        \A s \in Subjects : hist[req.read[s]][s].born = req.entry[s].born

\* In strict mode keys that the authority had replaced or revoked are not
\* used: every key rotation or revocation bumps the epoch the gate compares.
StrictReplaced ==
    req.pc = "issued" /\ Strict =>
        \A s \in Subjects :
            LET a == hist[req.read[s]][s]
            IN  a.born = req.entry[s].born => a.key = req.entry[s].key

=============================================================================
