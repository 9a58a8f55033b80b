----------------------------- MODULE Kdc_proofs -----------------------------
(***************************************************************************)
(* Proofs about the KDC, for every value of the constants.                 *)
(*                                                                         *)
(* Gate: an open gate bounds the age of the replica, and in strict mode    *)
(* what a ticket is made from is the authority's present, however old the  *)
(* replica is, but for keys that were written without an epoch.            *)
(*                                                                         *)
(* KdcDaemon, for every number of modules, requests and failures: a ticket *)
(* leaves only with the consent of every loaded policy module to that      *)
(* request, an audit module is told of a request at most once and of its   *)
(* result, and an orderly shutdown waits for every request.                *)
(***************************************************************************)
EXTENDS Gate, KdcDaemon, FiniteSetTheorems, SequenceTheorems, TLAPS

-----------------------------------------------------------------------------
(* The gates                                                               *)

AnyEntry == [live : BOOLEAN, disabled : BOOLEAN, locked : BOOLEAN, epoch : Int, key : Int,
             raw : BOOLEAN, born : Int]

Statuses ==
    [boot : BOOLEAN, rebuilding : BOOLEAN, needs : BOOLEAN, lag : Int, seen : Int]
Jobs ==
    [pc : {"idle", "poll", "apply", "publish", "open", "copy", "publishRebuild"},
     upto : Int, sampled : Int, seen : Int]

Types ==
    /\ hist \in Seq([Subjects -> AnyEntry])
    /\ now >= 1
    /\ rep \in Int
    /\ status \in Statuses
    /\ job \in Jobs

\* A read is observed at most MaxPoll after it sampled the authority's clock.
ReadsInTime ==
    /\ job.pc \in {"poll", "open"} => now - job.sampled <= MaxPoll
    /\ job.pc \in {"apply", "publish", "copy", "publishRebuild"} =>
          job.seen - job.sampled <= MaxPoll

\* A poll never ends before the checkpoint, and what is about to be published
\* is the checkpoint; a rebuild keeps the gate closed until then.
JobMatches ==
    /\ job.pc \in {"poll", "apply"} => rep <= job.upto
    /\ job.pc \in {"publish", "publishRebuild"} => rep = job.upto
    /\ job.pc \in {"open", "copy", "publishRebuild"} => status.rebuilding

\* The published freshness is about the checkpoint on disk or an earlier one,
\* except between a rebuild's install and its publication.
StatusMatches ==
    status.boot /\ job.pc # "publishRebuild" => status.seen - status.lag <= rep + MaxPoll

IInv == Types /\ ReadsInTime /\ JobMatches /\ StatusMatches

-----------------------------------------------------------------------------
\* Appending to the history makes time pass by one and keeps its type.
LEMMA HistoryGrows ==
    ASSUME Types, NEW e, e \in [Subjects -> AnyEntry], hist' = Append(hist, e)
    PROVE  hist' \in Seq([Subjects -> AnyEntry]) /\ now' = now + 1
BY DEF Types, now

\* What is the authority's state at present.
LEMMA PresentState ==
    ASSUME Types
    PROVE  hist[now] \in [Subjects -> AnyEntry] /\ now \in Int
BY DEF Types, now

\* A step that only lets time pass keeps the invariant.
LEMMA PassingKeeps ==
    ASSUME IInv, TimePasses, UNCHANGED <<rep, status, job>>,
           hist' \in Seq([Subjects -> AnyEntry]), now' = now + 1
    PROVE  IInv'
<1>. now \in Int
  BY PresentState DEF IInv
<1>1. Types'
  BY DEF IInv, Types
<1>2. ReadsInTime'
  BY TimeAssumption DEF IInv, Types, Jobs, ReadsInTime, TimePasses
<1>3. JobMatches' /\ StatusMatches'
  BY DEF IInv, JobMatches, StatusMatches
<1>. QED  BY <1>1, <1>2, <1>3 DEF IInv

\* What the administrator writes for an entry a is an entry.
LEMMA WrittenEntries ==
    ASSUME NEW a \in AnyEntry, NEW k \in Int
    PROVE  /\ [a EXCEPT !.disabled = ~@, !.epoch = @ + 1] \in AnyEntry
           /\ [a EXCEPT !.key = k, !.raw = FALSE, !.epoch = @ + 1, !.locked = FALSE] \in AnyEntry
           /\ [a EXCEPT !.key = k, !.raw = TRUE] \in AnyEntry
           /\ [a EXCEPT !.locked = TRUE] \in AnyEntry
           /\ [a EXCEPT !.live = FALSE, !.locked = FALSE] \in AnyEntry
           /\ NewEntry(k) \in AnyEntry
<1>1. a.epoch + 1 \in Int /\ (~a.disabled) \in BOOLEAN
  BY DEF AnyEntry
<1>2. [a EXCEPT !.disabled = ~@, !.epoch = @ + 1] \in AnyEntry
  BY <1>1 DEF AnyEntry
<1>3. [a EXCEPT !.key = k, !.raw = FALSE, !.epoch = @ + 1, !.locked = FALSE] \in AnyEntry
  BY <1>1 DEF AnyEntry
<1>7. [a EXCEPT !.key = k, !.raw = TRUE] \in AnyEntry
  BY DEF AnyEntry
<1>4. [a EXCEPT !.locked = TRUE] \in AnyEntry
  BY DEF AnyEntry
<1>5. [a EXCEPT !.live = FALSE, !.locked = FALSE] \in AnyEntry
  BY DEF AnyEntry
<1>6. NewEntry(k) \in AnyEntry
  BY DEF AnyEntry, NewEntry
<1>. QED  BY <1>2, <1>3, <1>4, <1>5, <1>6, <1>7

\* Every write of the authority only lets time pass.
LEMMA AdminKeeps ==
    ASSUME IInv, NEW s \in Subjects,
           SetDisabled(s) \/ ChangeKey(s) \/ SetRawKey(s) \/ Lock(s) \/ Delete(s) \/ Create(s)
    PROVE  IInv'
<1>1. /\ hist[now] \in [Subjects -> AnyEntry]
      /\ now + 1 \in Int
  BY PresentState DEF IInv
<1>2. hist[now][s] \in AnyEntry
  BY <1>1
<1>3. PICK e \in AnyEntry : Commit(s, e)
  BY <1>1, <1>2, WrittenEntries DEF SetDisabled, ChangeKey, SetRawKey, Lock, Delete, Create
<1>4. [hist[now] EXCEPT ![s] = e] \in [Subjects -> AnyEntry]
  BY <1>1, <1>3
<1>5. hist' \in Seq([Subjects -> AnyEntry]) /\ now' = now + 1
  BY <1>3, <1>4, HistoryGrows DEF Commit, IInv
<1>. QED  BY <1>3, <1>5, PassingKeeps DEF Commit

\* Time that just passes.
LEMMA TickKeeps ==
    ASSUME IInv, Tick
    PROVE  IInv'
<1>1. hist' \in Seq([Subjects -> AnyEntry]) /\ now' = now + 1
  BY PresentState, HistoryGrows DEF Tick, IInv
<1>. QED  BY <1>1, PassingKeeps DEF Tick

\* No step of the engine publishes a freshness the checkpoint does not have.
LEMMA EngineKeeps ==
    ASSUME IInv, Engine
    PROVE  IInv'
<1>. USE DEF IInv, Types, Statuses, Jobs, ReadsInTime, JobMatches, StatusMatches
<1>. now \in Int
  BY PresentState
<1>0. UNCHANGED hist => now' = now
  BY DEF now
<1>1. ASSUME NEW t \in ReadTs, NEW upto \in 1 .. now, BeginPoll(t, upto)
      PROVE  IInv'
  <2>1. Types'
    <3>1. job' \in Jobs
      <4>1. job' = [pc |-> "poll", upto |-> upto, sampled |-> now, seen |-> 0]
        BY <1>1 DEF BeginPoll, NoJob
      <4>. QED  BY <4>1
    <3>2. status' \in Statuses
      BY <1>1 DEF BeginPoll
    <3>3. hist' = hist /\ rep' = rep
      BY <1>1 DEF BeginPoll
    <3>. QED  BY <1>0, <3>1, <3>2, <3>3
  <2>2. ReadsInTime'
    BY <1>0, <1>1, TimeAssumption DEF BeginPoll, NoJob, ReadTs
  <2>3. JobMatches'
    BY <1>0, <1>1, TimeAssumption DEF BeginPoll, NoJob, ReadTs
  <2>4. StatusMatches'
    BY <1>0, <1>1, TimeAssumption DEF BeginPoll, NoJob, ReadTs
  <2>. QED  BY <2>1, <2>2, <2>3, <2>4
<1>2. CASE PollReturns
  BY <1>0, <1>2 DEF PollReturns
<1>3. CASE Apply
  <2>1. Types'
    BY <1>0, <1>3 DEF Apply
  <2>2. ReadsInTime'
    BY <1>0, <1>3 DEF Apply
  <2>3. JobMatches'
    BY <1>0, <1>3 DEF Apply
  <2>4. StatusMatches'
    <3>. SUFFICES ASSUME status'.boot PROVE status'.seen - status'.lag <= rep' + MaxPoll
      OBVIOUS
    <3>1. status.boot /\ job.pc # "publishRebuild"
      BY <1>3 DEF Apply
    <3>2. status'.seen = status.seen /\ status'.lag = status.lag
      BY <1>3 DEF Apply
    <3>3. rep' \in Int /\ rep' >= rep
      BY <1>3 DEF Apply
    <3>. QED  BY <3>1, <3>2, <3>3, TimeAssumption
  <2>. QED  BY <2>1, <2>2, <2>3, <2>4
<1>4. CASE Publish
  BY <1>0, <1>4, TimeAssumption DEF Publish, Fresh, NoJob
<1>5. CASE NeedsRebuild
  BY <1>0, <1>5 DEF NeedsRebuild
<1>6. ASSUME NEW t \in ReadTs, BeginRebuild(t)
      PROVE  IInv'
  <2>1. Types'
    <3>1. job' \in Jobs
      <4>1. job' = [pc |-> "open", upto |-> t, sampled |-> now, seen |-> 0]
        BY <1>6 DEF BeginRebuild, NoJob
      <4>. QED  BY <4>1, t \in Int DEF ReadTs
    <3>2. status' \in Statuses
      BY <1>6 DEF BeginRebuild
    <3>3. hist' = hist /\ rep' = rep
      BY <1>6 DEF BeginRebuild
    <3>. QED  BY <1>0, <3>1, <3>2, <3>3
  <2>2. ReadsInTime'
    BY <1>0, <1>6, TimeAssumption DEF BeginRebuild, NoJob, ReadTs
  <2>3. JobMatches'
    BY <1>0, <1>6, TimeAssumption DEF BeginRebuild, NoJob, ReadTs
  <2>4. StatusMatches'
    <3>. SUFFICES ASSUME status'.boot PROVE status'.seen - status'.lag <= rep' + MaxPoll
      OBVIOUS
    <3>1. status.boot /\ job.pc # "publishRebuild"
      BY <1>6 DEF BeginRebuild
    <3>2. status'.seen = status.seen /\ status'.lag = status.lag
      BY <1>6 DEF BeginRebuild
    <3>3. rep' \in Int /\ rep' >= rep
      BY <1>6 DEF BeginRebuild
    <3>. QED  BY <3>1, <3>2, <3>3, TimeAssumption
  <2>. QED  BY <2>1, <2>2, <2>3, <2>4
<1>7. CASE SnapshotOpens
  BY <1>0, <1>7 DEF SnapshotOpens
<1>8. CASE Install
  BY <1>0, <1>8 DEF Install
<1>9. CASE PublishRebuild
  BY <1>0, <1>9, TimeAssumption DEF PublishRebuild, Fresh, NoJob
<1>10. CASE Fail
  <2>1. Types'
    <3>1. job' \in Jobs
      BY <1>10 DEF Fail, NoJob
    <3>2. status' \in Statuses
      BY <1>10 DEF Fail
    <3>3. hist' = hist /\ rep' = rep
      BY <1>10 DEF Fail
    <3>. QED  BY <1>0, <3>1, <3>2, <3>3
  <2>2. ReadsInTime'
    BY <1>0, <1>10 DEF Fail, NoJob
  <2>3. JobMatches'
    BY <1>0, <1>10 DEF Fail, NoJob
  <2>4. StatusMatches'
    <3>. SUFFICES ASSUME status'.boot PROVE status'.seen - status'.lag <= rep' + MaxPoll
      OBVIOUS
    <3>1. status.boot /\ job.pc # "publishRebuild"
      BY <1>10 DEF Fail
    <3>2. status'.seen = status.seen /\ status'.lag = status.lag
      BY <1>10 DEF Fail
    <3>3. rep' \in Int /\ rep' >= rep
      BY <1>10 DEF Fail
    <3>. QED  BY <3>1, <3>2, <3>3, TimeAssumption
  <2>. QED  BY <2>1, <2>2, <2>3, <2>4
<1>. QED  BY <1>1, <1>2, <1>3, <1>4, <1>5, <1>6, <1>7, <1>8, <1>9, <1>10 DEF Engine

\* The invariant holds at the start ...
LEMMA InvariantInit == Init => IInv
<1>. SUFFICES ASSUME Init PROVE IInv
  OBVIOUS
<1>1. [s \in Subjects |-> NewEntry(1)] \in [Subjects -> AnyEntry]
  BY DEF NewEntry, AnyEntry
<1>2. hist \in Seq([Subjects -> AnyEntry]) /\ now = 1
  BY <1>1 DEF Init, now
<1>. QED
  BY <1>2 DEF Init, IInv, Types, Statuses, Jobs, ReadsInTime, JobMatches,
              StatusMatches, InitStatus, NoJob

\* ... and every step keeps it.
LEMMA InvariantNext == IInv /\ [Next]_vars => IInv'
<1>. SUFFICES ASSUME IInv, [Next]_vars PROVE IInv'
  OBVIOUS
<1>1. CASE Tick
  BY <1>1, TickKeeps
<1>2. CASE Admin
  BY <1>2, AdminKeeps DEF Admin
<1>3. CASE Engine
  BY <1>3, EngineKeeps
<1>4. CASE Crash
  BY <1>4 DEF Crash, IInv, Types, Statuses, Jobs, ReadsInTime, JobMatches, StatusMatches,
              InitStatus, NoJob, now
<1>5. CASE UNCHANGED <<hist, rep, status, job>>
  BY <1>5 DEF IInv, Types, ReadsInTime, JobMatches, StatusMatches, now
<1>6. Request \/ UNCHANGED vars => UNCHANGED <<hist, rep, status, job>>
  BY DEF Request, Lookup, CheckFreshness, CheckAuthority, Validate, Reply, vars
<1>. QED  BY <1>1, <1>2, <1>3, <1>4, <1>5, <1>6 DEF Next

LEMMA Invariant == Spec => []IInv
  BY InvariantInit, InvariantNext, PTL DEF Spec

\* An open gate stands before a replica no older than max_staleness and the
\* time a read takes (FreshnessGate::check, cycle, rebuild).
THEOREM GateBound == Spec => []OpenBounded
<1>1. IInv => OpenBounded
  <2>. SUFFICES ASSUME IInv, Open PROVE now - rep <= MaxStaleness + MaxPoll
    BY DEF OpenBounded
  <2>1. now \in Int
    BY PresentState DEF IInv
  <2>2. status.seen - status.lag <= rep + MaxPoll
    BY DEF IInv, JobMatches, StatusMatches, Open
  <2>. QED  BY <2>1, <2>2, TimeAssumption DEF IInv, Types, Statuses, Open, Freshness
<1>. QED  BY <1>1, Invariant, PTL

-----------------------------------------------------------------------------
(* Strict mode                                                             *)

\* What the authority's history keeps about one principal: between two of its
\* states the epoch does not go back, and equal epochs mean equal keys unless
\* the later ones were written raw.
Follows(a, b) ==
    a.born = b.born =>
        /\ a.epoch <= b.epoch
        /\ a.epoch = b.epoch /\ ~b.raw => a.key = b.key /\ ~a.raw

HistoryInv ==
    /\ hist[1] = [s \in Subjects |-> NewEntry(1)]
    /\ \A s \in Subjects : \A i, j \in 1 .. now :
          /\ hist[i][s].born <= i
          /\ i <= j => Follows(hist[i][s], hist[j][s])

\* The entry of subject s was the authority's at some time up to t.
WasAuthoritys(s, t) == \E u \in 1 .. t : hist[u][s] = req.entry[s]

\* The gate has read the authority's state of s and let the entry pass.
Passed(s) ==
    /\ req.read[s] \in 1 .. now
    /\ WasAuthoritys(s, req.read[s])
    /\ ~Contradicts(hist[req.read[s]][s], req.entry[s], Roles[s])

RequestTypes ==
    req \in [pc : {"idle", "lookup", "gate", "authority", "validate", "issued"},
             index : Subjects, entry : [Subjects -> AnyEntry],
             gate : Int, read : [Subjects -> Int]]

RequestInv ==
    /\ RequestTypes
    /\ rep \in 0 .. now
    /\ job.upto \in 0 .. now
    /\ job.pc # "idle" => job.upto # 0
    /\ \A s \in Subjects : WasAuthoritys(s, now)
    /\ req.pc = "gate" => req.index = 1
    /\ req.pc = "authority" => \A s \in 1 .. req.index - 1 : Passed(s)
    /\ Strict /\ req.pc \in {"validate", "issued"} => \A s \in Subjects : Passed(s)
    /\ req.pc = "issued" => \A s \in Subjects : ~req.entry[s].disabled

StrictInv == IInv /\ HistoryInv /\ RequestInv

\* The history grows by st and keeps what was.
Grows(st) ==
    /\ now \in Nat /\ now >= 1 /\ now' = now + 1 /\ hist'[now'] = st
    /\ \A i \in 1 .. now : hist'[i] = hist[i] /\ hist[i] \in [Subjects -> AnyEntry]

LEMMA Appended ==
    ASSUME Types, NEW st \in [Subjects -> AnyEntry], hist' = Append(hist, st)
    PROVE  Grows(st)
BY DEF Types, now, Grows

\* A principal that was not created anew still follows what the last one did.
LEMMA FollowsOn ==
    ASSUME NEW x \in AnyEntry, NEW y \in AnyEntry, NEW z \in AnyEntry, Follows(x, y), Follows(y, z),
           z.born = y.born
    PROVE  Follows(x, z)
<1>1. x.epoch \in Int /\ y.epoch \in Int /\ z.epoch \in Int
  BY DEF AnyEntry
<1>2. CASE x.born # z.born
  BY <1>2 DEF Follows
<1>3. CASE x.born = z.born
  <2>1. /\ x.epoch <= y.epoch /\ (x.epoch = y.epoch /\ ~y.raw => x.key = y.key /\ ~x.raw)
        /\ y.epoch <= z.epoch /\ (y.epoch = z.epoch /\ ~z.raw => y.key = z.key /\ ~y.raw)
    BY <1>3 DEF Follows
  <2>2. x.epoch <= z.epoch /\ (x.epoch = z.epoch /\ ~z.raw => x.key = z.key /\ ~x.raw)
    BY <1>1, <2>1
  <2>. QED  BY <2>2 DEF Follows
<1>. QED  BY <1>2, <1>3

\* A state that follows the present one keeps the history in order.
LEMMA HistoryKeeps ==
    ASSUME HistoryInv, NEW st \in [Subjects -> AnyEntry], Grows(st),
           \A s \in Subjects : \/ st[s].born = now + 1
                               \/ /\ st[s].born = hist[now][s].born
                                  /\ Follows(hist[now][s], st[s])
    PROVE  HistoryInv'
<1>1. /\ now \in Nat /\ now >= 1 /\ now' = now + 1 /\ hist'[now'] = st
      /\ \A i \in 1 .. now : hist'[i] = hist[i] /\ hist[i] \in [Subjects -> AnyEntry]
  BY DEF Grows
<1>2. hist'[1] = [s \in Subjects |-> NewEntry(1)]
  BY <1>1 DEF HistoryInv
<1>3. ASSUME NEW s \in Subjects, NEW i \in 1 .. now', NEW j \in 1 .. now'
      PROVE  /\ hist'[i][s].born <= i
             /\ i <= j => Follows(hist'[i][s], hist'[j][s])
  <2>1. st[s] \in AnyEntry /\ hist[now][s] \in AnyEntry
    BY <1>1
  <2>2. \A k \in 1 .. now : hist[k][s] \in AnyEntry /\ hist[k][s].born <= k
    BY <1>1 DEF HistoryInv
  <2>3. st[s].born <= now + 1
    BY <1>1, <2>1, <2>2 DEF AnyEntry
  <2>4. CASE i <= now /\ j <= now
    BY <1>1, <2>4 DEF HistoryInv
  <2>5. CASE i <= now /\ j = now + 1
    <3>1. hist'[i][s] = hist[i][s] /\ hist'[j][s] = st[s] /\ hist[i][s] \in AnyEntry
      BY <1>1, <2>5
    <3>2. Follows(hist[i][s], hist[now][s]) /\ hist[i][s].born <= i
      BY <1>1, <2>5 DEF HistoryInv
    <3>3. Follows(hist[i][s], st[s])
      <4>1. CASE st[s].born = now + 1
        <5>1. hist[i][s].born < st[s].born
          BY <1>1, <2>5, <3>1, <3>2, <4>1 DEF AnyEntry
        <5>. QED  BY <5>1, <3>1, <2>1 DEF Follows, AnyEntry
      <4>2. CASE st[s].born = hist[now][s].born /\ Follows(hist[now][s], st[s])
        BY <2>1, <3>1, <3>2, <4>2, FollowsOn
      <4>. QED  BY <4>1, <4>2
    <3>. QED  BY <3>1, <3>2, <3>3
  <2>6. CASE i = now + 1
    <3>1. hist'[i][s] = st[s] /\ (i <= j => hist'[j][s] = st[s])
      BY <1>1, <2>6
    <3>. QED  BY <2>1, <2>3, <2>6, <3>1 DEF Follows, AnyEntry
  <2>. QED  BY <1>1, <2>4, <2>5, <2>6
<1>. QED  BY <1>2, <1>3 DEF HistoryInv

\* Every entry an administrator writes follows the one it replaces, or is a
\* new principal's.
LEMMA WritesFollow ==
    ASSUME Types, NEW s \in Subjects,
           SetDisabled(s) \/ ChangeKey(s) \/ SetRawKey(s) \/ Lock(s) \/ Delete(s) \/ Create(s)
    PROVE  \E w \in AnyEntry :
              /\ Commit(s, w)
              /\ \/ w.born = now + 1
                 \/ w.born = hist[now][s].born /\ Follows(hist[now][s], w)
<1>. DEFINE a == hist[now][s]
<1>1. a \in AnyEntry /\ now + 1 \in Int
  BY PresentState
<1>2. CASE SetDisabled(s)
  <2>. DEFINE w == [a EXCEPT !.disabled = ~@, !.epoch = @ + 1]
  <2>1. w \in AnyEntry
    BY <1>1, WrittenEntries
  <2>2. Commit(s, w)
    BY <1>2 DEF SetDisabled
  <2>3. w.born = a.born /\ w.epoch = a.epoch + 1
    BY <1>1 DEF AnyEntry
  <2>4. Follows(a, w)
    BY <1>1, <2>3 DEF Follows, AnyEntry
  <2>. QED  BY <2>1, <2>2, <2>3, <2>4
<1>3. CASE ChangeKey(s)
  <2>. DEFINE w == [a EXCEPT !.key = now + 1, !.raw = FALSE, !.epoch = @ + 1, !.locked = FALSE]
  <2>1. w \in AnyEntry
    BY <1>1, WrittenEntries
  <2>2. Commit(s, w)
    BY <1>3 DEF ChangeKey
  <2>3. w.born = a.born /\ w.epoch = a.epoch + 1
    BY <1>1 DEF AnyEntry
  <2>4. Follows(a, w)
    BY <1>1, <2>3 DEF Follows, AnyEntry
  <2>. QED  BY <2>1, <2>2, <2>3, <2>4
<1>7. CASE SetRawKey(s)
  <2>. DEFINE w == [a EXCEPT !.key = now + 1, !.raw = TRUE]
  <2>1. w \in AnyEntry
    BY <1>1, WrittenEntries
  <2>2. Commit(s, w)
    BY <1>7 DEF SetRawKey
  <2>3. w.born = a.born /\ w.epoch = a.epoch /\ w.raw
    BY <1>1 DEF AnyEntry
  <2>4. Follows(a, w)
    BY <1>1, <2>3 DEF Follows, AnyEntry
  <2>. QED  BY <2>1, <2>2, <2>3, <2>4
<1>4. CASE Lock(s)
  <2>. DEFINE w == [a EXCEPT !.locked = TRUE]
  <2>1. w \in AnyEntry
    BY <1>1, WrittenEntries
  <2>2. Commit(s, w)
    BY <1>4 DEF Lock
  <2>3. w.born = a.born /\ w.epoch = a.epoch /\ w.key = a.key /\ w.raw = a.raw
    BY <1>1 DEF AnyEntry
  <2>4. Follows(a, w)
    BY <1>1, <2>3 DEF Follows, AnyEntry
  <2>. QED  BY <2>1, <2>2, <2>3, <2>4
<1>5. CASE Delete(s)
  <2>. DEFINE w == [a EXCEPT !.live = FALSE, !.locked = FALSE]
  <2>1. w \in AnyEntry
    BY <1>1, WrittenEntries
  <2>2. Commit(s, w)
    BY <1>5 DEF Delete
  <2>3. w.born = a.born /\ w.epoch = a.epoch /\ w.key = a.key /\ w.raw = a.raw
    BY <1>1 DEF AnyEntry
  <2>4. Follows(a, w)
    BY <1>1, <2>3 DEF Follows, AnyEntry
  <2>. QED  BY <2>1, <2>2, <2>3, <2>4
<1>6. CASE Create(s)
  <2>1. NewEntry(now + 1) \in AnyEntry
    BY <1>1, WrittenEntries
  <2>2. Commit(s, NewEntry(now + 1)) /\ NewEntry(now + 1).born = now + 1
    BY <1>6 DEF Create, NewEntry
  <2>. QED  BY <2>1, <2>2
<1>. QED  BY <1>2, <1>3, <1>4, <1>5, <1>6, <1>7

\* While time passes a request stays what it is.
LEMMA RequestKeeps ==
    ASSUME RequestInv, NEW st \in [Subjects -> AnyEntry], Grows(st),
           UNCHANGED <<rep, job, req>>
    PROVE  RequestInv'
<1>1. /\ now \in Nat /\ now >= 1 /\ now' = now + 1
      /\ \A i \in 1 .. now : hist'[i] = hist[i]
  BY DEF Grows
<1>2. \A s \in Subjects : WasAuthoritys(s, now)'
  BY <1>1 DEF RequestInv, WasAuthoritys
<1>3. \A s \in Subjects : Passed(s) => Passed(s)'
  <2>. SUFFICES ASSUME NEW s \in Subjects, Passed(s) PROVE Passed(s)'
    OBVIOUS
  <2>1. req.read[s] \in 1 .. now /\ req.read[s] \in 1 .. now'
    BY <1>1 DEF Passed
  <2>2. hist'[req.read[s]] = hist[req.read[s]]
    BY <1>1, <2>1
  <2>3. WasAuthoritys(s, req.read[s])'
    BY <1>1, <2>1 DEF Passed, WasAuthoritys
  <2>. QED  BY <2>1, <2>2, <2>3 DEF Passed
<1>4. \A s \in 1 .. req.index - 1 : s \in Subjects
  BY RolesAssumption DEF RequestInv, RequestTypes, Subjects
<1>. QED  BY <1>1, <1>2, <1>3, <1>4 DEF RequestInv, RequestTypes

\* The replica and the job under way are within the history.
EngineBounds ==
    /\ rep \in 0 .. now
    /\ job.upto \in 0 .. now
    /\ job.pc # "idle" => job.upto # 0

LEMMA EngineWithin ==
    ASSUME Types, EngineBounds, Engine
    PROVE  EngineBounds' /\ UNCHANGED <<hist, req>>
<1>. USE DEF EngineBounds
<1>0. now \in Nat /\ now >= 1
  BY DEF Types, now
<1>1. UNCHANGED hist => now' = now
  BY DEF now
<1>2. ASSUME NEW t \in ReadTs, NEW upto \in 1 .. now, BeginPoll(t, upto)
      PROVE  EngineBounds' /\ UNCHANGED <<hist, req>>
  BY <1>0, <1>1, <1>2 DEF BeginPoll, NoJob
<1>3. ASSUME NEW t \in ReadTs, BeginRebuild(t)
      PROVE  EngineBounds' /\ UNCHANGED <<hist, req>>
  BY <1>0, <1>1, <1>3 DEF BeginRebuild, NoJob, ReadTs
<1>4. CASE PollReturns \/ SnapshotOpens \/ Apply \/ Install
  <2>1. /\ UNCHANGED <<hist, req>> /\ rep' \in {rep, job.upto}
        /\ job.pc # "idle"
    BY <1>4 DEF PollReturns, SnapshotOpens, Apply, Install
  <2>2. job'.upto = job.upto
    BY <1>4 DEF PollReturns, SnapshotOpens, Apply, Install, Types, Jobs
  <2>. QED  BY <1>0, <1>1, <2>1, <2>2
<1>5. CASE Publish \/ PublishRebuild \/ NeedsRebuild \/ Fail
  BY <1>0, <1>1, <1>5 DEF Publish, PublishRebuild, NeedsRebuild, Fail, NoJob
<1>. QED  BY <1>2, <1>3, <1>4, <1>5 DEF Engine

\* A refused request leaves nothing behind.
LEMMA RefuseKeeps ==
    ASSUME Types, HistoryInv, EngineBounds', Refuse, UNCHANGED hist
    PROVE  RequestInv'
<1>1. now' = now /\ now \in Nat /\ now >= 1
  BY DEF Types, now
<1>2. [s \in Subjects |-> NewEntry(1)] \in [Subjects -> AnyEntry]
  BY DEF NewEntry, AnyEntry
<1>3. 1 \in Subjects
  BY RolesAssumption DEF Subjects
<1>4. /\ req'.pc = "idle"
      /\ req'.entry = [s \in Subjects |-> NewEntry(1)]
      /\ req' \in [pc : {"idle", "lookup", "gate", "authority", "validate", "issued"},
                   index : Subjects, entry : [Subjects -> AnyEntry],
                   gate : Int, read : [Subjects -> Int]]
  BY <1>2, <1>3 DEF Refuse, NoReq
<1>5. \A s \in Subjects : WasAuthoritys(s, now)'
  BY <1>1, <1>4 DEF WasAuthoritys, HistoryInv
<1>. QED  BY <1>4, <1>5 DEF RequestInv, RequestTypes, EngineBounds

\* The steps of a request keep what the gate has established.
LEMMA RequestSteps ==
    ASSUME Types, HistoryInv, RequestInv, Request
    PROVE  RequestInv'
<1>0. /\ UNCHANGED <<hist, rep, status, job>>
      /\ now' = now /\ now \in Nat /\ now >= 1
  BY DEF Request, Lookup, CheckFreshness, CheckAuthority, Validate, Reply, Types, now
<1>1. EngineBounds'
  BY <1>0 DEF RequestInv, EngineBounds
<1>2. Refuse => RequestInv'
  BY <1>0, <1>1, RefuseKeeps
<1>3. Subjects = 1 .. Len(Roles) /\ Len(Roles) \in Nat \ {0}
  BY RolesAssumption DEF Subjects
<1>t. req \in [pc : {"idle", "lookup", "gate", "authority", "validate", "issued"},
               index : Subjects, entry : [Subjects -> AnyEntry],
               gate : Int, read : [Subjects -> Int]]
  BY DEF RequestInv, RequestTypes
<1>4. CASE Lookup /\ ~Refuse
  <2>. DEFINE i == req.index
              e == hist[rep][i]
  <2>1. rep \in 1 .. now /\ i \in Subjects /\ e \in AnyEntry
    BY <1>0, <1>t, <1>4 DEF Lookup, RequestInv, Types, now
  <2>a. req' = [req EXCEPT
                 !.entry[i] = e,
                 !.index = IF i = Len(Roles) THEN 1 ELSE @ + 1,
                 !.pc = IF i = Len(Roles) THEN "gate" ELSE "lookup"]
    BY <1>4 DEF Lookup
  <2>b. [req.entry EXCEPT ![i] = e] \in [Subjects -> AnyEntry]
    BY <1>t, <2>1
  <2>c. i # Len(Roles) => i + 1 \in Subjects
    BY <1>3, <2>1
  <2>d. 1 \in Subjects
    BY <1>3
  <2>e. req' = [pc |-> IF i = Len(Roles) THEN "gate" ELSE "lookup",
                index |-> IF i = Len(Roles) THEN 1 ELSE i + 1,
                entry |-> [req.entry EXCEPT ![i] = e],
                gate |-> req.gate, read |-> req.read]
    BY <1>t, <2>a
  <2>2. /\ req'.entry = [req.entry EXCEPT ![i] = e]
        /\ req'.pc \in {"gate", "lookup"}
        /\ req'.pc = "gate" => req'.index = 1
        /\ RequestTypes'
    BY <1>t, <2>b, <2>c, <2>d, <2>e DEF RequestTypes
  <2>3. \A s \in Subjects : WasAuthoritys(s, now)'
    <3>. SUFFICES ASSUME NEW s \in Subjects
                  PROVE  \E u \in 1 .. now : hist[u][s] = req'.entry[s]
      BY <1>0 DEF WasAuthoritys
    <3>1. CASE s = i
      BY <1>t, <2>1, <2>2, <3>1
    <3>2. CASE s # i
      BY <1>t, <2>1, <2>2, <3>2 DEF RequestInv, WasAuthoritys
    <3>. QED  BY <3>1, <3>2
  <2>. QED  BY <1>1, <2>2, <2>3 DEF RequestInv, EngineBounds
<1>5. CASE CheckFreshness /\ ~Refuse
  <2>1. /\ req' = [req EXCEPT !.pc = IF Strict THEN "authority" ELSE "validate", !.gate = now]
        /\ req.pc = "gate" /\ req.index = 1
    BY <1>5 DEF CheckFreshness, RequestInv
  <2>a. req' = [pc |-> IF Strict THEN "authority" ELSE "validate", index |-> req.index,
                entry |-> req.entry, gate |-> now, read |-> req.read]
    BY <1>t, <2>1
  <2>b. now \in Int
    BY <1>0
  <2>c. (IF Strict THEN "authority" ELSE "validate")
          \in {"idle", "lookup", "gate", "authority", "validate", "issued"}
    OBVIOUS
  <2>2. /\ RequestTypes' /\ req'.entry = req.entry /\ req'.index = 1
        /\ req'.pc = IF Strict THEN "authority" ELSE "validate"
    BY <1>t, <2>1, <2>a, <2>b, <2>c DEF RequestTypes
  <2>3. \A s \in Subjects : WasAuthoritys(s, now)'
    BY <1>0, <2>2 DEF RequestInv, WasAuthoritys
  <2>4. \A s \in 1 .. req'.index - 1 : Passed(s)'
    BY <2>2
  <2>. QED  BY <1>1, <2>2, <2>3, <2>4 DEF RequestInv, EngineBounds
<1>6. CASE CheckAuthority /\ ~Refuse
  <2>0. PICK s \in Subjects : s = req.index
    BY <1>t
  <2>1. /\ req.pc = "authority"
        /\ ~Contradicts(hist[now][s], req.entry[s], Roles[s])
        /\ req' = [req EXCEPT !.read[s] = now,
                              !.index = IF s = Len(Roles) THEN 1 ELSE @ + 1,
                              !.pc = IF s = Len(Roles) THEN "validate" ELSE @]
    BY <1>6, <2>0 DEF CheckAuthority
  <2>a. [req.read EXCEPT ![s] = now] \in [Subjects -> Int]
    BY <1>0, <1>t
  <2>b. (IF s = Len(Roles) THEN 1 ELSE s + 1) \in Subjects
    BY <1>3
  <2>c. req' = [pc |-> IF s = Len(Roles) THEN "validate" ELSE "authority",
                index |-> IF s = Len(Roles) THEN 1 ELSE s + 1, entry |-> req.entry,
                gate |-> req.gate, read |-> [req.read EXCEPT ![s] = now]]
    BY <1>t, <2>0, <2>1
  <2>2. /\ RequestTypes' /\ req'.entry = req.entry
        /\ req'.read = [req.read EXCEPT ![s] = now]
        /\ req'.index = IF s = Len(Roles) THEN 1 ELSE s + 1
        /\ req'.pc = IF s = Len(Roles) THEN "validate" ELSE "authority"
    BY <1>t, <2>a, <2>b, <2>c DEF RequestTypes
  <2>3. \A x \in Subjects : WasAuthoritys(x, now)'
    BY <1>0, <2>2 DEF RequestInv, WasAuthoritys
  <2>4. Passed(s)'
    <3>1. req'.read[s] = now
      BY <1>t, <2>2
    <3>2. WasAuthoritys(s, now)'
      BY <2>3
    <3>. QED  BY <1>0, <2>1, <2>2, <3>1, <3>2 DEF Passed, WasAuthoritys
  <2>5. \A x \in 1 .. s - 1 : Passed(x)'
    <3>. SUFFICES ASSUME NEW x \in 1 .. s - 1 PROVE Passed(x)'
      OBVIOUS
    <3>1. Passed(x) /\ x \in Subjects /\ x # s
      BY <1>3, <2>0, <2>1 DEF RequestInv
    <3>2. req'.read[x] = req.read[x]
      BY <1>t, <2>1, <2>2, <3>1
    <3>. QED  BY <1>0, <2>2, <3>1, <3>2 DEF Passed, WasAuthoritys
  <2>6. \A x \in 1 .. s : Passed(x)'
    BY <1>3, <2>1, <2>4, <2>5
  <2>7. CASE s = Len(Roles)
    <3>1. \A x \in Subjects : Passed(x)'
      BY <1>3, <2>6, <2>7
    <3>2. req'.pc = "validate"
      BY <2>2, <2>7
    <3>. QED  BY <1>1, <2>2, <2>3, <3>1, <3>2 DEF RequestInv, EngineBounds
  <2>8. CASE s # Len(Roles)
    <3>1. req'.pc = "authority" /\ req'.index - 1 = s
      BY <1>3, <2>1, <2>2, <2>8
    <3>. QED  BY <1>1, <2>2, <2>3, <2>6, <3>1 DEF RequestInv, EngineBounds
  <2>. QED  BY <2>7, <2>8
<1>7. CASE Validate /\ ~Refuse
  <2>1. /\ req.pc = "validate" /\ req' = [req EXCEPT !.pc = "issued"]
        /\ \A s \in Subjects : ~req.entry[s].disabled
    BY <1>7 DEF Validate
  <2>2. /\ RequestTypes' /\ req'.entry = req.entry /\ req'.read = req.read
        /\ req'.pc = "issued"
    BY <1>t, <2>1 DEF RequestTypes
  <2>3. \A x \in Subjects : WasAuthoritys(x, now)' /\ (Passed(x) => Passed(x)')
    BY <1>0, <2>2 DEF RequestInv, WasAuthoritys, Passed
  <2>4. Strict => \A x \in Subjects : Passed(x)'
    BY <2>1, <2>3 DEF RequestInv
  <2>. QED  BY <1>1, <2>1, <2>2, <2>3, <2>4 DEF RequestInv, EngineBounds
<1>8. CASE Reply
  BY <1>2, <1>8 DEF Reply
<1>. QED  BY <1>2, <1>4, <1>5, <1>6, <1>7, <1>8 DEF Request

\* What strict mode rests on holds in every reachable state.
LEMMA StrictInvariant == Spec => []StrictInv
<1>1. Init => StrictInv
  <2>. SUFFICES ASSUME Init PROVE StrictInv
    OBVIOUS
  <2>1. IInv
    BY InvariantInit
  <2>2. hist[1] = [s \in Subjects |-> NewEntry(1)] /\ now = 1
    BY DEF Init, now
  <2>3. HistoryInv
    BY <2>2 DEF HistoryInv, Follows, NewEntry
  <2>4. RequestInv
    <3>1. [s \in Subjects |-> NewEntry(1)] \in [Subjects -> AnyEntry]
      BY DEF NewEntry, AnyEntry
    <3>2. 1 \in Subjects
      BY RolesAssumption DEF Subjects
    <3>3. RequestTypes /\ req.pc = "idle" /\ req.entry = [s \in Subjects |-> NewEntry(1)]
      BY <3>1, <3>2 DEF Init, NoReq, RequestTypes
    <3>4. \A s \in Subjects : WasAuthoritys(s, now)
      BY <2>2, <3>3 DEF WasAuthoritys
    <3>5. rep = 0 /\ job.pc = "idle" /\ job.upto = 0
      BY DEF Init, NoJob
    <3>. QED  BY <2>2, <3>3, <3>4, <3>5 DEF RequestInv
  <2>. QED  BY <2>1, <2>3, <2>4 DEF StrictInv
<1>2. StrictInv /\ [Next]_vars => StrictInv'
  <2>. SUFFICES ASSUME StrictInv, [Next]_vars PROVE HistoryInv' /\ RequestInv'
    BY InvariantNext DEF StrictInv
  <2>0. Types /\ HistoryInv /\ RequestInv /\ EngineBounds
    BY DEF StrictInv, IInv, RequestInv, EngineBounds
  <2>1. CASE Tick
    <3>1. PICK st \in [Subjects -> AnyEntry] : st = hist[now] /\ Grows(st)
      BY <2>0, <2>1, PresentState, Appended DEF Tick
    <3>2. HistoryInv'
      BY <2>0, <3>1, HistoryKeeps DEF Follows, AnyEntry
    <3>. QED  BY <2>0, <2>1, <3>1, <3>2, RequestKeeps DEF Tick
  <2>2. CASE Admin
    <3>1. PICK s \in Subjects : SetDisabled(s) \/ ChangeKey(s) \/ SetRawKey(s) \/ Lock(s) \/ Delete(s) \/ Create(s)
      BY <2>2 DEF Admin
    <3>2. PICK w \in AnyEntry : /\ Commit(s, w)
                                /\ \/ w.born = now + 1
                                   \/ w.born = hist[now][s].born /\ Follows(hist[now][s], w)
      BY <2>0, <3>1, WritesFollow
    <3>3. hist[now] \in [Subjects -> AnyEntry]
      BY <2>0, PresentState
    <3>4. PICK st \in [Subjects -> AnyEntry] : st = [hist[now] EXCEPT ![s] = w]
      BY <3>3
    <3>5. Grows(st)
      BY <2>0, <3>2, <3>4, Appended DEF Commit
    <3>6. ASSUME NEW x \in Subjects
          PROVE  \/ st[x].born = now + 1
                 \/ st[x].born = hist[now][x].born /\ Follows(hist[now][x], st[x])
      <4>1. CASE x = s
        BY <3>2, <3>3, <3>4, <4>1
      <4>2. CASE x # s
        <5>1. st[x] = hist[now][x] /\ st[x] \in AnyEntry
          BY <3>3, <3>4, <4>2
        <5>. QED  BY <5>1 DEF Follows, AnyEntry
      <4>. QED  BY <4>1, <4>2
    <3>7. HistoryInv'
      BY <2>0, <3>5, <3>6, HistoryKeeps
    <3>8. UNCHANGED <<rep, job, req>>
      BY <3>2 DEF Commit
    <3>. QED  BY <2>0, <3>5, <3>7, <3>8, RequestKeeps
  <2>3. CASE Engine
    <3>1. EngineBounds' /\ UNCHANGED <<hist, req>>
      BY <2>0, <2>3, EngineWithin
    <3>2. now' = now
      BY <3>1 DEF now
    <3>3. HistoryInv'
      BY <2>0, <3>1, <3>2 DEF HistoryInv
    <3>. QED  BY <2>0, <3>1, <3>2, <3>3
              DEF RequestInv, RequestTypes, EngineBounds, WasAuthoritys, Passed
  <2>4. CASE Crash
    <3>1. UNCHANGED <<hist, rep>> /\ Refuse /\ job' = NoJob
      BY <2>4 DEF Crash, Refuse
    <3>2. now' = now /\ now \in Nat
      BY <2>0, <3>1 DEF now, Types
    <3>3. EngineBounds'
      BY <2>0, <3>1, <3>2 DEF EngineBounds, NoJob
    <3>4. HistoryInv'
      BY <2>0, <3>1, <3>2 DEF HistoryInv
    <3>. QED  BY <2>0, <3>1, <3>3, <3>4, RefuseKeeps
  <2>5. CASE Request
    <3>1. UNCHANGED hist
      BY <2>5 DEF Request, Lookup, CheckFreshness, CheckAuthority, Validate, Reply
    <3>2. now' = now
      BY <3>1 DEF now
    <3>3. HistoryInv'
      BY <2>0, <3>1, <3>2 DEF HistoryInv
    <3>. QED  BY <2>0, <2>5, <3>3, RequestSteps
  <2>6. CASE UNCHANGED vars
    <3>1. now' = now
      BY <2>6 DEF now, vars
    <3>. QED  BY <2>0, <2>6, <3>1
              DEF vars, HistoryInv, RequestInv, RequestTypes, WasAuthoritys, Passed
  <2>. QED  BY <2>1, <2>2, <2>3, <2>4, <2>5, <2>6 DEF Next
<1>. QED  BY <1>1, <1>2, PTL DEF Spec

\* In strict mode a ticket is issued only for principals the authority had not
\* disabled, deleted or locked out when the gate read them, and with the keys
\* they had then, however far the replica is behind, unless the name changed
\* hands or setkey or purgekeys wrote those keys (StrictGate::check).
THEOREM StrictGateSound == Spec => []StrictUpToDate
<1>1. StrictInv => StrictUpToDate
  <2>. SUFFICES ASSUME StrictInv, req.pc = "issued", Strict, NEW s \in Subjects
                PROVE  LET a == hist[req.read[s]][s]
                       IN  /\ a.live /\ ~a.disabled
                           /\ Roles[s] = "client" => ~a.locked
                           /\ a.born = req.entry[s].born /\ ~a.raw => a.key = req.entry[s].key
    BY DEF StrictUpToDate
  <2>1. Passed(s) /\ ~req.entry[s].disabled
    BY DEF StrictInv, RequestInv
  <2>2. PICK r \in 1 .. now : r = req.read[s]
    BY <2>1 DEF Passed
  <2>3. PICK u \in 1 .. r : hist[u][s] = req.entry[s]
    BY <2>1, <2>2 DEF Passed, WasAuthoritys
  <2>4. now \in Nat
    BY DEF StrictInv, IInv, Types, now
  <2>5. Follows(hist[u][s], hist[r][s])
    BY <2>2, <2>3, <2>4 DEF StrictInv, HistoryInv
  <2>6. hist[r][s] \in AnyEntry /\ hist[u][s] \in AnyEntry
    BY <2>2, <2>3, <2>4 DEF StrictInv, IInv, Types, now
  <2>. QED  BY <2>1, <2>2, <2>3, <2>5, <2>6 DEF Passed, Contradicts, Follows, AnyEntry
<1>. QED  BY <1>1, StrictInvariant, PTL

-----------------------------------------------------------------------------
(* The daemon                                                              *)

USE ModsAssumption, ReqsAssumption

-----------------------------------------------------------------------------
(* Types                                                                   *)

Holding == {"connect", "init", "send", "wait"}
Calling == {"call"} \union Holding
Replied == {"reply", "unlist", "unlisted", "sent", "toobig"}
Labels == {"idle", "read", "leave", "gone"} \union Calling \union Replied
Results == {"none", "ticket", "refused", "toolong"}
Events == {"none", "init", "check"} \union AuditCalls
Acts == [pc : Labels, k : Nat, res : Results, ev : SUBSET AuditCalls]
Msgs == [who : Actors \union {"none"}, call : Events, res : Results]
Calls == [id : Nat, msg : Msgs]
Ans == [id : Nat, ok : BOOLEAN]
Links == [up : BOOLEAN, cut : BOOLEAN, n : Nat, q : Seq(Calls), a : Seq(Ans),
          by : Actors \union {"none"}]
Seen == [who : Actors \union {"none"}, call : Events, res : Results, ok : BOOLEAN]

TypesD ==
    /\ act \in [Actors -> Acts]
    /\ link \in [ModSet -> Links]
    /\ orphan \in [ModSet -> Seq(Calls)]
    /\ dseen \in [ModSet -> Seq(Seen)]
    /\ loaded \subseteq ModSet

\* The module of a call, and all calls there could be.
ModAt(k) == Steps[k].mod
Pairs == [mod : ModSet, call : Events]

ActBecomes(x, a) == a \in Acts /\ act' = [act EXCEPT ![x] = a]
LinkBecomes(m, l) == l \in Links /\ link' = [link EXCEPT ![m] = l]

LEMMA ModsFacts ==
    /\ Len(Mods) \in Nat
    /\ \A k \in 1 .. Len(Mods) : Mods[k] \in ModSet
    /\ \A m \in ModSet : \E k \in 1 .. Len(Mods) : Mods[k] = m
    /\ "run" \in Actors /\ "none" \notin Actors
<1>1. Len(Mods) \in Nat /\ DOMAIN Mods = 1 .. Len(Mods)
  BY ConcatProperties, LenProperties DEF Mods
<1>2. \A k \in 1 .. Len(Mods) : Mods[k] \in ModSet
  BY <1>1 DEF ModSet
<1>3. \A m \in ModSet : \E k \in 1 .. Len(Mods) : Mods[k] = m
  BY <1>1 DEF ModSet
<1>4. "run" \in Actors /\ "none" \notin Actors
  BY DEF Actors
<1>. QED  BY <1>1, <1>2, <1>3, <1>4

LEMMA ModsOrder ==
    /\ \A i, j \in 1 .. Len(Mods) : Mods[i] = Mods[j] => i = j
    /\ Len(PolicyMods) \in Nat
    /\ \A j \in 1 .. Len(Mods) : IsPolicy(Mods[j]) <=> j <= Len(PolicyMods)
<1>1. /\ DOMAIN Mods = 1 .. Len(Mods) /\ DOMAIN PolicyMods = 1 .. Len(PolicyMods)
      /\ Len(PolicyMods) \in Nat /\ Len(AuditMods) \in Nat
      /\ Len(Mods) = Len(PolicyMods) + Len(AuditMods)
      /\ \A i \in 1 .. Len(PolicyMods) : Mods[i] = PolicyMods[i]
  BY ConcatProperties, LenProperties DEF Mods
<1>2. ASSUME NEW j \in 1 .. Len(Mods) PROVE IsPolicy(Mods[j]) <=> j <= Len(PolicyMods)
  <2>1. ASSUME IsPolicy(Mods[j]) PROVE j <= Len(PolicyMods)
    <3>1. PICK i \in 1 .. Len(PolicyMods) : PolicyMods[i] = Mods[j]
      BY <1>1, <2>1 DEF IsPolicy
    <3>2. i \in DOMAIN Mods /\ j \in DOMAIN Mods /\ Mods[i] = Mods[j]
      BY <1>1, <3>1
    <3>. QED  BY <1>1, <3>1, <3>2
  <2>2. ASSUME j <= Len(PolicyMods) PROVE IsPolicy(Mods[j])
    <3>1. j \in DOMAIN PolicyMods /\ PolicyMods[j] = Mods[j]
      BY <1>1, <2>2
    <3>. QED  BY <3>1 DEF IsPolicy
  <2>. QED  BY <2>1, <2>2
<1>. QED  BY <1>1, <1>2

\* Calls of modules that differ in what they are, one after the other.
Part(s, C) ==
    /\ s \in Seq(Pairs)
    /\ \A i \in DOMAIN s : s[i].call \in C /\ (IsPolicy(s[i].mod) <=> s[i].call = "check")
    /\ \A i, j \in DOMAIN s : s[i] = s[j] => i = j

LEMMA EachPart ==
    ASSUME NEW mods \in Seq(ModSet), \A i, j \in DOMAIN mods : mods[i] = mods[j] => i = j,
           NEW c \in Events, \A i \in DOMAIN mods : IsPolicy(mods[i]) <=> c = "check"
    PROVE  /\ Part(Each(mods, c), {c}) /\ Len(Each(mods, c)) = Len(mods)
           /\ \A i \in 1 .. Len(mods) : Each(mods, c)[i].mod = mods[i]
<1>. DEFINE s == Each(mods, c)
<1>1. Len(mods) \in Nat /\ DOMAIN mods = 1 .. Len(mods) /\ \A i \in 1 .. Len(mods) : mods[i] \in ModSet
  BY LenProperties, ElementOfSeq
<1>2. /\ s = [i \in 1 .. Len(mods) |-> [mod |-> mods[i], call |-> c]]
      /\ \A i \in 1 .. Len(mods) : s[i] = [mod |-> mods[i], call |-> c] /\ s[i] \in Pairs
  BY <1>1 DEF Each, Pairs
<1>3. s \in Seq(Pairs) /\ Len(s) = Len(mods) /\ DOMAIN s = 1 .. Len(mods)
  <2>1. PICK n \in Nat : n = Len(mods)
    BY <1>1
  <2>2. s \in [1 .. n -> Pairs]
    BY <1>2, <2>1
  <2>. HIDE DEF s
  <2>3. s \in Seq(Pairs) /\ Len(s) = n /\ DOMAIN s = 1 .. n
    BY <2>2
  <2>. QED  BY <2>1, <2>3
<1>4. \A i \in DOMAIN s : s[i].mod = mods[i] /\ s[i].call = c
  BY <1>2, <1>3
<1>. HIDE DEF s
<1>5. Part(s, {c})
  BY <1>1, <1>3, <1>4 DEF Part
<1>. QED  BY <1>1, <1>3, <1>4, <1>5 DEF s

LEMMA PartConcat ==
    ASSUME NEW s, NEW t, NEW C, NEW D, Part(s, C), Part(t, D), C \cap D = {}
    PROVE  /\ Part(s \o t, C \union D)
           /\ Len(s \o t) = Len(s) + Len(t) /\ Len(s) \in Nat /\ Len(t) \in Nat
           /\ \A i \in 1 .. Len(s) : (s \o t)[i] = s[i]
           /\ \A i \in 1 .. Len(s) + Len(t) : i > Len(s) => (s \o t)[i] = t[i - Len(s)] /\ i - Len(s) \in DOMAIN t
<1>. DEFINE u == s \o t
            n == Len(s)
<1>1. s \in Seq(Pairs) /\ t \in Seq(Pairs)
  BY DEF Part
<1>2. /\ n \in Nat /\ Len(t) \in Nat /\ DOMAIN s = 1 .. n /\ DOMAIN t = 1 .. Len(t)
      /\ u \in Seq(Pairs) /\ Len(u) = n + Len(t) /\ DOMAIN u = 1 .. n + Len(t)
      /\ \A i \in 1 .. n + Len(t) : u[i] = IF i <= n THEN s[i] ELSE t[i - n]
  BY <1>1, ConcatProperties, LenProperties
<1>. HIDE DEF u, n
<1>3. \A i \in DOMAIN u : \/ i \in DOMAIN s /\ u[i] = s[i]
                          \/ i - n \in DOMAIN t /\ u[i] = t[i - n]
  BY <1>2
<1>4. \A i \in DOMAIN u : u[i].call \in C \union D /\ (IsPolicy(u[i].mod) <=> u[i].call = "check")
  BY <1>3 DEF Part
<1>5. ASSUME NEW i \in DOMAIN u, NEW j \in DOMAIN u, u[i] = u[j] PROVE i = j
  <2>1. CASE i \in DOMAIN s /\ u[i] = s[i]
    <3>1. u[i].call \in C
      BY <2>1 DEF Part
    <3>2. j \in DOMAIN s /\ u[j] = s[j]
      BY <1>3, <1>5, <3>1 DEF Part
    <3>. QED  BY <1>5, <2>1, <3>2 DEF Part
  <2>2. CASE i - n \in DOMAIN t /\ u[i] = t[i - n]
    <3>1. u[i].call \in D
      BY <2>2 DEF Part
    <3>2. j - n \in DOMAIN t /\ u[j] = t[j - n]
      BY <1>3, <1>5, <3>1 DEF Part
    <3>3. i - n = j - n
      BY <1>5, <2>2, <3>2 DEF Part
    <3>. QED  BY <1>2, <3>3
  <2>. QED  BY <1>3, <2>1, <2>2
<1>6. Part(u, C \union D)
  BY <1>2, <1>4, <1>5 DEF Part
<1>7. \A i \in 1 .. n : u[i] = s[i]
  BY <1>2
<1>8. \A i \in 1 .. n + Len(t) : i > n => u[i] = t[i - n] /\ i - n \in DOMAIN t
  BY <1>2
<1>. QED  BY <1>2, <1>6, <1>7, <1>8 DEF u, n

\* The policy modules' calls come first, and no call is made twice.
LEMMA StepsFacts ==
    /\ Len(Steps) \in Nat
    /\ \A k \in 1 .. Len(Steps) : Steps[k] \in Pairs /\ Steps[k].call # "init" /\ ModAt(k) \in ModSet
    /\ \A i, j \in 1 .. Len(Steps) : Steps[i] = Steps[j] => i = j
    /\ Len(PolicyMods) \in Nat
    /\ \A j \in 1 .. Len(Steps) : IsPolicy(ModAt(j)) <=> j <= Len(PolicyMods)
    /\ \A m : IsPolicy(m) => \E k \in 1 .. Len(Steps) : ModAt(k) = m
    /\ "run" \in Actors /\ "none" \notin Actors
<1>1. /\ DOMAIN Mods = 1 .. Len(Mods) /\ DOMAIN PolicyMods = 1 .. Len(PolicyMods)
      /\ DOMAIN AuditMods = 1 .. Len(AuditMods)
      /\ Len(PolicyMods) \in Nat /\ Len(AuditMods) \in Nat
      /\ Len(Mods) = Len(PolicyMods) + Len(AuditMods)
      /\ \A i \in 1 .. Len(Mods) :
           Mods[i] = IF i <= Len(PolicyMods) THEN PolicyMods[i] ELSE AuditMods[i - Len(PolicyMods)]
  BY ConcatProperties, LenProperties DEF Mods
<1>2. \A i, j \in DOMAIN PolicyMods : PolicyMods[i] = PolicyMods[j] => i = j
  <2>1. \A i \in DOMAIN PolicyMods : i \in DOMAIN Mods /\ Mods[i] = PolicyMods[i]
    BY <1>1
  <2>. QED  BY <2>1
<1>3. \A i \in DOMAIN AuditMods : i + Len(PolicyMods) \in DOMAIN Mods
                                  /\ Mods[i + Len(PolicyMods)] = AuditMods[i]
  BY <1>1
<1>4. \A i, j \in DOMAIN AuditMods : AuditMods[i] = AuditMods[j] => i = j
  <2>1. SUFFICES ASSUME NEW i \in DOMAIN AuditMods, NEW j \in DOMAIN AuditMods, AuditMods[i] = AuditMods[j]
                 PROVE  i = j
    OBVIOUS
  <2>2. i + Len(PolicyMods) = j + Len(PolicyMods)
    BY <1>3, <2>1
  <2>. QED  BY <1>1, <2>2
<1>5. \A i \in DOMAIN PolicyMods : IsPolicy(PolicyMods[i])
  BY DEF IsPolicy
<1>6. \A i \in DOMAIN AuditMods : ~IsPolicy(AuditMods[i])
  <2>1. SUFFICES ASSUME NEW i \in DOMAIN AuditMods PROVE ~IsPolicy(AuditMods[i])
    OBVIOUS
  <2>2. ~(i + Len(PolicyMods) <= Len(PolicyMods))
    BY <1>1
  <2>. QED  BY <1>1, <1>3, <2>2, ModsOrder
<1>7. /\ Part(Each(PolicyMods, "check"), {"check"}) /\ Len(Each(PolicyMods, "check")) = Len(PolicyMods)
      /\ \A i \in 1 .. Len(PolicyMods) : Each(PolicyMods, "check")[i].mod = PolicyMods[i]
  <2>1. "check" \in Events
    BY DEF Events
  <2>. QED  BY <1>2, <1>5, <2>1, EachPart
<1>8. \A c \in AuditCalls : Part(Audited(c), {c})
  <2>1. SUFFICES ASSUME NEW c \in AuditCalls PROVE Part(Audited(c), {c})
    OBVIOUS
  <2>2. c \in Events /\ c # "check"
    BY DEF Events, AuditCalls
  <2>3. \A i \in DOMAIN AuditMods : IsPolicy(AuditMods[i]) <=> c = "check"
    BY <1>6, <2>2
  <2>. QED  BY <1>4, <2>2, <2>3, EachPart DEF Audited
<1>. DEFINE t7 == Audited("kdc_stop")
            t6 == Audited("kdc_start") \o t7
            t5 == Audited("as_req") \o t6
            t4 == Audited("tgs_req") \o t5
            t3 == Audited("u2u") \o t4
            t2 == Audited("s4u2proxy") \o t3
            t1 == Audited("s4u2self") \o t2
<1>9. /\ Part(Audited("s4u2self"), {"s4u2self"}) /\ Part(Audited("s4u2proxy"), {"s4u2proxy"})
      /\ Part(Audited("u2u"), {"u2u"}) /\ Part(Audited("tgs_req"), {"tgs_req"})
      /\ Part(Audited("as_req"), {"as_req"}) /\ Part(Audited("kdc_start"), {"kdc_start"})
      /\ Part(t7, {"kdc_stop"})
  BY <1>8 DEF AuditCalls
<1>. HIDE DEF t7
<1>10. Part(t6, {"kdc_start"} \union {"kdc_stop"})
  BY <1>9, PartConcat
<1>. HIDE DEF t6
<1>11. Part(t5, {"as_req"} \union ({"kdc_start"} \union {"kdc_stop"}))
  BY <1>9, <1>10, PartConcat
<1>. HIDE DEF t5
<1>. DEFINE C4 == {"tgs_req"} \union ({"as_req"} \union ({"kdc_start"} \union {"kdc_stop"}))
<1>12. Part(t4, C4)
  BY <1>9, <1>11, PartConcat
<1>. HIDE DEF t4
<1>13. Part(t3, {"u2u"} \union C4)
  BY <1>9, <1>12, PartConcat
<1>. HIDE DEF t3
<1>14. Part(t2, {"s4u2proxy"} \union ({"u2u"} \union C4))
  BY <1>9, <1>13, PartConcat
<1>. HIDE DEF t2
<1>15. Part(t1, {"s4u2self"} \union ({"s4u2proxy"} \union ({"u2u"} \union C4)))
  BY <1>9, <1>14, PartConcat
<1>. HIDE DEF t1
<1>. DEFINE D == {"s4u2self"} \union ({"s4u2proxy"} \union ({"u2u"} \union C4))
            s == Each(PolicyMods, "check")
<1>16. Steps = s \o t1
  BY DEF Steps, t1, t2, t3, t4, t5, t6, t7
<1>17. D \cap {"check"} = {} /\ D \cap {"init"} = {}
  OBVIOUS
<1>. HIDE DEF s, D
<1>18. /\ Part(Steps, {"check"} \union D) /\ Len(Steps) = Len(s) + Len(t1) /\ Len(t1) \in Nat
       /\ \A i \in 1 .. Len(s) : Steps[i] = s[i]
       /\ \A i \in 1 .. Len(s) + Len(t1) :
            i > Len(s) => Steps[i] = t1[i - Len(s)] /\ i - Len(s) \in DOMAIN t1
  <2>1. Part(s, {"check"}) /\ Part(t1, D) /\ {"check"} \cap D = {}
    BY <1>7, <1>15, <1>17 DEF s, D
  <2>2. /\ Part(s \o t1, {"check"} \union D)
        /\ Len(s \o t1) = Len(s) + Len(t1) /\ Len(s) \in Nat /\ Len(t1) \in Nat
        /\ \A i \in 1 .. Len(s) : (s \o t1)[i] = s[i]
        /\ \A i \in 1 .. Len(s) + Len(t1) :
             i > Len(s) => (s \o t1)[i] = t1[i - Len(s)] /\ i - Len(s) \in DOMAIN t1
    BY ONLY <2>1, PartConcat
  <2>. QED  BY ONLY <1>16, <2>2
<1>19. Len(s) = Len(PolicyMods) /\ \A i \in 1 .. Len(PolicyMods) : s[i].mod = PolicyMods[i]
  BY <1>7 DEF s
<1>20. /\ Len(Steps) \in Nat /\ DOMAIN Steps = 1 .. Len(Steps)
       /\ \A k \in 1 .. Len(Steps) : Steps[k] \in Pairs
  BY <1>18, LenProperties, ElementOfSeq DEF Part
<1>21. \A k \in 1 .. Len(Steps) : Steps[k].call # "init" /\ ModAt(k) \in ModSet
  <2>1. \A k \in 1 .. Len(Steps) : Steps[k].call \in {"check"} \union D
    BY <1>18, <1>20 DEF Part
  <2>2. \A k \in 1 .. Len(Steps) : ModAt(k) \in ModSet
    BY <1>20 DEF ModAt, Pairs
  <2>. QED  BY <1>17, <2>1, <2>2
<1>22. ASSUME NEW j \in 1 .. Len(Steps) PROVE IsPolicy(ModAt(j)) <=> j <= Len(PolicyMods)
  <2>1. CASE j <= Len(PolicyMods)
    <3>1. ModAt(j) = PolicyMods[j] /\ j \in DOMAIN PolicyMods
      BY <1>1, <1>18, <1>19, <1>22, <2>1 DEF ModAt
    <3>. QED  BY <1>5, <2>1, <3>1
  <2>2. CASE ~(j <= Len(PolicyMods))
    <3>1. Steps[j] = t1[j - Len(s)] /\ j - Len(s) \in DOMAIN t1
      BY <1>1, <1>18, <1>19, <1>20, <1>22, <2>2
    <3>2. Steps[j].call \in D /\ (IsPolicy(Steps[j].mod) <=> Steps[j].call = "check")
      BY <1>15, <3>1 DEF Part, D
    <3>. QED  BY <1>17, <2>2, <3>2 DEF ModAt
  <2>. QED  BY <2>1, <2>2
<1>23. ASSUME NEW m, IsPolicy(m) PROVE \E k \in 1 .. Len(Steps) : ModAt(k) = m
  <2>1. PICK i \in 1 .. Len(PolicyMods) : PolicyMods[i] = m
    BY <1>1, <1>23 DEF IsPolicy
  <2>2. i \in 1 .. Len(Steps) /\ ModAt(i) = m
    BY <1>1, <1>18, <1>19, <2>1 DEF ModAt
  <2>. QED  BY <2>2
<1>24. \A i, j \in 1 .. Len(Steps) : Steps[i] = Steps[j] => i = j
  BY <1>18, <1>20 DEF Part
<1>. QED  BY <1>1, <1>20, <1>21, <1>22, <1>23, <1>24, ModsFacts

LEMMA NoLinkType ==
    /\ NoLink \in Links /\ NoLink.q = << >> /\ NoLink.a = << >> /\ NoLink.by = "none"
    /\ NoAct \in Acts /\ NoAct.pc = "idle" /\ NoAct.k = 0 /\ NoAct.res = "none"
<1>1. << >> \in Seq(Calls) /\ << >> \in Seq(Ans)
  OBVIOUS
<1>2. NoLink \in Links
  BY <1>1 DEF NoLink, Links
<1>3. NoAct \in Acts
  BY DEF NoAct, Acts, Labels, Results, AuditCalls
<1>. QED  BY <1>2, <1>3 DEF NoLink, NoAct

-----------------------------------------------------------------------------
(* What holds of a caller and of a connection                              *)

OkIn(s, x) == \E i \in DOMAIN s : s[i].who = x /\ s[i].ok

\* No message has a later number than the connection.
IdsOK(l) ==
    /\ \A i \in DOMAIN l.q : l.q[i].id <= l.n
    /\ \A i \in DOMAIN l.a : l.a[i].id <= l.n

\* The connection's last message is x's call c, and its answer is to that call.
Waits(l, s, x, c) ==
    /\ \A i \in DOMAIN l.q : l.q[i].id = l.n =>
         l.q[i].msg.who = x /\ l.q[i].msg.call = c /\ l.q[i].msg.call # "init"
    /\ \A i \in DOMAIN l.a : l.a[i].id = l.n /\ l.a[i].ok => OkIn(s, x)

\* Every loaded policy module before the k-th has allowed x.
Allowed(x, k, sn, ld) ==
    \A j \in 1 .. Len(Steps) : j < k /\ ModAt(j) \in ld /\ IsPolicy(ModAt(j)) => OkIn(sn[ModAt(j)], x)

ActorOK(x, a, lk, sn, ld) ==
    /\ a.pc \in Calling => a.k \in 1 .. Len(Steps)
    /\ a.pc \in Holding => lk[ModAt(a.k)].by = x
    /\ a.pc = "wait" => Waits(lk[ModAt(a.k)], sn[ModAt(a.k)], x, Steps[a.k].call)
    /\ a.res = "ticket" /\ a.pc \in Replied => a.k > Len(Steps)
    /\ a.res = "ticket" /\ x # "run" => Allowed(x, a.k, sn, ld)

CallInv ==
    /\ \A x \in Actors : ActorOK(x, act[x], link, dseen, loaded)
    /\ \A m \in ModSet : IdsOK(link[m])

LEMMA ActBecomesFacts ==
    ASSUME TypesD, NEW x \in Actors, NEW a, ActBecomes(x, a)
    PROVE  act' \in [Actors -> Acts] /\ act'[x] = a /\ \A y \in Actors \ {x} : act'[y] = act[y]
BY DEF TypesD, ActBecomes

LEMMA LinkBecomesFacts ==
    ASSUME TypesD, NEW m \in ModSet, NEW l, LinkBecomes(m, l)
    PROVE  link' \in [ModSet -> Links] /\ link'[m] = l /\ \A o \in ModSet \ {m} : link'[o] = link[o]
BY DEF TypesD, LinkBecomes

\* A caller whose connection is left alone, while modules do more.
LEMMA CallerKeeps ==
    ASSUME NEW x, NEW a, NEW lk, NEW lk2, NEW sn, NEW sn2, NEW ld, ActorOK(x, a, lk, sn, ld),
           a.pc \in Holding => lk2[ModAt(a.k)] = lk[ModAt(a.k)],
           \A m \in ModSet : OkIn(sn[m], x) => OkIn(sn2[m], x)
    PROVE  ActorOK(x, a, lk2, sn2, ld)
<1>1. a.pc = "wait" => Waits(lk2[ModAt(a.k)], sn2[ModAt(a.k)], x, Steps[a.k].call)
  <2>1. SUFFICES ASSUME a.pc = "wait" PROVE Waits(lk2[ModAt(a.k)], sn2[ModAt(a.k)], x, Steps[a.k].call)
    OBVIOUS
  <2>2. lk2[ModAt(a.k)] = lk[ModAt(a.k)] /\ Waits(lk[ModAt(a.k)], sn[ModAt(a.k)], x, Steps[a.k].call)
        /\ a.k \in 1 .. Len(Steps)
    BY <2>1 DEF ActorOK, Holding, Calling
  <2>3. OkIn(sn[ModAt(a.k)], x) => OkIn(sn2[ModAt(a.k)], x)
    BY <2>2, StepsFacts
  <2>. QED  BY <2>2, <2>3 DEF Waits
<1>2. Allowed(x, a.k, sn, ld) => Allowed(x, a.k, sn2, ld)
  BY StepsFacts DEF Allowed
<1>. QED  BY <1>1, <1>2, Zenon DEF ActorOK

\* One caller moves and uses one connection, which nobody else holds.
LEMMA CallerMoves ==
    ASSUME TypesD, CallInv, NEW x \in Actors, NEW a, ActBecomes(x, a), NEW m \in ModSet, NEW l,
           LinkBecomes(m, l), link[m].by \in {x, "none"}, UNCHANGED <<dseen, loaded>>,
           IdsOK(l), ActorOK(x, a, link', dseen, loaded)
    PROVE  CallInv'
<1>1. act'[x] = a /\ \A y \in Actors \ {x} : act'[y] = act[y]
  BY ActBecomesFacts
<1>2. link'[m] = l /\ \A o \in ModSet \ {m} : link'[o] = link[o]
  BY LinkBecomesFacts
<1>3. ASSUME NEW y \in Actors \ {x} PROVE ActorOK(y, act[y], link', dseen, loaded)
  <2>1. ActorOK(y, act[y], link, dseen, loaded)
    BY DEF CallInv
  <2>2. ASSUME act[y].pc \in Holding PROVE link'[ModAt(act[y].k)] = link[ModAt(act[y].k)]
    <3>1. link[ModAt(act[y].k)].by = y /\ ModAt(act[y].k) \in ModSet /\ y # "none"
      BY <2>1, <2>2, StepsFacts DEF ActorOK, Calling
    <3>. QED  BY <1>2, <1>3, <3>1
  <2>. QED  BY <2>1, <2>2, CallerKeeps
<1>4. \A y \in Actors : ActorOK(y, act'[y], link', dseen, loaded)
  BY <1>1, <1>3
<1>5. \A o \in ModSet : IdsOK(link'[o])
  BY <1>2 DEF CallInv
<1>6. \A y \in Actors : ActorOK(y, act[y], link, dseen, loaded)' <=>
                        ActorOK(y, act'[y], link', dseen, loaded)
  BY DEF ActorOK, Waits, Allowed, OkIn
<1>. QED  BY <1>4, <1>5, <1>6 DEF CallInv, IdsOK

\* One caller moves and no connection changes.
LEMMA CallerMovesAlone ==
    ASSUME TypesD, CallInv, NEW x \in Actors, NEW a, ActBecomes(x, a),
           UNCHANGED <<link, dseen, loaded>>, ActorOK(x, a, link, dseen, loaded)
    PROVE  CallInv'
<1>1. act'[x] = a /\ \A y \in Actors \ {x} : act'[y] = act[y]
  BY ActBecomesFacts
<1>2. \A y \in Actors : ActorOK(y, act'[y], link, dseen, loaded)
  BY <1>1 DEF CallInv
<1>3. \A y \in Actors : ActorOK(y, act[y], link, dseen, loaded)' <=>
                        ActorOK(y, act'[y], link, dseen, loaded)
  BY DEF ActorOK, Waits, Allowed, OkIn
<1>. QED  BY <1>2, <1>3 DEF CallInv, IdsOK

-----------------------------------------------------------------------------
(* The calls                                                               *)

\* What a caller that makes a call relies on.
LEMMA CallerFacts ==
    ASSUME TypesD, CallInv, NEW x \in Actors, act[x].pc \in Calling
    PROVE  /\ act[x] \in Acts /\ act[x].k \in 1 .. Len(Steps) /\ ModOf(x) = ModAt(act[x].k)
           /\ Steps[act[x].k] \in Pairs /\ Steps[act[x].k].call # "init"
           /\ ModOf(x) \in ModSet /\ link[ModOf(x)] \in Links /\ IdsOK(link[ModOf(x)])
           /\ orphan[ModOf(x)] \in Seq(Calls)
           /\ ActorOK(x, act[x], link, dseen, loaded)
           /\ act[x].pc \in Holding => link[ModOf(x)].by = x
BY StepsFacts DEF TypesD, CallInv, ActorOK, ModOf, ModAt

\* The caller goes on to its k-th call with a result it may have.
LEMMA AdvancedOK ==
    ASSUME TypesD, CallInv, NEW x \in Actors, act[x].pc \in Calling, NEW res \in Results,
           NEW k \in Nat, act[x].k < k, act' = Advanced(x, res, k),
           res = "ticket" /\ x # "run" =>
              /\ act[x].res = "ticket"
              /\ \A j \in 1 .. Len(Steps) :
                   act[x].k <= j /\ j < k /\ ModAt(j) \in loaded /\ IsPolicy(ModAt(j)) =>
                     OkIn(dseen[ModAt(j)], x)
    PROVE  \E a \in Acts : /\ ActBecomes(x, a) /\ a.pc \in {"call", "reply"}
                           /\ \A lk : ActorOK(x, a, lk, dseen, loaded)
<1>. DEFINE a == [act[x] EXCEPT !.k = k, !.res = res, !.pc = PcAt(k)]
<1>1. act[x] \in Acts /\ act[x].k \in 1 .. Len(Steps)
      /\ ActorOK(x, act[x], link, dseen, loaded) /\ Len(Steps) \in Nat
  BY CallerFacts, StepsFacts
<1>2. PcAt(k) \in Labels /\ PcAt(k) \in {"call", "reply"}
      /\ (PcAt(k) = "call" => k \in 1 .. Len(Steps)) /\ (PcAt(k) # "call" => k > Len(Steps))
  BY <1>1 DEF PcAt, Labels, Calling, Replied
<1>3. a \in Acts /\ a.k = k /\ a.res = res /\ a.pc = PcAt(k)
  BY <1>1, <1>2 DEF Acts
<1>4. act' = [act EXCEPT ![x] = a]
  BY <1>1 DEF Advanced, TypesD
<1>5. ASSUME res = "ticket", x # "run" PROVE Allowed(x, k, dseen, loaded)
  <2>1. Allowed(x, act[x].k, dseen, loaded)
    BY <1>1, <1>5 DEF ActorOK
  <2>2. SUFFICES ASSUME NEW j \in 1 .. Len(Steps), j < k, ModAt(j) \in loaded, IsPolicy(ModAt(j))
                 PROVE  OkIn(dseen[ModAt(j)], x)
    BY DEF Allowed
  <2>3. CASE act[x].k <= j
    BY <1>5, <2>2, <2>3
  <2>4. CASE ~(act[x].k <= j)
    <3>1. j < act[x].k
      BY <1>1, <2>2, <2>4
    <3>. QED  BY <2>1, <2>2, <3>1 DEF Allowed
  <2>. QED  BY <2>3, <2>4
<1>. HIDE DEF a
<1>6. ASSUME NEW lk PROVE ActorOK(x, a, lk, dseen, loaded)
  <2>1. a.pc = "call" \/ a.pc = "reply"
    BY <1>2, <1>3
  <2>2. a.pc \notin Holding /\ a.pc # "wait" /\ (a.pc \in Calling => a.k \in 1 .. Len(Steps))
    BY <1>2, <1>3, <2>1 DEF Holding, Calling
  <2>3. a.pc \in Replied => a.k > Len(Steps)
    BY <1>2, <1>3, <2>1 DEF Replied
  <2>4. a.res = "ticket" /\ x # "run" => Allowed(x, a.k, dseen, loaded)
    BY <1>3, <1>5
  <2>. QED  BY <2>2, <2>3, <2>4, Zenon DEF ActorOK
<1>. QED  BY <1>2, <1>3, <1>4, <1>6 DEF ActBecomes

\* To its next call.
LEMMA NextOK ==
    ASSUME TypesD, CallInv, NEW x \in Actors, act[x].pc \in Calling, NEW res \in Results,
           act' = Advanced(x, res, act[x].k + 1),
           res = "ticket" /\ x # "run" =>
              /\ act[x].res = "ticket"
              /\ ModOf(x) \in loaded /\ IsPolicy(ModOf(x)) => OkIn(dseen[ModOf(x)], x)
    PROVE  \E a \in Acts : /\ ActBecomes(x, a) /\ a.pc \in {"call", "reply"}
                           /\ \A lk : ActorOK(x, a, lk, dseen, loaded)
<1>1. act[x].k \in 1 .. Len(Steps) /\ ModOf(x) = ModAt(act[x].k) /\ Len(Steps) \in Nat
  BY CallerFacts, StepsFacts
<1>. DEFINE k == act[x].k + 1
<1>2. k \in Nat /\ k = act[x].k + 1 /\ act[x].k < k
  BY <1>1
<1>. HIDE DEF k
<1>3. \A j \in 1 .. Len(Steps) : act[x].k <= j /\ j < k => j = act[x].k
  BY <1>1, <1>2
<1>. QED  BY <1>1, <1>2, <1>3, AdvancedOK

\* A caller that changes only where it is, and stays with its module.
LEMMA Relabelled ==
    ASSUME TypesD, NEW x \in Actors, NEW label \in Labels, act' = [act EXCEPT ![x].pc = label]
    PROVE  \E a \in Acts : /\ ActBecomes(x, a) /\ a.pc = label /\ a.k = act[x].k
                           /\ a.res = act[x].res /\ a.ev = act[x].ev
<1>. DEFINE a == [act[x] EXCEPT !.pc = label]
<1>1. act[x] \in Acts
  BY DEF TypesD
<1>2. a \in Acts /\ a.pc = label /\ a.k = act[x].k /\ a.res = act[x].res /\ a.ev = act[x].ev
  BY <1>1 DEF Acts
<1>3. act' = [act EXCEPT ![x] = a]
  BY DEF TypesD
<1>. QED  BY <1>2, <1>3 DEF ActBecomes

\* An error: the connection is dropped, and a policy module has refused.
LEMMA FailureKeeps ==
    ASSUME TypesD, CallInv, NEW x \in Actors, act[x].pc \in Holding, CallFails(x),
           UNCHANGED <<dseen, loaded>>
    PROVE  TypesD' /\ CallInv'
<1>0. act[x].pc \in Calling
  BY DEF Calling
<1>1. /\ act[x] \in Acts /\ ModOf(x) \in ModSet /\ link[ModOf(x)] \in Links
      /\ link[ModOf(x)].by = x /\ orphan[ModOf(x)] \in Seq(Calls)
  BY <1>0, CallerFacts
<1>. DEFINE res == Unavailable(ModOf(x), act[x].res)
<1>2. res \in Results /\ (res = "ticket" => act[x].res = "ticket" /\ ~IsPolicy(ModOf(x)))
  BY <1>1 DEF Unavailable, Acts, Results
<1>3. PICK a \in Acts : ActBecomes(x, a) /\ \A lk : ActorOK(x, a, lk, dseen, loaded)
  <2>1. act' = Advanced(x, res, act[x].k + 1)
    BY DEF CallFails, AfterFailure
  <2>. HIDE DEF res
  <2>. QED  BY <1>0, <1>2, <2>1, NextOK
<1>4. LinkBecomes(ModOf(x), NoLink) /\ IdsOK(NoLink)
  BY NoLinkType DEF CallFails, Dropped, LinkBecomes, IdsOK
<1>5. CallInv'
  BY <1>1, <1>3, <1>4, CallerMoves
<1>6. orphan' \in [ModSet -> Seq(Calls)]
  <2>1. orphan[ModOf(x)] \o link[ModOf(x)].q \in Seq(Calls)
    BY <1>1, ConcatProperties DEF Links
  <2>. QED  BY <1>1, <2>1 DEF CallFails, Orphaned, TypesD
<1>. QED  BY <1>1, <1>3, <1>4, <1>5, <1>6, ActBecomesFacts, LinkBecomesFacts DEF TypesD

\* The calls that are left out ask no policy module that would have to consent.
LEMMA SkipFacts ==
    ASSUME TypesD, CallInv, NEW x \in Actors, SkipModule(x)
    PROVE  /\ act[x].pc \in Calling /\ act[x] \in Acts /\ act[x].res \in Results
           /\ UNCHANGED <<link, orphan, dseen, heard, loaded>>
           /\ \E k \in Nat : /\ act[x].k < k /\ act' = Advanced(x, act[x].res, k)
                             /\ \A j \in 1 .. Len(Steps) : act[x].k <= j /\ j < k => Skips(x, j)
<1>1. act[x].pc \in Calling /\ act[x] \in Acts /\ UNCHANGED <<link, orphan, dseen, heard, loaded>>
  BY DEF SkipModule, Calling, rpcVars, mainVars, TypesD
<1>2. act[x].k \in 1 .. Len(Steps) /\ Len(Steps) \in Nat /\ act[x].res \in Results
  BY <1>1, CallerFacts, StepsFacts DEF Acts
<1>3. PICK k \in act[x].k + 1 .. Len(Steps) + 1 :
        (\A j \in act[x].k .. k - 1 : Skips(x, j)) /\ act' = Advanced(x, act[x].res, k)
  BY DEF SkipModule
<1>4. k \in Nat /\ act[x].k < k
  BY <1>2, <1>3
<1>5. \A j \in 1 .. Len(Steps) : act[x].k <= j /\ j < k => Skips(x, j)
  <2>1. \A j \in 1 .. Len(Steps) : act[x].k <= j /\ j < k => j \in act[x].k .. k - 1
    BY <1>2, <1>4
  <2>. QED  BY <1>3, <2>1
<1>. QED  BY <1>1, <1>2, <1>3, <1>4, <1>5

LEMMA SkipKeeps ==
    ASSUME TypesD, CallInv, NEW x \in Actors, SkipModule(x)
    PROVE  TypesD' /\ CallInv'
<1>1. /\ act[x].pc \in Calling /\ act[x] \in Acts /\ act[x].res \in Results
      /\ UNCHANGED <<link, orphan, dseen, loaded>>
  BY SkipFacts
<1>2. PICK k \in Nat : /\ act[x].k < k /\ act' = Advanced(x, act[x].res, k)
                       /\ \A j \in 1 .. Len(Steps) : act[x].k <= j /\ j < k => Skips(x, j)
  BY SkipFacts
<1>3. PICK a \in Acts : ActBecomes(x, a) /\ \A lk : ActorOK(x, a, lk, dseen, loaded)
  <2>1. ASSUME act[x].res = "ticket", x # "run", NEW j, Skips(x, j)
        PROVE  ~(ModAt(j) \in loaded /\ IsPolicy(ModAt(j)))
    BY <2>1 DEF Skips, ModAt
  <2>. QED  BY <1>1, <1>2, <2>1, AdvancedOK
<1>4. CallInv'
  BY <1>1, <1>3, CallerMovesAlone
<1>. QED  BY <1>1, <1>3, <1>4, ActBecomesFacts DEF TypesD

LEMMA TakeKeeps ==
    ASSUME TypesD, CallInv, NEW x \in Actors, TakeConn(x)
    PROVE  TypesD' /\ CallInv'
<1>1. act[x].pc = "call" /\ act[x].pc \in Calling /\ UNCHANGED <<orphan, dseen, loaded>>
  BY DEF TakeConn, Calling, mainVars
<1>. DEFINE m == ModOf(x)
            l == [link[m] EXCEPT !.by = x]
<1>2. /\ m \in ModSet /\ link[m] \in Links /\ IdsOK(link[m]) /\ m = ModAt(act[x].k)
      /\ act[x].k \in 1 .. Len(Steps) /\ ActorOK(x, act[x], link, dseen, loaded)
  BY <1>1, CallerFacts
<1>. HIDE DEF m
<1>3. l \in Links /\ l.by = x /\ l.q = link[m].q /\ l.a = link[m].a /\ l.n = link[m].n
  <2>1. PICK o \in Links : o = link[m]
    BY <1>2
  <2>2. [o EXCEPT !.by = x] \in Links
    BY <2>1, Zenon DEF Links
  <2>3. /\ [o EXCEPT !.by = x].by = x /\ [o EXCEPT !.by = x].q = o.q
        /\ [o EXCEPT !.by = x].a = o.a /\ [o EXCEPT !.by = x].n = o.n
    BY <2>1 DEF Links
  <2>. QED  BY <2>1, <2>2, <2>3
<1>4. link' = [link EXCEPT ![m] = l] /\ link[m].by = "none"
  BY <1>2 DEF TakeConn, TypesD, m
<1>. HIDE DEF l
<1>5. LinkBecomes(m, l) /\ IdsOK(l)
  BY <1>2, <1>3, <1>4 DEF LinkBecomes, IdsOK
<1>6. PICK label \in {"send", "connect"} : act' = [act EXCEPT ![x].pc = label]
  BY DEF TakeConn
<1>7. PICK a \in Acts : /\ ActBecomes(x, a) /\ a.pc = label /\ a.k = act[x].k
                        /\ a.res = act[x].res /\ a.ev = act[x].ev
  <2>1. label \in Labels
    BY DEF Labels, Calling, Holding
  <2>. QED  BY <1>6, <2>1, Relabelled, Zenon
<1>8. link'[m] = l /\ link' \in [ModSet -> Links]
  BY <1>2, <1>5, LinkBecomesFacts
<1>9. ActorOK(x, a, link', dseen, loaded)
  BY <1>2, <1>3, <1>6, <1>7, <1>8 DEF ActorOK, Holding, Calling, Replied
<1>10. CallInv'
  BY <1>1, <1>2, <1>4, <1>5, <1>7, <1>9, CallerMoves
<1>. QED  BY <1>1, <1>7, <1>8, <1>10, ActBecomesFacts DEF TypesD

LEMMA ConnectKeeps ==
    ASSUME TypesD, CallInv, NEW x \in Actors, ConnectModule(x)
    PROVE  TypesD' /\ CallInv'
<1>1. /\ act[x].pc = "connect" /\ act[x].pc \in Calling /\ act[x].pc \in Holding
      /\ UNCHANGED <<dseen, loaded>>
  BY DEF ConnectModule, Calling, Holding, mainVars
<1>2. CASE CallFails(x)
  BY <1>1, <1>2, FailureKeeps
<1>3. CASE /\ link' = [link EXCEPT ![ModOf(x)] = [NoLink EXCEPT !.up = TRUE, !.n = 1, !.by = x,
                                                     !.q = <<[id |-> 1, msg |-> InitMsg]>>]]
           /\ act' = [act EXCEPT ![x].pc = "init"]
           /\ UNCHANGED orphan
  <2>. DEFINE m == ModOf(x)
              e == [id |-> 1, msg |-> InitMsg]
              l == [NoLink EXCEPT !.up = TRUE, !.n = 1, !.by = x, !.q = <<e>>]
  <2>1. /\ m \in ModSet /\ link[m].by = x /\ m = ModAt(act[x].k)
        /\ act[x].k \in 1 .. Len(Steps) /\ ActorOK(x, act[x], link, dseen, loaded)
    BY <1>1, CallerFacts
  <2>2. e \in Calls /\ e.id = 1
    BY DEF Calls, Msgs, InitMsg, Events, Results
  <2>3. <<e>> \in Seq(Calls)
    BY <2>2
  <2>. HIDE DEF m, e
  <2>4. l \in Links /\ l.by = x /\ l.q = <<e>> /\ l.a = << >> /\ l.n = 1
    BY <2>3, NoLinkType DEF Links
  <2>5. link' = [link EXCEPT ![m] = l]
    BY <1>3 DEF m, e
  <2>. HIDE DEF l
  <2>6. LinkBecomes(m, l) /\ IdsOK(l)
    BY <2>2, <2>4, <2>5 DEF LinkBecomes, IdsOK
  <2>7. PICK a \in Acts : /\ ActBecomes(x, a) /\ a.pc = "init" /\ a.k = act[x].k
                          /\ a.res = act[x].res /\ a.ev = act[x].ev
    <3>1. "init" \in Labels
      BY DEF Labels, Calling, Holding
    <3>. QED  BY <1>3, <3>1, Relabelled, Zenon
  <2>8. link'[m] = l /\ link' \in [ModSet -> Links]
    BY <2>1, <2>6, LinkBecomesFacts
  <2>9. ActorOK(x, a, link', dseen, loaded)
    BY <2>1, <2>4, <2>7, <2>8 DEF ActorOK, Holding, Calling, Replied
  <2>10. CallInv'
    BY <1>1, <2>1, <2>6, <2>7, <2>9, CallerMoves
  <2>. QED  BY <1>1, <1>3, <2>7, <2>8, <2>10, ActBecomesFacts DEF TypesD
<1>. QED  BY <1>2, <1>3 DEF ConnectModule

\* The call is written to the connection, as its last message.
LEMMA SendLink ==
    ASSUME TypesD, CallInv, NEW x \in Actors, SendCall(x), ~CallFails(x)
    PROVE  \E l \in Links, e \in Calls :
             /\ LinkBecomes(ModOf(x), l) /\ l.by = x /\ e.msg = CallMsg(x)
             /\ l.q = Append(link[ModOf(x)].q, e) /\ IdsOK(l)
             /\ \A i \in DOMAIN l.q : l.q[i].id = l.n => l.q[i] = e
             /\ \A i \in DOMAIN l.a : l.a[i].id # l.n
<1>. DEFINE m == ModOf(x)
            o == link[m]
            e == [id |-> o.n + 1, msg |-> CallMsg(x)]
            q2 == Append(o.q, e)
            l == [o EXCEPT !.n = o.n + 1, !.q = q2]
<1>0. act[x].pc \in Calling /\ act[x].pc \in Holding
  BY DEF SendCall, Calling, Holding
<1>1. /\ m \in ModSet /\ o \in Links /\ o.by = x /\ IdsOK(o) /\ act[x] \in Acts
  BY <1>0, CallerFacts
<1>2. CallMsg(x) \in Msgs
  <2>1. Steps[act[x].k].call \in Events /\ act[x].res \in Results
    BY <1>0, <1>1, CallerFacts DEF Acts, Pairs
  <2>. QED  BY <2>1 DEF CallMsg, Msgs
<1>3. link' = [link EXCEPT ![m].n = @ + 1, ![m].q = Append(@, e)]
  BY DEF SendCall
<1>4. link' = [link EXCEPT ![m] = l]
  BY <1>1, <1>3 DEF TypesD, Links
<1>. HIDE DEF m
<1>5. o.n \in Nat /\ o.q \in Seq(Calls) /\ o.a \in Seq(Ans)
  BY <1>1 DEF Links
<1>6. e \in Calls /\ e.id = o.n + 1 /\ e.msg = CallMsg(x)
  BY <1>2, <1>5 DEF Calls
<1>. HIDE DEF e, o
<1>7. q2 \in Seq(Calls)
  BY <1>5, <1>6
<1>8. l \in Links /\ l.by = x /\ l.q = q2 /\ l.a = o.a /\ l.n = o.n + 1
  <2>1. PICK n2 \in Nat : n2 = o.n + 1
    BY <1>5
  <2>2. PICK q3 \in Seq(Calls) : q3 = q2
    BY <1>7
  <2>. HIDE DEF q2
  <2>3. l = [o EXCEPT !.n = n2, !.q = q3]
    BY <2>1, <2>2
  <2>. HIDE DEF l
  <2>4. o \in Links /\ o.by = x
    BY <1>1
  <2>5. l \in Links
    BY <2>3, <2>4 DEF Links
  <2>6. l.by = o.by /\ l.q = q3 /\ l.a = o.a /\ l.n = n2
    BY <2>3, <2>4 DEF Links
  <2>. QED  BY <2>1, <2>2, <2>4, <2>5, <2>6
<1>. HIDE DEF l
<1>9. \A i \in DOMAIN l.q : l.q[i] = e \/ (i \in DOMAIN o.q /\ l.q[i] = o.q[i])
  BY <1>5, <1>6, <1>8
<1>10. (\A i \in DOMAIN o.q : o.q[i].id \in Nat) /\ (\A i \in DOMAIN o.a : o.a[i].id \in Nat)
  <2>1. \A i \in DOMAIN o.q : o.q[i] \in Calls
    BY <1>5
  <2>2. \A i \in DOMAIN o.a : o.a[i] \in Ans
    BY <1>5
  <2>. QED  BY <2>1, <2>2 DEF Calls, Ans
<1>11. IdsOK(l)
  <2>1. \A i \in DOMAIN l.q : l.q[i].id <= l.n
    BY <1>1, <1>5, <1>6, <1>8, <1>9, <1>10 DEF IdsOK
  <2>2. \A i \in DOMAIN l.a : l.a[i].id <= l.n
    BY <1>1, <1>5, <1>8, <1>10 DEF IdsOK
  <2>. QED  BY <2>1, <2>2 DEF IdsOK
<1>12. \A i \in DOMAIN l.q : l.q[i].id = l.n => l.q[i] = e
  BY <1>1, <1>5, <1>8, <1>9, <1>10 DEF IdsOK
<1>13. \A i \in DOMAIN l.a : l.a[i].id # l.n
  BY <1>1, <1>5, <1>8, <1>10 DEF IdsOK
<1>14. LinkBecomes(m, l) /\ l.q = Append(o.q, e)
  BY <1>4, <1>8 DEF LinkBecomes
<1>. QED  BY <1>6, <1>8, <1>11, <1>12, <1>13, <1>14 DEF m, o

LEMMA SendKeeps ==
    ASSUME TypesD, CallInv, NEW x \in Actors, SendCall(x)
    PROVE  TypesD' /\ CallInv'
<1>1. /\ act[x].pc = "send" /\ act[x].pc \in Calling /\ act[x].pc \in Holding
      /\ UNCHANGED <<dseen, loaded>>
  BY DEF SendCall, Calling, Holding, mainVars
<1>2. CASE CallFails(x)
  BY <1>1, <1>2, FailureKeeps
<1>3. CASE ~CallFails(x)
  <2>. DEFINE m == ModOf(x)
  <2>0. act' = [act EXCEPT ![x].pc = "wait"] /\ UNCHANGED orphan
    BY <1>3 DEF SendCall
  <2>1. /\ m \in ModSet /\ link[m].by = x /\ m = ModAt(act[x].k)
        /\ act[x].k \in 1 .. Len(Steps) /\ ActorOK(x, act[x], link, dseen, loaded)
    BY <1>1, CallerFacts
  <2>2. PICK l \in Links, e \in Calls :
             /\ LinkBecomes(m, l) /\ l.by = x /\ e.msg = CallMsg(x) /\ IdsOK(l)
             /\ \A i \in DOMAIN l.q : l.q[i].id = l.n => l.q[i] = e
             /\ \A i \in DOMAIN l.a : l.a[i].id # l.n
    BY <1>3, SendLink, ZenonT(40)
  <2>3. CallMsg(x).who = x /\ CallMsg(x).call = Steps[act[x].k].call /\ CallMsg(x).call # "init"
    BY <1>1, CallerFacts DEF CallMsg
  <2>. HIDE DEF m
  <2>4. Waits(l, dseen[m], x, Steps[act[x].k].call)
    BY <2>2, <2>3 DEF Waits
  <2>5. PICK a \in Acts : /\ ActBecomes(x, a) /\ a.pc = "wait" /\ a.k = act[x].k
                          /\ a.res = act[x].res /\ a.ev = act[x].ev
    <3>1. "wait" \in Labels
      BY DEF Labels, Calling, Holding
    <3>. QED  BY <2>0, <3>1, Relabelled, Zenon
  <2>6. link'[m] = l /\ link' \in [ModSet -> Links]
    BY <2>1, <2>2, LinkBecomesFacts
  <2>7. ActorOK(x, a, link', dseen, loaded)
    BY <2>1, <2>2, <2>4, <2>5, <2>6 DEF ActorOK, Holding, Calling, Replied
  <2>8. CallInv'
    BY <1>1, <2>1, <2>2, <2>5, <2>7, CallerMoves
  <2>. QED  BY <1>1, <2>0, <2>5, <2>6, <2>8, ActBecomesFacts DEF TypesD
<1>. QED  BY <1>2, <1>3

\* What is left of a sequence without its head.
LEMMA TailFacts ==
    ASSUME NEW S, NEW s \in Seq(S), s # << >>
    PROVE  /\ Tail(s) \in Seq(S) /\ s[1] \in S /\ 1 \in DOMAIN s
           /\ \A i \in DOMAIN Tail(s) : i + 1 \in DOMAIN s /\ Tail(s)[i] = s[i + 1]
<1>1. /\ Tail(s) \in Seq(S) /\ Len(Tail(s)) = Len(s) - 1
      /\ \A i \in 1 .. Len(Tail(s)) : Tail(s)[i] = s[i + 1]
  BY HeadTailProperties
<1>2. /\ Len(s) \in Nat \ {0} /\ DOMAIN s = 1 .. Len(s) /\ DOMAIN Tail(s) = 1 .. Len(Tail(s))
  BY <1>1, LenProperties, EmptySeq
<1>3. 1 \in 1 .. Len(s)
  BY <1>2
<1>4. s[1] \in S
  BY <1>3, ElementOfSeq
<1>. QED  BY <1>1, <1>2, <1>3, <1>4

\* An answer is taken from the connection.
LEMMA AnswerTaken ==
    ASSUME NEW o \in Links, o.a # << >>, IdsOK(o), NEW by \in Actors \union {"none"}
    PROVE  LET l == [o EXCEPT !.a = Tail(o.a), !.by = by]
           IN  l \in Links /\ l.by = by /\ IdsOK(l)
<1>. DEFINE a2 == Tail(o.a)
            l == [o EXCEPT !.a = a2, !.by = by]
<1>1. o.a \in Seq(Ans)
  BY DEF Links
<1>2. /\ a2 \in Seq(Ans)
      /\ \A i \in DOMAIN a2 : i + 1 \in DOMAIN o.a /\ a2[i] = o.a[i + 1]
  BY <1>1, TailFacts
<1>. HIDE DEF a2
<1>3. l \in Links /\ l.by = by /\ l.a = a2 /\ l.q = o.q /\ l.n = o.n
  BY <1>2 DEF Links
<1>. HIDE DEF l
<1>4. IdsOK(l)
  BY <1>2, <1>3 DEF IdsOK
<1>. QED  BY <1>3, <1>4 DEF l, a2

LEMMA ReadKeeps ==
    ASSUME TypesD, CallInv, NEW x \in Actors, ReadAnswer(x)
    PROVE  TypesD' /\ CallInv'
<1>. DEFINE m == ModOf(x)
            o == link[m]
            ans == o.a[1]
<1>1. /\ act[x].pc \in Calling /\ act[x].pc \in Holding /\ o.a # << >>
      /\ UNCHANGED <<dseen, loaded>>
  BY DEF ReadAnswer, Calling, Holding, mainVars
<1>2. /\ m \in ModSet /\ o \in Links /\ o.by = x /\ m = ModAt(act[x].k) /\ IdsOK(o)
      /\ act[x].k \in 1 .. Len(Steps) /\ ActorOK(x, act[x], link, dseen, loaded)
      /\ act[x] \in Acts
  BY <1>1, CallerFacts
<1>3. ans \in Ans /\ 1 \in DOMAIN o.a
  <2>1. o.a \in Seq(Ans)
    BY <1>2 DEF Links
  <2>. QED  BY <1>1, <2>1, TailFacts
<1>4. CASE CallFails(x)
  BY <1>1, <1>4, FailureKeeps
<1>5. CASE /\ act[x].pc = "init"
           /\ link' = [link EXCEPT ![m].a = Tail(@)]
           /\ act' = [act EXCEPT ![x].pc = "send"]
           /\ UNCHANGED orphan
  <2>. DEFINE l == [o EXCEPT !.a = Tail(o.a), !.by = x]
  <2>1. l \in Links /\ l.by = x /\ IdsOK(l)
    BY <1>1, <1>2, AnswerTaken
  <2>2. link' = [link EXCEPT ![m] = l]
    <3>1. l = [o EXCEPT !.a = Tail(o.a)]
      BY <1>2 DEF Links
    <3>. QED  BY <1>2, <1>5, <3>1 DEF TypesD
  <2>. HIDE DEF l
  <2>3. LinkBecomes(m, l)
    BY <2>1, <2>2 DEF LinkBecomes
  <2>4. PICK a \in Acts : /\ ActBecomes(x, a) /\ a.pc = "send" /\ a.k = act[x].k
                          /\ a.res = act[x].res /\ a.ev = act[x].ev
    <3>1. "send" \in Labels
      BY DEF Labels, Calling, Holding
    <3>. QED  BY <1>5, <3>1, Relabelled, Zenon
  <2>5. link'[m] = l /\ link' \in [ModSet -> Links]
    BY <1>2, <2>3, LinkBecomesFacts
  <2>6. ActorOK(x, a, link', dseen, loaded)
    BY <1>2, <1>5, <2>1, <2>4, <2>5 DEF ActorOK, Holding, Calling, Replied
  <2>7. CallInv'
    BY <1>1, <1>2, <2>1, <2>3, <2>4, <2>6, CallerMoves
  <2>. QED  BY <1>1, <1>5, <2>4, <2>5, <2>7, ActBecomesFacts DEF TypesD
<1>6. CASE /\ act[x].pc = "wait" /\ Answers(x, ans)
           /\ link' = [link EXCEPT ![m].a = Tail(@), ![m].by = "none"]
           /\ act' = Advanced(x, Verdict(x, ans), act[x].k + 1)
           /\ UNCHANGED orphan
  <2>. DEFINE l == [o EXCEPT !.a = Tail(o.a), !.by = "none"]
              res == Verdict(x, ans)
  <2>1. l \in Links /\ IdsOK(l)
    BY <1>1, <1>2, AnswerTaken, ZenonT(40)
  <2>2. link' = [link EXCEPT ![m] = l]
    BY <1>2, <1>6 DEF TypesD, Links
  <2>. HIDE DEF l
  <2>3. LinkBecomes(m, l)
    BY <2>1, <2>2 DEF LinkBecomes
  <2>4. link' \in [ModSet -> Links]
    BY <1>2, <2>3, LinkBecomesFacts
  <2>5. res \in Results /\ (res = "ticket" => act[x].res = "ticket" /\ (IsPolicy(m) => ans.ok))
    <3>1. act[x].res \in Results
      BY <1>2 DEF Acts
    <3>2. res = IF IsPolicy(m) /\ ~ans.ok THEN "refused" ELSE act[x].res
      BY DEF Verdict
    <3>. HIDE DEF res, m, ans
    <3>. QED  BY <3>1, <3>2 DEF Results
  <2>6. ans.ok => OkIn(dseen[m], x)
    BY <1>2, <1>3, <1>6 DEF ActorOK, Waits, Answers
  <2>7. PICK a \in Acts : ActBecomes(x, a) /\ \A lk : ActorOK(x, a, lk, dseen, loaded)
    <3>1. act' = Advanced(x, res, act[x].k + 1)
      BY <1>6
    <3>. HIDE DEF res, ans, o
    <3>. QED  BY <1>1, <2>5, <2>6, <3>1, NextOK
  <2>8. CallInv'
    BY <1>1, <1>2, <2>1, <2>3, <2>7, CallerMoves
  <2>. QED  BY <1>1, <1>6, <2>4, <2>7, <2>8, ActBecomesFacts DEF TypesD
<1>. QED  BY <1>4, <1>5, <1>6 DEF ReadAnswer

LEMMA TimeoutKeeps ==
    ASSUME TypesD, CallInv, NEW x \in Actors, CallTimeout(x)
    PROVE  TypesD' /\ CallInv'
<1>1. act[x].pc \in Holding /\ UNCHANGED <<dseen, loaded>>
  BY DEF CallTimeout, Holding, mainVars
<1>2. CallFails(x)
  BY DEF CallTimeout
<1>. QED  BY <1>1, <1>2, FailureKeeps

LEMMA CallKeeps ==
    ASSUME TypesD, CallInv, NEW x \in Actors, CallStep(x)
    PROVE  TypesD' /\ CallInv'
BY SkipKeeps, TakeKeeps, ConnectKeeps, SendKeeps, ReadKeeps, TimeoutKeeps DEF CallStep

-----------------------------------------------------------------------------
(* The modules                                                             *)

LEMMA AppendFacts ==
    ASSUME NEW S, NEW s \in Seq(S), NEW e \in S
    PROVE  /\ Append(s, e) \in Seq(S) /\ Len(s) + 1 \in DOMAIN Append(s, e)
           /\ Append(s, e)[Len(s) + 1] = e
           /\ \A i \in DOMAIN s : i \in DOMAIN Append(s, e) /\ Append(s, e)[i] = s[i]
           /\ \A i \in DOMAIN Append(s, e) : i \in DOMAIN s \/ Append(s, e)[i] = e
<1>1. /\ Append(s, e) \in Seq(S) /\ Len(Append(s, e)) = Len(s) + 1
      /\ \A i \in 1 .. Len(s) : Append(s, e)[i] = s[i]
      /\ Append(s, e)[Len(s) + 1] = e
  BY AppendProperties
<1>2. Len(s) \in Nat /\ DOMAIN s = 1 .. Len(s) /\ DOMAIN Append(s, e) = 1 .. Len(s) + 1
  BY <1>1, LenProperties
<1>. QED  BY <1>1, <1>2

\* A module that does something has still done what it did.
LEMMA DoesFacts ==
    ASSUME TypesD, NEW m \in ModSet, NEW msg \in Msgs, NEW ok \in BOOLEAN,
           dseen' = Does(m, msg, ok)
    PROVE  /\ dseen' \in [ModSet -> Seq(Seen)]
           /\ \A o \in ModSet : \A x : OkIn(dseen[o], x) => OkIn(dseen'[o], x)
           /\ msg.call # "init" /\ ok => OkIn(dseen'[m], msg.who)
<1>. DEFINE e == [who |-> msg.who, call |-> msg.call, res |-> msg.res, ok |-> ok]
            s == dseen[m]
<1>1. CASE msg.call = "init"
  BY <1>1 DEF Does, TypesD
<1>2. CASE msg.call # "init"
  <2>1. e \in Seen /\ e.who = msg.who /\ e.ok = ok
    BY DEF Msgs, Seen
  <2>2. s \in Seq(Seen) /\ dseen' = [dseen EXCEPT ![m] = Append(s, e)]
    BY <1>2 DEF TypesD, Does
  <2>. HIDE DEF e, s
  <2>3. /\ Append(s, e) \in Seq(Seen) /\ Len(s) + 1 \in DOMAIN Append(s, e)
        /\ Append(s, e)[Len(s) + 1] = e
        /\ \A i \in DOMAIN s : i \in DOMAIN Append(s, e) /\ Append(s, e)[i] = s[i]
    BY <2>1, <2>2, AppendFacts
  <2>4. /\ dseen' \in [ModSet -> Seq(Seen)] /\ dseen'[m] = Append(s, e)
        /\ \A o \in ModSet \ {m} : dseen'[o] = dseen[o]
    BY <2>2, <2>3 DEF TypesD
  <2>5. \A x : OkIn(s, x) => OkIn(Append(s, e), x)
    BY <2>3 DEF OkIn
  <2>6. ok => OkIn(Append(s, e), msg.who)
    BY <2>1, <2>3 DEF OkIn
  <2>7. \A o \in ModSet : \A x : OkIn(dseen[o], x) => OkIn(dseen'[o], x)
    BY <2>4, <2>5 DEF s
  <2>. QED  BY <2>4, <2>6, <2>7
<1>. QED  BY <1>1, <1>2

\* A connection that changes in a way its caller can rely on, while modules
\* do more.
LEMMA ModuleKeeps ==
    ASSUME TypesD, CallInv, NEW m \in ModSet, NEW l, LinkBecomes(m, l), IdsOK(l),
           UNCHANGED <<act, loaded>>, l.by = link[m].by,
           \A o \in ModSet : \A x : OkIn(dseen[o], x) => OkIn(dseen'[o], x),
           \A x, c : Waits(link[m], dseen[m], x, c) => Waits(l, dseen'[m], x, c)
    PROVE  CallInv'
<1>1. link'[m] = l /\ \A o \in ModSet \ {m} : link'[o] = link[o]
  BY LinkBecomesFacts
<1>2. ASSUME NEW y \in Actors PROVE ActorOK(y, act[y], link', dseen', loaded)
  <2>1. ActorOK(y, act[y], link, dseen, loaded)
    BY DEF CallInv
  <2>2. CASE act[y].pc \in Holding /\ ModAt(act[y].k) = m
    <3>1. act[y].pc = "wait" => Waits(link'[m], dseen'[m], y, Steps[act[y].k].call)
      BY <1>1, <2>1, <2>2 DEF ActorOK
    <3>2. Allowed(y, act[y].k, dseen, loaded) => Allowed(y, act[y].k, dseen', loaded)
      BY StepsFacts DEF Allowed
    <3>3. link'[m].by = y
      BY <1>1, <2>1, <2>2 DEF ActorOK
    <3>. QED  BY <2>1, <2>2, <3>1, <3>2, <3>3 DEF ActorOK
  <2>3. CASE ~(act[y].pc \in Holding /\ ModAt(act[y].k) = m)
    <3>1. act[y].pc \in Holding => link'[ModAt(act[y].k)] = link[ModAt(act[y].k)]
      BY <1>1, <2>1, <2>3, StepsFacts DEF ActorOK, Calling
    <3>. QED  BY <2>1, <3>1, CallerKeeps
  <2>. QED  BY <2>2, <2>3
<1>3. \A o \in ModSet : IdsOK(link'[o])
  BY <1>1 DEF CallInv
<1>4. \A y \in Actors : ActorOK(y, act[y], link, dseen, loaded)' <=>
                        ActorOK(y, act[y], link', dseen', loaded)
  BY DEF ActorOK, Waits, Allowed, OkIn
<1>. QED  BY <1>2, <1>3, <1>4 DEF CallInv, IdsOK

\* A call is answered.
LEMMA CallServed ==
    ASSUME NEW o \in Links, o.q # << >>, IdsOK(o), NEW s, NEW s2,
           \A x : OkIn(s, x) => OkIn(s2, x), NEW e \in Ans, e.id = o.q[1].id,
           o.q[1].msg.call # "init" /\ e.ok => OkIn(s2, o.q[1].msg.who), NEW l,
           l.q = Tail(o.q), l.a = Append(o.a, e), l.n = o.n
    PROVE  IdsOK(l) /\ \A x, c : Waits(o, s, x, c) => Waits(l, s2, x, c)
<1>1. o.q \in Seq(Calls) /\ o.a \in Seq(Ans) /\ o.n \in Nat
  BY DEF Links
<1>2. /\ o.q[1] \in Calls /\ 1 \in DOMAIN o.q
      /\ \A i \in DOMAIN l.q : i + 1 \in DOMAIN o.q /\ l.q[i] = o.q[i + 1]
  BY <1>1, TailFacts
<1>3. \A i \in DOMAIN l.a : (i \in DOMAIN o.a /\ l.a[i] = o.a[i]) \/ l.a[i] = e
  BY <1>1, AppendFacts
<1>4. IdsOK(l)
  BY <1>2, <1>3 DEF IdsOK
<1>5. ASSUME NEW x, NEW c, Waits(o, s, x, c) PROVE Waits(l, s2, x, c)
  <2>1. \A i \in DOMAIN l.q : l.q[i].id = o.n =>
          l.q[i].msg.who = x /\ l.q[i].msg.call = c /\ l.q[i].msg.call # "init"
    BY <1>2, <1>5 DEF Waits
  <2>2. ASSUME NEW i \in DOMAIN l.a, l.a[i].id = o.n, l.a[i].ok PROVE OkIn(s2, x)
    <3>1. CASE i \in DOMAIN o.a /\ l.a[i] = o.a[i]
      BY <1>5, <2>2, <3>1 DEF Waits
    <3>2. CASE l.a[i] = e
      <4>1. o.q[1].msg.who = x /\ o.q[1].msg.call # "init" /\ e.ok
        BY <1>2, <1>5, <2>2, <3>2 DEF Waits
      <4>. QED  BY <4>1
    <3>. QED  BY <1>3, <3>1, <3>2
  <2>. QED  BY <2>1, <2>2 DEF Waits
<1>. QED  BY <1>4, <1>5

LEMMA ServesLink ==
    ASSUME TypesD, CallInv, NEW m \in ModSet, ModuleServes(m)
    PROVE  /\ link[m].q \in Seq(Calls) /\ link[m].q # << >>
           /\ link[m].q[1] \in Calls /\ link[m].q[1].msg \in Msgs
           /\ \E ok \in BOOLEAN, e \in Ans, l \in Links :
                /\ LinkBecomes(m, l) /\ l.by = link[m].by /\ l.n = link[m].n
                /\ l.q = Tail(link[m].q) /\ l.a = Append(link[m].a, e)
                /\ e.id = link[m].q[1].id /\ e.ok = ok
                /\ dseen' = Does(m, link[m].q[1].msg, ok)
<1>. DEFINE o == link[m]
<1>1. o \in Links /\ o.q # << >>
  BY DEF TypesD, ModuleServes
<1>2. o.q \in Seq(Calls) /\ o.a \in Seq(Ans)
  BY <1>1 DEF Links
<1>3. o.q[1] \in Calls /\ o.q[1].msg \in Msgs
  <2>1. o.q[1] \in Calls
    BY <1>1, <1>2, TailFacts
  <2>. QED  BY <2>1 DEF Calls
<1>4. PICK ok \in BOOLEAN :
        /\ link' = [link EXCEPT ![m].q = Tail(@), ![m].a = Append(@, [id |-> o.q[1].id, ok |-> ok])]
        /\ dseen' = Does(m, o.q[1].msg, ok)
  BY DEF ModuleServes, Allows
<1>. DEFINE e == [id |-> o.q[1].id, ok |-> ok]
            l == [o EXCEPT !.q = Tail(o.q), !.a = Append(o.a, e)]
<1>5. link' = [link EXCEPT ![m] = l]
  BY <1>1, <1>4 DEF TypesD, Links
<1>6. e \in Ans /\ e.id = o.q[1].id /\ e.ok = ok
  BY <1>3 DEF Calls, Ans
<1>. HIDE DEF e
<1>7. PICK q2 \in Seq(Calls), a2 \in Seq(Ans) : q2 = Tail(o.q) /\ a2 = Append(o.a, e)
  <2>1. Tail(o.q) \in Seq(Calls)
    BY <1>1, <1>2, TailFacts
  <2>2. Append(o.a, e) \in Seq(Ans)
    BY <1>2, <1>6, AppendFacts
  <2>. QED  BY <2>1, <2>2
<1>8. l = [o EXCEPT !.q = q2, !.a = a2]
  BY <1>7
<1>. HIDE DEF l, o
<1>9. l \in Links
  BY <1>1, <1>8 DEF Links
<1>10. l.by = o.by /\ l.q = q2 /\ l.a = a2 /\ l.n = o.n
  BY <1>1, <1>8 DEF Links
<1>11. LinkBecomes(m, l)
  BY <1>5, <1>9 DEF LinkBecomes
<1>. QED  BY <1>1, <1>2, <1>3, <1>4, <1>6, <1>7, <1>9, <1>10, <1>11 DEF o

LEMMA ServesKeeps ==
    ASSUME TypesD, CallInv, NEW m \in ModSet, ModuleServes(m)
    PROVE  TypesD' /\ CallInv'
<1>. DEFINE o == link[m]
            msg == o.q[1].msg
<1>1. o \in Links /\ IdsOK(o) /\ UNCHANGED <<act, orphan, loaded>>
  BY DEF TypesD, CallInv, ModuleServes, mainVars
<1>2. o.q # << >> /\ msg \in Msgs
  BY ServesLink
<1>3. PICK ok \in BOOLEAN, e \in Ans, l \in Links :
        /\ LinkBecomes(m, l) /\ l.by = o.by /\ l.n = o.n
        /\ l.q = Tail(o.q) /\ l.a = Append(o.a, e)
        /\ e.id = o.q[1].id /\ e.ok = ok /\ dseen' = Does(m, msg, ok)
  BY ServesLink
<1>4. /\ dseen' \in [ModSet -> Seq(Seen)]
      /\ \A p \in ModSet : \A x : OkIn(dseen[p], x) => OkIn(dseen'[p], x)
      /\ msg.call # "init" /\ ok => OkIn(dseen'[m], msg.who)
  <2>. HIDE DEF msg
  <2>. QED  BY <1>2, <1>3, DoesFacts
<1>5. IdsOK(l) /\ \A x, c : Waits(o, dseen[m], x, c) => Waits(l, dseen'[m], x, c)
  <2>1. PICK s, s2 : s = dseen[m] /\ s2 = dseen'[m]
    OBVIOUS
  <2>. HIDE DEF o
  <2>. QED  BY <1>1, <1>2, <1>3, <1>4, <2>1, CallServed DEF msg
<1>6. CallInv'
  BY <1>1, <1>3, <1>4, <1>5, ModuleKeeps
<1>. QED  BY <1>1, <1>3, <1>4, <1>6, LinkBecomesFacts DEF TypesD

LEMMA OrphanKeeps ==
    ASSUME TypesD, CallInv, NEW m \in ModSet, ModuleServesOrphan(m)
    PROVE  TypesD' /\ CallInv'
<1>. DEFINE s == orphan[m]
<1>1. s \in Seq(Calls) /\ UNCHANGED <<act, link, loaded>>
  BY DEF TypesD, ModuleServesOrphan, mainVars
<1>2. PICK i \in DOMAIN s :
        /\ orphan' = [orphan EXCEPT ![m] = SubSeq(@, 1, i - 1) \o SubSeq(@, i + 1, Len(@))]
        /\ dseen' = Does(m, s[i].msg, Allows(m, s[i].msg))
  BY DEF ModuleServesOrphan
<1>3. i \in 1 .. Len(s) /\ Len(s) \in Nat
  BY <1>1, LenProperties
<1>4. s[i].msg \in Msgs /\ Allows(m, s[i].msg) \in BOOLEAN
  <2>1. s[i] \in Calls
    BY <1>1, <1>3, ElementOfSeq
  <2>. QED  BY <2>1 DEF Calls, Allows
<1>5. orphan' \in [ModSet -> Seq(Calls)]
  <2>1. SubSeq(s, 1, i - 1) \in Seq(Calls) /\ SubSeq(s, i + 1, Len(s)) \in Seq(Calls)
    BY <1>1, <1>3
  <2>2. SubSeq(s, 1, i - 1) \o SubSeq(s, i + 1, Len(s)) \in Seq(Calls)
    BY <2>1, ConcatProperties
  <2>. QED  BY <1>2, <2>2 DEF TypesD
<1>. HIDE DEF s
<1>6. /\ dseen' \in [ModSet -> Seq(Seen)]
      /\ \A p \in ModSet : \A x : OkIn(dseen[p], x) => OkIn(dseen'[p], x)
  BY <1>2, <1>4, DoesFacts
<1>7. ASSUME NEW y \in Actors PROVE ActorOK(y, act[y], link, dseen', loaded)
  <2>1. ActorOK(y, act[y], link, dseen, loaded)
    BY DEF CallInv
  <2>. QED  BY <1>6, <2>1, CallerKeeps
<1>8. \A y \in Actors : ActorOK(y, act[y], link, dseen, loaded)' <=>
                        ActorOK(y, act[y], link, dseen', loaded)
  BY <1>1 DEF ActorOK, Waits, Allowed, OkIn
<1>9. CallInv'
  BY <1>1, <1>7, <1>8 DEF CallInv, IdsOK
<1>. QED  BY <1>1, <1>5, <1>6, <1>9 DEF TypesD

LEMMA DiesKeeps ==
    ASSUME TypesD, CallInv, NEW m \in ModSet, ModuleDies(m)
    PROVE  TypesD' /\ CallInv'
<1>. DEFINE o == link[m]
            c == o.cut \/ o.up
            l == [o EXCEPT !.cut = c, !.q = << >>]
<1>1. o \in Links /\ IdsOK(o) /\ UNCHANGED <<act, dseen, loaded>>
      /\ orphan' = [orphan EXCEPT ![m] = << >>]
  BY DEF TypesD, CallInv, ModuleDies, mainVars
<1>2. link' = [link EXCEPT ![m] = l]
  BY <1>1 DEF ModuleDies, TypesD, Links
<1>3. c \in BOOLEAN
  BY <1>1 DEF Links
<1>4. << >> \in Seq(Calls)
  OBVIOUS
<1>5. PICK q2 \in Seq(Calls) : q2 = << >>
  BY <1>4
<1>6. l = [o EXCEPT !.cut = c, !.q = q2]
  BY <1>5
<1>. HIDE DEF l, c, o
<1>7. l \in Links
  BY <1>1, <1>3, <1>6 DEF Links
<1>8. l.by = o.by /\ l.q = q2 /\ l.a = o.a /\ l.n = o.n
  BY <1>1, <1>6 DEF Links
<1>9. LinkBecomes(m, l) /\ IdsOK(l)
  BY <1>1, <1>2, <1>5, <1>7, <1>8 DEF LinkBecomes, IdsOK
<1>10. \A x, k : Waits(o, dseen[m], x, k) => Waits(l, dseen[m], x, k)
  BY <1>5, <1>8 DEF Waits
<1>11. CallInv'
  <2>1. dseen' = dseen
    BY <1>1
  <2>. QED  BY <1>1, <1>8, <1>9, <1>10, <2>1, ModuleKeeps DEF o
<1>. QED  BY <1>1, <1>4, <1>9, <1>11, LinkBecomesFacts DEF TypesD

\* A step that leaves the callers, their connections and the modules alone.
LEMMA UnseenKeeps ==
    ASSUME TypesD, CallInv, UNCHANGED <<act, link, orphan, dseen, loaded>>
    PROVE  TypesD' /\ CallInv'
<1>1. TypesD'
  BY DEF TypesD
<1>2. \A y \in Actors : ActorOK(y, act[y], link, dseen, loaded)' <=>
                        ActorOK(y, act[y], link, dseen, loaded)
  BY DEF ActorOK, Waits, Allowed, OkIn
<1>3. CallInv'
  BY <1>2 DEF CallInv, IdsOK
<1>. QED  BY <1>1, <1>3

-----------------------------------------------------------------------------
(* The tasks and run                                                       *)

\* A task that makes no call moves on.
LEMMA TaskMoves ==
    ASSUME TypesD, CallInv, NEW x \in Actors, NEW label \in Labels \ Calling,
           act' = [act EXCEPT ![x].pc = label], label \in Replied => act[x].pc \in Replied,
           UNCHANGED <<link, orphan, dseen, loaded>>
    PROVE  TypesD' /\ CallInv'
<1>1. PICK a \in Acts : /\ ActBecomes(x, a) /\ a.pc = label /\ a.k = act[x].k
                        /\ a.res = act[x].res /\ a.ev = act[x].ev
  <2>1. label \in Labels
    OBVIOUS
  <2>. QED  BY <2>1, Relabelled, Zenon
<1>2. ActorOK(x, act[x], link, dseen, loaded)
  BY DEF CallInv
<1>3. ActorOK(x, a, link, dseen, loaded)
  BY <1>1, <1>2 DEF ActorOK, Holding, Calling
<1>4. CallInv'
  BY <1>1, <1>3, CallerMovesAlone
<1>. QED  BY <1>1, <1>4, ActBecomesFacts DEF TypesD

\* An actor that is to make its calls, or none.
LEMMA FreshOK ==
    ASSUME NEW x, NEW a, NEW lk, NEW sn, NEW ld,
           \/ a.pc = PcAt(1) /\ a.k = 1
           \/ a.pc \notin Calling \union Replied /\ (x = "run" \/ a.res # "ticket")
           \/ a.pc \notin Calling /\ a.res # "ticket"
    PROVE  ActorOK(x, a, lk, sn, ld)
<1>1. Len(Steps) \in Nat
  BY StepsFacts
<1>2. CASE a.pc = PcAt(1) /\ a.k = 1
  <2>1. a.pc \notin Holding /\ a.pc # "wait"
    BY <1>2 DEF PcAt, Holding
  <2>2. a.pc \in Calling => 1 <= Len(Steps)
    BY <1>1, <1>2 DEF PcAt, Holding, Calling
  <2>3. a.pc \in Replied => 1 > Len(Steps)
    BY <1>1, <1>2 DEF PcAt, Replied
  <2>4. Allowed(x, a.k, sn, ld)
    BY <1>1, <1>2 DEF Allowed
  <2>. QED  BY <1>1, <1>2, <2>1, <2>2, <2>3, <2>4 DEF ActorOK
<1>3. CASE a.pc \notin Calling \union Replied /\ (x = "run" \/ a.res # "ticket")
  BY <1>3 DEF ActorOK, Holding, Calling
<1>4. CASE a.pc \notin Calling /\ a.res # "ticket"
  BY <1>4 DEF ActorOK, Holding, Calling
<1>. QED  BY <1>2, <1>3, <1>4

LEMMA FreshKeeps ==
    ASSUME TypesD, CallInv, NEW x \in Actors, NEW a \in Acts, act' = [act EXCEPT ![x] = a],
           \/ a.pc = PcAt(1) /\ a.k = 1
           \/ a.pc \notin Calling \union Replied /\ (x = "run" \/ a.res # "ticket")
           \/ a.pc \notin Calling /\ a.res # "ticket",
           UNCHANGED <<link, orphan, dseen, loaded>>
    PROVE  TypesD' /\ CallInv'
<1>1. ActBecomes(x, a)
  BY DEF ActBecomes
<1>2. ActorOK(x, a, link, dseen, loaded)
  BY FreshOK
<1>3. CallInv'
  BY <1>1, <1>2, CallerMovesAlone
<1>. QED  BY <1>1, <1>3, ActBecomesFacts DEF TypesD

\* Where run is, and what the tasks and run's own calls can then be doing.
Phases ==
    /\ dpc \in {"open", "load"} => act["run"].pc = "idle"
    /\ dpc \in {"open", "load", "start"} =>
         udp = "off" /\ tcp = "off" /\ \A r \in Reqs : act[r].pc = "idle" /\ act[r].res = "none"
    /\ dpc \in {"serve", "drain"} => act["run"].pc = "idle"

LEMMA ReqFacts ==
    /\ \A r \in Reqs : r \in Actors /\ r # "run"
    /\ \A r \in UdpReqs : r \in Reqs /\ r \notin TcpReqs /\ r \notin {"off", "recv", "ended"}
    /\ \A r \in TcpReqs : r \in Reqs
    /\ Actors = Reqs \union {"run"}
BY DEF Actors, Reqs

LEMMA BegunType ==
    /\ dcfg \in DConfigs => \A kind \in dcfg.kinds :
         Begun(kind) \in Acts /\ Begun(kind).pc = PcAt(1) /\ Begun(kind).k = 1
    /\ \A what \in {"kdc_start", "kdc_stop"} :
         Notify(what) \in Acts /\ Notify(what).pc = PcAt(1) /\ Notify(what).k = 1
<1>1. PcAt(1) \in Labels
  BY DEF PcAt, Labels, Calling, Replied
<1>2. NoAct \in Acts
  BY NoLinkType
<1>3. ASSUME dcfg \in DConfigs, NEW kind \in dcfg.kinds
      PROVE  Begun(kind) \in Acts /\ Begun(kind).pc = PcAt(1) /\ Begun(kind).k = 1
  <2>1. kind.res \in {"ticket", "refused"} /\ kind.ev \in RequestEvents
    BY <1>3, ConfigsAssumption
  <2>2. kind.ev \in SUBSET AuditCalls /\ kind.res \in Results
    BY <2>1 DEF RequestEvents, AuditCalls, Results
  <2>. QED  BY <1>1, <1>2, <2>2 DEF Begun, Acts
<1>4. ASSUME NEW what \in {"kdc_start", "kdc_stop"}
      PROVE  Notify(what) \in Acts /\ Notify(what).pc = PcAt(1) /\ Notify(what).k = 1
  <2>1. {what} \in SUBSET AuditCalls
    BY DEF AuditCalls
  <2>. QED  BY <1>1, <1>2, <2>1 DEF Notify, Acts
<1>. QED  BY <1>3, <1>4

\* The tasks' steps
LEMMA UdpKeeps ==
    ASSUME TypesD, CallInv, dcfg \in DConfigs, NEW r \in UdpReqs, RecvUdp(r) \/ ReplyUdp(r)
    PROVE  TypesD' /\ CallInv'
<1>1. r \in Actors /\ UNCHANGED <<link, orphan, dseen, loaded>>
  BY ReqFacts DEF RecvUdp, ReplyUdp, rpcVars, mainVars
<1>2. CASE RecvUdp(r)
  <2>1. PICK kind \in dcfg.kinds : act' = [act EXCEPT ![r] = Begun(kind)]
    BY <1>2 DEF RecvUdp
  <2>. QED  BY <1>1, <2>1, BegunType, FreshKeeps
<1>3. CASE ReplyUdp(r)
  <2>1. PICK p \in {"sent", "toobig"} : act' = [act EXCEPT ![r].pc = p]
    BY <1>3 DEF ReplyUdp
  <2>2. p \in Labels \ Calling /\ act[r].pc \in Replied
    BY <1>3 DEF ReplyUdp, Labels, Calling, Holding, Replied
  <2>. QED  BY <1>1, <2>1, <2>2, TaskMoves
<1>. QED  BY <1>2, <1>3

LEMMA TcpKeeps ==
    ASSUME TypesD, CallInv, dcfg \in DConfigs, NEW r \in TcpReqs, Accept(r) \/ ReadRequest(r) \/ TaskStep(r)
    PROVE  TypesD' /\ CallInv'
<1>1. r \in Actors /\ UNCHANGED <<link, orphan, dseen, loaded>>
  BY ReqFacts DEF Accept, ReadRequest, TaskStep, ReplyTcp, Abort, Unlist, Leave, rpcVars, mainVars
<1>2. \A p \in {"read", "leave", "gone", "unlist", "unlisted", "sent"} : p \in Labels \ Calling
  BY DEF Labels, Calling, Holding, Replied
<1>3. \A p \in {"read", "leave", "gone"} : p \notin Replied
  BY DEF Replied
<1>4. CASE Accept(r)
  <2>1. act' = [act EXCEPT ![r].pc = "read"]
    BY <1>4 DEF Accept
  <2>. QED  BY <1>1, <1>2, <1>3, <2>1, TaskMoves
<1>5. CASE ReadRequest(r)
  <2>1. CASE \E kind \in dcfg.kinds : act' = [act EXCEPT ![r] = Begun(kind)]
    BY <1>1, <2>1, BegunType, FreshKeeps
  <2>2. CASE act' = [act EXCEPT ![r].pc = "reply", ![r].res = "toolong"]
    <3>. DEFINE a == [act[r] EXCEPT !.pc = "reply", !.res = "toolong"]
    <3>1. act[r] \in Acts
      BY <1>1 DEF TypesD
    <3>2. a \in Acts
      BY <3>1 DEF Acts, Labels, Replied, Results
    <3>3. a.pc = "reply" /\ a.res = "toolong"
      BY <3>1 DEF Acts
    <3>4. act' = [act EXCEPT ![r] = a]
      BY <1>1, <2>2, <3>1 DEF TypesD, Acts
    <3>. HIDE DEF a
    <3>5. a.pc \notin Calling /\ a.res # "ticket"
      BY <3>3 DEF Calling, Holding
    <3>. QED  BY <1>1, <3>2, <3>4, <3>5, FreshKeeps
  <2>3. CASE act' = [act EXCEPT ![r].pc = "leave"]
    BY <1>1, <1>2, <1>3, <2>3, TaskMoves
  <2>. QED  BY <1>5, <2>1, <2>2, <2>3 DEF ReadRequest
<1>6. CASE ReplyTcp(r)
  <2>1. act' = [act EXCEPT ![r].pc = "unlist"] /\ act[r].pc \in Replied
    BY <1>6 DEF ReplyTcp, Replied
  <2>. QED  BY <1>1, <1>2, <2>1, TaskMoves
<1>7. CASE Abort(r)
  <2>1. act' = [act EXCEPT ![r].pc = "leave"]
    BY <1>7 DEF Abort
  <2>. QED  BY <1>1, <1>2, <1>3, <2>1, TaskMoves
<1>8. CASE Unlist(r)
  <2>1. act' = [act EXCEPT ![r].pc = "unlisted"] /\ act[r].pc \in Replied
    BY <1>8 DEF Unlist, Replied
  <2>. QED  BY <1>1, <1>2, <2>1, TaskMoves
<1>9. CASE Leave(r)
  <2>1. CASE act[r].pc = "unlisted"
    <3>1. act' = [act EXCEPT ![r].pc = "sent"] /\ act[r].pc \in Replied
      BY <1>9, <2>1 DEF Leave, Replied
    <3>. QED  BY <1>1, <1>2, <3>1, TaskMoves
  <2>2. CASE act[r].pc # "unlisted"
    <3>1. act' = [act EXCEPT ![r].pc = "gone"]
      BY <1>9, <2>2 DEF Leave
    <3>. QED  BY <1>1, <1>2, <1>3, <3>1, TaskMoves
  <2>. QED  BY <2>1, <2>2
<1>. QED  BY <1>4, <1>5, <1>6, <1>7, <1>8, <1>9 DEF TaskStep

\* While run loads its modules nobody has made a call.
LEMMA LoadKeeps ==
    ASSUME TypesD, CallInv, Phases, LoadModule
    PROVE  TypesD' /\ CallInv'
<1>. DEFINE n == act["run"].k
            m == Mods[n + 1]
            l == [NoLink EXCEPT !.up = TRUE, !.n = 1]
<1>1. /\ dpc = "load" /\ act' = [act EXCEPT !["run"].k = @ + 1] /\ UNCHANGED <<orphan, dseen>>
      /\ n < Len(Mods) /\ "run" \in Actors /\ act["run"] \in Acts
  BY ModsFacts DEF LoadModule, TypesD
<1>2. n \in Nat /\ m \in ModSet
  <2>1. n \in Nat
    BY <1>1 DEF Acts
  <2>2. n + 1 \in 1 .. Len(Mods)
    <3>1. Len(Mods) \in Nat
      BY ModsFacts
    <3>. QED  BY <1>1, <2>1, <3>1
  <2>. QED  BY <2>1, <2>2, ModsFacts
<1>3. l \in Links /\ l.q = << >> /\ l.a = << >>
  BY NoLinkType DEF Links
<1>. DEFINE a == [act["run"] EXCEPT !.k = n + 1]
<1>4. a \in Acts /\ a.pc = "idle"
  BY <1>1, <1>2 DEF Acts, Phases
<1>5. act' = [act EXCEPT !["run"] = a]
  BY <1>1 DEF TypesD
<1>. HIDE DEF a, l, m
<1>6. ActBecomes("run", a)
  BY <1>4, <1>5 DEF ActBecomes
<1>7. \A y \in Actors : act'[y].pc = "idle" /\ (y = "run" \/ act'[y].res # "ticket")
  <2>1. \A y \in Actors \ {"run"} : act[y].pc = "idle" /\ act[y].res = "none"
    BY <1>1, ReqFacts DEF Phases
  <2>. QED  BY <1>1, <1>4, <1>6, <2>1, ActBecomesFacts, ZenonT(40)
<1>8. \/ link' = link /\ loaded' = loaded
      \/ link' = [link EXCEPT ![m] = l] /\ loaded' = loaded \union {m}
  BY DEF LoadModule, m, l
<1>9. link' \in [ModSet -> Links] /\ loaded' \subseteq ModSet /\ \A o \in ModSet : IdsOK(link'[o])
  <2>1. IdsOK(l)
    BY <1>3 DEF IdsOK
  <2>2. CASE link' = [link EXCEPT ![m] = l] /\ loaded' = loaded \union {m}
    BY <1>2, <1>3, <2>1, <2>2 DEF TypesD, CallInv
  <2>. QED  BY <1>8, <2>2 DEF TypesD, CallInv
<1>10. ASSUME NEW y \in Actors PROVE ActorOK(y, act'[y], link', dseen', loaded')
  <2>1. act'[y].pc \notin Calling \union Replied
    BY <1>7 DEF Calling, Holding, Replied
  <2>2. PICK b, lk, sn, ld : b = act'[y] /\ lk = link' /\ sn = dseen' /\ ld = loaded'
    OBVIOUS
  <2>3. ActorOK(y, b, lk, sn, ld)
    BY <1>7, <2>1, <2>2, FreshOK
  <2>. QED  BY <2>2, <2>3
<1>11. \A y \in Actors : ActorOK(y, act[y], link, dseen, loaded)' <=>
                         ActorOK(y, act'[y], link', dseen', loaded')
  BY DEF ActorOK, Waits, Allowed, OkIn
<1>12. CallInv'
  BY <1>9, <1>10, <1>11 DEF CallInv, IdsOK
<1>. QED  BY <1>1, <1>6, <1>9, <1>12, ActBecomesFacts DEF TypesD

LEMMA ExitKeeps ==
    ASSUME TypesD, CallInv, Exit
    PROVE  TypesD' /\ CallInv'
<1>1. /\ link' = [m \in ModSet |-> NoLink] /\ \A m \in ModSet : link[m].by = "none"
      /\ UNCHANGED <<act, orphan, dseen, loaded>>
  BY DEF Exit
<1>2. link' \in [ModSet -> Links] /\ \A o \in ModSet : IdsOK(link'[o])
  BY <1>1, NoLinkType DEF IdsOK
<1>3. ASSUME NEW y \in Actors PROVE ActorOK(y, act[y], link', dseen, loaded)
  <2>1. ActorOK(y, act[y], link, dseen, loaded)
    BY DEF CallInv
  <2>2. act[y].pc \notin Holding
    BY <1>1, <2>1, StepsFacts DEF ActorOK, Calling
  <2>. QED  BY <2>1, <2>2, CallerKeeps
<1>4. \A y \in Actors : ActorOK(y, act[y], link, dseen, loaded)' <=>
                        ActorOK(y, act[y], link', dseen, loaded)
  BY <1>1 DEF ActorOK, Waits, Allowed, OkIn
<1>5. CallInv'
  BY <1>2, <1>3, <1>4 DEF CallInv, IdsOK
<1>. QED  BY <1>1, <1>2, <1>5 DEF TypesD

-----------------------------------------------------------------------------
(* The wait for open connections                                           *)

Quiet == {"idle", "sent", "toobig", "gone"}
OpenConns == {r \in TcpReqs : act[r].pc \notin Quiet}

\* The count is that of the open connections, and the tasks that have ended
\* have left none.
WaitInv ==
    /\ count \in [n : Nat, woken : BOOLEAN] /\ count.n = Cardinality(OpenConns)
    /\ \A r \in UdpReqs : act[r].pc \in Quiet \/ udp = r
    /\ tcp = "ended" => count.n = 0
    /\ tcp = "await" /\ count.n = 0 => count.woken
    /\ dpc = "stop" /\ ~late => udp = "ended" /\ tcp = "ended"

DInv == TypesD /\ CallInv /\ Phases /\ WaitInv /\ dcfg \in DConfigs

\* A connection that opens or ends changes the count by one.
LEMMA OpenFacts ==
    ASSUME NEW S, NEW T, IsFiniteSet(S), NEW r
    PROVE  /\ Cardinality(S) \in Nat /\ (Cardinality(S) = 0 => S = {})
           /\ r \notin S /\ T = S \union {r} => Cardinality(T) = Cardinality(S) + 1
           /\ r \in S /\ T = S \ {r} => Cardinality(T) = Cardinality(S) - 1
<1>1. Cardinality(S) \in Nat /\ (Cardinality(S) = 0 <=> S = {})
  BY FS_CardinalityType, FS_EmptySet
<1>2. r \notin S /\ T = S \union {r} => Cardinality(T) = Cardinality(S) + 1
  BY FS_AddElement
<1>3. r \in S /\ T = S \ {r} => Cardinality(T) = Cardinality(S) - 1
  BY FS_RemoveElement
<1>. QED  BY <1>1, <1>2, <1>3

LEMMA OpenFinite == IsFiniteSet(OpenConns)
BY FS_Subset DEF OpenConns

\* A step that opens and ends no request.
LEMMA QuietKeeps ==
    ASSUME WaitInv, UNCHANGED <<count, udp, tcp, late>>, dpc' = "stop" => dpc = "stop",
           \A r \in Reqs : act'[r].pc \in Quiet <=> act[r].pc \in Quiet
    PROVE  WaitInv'
<1>1. OpenConns' = OpenConns
  BY ReqFacts DEF OpenConns
<1>2. \A r \in UdpReqs : act'[r].pc \in Quiet \/ udp' = r
  BY ReqFacts DEF WaitInv
<1>. QED  BY <1>1, <1>2 DEF WaitInv

\* A caller is at work before and after a call's step.
LEMMA CallsOpen ==
    ASSUME TypesD, NEW x \in Actors, CallStep(x)
    PROVE  /\ act[x].pc \in Calling /\ act[x].pc \notin Quiet /\ act'[x].pc \notin Quiet
           /\ \A y \in Actors \ {x} : act'[y] = act[y]
           /\ UNCHANGED <<dpc, late, udp, tcp, count>>
<1>1. act[x] \in Acts
  BY DEF TypesD
<1>2. act[x].pc \in Calling /\ UNCHANGED <<dpc, late, udp, tcp, count>>
  BY DEF CallStep, SkipModule, TakeConn, ConnectModule, SendCall, ReadAnswer, CallTimeout, Calling,
         Holding, mainVars, netVars
<1>3. act[x].pc \notin Quiet
  BY <1>2 DEF Calling, Holding, Quiet
<1>4. \/ \E res, k : act' = Advanced(x, res, k)
      \/ \E label \in {"send", "connect", "init", "wait"} : act' = [act EXCEPT ![x].pc = label]
  BY DEF CallStep, SkipModule, TakeConn, ConnectModule, SendCall, ReadAnswer, CallTimeout,
         CallFails, AfterFailure
<1>5. CASE \E label \in {"send", "connect", "init", "wait"} : act' = [act EXCEPT ![x].pc = label]
  <2>1. PICK label \in {"send", "connect", "init", "wait"} : act' = [act EXCEPT ![x].pc = label]
    BY <1>5
  <2>2. act'[x].pc = label /\ \A y \in Actors \ {x} : act'[y] = act[y]
    BY <1>1, <2>1 DEF TypesD, Acts
  <2>3. label \notin Quiet
    BY DEF Quiet
  <2>. QED  BY <1>2, <1>3, <2>2, <2>3
<1>6. CASE \E res, k : act' = Advanced(x, res, k)
  <2>1. PICK res, k : act' = Advanced(x, res, k)
    BY <1>6
  <2>. DEFINE p == PcAt(k)
  <2>2. act'[x].pc = p /\ \A y \in Actors \ {x} : act'[y] = act[y]
    <3>1. act' = [act EXCEPT ![x].k = k, ![x].res = res, ![x].pc = p]
      BY <2>1 DEF Advanced
    <3>. HIDE DEF p
    <3>. QED  BY <1>1, <3>1 DEF TypesD, Acts
  <2>3. p \notin Quiet
    BY DEF Quiet, PcAt
  <2>. QED  BY <1>2, <1>3, <2>2, <2>3
<1>. QED  BY <1>4, <1>5, <1>6

LEMMA CallWaits ==
    ASSUME TypesD, Phases, WaitInv, NEW x \in Actors, CallStep(x)
    PROVE  Phases' /\ WaitInv'
<1>1. /\ act[x].pc \in Calling /\ act[x].pc \notin Quiet /\ act'[x].pc \notin Quiet
      /\ \A y \in Actors \ {x} : act'[y] = act[y]
      /\ UNCHANGED <<dpc, late, udp, tcp, count>>
  BY CallsOpen
<1>2. act[x].pc # "idle"
  BY <1>1 DEF Quiet
<1>3. Phases'
  BY <1>1, <1>2, ReqFacts DEF Phases
<1>4. WaitInv'
  <2>1. \A r \in Reqs : act'[r].pc \in Quiet <=> act[r].pc \in Quiet
    BY <1>1, ReqFacts
  <2>. QED  BY <1>1, <2>1, QuietKeeps
<1>. QED  BY <1>3, <1>4

\* The modules' steps
LEMMA ModuleWaits ==
    ASSUME Phases, WaitInv, UNCHANGED <<dpc, late, act, udp, tcp, count>>
    PROVE  Phases' /\ WaitInv'
<1>1. Phases'
  BY DEF Phases
<1>2. WaitInv'
  BY QuietKeeps
<1>. QED  BY <1>1, <1>2

LEMMA UdpWaits ==
    ASSUME TypesD, Phases, WaitInv, NEW r \in UdpReqs, RecvUdp(r) \/ ReplyUdp(r)
    PROVE  Phases' /\ WaitInv'
<1>1. /\ r \in Actors /\ r \in Reqs /\ r # "run" /\ r \notin TcpReqs /\ act[r] \in Acts
      /\ r \notin {"off", "recv", "ended"} /\ UNCHANGED <<dpc, late, tcp, count>>
  BY ReqFacts DEF RecvUdp, ReplyUdp, mainVars, TypesD
<1>2. \A y \in Actors \ {r} : act'[y] = act[y]
  BY <1>1 DEF RecvUdp, ReplyUdp, TypesD
<1>3. udp # "off" /\ udp # "ended"
  BY <1>1 DEF RecvUdp, ReplyUdp
<1>4. Phases'
  BY <1>1, <1>2, <1>3, ReqFacts DEF Phases
<1>5. OpenConns' = OpenConns
  BY <1>1, <1>2, ReqFacts DEF OpenConns
<1>6. \A q \in UdpReqs : act'[q].pc \in Quiet \/ udp' = q
  <2>1. CASE RecvUdp(r)
    <3>1. \A q \in UdpReqs \ {r} : act[q].pc \in Quiet
      BY <2>1, ReqFacts DEF RecvUdp, WaitInv
    <3>. QED  BY <1>2, <2>1, <3>1, ReqFacts DEF RecvUdp
  <2>2. CASE ReplyUdp(r)
    <3>1. act'[r].pc \in {"sent", "toobig"}
      BY <1>1, <2>2 DEF ReplyUdp, TypesD, Acts
    <3>2. \A q \in UdpReqs \ {r} : act[q].pc \in Quiet
      BY <2>2 DEF ReplyUdp, WaitInv
    <3>. QED  BY <1>2, <3>1, <3>2, ReqFacts DEF Quiet
  <2>. QED  BY <2>1, <2>2
<1>7. WaitInv'
  BY <1>1, <1>3, <1>5, <1>6 DEF WaitInv
<1>. QED  BY <1>4, <1>7

LEMMA AcceptWaits ==
    ASSUME TypesD, Phases, WaitInv, NEW r \in TcpReqs, Accept(r)
    PROVE  Phases' /\ WaitInv'
<1>1. /\ r \in Actors /\ r \in Reqs /\ r # "run" /\ r \notin UdpReqs /\ act[r] \in Acts
      /\ UNCHANGED <<dpc, late, udp, tcp>> /\ tcp = "accept" /\ act[r].pc = "idle"
      /\ count' = [count EXCEPT !.n = @ + 1]
  BY ReqFacts DEF Accept, mainVars, TypesD
<1>2. act'[r].pc = "read" /\ \A y \in Actors \ {r} : act'[y] = act[y]
  BY <1>1 DEF Accept, TypesD, Acts
<1>3. Phases'
  BY <1>1, <1>2, ReqFacts DEF Phases
<1>4. r \notin OpenConns /\ OpenConns' = OpenConns \union {r}
  BY <1>1, <1>2, ReqFacts DEF OpenConns, Quiet
<1>5. count'.n = Cardinality(OpenConns') /\ count' \in [n : Nat, woken : BOOLEAN]
  BY <1>1, <1>4, OpenFinite, OpenFacts DEF WaitInv
<1>6. \A q \in UdpReqs : act'[q].pc \in Quiet \/ udp' = q
  BY <1>1, <1>2, ReqFacts DEF WaitInv
<1>7. WaitInv'
  BY <1>1, <1>5, <1>6 DEF WaitInv
<1>. QED  BY <1>3, <1>7

\* A request that is read, answered, aborted or taken off the registry is
\* still open.
LEMMA OpenMoves ==
    ASSUME TypesD, Phases, WaitInv, dcfg \in DConfigs, NEW r \in TcpReqs,
           ReadRequest(r) \/ ReplyTcp(r) \/ Abort(r) \/ Unlist(r)
    PROVE  Phases' /\ WaitInv'
<1>1. /\ r \in Actors /\ r \in Reqs /\ r # "run" /\ act[r] \in Acts
      /\ UNCHANGED <<dpc, late, udp, tcp, count>>
      /\ act[r].pc \in {"read", "reply", "call", "unlist"}
  BY ReqFacts DEF ReadRequest, ReplyTcp, Abort, Unlist, mainVars, netVars, TypesD
<1>2. /\ act'[r].pc \in {"call", "reply", "leave", "unlist", "unlisted"}
      /\ \A y \in Actors \ {r} : act'[y] = act[y]
  <2>1. CASE \E kind \in dcfg.kinds : act' = [act EXCEPT ![r] = Begun(kind)]
    BY <1>1, <2>1, BegunType DEF TypesD, PcAt
  <2>2. CASE act' = [act EXCEPT ![r].pc = "reply", ![r].res = "toolong"]
    BY <1>1, <2>2 DEF TypesD, Acts
  <2>3. CASE \E p \in {"leave", "unlist", "unlisted"} : act' = [act EXCEPT ![r].pc = p]
    BY <1>1, <2>3 DEF TypesD, Acts
  <2>. QED  BY <2>1, <2>2, <2>3 DEF ReadRequest, ReplyTcp, Abort, Unlist
<1>3. act[r].pc \notin Quiet /\ act'[r].pc \notin Quiet /\ act[r].pc # "idle"
  BY <1>1, <1>2 DEF Quiet
<1>4. Phases'
  BY <1>1, <1>2, <1>3, ReqFacts DEF Phases
<1>5. \A q \in Reqs : act'[q].pc \in Quiet <=> act[q].pc \in Quiet
  BY <1>2, <1>3, ReqFacts
<1>6. WaitInv'
  BY <1>1, <1>5, QuietKeeps
<1>. QED  BY <1>4, <1>6

\* The last one wakes the waiter.
LEMMA LeaveWaits ==
    ASSUME TypesD, Phases, WaitInv, NEW r \in TcpReqs, Leave(r)
    PROVE  Phases' /\ WaitInv'
<1>1. /\ r \in Actors /\ r \in Reqs /\ r # "run" /\ r \notin UdpReqs /\ act[r] \in Acts
      /\ UNCHANGED <<dpc, late, udp, tcp>> /\ act[r].pc \in {"unlisted", "leave"}
      /\ count' = [n |-> count.n - 1,
                   woken |-> count.woken \/ (count.n = 1 /\ tcp \in {"load", "await"})]
  BY ReqFacts DEF Leave, mainVars, TypesD
<1>2. act'[r].pc \in {"sent", "gone"} /\ \A y \in Actors \ {r} : act'[y] = act[y]
  BY <1>1 DEF Leave, TypesD, Acts
<1>3. Phases'
  BY <1>1, <1>2, ReqFacts DEF Phases
<1>4. r \in OpenConns /\ OpenConns' = OpenConns \ {r}
  BY <1>1, <1>2, ReqFacts DEF OpenConns, Quiet
<1>5. count.n \in Nat \ {0} /\ count.n - 1 = Cardinality(OpenConns') /\ count.woken \in BOOLEAN
  BY <1>4, OpenFinite, OpenFacts DEF WaitInv
<1>6. count'.n = count.n - 1 /\ count' \in [n : Nat, woken : BOOLEAN]
      /\ (count.woken \/ (count.n = 1 /\ tcp \in {"load", "await"}) => count'.woken)
  <2>1. PICK w \in BOOLEAN : w <=> (count.woken \/ (count.n = 1 /\ tcp \in {"load", "await"}))
    OBVIOUS
  <2>2. (count.woken \/ (count.n = 1 /\ tcp \in {"load", "await"})) = w
    BY <1>5, <2>1
  <2>3. count' = [n |-> count.n - 1, woken |-> w]
    BY <1>1, <2>2
  <2>4. count.n - 1 \in Nat
    BY <1>5
  <2>. QED  BY <2>1, <2>3, <2>4
<1>7. \A q \in UdpReqs : act'[q].pc \in Quiet \/ udp' = q
  BY <1>1, <1>2, ReqFacts DEF WaitInv
<1>8. WaitInv'
  BY <1>1, <1>5, <1>6, <1>7 DEF WaitInv
<1>. QED  BY <1>3, <1>8

\* The waiter looks only once it can be woken.
LEMMA WaiterWaits ==
    ASSUME Phases, WaitInv, WaitStep \/ StopUdp
    PROVE  Phases' /\ WaitInv'
<1>1. UNCHANGED <<dpc, late, act>>
  BY DEF WaitStep, StopAccept, LoadCount, Woken, StopUdp, mainVars
<1>2. OpenConns' = OpenConns
  BY <1>1 DEF OpenConns
<1>3. CASE StopUdp
  <2>1. UNCHANGED <<tcp, count>> /\ udp = "recv" /\ udp' = "ended"
    BY <1>3 DEF StopUdp
  <2>2. \A q \in UdpReqs : act[q].pc \in Quiet
    BY <2>1, ReqFacts DEF WaitInv
  <2>. QED  BY <1>1, <1>2, <2>1, <2>2 DEF WaitInv, Phases
<1>4. CASE StopAccept \/ Woken
  <2>1. /\ UNCHANGED udp /\ tcp \in {"accept", "await"} /\ tcp' = "load"
        /\ count' = [count EXCEPT !.woken = FALSE]
    BY <1>4 DEF StopAccept, Woken
  <2>2. count' \in [n : Nat, woken : BOOLEAN] /\ count'.n = count.n
    BY <2>1 DEF WaitInv
  <2>. QED  BY <1>1, <1>2, <2>1, <2>2 DEF WaitInv, Phases
<1>5. CASE LoadCount
  <2>1. /\ UNCHANGED <<udp, count>> /\ tcp = "load"
        /\ tcp' = IF count.n = 0 THEN "ended" ELSE "await"
    BY <1>5 DEF LoadCount
  <2>. QED  BY <1>1, <1>2, <2>1 DEF WaitInv, Phases
<1>. QED  BY <1>3, <1>4, <1>5 DEF WaitStep

\* run's steps, and what ends it
LEMMA RunWaits ==
    ASSUME TypesD, Phases, WaitInv, dcfg \in DConfigs,
           RunStep \/ Signal \/ ListenerFails \/ DrainTimeout
    PROVE  Phases' /\ WaitInv'
<1>. USE ReqFacts
<1>1. \A r \in Reqs : act'[r] = act[r]
  BY DEF RunStep, OpenStore, LoadModule, Loaded, DBind, Drained, Exit, Signal, ListenerFails,
         DrainTimeout, Stopping, TypesD
<1>2. UNCHANGED count
  BY DEF RunStep, OpenStore, LoadModule, Loaded, DBind, Drained, Exit, Signal, ListenerFails,
         DrainTimeout, Stopping, netVars
<1>3. OpenConns' = OpenConns
  BY <1>1 DEF OpenConns
<1>4. act["run"] \in Acts
  BY DEF TypesD
<1>5. CASE OpenStore
  <2>1. /\ dpc = "open" /\ UNCHANGED <<late, act, udp, tcp>>
        /\ dpc' \in {"load", "open", "failed"}
    BY <1>5, ConfigsAssumption DEF OpenStore, netVars, OpenFails, Waiting, KeytabMode, TursoMode, FileMode, KlmdbMode,
                KldapMode, CockroachMode
  <2>. QED  BY <1>1, <1>2, <1>3, <2>1 DEF Phases, WaitInv
<1>6. CASE LoadModule
  <2>1. dpc = "load" /\ UNCHANGED <<late, udp, tcp>> /\ dpc' \in {"load", "failed"}
    BY <1>6 DEF LoadModule, netVars
  <2>2. act'["run"].pc = act["run"].pc
    BY <1>4, <1>6 DEF LoadModule, TypesD, Acts
  <2>. QED  BY <1>1, <1>2, <1>3, <2>1, <2>2 DEF Phases, WaitInv
<1>7. CASE Loaded
  <2>1. dpc = "load" /\ UNCHANGED <<late, udp, tcp>> /\ dpc' = "start"
    BY <1>7 DEF Loaded, netVars
  <2>. QED  BY <1>1, <1>2, <1>3, <2>1 DEF Phases, WaitInv
<1>8. CASE DBind
  <2>1. /\ dpc = "start" /\ UNCHANGED late /\ act'["run"] = NoAct
        /\ \/ dpc' = "serve" /\ udp' = "recv" /\ tcp' = "accept"
           \/ dpc' = "failed" /\ UNCHANGED <<udp, tcp>>
    BY <1>8 DEF DBind, TypesD, Actors
  <2>2. \A r \in UdpReqs : act'[r].pc \in Quiet
    BY <1>1, <2>1 DEF Phases, Quiet
  <2>. QED  BY <1>1, <1>2, <1>3, <2>1, <2>2, NoLinkType DEF Phases, WaitInv
<1>9. CASE Drained \/ DrainTimeout
  <2>1. /\ dpc = "drain" /\ UNCHANGED <<udp, tcp>> /\ dpc' = "stop"
        /\ ~late' => udp = "ended" /\ tcp = "ended"
    BY <1>9 DEF Drained, DrainTimeout, Stopping, netVars
  <2>. QED  BY <1>1, <1>2, <1>3, <2>1 DEF Phases, WaitInv
<1>10. CASE Exit
  <2>1. UNCHANGED <<late, act, udp, tcp>> /\ dpc' = "done"
    BY <1>10 DEF Exit, netVars
  <2>. QED  BY <1>1, <1>2, <1>3, <2>1 DEF Phases, WaitInv
<1>11. CASE Signal
  <2>1. /\ UNCHANGED <<late, act, udp, tcp>>
        /\ \/ dpc = "serve" /\ dpc' = "drain"
           \/ dpc' \in {"killed", "done"}
           \/ dpc' = dpc
    BY <1>11 DEF Signal, netVars
  <2>. QED  BY <1>1, <1>2, <1>3, <2>1 DEF Phases, WaitInv
<1>12. CASE ListenerFails
  <2>1. UNCHANGED <<late, act, udp, tcp>> /\ dpc' = "failed"
    BY <1>12 DEF ListenerFails, netVars
  <2>. QED  BY <1>1, <1>2, <1>3, <2>1 DEF Phases, WaitInv
<1>. QED  BY <1>5, <1>6, <1>7, <1>8, <1>9, <1>10, <1>11, <1>12 DEF RunStep

LEMMA RunKeeps ==
    ASSUME TypesD, CallInv, Phases, RunStep \/ Signal \/ ListenerFails \/ DrainTimeout
    PROVE  TypesD' /\ CallInv'
<1>1. "run" \in Actors
  BY StepsFacts
<1>2. CASE OpenStore \/ Signal \/ ListenerFails
  <2>1. UNCHANGED <<act, link, orphan, dseen, loaded>>
    BY <1>2 DEF OpenStore, Signal, ListenerFails, rpcVars
  <2>. QED  BY <2>1, UnseenKeeps
<1>3. CASE LoadModule
  BY <1>3, LoadKeeps
<1>4. CASE Loaded
  <2>1. UNCHANGED <<link, orphan, dseen, loaded>> /\ act' = [act EXCEPT !["run"] = Notify("kdc_start")]
    BY <1>4 DEF Loaded, rpcVars
  <2>. QED  BY <1>1, <2>1, BegunType, FreshKeeps
<1>5. CASE DBind
  <2>1. UNCHANGED <<link, orphan, dseen, loaded>> /\ act' = [act EXCEPT !["run"] = NoAct]
    BY <1>5 DEF DBind, rpcVars
  <2>2. NoAct.pc \notin Calling \union Replied
    BY NoLinkType DEF Calling, Holding, Replied
  <2>. QED  BY <1>1, <2>1, <2>2, NoLinkType, FreshKeeps
<1>6. CASE Drained \/ DrainTimeout
  <2>1. UNCHANGED <<link, orphan, dseen, loaded>> /\ act' = [act EXCEPT !["run"] = Notify("kdc_stop")]
    BY <1>6 DEF Drained, DrainTimeout, Stopping, rpcVars
  <2>. QED  BY <1>1, <2>1, BegunType, FreshKeeps
<1>7. CASE Exit
  BY <1>7, ExitKeeps
<1>. QED  BY <1>2, <1>3, <1>4, <1>5, <1>6, <1>7 DEF RunStep

-----------------------------------------------------------------------------
(* What the modules are told                                               *)

\* What a call is about: who makes it and what it is.
Tag(e) == <<e.who, e.call>>
TagOf(p, r) == <<r, p.call>>
HeardOf(p, r) == <<r, p.mod, p.call>>

\* Calls with the tag r among those of a sequence, and what a module did for them.
In(s, r) == \E i \in DOMAIN s : Tag(s[i].msg) = r
Once(s, r) == \A i, j \in DOMAIN s : Tag(s[i].msg) = r /\ Tag(s[j].msg) = r => i = j
Sees(s, r) == \E i \in DOMAIN s : Tag(s[i]) = r
SeesOnce(s, r) == \A i, j \in DOMAIN s : Tag(s[i]) = r /\ Tag(s[j]) = r => i = j
\* They carry the result res.
Says(s, r, res) == \A i \in DOMAIN s : Tag(s[i].msg) = r => s[i].msg.res = res
Saw(s, r, res) == \A i \in DOMAIN s : Tag(s[i]) = r => s[i].res = res

\* The request has not yet made the call m.
NotAsked(a, m) ==
    \A j \in 1 .. Len(Steps) : Steps[j] = m => a.k < j \/ (a.k = j /\ a.pc # "wait")

\* The call m with the tag r is in one place: on the connection, on one that
\* was closed, or done.
Told(m, r, a, q, o, s) ==
    /\ Once(q, r) /\ Once(o, r) /\ SeesOnce(s, r)
    /\ In(q, r) => ~In(o, r) /\ ~Sees(s, r)
    /\ In(o, r) => ~Sees(s, r)
    /\ NotAsked(a, m) => ~In(q, r) /\ ~In(o, r) /\ ~Sees(s, r)
    /\ IsPolicy(m.mod) \/ (Says(q, r, a.res) /\ Says(o, r, a.res) /\ Saw(s, r, a.res))

\* The answer a request waits for is that of a module that has acted.
Answered(m, r, a, l, s) ==
    a.pc = "wait" /\ Steps[a.k] = m =>
        \A i \in DOMAIN l.a : l.a[i].id = l.n => Sees(s, r)

\* What holds of the call p of the request r, and of what was answered.
Fine(p, r, a, l, o, s) ==
    Told(p, TagOf(p, r), a, l.q, o, s) /\ Answered(p, TagOf(p, r), a, l, s)
Hears(h, s) ==
    \A p \in Pairs, r \in Reqs : HeardOf(p, r) \in h => Sees(s[p.mod], TagOf(p, r))

AuditInv ==
    /\ \A p \in Pairs, r \in Reqs : Fine(p, r, act[r], link[p.mod], orphan[p.mod], dseen[p.mod])
    /\ Hears(heard, dseen)
    /\ \A r \in Reqs : act[r].pc \in {"idle", "read"} => act[r].k = 0

-----------------------------------------------------------------------------
(* Sequences of calls                                                      *)

LEMMA TailCalls ==
    ASSUME NEW s \in Seq(Calls), s # << >>, NEW r, NEW res
    PROVE  /\ In(Tail(s), r) => In(s, r)
           /\ Once(s, r) => Once(Tail(s), r)
           /\ Once(s, r) /\ Tag(s[1].msg) = r => ~In(Tail(s), r)
           /\ Says(s, r, res) => Says(Tail(s), r, res)
           /\ Tag(s[1].msg) = r => In(s, r)
<1>. DEFINE t == Tail(s)
<1>1. /\ 1 \in DOMAIN s /\ \A i \in DOMAIN t : i + 1 \in DOMAIN s /\ t[i] = s[i + 1]
      /\ \A i \in DOMAIN t : i \in Nat /\ i # 0
  <2>1. 1 \in DOMAIN s /\ \A i \in DOMAIN t : i + 1 \in DOMAIN s /\ t[i] = s[i + 1]
    BY TailFacts
  <2>2. t \in Seq(Calls)
    BY TailFacts
  <2>. QED  BY <2>1, <2>2, LenProperties
<1>. HIDE DEF t
<1>2. In(t, r) => In(s, r)
  BY <1>1 DEF In
<1>3. Once(s, r) => Once(t, r)
  BY <1>1 DEF Once
<1>4. Once(s, r) /\ Tag(s[1].msg) = r => ~In(t, r)
  BY <1>1 DEF Once, In
<1>5. Says(s, r, res) => Says(t, r, res)
  BY <1>1 DEF Says
<1>. QED  BY <1>1, <1>2, <1>3, <1>4, <1>5 DEF t, In

LEMMA AppendCalls ==
    ASSUME NEW s \in Seq(Calls), NEW e \in Calls, NEW r, NEW res
    PROVE  /\ Tag(e.msg) # r => /\ In(Append(s, e), r) => In(s, r)
                                /\ Once(s, r) => Once(Append(s, e), r)
                                /\ Says(s, r, res) => Says(Append(s, e), r, res)
           /\ ~In(s, r) => Once(Append(s, e), r) /\ Says(Append(s, e), r, e.msg.res)
<1>. DEFINE t == Append(s, e)
<1>1. /\ Len(s) \in Nat /\ DOMAIN s = 1 .. Len(s) /\ DOMAIN t = 1 .. Len(s) + 1
      /\ t[Len(s) + 1] = e /\ \A i \in 1 .. Len(s) : t[i] = s[i]
  BY AppendProperties, LenProperties
<1>. HIDE DEF t
<1>2. ASSUME Tag(e.msg) # r
      PROVE  /\ In(t, r) => In(s, r)
             /\ Once(s, r) => Once(t, r)
             /\ Says(s, r, res) => Says(t, r, res)
  <2>1. \A i \in DOMAIN t : Tag(t[i].msg) = r => i \in DOMAIN s /\ t[i] = s[i]
    BY <1>1, <1>2
  <2>2. In(t, r) => In(s, r)
    BY <2>1 DEF In
  <2>3. Once(s, r) => Once(t, r)
    BY <2>1 DEF Once
  <2>4. Says(s, r, res) => Says(t, r, res)
    BY <2>1 DEF Says
  <2>. QED  BY <2>2, <2>3, <2>4
<1>3. ASSUME ~In(s, r) PROVE Once(t, r) /\ Says(t, r, e.msg.res)
  <2>1. \A i \in DOMAIN t : Tag(t[i].msg) = r => i = Len(s) + 1
    BY <1>1, <1>3 DEF In
  <2>. QED  BY <1>1, <2>1 DEF Once, Says
<1>. QED  BY <1>2, <1>3 DEF t

LEMMA ConcatAt ==
    ASSUME NEW s \in Seq(Calls), NEW t \in Seq(Calls)
    PROVE  /\ s \o t \in Seq(Calls) /\ Len(s \o t) = Len(s) + Len(t)
           /\ \A i \in 1 .. Len(s) + Len(t) :
                (s \o t)[i] = IF i <= Len(s) THEN s[i] ELSE t[i - Len(s)]
BY ConcatProperties, LenProperties

LEMMA ConcatCalls ==
    ASSUME NEW s \in Seq(Calls), NEW t \in Seq(Calls), NEW r, NEW res
    PROVE  /\ In(s \o t, r) => In(s, r) \/ In(t, r)
           /\ Once(s, r) /\ Once(t, r) /\ (In(t, r) => ~In(s, r)) => Once(s \o t, r)
           /\ Says(s, r, res) /\ Says(t, r, res) => Says(s \o t, r, res)
<1>. DEFINE u == s \o t
            n == Len(s)
<1>1. /\ n \in Nat /\ Len(t) \in Nat /\ DOMAIN s = 1 .. n /\ DOMAIN t = 1 .. Len(t)
      /\ DOMAIN u = 1 .. n + Len(t)
      /\ \A i \in 1 .. n + Len(t) : u[i] = IF i <= n THEN s[i] ELSE t[i - n]
  BY ConcatProperties, LenProperties
<1>2. \A i \in DOMAIN u : \/ i \in DOMAIN s /\ u[i] = s[i]
                          \/ i - n \in DOMAIN t /\ u[i] = t[i - n]
  BY <1>1
<1>3. \A i \in DOMAIN u : i \in Int
  BY <1>1
<1>. HIDE DEF u
<1>4. In(u, r) => In(s, r) \/ In(t, r)
  BY <1>2 DEF In
<1>5. ASSUME Once(s, r), Once(t, r), In(t, r) => ~In(s, r) PROVE Once(u, r)
  <2>1. SUFFICES ASSUME NEW i \in DOMAIN u, NEW j \in DOMAIN u, Tag(u[i].msg) = r, Tag(u[j].msg) = r
                 PROVE  i = j
    BY DEF Once
  <2>2. CASE In(t, r)
    <3>1. i - n \in DOMAIN t /\ u[i] = t[i - n] /\ j - n \in DOMAIN t /\ u[j] = t[j - n]
      BY <1>2, <1>5, <2>1, <2>2 DEF In
    <3>2. i - n = j - n
      BY <1>5, <2>1, <3>1 DEF Once
    <3>. QED  BY <1>1, <1>3, <3>2
  <2>3. CASE ~In(t, r)
    <3>1. i \in DOMAIN s /\ u[i] = s[i] /\ j \in DOMAIN s /\ u[j] = s[j]
      BY <1>2, <2>1, <2>3 DEF In
    <3>. QED  BY <1>5, <2>1, <3>1 DEF Once
  <2>. QED  BY <2>2, <2>3
<1>6. Says(s, r, res) /\ Says(t, r, res) => Says(u, r, res)
  BY <1>2 DEF Says
<1>. QED  BY <1>4, <1>5, <1>6 DEF u

LEMMA Shifted ==
    ASSUME NEW i \in Int, NEW n \in Int, 1 <= i, i <= n
    PROVE  /\ (i - 1) + (n - i) = n - 1 /\ n - (i + 1) + 1 = n - i
           /\ (IF i + 1 <= n THEN n - i ELSE 0) = n - i
           /\ \A j \in 1 .. n - 1 :
                /\ j < i => j \in 1 .. i - 1 /\ j \in 1 .. n /\ j <= i - 1 /\ j # i
                /\ ~(j < i) => /\ j - (i - 1) \in 1 .. n - i /\ i + (j - (i - 1)) = j + 1
                               /\ ~(j <= i - 1) /\ j + 1 \in 1 .. n /\ j + 1 # i
OBVIOUS

\* The call that is done is taken out.
Without(s, i) == SubSeq(s, 1, i - 1) \o SubSeq(s, i + 1, Len(s))

LEMMA WithoutCalls ==
    ASSUME NEW s \in Seq(Calls), NEW i \in DOMAIN s, NEW r, NEW res
    PROVE  /\ In(Without(s, i), r) => In(s, r)
           /\ Once(s, r) => Once(Without(s, i), r)
           /\ Once(s, r) /\ Tag(s[i].msg) = r => ~In(Without(s, i), r)
           /\ Says(s, r, res) => Says(Without(s, i), r, res)
<1>. DEFINE t == Without(s, i)
<1>0. t = SubSeq(s, 1, i - 1) \o SubSeq(s, i + 1, Len(s))
  BY DEF Without
<1>. HIDE DEF t
<1>. DEFINE b == SubSeq(s, 1, i - 1)
            c == SubSeq(s, i + 1, Len(s))
<1>1. PICK n \in Nat : n = Len(s) /\ DOMAIN s = 1 .. n /\ i \in 1 .. n
  BY LenProperties
<1>2. \A j \in 1 .. n : s[j] \in Calls
  BY <1>1, ElementOfSeq
<1>a. i \in Int /\ n \in Int /\ 1 <= i /\ i <= n
  BY <1>1
<1>3. /\ b \in Seq(Calls) /\ Len(b) = i - 1 /\ \A j \in 1 .. i - 1 : b[j] = s[j]
  <2>1. 1 \in Int /\ i - 1 \in Int /\ \A j \in 1 .. i - 1 : s[j] \in Calls
    BY <1>1, <1>2
  <2>2. /\ b \in Seq(Calls) /\ Len(b) = IF 1 <= i - 1 THEN (i - 1) - 1 + 1 ELSE 0
        /\ \A j \in 1 .. (i - 1) - 1 + 1 : b[j] = s[1 + j - 1]
    BY <2>1, SubSeqProperties
  <2>. HIDE DEF b
  <2>. QED  BY <1>1, <2>2
<1>4. /\ c \in Seq(Calls) /\ Len(c) = n - i /\ \A j \in 1 .. n - i : c[j] = s[i + j]
  <2>1. i + 1 \in Int /\ n \in Int /\ \A j \in i + 1 .. n : s[j] \in Calls
    BY <1>1, <1>2
  <2>2. /\ c \in Seq(Calls) /\ Len(c) = IF i + 1 <= n THEN n - (i + 1) + 1 ELSE 0
        /\ \A j \in 1 .. n - (i + 1) + 1 : c[j] = s[(i + 1) + j - 1]
    BY <1>1, <2>1, SubSeqProperties
  <2>. HIDE DEF c
  <2>3. \A j \in 1 .. n - i : (i + 1) + j - 1 = i + j
    BY <1>a
  <2>4. n - (i + 1) + 1 = n - i /\ (IF i + 1 <= n THEN n - i ELSE 0) = n - i
    BY <1>a, Shifted
  <2>5. Len(c) = n - i
    BY <2>2, <2>4
  <2>6. \A j \in 1 .. n - i : c[j] = s[i + j]
    BY <2>2, <2>3, <2>4
  <2>. QED  BY <2>2, <2>5, <2>6
<1>5. /\ DOMAIN t = 1 .. n - 1
      /\ \A j \in 1 .. n - 1 : t[j] = IF j <= i - 1 THEN b[j] ELSE c[j - (i - 1)]
  <2>1. t = b \o c
    BY <1>0
  <2>. HIDE DEF b, c
  <2>2. /\ t \in Seq(Calls) /\ Len(t) = (i - 1) + (n - i)
        /\ \A j \in 1 .. (i - 1) + (n - i) : t[j] = IF j <= i - 1 THEN b[j] ELSE c[j - (i - 1)]
    <3>1. b \in Seq(Calls) /\ c \in Seq(Calls)
      BY <1>3, <1>4
    <3>2. /\ b \o c \in Seq(Calls) /\ Len(b \o c) = Len(b) + Len(c)
          /\ \A j \in 1 .. Len(b) + Len(c) :
               (b \o c)[j] = IF j <= Len(b) THEN b[j] ELSE c[j - Len(b)]
      BY <3>1, ConcatAt
    <3>3. /\ t \in Seq(Calls) /\ Len(t) = Len(b) + Len(c)
          /\ \A j \in 1 .. Len(b) + Len(c) : t[j] = IF j <= Len(b) THEN b[j] ELSE c[j - Len(b)]
      BY <2>1, <3>2
    <3>. QED  BY <1>3, <1>4, <3>3
  <2>3. (i - 1) + (n - i) = n - 1
    BY <1>a, Shifted
  <2>4. DOMAIN t = 1 .. Len(t)
    BY <2>2, LenProperties
  <2>. QED  BY <2>2, <2>3, <2>4
<1>. HIDE DEF b, c
\* Where the j-th call that is left was.
<1>. DEFINE from(j) == IF j < i THEN j ELSE j + 1
<1>6. \A j \in DOMAIN t : from(j) \in DOMAIN s /\ t[j] = s[from(j)] /\ from(j) # i
  <2>1. SUFFICES ASSUME NEW j \in 1 .. n - 1
                 PROVE  from(j) \in DOMAIN s /\ t[j] = s[from(j)] /\ from(j) # i
    BY <1>5
  <2>3. CASE j < i
    <3>1. j \in 1 .. i - 1 /\ j \in 1 .. n /\ j <= i - 1 /\ j # i
      BY <1>a, <2>1, <2>3, Shifted
    <3>. QED  BY <1>1, <1>3, <1>5, <2>1, <2>3, <3>1
  <2>4. CASE ~(j < i)
    <3>1. /\ j - (i - 1) \in 1 .. n - i /\ i + (j - (i - 1)) = j + 1
          /\ ~(j <= i - 1) /\ j + 1 \in 1 .. n /\ j + 1 # i
      BY <1>a, <2>1, <2>4, Shifted
    <3>2. t[j] = c[j - (i - 1)]
      BY <1>5, <2>1, <3>1
    <3>3. c[j - (i - 1)] = s[j + 1]
      BY <1>4, <3>1
    <3>. QED  BY <1>1, <2>4, <3>1, <3>2, <3>3
  <2>. QED  BY <2>3, <2>4
<1>7. \A j, k \in DOMAIN t : from(j) = from(k) => j = k
  <2>1. \A j \in DOMAIN t : j \in Int
    BY <1>1, <1>5
  <2>2. i \in Int
    BY <1>1
  <2>. QED  BY <2>1, <2>2
<1>. HIDE DEF from
<1>8. In(t, r) => In(s, r)
  BY <1>6 DEF In
<1>9. ASSUME Once(s, r) PROVE Once(t, r)
  <2>1. SUFFICES ASSUME NEW j \in DOMAIN t, NEW k \in DOMAIN t, Tag(t[j].msg) = r, Tag(t[k].msg) = r
                 PROVE  j = k
    BY DEF Once
  <2>2. from(j) = from(k)
    BY <1>6, <1>9, <2>1 DEF Once
  <2>. QED  BY <1>7, <2>1, <2>2
<1>10. Once(s, r) /\ Tag(s[i].msg) = r => ~In(t, r)
  BY <1>6 DEF Once, In
<1>11. ASSUME Says(s, r, res) PROVE Says(t, r, res)
  <2>1. SUFFICES ASSUME NEW j \in DOMAIN t, Tag(t[j].msg) = r PROVE t[j].msg.res = res
    BY DEF Says
  <2>. QED  BY <1>6, <1>11, <2>1 DEF Says
<1>. QED  BY <1>8, <1>9, <1>10, <1>11 DEF t

LEMMA NoCalls ==
    ASSUME NEW r, NEW res
    PROVE  ~In(<< >>, r) /\ Once(<< >>, r) /\ Says(<< >>, r, res)
BY DEF In, Once, Says

LEMMA SeenMore ==
    ASSUME NEW s \in Seq(Seen), NEW e \in Seen, NEW r, NEW res
    PROVE  /\ Sees(s, r) => Sees(Append(s, e), r)
           /\ Tag(e) = r => Sees(Append(s, e), r)
           /\ Tag(e) # r => /\ Sees(Append(s, e), r) => Sees(s, r)
                            /\ SeesOnce(s, r) => SeesOnce(Append(s, e), r)
                            /\ Saw(s, r, res) => Saw(Append(s, e), r, res)
           /\ ~Sees(s, r) => SeesOnce(Append(s, e), r) /\ Saw(Append(s, e), r, e.res)
<1>. DEFINE t == Append(s, e)
<1>1. /\ Len(s) \in Nat /\ DOMAIN s = 1 .. Len(s) /\ DOMAIN t = 1 .. Len(s) + 1
      /\ t[Len(s) + 1] = e /\ \A i \in 1 .. Len(s) : t[i] = s[i]
  BY AppendProperties, LenProperties
<1>. HIDE DEF t
<1>2. Sees(s, r) => Sees(t, r)
  BY <1>1 DEF Sees
<1>3. Tag(e) = r => Sees(t, r)
  BY <1>1 DEF Sees
<1>4. ASSUME Tag(e) # r
      PROVE  /\ Sees(t, r) => Sees(s, r)
             /\ SeesOnce(s, r) => SeesOnce(t, r)
             /\ Saw(s, r, res) => Saw(t, r, res)
  <2>1. \A i \in DOMAIN t : Tag(t[i]) = r => i \in DOMAIN s /\ t[i] = s[i]
    BY <1>1, <1>4
  <2>2. Sees(t, r) => Sees(s, r)
    BY <2>1 DEF Sees
  <2>3. SeesOnce(s, r) => SeesOnce(t, r)
    BY <2>1 DEF SeesOnce
  <2>4. Saw(s, r, res) => Saw(t, r, res)
    BY <2>1 DEF Saw
  <2>. QED  BY <2>2, <2>3, <2>4
<1>5. ASSUME ~Sees(s, r) PROVE SeesOnce(t, r) /\ Saw(t, r, e.res)
  <2>1. \A i \in DOMAIN t : Tag(t[i]) = r => i = Len(s) + 1
    BY <1>1, <1>5 DEF Sees
  <2>. QED  BY <1>1, <2>1 DEF SeesOnce, Saw
<1>. QED  BY <1>2, <1>3, <1>4, <1>5 DEF t

\* What a module that does what msg asks then has done for r.
LEMMA DoesSeen ==
    ASSUME TypesD, NEW m \in ModSet, NEW msg \in Msgs, NEW ok \in BOOLEAN,
           dseen' = Does(m, msg, ok), NEW r, NEW res
    PROVE  /\ \A o \in ModSet \ {m} : dseen'[o] = dseen[o]
           /\ Sees(dseen[m], r) => Sees(dseen'[m], r)
           /\ Tag(msg) = r /\ msg.call # "init" => Sees(dseen'[m], r)
           /\ Tag(msg) # r => /\ Sees(dseen'[m], r) => Sees(dseen[m], r)
                              /\ SeesOnce(dseen[m], r) => SeesOnce(dseen'[m], r)
                              /\ Saw(dseen[m], r, res) => Saw(dseen'[m], r, res)
           /\ ~Sees(dseen[m], r) => SeesOnce(dseen'[m], r) /\ Saw(dseen'[m], r, msg.res)
<1>. DEFINE e == [who |-> msg.who, call |-> msg.call, res |-> msg.res, ok |-> ok]
            s == dseen[m]
<1>1. CASE msg.call = "init"
  BY <1>1 DEF Does, Sees, SeesOnce, Saw
<1>2. CASE msg.call # "init"
  <2>1. e \in Seen /\ Tag(e) = Tag(msg) /\ e.res = msg.res
    BY DEF Msgs, Seen, Tag
  <2>2. s \in Seq(Seen) /\ dseen' = [dseen EXCEPT ![m] = Append(s, e)]
    BY <1>2 DEF TypesD, Does
  <2>. HIDE DEF e
  <2>3. dseen'[m] = Append(s, e) /\ \A o \in ModSet \ {m} : dseen'[o] = dseen[o]
    BY <2>2 DEF TypesD
  <2>. HIDE DEF s
  <2>4. /\ Sees(s, r) => Sees(Append(s, e), r)
        /\ Tag(e) = r => Sees(Append(s, e), r)
        /\ Tag(e) # r => /\ Sees(Append(s, e), r) => Sees(s, r)
                         /\ SeesOnce(s, r) => SeesOnce(Append(s, e), r)
                         /\ Saw(s, r, res) => Saw(Append(s, e), r, res)
        /\ ~Sees(s, r) => SeesOnce(Append(s, e), r) /\ Saw(Append(s, e), r, e.res)
    BY <2>1, <2>2, SeenMore
  <2>. QED  BY <2>1, <2>3, <2>4 DEF s
<1>. QED  BY <1>1, <1>2

-----------------------------------------------------------------------------
(* The steps of one call                                                   *)

\* Calls of others come and go.
LEMMA ToldLess ==
    ASSUME NEW m, NEW r, NEW a, NEW q, NEW o, NEW s, NEW q2, NEW o2, NEW s2, Told(m, r, a, q, o, s),
           In(q2, r) => In(q, r), Once(q2, r), Says(q, r, a.res) => Says(q2, r, a.res),
           In(o2, r) => In(o, r), Once(o2, r), Says(o, r, a.res) => Says(o2, r, a.res),
           Sees(s2, r) => Sees(s, r), SeesOnce(s2, r), Saw(s, r, a.res) => Saw(s2, r, a.res)
    PROVE  Told(m, r, a, q2, o2, s2)
BY Zenon DEF Told

\* r's call is done.
LEMMA ToldDone ==
    ASSUME NEW m, NEW r, NEW a, NEW q, NEW o, NEW s, NEW q2, NEW o2, NEW s2, Told(m, r, a, q, o, s),
           In(q, r) \/ In(o, r), ~In(q2, r), ~In(o2, r), SeesOnce(s2, r),
           IsPolicy(m.mod) \/ Saw(s2, r, a.res)
    PROVE  Told(m, r, a, q2, o2, s2)
<1>1. Once(q2, r) /\ Once(o2, r) /\ Says(q2, r, a.res) /\ Says(o2, r, a.res)
  BY DEF In, Once, Says
<1>2. ~NotAsked(a, m)
  BY DEF Told
<1>. QED  BY <1>1, <1>2 DEF Told

\* The request goes on.
LEMMA ToldActs ==
    ASSUME NEW m, NEW r, NEW a, NEW q, NEW o, NEW s, NEW a2, Told(m, r, a, q, o, s),
           NotAsked(a2, m) => NotAsked(a, m),
           a2.res = a.res \/ IsPolicy(m.mod) \/ NotAsked(a, m)
    PROVE  Told(m, r, a2, q, o, s)
<1>1. NotAsked(a, m) => Says(q, r, a2.res) /\ Says(o, r, a2.res) /\ Saw(s, r, a2.res)
  BY DEF Told, In, Sees, Says, Saw
<1>. QED  BY <1>1 DEF Told

\* The connection r's call may be on is closed.
LEMMA ToldDropped ==
    ASSUME NEW m, NEW r, NEW a, NEW q \in Seq(Calls), NEW o \in Seq(Calls), NEW s,
           Told(m, r, a, q, o, s)
    PROVE  Told(m, r, a, << >>, o \o q, s)
<1>. DEFINE u == o \o q
<1>1. /\ In(u, r) => In(o, r) \/ In(q, r)
      /\ Once(o, r) /\ Once(q, r) /\ (In(q, r) => ~In(o, r)) => Once(u, r)
      /\ Says(o, r, a.res) /\ Says(q, r, a.res) => Says(u, r, a.res)
  BY ConcatCalls
<1>2. ~In(<< >>, r) /\ Once(<< >>, r) /\ Says(<< >>, r, a.res)
  BY NoCalls
<1>. HIDE DEF u
<1>. QED  BY <1>1, <1>2 DEF Told, u

\* r's call is written.
LEMMA ToldSent ==
    ASSUME NEW m, NEW r, NEW a, NEW q \in Seq(Calls), NEW o, NEW s, NEW a2, NEW e \in Calls,
           Told(m, r, a, q, o, s), NotAsked(a, m), ~NotAsked(a2, m), a2.res = a.res,
           e.msg.res = a.res
    PROVE  Told(m, r, a2, Append(q, e), o, s)
<1>1. ~In(q, r) /\ ~In(o, r) /\ ~Sees(s, r) /\ Once(o, r) /\ SeesOnce(s, r)
  BY DEF Told
<1>2. Once(Append(q, e), r) /\ Says(Append(q, e), r, a2.res)
  BY <1>1, AppendCalls
<1>3. Says(o, r, a2.res) /\ Saw(s, r, a2.res)
  BY <1>1 DEF In, Sees, Says, Saw
<1>. QED  BY <1>1, <1>2, <1>3 DEF Told

-----------------------------------------------------------------------------
(* The steps of the daemon                                                 *)

LEMMA AuditPrimed ==
    AuditInv' <=>
      /\ \A p \in Pairs, r \in Reqs :
           Fine(p, r, act'[r], link'[p.mod], orphan'[p.mod], dseen'[p.mod])
      /\ Hears(heard', dseen')
      /\ \A r \in Reqs : act'[r].pc \in {"idle", "read"} => act'[r].k = 0
BY DEF AuditInv, Fine, Hears, Told, Answered, In, Once, Sees, SeesOnce, Says, Saw, NotAsked, Tag, TagOf,
       HeardOf, Pairs

LEMMA AuditUnseen ==
    ASSUME AuditInv, UNCHANGED <<act, link, orphan, dseen, heard>>
    PROVE  AuditInv'
<1>1. /\ \A p \in Pairs, r \in Reqs :
           Fine(p, r, act[r], link[p.mod], orphan[p.mod], dseen[p.mod])
      /\ Hears(heard, dseen)
      /\ \A r \in Reqs : act[r].pc \in {"idle", "read"} => act[r].k = 0
  BY DEF AuditInv
<1>2. act' = act /\ link' = link /\ orphan' = orphan /\ dseen' = dseen /\ heard' = heard
  OBVIOUS
<1>. QED  BY <1>1, <1>2, AuditPrimed

LEMMA PairFacts ==
    /\ \A p \in Pairs : p.mod \in ModSet /\ p.call \in Events
    /\ \A p, o \in Pairs : p.mod = o.mod /\ p.call = o.call => p = o
BY DEF Pairs

\* What AuditInv says of one call.
LEMMA CallFine ==
    ASSUME AuditInv, NEW p \in Pairs, NEW r \in Reqs
    PROVE  /\ Told(p, TagOf(p, r), act[r], link[p.mod].q, orphan[p.mod], dseen[p.mod])
           /\ Answered(p, TagOf(p, r), act[r], link[p.mod], dseen[p.mod])
BY DEF AuditInv, Fine

\* A request that goes from a to b has called no less, and its result is still
\* open if it changes.
Moves(x, a, b) ==
    x \in Reqs =>
        /\ \A p \in Pairs : /\ NotAsked(b, p) => NotAsked(a, p)
                            /\ b.res = a.res \/ IsPolicy(p.mod) \/ NotAsked(a, p)
        /\ b.pc \in {"idle", "read"} => b.k = 0

\* A caller moves and uses the connection of one module.
LEMMA LinkTold ==
    ASSUME TypesD, CallInv, AuditInv, NEW x \in Actors, NEW a, ActBecomes(x, a),
           NEW m \in ModSet, NEW l, LinkBecomes(m, l), link[m].by \in {x, "none"},
           UNCHANGED dseen, \A o \in ModSet \ {m} : orphan'[o] = orphan[o],
           Hears(heard', dseen), Moves(x, act[x], a),
           a.pc = "wait" => ModAt(a.k) = m,
           \A p \in Pairs, r \in Reqs : p.mod = m =>
               Told(p, TagOf(p, r), IF r = x THEN a ELSE act[r], l.q, orphan'[m], dseen[m]),
           \A p \in Pairs : p.mod = m => Answered(p, TagOf(p, x), a, l, dseen[m])
    PROVE  AuditInv'
<1>1. act'[x] = a /\ \A y \in Actors \ {x} : act'[y] = act[y]
  BY ActBecomesFacts
<1>2. link'[m] = l /\ \A o \in ModSet \ {m} : link'[o] = link[o]
  BY LinkBecomesFacts
<1>3. dseen' = dseen
  OBVIOUS
<1>4. \A r \in Reqs : r \in Actors
  BY ReqFacts
<1>5. ASSUME NEW r \in Reqs PROVE act'[r].pc \in {"idle", "read"} => act'[r].k = 0
  BY <1>1, <1>4 DEF AuditInv, Moves
<1>6. ASSUME NEW r \in Reqs, NEW p \in Pairs, p.mod = m
      PROVE  Fine(p, r, act'[r], link'[m], orphan'[m], dseen'[m])
  <2>1. act'[r] = IF r = x THEN a ELSE act[r]
    BY <1>1, <1>4
  <2>2. Told(p, TagOf(p, r), act'[r], link'[m].q, orphan'[m], dseen'[m])
    BY <1>2, <1>3, <1>6, <2>1
  <2>3. CASE r = x
    BY <1>2, <1>3, <1>6, <2>1, <2>2, <2>3 DEF Fine
  <2>4. CASE r # x
    <3>1. ~(act[r].pc = "wait" /\ Steps[act[r].k] = p)
      BY <1>4, <1>6, <2>4, StepsFacts DEF CallInv, ActorOK, Holding, ModAt
    <3>. QED  BY <2>1, <2>2, <2>4, <3>1 DEF Answered, Fine
  <2>. QED  BY <2>3, <2>4
<1>7. ASSUME NEW r \in Reqs, NEW p \in Pairs, p.mod # m
      PROVE  Fine(p, r, act'[r], link'[p.mod], orphan'[p.mod], dseen'[p.mod])
  <2>. DEFINE o == p.mod
  <2>1. Told(p, TagOf(p, r), act[r], link[o].q, orphan[o], dseen[o])
        /\ Answered(p, TagOf(p, r), act[r], link[o], dseen[o])
    BY CallFine
  <2>2. link'[o] = link[o] /\ orphan'[o] = orphan[o] /\ dseen'[o] = dseen[o]
    BY <1>2, <1>3, <1>7, PairFacts
  <2>3. CASE r = x
    <3>1. Told(p, TagOf(p, r), a, link[o].q, orphan[o], dseen[o])
      BY <2>1, <2>3, ToldActs DEF Moves
    <3>2. Answered(p, TagOf(p, r), a, link[o], dseen[o])
      BY <1>7 DEF Answered, ModAt
    <3>. QED  BY <1>1, <2>2, <2>3, <3>1, <3>2 DEF Fine
  <2>4. CASE r # x
    BY <1>1, <1>4, <2>1, <2>2, <2>4 DEF Fine
  <2>. QED  BY <2>3, <2>4
<1>8. ASSUME NEW p \in Pairs, NEW r \in Reqs
      PROVE  Fine(p, r, act'[r], link'[p.mod], orphan'[p.mod], dseen'[p.mod])
  BY <1>6, <1>7
<1>9. Hears(heard', dseen')
  BY <1>3
<1>. QED  BY <1>5, <1>8, <1>9, AuditPrimed

\* An actor moves, and no connection changes.
LEMMA ActsTold ==
    ASSUME TypesD, AuditInv, NEW x \in Actors, NEW a, ActBecomes(x, a), a.pc # "wait",
           UNCHANGED <<link, orphan, dseen, heard>>, Moves(x, act[x], a)
    PROVE  AuditInv'
<1>1. act'[x] = a /\ \A y \in Actors \ {x} : act'[y] = act[y]
  BY ActBecomesFacts
<1>2. link' = link /\ orphan' = orphan /\ dseen' = dseen /\ heard' = heard
  OBVIOUS
<1>3. \A r \in Reqs : r \in Actors
  BY ReqFacts
<1>4. ASSUME NEW r \in Reqs PROVE act'[r].pc \in {"idle", "read"} => act'[r].k = 0
  BY <1>1, <1>3 DEF AuditInv, Moves
<1>5. ASSUME NEW p \in Pairs, NEW r \in Reqs
      PROVE  Fine(p, r, act'[r], link'[p.mod], orphan'[p.mod], dseen'[p.mod])
  <2>. DEFINE m == p.mod
  <2>1. /\ Told(p, TagOf(p, r), act[r], link[m].q, orphan[m], dseen[m])
        /\ Answered(p, TagOf(p, r), act[r], link[m], dseen[m])
    BY CallFine
  <2>2. CASE r = x
    <3>1. Told(p, TagOf(p, r), a, link[m].q, orphan[m], dseen[m])
      BY <2>1, <2>2, ToldActs DEF Moves
    <3>2. Answered(p, TagOf(p, r), a, link[m], dseen[m])
      BY DEF Answered
    <3>. QED  BY <1>1, <1>2, <2>2, <3>1, <3>2 DEF Fine
  <2>3. CASE r # x
    BY <1>1, <1>2, <1>3, <2>1, <2>3 DEF Fine
  <2>. QED  BY <2>2, <2>3
<1>6. Hears(heard', dseen')
  BY <1>2 DEF AuditInv
<1>. QED  BY <1>4, <1>5, <1>6, AuditPrimed

\* The caller goes on to its k-th call.
LEMMA AdvancedMoves ==
    ASSUME TypesD, CallInv, NEW x \in Actors, act[x].pc \in Calling, NEW res \in Results,
           NEW k \in Nat, act[x].k < k, act' = Advanced(x, res, k),
           res = act[x].res \/ IsPolicy(ModOf(x))
    PROVE  \E a \in Acts : ActBecomes(x, a) /\ a.pc \in {"call", "reply"} /\ Moves(x, act[x], a)
<1>. DEFINE a == [act[x] EXCEPT !.k = k, !.res = res, !.pc = PcAt(k)]
<1>1. act[x] \in Acts /\ act[x].k \in 1 .. Len(Steps) /\ ModOf(x) = ModAt(act[x].k)
      /\ Len(Steps) \in Nat
  BY CallerFacts, StepsFacts
<1>2. PcAt(k) \in Labels /\ PcAt(k) \in {"call", "reply"}
  BY DEF PcAt, Labels, Calling, Replied
<1>3. a \in Acts /\ a.k = k /\ a.res = res /\ a.pc = PcAt(k)
  BY <1>1, <1>2 DEF Acts
<1>4. act' = [act EXCEPT ![x] = a]
  BY <1>1 DEF Advanced, TypesD
<1>. HIDE DEF a
<1>5. ASSUME NEW p \in Pairs, NotAsked(a, p) PROVE NotAsked(act[x], p)
  <2>1. SUFFICES ASSUME NEW j \in 1 .. Len(Steps), Steps[j] = p PROVE act[x].k < j
    BY DEF NotAsked
  <2>2. k <= j
    BY <1>3, <1>5, <2>1 DEF NotAsked
  <2>. QED  BY <1>1, <2>2
<1>6. ASSUME NEW p \in Pairs, IsPolicy(ModOf(x)), ~IsPolicy(p.mod) PROVE NotAsked(act[x], p)
  <2>1. SUFFICES ASSUME NEW j \in 1 .. Len(Steps), Steps[j] = p PROVE act[x].k < j
    BY DEF NotAsked
  <2>2. ~IsPolicy(ModAt(j)) /\ IsPolicy(ModAt(act[x].k))
    BY <1>1, <1>6, <2>1 DEF ModAt
  <2>3. act[x].k <= Len(PolicyMods) /\ ~(j <= Len(PolicyMods)) /\ Len(PolicyMods) \in Nat
    BY <1>1, <2>1, <2>2, StepsFacts
  <2>. QED  BY <1>1, <2>3
<1>7. Moves(x, act[x], a)
  BY <1>2, <1>3, <1>5, <1>6 DEF Moves
<1>. QED  BY <1>2, <1>3, <1>4, <1>7 DEF ActBecomes

\* The caller goes on to its next call.
LEMMA NextMoves ==
    ASSUME TypesD, CallInv, NEW x \in Actors, act[x].pc \in Calling, NEW res \in Results,
           act' = Advanced(x, res, act[x].k + 1), res = act[x].res \/ IsPolicy(ModOf(x))
    PROVE  \E a \in Acts : ActBecomes(x, a) /\ a.pc \in {"call", "reply"} /\ Moves(x, act[x], a)
<1>1. act[x].k \in 1 .. Len(Steps) /\ Len(Steps) \in Nat
  BY CallerFacts, StepsFacts
<1>. DEFINE k == act[x].k + 1
<1>2. k \in Nat /\ k = act[x].k + 1 /\ act[x].k < k
  BY <1>1
<1>. HIDE DEF k
<1>. QED  BY <1>2, AdvancedMoves

\* A request whose own call is not under way, or that stays where it is, has
\* called no less.
LEMMA StaysMoves ==
    ASSUME NEW x, NEW a, NEW b, b.k = a.k, b.res = a.res, a.pc # "wait",
           b.pc \in {"idle", "read"} => b.k = 0
    PROVE  Moves(x, a, b)
BY DEF Moves, NotAsked

\* Whoever has made no call yet can start.
LEMMA FreshMoves ==
    ASSUME NEW x, NEW a, NEW b, a.k = 0, b.pc \in {"idle", "read"} => b.k = 0
    PROVE  Moves(x, a, b)
<1>1. \A p : NotAsked(a, p)
  BY StepsFacts DEF NotAsked
<1>. QED  BY <1>1 DEF Moves

LEMMA FailsTold ==
    ASSUME TypesD, CallInv, AuditInv, NEW x \in Actors, act[x].pc \in Holding, CallFails(x),
           UNCHANGED <<dseen, heard>>
    PROVE  AuditInv'
<1>0. act[x].pc \in Calling
  BY DEF Calling
<1>. DEFINE m == ModOf(x)
            res == Unavailable(m, act[x].res)
<1>1. /\ act[x] \in Acts /\ m \in ModSet /\ link[m] \in Links
      /\ link[m].by = x /\ orphan[m] \in Seq(Calls)
  BY <1>0, CallerFacts
<1>2. res \in Results /\ (res = act[x].res \/ IsPolicy(m))
  BY <1>1 DEF Unavailable, Acts, Results
<1>3. act' = Advanced(x, res, act[x].k + 1)
  BY DEF CallFails, AfterFailure
<1>. HIDE DEF res
<1>4. PICK a \in Acts : ActBecomes(x, a) /\ a.pc \in {"call", "reply"} /\ Moves(x, act[x], a)
  BY <1>0, <1>2, <1>3, NextMoves
<1>5. LinkBecomes(m, NoLink)
  BY NoLinkType DEF CallFails, Dropped, LinkBecomes
<1>6. orphan'[m] = orphan[m] \o link[m].q /\ \A o \in ModSet \ {m} : orphan'[o] = orphan[o]
  BY <1>1 DEF CallFails, Orphaned, TypesD
<1>. HIDE DEF m
<1>7. ASSUME NEW p \in Pairs, NEW r \in Reqs, p.mod = m
      PROVE  Told(p, TagOf(p, r), IF r = x THEN a ELSE act[r], NoLink.q, orphan'[m], dseen[m])
  <2>1. Told(p, TagOf(p, r), act[r], link[m].q, orphan[m], dseen[m])
    BY <1>7, CallFine
  <2>2. link[m].q \in Seq(Calls)
    BY <1>1 DEF Links
  <2>3. Told(p, TagOf(p, r), act[r], << >>, orphan'[m], dseen[m])
    BY <1>1, <1>6, <2>1, <2>2, ToldDropped
  <2>4. CASE r = x
    <3>1. Told(p, TagOf(p, r), a, << >>, orphan'[m], dseen[m])
      BY <1>1, <1>4, <2>3, <2>4, ToldActs DEF Moves
    <3>. QED  BY <2>4, <3>1, NoLinkType
  <2>. QED  BY <2>3, <2>4, NoLinkType
<1>8. a.pc # "wait" /\ \A p \in Pairs : Answered(p, TagOf(p, x), a, NoLink, dseen[m])
  BY <1>4 DEF Answered
<1>9. Hears(heard', dseen)
  BY DEF AuditInv
<1>. QED  BY <1>1, <1>4, <1>5, <1>6, <1>7, <1>8, <1>9, LinkTold

LEMMA SkipTold ==
    ASSUME TypesD, CallInv, AuditInv, NEW x \in Actors, SkipModule(x)
    PROVE  AuditInv'
<1>1. /\ act[x].pc \in Calling /\ act[x] \in Acts /\ act[x].res \in Results
      /\ UNCHANGED <<link, orphan, dseen, heard>>
  BY SkipFacts
<1>2. PICK k \in Nat : act[x].k < k /\ act' = Advanced(x, act[x].res, k)
  BY SkipFacts
<1>3. PICK a \in Acts : ActBecomes(x, a) /\ a.pc \in {"call", "reply"} /\ Moves(x, act[x], a)
  BY <1>1, <1>2, AdvancedMoves
<1>. QED  BY <1>1, <1>3, ActsTold

\* A caller stays with its module, whose connection has the same calls or
\* none of a request.
LEMMA StaysTold ==
    ASSUME TypesD, CallInv, AuditInv, NEW x \in Actors, act[x].pc \in Calling, act[x].pc # "wait",
           NEW label \in Calling \ {"wait"}, act' = [act EXCEPT ![x].pc = label],
           NEW l, LinkBecomes(ModOf(x), l), link[ModOf(x)].by \in {x, "none"},
           \/ l.q = link[ModOf(x)].q
           \/ \A p \in Pairs, r \in Reqs : ~In(l.q, TagOf(p, r)),
           UNCHANGED <<orphan, dseen, heard>>
    PROVE  AuditInv'
<1>. DEFINE m == ModOf(x)
<1>1. m \in ModSet
  BY CallerFacts
<1>2. PICK a \in Acts : /\ ActBecomes(x, a) /\ a.pc = label /\ a.k = act[x].k
                        /\ a.res = act[x].res /\ a.ev = act[x].ev
  <2>1. label \in Labels
    BY DEF Labels
  <2>. QED  BY <2>1, Relabelled, Zenon
<1>3. a.pc # "wait" /\ a.pc \notin {"idle", "read"}
  BY <1>2 DEF Calling, Holding
<1>4. Moves(x, act[x], a)
  BY <1>2, <1>3, StaysMoves
<1>5. orphan' = orphan /\ dseen' = dseen /\ heard' = heard
  OBVIOUS
<1>. HIDE DEF m
<1>6. ASSUME NEW p \in Pairs, NEW r \in Reqs, p.mod = m
      PROVE  Told(p, TagOf(p, r), IF r = x THEN a ELSE act[r], l.q, orphan'[m], dseen[m])
  <2>. DEFINE t == TagOf(p, r)
  <2>1. Told(p, t, act[r], link[m].q, orphan[m], dseen[m])
    BY <1>6, CallFine
  <2>2. Told(p, t, act[r], l.q, orphan[m], dseen[m])
    <3>1. CASE ~In(l.q, t)
      <4>. HIDE DEF t
      <4>1. Once(l.q, t) /\ Says(l.q, t, act[r].res)
        BY <3>1 DEF In, Once, Says
      <4>2. Once(orphan[m], t) /\ SeesOnce(dseen[m], t)
        BY <2>1 DEF Told
      <4>. QED  BY <2>1, <3>1, <4>1, <4>2, ToldLess
    <3>. QED  BY <2>1, <3>1 DEF m
  <2>3. CASE r = x
    BY <1>1, <1>4, <1>5, <2>2, <2>3, ToldActs DEF Moves
  <2>. QED  BY <1>5, <2>2, <2>3
<1>7. \A p \in Pairs : Answered(p, TagOf(p, x), a, l, dseen[m])
  BY <1>3 DEF Answered
<1>8. Hears(heard', dseen)
  BY <1>5 DEF AuditInv
<1>9. LinkBecomes(m, l) /\ link[m].by \in {x, "none"}
  BY DEF m
<1>. QED  BY <1>1, <1>2, <1>3, <1>4, <1>5, <1>6, <1>7, <1>8, <1>9, LinkTold

LEMMA TakeTold ==
    ASSUME TypesD, CallInv, AuditInv, NEW x \in Actors, TakeConn(x)
    PROVE  AuditInv'
<1>. DEFINE m == ModOf(x)
            l == [link[m] EXCEPT !.by = x]
<1>1. /\ act[x].pc = "call" /\ act[x].pc \in Calling /\ link[m].by = "none"
      /\ UNCHANGED <<orphan, dseen, heard>>
  BY DEF TakeConn, Calling
<1>2. m \in ModSet /\ link[m] \in Links
  BY <1>1, CallerFacts
<1>3. PICK label \in {"send", "connect"} : act' = [act EXCEPT ![x].pc = label]
  BY DEF TakeConn
<1>4. link' = [link EXCEPT ![m] = l]
  BY <1>2 DEF TakeConn, TypesD
<1>5. l \in Links /\ l.q = link[m].q
  <2>1. PICK o \in Links : o = link[m]
    BY <1>2
  <2>2. [o EXCEPT !.by = x] \in Links
    BY <2>1, Zenon DEF Links
  <2>3. [o EXCEPT !.by = x].q = o.q
    BY <2>1 DEF Links
  <2>. QED  BY <2>1, <2>2, <2>3
<1>. HIDE DEF l
<1>6. LinkBecomes(m, l)
  BY <1>4, <1>5 DEF LinkBecomes
<1>7. label \in Calling \ {"wait"}
  BY <1>3 DEF Calling, Holding
<1>. QED  BY <1>1, <1>3, <1>5, <1>6, <1>7, StaysTold

LEMMA ConnectTold ==
    ASSUME TypesD, CallInv, AuditInv, NEW x \in Actors, ConnectModule(x)
    PROVE  AuditInv'
<1>. DEFINE m == ModOf(x)
            e == [id |-> 1, msg |-> InitMsg]
            l == [NoLink EXCEPT !.up = TRUE, !.n = 1, !.by = x, !.q = <<e>>]
<1>1. /\ act[x].pc = "connect" /\ act[x].pc \in Calling /\ act[x].pc \in Holding
      /\ UNCHANGED <<dseen, heard>>
  BY DEF ConnectModule, Calling, Holding
<1>2. CASE CallFails(x)
  BY <1>1, <1>2, FailsTold
<1>3. CASE /\ link' = [link EXCEPT ![m] = l] /\ act' = [act EXCEPT ![x].pc = "init"]
           /\ UNCHANGED orphan
  <2>1. m \in ModSet /\ link[m].by = x
    BY <1>1, CallerFacts
  <2>2. e \in Calls /\ e.msg.who = "none"
    BY DEF InitMsg, Calls, Msgs, Events, Results
  <2>. HIDE DEF e
  <2>3. <<e>> \in Seq(Calls)
    BY <2>2
  <2>4. l \in Links /\ l.q = <<e>>
    BY <2>3, NoLinkType DEF Links
  <2>. HIDE DEF l
  <2>5. LinkBecomes(m, l)
    BY <1>3, <2>4 DEF LinkBecomes
  <2>6. ASSUME NEW p \in Pairs, NEW r \in Reqs PROVE ~In(l.q, TagOf(p, r))
    <3>1. r # "none"
      OBVIOUS
    <3>. QED  BY <2>2, <2>4, <3>1 DEF In, Tag, TagOf
  <2>7. "init" \in Calling \ {"wait"}
    BY DEF Calling, Holding
  <2>. QED  BY <1>1, <1>3, <2>1, <2>5, <2>6, <2>7, StaysTold
<1>. QED  BY <1>2, <1>3 DEF ConnectModule

LEMMA SendTold ==
    ASSUME TypesD, CallInv, AuditInv, NEW x \in Actors, SendCall(x)
    PROVE  AuditInv'
<1>1. /\ act[x].pc = "send" /\ act[x].pc \in Calling /\ act[x].pc \in Holding
      /\ UNCHANGED <<dseen, heard>>
  BY DEF SendCall, Calling, Holding
<1>2. CASE CallFails(x)
  BY <1>1, <1>2, FailsTold
<1>3. CASE ~CallFails(x)
  <2>. DEFINE m == ModOf(x)
              c == Steps[act[x].k]
  <2>1. /\ m \in ModSet /\ link[m] \in Links /\ link[m].by = x /\ m = ModAt(act[x].k)
        /\ act[x].k \in 1 .. Len(Steps) /\ c \in Pairs
    BY <1>1, CallerFacts
  <2>2. act' = [act EXCEPT ![x].pc = "wait"] /\ UNCHANGED orphan
    BY <1>3 DEF SendCall
  <2>3. PICK l \in Links, e \in Calls :
             /\ LinkBecomes(m, l) /\ e.msg = CallMsg(x) /\ l.q = Append(link[m].q, e)
             /\ \A i \in DOMAIN l.a : l.a[i].id # l.n
    BY <1>3, SendLink
  <2>4. Tag(e.msg) = TagOf(c, x) /\ e.msg.res = act[x].res
    BY <2>3 DEF CallMsg, Tag, TagOf
  <2>5. PICK a \in Acts : /\ ActBecomes(x, a) /\ a.pc = "wait" /\ a.k = act[x].k
                          /\ a.res = act[x].res /\ a.ev = act[x].ev
    <3>1. "wait" \in Labels
      BY DEF Labels, Calling, Holding
    <3>. QED  BY <2>2, <3>1, Relabelled, Zenon
  <2>6. ~NotAsked(a, c)
    BY <2>1, <2>5 DEF NotAsked
  <2>7. \A p \in Pairs : NotAsked(a, p) => NotAsked(act[x], p)
    BY <1>1, <2>5 DEF NotAsked
  <2>8. NotAsked(act[x], c)
    <3>1. SUFFICES ASSUME NEW j \in 1 .. Len(Steps), Steps[j] = c PROVE act[x].k = j
      BY <1>1 DEF NotAsked
    <3>. QED  BY <2>1, <3>1, StepsFacts
  <2>9. Moves(x, act[x], a)
    BY <2>5, <2>7 DEF Moves
  <2>. HIDE DEF m, c
  <2>10. ASSUME NEW p \in Pairs, NEW r \in Reqs, p.mod = m
         PROVE  Told(p, TagOf(p, r), IF r = x THEN a ELSE act[r], l.q, orphan'[m], dseen[m])
    <3>. DEFINE t == TagOf(p, r)
    <3>1. Told(p, t, act[r], link[m].q, orphan[m], dseen[m])
      BY <2>10, CallFine
    <3>2. link[m].q \in Seq(Calls)
      BY <2>1 DEF Links
    <3>3. CASE r = x /\ p = c
      <4>1. Told(p, t, a, Append(link[m].q, e), orphan[m], dseen[m])
        BY <2>4, <2>5, <2>6, <2>8, <3>1, <3>2, <3>3, ToldSent
      <4>. QED  BY <2>2, <2>3, <3>3, <4>1
    <3>4. CASE ~(r = x /\ p = c)
      <4>0. Tag(e.msg) # t
        <5>1. c.mod = m
          BY <2>1 DEF m, c, ModOf
        <5>2. TagOf(c, x) # TagOf(p, r)
          BY <2>1, <2>10, <3>4, <5>1, PairFacts DEF TagOf
        <5>. QED  BY <2>4, <5>2
      <4>. HIDE DEF t
      <4>1. /\ In(l.q, t) => In(link[m].q, t)
            /\ Once(link[m].q, t) => Once(l.q, t)
            /\ Says(link[m].q, t, act[r].res) => Says(l.q, t, act[r].res)
        <5>1. PICK q \in Seq(Calls) : q = link[m].q
          BY <3>2
        <5>2. /\ In(Append(q, e), t) => In(q, t)
              /\ Once(q, t) => Once(Append(q, e), t)
              /\ Says(q, t, act[r].res) => Says(Append(q, e), t, act[r].res)
          BY <4>0, AppendCalls
        <5>. QED  BY <2>3, <5>1, <5>2
      <4>2. Once(link[m].q, t) /\ Once(orphan[m], t) /\ SeesOnce(dseen[m], t)
        BY <3>1 DEF Told
      <4>3. Told(p, t, act[r], l.q, orphan[m], dseen[m])
        BY <3>1, <4>1, <4>2, ToldLess
      <4>4. r = x => Told(p, t, a, l.q, orphan[m], dseen[m])
        BY <2>5, <2>7, <4>3, ToldActs
      <4>. QED  BY <2>2, <4>3, <4>4 DEF t
    <3>. QED  BY <3>3, <3>4
  <2>11. \A p \in Pairs : Answered(p, TagOf(p, x), a, l, dseen[m])
    BY <2>3 DEF Answered
  <2>12. Hears(heard', dseen)
    BY <1>1 DEF AuditInv
  <2>13. orphan' = orphan /\ dseen' = dseen /\ ModAt(a.k) = m
    BY <1>1, <2>1, <2>2, <2>5
  <2>. QED  BY <2>1, <2>3, <2>5, <2>9, <2>10, <2>11, <2>12, <2>13, LinkTold
<1>. QED  BY <1>2, <1>3

LEMMA ReadTold ==
    ASSUME TypesD, CallInv, AuditInv, NEW x \in Actors, ReadAnswer(x)
    PROVE  AuditInv'
<1>. DEFINE m == ModOf(x)
            o == link[m]
            ans == o.a[1]
<1>1. /\ act[x].pc \in Calling /\ act[x].pc \in Holding /\ act[x].pc \in {"init", "wait"}
      /\ o.a # << >> /\ dseen' = dseen
  BY DEF ReadAnswer, Calling, Holding
<1>2. /\ m \in ModSet /\ o \in Links /\ o.by = x /\ m = ModAt(act[x].k) /\ IdsOK(o)
      /\ act[x] \in Acts
  BY <1>1, CallerFacts
<1>3. 1 \in DOMAIN o.a
  <2>1. o.a \in Seq(Ans)
    BY <1>2 DEF Links
  <2>. QED  BY <1>1, <2>1, TailFacts
<1>4. CASE CallFails(x) /\ UNCHANGED heard
  BY <1>1, <1>4, FailsTold
<1>5. CASE /\ act[x].pc = "init"
           /\ link' = [link EXCEPT ![m].a = Tail(@)]
           /\ act' = [act EXCEPT ![x].pc = "send"]
           /\ UNCHANGED <<orphan, heard>>
  <2>. DEFINE l == [o EXCEPT !.a = Tail(o.a), !.by = x]
  <2>1. l \in Links
    BY <1>1, <1>2, AnswerTaken
  <2>2. link' = [link EXCEPT ![m] = l]
    <3>1. l = [o EXCEPT !.a = Tail(o.a)]
      BY <1>2 DEF Links
    <3>. QED  BY <1>2, <1>5, <3>1 DEF TypesD
  <2>3. l.q = o.q
    BY <1>2 DEF Links
  <2>. HIDE DEF l
  <2>4. LinkBecomes(m, l)
    BY <2>1, <2>2 DEF LinkBecomes
  <2>5. "send" \in Calling \ {"wait"}
    BY DEF Calling, Holding
  <2>. QED  BY <1>1, <1>2, <1>5, <2>3, <2>4, <2>5, StaysTold
<1>6. CASE /\ act[x].pc = "wait" /\ Answers(x, ans)
           /\ link' = [link EXCEPT ![m].a = Tail(@), ![m].by = "none"]
           /\ act' = Advanced(x, Verdict(x, ans), act[x].k + 1)
           /\ heard' = heard \union {<<x, m, Steps[act[x].k].call>>} /\ UNCHANGED orphan
  <2>. DEFINE l == [o EXCEPT !.a = Tail(o.a), !.by = "none"]
              res == Verdict(x, ans)
  <2>1. l \in Links
    BY <1>1, <1>2, AnswerTaken, ZenonT(40)
  <2>2. link' = [link EXCEPT ![m] = l]
    BY <1>2, <1>6 DEF TypesD, Links
  <2>3. l.q = o.q
    BY <1>2 DEF Links
  <2>. HIDE DEF l
  <2>4. LinkBecomes(m, l)
    BY <2>1, <2>2 DEF LinkBecomes
  <2>5. res \in Results /\ (res = act[x].res \/ IsPolicy(m))
    <3>1. act[x].res \in Results
      BY <1>2 DEF Acts
    <3>2. res = IF IsPolicy(m) /\ ~ans.ok THEN "refused" ELSE act[x].res
      BY DEF Verdict
    <3>. HIDE DEF res, m, ans
    <3>. QED  BY <3>1, <3>2 DEF Results
  <2>6. PICK a \in Acts : ActBecomes(x, a) /\ a.pc \in {"call", "reply"} /\ Moves(x, act[x], a)
    <3>1. act' = Advanced(x, res, act[x].k + 1)
      BY <1>6
    <3>. HIDE DEF res
    <3>. QED  BY <1>1, <2>5, <3>1, NextMoves
  <2>. DEFINE c == Steps[act[x].k]
  <2>7. c \in Pairs /\ c.mod = m
    BY <1>1, CallerFacts DEF ModOf
  <2>8. x \in Reqs => Sees(dseen[m], TagOf(c, x))
    <3>1. SUFFICES ASSUME x \in Reqs PROVE Sees(dseen[m], TagOf(c, x))
      OBVIOUS
    <3>2. Answered(c, TagOf(c, x), act[x], link[m], dseen[m])
      BY <2>7, <3>1, CallFine
    <3>. QED  BY <1>2, <1>3, <1>6, <3>2 DEF Answered, Answers
  <2>9. Hears(heard', dseen)
    <3>1. ASSUME NEW p \in Pairs, NEW r \in Reqs, HeardOf(p, r) \in heard'
          PROVE  Sees(dseen[p.mod], TagOf(p, r))
      <4>1. HeardOf(p, r) \in heard \/ HeardOf(p, r) = <<x, m, c.call>>
        BY <1>6, <3>1
      <4>2. CASE HeardOf(p, r) \in heard
        BY <4>2 DEF AuditInv, Hears
      <4>3. CASE HeardOf(p, r) = <<x, m, c.call>>
        <5>. HIDE DEF m, c
        <5>1. r = x /\ p.mod = m /\ p.call = c.call
          BY <4>3 DEF HeardOf
        <5>2. p = c
          BY <2>7, <5>1, PairFacts
        <5>. QED  BY <2>8, <5>1, <5>2
      <4>. QED  BY <4>1, <4>2, <4>3
    <3>. QED  BY <3>1 DEF Hears
  <2>10. orphan' = orphan
    BY <1>6
  <2>. HIDE DEF m, c
  <2>11. ASSUME NEW p \in Pairs, NEW r \in Reqs, p.mod = m
         PROVE  Told(p, TagOf(p, r), IF r = x THEN a ELSE act[r], l.q, orphan'[m], dseen[m])
    <3>1. Told(p, TagOf(p, r), act[r], l.q, orphan'[m], dseen[m])
      BY <2>3, <2>10, <2>11, CallFine
    <3>2. CASE r = x
      BY <2>6, <3>1, <3>2, ToldActs DEF Moves
    <3>. QED  BY <3>1, <3>2
  <2>12. a.pc # "wait" /\ \A p \in Pairs : Answered(p, TagOf(p, x), a, l, dseen[m])
    BY <2>6 DEF Answered
  <2>. QED  BY <1>1, <1>2, <2>4, <2>6, <2>9, <2>10, <2>11, <2>12, LinkTold
<1>. QED  BY <1>1, <1>4, <1>5, <1>6 DEF ReadAnswer

LEMMA CallTold ==
    ASSUME TypesD, CallInv, AuditInv, NEW x \in Actors, CallStep(x)
    PROVE  AuditInv'
<1>1. ASSUME CallTimeout(x) PROVE AuditInv'
  <2>1. act[x].pc \in Holding /\ CallFails(x) /\ UNCHANGED <<dseen, heard>>
    BY <1>1 DEF CallTimeout, Holding
  <2>. QED  BY <2>1, FailsTold
<1>. QED  BY <1>1, SkipTold, TakeTold, ConnectTold, SendTold, ReadTold DEF CallStep

\* A module does what it is asked, and the call is no longer where it was.
LEMMA DoneTold ==
    ASSUME TypesD, NEW p \in Pairs, NEW msg \in Msgs, NEW ok \in BOOLEAN,
           dseen' = Does(p.mod, msg, ok), NEW r, NEW a, NEW q, NEW o, NEW q2, NEW o2,
           Told(p, r, a, q, o, dseen[p.mod]),
           Tag(msg) = r => /\ In(q, r) \/ In(o, r)
                           /\ ~In(q2, r) /\ ~In(o2, r)
                           /\ Says(q, r, a.res) /\ Says(o, r, a.res) => msg.res = a.res,
           In(q2, r) => In(q, r), Once(q2, r), Says(q, r, a.res) => Says(q2, r, a.res),
           In(o2, r) => In(o, r), Once(o2, r), Says(o, r, a.res) => Says(o2, r, a.res)
    PROVE  Told(p, r, a, q2, o2, dseen'[p.mod])
<1>. DEFINE s == dseen[p.mod]
            s2 == dseen'[p.mod]
<1>1. /\ Tag(msg) # r => /\ Sees(s2, r) => Sees(s, r)
                         /\ SeesOnce(s, r) => SeesOnce(s2, r)
                         /\ Saw(s, r, a.res) => Saw(s2, r, a.res)
      /\ ~Sees(s, r) => SeesOnce(s2, r) /\ Saw(s2, r, msg.res)
  BY DoesSeen, PairFacts
<1>2. Told(p, r, a, q, o, s)
  OBVIOUS
<1>. HIDE DEF s, s2
<1>3. CASE Tag(msg) = r
  <2>1. ~Sees(s, r)
    BY <1>2, <1>3 DEF Told
  <2>2. SeesOnce(s2, r) /\ Saw(s2, r, msg.res)
    BY <1>1, <2>1
  <2>3. IsPolicy(p.mod) \/ Saw(s2, r, a.res)
    BY <1>2, <1>3, <2>2 DEF Told
  <2>4. Told(p, r, a, q2, o2, s2)
    BY <1>2, <1>3, <2>2, <2>3, ToldDone
  <2>. QED  BY <2>4 DEF s2
<1>4. CASE Tag(msg) # r
  <2>1. SeesOnce(s, r)
    BY <1>2 DEF Told
  <2>2. Told(p, r, a, q2, o2, s2)
    BY <1>1, <1>2, <1>4, <2>1, ToldLess
  <2>. QED  BY <2>2 DEF s2
<1>. QED  BY <1>3, <1>4

LEMMA AppendAt ==
    ASSUME NEW s \in Seq(Ans), NEW e \in Ans
    PROVE  \A i \in DOMAIN Append(s, e) :
              (i \in DOMAIN s /\ Append(s, e)[i] = s[i]) \/ Append(s, e)[i] = e
BY AppendFacts

LEMMA ServesTold ==
    ASSUME TypesD, CallInv, AuditInv, NEW m \in ModSet, ModuleServes(m)
    PROVE  AuditInv'
<1>. DEFINE o == link[m]
            msg == o.q[1].msg
<1>1. act' = act /\ orphan' = orphan /\ heard' = heard
  BY DEF ModuleServes
<1>2. o.q \in Seq(Calls) /\ o.q # << >> /\ msg \in Msgs /\ o.a \in Seq(Ans)
  BY ServesLink DEF TypesD, Links
<1>3. PICK ok \in BOOLEAN, e \in Ans, l \in Links :
        /\ LinkBecomes(m, l) /\ l.n = o.n /\ l.q = Tail(o.q) /\ l.a = Append(o.a, e)
        /\ e.id = o.q[1].id /\ dseen' = Does(m, msg, ok)
  BY ServesLink
<1>4. link'[m] = l /\ \A p \in ModSet \ {m} : link'[p] = link[p]
  BY <1>3, LinkBecomesFacts
<1>5. ASSUME NEW t
      PROVE  /\ \A p \in ModSet \ {m} : dseen'[p] = dseen[p]
             /\ Sees(dseen[m], t) => Sees(dseen'[m], t)
             /\ Tag(msg) = t /\ msg.call # "init" => Sees(dseen'[m], t)
  <2>. HIDE DEF msg
  <2>. QED  BY <1>2, <1>3, DoesSeen
<1>6. ASSUME NEW p \in Pairs, NEW r \in Reqs, p.mod = m
      PROVE  Told(p, TagOf(p, r), act[r], l.q, orphan[m], dseen'[m])
  <2>. DEFINE t == TagOf(p, r)
  <2>1. Told(p, t, act[r], o.q, orphan[m], dseen[m])
    BY <1>6, CallFine
  <2>. HIDE DEF t
  <2>2. PICK q \in Seq(Calls) : q = o.q /\ q # << >> /\ msg = q[1].msg /\ l.q = Tail(q)
    BY <1>2, <1>3
  <2>3. Once(q, t) /\ Once(orphan[m], t)
    BY <2>1, <2>2 DEF Told
  <2>4. /\ In(Tail(q), t) => In(q, t)
        /\ Once(Tail(q), t)
        /\ Tag(q[1].msg) = t => ~In(Tail(q), t) /\ In(q, t)
        /\ Says(q, t, act[r].res) => Says(Tail(q), t, act[r].res)
    BY <2>2, <2>3, TailCalls
  <2>5. 1 \in DOMAIN q
    BY <2>2, TailFacts
  <2>6. Told(p, t, act[r], q, orphan[m], dseen[m])
    BY <2>1, <2>2
  <2>7. Tag(msg) = t => /\ In(q, t) /\ ~In(Tail(q), t) /\ ~In(orphan[m], t)
                        /\ Says(q, t, act[r].res) => msg.res = act[r].res
    BY <2>2, <2>4, <2>5, <2>6 DEF Told, Says
  <2>. HIDE DEF msg, o
  <2>8. Told(p, t, act[r], Tail(q), orphan[m], dseen'[m])
    BY <1>2, <1>3, <1>6, <2>3, <2>4, <2>6, <2>7, DoneTold
  <2>. QED  BY <2>2, <2>8 DEF t
<1>7. ASSUME NEW p \in Pairs, NEW r \in Reqs, p.mod = m
      PROVE  Answered(p, TagOf(p, r), act[r], l, dseen'[m])
  <2>1. SUFFICES ASSUME act[r].pc = "wait", Steps[act[r].k] = p,
                        NEW i \in DOMAIN l.a, l.a[i].id = l.n
                 PROVE  Sees(dseen'[m], TagOf(p, r))
    BY DEF Answered
  <2>2. (i \in DOMAIN o.a /\ l.a[i] = o.a[i]) \/ l.a[i] = e
    <3>1. PICK as \in Seq(Ans) : as = o.a
      BY <1>2
    <3>. HIDE DEF o, msg
    <3>2. \A j \in DOMAIN Append(as, e) :
            (j \in DOMAIN as /\ Append(as, e)[j] = as[j]) \/ Append(as, e)[j] = e
      BY AppendAt
    <3>3. l.a = Append(as, e)
      BY <1>3, <3>1 DEF o
    <3>4. i \in DOMAIN Append(as, e) /\ l.a[i] = Append(as, e)[i]
      BY <2>1, <3>3
    <3>5. (i \in DOMAIN as /\ Append(as, e)[i] = as[i]) \/ Append(as, e)[i] = e
      BY <3>2, <3>4
    <3>. QED  BY <3>1, <3>4, <3>5 DEF o
  <2>3. CASE i \in DOMAIN o.a /\ l.a[i] = o.a[i]
    <3>1. Answered(p, TagOf(p, r), act[r], o, dseen[m])
      BY <1>7, CallFine
    <3>2. Sees(dseen[m], TagOf(p, r))
      BY <1>3, <2>1, <2>3, <3>1 DEF Answered
    <3>. QED  BY <1>5, <3>2
  <2>4. CASE l.a[i] = e
    <3>1. Waits(o, dseen[m], r, p.call)
      <4>1. r \in Actors
        BY ReqFacts
      <4>. QED  BY <1>7, <2>1, <4>1 DEF CallInv, ActorOK, ModAt
    <3>2. 1 \in DOMAIN o.q
      BY <1>2, TailFacts
    <3>3. msg.who = r /\ msg.call = p.call /\ msg.call # "init"
      BY <1>3, <2>1, <2>4, <3>1, <3>2 DEF Waits
    <3>4. Tag(msg) = TagOf(p, r)
      BY <3>3 DEF Tag, TagOf
    <3>. QED  BY <1>5, <3>3, <3>4
  <2>. QED  BY <2>2, <2>3, <2>4
<1>8. ASSUME NEW p \in Pairs, NEW r \in Reqs
      PROVE  Fine(p, r, act'[r], link'[p.mod], orphan'[p.mod], dseen'[p.mod])
  <2>1. CASE p.mod = m
    BY <1>1, <1>4, <1>6, <1>7, <2>1 DEF Fine
  <2>2. CASE p.mod # m
    BY <1>1, <1>4, <1>5, <2>2, PairFacts DEF AuditInv
  <2>. QED  BY <2>1, <2>2
<1>9. Hears(heard', dseen')
  BY <1>1, <1>5, PairFacts DEF AuditInv, Hears
<1>10. \A r \in Reqs : act'[r].pc \in {"idle", "read"} => act'[r].k = 0
  BY <1>1 DEF AuditInv
<1>. QED  BY <1>8, <1>9, <1>10, AuditPrimed

LEMMA OrphanTold ==
    ASSUME TypesD, AuditInv, NEW m \in ModSet, ModuleServesOrphan(m)
    PROVE  AuditInv'
<1>. DEFINE o == orphan[m]
<1>1. o \in Seq(Calls) /\ act' = act /\ link' = link /\ heard' = heard
  BY DEF TypesD, ModuleServesOrphan
<1>2. PICK i \in DOMAIN o :
        /\ orphan' = [orphan EXCEPT ![m] = SubSeq(@, 1, i - 1) \o SubSeq(@, i + 1, Len(@))]
        /\ dseen' = Does(m, o[i].msg, Allows(m, o[i].msg))
  BY DEF ModuleServesOrphan
<1>. DEFINE o2 == SubSeq(o, 1, i - 1) \o SubSeq(o, i + 1, Len(o))
            msg == o[i].msg
<1>3. msg \in Msgs /\ Allows(m, msg) \in BOOLEAN
  <2>1. o[i] \in Calls
    BY <1>1, <1>2, LenProperties, ElementOfSeq
  <2>. QED  BY <2>1 DEF Calls, Allows
<1>4. orphan'[m] = o2 /\ \A p \in ModSet \ {m} : orphan'[p] = orphan[p]
  BY <1>2 DEF TypesD
<1>. HIDE DEF o2
<1>5. ASSUME NEW t
      PROVE  /\ \A p \in ModSet \ {m} : dseen'[p] = dseen[p]
             /\ Sees(dseen[m], t) => Sees(dseen'[m], t)
  <2>1. dseen' = Does(m, msg, Allows(m, msg))
    BY <1>2
  <2>. HIDE DEF msg
  <2>. QED  BY <1>3, <2>1, DoesSeen
<1>6. ASSUME NEW p \in Pairs, NEW r \in Reqs, p.mod = m
      PROVE  Told(p, TagOf(p, r), act[r], link[m].q, o2, dseen'[m])
  <2>. DEFINE t == TagOf(p, r)
  <2>1. Told(p, t, act[r], link[m].q, o, dseen[m])
    BY <1>6, CallFine
  <2>. HIDE DEF t
  <2>2. Once(o, t) /\ Once(link[m].q, t)
    BY <2>1 DEF Told
  <2>3. /\ In(o2, t) => In(o, t)
        /\ Once(o2, t)
        /\ Tag(o[i].msg) = t => ~In(o2, t)
        /\ Says(o, t, act[r].res) => Says(o2, t, act[r].res)
    <3>1. PICK c \in Seq(Calls) : c = o /\ i \in DOMAIN c
      BY <1>1, <1>2
    <3>2. o2 = Without(c, i)
      BY <3>1 DEF o2, Without
    <3>. HIDE DEF o, msg
    <3>3. /\ In(Without(c, i), t) => In(c, t)
          /\ Once(c, t) => Once(Without(c, i), t)
          /\ Once(c, t) /\ Tag(c[i].msg) = t => ~In(Without(c, i), t)
          /\ Says(c, t, act[r].res) => Says(Without(c, i), t, act[r].res)
      BY <3>1, WithoutCalls
    <3>. QED  BY <2>2, <3>1, <3>2, <3>3
  <2>4. Tag(msg) = t => /\ In(o, t) /\ ~In(link[m].q, t) /\ ~In(o2, t)
                        /\ Says(o, t, act[r].res) => msg.res = act[r].res
    <3>1. Tag(msg) = t => In(o, t)
      BY <1>2 DEF In
    <3>2. In(o, t) => ~In(link[m].q, t)
      BY <2>1 DEF Told
    <3>3. Tag(msg) = t /\ Says(o, t, act[r].res) => msg.res = act[r].res
      BY <1>2 DEF Says
    <3>. QED  BY <2>3, <3>1, <3>2, <3>3
  <2>5. dseen' = Does(m, msg, Allows(m, msg))
    BY <1>2
  <2>. HIDE DEF msg, o
  <2>6. Told(p, t, act[r], link[m].q, o2, dseen'[m])
    BY <1>3, <1>6, <2>1, <2>2, <2>3, <2>4, <2>5, DoneTold
  <2>. QED  BY <2>6 DEF t
<1>7. ASSUME NEW p \in Pairs, NEW r \in Reqs
      PROVE  Fine(p, r, act'[r], link'[p.mod], orphan'[p.mod], dseen'[p.mod])
  <2>1. CASE p.mod = m
    <3>1. Answered(p, TagOf(p, r), act[r], link[m], dseen[m])
      BY <2>1, CallFine
    <3>2. Answered(p, TagOf(p, r), act[r], link[m], dseen'[m])
      BY <1>5, <3>1 DEF Answered
    <3>. QED  BY <1>1, <1>4, <1>6, <2>1, <3>2 DEF Fine
  <2>2. CASE p.mod # m
    BY <1>1, <1>4, <1>5, <2>2, PairFacts DEF AuditInv
  <2>. QED  BY <2>1, <2>2
<1>8. Hears(heard', dseen')
  BY <1>1, <1>5, PairFacts DEF AuditInv, Hears
<1>9. \A r \in Reqs : act'[r].pc \in {"idle", "read"} => act'[r].k = 0
  BY <1>1 DEF AuditInv
<1>. QED  BY <1>7, <1>8, <1>9, AuditPrimed

\* Connections lose what was written to them.
LEMMA EmptiedTold ==
    ASSUME AuditInv, \A r \in Reqs : act'[r] = act[r], UNCHANGED <<dseen, heard>>,
           \A m \in ModSet : /\ link'[m].q \in {link[m].q, << >>}
                             /\ orphan'[m] \in {orphan[m], << >>},
           \A m \in ModSet, r \in Reqs : act[r].pc = "wait" /\ ModAt(act[r].k) = m =>
               link'[m].a = link[m].a /\ link'[m].n = link[m].n
    PROVE  AuditInv'
<1>1. dseen' = dseen /\ heard' = heard
  OBVIOUS
<1>2. ASSUME NEW p \in Pairs, NEW r \in Reqs
      PROVE  Fine(p, r, act'[r], link'[p.mod], orphan'[p.mod], dseen'[p.mod])
  <2>0. PICK m \in ModSet : m = p.mod
    BY PairFacts
  <2>. DEFINE q == link[m].q
              q2 == link'[m].q
              o == orphan[m]
              o2 == orphan'[m]
              t == TagOf(p, r)
  <2>1. /\ Told(p, t, act[r], q, o, dseen[m]) /\ Answered(p, t, act[r], link[m], dseen[m])
    BY <2>0, CallFine
  <2>. HIDE DEF t
  <2>2. q2 \in {q, << >>} /\ o2 \in {o, << >>}
    OBVIOUS
  <2>3. ~In(<< >>, t) /\ Once(<< >>, t) /\ Says(<< >>, t, act[r].res)
    BY NoCalls
  <2>4. Answered(p, t, act[r], link'[m], dseen[m])
    BY <2>0, <2>1 DEF Answered, ModAt
  <2>. HIDE DEF q, q2, o, o2
  <2>5. Once(q, t) /\ Once(o, t) /\ SeesOnce(dseen[m], t)
    BY <2>1 DEF Told
  <2>6. (In(q2, t) => In(q, t)) /\ Once(q2, t) /\ (Says(q, t, act[r].res) => Says(q2, t, act[r].res))
    BY <2>2, <2>3, <2>5
  <2>7. (In(o2, t) => In(o, t)) /\ Once(o2, t) /\ (Says(o, t, act[r].res) => Says(o2, t, act[r].res))
    BY <2>2, <2>3, <2>5
  <2>8. Told(p, t, act[r], q2, o2, dseen[m])
    BY <2>1, <2>5, <2>6, <2>7, ToldLess
  <2>. QED  BY <1>1, <2>0, <2>4, <2>8 DEF q2, o2, t, Fine
<1>3. \A r \in Reqs : act'[r].pc \in {"idle", "read"} => act'[r].k = 0
  BY DEF AuditInv
<1>4. Hears(heard', dseen')
  BY <1>1 DEF AuditInv
<1>. QED  BY <1>2, <1>3, <1>4, AuditPrimed

LEMMA DiesTold ==
    ASSUME TypesD, AuditInv, NEW m \in ModSet, ModuleDies(m)
    PROVE  AuditInv'
<1>. DEFINE o == link[m]
            l == [o EXCEPT !.cut = o.cut \/ o.up, !.q = << >>]
<1>1. o \in Links /\ act' = act /\ UNCHANGED <<dseen, heard>>
      /\ orphan' = [orphan EXCEPT ![m] = << >>]
  BY DEF TypesD, ModuleDies
<1>2. link' = [link EXCEPT ![m] = l]
  BY <1>1 DEF ModuleDies, TypesD, Links
<1>3. l.q = << >> /\ l.a = o.a /\ l.n = o.n
  BY <1>1 DEF Links
<1>. HIDE DEF l, o
<1>4. /\ link'[m] = l /\ orphan'[m] = << >>
      /\ \A p \in ModSet \ {m} : link'[p] = link[p] /\ orphan'[p] = orphan[p]
  BY <1>1, <1>2 DEF TypesD
<1>5. \A p \in ModSet : /\ link'[p].q \in {link[p].q, << >>} /\ orphan'[p] \in {orphan[p], << >>}
                         /\ link'[p].a = link[p].a /\ link'[p].n = link[p].n
  BY <1>3, <1>4 DEF o
<1>. QED  BY <1>1, <1>5, EmptiedTold

\* A task that makes no call moves on.
LEMMA TaskTold ==
    ASSUME TypesD, AuditInv, NEW x \in Actors, NEW label \in Labels \ {"wait"}, act[x].pc # "wait",
           act' = [act EXCEPT ![x].pc = label], label \in {"idle", "read"} => act[x].k = 0,
           UNCHANGED <<link, orphan, dseen, heard>>
    PROVE  AuditInv'
<1>1. PICK a \in Acts : /\ ActBecomes(x, a) /\ a.pc = label /\ a.k = act[x].k
                        /\ a.res = act[x].res /\ a.ev = act[x].ev
  <2>1. label \in Labels
    OBVIOUS
  <2>. QED  BY <2>1, Relabelled, Zenon
<1>2. Moves(x, act[x], a)
  BY <1>1, StaysMoves
<1>. QED  BY <1>1, <1>2, ActsTold

\* Whoever has called no one starts, or never will; run is no request.
LEMMA FreshTold ==
    ASSUME TypesD, AuditInv, NEW x \in Actors, NEW a \in Acts, act' = [act EXCEPT ![x] = a],
           a.pc \in {"call", "reply"} \/ x = "run", a.pc # "wait", act[x].k = 0 \/ x = "run",
           UNCHANGED <<link, orphan, dseen, heard>>
    PROVE  AuditInv'
<1>1. ActBecomes(x, a)
  BY DEF ActBecomes
<1>2. Moves(x, act[x], a)
  <2>1. CASE x = "run"
    BY <2>1, ReqFacts DEF Moves
  <2>2. CASE x # "run"
    BY <2>2, FreshMoves
  <2>. QED  BY <2>1, <2>2
<1>. QED  BY <1>1, <1>2, ActsTold

LEMMA UdpTold ==
    ASSUME TypesD, AuditInv, dcfg \in DConfigs, NEW r \in UdpReqs, RecvUdp(r) \/ ReplyUdp(r)
    PROVE  AuditInv'
<1>1. r \in Actors /\ r \in Reqs /\ UNCHANGED <<link, orphan, dseen, heard>>
  BY ReqFacts DEF RecvUdp, ReplyUdp, rpcVars
<1>2. CASE RecvUdp(r)
  <2>1. PICK kind \in dcfg.kinds : act' = [act EXCEPT ![r] = Begun(kind)]
    BY <1>2 DEF RecvUdp
  <2>2. act[r].k = 0
    BY <1>1, <1>2 DEF AuditInv, RecvUdp
  <2>3. Begun(kind) \in Acts /\ Begun(kind).pc \in {"call", "reply"} /\ Begun(kind).pc # "wait"
    BY <2>1, BegunType DEF PcAt
  <2>. QED  BY <1>1, <2>1, <2>2, <2>3, FreshTold
<1>3. CASE ReplyUdp(r)
  <2>1. PICK p \in {"sent", "toobig"} : act' = [act EXCEPT ![r].pc = p]
    BY <1>3 DEF ReplyUdp
  <2>2. p \in Labels \ {"wait"} /\ p \notin {"idle", "read"} /\ act[r].pc # "wait"
    BY <1>3, <2>1 DEF Labels, Replied, ReplyUdp
  <2>. QED  BY <1>1, <2>1, <2>2, TaskTold
<1>. QED  BY <1>2, <1>3

LEMMA TcpTold ==
    ASSUME TypesD, AuditInv, dcfg \in DConfigs, NEW r \in TcpReqs,
           Accept(r) \/ ReadRequest(r) \/ TaskStep(r)
    PROVE  AuditInv'
<1>1. r \in Actors /\ r \in Reqs /\ UNCHANGED <<link, orphan, dseen, heard>>
  BY ReqFacts DEF Accept, ReadRequest, TaskStep, ReplyTcp, Abort, Unlist, Leave, rpcVars
<1>2. \A p \in {"read", "leave", "gone", "unlist", "unlisted", "sent"} : p \in Labels \ {"wait"}
  BY DEF Labels, Replied
<1>3. \A p \in {"leave", "gone", "unlist", "unlisted", "sent"} : p \notin {"idle", "read"}
  OBVIOUS
<1>4. act[r].pc \in {"idle", "read"} => act[r].k = 0
  BY <1>1 DEF AuditInv
<1>5. CASE Accept(r)
  <2>1. act' = [act EXCEPT ![r].pc = "read"] /\ act[r].pc = "idle"
    BY <1>5 DEF Accept
  <2>. QED  BY <1>1, <1>2, <1>4, <2>1, TaskTold
<1>6. CASE ReadRequest(r)
  <2>0. act[r].pc = "read"
    BY <1>6 DEF ReadRequest
  <2>1. ASSUME NEW kind \in dcfg.kinds, act' = [act EXCEPT ![r] = Begun(kind)] PROVE AuditInv'
    <3>1. Begun(kind) \in Acts /\ Begun(kind).pc \in {"call", "reply"} /\ Begun(kind).pc # "wait"
      BY <2>1, BegunType DEF PcAt
    <3>. QED  BY <1>1, <1>4, <2>0, <2>1, <3>1, FreshTold
  <2>2. CASE act' = [act EXCEPT ![r].pc = "reply", ![r].res = "toolong"]
    <3>. DEFINE a == [act[r] EXCEPT !.pc = "reply", !.res = "toolong"]
    <3>1. act[r] \in Acts
      BY <1>1 DEF TypesD
    <3>2. a \in Acts
      BY <3>1 DEF Acts, Labels, Replied, Results
    <3>3. a.pc = "reply"
      BY <3>1 DEF Acts
    <3>4. act' = [act EXCEPT ![r] = a]
      BY <1>1, <2>2, <3>1 DEF TypesD, Acts
    <3>. HIDE DEF a
    <3>. QED  BY <1>1, <1>4, <2>0, <3>2, <3>3, <3>4, FreshTold
  <2>3. CASE act' = [act EXCEPT ![r].pc = "leave"]
    BY <1>1, <1>2, <1>3, <2>0, <2>3, TaskTold
  <2>. QED  BY <1>6, <2>1, <2>2, <2>3 DEF ReadRequest
<1>7. CASE TaskStep(r)
  <2>1. act[r].pc # "wait"
    BY <1>7 DEF TaskStep, ReplyTcp, Abort, Unlist, Leave
  <2>2. PICK label \in {"leave", "gone", "unlist", "unlisted", "sent"} :
             act' = [act EXCEPT ![r].pc = label]
    <3>1. CASE Leave(r)
      <4>1. CASE act[r].pc = "unlisted"
        BY <3>1, <4>1 DEF Leave
      <4>2. CASE act[r].pc # "unlisted"
        BY <3>1, <4>2 DEF Leave
      <4>. QED  BY <4>1, <4>2
    <3>. QED  BY <1>7, <3>1 DEF TaskStep, ReplyTcp, Abort, Unlist
  <2>. QED  BY <1>1, <1>2, <1>3, <2>1, <2>2, TaskTold
<1>. QED  BY <1>5, <1>6, <1>7

\* While run loads its modules nobody has made a call.
LEMMA LoadTold ==
    ASSUME TypesD, Phases, AuditInv, LoadModule
    PROVE  AuditInv'
<1>. DEFINE m == Mods[act["run"].k + 1]
            l == [NoLink EXCEPT !.up = TRUE, !.n = 1]
<1>1. dpc = "load" /\ act' = [act EXCEPT !["run"].k = @ + 1] /\ UNCHANGED <<orphan, dseen, heard>>
  BY DEF LoadModule
<1>2. \A r \in Reqs : act'[r] = act[r] /\ act[r].pc # "wait"
  <2>1. \A r \in Reqs : r # "run" /\ r \in Actors
    BY ReqFacts
  <2>. QED  BY <1>1, <2>1 DEF TypesD, Phases
<1>3. l.q = << >>
  BY NoLinkType DEF Links
<1>4. link' = link \/ link' = [link EXCEPT ![m] = l]
  BY DEF LoadModule
<1>. HIDE DEF l, m
<1>5. \A p \in ModSet : link'[p].q \in {link[p].q, << >>} /\ orphan'[p] \in {orphan[p], << >>}
  BY <1>1, <1>3, <1>4 DEF TypesD
<1>. QED  BY <1>1, <1>2, <1>5, EmptiedTold

\* run leaves only when no call is under way.
LEMMA ExitTold ==
    ASSUME TypesD, CallInv, AuditInv, Exit
    PROVE  AuditInv'
<1>1. /\ link' = [m \in ModSet |-> NoLink] /\ \A m \in ModSet : link[m].by = "none"
      /\ act' = act /\ UNCHANGED <<orphan, dseen, heard>>
  BY DEF Exit
<1>2. ASSUME NEW r \in Reqs PROVE act[r].pc # "wait"
  <2>1. ActorOK(r, act[r], link, dseen, loaded) /\ r # "none"
    BY ReqFacts DEF CallInv
  <2>. QED  BY <1>1, <2>1, StepsFacts DEF ActorOK, Calling, Holding
<1>3. \A m \in ModSet : link'[m].q \in {link[m].q, << >>} /\ orphan'[m] \in {orphan[m], << >>}
  BY <1>1, NoLinkType
<1>. QED  BY <1>1, <1>2, <1>3, EmptiedTold

LEMMA RunTold ==
    ASSUME TypesD, CallInv, Phases, AuditInv, RunStep \/ Signal \/ ListenerFails \/ DrainTimeout
    PROVE  AuditInv'
<1>1. "run" \in Actors
  BY StepsFacts
<1>2. CASE OpenStore \/ Signal \/ ListenerFails
  <2>1. UNCHANGED <<act, link, orphan, dseen, heard>>
    BY <1>2 DEF OpenStore, Signal, ListenerFails, rpcVars
  <2>. QED  BY <2>1, AuditUnseen
<1>3. CASE Loaded \/ DBind \/ Drained \/ DrainTimeout
  <2>1. PICK a \in {Notify("kdc_start"), NoAct, Notify("kdc_stop")} : act' = [act EXCEPT !["run"] = a]
    BY <1>3 DEF Loaded, DBind, Drained, DrainTimeout, Stopping
  <2>2. a \in Acts /\ a.pc # "wait"
    BY <2>1, BegunType, NoLinkType DEF PcAt
  <2>3. UNCHANGED <<link, orphan, dseen, heard>>
    BY <1>3 DEF Loaded, DBind, Drained, DrainTimeout, Stopping, rpcVars
  <2>. QED  BY <1>1, <2>1, <2>2, <2>3, FreshTold
<1>. QED  BY <1>2, <1>3, LoadTold, ExitTold DEF RunStep

-----------------------------------------------------------------------------
(* The theorems                                                            *)

LEMMA DInitInv == DInit => DInv
<1>. SUFFICES ASSUME DInit PROVE DInv
  OBVIOUS
<1>1. << >> \in Seq(Calls) /\ << >> \in Seq(Seen)
  OBVIOUS
<1>2. TypesD
  BY <1>1, NoLinkType DEF DInit, TypesD
<1>3. CallInv
  <2>1. ASSUME NEW x \in Actors PROVE ActorOK(x, act[x], link, dseen, loaded)
    <3>1. act[x].pc \notin Calling \union Replied /\ act[x].res # "ticket"
      BY NoLinkType DEF DInit, Calling, Holding, Replied
    <3>. QED  BY <3>1, FreshOK
  <2>2. \A m \in ModSet : IdsOK(link[m])
    BY NoLinkType DEF DInit, IdsOK
  <2>. QED  BY <2>1, <2>2 DEF CallInv
<1>4. Phases
  BY NoLinkType, ReqFacts DEF DInit, Phases
<1>5. WaitInv
  <2>1. OpenConns = {} /\ Cardinality({}) = 0
    <3>1. \A r \in Reqs : act[r].pc = "idle"
      BY NoLinkType, ReqFacts DEF DInit
    <3>2. OpenConns = {}
      BY <3>1, ReqFacts DEF OpenConns, Quiet
    <3>. QED  BY <3>2, FS_EmptySet
  <2>. QED  BY <2>1, NoLinkType, ReqFacts DEF DInit, WaitInv, Quiet
<1>. QED  BY <1>2, <1>3, <1>4, <1>5 DEF DInv, DInit

LEMMA ConfigKept == [DNext]_dVars => UNCHANGED dcfg
BY DEF DNext, dVars, mainVars, RunStep, WaitStep, TaskStep, CallStep, OpenStore, LoadModule, Loaded,
       DBind, Drained, DrainTimeout, Stopping, Exit, StopAccept, LoadCount, Woken, StopUdp, Signal,
       ListenerFails, SkipModule, TakeConn, ConnectModule, SendCall, ReadAnswer, CallTimeout,
       ModuleServes, ModuleServesOrphan, ModuleDies, ModuleStarts, RecvUdp, ReplyUdp, Accept,
       ReadRequest, ReplyTcp, Abort, Unlist, Leave

LEMMA DNextInv == DInv /\ [DNext]_dVars => DInv'
<1>. SUFFICES ASSUME DInv, [DNext]_dVars PROVE DInv'
  OBVIOUS
<1>. USE ConfigKept
<1>0. TypesD /\ CallInv /\ Phases /\ WaitInv /\ dcfg \in DConfigs
  BY DEF DInv
<1>1. CASE RunStep \/ Signal \/ ListenerFails \/ DrainTimeout
  BY <1>0, <1>1, RunKeeps, RunWaits DEF DInv
<1>2. CASE WaitStep \/ StopUdp
  <2>1. UNCHANGED <<act, link, orphan, dseen, loaded>>
    BY <1>2 DEF WaitStep, StopAccept, LoadCount, Woken, StopUdp, mainVars, rpcVars
  <2>. QED  BY <1>0, <1>2, <2>1, UnseenKeeps, WaiterWaits DEF DInv
<1>3. ASSUME NEW x \in Actors, CallStep(x) PROVE DInv'
  BY <1>0, <1>3, CallKeeps, CallWaits DEF DInv
<1>4. ASSUME NEW m \in ModSet,
             ModuleServes(m) \/ ModuleServesOrphan(m) \/ ModuleDies(m) \/ ModuleStarts(m)
      PROVE  DInv'
  <2>1. UNCHANGED <<dpc, late, act, udp, tcp, count>>
    BY <1>4 DEF ModuleServes, ModuleServesOrphan, ModuleDies, ModuleStarts, mainVars, netVars
  <2>2. TypesD' /\ CallInv'
    <3>1. CASE ModuleStarts(m)
      <4>1. UNCHANGED <<act, link, orphan, dseen, loaded>>
        BY <3>1 DEF ModuleStarts, mainVars, rpcVars
      <4>. QED  BY <1>0, <4>1, UnseenKeeps
    <3>. QED  BY <1>0, <1>4, <3>1, ServesKeeps, OrphanKeeps, DiesKeeps
  <2>. QED  BY <1>0, <2>1, <2>2, ModuleWaits DEF DInv
<1>5. ASSUME NEW r \in UdpReqs, RecvUdp(r) \/ ReplyUdp(r) PROVE DInv'
  BY <1>0, <1>5, UdpKeeps, UdpWaits DEF DInv
<1>6. ASSUME NEW r \in TcpReqs, Accept(r) \/ ReadRequest(r) \/ TaskStep(r) PROVE DInv'
  <2>1. TypesD' /\ CallInv'
    BY <1>0, <1>6, TcpKeeps
  <2>2. Phases' /\ WaitInv'
    BY <1>0, <1>6, AcceptWaits, OpenMoves, LeaveWaits DEF TaskStep
  <2>. QED  BY <2>1, <2>2 DEF DInv
<1>7. CASE UNCHANGED dVars
  <2>1. UNCHANGED <<act, link, orphan, dseen, loaded>> /\ UNCHANGED <<dpc, late, act, udp, tcp, count>>
    BY <1>7 DEF dVars
  <2>. QED  BY <1>0, <2>1, UnseenKeeps, ModuleWaits DEF DInv
<1>. QED  BY <1>1, <1>2, <1>3, <1>4, <1>5, <1>6, <1>7 DEF DNext

LEMMA AuditInit == DInit => AuditInv
<1>. SUFFICES ASSUME DInit PROVE AuditInv
  OBVIOUS
<1>1. \A r \in Reqs : act[r] = NoAct /\ act[r].pc # "wait" /\ act[r].k = 0
  BY ReqFacts, NoLinkType DEF DInit, NoAct
<1>2. \A m \in ModSet : link[m].q = << >> /\ orphan[m] = << >> /\ dseen[m] = << >>
  BY NoLinkType DEF DInit
<1>3. ASSUME NEW p \in Pairs, NEW r \in Reqs
      PROVE  Fine(p, r, act[r], link[p.mod], orphan[p.mod], dseen[p.mod])
  <2>. DEFINE m == p.mod
              t == TagOf(p, r)
  <2>1. ~In(<< >>, t) /\ Once(<< >>, t) /\ Says(<< >>, t, act[r].res)
    BY NoCalls
  <2>2. ~Sees(<< >>, t) /\ SeesOnce(<< >>, t) /\ Saw(<< >>, t, act[r].res)
    BY DEF Sees, SeesOnce, Saw
  <2>3. Told(p, t, act[r], link[m].q, orphan[m], dseen[m])
    BY <1>2, <2>1, <2>2, PairFacts DEF Told
  <2>4. Answered(p, t, act[r], link[m], dseen[m])
    BY <1>1 DEF Answered
  <2>. QED  BY <2>3, <2>4 DEF Fine
<1>4. Hears(heard, dseen)
  BY DEF DInit, Hears
<1>. QED  BY <1>1, <1>3, <1>4 DEF AuditInv

LEMMA AuditNext == DInv /\ AuditInv /\ [DNext]_dVars => AuditInv'
<1>. SUFFICES ASSUME DInv, AuditInv, [DNext]_dVars PROVE AuditInv'
  OBVIOUS
<1>0. TypesD /\ CallInv /\ Phases /\ dcfg \in DConfigs
  BY DEF DInv
<1>1. CASE RunStep \/ Signal \/ ListenerFails \/ DrainTimeout
  BY <1>0, <1>1, RunTold
<1>2. CASE WaitStep \/ StopUdp
  <2>1. UNCHANGED <<act, link, orphan, dseen, heard>>
    BY <1>2 DEF WaitStep, StopAccept, LoadCount, Woken, StopUdp, rpcVars
  <2>. QED  BY <2>1, AuditUnseen
<1>3. ASSUME NEW x \in Actors, CallStep(x) PROVE AuditInv'
  BY <1>0, <1>3, CallTold
<1>4. ASSUME NEW m \in ModSet,
             ModuleServes(m) \/ ModuleServesOrphan(m) \/ ModuleDies(m) \/ ModuleStarts(m)
      PROVE  AuditInv'
  <2>1. ASSUME ModuleStarts(m) PROVE UNCHANGED <<act, link, orphan, dseen, heard>>
    BY <2>1 DEF ModuleStarts, rpcVars
  <2>. QED  BY <1>0, <1>4, <2>1, ServesTold, OrphanTold, DiesTold, AuditUnseen
<1>5. ASSUME NEW r \in UdpReqs, RecvUdp(r) \/ ReplyUdp(r) PROVE AuditInv'
  BY <1>0, <1>5, UdpTold
<1>6. ASSUME NEW r \in TcpReqs, Accept(r) \/ ReadRequest(r) \/ TaskStep(r) PROVE AuditInv'
  BY <1>0, <1>6, TcpTold
<1>7. CASE UNCHANGED dVars
  <2>1. UNCHANGED <<act, link, orphan, dseen, heard>>
    BY <1>7 DEF dVars
  <2>. QED  BY <2>1, AuditUnseen
<1>. QED  BY <1>1, <1>2, <1>3, <1>4, <1>5, <1>6, <1>7 DEF DNext

\* A ticket leaves only with the consent of every loaded policy module to that
\* very request, whatever connections break and modules answer late
\* (RemotePolicy::check, Conn::call).
THEOREM PolicyHolds == DSpec => []FailsClosed
<1>1. DInv => FailsClosed
  <2>1. SUFFICES ASSUME DInv, NEW r \in Reqs, act[r].pc \in {"sent", "unlisted", "unlist"},
                        act[r].res = "ticket", NEW m \in loaded, IsPolicy(m)
                 PROVE  OkIn(dseen[m], r)
    BY DEF FailsClosed, OkIn
  <2>2. r \in Actors /\ r # "run" /\ m \in ModSet
    BY <2>1, ReqFacts DEF DInv, TypesD
  <2>3. ActorOK(r, act[r], link, dseen, loaded) /\ act[r].pc \in Replied /\ act[r] \in Acts
    BY <2>1, <2>2 DEF DInv, CallInv, TypesD, Replied
  <2>4. act[r].k > Len(Steps) /\ Allowed(r, act[r].k, dseen, loaded) /\ act[r].k \in Nat
    BY <2>1, <2>2, <2>3 DEF ActorOK, Acts
  <2>5. PICK j \in 1 .. Len(Steps) : ModAt(j) = m
    BY <2>1, StepsFacts
  <2>6. j < act[r].k
    <3>1. Len(Steps) \in Nat
      BY StepsFacts
    <3>. QED  BY <2>4, <2>5, <3>1
  <2>. QED  BY <2>1, <2>4, <2>5, <2>6 DEF Allowed
<1>. QED  BY DInitInv, DNextInv, <1>1, PTL DEF DSpec

\* The wait for open connections never misses the last one's end, and an
\* orderly shutdown leaves no request half done (InFlight, Notify::enable).
THEOREM ShutdownWaits == DSpec => []NoLostWakeup
<1>1. DInv => NoLostWakeup
  <2>1. SUFFICES ASSUME DInv PROVE NoLostWakeup
    OBVIOUS
  <2>2. ~(tcp = "await" /\ count.n = 0 /\ ~count.woken)
    BY <2>1 DEF DInv, WaitInv
  <2>3. ASSUME dpc = "stop", ~late, NEW r \in Reqs PROVE act[r].pc \in Quiet
    <3>1. udp = "ended" /\ tcp = "ended" /\ count.n = 0 /\ count.n = Cardinality(OpenConns)
      BY <2>1, <2>3 DEF DInv, WaitInv
    <3>2. CASE r \in UdpReqs
      BY <2>1, <3>1, <3>2, ReqFacts DEF DInv, WaitInv
    <3>3. CASE r \in TcpReqs
      <4>1. OpenConns = {}
        BY <3>1, OpenFinite, OpenFacts
      <4>. QED  BY <3>3, <4>1 DEF OpenConns
    <3>. QED  BY <3>2, <3>3 DEF Reqs
  <2>. QED  BY <2>2, <2>3 DEF NoLostWakeup, Quiet
<1>. QED  BY DInitInv, DNextInv, <1>1, PTL DEF DSpec

\* No audit module is told twice of the same thing about a request, and one
\* that answered was told, however its connection broke and whatever it still
\* reads from one that was closed; what it is told is the result that was
\* reached, whether the client gets it or is sent to TCP for it
\* (RemoteAudit::req, call_blocking, kau_request, handle_udp_from_at).
THEOREM AuditOnceHolds == DSpec => []AuditedOnce
<1>1. DInv /\ AuditInv => AuditedOnce
  <2>0. SUFFICES ASSUME DInv, AuditInv PROVE AuditedOnce
    OBVIOUS
  <2>1. SUFFICES ASSUME NEW m \in loaded, NEW r \in Reqs, ~IsPolicy(m)
                 PROVE  \A c \in Events :
                          /\ SeesOnce(dseen[m], <<r, c>>)
                          /\ <<r, m, c>> \in heard => Sees(dseen[m], <<r, c>>)
                          /\ Saw(dseen[m], <<r, c>>, act[r].res)
    <3>1. \A m \in loaded : \A i \in DOMAIN dseen[m] : dseen[m][i].call \in Events
      <4>1. SUFFICES ASSUME NEW m \in loaded, NEW i \in DOMAIN dseen[m]
                     PROVE  dseen[m][i].call \in Events
        OBVIOUS
      <4>2. PICK s \in Seq(Seen) : s = dseen[m] /\ i \in DOMAIN s
        BY <2>0 DEF DInv, TypesD
      <4>3. s[i] \in Seen
        BY <4>2, LenProperties, ElementOfSeq
      <4>. QED  BY <4>2, <4>3 DEF Seen
    <3>2. AuditCalls \subseteq Events
      BY DEF Events
    <3>3. ASSUME NEW m \in loaded, NEW r \in Reqs,
                 \A c \in Events :
                   /\ SeesOnce(dseen[m], <<r, c>>)
                   /\ <<r, m, c>> \in heard => Sees(dseen[m], <<r, c>>)
                   /\ Saw(dseen[m], <<r, c>>, act[r].res)
          PROVE  /\ \A i, j \in DOMAIN dseen[m] :
                      dseen[m][i].who = r /\ dseen[m][j].who = r /\ dseen[m][i].call = dseen[m][j].call
                        => i = j
                 /\ \A c \in AuditCalls : <<r, m, c>> \in heard =>
                      \E i \in DOMAIN dseen[m] : dseen[m][i].who = r /\ dseen[m][i].call = c
                 /\ \A i \in DOMAIN dseen[m] : dseen[m][i].who = r => dseen[m][i].res = act[r].res
      <4>1. \A i, j \in DOMAIN dseen[m] :
              dseen[m][i].who = r /\ dseen[m][j].who = r /\ dseen[m][i].call = dseen[m][j].call => i = j
        BY <3>1, <3>3 DEF SeesOnce, Tag
      <4>2. \A c \in AuditCalls : <<r, m, c>> \in heard =>
              \E i \in DOMAIN dseen[m] : dseen[m][i].who = r /\ dseen[m][i].call = c
        BY <3>2, <3>3 DEF Sees, Tag
      <4>3. \A i \in DOMAIN dseen[m] : dseen[m][i].who = r => dseen[m][i].res = act[r].res
        BY <3>1, <3>3 DEF Saw, Tag
      <4>. QED  BY <4>1, <4>2, <4>3
    <3>. QED  BY <3>3 DEF AuditedOnce
  <2>2. m \in ModSet
    BY <2>0, <2>1 DEF DInv, TypesD
  <2>3. ASSUME NEW c \in Events
        PROVE  /\ SeesOnce(dseen[m], <<r, c>>)
               /\ <<r, m, c>> \in heard => Sees(dseen[m], <<r, c>>)
               /\ Saw(dseen[m], <<r, c>>, act[r].res)
    <3>. DEFINE p == [mod |-> m, call |-> c]
    <3>1. p \in Pairs /\ p.mod = m /\ TagOf(p, r) = <<r, c>> /\ HeardOf(p, r) = <<r, m, c>>
      BY <2>2 DEF Pairs, TagOf, HeardOf
    <3>. HIDE DEF p
    <3>2. Told(p, <<r, c>>, act[r], link[m].q, orphan[m], dseen[m])
      BY <2>0, <3>1, CallFine
    <3>3. <<r, m, c>> \in heard => Sees(dseen[m], <<r, c>>)
      BY <2>0, <3>1 DEF AuditInv, Hears
    <3>. QED  BY <2>1, <3>1, <3>2, <3>3 DEF Told
  <2>. QED  BY <2>3
<1>. QED  BY DInitInv, DNextInv, AuditInit, AuditNext, <1>1, PTL DEF DSpec

=============================================================================
