# krb5-rs in TLA+

krb5-rs is a Kerberos implementation in Rust: a client library, a KDC with
several database back ends, the administration and propagation daemons, and a
replicated back end in which CockroachDB is the authority and every KDC serves
requests from a local Turso database. This directory holds TLA+ modules that
model it, TLC runs that check them on small instances, and TLAPS proofs of the
results that matter most. `PROJECT.json` lists the components, the runs, the
mutants that show each property can fail, the source lines behind each
definition, the hazards, the findings and the theorems.

## Running

    tlc -workers 2 -config MCReplication.cfg MCReplication
    tlapm Replication_proofs.tla

A `.cfg` belongs to the `MC` module its name begins with.

## The system's parts

| Part | State it keeps | Operations | What makes it hard | What makes it correct |
|---|---|---|---|---|
| CockroachDB authority (`krb5-rs-kdb-cockroach`) | entity rows with their MVCC versions, `replication_log` in buckets, `replication_meta.pruned_before`, `auth_state`, `lockouts`, transaction markers | administrative transactions, `poll`, `snapshot`, `prune`, `apply` of a lockout counter, `report_lockout`, `security_state`, `run_tx` | commit timestamps later than the bucket a transaction logs in, pruning between any two reads, ambiguous commits | a read at T sees every change at or below T, now and later; a transaction applies once |
| Replication engine (`src/kdc/replication/engine.rs`) | `StatusSnapshot`, what a cycle carries between awaits | `cycle`, `rebuild`, heartbeats, retry loop | failures and restarts at every await, batches cut at a limit | the replica is the authority at the checkpoint, and gets there |
| Turso replica (`krb5-rs-kdb-turso`) | the database `CURRENT` names, its checkpoint, local counters | `apply`, `begin_rebuild`/`write`/`commit`, `auth_state` | a rebuild's swap racing counter writes, a crash during it | one consistent database after any crash, no counted failure lost |
| Consistency gates | none of their own; they read the status and the authority | `FreshnessGate::check`, `StrictGate::check` | times sampled at different moments, entries looked up before the check | nothing is issued from state older than promised |
| Account lockout (`src/kdc/lockout.rs`, `store.rs`) | counters, shared and local; report queue | `check_lockout`, `audit_as`, `mirror`, the reporter | check, audit and update are separate transactions on several KDCs | the threshold holds, a delete is clean |
| KDC requests (`as_req.rs`, `tgs_req.rs`, `s4u.rs`, `policy.rs`) | none between requests | AS, TGS, S4U | chains of tickets built from each other while principals change | no chain reaches further, or lasts longer, than policy allows |
| Preauthentication and FAST | a cookie the client carries | rounds of a mechanism | replayed or foreign cookies, stale replicas | a ticket only after the proof, an honest user is not refused |
| KDC daemon and its modules | phases of `run`, tasks, connections to modules | start, serve, call modules, drain, stop | calls that time out, modules that crash, a waiter and its last guard | a module's refusal is never lost, a stop waits for its requests |
| File and klmdb back ends | a file, LMDB environments, caches of them | `modify_file_as`, transactions, `load`, `refresh` | locks, rewrites, crashes between database and log | a reader sees a whole database, the log matches |
| Administration (`kdb/admin.rs`, kadmind, `kpasswd`) | entries, policies, password history | create, modify, change password, rename, delete | reads and writes in separate transactions of several threads | history exact, restrictions and lockdown hold |
| Master keys | the `K/M` list, wrapped keys, the stash | add, use, update, purge | writers and readers with a stale list | every stored key stays decryptable |
| iprop and kprop (`mit/ulog.rs`, `kprop.rs`, daemons) | the circular update log, serial numbers, dump files | log, read updates, reset, full dump, load | wrap-around, a replica behind the ring, crashes between log and database | a replica taken to be up to date is; a replica holds a whole dump |
| Client exchanges (`src/protocol`, `src/client`) | the exchange's state | AS loop, TGS referral chase, S4U, retries | replies of any kind, referrals that loop, caches others change | the loop ends, with the ticket asked for |
| Location and transport (`src/locate`, `src/transport`) | connections and their deadlines | passes over servers, UDP then TCP | late answers, partial failures | no acceptable answer is lost, and it ends |
| AP exchange, GSS-API, RPCSEC_GSS | keys, sequence numbers, windows | tokens, wrap and unwrap, calls | reordered, repeated, reflected and lost messages | a message is accepted once and in its context; both sides agree |
| Credential caches | files, a collection's primary, keyrings, KCM | store, retrieve, list, switch, replace | concurrent processes without locks | listings complete, replacements whole |

The parts interact like this. Administrators write to the authority, or to the
file or klmdb database of a primary, whose update log and dumps `kpropd` brings
to replicas. Each CockroachDB KDC's engine polls the authority and applies
batches to its replica; it publishes a status that the gate, the readiness
endpoint and the heartbeats read. An AS request looks its client and server up,
asks the gate (which in strict mode reads the authority), validates, checks the
lockout counters (in CockroachDB while it can be reached, in the replica
otherwise), verifies the preauthentication and audits the outcome, which may
queue a lockout report that becomes a replicated row. The daemon's tasks call
the policy modules before a ticket leaves and the audit modules after it. A
client finds the servers, sends, retries, follows referrals and files the
tickets in a cache; applications use them in an AP exchange or a GSS context.

## The modules

| Module | Models | Run |
|---|---|---|
| `Replication` | log, prune, poll, snapshot, engine and sink of one replica | `replication`, `replication_live` |
| `ReplicaView` | what a KDC is promised of its store: the authority's state at a timestamp that only grows | refined by `Replication` |
| `Gate` | engine status, freshness and strict gate, the AS request they guard | `gate` |
| `Lockout` | counters, fallback, mirror, reports, rebuild commits and the administrator, for one principal | `lockout` |
| `UpdateLog`, `Iprop` | the ring of updates as functions; a primary, its resync tasks and a replica's kpropd over them | `iprop` |
| `MasterKeys` | K/M, wrapped keys, the rotation commands, kadmind and the KDC's refreshing threads | `mkeys` |
| `AsExchange` | the client's step machine, the KDC's handler, FAST, cookies and the retry against primaries | `as_exchange` |
| `Tgs` | the ticket-granting service of a graph of realms, with delegation and transit checks | `tgs` |
| `Ccache`, `TgsClient` | FILE and DIR caches shared with another program; the client calls over them | `tgs_client` |
| `Admin` | kadmind's and kpasswd's threads over a transactional store | `admin` |
| `SeqWindow`, `Negoex`, `GssMechs`, `Gss` | the windows, NegoEx and the mechanisms as functions; two applications, their context, messages and RPCSEC_GSS calls | `gss` |
| `SendTo` | server lists, connections, passes, windows and the deadline of one exchange | `services` |
| `KdcDaemon` | the daemon from start to exit, its tasks and the modules it calls over RPC | `services` |
| `ApContext`, `ApChannel` | the authentication context as functions; two of them over a hostile network | `services` |
| `Kprop` | dump, push, reception, load and acknowledgement of a full propagation | `services` |
| `Collection` | keyring and KCM collections, one kernel call or request to a step | `services` |
| `AuthorityTx` | the pool, the retry protocol and the commit markers of `run_tx` | `services` |
| `*_proofs` | theorems, see below | |

`Gate` and `Lockout` build on `ReplicaView`: in both, the replica is the
authority at an earlier time, which `Replication` shows. `Kprop` sends its
blocks with `ApContext`, `GssMechs` its AP messages. `MCServices` runs six
systems that share no state in one specification; each behaviour is one of
them.

### Replication

`rows` and `log` hold every version ever committed, with its commit timestamp;
what a read at `t` sees is computed from them (`RowAt`, `LogAt`), pruned rows
left out. CockroachDB is external: a commit may not land at or below a read of
the spans it writes (`readlog`, `readrow`, its timestamp cache), and a
transaction logs in the bucket of its start, at most `Overlap`
(`transaction_timeout` + `COMMIT_SKEW_MARGIN`) before its commit. The engine is
a program counter over the awaits of `cycle` and `rebuild`; `job` is what it
carries between them. `Poll` is `CockroachStore::poll` in one read transaction,
`MaterializeTruncated` its second transaction after a truncated batch, `Apply`
and the rebuild's steps the sink's commits, `Publish` the status writes. `Fail`
is an error at any await, `Crash` a restart. Row contents are model values: the
SQL of each entity only moves them.

* `ReplicaExact`: the replica is the authority's state at its checkpoint.
* `StatusDurable`: what the status vouches for is durable.
* `ImplementsView`: the engine implements `ReplicaView`, under the refinement
  that reads the view off the installed database; its checkpoint only grows.
* `CatchesUp`: once failures stop, every timestamp is eventually served, unless
  the manual rebuild policy has closed the gate.

Bounds: two entities, three timestamps and three versions are enough for a batch
that is cut between two commits, a second change of an entity already in a
batch, a tombstone that is pruned, and a transaction that commits two buckets
after it began; one prune meets every step of a poll and of a rebuild. The
liveness run has one entity, because its property is about the checkpoint.
Fairness: `run` loops for ever, so each of its steps is weakly fair, as is the
clock. Failures and crashes eventually stop: a rebuild has to copy all pages in
one attempt, so with failures for ever it need not finish.

### Gate

Time is the length of `hist`, the authority's state at each time. A poll or a
snapshot samples the authority's clock, takes up to `MaxPoll`, and is then
observed with `Instant::now()`; `status` holds the lag and the observation, as
`StatusSnapshot` does. A request is a program counter over its lookups, the
freshness check, one authoritative read per subject and validation.

* `OpenBounded`: while the gate is open the replica is at most
  `max_staleness + MaxPoll` old. The second term is the duration of one read: it
  is in neither the lag nor the elapsed time.
* `StrictUpToDate`: with the strict gate no ticket is issued for a principal the
  authority had disabled, deleted or locked when it was asked, nor with keys it
  had replaced, as long as the name is still the same principal's and the keys
  are not ones `setkey` or `purgekeys` wrote. Those two calls go through
  `update_raw`, which keeps the epoch the gate compares (`SetRawKey`, and the
  field `raw` of an entry whose keys came that way); what the documentation
  says, that every key rotation or revocation bumps it, is `StrictReplaced`,
  which is false.

Bounds: two subjects and four moments, so that the bound of `OpenBounded` (2) is
below the greatest age possible (3), and every change of either subject falls
between every two steps of a request; two changes by the administrator
(`MaxWrites`; the two configurations of findings need three and four).

### Lockout

One principal; a setting names the KDCs, requests, network, administrator's
operations, crashes and rebuilds of a behaviour. A request goes through
`check_lockout`, verification, the audit's read, its update and, in between, the
mirror of each shared state into the local store. `tried` counts the wrong
passwords since the count restarted; nothing in the model reads it.

* `ThresholdHolds`: after `pw_max_fail` wrong passwords only the other requests
  already in flight can try one more each: realm-wide while the counters are
  shared, on the one KDC when it is cut off. It is stated for settings in which
  there is one count (`OneCount`): an unlock, an expired lock or a change from
  shared to local counters starts another.
* `DeletedClean`: no login leaves counters behind for a deleted name.

Bounds: a threshold of two is the least at which a failure can be lost without
locking at once; two requests on two KDCs race every transaction. One setting
has a KDC that is cut off, with two rebuild commits and a restart; one has three
administrative operations, an outage, a count interval and a lock of one second
over three seconds, and one request.

### UpdateLog and Iprop

`UpdateLog` gives `ulog.rs` as functions of a header and a ring: add, replay,
reset, map (`CheckOnMap`) and read. `Iprop` adds who runs them: writers of the
file store (database first, then the log, all under the log's lock) and of klmdb
(one transaction, then the log), the load of a dump, kadmind's iprop service with
its resync tasks (dump, then kprop), and kpropd, whose poll loop and listener
share one thread. `Fault` is one crash, lost call, slow transfer or failed write.
A reset is an entry and then a header: a process may die between the two
(`ResetCut`, the `...CutOff` actions), whoever was resetting and why. What
`get_entries` cannot decode it answers with an error, on which kpropd exits and
is started again (`HandleError`).

* `RingConsecutive`: a stable log is a window of consecutive serials, each in
  its slot, except for slot 0 while the dummy of a reset that was cut off is
  there (`Torn`); and from whichever entry a replica asks, an answer that brings
  updates brings the ones that follow it, in order and committed.
* `SyncedIsEqual`: a replica whose position is the primary's has the primary's
  database, except for two sets of names. `lost`, until the log is next reset:
  what a writer or load that died between database and log, or a klmdb log write
  that failed, left unlogged. `rlost`, until the replica's next complete load:
  what changed between the two reads of its dump, what a load that died over the
  old position had replaced, and what a reply was applied to after a load
  overtook it. The documentation says of the first that the next poll repairs it;
  it does not (`CrashRepaired` below). The property says there is no other way.

Bounds: two slots and four serials wrap the ring twice; two resync tasks overlap.

### MasterKeys

K/M's keys, auxiliary data and activation times are sequences as in the code; a
key is an identity and ciphertext the identity it was made under. A command
takes its steps (fetch the list, scan, edit K/M, stash); kadmind reads its list
and writes later; the KDC's threads refresh list and cache under two locks.

* `EntriesReadable`: rotation one command at a time loses no entry, except one
  written between a purge's scan and its edit, or into klmdb under a list that is
  no longer the stored one (`exposed`): those are the entries a purge can lose.
* `KeysAgree`: an active key, a stash that opens K/M, and no daemon with another
  key of the same version.

`clash` marks overlapping commands, which nothing in the code excludes;
`UpToClash` stops the search there.

### AsExchange, SendTo, Tgs, TgsClient

`AsExchange` takes one request at a time through the client's mechanisms and a
KDC chosen among a primary and a stale replica; keys are versions.
`Protected`: a ticket only after the proof, armor and reply key the exchange
called for. `NotRefused`: a user whose password stayed valid at the primary gets
a ticket. `Ends`: restarts, fallbacks and retry do not feed on each other; the
fairness is that a client's loop and a KDC that got a request go on. The
configurations include FAST off (what `acquire_tgt_primary` uses) against a stale
replica, freshness tokens offered and required, a retry that is referred to a
realm without primaries (`LocateFails`), and KDCs of another kind that refuse
informational padata (`Reply`, external), on which the client restarts without it.

`SendTo` is one exchange: lists from the profile or DNS, connections, passes and
windows. `NoAnswerLost`: before the deadline, an exchange reported unreachable
had no acceptable reply. `TcpWaitedFor`: nor was a server left that has the
request over TCP and may still answer (proved only; no run lists it).
`ExchangeEnds`: with a deadline it ends; the loop and the deadline are fair.

`Tgs` handles a request in one step, because the handler keeps no state; the
tickets issued are the state. `TransitSound`, `DelegationSound` and the action
property `NothingOutlives` say what no chain of requests can do: hide a realm it
came through, delegate a user without a list's consent, or outlive the AS
exchange. A realm is a sequence of labels, and the path between two realms is
computed from the names or taken from `[capaths]` (`WalkRealmTree`), as
`find_alternate_tgs` and `check_transited_list` do. Its configurations hold one
family of requests each (referrals, renewals, user-to-user, S4U2Self, S4U2Proxy
in one realm and across, evidence that came through a third realm).

A ticket remembers two ways: `via`, the realms that issued the header tickets it
was asked with, and `evi`, those of its evidence. `TransitSound` is about the
first. The second is not in the new ticket's list and is not looked at again when
its checked flag is set (`tgs_req.rs:728-764` starts from the header's list, as
MIT's `do_tgs_req.c` does): `EvidenceTold` states that it would be, and TLC refutes it under
`MCTgs.cfg` with `FarEvidence`. What keeps evidence from a realm off the path out is `RejectHolds`:
with `reject_bad_transit` its issuer would have refused it.

`TgsClient` runs one client call after another over `Ccache`, against KDCs that
answer anything that decodes and a program that edits the caches between any two
lookups (choosing a cache out of a collection is one step). A credential carries, beside the names it is filed under, the
client and server of the ticket in it. `RightTicket`: a call returns a ticket of
the client it was made for and of the server asked for (or of another name of
it that DNS, or a KDC asked to canonicalize, may give; never a referral TGT),
and the last S4U2Proxy request has the service's own TGTs of the target realm.
`acquire_cred_with_password` is different: its AS exchange asks for
`CANONICALIZE`, so the reply's client and server are not held against the
request and referrals may change the realm. What it finds in a cache is the TGT
of the client asked for; what it gets is under the name of the ticket's own
client, and the cache it returns is that client's and holds the ticket unless
another program was at the caches. `PasswordClient` states that it is the client
asked for, and is false. `Ends`: a call returns, if every send returns (`SendTo`).

### Admin

Two threads; a call reads to authorize (`Check`), reads the policy and history
key (`Plan`) and writes in one transaction. `RestrictionsHold`: a principal only
a restricted administrator touched has the attributes, the life and the policy
the ACL forces, except the need to change the password, which a key change
clears, and a life asked for as 0 or below. `StoredLife` is the cast of
`principal_options`: impose compares the life as an `i32`, so 0 and negative
ones pass every limit, and they are stored as no maximum and as one above 2^31;
`LivesCapped` states the limit without the exception and is false. `MaxLife`
stands for 2^31 - 1. `HistoryKept`: the ring of old passwords is exact and nothing in it is set again under the same
history key. `WritesAllowed`: no call writes over an entry it may not write.

### Gss

`GssMechs` and `Negoex` are functions from a side's state and a token to its next
state; `Gss` passes tokens, then messages, through a network that loses, reorders
and repeats, or RPCSEC_GSS calls. `NoFalseAlarm` and `ContextsAgree`: a
compatible pair always ends established, with the same mechanism and keys.
`SeqExact`: a message's status tells what became of it. `AtMostOnce`: a call is
run at most once and no reply is taken for another's. `Width` is 3 bits instead
of 64 and 32, and messages go beyond it.

### KdcDaemon

`dpc` is where `run` is; every request and `run` itself is an actor whose program
counter goes through the calls it may have to make (`Steps`): one to each policy
module, then to each audit module one for every thing the request was, as
`kau_request` loops over the modules for `s4u2self`, `s4u2proxy`, `u2u` and
`tgs_req` in turn, or for `as_req` alone. `act.ev` says which of them this request
is, and `SkipModule` passes over the others. A call takes the connection's lock,
connects and sends INITIALIZE if need be, sends, waits and takes the answer. A failed call drops the connection;
what was written to it stays in `orphan`, and the module may still do it.
`ModuleDies` and `ModuleStarts` happen at any time. `count` is `InFlight`, with
`tokio::sync::Notify` as one bit that is set only while a waiter is enabled.

* `FailsClosed`: a ticket leaves only if every loaded policy module has allowed
  that request.
* `AuditedOnce`: an audit module is told of each thing a request was (up to four
  for a TGS request) at most once, always with the result the request reached,
  and was told of it when it answered. The result is not always what the client
  gets: `handle_udp_from_at` replaces a reply that is too long for a datagram by
  `KRB_ERR_RESPONSE_TOO_BIG` (`toobig`) after the ticket in it was reported
  (`ToldAsSent`, which does not hold).
* `NoLostWakeup`: the wait for open connections never misses the last one's end,
  and a stop that did not time out leaves no request half done.

### ApChannel, Kprop, Collection, AuthorityTx

`ChannelExact`: nothing out of order, repeated or reflected is accepted, and
nothing in order and in time refused; byte-sized sequence numbers of two bits
let every first number of a peer that encodes them signed be tried. What the
network repeats and reflects goes to the service's side, and the cipher state
chains as under the aes-sha1 enctypes.
`ReplicaWhole`: replicas hold whole dumps, and a push that was reported is one.
`ReplicasRefilled`: a replica that answers has the present database again and
again, if the interval loop, the pushes, the handlers and the kernel's end of a
hung connection are fair. A kpropd that is started again accepts at once, beside
a load its predecessor started (`orphan`), which opens the file by name and
replaces the database whenever it gets to it. `ListedOnce` and `WholeCache`: a listing names every
cache that stayed, once; a KCM replacement is read whole or not at all.
`AppliedOnce`: a body takes effect at most once and once when `run_tx` says so,
given a server whose marker read settles a COMMIT under way (`MarkerFinal`).
`PoolClean`: no pooled connection is in a transaction.

## Runs

| Run | Distinct states | Properties |
|---|---|---|
| `replication` | 942,220 | `TypeOK`, `ReplicaExact`, `StatusDurable`, `ImplementsView` |
| `replication_live` | 137,779 | `CatchesUp` |
| `gate` | 4,006,137 | `OpenBounded`, `StrictUpToDate` |
| `lockout` | 3,677,619 | `ThresholdHolds`, `DeletedClean` |
| `iprop` | 3,902,924 | `RingConsecutive`, `SyncedIsEqual` |
| `mkeys` | 1,054,947 | `EntriesReadable`, `KeysAgree` |
| `as_exchange` | 543,331 | `Protected`, `NotRefused`, `Ends` |
| `services` | 974,909 | `NoAnswerLost`, `ExchangeEnds`, `ChannelExact`, `ReplicaWhole`, `ReplicasRefilled`, `FailsClosed`, `AuditedOnce`, `NoLostWakeup`, `ListedOnce`, `WholeCache`, `AppliedOnce`, `PoolClean` |
| `tgs` | 180,541 | `TransitSound`, `DelegationSound`, `NothingOutlives` |
| `tgs_client` | 591,536 | `RightTicket`, `Ends` |
| `admin` | 493,872 | `RestrictionsHold`, `HistoryKept`, `WritesAllowed` |
| `gss` | 242,933 | `NoFalseAlarm`, `ContextsAgree`, `SeqExact`, `AtMostOnce` |

Deadlock is not checked where the system may stop: a client that has made its
calls, a daemon that has exited, bounds on writes and faults.

### Where code and documentation disagree

Each of these is a counterexample TLC finds when the property is checked in the
configuration named; `findings` in `PROJECT.json` quotes both sides.

| Property | Configuration | What happens |
|---|---|---|
| `IssuedWithinWindow` | `MCGateStale.cfg` | the entry was looked up before the gate was asked |
| `StrictRecreated` | `MCGateRecreate.cfg` | epochs start over when a name is created again |
| `StrictReplaced` | `MCGateRecreate.cfg` | `setkey` and `purgekeys` leave the epoch as it was |
| `UnlockLifts` | `MCLockoutUnlock.cfg` | a queued report undoes an unlock |
| `LockHolds` | `MCLockout.cfg`, `Settings <- Held` | a success that read before a lock clears it |
| the bound of `ThresholdHolds`, not confined to `OneCount` | `MCLockout.cfg`, `Settings <- Late` | a late failure moves `last_failed` back |
| `DumpComplete` | `MCIprop.cfg`, `Setups <- FileOne` | a dump's header is read after its entries |
| `ResetsWhole` | `MCIprop.cfg`, `Setups <- FileOne` | a process dies between a reset's entry and its header |
| `CrashRepaired` | `MCIprop.cfg`, `Setups <- FileOne` | the poll after a crash between commit and append is told it is up to date |
| `KdcFollows` | `MCMasterKeys.cfg`, two threads, file store | an older list is put under newer entries |
| `RetransmitsAll` | `MCServices.cfg` | a killed connection shifts the list a loop indexes |
| `NoUnilateralDelegation` | `MCTgsClient.cfg` | ok-as-delegate of the final ticket is kept |
| `PasswordClient` | `MCTgsClient.cfg` | the cache of the client is made anew for the client the KDC names |
| `LockdownAlways`, `MinLifeKept`, `NoReuseEver` | `MCAdmin.cfg` | checks made in an earlier transaction, or by another key |
| `LivesCapped` | `MCAdmin.cfg` | a requested life of 0 passes the limit and is stored as none |
| `SeqAlwaysExact` | `MCGss.cfg`, `Configs <- WindowConfigs` | a shift by the word's width |
| `NobodyLeft` | `MCGss.cfg`, `Configs <- OldConfigs` | the pre-RFC OID |
| `SignalHeeded`, `StopLast` | `MCServices.cfg` | a swallowed SIGTERM; events after `kdc_stop` |
| `ToldAsSent` | `MCServices.cfg` | a success is reported and the reply then replaced by RESPONSE_TOO_BIG |
| `ExpiresWithLast` | `MCServices.cfg` | a keyring's time-out below its last credential's |
| `OutputCommitted` | `MCServices.cfg` | the output of an attempt that did not commit |

`MCIpropLive.cfg` checks `CatchesUp` of `Iprop` (with fairness of the daemons'
steps and timers) and takes longer than the other runs. The replica may stay
behind only while the log is `Torn`: its question is then answered with an error.

## Proofs

Every theorem holds for every value of the constants that satisfies the
assumptions its component's module names.

`Replication_proofs`: `TypeCorrect` and `Exactness` (`ReplicaExact`), for every
set of keys and values, bucket width, overlap, batch limit, follower lag and
retentions, and both rebuild policies. `ReplicaExact` is not inductive: a later
commit could land at or below the checkpoint, or what the engine carries from
one await to the next could become stale. `IInv` adds that a checkpoint is
closed (`Closed`: every bucket a commit at or below it could log in, or every
row, was read above it), that log and rows match, that a row has one version per
timestamp, and what holds of `job` at each program counter: the fetched log rows
cover every change up to the batch's end (`FetchedCovers`), the changes lead
exactly there (`BatchExact`), copied pages are the snapshot's. The arguments
that carry the proof are `ScanCloses` with `ScanCovers` (the overlap makes a
scan see, and close, every commit up to its end) and `CommitAboveClosed` (a
commit lands above every closed timestamp).

Also in `Replication_proofs`: `VouchedDurable` (`StatusDurable`) and
`Implementation` (`ImplementsView`): initial states map to initial states of `ReplicaView` and
every step to a step or a stutter. Both need that a rebuild's snapshot is not
older than the checkpoint it replaces, and that is so only if what is pruned is
older than a follower can lag: they assume `LagWithinRetention`. The code does
not enforce it (`prune --older-than` takes any duration, and a test prunes with
zero); without it a rebuild can take a replica back in time, and the status then
vouches for a checkpoint the database has not reached.

Of `Kprop`, the other way to keep a replica, `Replication_proofs` has
`ReplicasWhole` (`ReplicaWhole`), for every number of replicas, stalled ones
among them, of versions, records, connections and failures, with kpropd run
standalone. The assumptions are about the shape of the constants
(`KpropAssumption`, `ApAssumption`). Nothing about the database is inductive
while a dump is on its way, so `KInv` follows the dump through each place it can
be in. `ConnOK`: a message in the queue of a connection carries the size or the
record that its number calls for, counted from what the handler has read
(`HandlerRead`). `FileOK`: the file a handler writes has its temporary name, is
nobody else's and is exactly the prefix the handler has read, and after the rename
the file to load is the whole dump; one handler to a host makes that stable, which
is what inetd does not give. `OrphanOK`: the file that a load left behind by a
dead kpropd has opened is a whole dump that no handler writes. `PairOK` counts messages and answers on a pusher's
connection, so that a third answer means a load. `QueueOK` keeps a connection
waiting from being accepted twice. Most steps change one connection: `OneConn`
says what is to be shown then, `ClientGoes` and `HandlerGoes` specialise it to
either end, and `ManyConns` serves a load, which marks every connection it makes
true, and a restart, which cuts them.

`Kdc_proofs`, of `Gate`: `GateBound` (`OpenBounded`), for every window, follower lag and
read duration. The invariant relates the published freshness to the checkpoint
on disk (`StatusMatches`), with the exception of the moment between a rebuild's
swap and its publication, which `rebuilding` covers (`JobMatches`).
`StrictGateSound` (`StrictUpToDate`), for any number of subjects: `HistoryInv`
says that between two states of one principal the epoch never goes back and that
equal epochs mean equal keys unless the later ones were written raw; `RequestInv`, that every subject before the one a
request is at has passed its authoritative read.

`Lockout_proofs`: `CleanAfterDelete` (`DeletedClean`) and `Threshold`
(`ThresholdHolds`), for any number of KDCs and requests. For the threshold,
`SteadyInv` says what does not change while one count goes on, and that a
rebuild's copy has the local counters, so that neither a restart nor a rebuild's
commit loses a counted failure. `CountInv` says that below the threshold no more
was tried than was counted, and that what was tried, together with the requests
that passed `check_lockout` and may still add a wrong password, stays within the
bound: above the threshold nobody joins them. As in the property, `OneCount` is
the hypothesis.

`Iprop_proofs`: `RingHolds` (`RingConsecutive`), for every ring size and largest
serial. The invariant describes the log at each of a writer's steps: a stable log
is a window but for its hole (`Window`, `Hole`), an unstable one still has a
header that a map, a reset or the second half of a store turns into one (`Ring`),
and between the halves the next number's slot is written (`Storing`). An answer
starts inside the window, or its range is as long as the ring and so meets the
dummy in slot 0 (`SlotZeroComes`), which is an error and no answer.

`Kdc_proofs`, of `KdcDaemon`: `PolicyHolds` (`FailsClosed`), `AuditOnceHolds`
(`AuditedOnce`) and `ShutdownWaits` (`NoLostWakeup`), for any modules, requests,
connections and failures. For the first, `CallInv` says that a caller in a call holds its module's connection,
that no message on a connection has a number above the connection's, that the
one with the connection's number is the caller's own call, so that an answer to
it means the module recorded its consent to that caller, and that a request
with a ticket has the consent of every loaded policy module before the one it is
at. An answer to an earlier caller cannot be taken for it, because a failed call
drops the connection and a new one starts its numbers again with an empty queue.
For the second, `AuditInv` follows every call, a module and what it is told
(`Pairs`), through the three places it can be: on the connection, on one that was
closed and that the module still reads, or done. `Told` says that a request's
call is in at most one of them and there once, that it is in none before the
request reached that step, and that a call to an audit module carries the result the request then has: only policy
modules change it, and they come first (`Moves`). `Answered` says that an answer
the caller would accept is that of a module that has acted. The proof needs the
modules to be distinct (`ModsAssumption`): an entry of the configuration, not
its program, is a module, and has a connection of its own. Then no two of the
steps are the same call (`StepsFacts`), which is shown part by part of their
concatenation (`Part`, `PartConcat`).
For the third, `WaitInv` says that the count is the number of open connections,
that only the request the UDP task handles is at work, that a TCP task that has
ended left none, and that a waiter with none left has been woken. `Phases` ties
all three to where `run` is: nobody calls while modules are loaded.

`Services_proofs`, of `AuthorityTx`: `AppliedOnceHolds` and `PoolCleanHolds`, for
any number of callers, connections, retries and failures. The first assumes `MarkerFinal`, as
the property's run does: that a server which answers a marker read has settled
every COMMIT before it. The code relies on it when it runs a body again.

`Services_proofs`, of `SendTo`: `AnswersKept` (`NoAnswerLost`) and `TcpAwaited`
(`TcpWaitedFor`), for every realm's servers and every number of passes. `Queued`
says that an answer that counts stays in the queue, even when its connection is
killed. `Between` is about the moment after a pass's last window: that window
closed on an empty queue with no established TCP connection, so an answer now
there came after it, and there is a pass and a connection left to wait in, or it
was too late. `Listed` says that a task at work has its connection in the list
and that only tasks of TCP connections read, which needs what `kill` leaves of
the list (`WithoutFacts`).

`Services_proofs`, of `Collection`: `CachesListed` (`ListedOnce`), for any number of
processes, caches, calls and daemon failures. `RingsOK` says that a serial
given out keeps its name for good and that a linked cache is found under its own
name. `Listing` is the inductive part: the keys a listing read have names of
their own, those it has still to visit are not listed yet unless they are the
primary, and while the daemon has answered, every cache linked since the
beginning is listed, or is still to be visited and is not the primary, which would
be passed over. It is a predicate of a call, the watched caches and the failures, so that one lemma
(`ListingKept`) carries it over a step of any other process, and one lemma per
phase (`ListingGathers`, `ListingAsks`, `ListingHeads`, `ListingTakes`) serves
both the keyring and KCM.

`Tgs_proofs`: `PathTold` (`TransitSound`), `DelegationAllowed`
(`DelegationSound`) and `NoneOutlives` (`NothingOutlives`), for every set of realm names,
realm graph, set of principals and limits (`TgsConfigs`: databases hold ordinary
principals, lives are whole numbers). A property of the tickets issued is not inductive,
because a ticket's fields vouch for what came before it; `TicketOk` says what a
later request may rely on when it uses the ticket as its header or its evidence.
`TgtOk`: a TGT held by another than its client was forwarded, only a referral's
PAC speaks of somebody else, and a TGT of its client's own realm has been nowhere
else. `FwdOk`: neither the client nor the PAC's client of a forwardable ticket is
one that must not be delegated. `EvidenceOk`: a forwardable service ticket proves
that its client came or that the service may speak for it. There is one lemma per
kind of request for each part.

The first attempt at these proofs failed for good reasons. With the principals
of one realm only, `TransitSound` also held in the form "every realm but the
client's and the issuer's"; a user of a third realm who is delegated by a service
whose own path goes through that realm refutes it, and the code says so
("unchanged unless this is a cross-realm request"). The property now excepts the
realm of the delegating service, and `MCTgs` has that case (`TwoRoutes`).
`SensitiveKept` likewise now says that the holder of a forwarded TGT of a
service gets that service's S4U2Self tickets.

`Admin_proofs`: `RestrictedObey` (`RestrictionsHold`) and `OnlyAllowedWrites`
(`WritesAllowed`), for every ACL, starting database, set of calls and number of
threads. The assumptions are about the shape of the constants, and that the
principals a database starts with were made by administrators without
restrictions. Neither property survives a step on its own, since the write comes
in a later transaction than the checks: `CallInv` says that a call that passed
them still carries the record the restrictions were imposed on (`Bound`), and
that an alias or a rename was asked by somebody without restrictions on the new
name. `MutexInv` says that while a module is loaded the pending kadm5 call is the
one `REQUESTS` is held for, and that what its lockdown check saw is still so: only
a kpasswd call can come in between, and it takes no attribute but
the need to change the password away. Nothing of that holds without a loaded module, which is the
finding about `lockdown_keys`. `HistoryKept` is not proved: that the ring is the
queue is arithmetic modulo its length over sequences.

`TgsClient_proofs`: `TicketsRight` (`RightTicket`), for every program of calls,
every starting cache, any other program's edits and any answers of KDCs; the
referral and step limits play no part in it. The assumptions are about the shape
of the constants (`TextsAssumption`), and that host-based services are not
`krbtgt`, that KDCs and other programs name somebody, and that the caches of the
start hold what KDCs issued (`ClientConfigs`). `ClientInv` says that every ticket
in a cache, in the other program's hands, in a store under way or in a result
belongs to the names it is filed under (`CachesOK`, `TypesOK`): lost and mixed
caches can make a call fail, or find another ticket, but never one under a
wrong name. `GetOK` and `PlainOK` tie a get_credentials call in progress, its own
or nested in an S4U call, to the client and server it runs for; `SelfOK` that the
user verified last is the client of the ticket; `Chains` that both chains of an
S4U2Proxy exchange stay with the service and end in the same realm. `HeldInv`
follows the cache of a password call from the match, or the truncation, to the
answer while nobody else is at it. There is one
lemma per action, and one per reply of each kind of exchange.

Only model-checked:

* liveness (`CatchesUp`, `Ends`, `ExchangeEnds`, `ReplicasRefilled`): outside
  the prover's reach;
* `MasterKeys`, `Admin.HistoryKept`, `Iprop.SyncedIsEqual`, `Gss` and
  `ApChannel`: their operators filter, fold or search sequences, whose
  properties need induction over data;
* `AsExchange`: within reach of the prover and not attempted;
* `WholeCache`: it is about configurations in which credentials come only from
  replacements, as those of its run do; a store or remove call beside them mixes
  what a cache holds, so that it is no property of every `CConfigs`.

## Left out of the modelled parts

* Of the authority: heartbeats and `wait_applied`, raw entries, schema
  migrations. Of the engine: the heartbeat task and metrics.
* Of a request: referrals, anonymous clients and S4U lookups in `Gate`;
  `disable_lockout` and policies without `pw_max_fail` in `Lockout`, under which
  nothing is counted; the TGS recheck of the lockout state.
* `modprinc -unlock` in `Gate`: it bumps the epoch and can only make a strict
  gate refuse more.
* Of clients: enctype selection, addresses, anonymity, password-change calls;
  `KDC_ERR_KEY_EXP` as the answer to an identifying client and
  `KDC_ERR_C_PRINCIPAL_UNKNOWN` as a referral.
* Of caches and keytabs: MEMORY caches, keytab files, the byte formats.
* Altogether: cryptography, ASN.1 and other encodings, the profile parser, PAC,
  PKINIT and SPAKE constructions, command lines and deployment files, and the
  LDAP back end, whose behaviour is the server's.

## Plan

1. Proofs: `Protected`, and the windows of `SeqWindow`.
2. Heartbeats and `wait_applied` composed with `Replication`: an administrator
   who waited is served by every KDC that is up.
3. Keytab files, which processes share like caches.
