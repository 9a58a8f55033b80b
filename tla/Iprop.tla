-------------------------------- MODULE Iprop --------------------------------
(***************************************************************************)
(* Incremental propagation of the file and klmdb databases from a primary  *)
(* to one replica: the writers of the primary (FileStore::modify_file_as   *)
(* and the load command), kadmind's iprop service and the resync tasks it  *)
(* spawns (dump, then kprop), and the replica's kpropd with its poll loop  *)
(* and its listener.                                                       *)
(*                                                                         *)
(* Grain.  A writer holds the update log and the database lock file from   *)
(* before the database is replaced until its updates are logged, so a      *)
(* reader of the log waits for it, and a reader of the database does not.  *)
(* kpropd runs on one thread and waits for the load child synchronously:   *)
(* a load and the replay of a reply exclude each other, while a load can   *)
(* come between a request and its reply.  Replicas do not interact, each   *)
(* has its own dump file, so one is modelled.                              *)
(*                                                                         *)
(* Data.  An entry is a function from attributes to versions; an update    *)
(* carries the attributes that changed.  All policies are one version.     *)
(* Stamps of the primary are a counter, those of the replica one value:    *)
(* they are only compared for equality, and a reset of the replica's log   *)
(* overwrites the only slot an earlier one stamped.                        *)
(***************************************************************************)
EXTENDS UpdateLog, FiniteSets, SequencesExt

CONSTANTS Setups,     \* <<db_library, resync tasks>> pairs to consider
          Keys,       \* principals
          Attrs,      \* attributes of an entry
          NoEntry,    \* no entry under a name
          NoFile,     \* no dump file yet
          Tasks,      \* resync tasks kadmind may have running at a time
          MaxVer,     \* bound on writes at the primary, by the number of tasks
          MaxFaults,  \* bound on crashes, lost calls and disk errors
          RepStamp    \* the clock of the replica

ASSUME SetupAssumption == Setups \subseteq {"file", "klmdb"} \X (SUBSET Tasks)

VARIABLES backend,    \* db_library of both hosts
          db, pol,    \* the primary's database file
          plog,       \* the primary's update log
          plock,      \* <database>.lock exists on the primary
          writer,     \* the write in progress: [pc, todo, reset, bulk]
          loading,    \* names changed by a command that has yet to reset the log
          ver, clock, \* version and stamp counters
          file,       \* the replica's dump file at the primary
          task,       \* the resync tasks
          rdb, rpol, rlog, rlock, \* the replica's database and log
          rpc,        \* where kpropd's poll loop is
          mylast,     \* position sent with the request
          reply,      \* its answer, then the updates still to be replayed
          asked,      \* frrequested is set and has not timed out
          faults,
          lost,       \* history: names whose last change the log does not have
          rlost,      \* history: names the replica's position does not speak for
          cut         \* history: a reset of the primary's log was cut off

pvars == <<db, pol, plog, plock, writer, loading, ver, clock, cut>>
tvars == <<file, task>>
rdata == <<rdb, rpol, rlost>>
rvars == <<rdata, rlog, rlock, rpc, mylast, reply, asked>>
vars == <<backend, pvars, tvars, rvars, faults, lost>>

Idle == [pc |-> "idle", todo |-> << >>, reset |-> FALSE, bulk |-> FALSE]
NoTask == [pc |-> "none", db |-> << >>, pol |-> 0, last |-> At(0, 0), lost |-> {}]
NoReply == [status |-> "none", updates |-> << >>]

Names == Keys \cup {"policy"}

MaxWrites == MaxVer[Cardinality(DOMAIN task)]

Init ==
  /\ \E s \in Setups : backend = s[1] /\ task = [t \in s[2] |-> NoTask]
  /\ db = [k \in Keys |-> NoEntry] /\ pol = 0
  /\ plog = NewLog(1) /\ plock = FALSE /\ writer = Idle /\ loading = {}
  /\ ver = 0 /\ clock = 1
  /\ file = NoFile
  /\ rdb = db /\ rpol = 0 /\ rlog = NewLog(RepStamp) /\ rlock = FALSE
  /\ rpc = "idle" /\ mylast = At(0, 0) /\ reply = NoReply /\ asked = FALSE
  /\ faults = 0 /\ lost = {} /\ rlost = {} /\ cut = FALSE

-----------------------------------------------------------------------------
(* Updates. *)

(* update_from_entry: all attributes of a new entry, else what changed. *)
UpdateFromEntry(k, old, new) ==
  [key |-> k, deleted |-> FALSE,
   set |-> IF old = NoEntry THEN new
           ELSE [a \in {x \in Attrs : new[x] # old[x]} |-> new[a]]]

Deletion(k) == [key |-> k, deleted |-> TRUE, set |-> << >>]

(* entry_from_update over the current entry, if any; an attribute nobody
   ever set has its default. *)
EntryFromUpdate(old, upd) ==
  [a \in Attrs |-> IF a \in DOMAIN upd.set THEN upd.set[a]
                   ELSE IF old = NoEntry THEN 0 ELSE old[a]]

(* FileStore::replay *)
Replay(d, upd) ==
  [d EXCEPT ![upd.key] = IF upd.deleted THEN NoEntry ELSE EntryFromUpdate(@, upd)]

(* FileStore::changes: puts of what is new or differs, deletions last. *)
Changes(before, after) ==
  LET puts == {k \in Keys : after[k] # NoEntry /\ after[k] # before[k]}
      dels == {k \in Keys : after[k] = NoEntry /\ before[k] # NoEntry}
  IN [i \in 1 .. Cardinality(puts) |->
        LET k == SetToSeq(puts)[i] IN UpdateFromEntry(k, before[k], after[k])]
     \o [i \in 1 .. Cardinality(dels) |-> Deletion(SetToSeq(dels)[i])]

-----------------------------------------------------------------------------
(* Writers of the primary. *)

(* modify_file_as up to write_atomic, or a klmdb transaction up to its
   commit: both hold the log.  LMDB's own lock dies with its holder. *)
Commit(newdb, newpol, ups, reset, bulk) ==
  /\ writer.pc = "idle" /\ ~plock /\ ver < MaxWrites
  /\ db' = newdb /\ pol' = newpol /\ ver' = ver + 1
  /\ plock' = (backend = "file")
  /\ writer' = [pc |-> "log", todo |-> ups, reset |-> reset, bulk |-> bulk]
  /\ UNCHANGED <<plog, loading, clock, cut, tvars, rvars, faults, lost>>

Modify(newdb, newpol, ups, reset) == Commit(newdb, newpol, ups, reset, FALSE)

Changed(k, A) == [a \in Attrs |-> IF a \in A \/ db[k] = NoEntry THEN ver + 1
                                  ELSE db[k][a]]

(* create_record_as, update_record_as, update_mit, put_record *)
Put(k, A) ==
  LET after == [db EXCEPT ![k] = Changed(k, A)]
  IN backend = "file" /\ Modify(after, pol, Changes(db, after), FALSE)

Delete(k) ==
  LET after == [db EXCEPT ![k] = NoEntry]
  IN /\ backend = "file" /\ db[k] # NoEntry
     /\ Modify(after, pol, Changes(db, after), FALSE)

(* rename_mit: a put of the new name, then a deletion of the old. *)
Rename(k, new) ==
  LET after == [db EXCEPT ![k] = NoEntry, ![new] = db[k]]
  IN /\ backend = "file" /\ db[k] # NoEntry /\ db[new] = NoEntry
     /\ Modify(after, pol, Changes(db, after), FALSE)

(* create_policy_record, update_policy_record, delete_policy: a policy change
   resets the log and logs nothing. *)
ChangePolicy == backend = "file" /\ Modify(db, ver + 1, << >>, TRUE)

(* create_principal_as, create_raw *)
KlmdbCreate(k) ==
  LET new == Changed(k, Attrs)
  IN /\ backend = "klmdb" /\ db[k] = NoEntry
     /\ Modify([db EXCEPT ![k] = new], pol, <<UpdateFromEntry(k, NoEntry, new)>>, FALSE)

(* update_principal_as, update_raw *)
KlmdbUpdate(k, A) ==
  LET new == Changed(k, A)
  IN /\ backend = "klmdb" /\ db[k] # NoEntry
     /\ Modify([db EXCEPT ![k] = new], pol, <<UpdateFromEntry(k, db[k], new)>>, FALSE)

KlmdbDelete(k) ==
  /\ backend = "klmdb" /\ db[k] # NoEntry
  /\ Modify([db EXCEPT ![k] = NoEntry], pol, <<Deletion(k)>>, FALSE)

(* rename_raw: one transaction, two updates *)
KlmdbRename(k, new) ==
  /\ backend = "klmdb" /\ db[k] # NoEntry /\ db[new] = NoEntry
  /\ Modify([db EXCEPT ![k] = NoEntry, ![new] = db[k]], pol,
            <<UpdateFromEntry(new, NoEntry, db[k]), Deletion(k)>>, FALSE)

(* create_policy_sync, update_policy_sync, delete_policy_sync: the policy is
   committed, then the log is locked and reset. *)
KlmdbPolicy ==
  /\ backend = "klmdb" /\ writer.pc = "idle" /\ loading = {} /\ ver < MaxWrites
  /\ pol' = ver + 1 /\ ver' = ver + 1
  /\ loading' = {"policy"}
  /\ UNCHANGED <<db, plog, plock, writer, clock, cut, tvars, rvars, faults, lost>>

(* load -update: the entries of a dump are merged.  A dump with policies
   resets the log, and only the entries after its last policy record are
   logged (log_from). *)
LoadUpdate(S, withPolicy, after) ==
  LET new == [k \in Keys |-> IF k \in S THEN [a \in Attrs |-> ver + 1] ELSE db[k]]
      ups == SelectSeq(Changes(db, new), LAMBDA u : ~withPolicy \/ u.key \in after)
  IN Commit(new, IF withPolicy THEN ver + 1 ELSE pol, ups, withPolicy, TRUE)

WriterDone == plock' = FALSE /\ writer' = Idle

(* reset_ulog, run to its end: every replica will resync in full. *)
ResetLog ==
  /\ plog' = Reset(plog, clock + 1) /\ clock' = clock + 1
  /\ lost' = {} /\ cut' = FALSE

(* init_header_locked after a policy change. *)
LogReset ==
  /\ writer.pc = "log" /\ writer.reset
  /\ ResetLog
  /\ IF writer.todo = << >> THEN WriterDone
     ELSE writer' = [writer EXCEPT !.reset = FALSE] /\ UNCHANGED plock
  /\ UNCHANGED <<db, pol, loading, ver, tvars, rvars, faults>>

(* add_update_locked after the last serial number: the log is reset first. *)
LogWrap ==
  /\ writer.pc = "log" /\ ~writer.reset /\ Exhausted(plog)
  /\ ResetLog
  /\ UNCHANGED <<db, pol, plock, writer, loading, ver, tvars, rvars, faults>>

(* add_update_locked: first half of store_update. *)
LogBegin ==
  /\ writer.pc = "log" /\ ~writer.reset /\ ~Exhausted(plog)
  /\ plog' = StoreBegin(plog, At(plog.last.sno + 1, clock + 1), Head(writer.todo))
  /\ clock' = clock + 1
  /\ writer' = [writer EXCEPT !.pc = "store"]
  /\ UNCHANGED <<db, pol, plock, loading, ver, cut, tvars, rvars, faults, lost>>

(* second half: the entry is committed and the header stable. *)
LogEnd ==
  /\ writer.pc = "store"
  /\ plog' = StoreEnd(plog, At(plog.last.sno + 1, clock))
  /\ IF Len(writer.todo) = 1 THEN WriterDone
     ELSE /\ writer' = [writer EXCEPT !.pc = "log", !.todo = Tail(@)]
          /\ UNCHANGED plock
  /\ UNCHANGED <<db, pol, loading, ver, clock, cut, tvars, rvars, faults, lost>>

(* A process of the primary starts and maps the log, under its lock. *)
MapLog ==
  /\ writer.pc = "idle" /\ EndsMissing(plog)
  /\ ResetLog
  /\ UNCHANGED <<db, pol, plock, writer, loading, ver, tvars, rvars, faults>>

(* The log cannot be written: the database has changed, so the file store
   and a klmdb load reset the log and the replicas resync in full. *)
Reported == backend = "klmdb" /\ ~writer.bulk
LogFails ==
  /\ ~Reported
  /\ writer.pc = "log" /\ ~writer.reset /\ faults < MaxFaults
  /\ ResetLog
  /\ WriterDone
  /\ faults' = faults + 1
  /\ UNCHANGED <<db, pol, loading, ver, tvars, rvars>>

(* The other writers of klmdb only report the error (log_held): the update
   stays unlogged. *)
KlmdbLogFails ==
  /\ Reported
  /\ writer.pc = "log" /\ ~writer.reset /\ faults < MaxFaults
  /\ lost' = lost \cup {u.key : u \in ToSet(writer.todo)}
  /\ WriterDone
  /\ faults' = faults + 1
  /\ UNCHANGED <<db, pol, plog, loading, ver, clock, cut, tvars, rvars>>

(* The writing process dies: the kernel frees the log's lock, the lock file
   of the database stays.  What was not logged, nobody will log. *)
WriterDies ==
  /\ faults < MaxFaults /\ faults' = faults + 1
  /\ writer' = Idle /\ plock' = (backend = "file")
  /\ lost' = lost \cup {u.key : u \in ToSet(writer.todo)}
                  \cup (IF writer.reset THEN Names ELSE {})
WriterCrash ==
  /\ (writer.pc = "idle" => backend = "file" /\ ~plock)
  /\ WriterDies
  /\ UNCHANGED <<db, pol, plog, loading, ver, clock, cut, tvars, rvars>>

(* load without -update: the database is replaced under its own lock only;
   the log is reset afterwards by the load command. *)
Load ==
  /\ writer.pc = "idle" /\ ~plock /\ loading = {} /\ ver < MaxWrites
  /\ db' = [k \in Keys |-> [a \in Attrs |-> ver + 1]]
  /\ pol' = ver + 1 /\ ver' = ver + 1
  /\ loading' = Names
  /\ UNCHANGED <<plog, plock, writer, clock, cut, tvars, rvars, faults, lost>>

LoadReset ==
  /\ loading # {} /\ writer.pc = "idle"
  /\ ResetLog
  /\ loading' = {}
  /\ UNCHANGED <<db, pol, plock, writer, ver, tvars, rvars, faults>>

LoadDies ==
  /\ loading # {} /\ faults < MaxFaults
  /\ loading' = {} /\ lost' = lost \cup loading
  /\ faults' = faults + 1
LoadCrash ==
  /\ LoadDies
  /\ UNCHANGED <<db, pol, plog, plock, writer, ver, clock, cut, tvars, rvars>>

(* A process dies inside a reset, after the dummy entry and before the header,
   and frees the log's lock: a writer that resets it for a policy, at the last
   serial number or after an error, *)
ResetCutOff ==
  /\ plog' = ResetCut(plog, clock + 1) /\ clock' = clock + 1
  /\ cut' = TRUE
WriterCutOff ==
  /\ writer.pc = "log" /\ (writer.reset \/ Exhausted(plog) \/ ~Reported)
  /\ ResetCutOff /\ WriterDies
  /\ UNCHANGED <<db, pol, loading, ver, tvars, rvars>>
(* a load or a klmdb policy change, *)
LoadCutOff ==
  /\ writer.pc = "idle"
  /\ ResetCutOff /\ LoadDies
  /\ UNCHANGED <<db, pol, plock, writer, ver, tvars, rvars>>
(* a process that maps a log without its ends, or kadmind with an unstable
   one, whose client asks again. *)
ReaderCutOff ==
  /\ writer.pc = "idle" /\ (EndsMissing(plog) \/ ~plog.stable) /\ faults < MaxFaults
  /\ ResetCutOff
  /\ faults' = faults + 1
  /\ UNCHANGED <<db, pol, plock, writer, loading, ver, tvars, rvars, lost>>

(* External: an operator removes a lock file whose owner is gone. *)
RemoveLock ==
  /\ \/ plock /\ writer.pc = "idle" /\ plock' = FALSE /\ UNCHANGED rlock
     \/ rlock /\ rlock' = FALSE /\ UNCHANGED plock
  /\ UNCHANGED <<db, pol, plog, writer, loading, ver, clock, cut, tvars,
                 rdata, rlog, rpc, mylast, reply, asked, faults, lost>>

-----------------------------------------------------------------------------
(* Resync tasks of kadmind: dump -i -c, then kprop. *)

LogFree == writer.pc = "idle"

(* dump -c: the file there is sent again while its position is in the log. *)
DumpCurrent(t) ==
  /\ task[t].pc = "dump" /\ LogFree
  /\ file # NoFile /\ SnoStatus(plog, file.last) \in {"ok", "nil"}
  /\ task' = [task EXCEPT ![t].pc = "kprop"]
  /\ UNCHANGED <<pvars, file, rvars, faults, lost>>

(* dump_entries reads the database; no lock is taken. *)
DumpRead(t) ==
  /\ task[t].pc = "dump"
  /\ file # NoFile => LogFree /\ SnoStatus(plog, file.last) = "full_resync"
  /\ task' = [task EXCEPT ![t] = [NoTask EXCEPT !.pc = "stamp", !.db = db, !.pol = pol]]
  /\ UNCHANGED <<pvars, file, rvars, faults, lost>>

(* What was written to the database since it was read is not in the dump
   but is covered by the position the dump is given. *)
Raced(t) ==
  {k \in Keys : task[t].db[k] # db[k]} \cup
  (IF task[t].pol # pol THEN {"policy"} ELSE {})

(* get_last names the dump's position; the file is replaced by rename. *)
DumpStamp(t) ==
  /\ task[t].pc = "stamp" /\ LogFree
  /\ file' = [db |-> task[t].db, pol |-> task[t].pol, last |-> plog.last, lost |-> Raced(t)]
  /\ task' = [task EXCEPT ![t] = [NoTask EXCEPT !.pc = "kprop"]]
  /\ UNCHANGED <<pvars, rvars, faults, lost>>

(* kprop opens the dump; kpropd refuses a second transfer (try_lock). *)
KpropSend(t) ==
  /\ task[t].pc = "kprop"
  /\ task' = [task EXCEPT ![t] =
                IF \E u \in DOMAIN task : task[u].pc = "sent" THEN NoTask
                ELSE [pc |-> "sent", db |-> file.db, pol |-> file.pol,
                      last |-> file.last, lost |-> file.lost]]
  /\ UNCHANGED <<pvars, file, rvars, faults, lost>>

(* A child fails or the connection drops. *)
TaskFails(t) ==
  /\ task[t].pc # "none" /\ faults < MaxFaults
  /\ task' = [task EXCEPT ![t] = NoTask]
  /\ faults' = faults + 1
  /\ UNCHANGED <<pvars, file, rvars, lost>>

-----------------------------------------------------------------------------
(* kpropd's listener. *)

ThreadFree == rpc \in {"idle", "asked", "answered"}

(* load -i after the database is replaced: init_header, then set_last, each
   an entry and then the header. *)
LoadedLog(log, last, done) ==
  LET new == Reset(log, RepStamp)
  IN CASE done < 2 -> log
       [] done = 2 -> ResetCut(log, RepStamp)
       [] done = 3 -> new
       [] done = 4 -> DummyCut(new, last)
       [] done = 5 -> SetDummy(new, last)

(* doit and load_database: replace the database, reset the log, then give
   it the dump's position; a lock file left behind makes the load fail.
   done is how far the load child gets before it dies: until the reset is
   done the log still names the position of the database that was replaced. *)
KpropdLoad(t, done) ==
  /\ task[t].pc = "sent" /\ ThreadFree
  /\ task' = [task EXCEPT ![t] = NoTask]
  /\ done < 5 => faults < MaxFaults
  /\ faults' = IF done < 5 THEN faults + 1 ELSE faults
  /\ IF rlock THEN UNCHANGED <<rdata, rlog>>
     ELSE /\ rdb' = IF done > 0 THEN task[t].db ELSE rdb
          /\ rpol' = IF done > 0 THEN task[t].pol ELSE rpol
          /\ rlog' = LoadedLog(rlog, task[t].last, done)
          /\ rlost' = IF done = 0 THEN rlost
                      ELSE IF done \in {1, 2} THEN Names ELSE task[t].lost
  /\ rlock' = (rlock \/ (done = 0 /\ backend = "file"))
  /\ UNCHANGED <<pvars, file, rpc, mylast, reply, asked, lost>>

-----------------------------------------------------------------------------
(* kpropd's poll loop. *)

Poll ==
  /\ rpc = "idle"
  /\ mylast' = rlog.last /\ rpc' = "asked"
  /\ UNCHANGED <<pvars, tvars, rdata, rlog, rlock, reply, asked, faults, lost>>

(* kadmind's get_updates, under the log's lock. *)
GetUpdates ==
  /\ rpc = "asked" /\ LogFree
  /\ IF plog.stable THEN UNCHANGED <<plog, clock, lost, cut>> ELSE ResetLog
  /\ reply' = GetEntries(plog', mylast)
  /\ rpc' = "answered"
  /\ UNCHANGED <<db, pol, plock, writer, loading, ver, tvars,
                 rdata, rlog, rlock, mylast, asked, faults>>

Back == rpc' = "idle" /\ reply' = NoReply /\ mylast' = At(0, 0) /\ UNCHANGED rlock

(* The call fails: kpropd reconnects and asks again. *)
CallFails ==
  /\ rpc \in {"asked", "answered"} /\ faults < MaxFaults
  /\ Back
  /\ faults' = faults + 1
  /\ UNCHANGED <<pvars, tvars, rdata, rlog, asked, lost>>

HandleNil ==
  /\ rpc = "answered" /\ reply.status = "nil"
  /\ asked' = FALSE /\ Back
  /\ UNCHANGED <<pvars, tvars, rdata, rlog, faults, lost>>

(* UPDATE_ERROR: kpropd exits, and its supervisor starts it again. *)
HandleError ==
  /\ rpc = "answered" /\ reply.status = "error"
  /\ asked' = FALSE /\ Back
  /\ rlog' = CheckOnMap(rlog, RepStamp)
  /\ UNCHANGED <<pvars, tvars, rdata, faults, lost>>

(* kadmind's full_resync: a task for each request, none refused. *)
FullResync(t) ==
  /\ task[t].pc = "none"
  /\ task' = [task EXCEPT ![t] = [NoTask EXCEPT !.pc = "dump"]]

(* A full resync is asked for once per iprop_resync_timeout; *)
HandleFullResync ==
  /\ rpc = "answered" /\ reply.status = "full_resync"
  /\ \/ asked /\ UNCHANGED <<asked, task>>
     \/ /\ ~asked /\ asked' = TRUE
        /\ \E t \in DOMAIN task : FullResync(t)
  /\ Back
  /\ UNCHANGED <<pvars, file, rdata, rlog, faults, lost>>

(* iprop_resync_timeout passes: the next answer that needs a resync asks for
   another.  While a task is still running that is a fault of the network. *)
ResyncTimeout ==
  /\ asked /\ asked' = FALSE
  /\ \E t \in DOMAIN task : task[t].pc = "none"
  /\ IF \A t \in DOMAIN task : task[t].pc = "none" THEN UNCHANGED faults
     ELSE faults < MaxFaults /\ faults' = faults + 1
  /\ UNCHANGED <<pvars, tvars, rdata, rlog, rlock, rpc, mylast, reply, lost>>

(* replay_updates maps the log, then applies the committed updates.  Nothing
   compares the replica's position with the one the reply answers: when a
   load came in between, the updates are applied to another database. *)
HandleOk ==
  /\ rpc = "answered" /\ reply.status = "ok"
  /\ asked' = FALSE
  /\ rlog' = CheckOnMap(rlog, RepStamp)
  /\ reply' = [reply EXCEPT !.updates = SelectSeq(@, LAMBDA e : e.commit)]
  /\ rpc' = "replay" /\ mylast' = At(0, 0)
  /\ rlost' = IF rlog.last = mylast THEN rlost ELSE Names
  /\ UNCHANGED <<pvars, tvars, rdb, rpol, rlock, faults, lost>>

(* modify_file_as(Log::Off): the replica's database is replaced. *)
ReplayDb ==
  /\ rpc = "replay" /\ reply.updates # << >> /\ ~rlock
  /\ rdb' = Replay(rdb, Head(reply.updates).upd)
  /\ rpc' = "record"
  /\ UNCHANGED <<pvars, tvars, rpol, rlost, rlog, rlock, mylast, reply, asked, faults, lost>>

(* store_replayed *)
ReplayLog ==
  /\ rpc = "record"
  /\ LET e == Head(reply.updates)
     IN rlog' = StoreReplayed(rlog, At(e.sno, e.time), NoUpdate, RepStamp)
  /\ reply' = [reply EXCEPT !.updates = Tail(@)]
  /\ rpc' = "replay"
  /\ UNCHANGED <<pvars, tvars, rdata, rlock, mylast, asked, faults, lost>>

ReplayDone ==
  /\ rpc = "replay" /\ reply.updates = << >>
  /\ Back
  /\ UNCHANGED <<pvars, tvars, rdata, rlog, asked, faults, lost>>

(* A write or the lock fails: init_header, so that the next poll asks for a
   full resync. *)
ReplayFails ==
  /\ \/ rpc = "replay" /\ reply.updates # << >> /\ rlock /\ UNCHANGED faults
     \/ rpc = "record" /\ faults < MaxFaults /\ faults' = faults + 1
  /\ rlog' = Reset(rlog, RepStamp)
  /\ Back
  /\ UNCHANGED <<pvars, tvars, rdata, asked, lost>>

(* kpropd dies and is started again; replay leaves the lock file behind
   when it dies inside the write, and the log half written when it dies inside
   store_replayed or the reset after a failure. *)
DyingLogs ==
  {rlog} \cup
  (IF rpc \notin {"replay", "record"} \/ reply.updates = << >> THEN {}
   ELSE {ResetCut(rlog, RepStamp)} \cup
        (IF rpc = "replay" THEN {}
         ELSE LET e == Head(reply.updates)
              IN {StoreBegin(rlog, At(e.sno, e.time), NoUpdate)}))
KpropdCrash ==
  /\ faults < MaxFaults
  /\ faults' = faults + 1
  /\ rpc' = "idle" /\ reply' = NoReply /\ mylast' = At(0, 0) /\ asked' = FALSE
  /\ rlock' \in (IF rpc = "record" /\ backend = "file" THEN {rlock, TRUE} ELSE {rlock})
  /\ \E l \in DyingLogs : rlog' = CheckOnMap(l, RepStamp)
  /\ UNCHANGED <<pvars, tvars, rdata, lost>>

-----------------------------------------------------------------------------
Write ==
  \/ \E k \in Keys, A \in SUBSET Attrs : A # {} /\ Put(k, A)
  \/ \E k \in Keys : Delete(k)
  \/ \E k, new \in Keys : Rename(k, new)
  \/ ChangePolicy \/ KlmdbPolicy
  \/ \E k \in Keys : KlmdbCreate(k) \/ KlmdbDelete(k)
  \/ \E k \in Keys, A \in SUBSET Attrs : A # {} /\ KlmdbUpdate(k, A)
  \/ \E k, new \in Keys : KlmdbRename(k, new)
  \/ \E S \in SUBSET Keys, p \in BOOLEAN : \E after \in SUBSET S :
        S # {} /\ LoadUpdate(S, p, after)
  \/ Load

WriterStep == LogReset \/ LogWrap \/ LogBegin \/ LogEnd \/ LoadReset

TaskStep(t) == DumpCurrent(t) \/ DumpRead(t) \/ DumpStamp(t) \/ KpropSend(t)
               \/ KpropdLoad(t, 5)

PollStep == \/ Poll \/ GetUpdates
            \/ HandleNil \/ HandleError \/ HandleFullResync \/ HandleOk
            \/ ReplayDb \/ ReplayLog \/ ReplayDone \/ ReplayFails

Fault == \/ LogFails \/ KlmdbLogFails \/ WriterCrash \/ LoadCrash \/ CallFails \/ KpropdCrash
         \/ WriterCutOff \/ LoadCutOff \/ ReaderCutOff
         \/ \E t \in DOMAIN task : TaskFails(t) \/ \E d \in 0 .. 4 : KpropdLoad(t, d)

Next == /\ \/ Write \/ MapLog \/ WriterStep \/ PollStep \/ ResyncTimeout \/ RemoveLock \/ Fault
           \/ \E t \in DOMAIN task : TaskStep(t)
        /\ UNCHANGED backend

Spec == Init /\ [][Next]_vars

(* The daemons keep running and timers fire; a lock file nobody owns is
   removed some day.  Nothing is assumed of writes and faults. *)
Fairness == /\ WF_vars(WriterStep /\ UNCHANGED backend)
            /\ WF_vars(PollStep /\ UNCHANGED backend)
            /\ WF_vars(ResyncTimeout /\ UNCHANGED backend)
            /\ WF_vars(RemoveLock /\ UNCHANGED backend)
            /\ \A t \in Tasks :
                 WF_vars(t \in DOMAIN task /\ TaskStep(t) /\ UNCHANGED backend)

FairSpec == Spec /\ Fairness

-----------------------------------------------------------------------------
Position == [sno : 0 .. MaxSno, time : Nat]

TypeOK ==
  /\ db \in [Keys -> [Attrs -> 0 .. MaxWrites] \cup {NoEntry}]
  /\ rdb \in [Keys -> [Attrs -> 0 .. MaxWrites] \cup {NoEntry}]
  /\ plog.last \in Position /\ rlog.last \in Position
  /\ writer.pc \in {"idle", "log", "store"}
  /\ rpc \in {"idle", "asked", "answered", "replay", "record"}
  /\ lost \subseteq Names /\ rlost \subseteq Names /\ cut \in BOOLEAN

(* Slot 0 holds the dummy entry of a reset that never wrote its header. *)
Torn == cut /\ plog.slot[0].sno = 1

(* Whenever its header is stable the primary's log is a window of consecutive
   serial numbers that ends at its last one, each in its slot, but for slot 0
   while a reset that was cut off has left its dummy entry there.  The numbers
   never pass the largest one. *)
WindowKept ==
  plog.last.sno <= MaxSno /\ (plog.stable =>
    LET low == plog.last.sno - plog.num + 1
    IN /\ plog.num \in 1 .. Entries /\ low >= 1
       /\ \A s \in low .. plog.last.sno :
            \/ Torn /\ SlotOf(s) = 0
            \/ plog.slot[SlotOf(s)].sno = s /\ (s > low => plog.slot[SlotOf(s)].commit)
       /\ Torn \/ (plog.first.sno = low /\ CheckSno(plog, plog.first) /\ CheckSno(plog, plog.last)))

(* Whatever became of the log, from whichever of its entries a replica asks,
   an answer that brings updates brings the ones right after that entry, in
   order, each committed: a dummy entry left in the ring is never handed out. *)
AnswersExact ==
  plog.stable => \A i \in 0 .. Entries - 1 :
    LET from == At(plog.slot[i].sno, plog.slot[i].time)
        updates == GetEntries(plog, from).updates
    IN \A n \in 1 .. Len(updates) :
         updates[n].sno = from.sno + n /\ updates[n].commit

RingConsecutive == WindowKept /\ AnswersExact

(* No reader sees a reset half done. *)
ResetsWhole == plog.stable /\ LogFree => ~Torn

Synced == rpc \in {"idle", "asked"} /\ rlog.last = plog.last

(* A replica the primary considers up to date has the primary's database,
   but for the names whose update a crash of a writer or of a load, or a
   log klmdb could not write, cut off since the log was last reset, and, until
   the replica's next complete load, for the names that changed between the
   two reads of its dump or that were at stake when a load died over its old
   position or a reply was applied over a load that had overtaken it. *)
SyncedBut(excused) ==
  Synced /\ LogFree /\ loading = {} =>
    /\ \A k \in Keys \ excused : rdb[k] = db[k]
    /\ "policy" \notin excused => rpol = pol
SyncedIsEqual == SyncedBut(lost \cup rlost)

(* What the documentation says of a crash between the commit and the append:
   the next poll's full resync repairs it. *)
CrashRepaired == SyncedBut(rlost)

(* Whatever happened before, once writes and faults stop the replica reaches
   the primary's position and stays there: no reset, failed load, stale reply
   or lock file keeps it asking for ever.  Only a reset cut off may, while the
   window has a hole that get_entries fails on. *)
CatchesUp == <>[](rlog.last = plog.last \/ Torn)

(* A full dump sent by the documented procedure leaves a replica that is up
   to date equal to the primary when no process died. *)
DumpComplete ==
  Synced /\ LogFree /\ loading = {} /\ faults = 0 => rdb = db /\ rpol = pol

=============================================================================
