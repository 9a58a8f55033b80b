----------------------------- MODULE MasterKeys -----------------------------
(***************************************************************************)
(* Master-key rotation: the K/M entry, the wrapping of the principals'     *)
(* keys, the kdb5_util-like commands that rotate the master key, a kadmind *)
(* that keeps writing and a KDC that keeps reading while they run          *)
(* (src/kdc/kdb/mit/mkey.rs, mkey_command of krb5-rs-kdb, and the parts of *)
(* the file and the klmdb store that load the master-key list).            *)
(*                                                                         *)
(* A master key is an identity (a number); ciphertext is the identity of   *)
(* the key it was made under, so decrypting is comparing identities.       *)
(***************************************************************************)
EXTENDS Naturals, Sequences, SequencesExt, FiniteSets

CONSTANTS Princ,     \* principals other than K/M
          Tools,     \* concurrent runs of the kdb tool
          Threads,   \* KDC worker threads sharing one store
          MaxKey,    \* bound: master keys ever made
          MaxTime,   \* bound: clock
          Backends   \* the stores considered: "file", "klmdb"

ASSUME BoundsAssumption == MaxKey \in Nat \ {0} /\ MaxTime \in Nat
ASSUME BackendsAssumption == Backends \subseteq {"file", "klmdb"}

VARIABLES
  backend,  \* the realm's store, chosen once
  km,       \* the K/M entry: keys (newest first), mkvno, aux, act
  mk,       \* principal -> the master key its keys are under; NoKey: no entry
  stash,    \* the stash file's newest key
  made,     \* master keys made so far
  now,      \* clock
  tool,     \* the commands in flight
  adm,      \* kadmind: supplied key, loaded list, the write in flight
  kdc,      \* KDC: supplied key, loaded list, whether the cache's stamp is the file's
  thr,      \* KDC threads: the file image being installed, whether its stamp is current
  exposed,  \* ghost: entries written in a window where a purge may miss them
  clash     \* ghost: a command committed against a K/M it had not read

vars == <<backend, km, mk, stash, made, now, tool, adm, kdc, thr, exposed, clash>>

Key == 1..MaxKey
NoKey == [kvno |-> 0, key |-> 0]
None == 0

(***************************************************************************)
(* The K/M entry.                                                          *)
(***************************************************************************)
Kvnos(m) == {m.keys[i].kvno : i \in DOMAIN m.keys}

\* lookup_actkvno: without the tl-data the earliest key is active from 0.
LookupActkvno(m) ==
  IF m.act = << >> THEN <<[kvno |-> Last(m.keys).kvno, at |-> 0]>> ELSE m.act

\* MasterKeys::fetch: `mkey` opens the newest key directly or through an aux
\* entry, and what it opens must decrypt every other key. None on failure.
Current(m, mkey) ==
  IF m.keys[1].under = mkey THEN m.keys[1].key
  ELSE LET hit == SelectSeq(m.aux, LAMBDA a : a.under = mkey)
       IN IF hit = << >> THEN None ELSE hit[1].key

CanFetch(m, mkey) ==
  m.keys # << >> /\ LET c == Current(m, mkey) IN
  c # None /\ \A i \in DOMAIN m.keys \ {1} : m.keys[i].under = c

Fetch(m, mkey) ==
  [keys |-> [i \in DOMAIN m.keys |->
               [kvno |-> m.keys[i].kvno,
                key |-> IF i = 1 THEN Current(m, mkey) ELSE m.keys[i].key]],
   act |-> LookupActkvno(m)]

\* MasterKeys::get, NoKey when the version is not in the list.
Get(list, kvno) ==
  LET hit == SelectSeq(list.keys, LAMBDA k : k.kvno = kvno)
  IN IF hit = << >> THEN NoKey ELSE hit[1]

\* find_actkvno: the last entry of the leading run not after `t`, the first
\* entry if all are in the future.
FindActkvno(act, t) ==
  LET run == {i \in DOMAIN act : \A j \in 2..i : act[j].at <= t}
  IN act[CHOOSE i \in run : \A j \in run : j <= i].kvno

Active(list, t) == Get(list, FindActkvno(list.act, t))

\* Mutant: the newest key's own version is reused.
AddNewMkeySame(m, list, new) ==
  [keys |-> <<[kvno |-> m.keys[1].kvno, key |-> new, under |-> new]>> \o
            [i \in DOMAIN list.keys |->
               [kvno |-> list.keys[i].kvno, key |-> list.keys[i].key, under |-> new]],
   mkvno |-> m.keys[1].kvno,
   aux |-> [i \in DOMAIN list.keys |->
               [kvno |-> list.keys[i].kvno, under |-> list.keys[i].key, key |-> new]],
   act |-> m.act]

\* Mutant: versions advance by two.
AddNewMkeySkip(m, list, new) ==
  [AddNewMkeySame(m, list, new) EXCEPT !.keys[1].kvno = @ + 2, !.mkvno = @ + 2]

\* add_new_mkey: the new key under itself, every key of `list` under it, and
\* an aux entry per old key. (16-bit wrap of the version is out of range.)
AddNewMkey(m, list, new) ==
  LET kvno == m.keys[1].kvno + 1 IN
  [keys |-> <<[kvno |-> kvno, key |-> new, under |-> new]>> \o
            [i \in DOMAIN list.keys |->
               [kvno |-> list.keys[i].kvno, key |-> list.keys[i].key, under |-> new]],
   mkvno |-> kvno,
   aux |-> [i \in DOMAIN list.keys |->
               [kvno |-> list.keys[i].kvno, under |-> list.keys[i].key, key |-> new]],
   act |-> m.act]

\* use_mkey: retime the only entry or move the version's entry to its place.
UseList(act, kvno, start) ==
  LET node == [kvno |-> kvno, at |-> start]
      rest == IF \E i \in DOMAIN act : act[i].kvno = kvno
              THEN RemoveAt(act, CHOOSE i \in DOMAIN act : act[i].kvno = kvno /\
                                   \A j \in 1..(i - 1) : act[j].kvno # kvno)
              ELSE act
      after == {i \in DOMAIN rest : rest[i].at > start}
      place == IF after = {} THEN Len(rest) + 1
               ELSE CHOOSE i \in after : \A j \in after : i <= j
  IN InsertAt(rest, place, node)

\* The edit refuses a list whose first key is not active yet.
UseOk(act, kvno, start, t) == Head(UseList(act, kvno, start)).at <= t

\* Mutant: the activation list keeps the purged versions.
PurgeMkeysAct(m, inuse) ==
  [keys |-> SelectSeq(m.keys, LAMBDA k : k.kvno \in inuse), mkvno |-> m.mkvno,
   aux |-> SelectSeq(m.aux, LAMBDA a : a.kvno \in inuse), act |-> LookupActkvno(m)]

\* purge_mkeys: drop the keys outside `inuse` and their ACTKVNO and aux nodes.
PurgeMkeys(m, inuse) ==
  LET gone == Kvnos(m) \ inuse IN
  IF gone = {} THEN m ELSE
  [keys |-> SelectSeq(m.keys, LAMBDA k : k.kvno \in inuse),
   mkvno |-> m.mkvno,
   aux |-> SelectSeq(m.aux, LAMBDA a : a.kvno \notin gone),
   act |-> SelectSeq(LookupActkvno(m), LAMBDA a : a.kvno \notin gone)]

-----------------------------------------------------------------------------
(***************************************************************************)
(* Initial state: krb5-rs-kdb create made version 1 and stashed it, and    *)
(* both daemons loaded it.                                                 *)
(***************************************************************************)
First == [kvno |-> 1, key |-> 1]
Km0 == [keys |-> <<[kvno |-> 1, key |-> 1, under |-> 1]>>, mkvno |-> 1,
        aux |-> << >>, act |-> << >>]
IdleTool == [cmd |-> "none", pc |-> "idle", key |-> None, list |-> Fetch(Km0, 1),
             arg |-> None, wrap |-> None, start |-> 0, at |-> 0, skv |-> 0, inuse |-> {}, todo |-> {}]
IdleThread == [pc |-> "idle", km |-> Km0, fresh |-> FALSE]

Init ==
  /\ backend \in Backends
  /\ km = Km0
  /\ mk \in [Princ -> {NoKey, First}]
  /\ stash = First /\ made = 1 /\ now = 0
  /\ tool = [t \in Tools |-> IdleTool]
  /\ adm = [key |-> 1, list |-> Fetch(Km0, 1), pc |-> "idle", princ |-> None]
  /\ kdc = [key |-> 1, list |-> Fetch(Km0, 1), fresh |-> TRUE]
  /\ thr = [t \in Threads |-> IdleThread]
  /\ exposed = {} /\ clash = FALSE

Tick == now < MaxTime /\ now' = now + 1
        /\ UNCHANGED <<backend, km, mk, stash, made, tool, adm, kdc, thr, exposed, clash>>

-----------------------------------------------------------------------------
(***************************************************************************)
(* Loading the list.  klmdb's refresh_master tries the keys of the loaded  *)
(* list and then the supplied key; the file store only its supplied key.   *)
(***************************************************************************)
OpeningKeys(list, key) ==
  IF backend = "file" THEN <<key>>
  ELSE Append([i \in DOMAIN list.keys |-> list.keys[i].key], key)

CanRefresh(list, key) ==
  \E i \in DOMAIN OpeningKeys(list, key) : CanFetch(km, OpeningKeys(list, key)[i])

Refreshed(list, key) ==
  LET ks == SelectSeq(OpeningKeys(list, key), LAMBDA k : CanFetch(km, k))
  IN Fetch(km, ks[1])

\* K/M's list as its own newest key opens it.
KmList == Fetch(km, Current(km, km.keys[1].under))

\* Some purge has read the entries and not yet edited K/M.
PurgeWindow == \E t \in Tools : tool[t].cmd = "purge" /\ tool[t].pc \in {"act", "commit"}

\* Every write of the file store gives the file a new stamp (mtime, length).
Restamp ==
  IF backend = "file"
  THEN /\ kdc' = [kdc EXCEPT !.fresh = FALSE]
       /\ thr' = [t \in Threads |-> [thr[t] EXCEPT !.fresh = FALSE]]
  ELSE UNCHANGED <<kdc, thr>>

\* A principal's entry is written with its keys under `key`.
PutEntry(p, key, stale) ==
  /\ mk' = [mk EXCEPT ![p] = key]
  /\ exposed' = IF key # NoKey /\ (PurgeWindow \/ stale) THEN exposed \cup {p}
                ELSE exposed \ {p}
  /\ Restamp

PutKm(m) == km' = m /\ Restamp

(***************************************************************************)
(* kadmind.  The file store rereads K/M under the write lock (masters_in); *)
(* klmdb refreshes first and takes the lock and the transaction after.     *)
(***************************************************************************)
AdmBegin(p) ==
  /\ adm.pc = "idle"
  /\ backend = "klmdb"
  /\ CanRefresh(adm.list, adm.key)
  /\ adm' = [adm EXCEPT !.list = Refreshed(adm.list, adm.key), !.pc = "write", !.princ = p]
  /\ UNCHANGED <<backend, km, mk, stash, made, now, tool, kdc, thr, exposed, clash>>

\* create_principal_as / update_principal_as of klmdb: the old entry must be
\* readable with the loaded list, the new keys go under its active key.
AdmCommitKlmdb ==
  /\ adm.pc = "write"
  /\ adm' = [adm EXCEPT !.pc = "idle", !.princ = None]
  /\ LET p == adm.princ
         key == Active(adm.list, now)
         readable == mk[p] = NoKey \/ Get(adm.list, mk[p].kvno) = mk[p]
     IN IF readable /\ key # NoKey
        THEN PutEntry(p, key, adm.list # KmList)
        ELSE UNCHANGED <<mk, exposed, kdc, thr>>
  /\ UNCHANGED <<backend, km, stash, made, now, tool, clash>>

\* modify_file of the file store: one write under <path>.lock, with the list
\* read under it (the list kept from it is never used again, so adm.list is
\* klmdb's only).
AdmWriteFile(p) ==
  /\ adm.pc = "idle"
  /\ backend = "file"
  /\ CanFetch(km, adm.key)
  /\ LET list == Fetch(km, adm.key) IN
     /\ Active(list, now) # NoKey
     /\ mk[p] = NoKey \/ Get(list, mk[p].kvno) = mk[p]
     /\ PutEntry(p, Active(list, now), FALSE)
  /\ UNCHANGED <<backend, km, stash, made, now, tool, adm, clash>>

AdmDelete(p) ==
  /\ mk[p] # NoKey
  /\ PutEntry(p, NoKey, FALSE)
  /\ UNCHANGED <<backend, km, stash, made, now, tool, adm, clash>>

\* A restart rereads the stash; it fails when the stash does not open K/M.
AdmRestart ==
  /\ CanFetch(km, stash.key)
  /\ adm' = [key |-> stash.key,
             list |-> IF backend = "file" THEN adm.list ELSE Fetch(km, stash.key), pc |-> "idle", princ |-> None]
  /\ UNCHANGED <<backend, km, mk, stash, made, now, tool, kdc, thr, exposed, clash>>

-----------------------------------------------------------------------------
(***************************************************************************)
(* The master-key commands (mkey_command).                                 *)
(***************************************************************************)
\* Fetch the stashed key, open the store and its list; a command whose key
\* does not open K/M ends ("master keylist not initialized").
ToolOpen(t, cmd) ==
  /\ tool[t].pc = "idle"
  /\ cmd = "add" => made < MaxKey
  /\ CanFetch(km, stash.key)
  /\ tool' = [tool EXCEPT ![t] = [IdleTool EXCEPT
       !.cmd = cmd, !.key = stash.key, !.list = Fetch(km, stash.key),
       !.at = now, !.skv = stash.kvno, !.pc = IF cmd = "add" THEN "act" ELSE "open"]]
  /\ UNCHANGED <<backend, km, mk, stash, made, now, adm, kdc, thr, exposed, clash>>

\* use_mkey KVNO [TIME]: the version must be in the list read at the start.
ToolUse(t, kvno, start) ==
  /\ tool[t].pc = "open" /\ tool[t].cmd = "use"
  /\ Get(tool[t].list, kvno) # NoKey
  /\ tool' = [tool EXCEPT ![t].pc = "act", ![t].arg = kvno, ![t].start = start]
  /\ UNCHANGED <<backend, km, mk, stash, made, now, adm, kdc, thr, exposed, clash>>

\* update_princ_encryption: the key active at the start, and every entry not
\* under it.
ToolScanEntries(t) ==
  /\ tool[t].pc = "open" /\ tool[t].cmd = "update"
  /\ LET new == Active(tool[t].list, tool[t].at) IN
     /\ new # NoKey
     /\ tool' = [tool EXCEPT ![t].pc = "act", ![t].arg = new.kvno, ![t].wrap = new.key,
          ![t].todo = {p \in Princ : mk[p] # NoKey /\ mk[p].kvno # new.kvno}]
  /\ UNCHANGED <<backend, km, mk, stash, made, now, adm, kdc, thr, exposed, clash>>

\* Mutant: only K/M's own version counts as used.
ToolScanInUseKm(t) ==
  /\ tool[t].pc = "open" /\ tool[t].cmd = "purge"
  /\ Len(km.keys) > 1 /\ tool[t].skv = km.mkvno
  /\ tool' = [tool EXCEPT ![t].pc = "act", ![t].inuse = {km.mkvno}]
  /\ UNCHANGED <<backend, km, mk, stash, made, now, adm, kdc, thr, exposed, clash>>

\* Mutant: the stashed version is not protected.
ToolScanInUseOnly(t) ==
  /\ tool[t].pc = "open" /\ tool[t].cmd = "purge"
  /\ Len(km.keys) > 1
  /\ tool' = [tool EXCEPT ![t].pc = "act", ![t].inuse =
       {km.mkvno} \cup {mk[p].kvno : p \in {q \in Princ : mk[q] # NoKey}}]
  /\ UNCHANGED <<backend, km, mk, stash, made, now, adm, kdc, thr, exposed, clash>>

\* purge_mkeys: the versions the entries (K/M's own included) use, read
\* without a lock; refuses to drop the stashed version.
ToolScanInUse(t) ==
  /\ tool[t].pc = "open" /\ tool[t].cmd = "purge"
  /\ Len(km.keys) > 1
  /\ LET inuse == {km.mkvno} \cup {mk[p].kvno : p \in {q \in Princ : mk[q] # NoKey}}
         unused == Kvnos(km) \ inuse
     IN /\ unused # {}
        /\ tool[t].skv \notin unused
        /\ tool' = [tool EXCEPT ![t].pc = "act", ![t].inuse = inuse]
  /\ UNCHANGED <<backend, km, mk, stash, made, now, adm, kdc, thr, exposed, clash>>

\* klmdb update_raw: refresh and clone the list, then lock.
ToolPrepare(t) ==
  /\ tool[t].pc = "act" /\ backend = "klmdb"
  /\ CanRefresh(tool[t].list, tool[t].key)
  /\ tool' = [tool EXCEPT ![t].pc = "commit", ![t].list = Refreshed(tool[t].list, tool[t].key)]
  /\ UNCHANGED <<backend, km, mk, stash, made, now, adm, kdc, thr, exposed, clash>>

\* The closure of update_raw runs on the entry read under the lock, with the
\* list the store hands it.
CanCommit(t) ==
  \/ backend = "file" /\ tool[t].pc = "act" /\ CanFetch(km, tool[t].key)
  \/ backend = "klmdb" /\ tool[t].pc = "commit"

CommitList(t) == IF backend = "file" THEN Fetch(km, tool[t].key) ELSE tool[t].list

Done(t) == tool' = [tool EXCEPT ![t] = IdleTool]

ToolAdd(t) ==
  /\ tool[t].cmd = "add" /\ CanCommit(t) /\ made < MaxKey
  /\ PutKm(AddNewMkey(km, CommitList(t), made + 1))
  /\ made' = made + 1
  /\ clash' = (clash \/ CommitList(t) # KmList)
  /\ tool' = [tool EXCEPT ![t].pc = "stash", ![t].arg = km.keys[1].kvno + 1,
                          ![t].key = made + 1]
  /\ UNCHANGED <<backend, mk, stash, now, adm, exposed>>

\* add_mkey -s: the stash file is replaced after the database changed.
ToolStashNew(t) ==
  /\ tool[t].pc = "stash"
  /\ stash' = [kvno |-> tool[t].arg, key |-> tool[t].key]
  /\ clash' = (clash \/ tool[t].arg \notin Kvnos(km))
  /\ Done(t)
  /\ UNCHANGED <<backend, km, mk, made, now, adm, kdc, thr, exposed>>

ToolUseCommit(t) ==
  /\ tool[t].cmd = "use" /\ CanCommit(t)
  /\ IF UseOk(LookupActkvno(km), tool[t].arg, tool[t].start, tool[t].at)
     THEN /\ PutKm([km EXCEPT !.act = UseList(LookupActkvno(km), tool[t].arg, tool[t].start)])
          /\ clash' = (clash \/ tool[t].arg \notin Kvnos(km))
     ELSE UNCHANGED <<km, clash, kdc, thr>>
  /\ Done(t)
  /\ UNCHANGED <<backend, mk, stash, made, now, adm, exposed>>

\* convert_entry: rewrap from the entry's key to the key read at the start; an
\* entry that is gone or unreadable ends the command.
ToolConvert(t, p) ==
  /\ tool[t].cmd = "update" /\ CanCommit(t) /\ p \in tool[t].todo
  /\ LET new == [kvno |-> tool[t].arg, key |-> tool[t].wrap]
         old == mk[p]
     IN IF old # NoKey /\ Get(CommitList(t), old.kvno) = old
        THEN /\ PutEntry(p, new, new # Get(KmList, new.kvno))
             /\ tool' = [tool EXCEPT ![t].todo = @ \ {p}, ![t].pc = "act"]
        ELSE UNCHANGED <<mk, exposed, kdc, thr>> /\ Done(t)
  /\ UNCHANGED <<backend, km, stash, made, now, adm, clash>>

ToolPurge(t) ==
  /\ tool[t].cmd = "purge" /\ CanCommit(t)
  /\ PutKm(PurgeMkeys(km, tool[t].inuse))
  /\ clash' = (clash \/ km.mkvno \notin tool[t].inuse \/ stash.kvno # tool[t].skv)
  /\ Done(t)
  /\ UNCHANGED <<backend, mk, stash, made, now, adm, exposed>>

\* `stash`: write every version of the list, the newest is what is read back.
ToolStashAll(t) ==
  /\ tool[t].pc = "open" /\ tool[t].cmd = "stash"
  /\ stash' = tool[t].list.keys[1]
  /\ clash' = (clash \/ tool[t].list # KmList)
  /\ Done(t)
  /\ UNCHANGED <<backend, km, mk, made, now, adm, kdc, thr, exposed>>

\* The command ends: done, refused, failed, or killed.
ToolExit(t) ==
  /\ tool[t].pc # "idle"
  /\ Done(t)
  /\ UNCHANGED <<backend, km, mk, stash, made, now, adm, kdc, thr, exposed, clash>>

Commands == {"add", "use", "update", "purge", "stash"}

ToolStep(t) ==
  \/ \E cmd \in Commands : ToolOpen(t, cmd)
  \/ \E kvno \in 1..MaxKey, start \in 0..MaxTime : ToolUse(t, kvno, start)
  \/ ToolScanEntries(t) \/ ToolScanInUse(t) \/ ToolPrepare(t)
  \/ ToolAdd(t) \/ ToolStashNew(t) \/ ToolUseCommit(t)
  \/ \E p \in Princ : ToolConvert(t, p)
  \/ ToolPurge(t) \/ ToolStashAll(t) \/ ToolExit(t)

-----------------------------------------------------------------------------
(***************************************************************************)
(* The KDC.  Its threads share one store.  The file store's refresh reads  *)
(* the file, then replaces the master-key list, then the cache, each under *)
(* its own lock; klmdb decodes with the loaded list and rereads K/M when   *)
(* the entry's version is missing from it.                                 *)
(***************************************************************************)
\* refresh: the stamp differs, so read the file (stamp before contents).
KdcRead(t) ==
  /\ backend = "file" /\ thr[t].pc = "idle" /\ ~kdc.fresh
  /\ thr' = [thr EXCEPT ![t] = [pc |-> "read", km |-> km, fresh |-> TRUE]]
  /\ UNCHANGED <<backend, km, mk, stash, made, now, tool, adm, kdc, exposed, clash>>

\* The list of the K/M just read; "incorrect master key" leaves both alone.
KdcMasters(t) ==
  /\ thr[t].pc = "read"
  /\ IF CanFetch(thr[t].km, kdc.key)
     THEN /\ kdc' = [kdc EXCEPT !.list = Fetch(thr[t].km, kdc.key)]
          /\ thr' = [thr EXCEPT ![t].pc = "masters"]
     ELSE /\ thr' = [thr EXCEPT ![t] = IdleThread]
          /\ UNCHANGED kdc
  /\ UNCHANGED <<backend, km, mk, stash, made, now, tool, adm, exposed, clash>>

KdcCache(t) ==
  /\ thr[t].pc = "masters"
  /\ kdc' = [kdc EXCEPT !.fresh = thr[t].fresh]
  /\ thr' = [thr EXCEPT ![t] = IdleThread]
  /\ UNCHANGED <<backend, km, mk, stash, made, now, tool, adm, exposed, clash>>

\* klmdb decode: an entry whose version the list lacks rereads K/M.
KdcDecode(p) ==
  /\ backend = "klmdb"
  /\ mk[p] # NoKey /\ Get(kdc.list, mk[p].kvno) = NoKey
  /\ CanRefresh(kdc.list, kdc.key)
  /\ kdc' = [kdc EXCEPT !.list = Refreshed(kdc.list, kdc.key)]
  /\ UNCHANGED <<backend, km, mk, stash, made, now, tool, adm, thr, exposed, clash>>

KdcRestart ==
  /\ CanFetch(km, stash.key)
  /\ kdc' = [key |-> stash.key, list |-> Fetch(km, stash.key), fresh |-> TRUE]
  /\ thr' = [t \in Threads |-> IdleThread]
  /\ UNCHANGED <<backend, km, mk, stash, made, now, tool, adm, exposed, clash>>

Next ==
  \/ Tick
  \/ \E p \in Princ : AdmBegin(p) \/ AdmWriteFile(p) \/ AdmDelete(p) \/ KdcDecode(p)
  \/ AdmCommitKlmdb \/ AdmRestart \/ KdcRestart
  \/ \E t \in Tools : ToolStep(t)
  \/ \E t \in Threads : KdcRead(t) \/ KdcMasters(t) \/ KdcCache(t)

Spec == Init /\ [][Next]_vars

-----------------------------------------------------------------------------
(***************************************************************************)
(* Properties.                                                             *)
(***************************************************************************)
Kvno == 0..MaxKey
Wrapped == [kvno : Kvno, key : 0..MaxKey]

\* K/M, the entries, the stash and the counters keep their types.
TypeOK ==
  /\ backend \in Backends
  /\ Range(km.keys) \subseteq [kvno : Kvno, key : Key, under : Key]
  /\ Range(km.aux) \subseteq [kvno : Kvno, under : Key, key : Key]
  /\ Range(km.act) \subseteq [kvno : Kvno, at : 0..MaxTime]
  /\ km.mkvno \in Kvno
  /\ mk \in [Princ -> Wrapped] /\ stash \in Wrapped
  /\ made \in Key /\ now \in 0..MaxTime
  /\ exposed \subseteq Princ /\ clash \in BOOLEAN

\* Every principal's keys are under a master key K/M still holds: rotation
\* loses an entry only when it is written between a purge's scan and its
\* edit of K/M, or under a list read before K/M changed, or when two
\* commands overlap.
EntriesReadable ==
  ~clash => \A p \in Princ \ exposed :
              mk[p] = NoKey \/ Get(KmList, mk[p].kvno) = mk[p]

\* As long as no two commands overlapped, K/M has an active key that admin
\* writes can wrap with, whatever was added, retimed and purged.
ActiveUsable == ~clash => Active(KmList, now) # NoKey

\* As long as no two commands overlapped, the stash file opens K/M: a
\* restarted daemon and the next command find the list (purge_mkeys refuses
\* to drop the stashed version, add_mkey leaves it an aux entry).
StashOpens == ~clash => CanFetch(km, stash.key) /\ Fetch(km, stash.key) = KmList

\* A daemon never decrypts an entry with another key of the same version,
\* however far its loaded list is behind K/M.
NoConfusion ==
  ~clash => \A p \in Princ : mk[p] # NoKey =>
    /\ Get(adm.list, mk[p].kvno) \in {NoKey, mk[p]}
    /\ Get(kdc.list, mk[p].kvno) \in {NoKey, mk[p]}

\* However keys are added, retimed and purged one command at a time, K/M has
\* an active key, the stash opens it, and no daemon holds another key under
\* the version of an entry's.
KeysAgree == ActiveUsable /\ StashOpens /\ NoConfusion

\* kdb.md: running services reread K/M when an entry names a master key they
\* have not loaded.  For the file store: once no thread is refreshing and
\* the cache is current, every entry K/M's keys open is decrypted.
KdcFollows ==
  (backend = "file" /\ kdc.fresh /\ \A t \in Threads : thr[t].pc = "idle")
    => \A p \in Princ \ exposed : ~clash /\ mk[p] # NoKey =>
         Get(kdc.list, mk[p].kvno) = mk[p]

\* kdb.md: purge_mkeys refuses to drop the stashed key, so the stash file
\* always opens K/M, whatever commands run together.
StashKept == CanFetch(km, stash.key)
=============================================================================
