------------------------------- MODULE Admin -------------------------------
(***************************************************************************)
(* Administration through kadmind: the kadm5 RPC calls that change the     *)
(* database (krb5-rs-kadmind.rs), the kpasswd service (kdb/kpasswd.rs),    *)
(* the kadm5_auth modules (kadmind/auth.rs, kdb/kadm5_auth.rs), the ACL    *)
(* restrictions (kdb/restrictions.rs) and AdminOps (kdb/admin.rs), over a  *)
(* store whose writes are one transaction each (klmdb's, in                *)
(* krb5-rs-kdb-lmdb/src/store.rs).                                         *)
(*                                                                         *)
(* Every call runs on a thread of its own.  It reads the database to look  *)
(* up and authorize its target (Check), a key change reads the policy and  *)
(* the history key in further transactions (Plan), and one write           *)
(* transaction applies it.  The reads and the write are separate           *)
(* transactions, so other calls come in between.  Only when a kadm5_auth   *)
(* shared-library module is loaded does one mutex (REQUESTS) serialize the *)
(* kadm5 calls; kpasswd holds it for the authorization alone.              *)
(*                                                                         *)
(* A refused call changes nothing, so a refusal before the first read is   *)
(* no step here and every later one is the step Refuse.  Passwords,        *)
(* attributes and limits keep what the rules compare; expiration times,    *)
(* the remaining numeric limits (they share MAX_LIFE's rule), tl-data,     *)
(* string attributes' contents and encodings are left out.                 *)
(***************************************************************************)
EXTENDS Integers, Sequences, FiniteSets, SequencesExt, FiniteSetsExt

CONSTANTS
    None, Idle,     \* no value; a worker without a call
    Workers,        \* threads serving calls
    Names,          \* principals the calls are about, as tuples of components
    Policies,       \* policy names
    Acl,            \* the parsed kadm5.acl: a sequence of entries
    Starts,         \* databases kadmind starts with, each with the calls its clients make
    Dictionary,     \* words the dict module refuses
    Strength,       \* password -> the length check_password measures
    MaxSelfKeep,    \* MAX_SELF_KEEPOLD
    DefaultFlags,   \* default_principal_flags
    DefaultLife,    \* the realm's max_life
    MaxLife,        \* the largest life a record can ask for: 2^31 - 1
    MaxKvno,        \* bound: highest key version
    MaxWrites,      \* bound: writes of a behaviour
    MaxTime         \* bound: clock

VARIABLES
    princs,         \* name -> entry, or None
    policies,       \* policy name -> policy, or None
    histkvno,       \* key version of kadmin/history, 0 while it does not exist
    calls,          \* worker -> the call it is serving, or Idle
    holder,         \* the worker holding REQUESTS, or None
    dynamic,        \* a shared-library kadm5_auth module is loaded (DYNAMIC)
    now,            \* the clock
    load,           \* the calls clients make
    writes          \* number of writes so far

vars == <<princs, policies, histkvno, calls, holder, dynamic, now, load, writes>>

Random == "random"      \* a key that is no password's key

NoRestr == [mask |-> {}, require |-> {}, forbid |-> {}, policy |-> None, life |-> 0]

\* A call with every argument at its default: the client, its target, and
\* for a rename or an alias the name it adds.
Req(op, c, t, d) ==
    [op |-> op, client |-> c, target |-> t, dest |-> d, changepw |-> FALSE, initial |-> TRUE,
     pw |-> None, keep |-> FALSE, kvno |-> 0, mask |-> {}, attrs |-> {}, policy |-> None,
     life |-> 0, rec |-> None]

\* A record's max_life is an i32.  principal_options casts it to u32 before it
\* is stored, so a negative one becomes a huge one, and a stored 0 is no
\* maximum at all (lifetime_cap).
Lives == -(MaxLife + 1)..MaxLife
StoredLife(t) == IF t < 0 THEN t + 2 * (MaxLife + 1) ELSE t

----------------------------------------------------------------------------
(* Key versions. *)

Kvnos(e) == {e.keys[i].kvno : i \in DOMAIN e.keys}

\* current_kvno().unwrap_or(0)
CurrentKvno(e) == IF e.keys = <<>> THEN 0 ELSE Max(Kvnos(e))

\* The keys of the current version: what a new password is compared with.
CurrentKeys(e) == {e.keys[i].key : i \in {j \in DOMAIN e.keys : e.keys[j].kvno = CurrentKvno(e)}}

\* preserve_old_keys: none for 0, all for 1, otherwise the newest keep - 1
\* versions.
OldKept(e, keep) ==
    LET newest == {k \in Kvnos(e) : Cardinality({j \in Kvnos(e) : j > k}) < keep - 1}
    IN  CASE keep = 0 -> <<>>
          [] keep = 1 -> e.keys
          [] OTHER    -> SelectSeq(e.keys, LAMBDA k : k.kvno \in newest)

\* clamp_keepold
ClampKeepold(r) ==
    IF ~r.keep THEN 0 ELSE IF r.client = r.target THEN MaxSelfKeep ELSE 1

----------------------------------------------------------------------------
(* The password history (add_to_history): a ring of n - 1 old passwords     *)
(* with the index the next one goes to, which grows and shrinks with the    *)
(* policy and restarts when the history key changes.                        *)

RingStart(e, hk) == IF e.hkvno = hk THEN [ring |-> e.ring, next |-> e.next]
                                    ELSE [ring |-> <<>>, next |-> 0]

RingRoomKeepingNext(h, keep) ==
    LET n == Len(h.ring)
    IN  CASE n < keep -> [h EXCEPT !.ring = InsertAt(@, Min({h.next, n}) + 1, None)]
          [] n > keep -> [h EXCEPT !.ring = [i \in 1..keep |->
                                       h.ring[((i - 1 + n + h.next - keep) % n) + 1]]]
          [] OTHER    -> h

\* Make room for one more entry of a ring that may hold keep.
RingRoom(h, keep) ==
    LET n == Len(h.ring)
    IN  CASE n < keep -> [h EXCEPT !.ring = InsertAt(@, Min({h.next, n}) + 1, None)]
          [] n > keep -> [ring |-> [i \in 1..keep |->
                                       h.ring[((i - 1 + n + h.next - keep) % n) + 1]],
                          next |-> 0]
          [] OTHER    -> h

AddToHistory(e, hk, num, old) ==
    IF num <= 1 THEN e
    ELSE LET keep == num - 1
             room == RingRoom(RingStart(e, hk), keep)
             at   == IF room.next + 1 > Len(room.ring) THEN 0 ELSE room.next
         IN  [e EXCEPT !.hkvno = hk,
                       !.ring = [room.ring EXCEPT ![at + 1] = old],
                       !.next = IF at + 1 = keep THEN 0 ELSE at + 1]

\* What the ring stands for, oldest first.
Unrolled(e) == [i \in 1..Len(e.ring) |-> e.ring[((i - 1 + e.next) % Len(e.ring)) + 1]]

\* The history as a queue of the newest num - 1 replaced passwords, kept
\* beside the ring as its specification.
LastOf(s, n) == IF Len(s) <= n THEN s ELSE SubSeq(s, Len(s) - n + 1, Len(s))
QueueAfter(e, hk, num, old) ==
    LastOf(Append(IF e.hkvno = hk THEN e.queue ELSE <<>>, old), num - 1)

----------------------------------------------------------------------------
(* Authorization: the acl module, the self module, and a shared-library     *)
(* module's refusal.                                                        *)

\* match_data and match_princ on the client: "*" matches any component and
\* records it.
MatchClient(p, c) ==
    \/ p = None
    \/ Len(p) = Len(c) /\ \A i \in 1..Len(p) : p[i] \in {"*", c[i]}
Recorded(p, c) ==
    IF p = None THEN <<>>
    ELSE LET stars == SetToSortSeq({i \in 1..Len(p) : p[i] = "*"}, <)
         IN  [k \in 1..Len(stars) |-> c[stars[k]]]

\* match_princ on the target: "*1".."*9" must equal the recorded component.
BackRef == [s \in {"*1", "*2"} |-> IF s = "*1" THEN 1 ELSE 2]
MatchTarget(p, t, ws) ==
    \/ p = None
    \/ /\ t # None
       /\ Len(p) = Len(t)
       /\ \A i \in 1..Len(p) :
             IF p[i] \in DOMAIN BackRef
             THEN BackRef[p[i]] \in 1..Len(ws) /\ ws[BackRef[p[i]]] = t[i]
             ELSE p[i] \in {"*", t[i]}

\* acl_check: the first entry that matches client and target decides.
AclHits(c, t) ==
    {i \in 1..Len(Acl) : /\ MatchClient(Acl[i].client, c)
                         /\ MatchTarget(Acl[i].target, t, Recorded(Acl[i].client, c))}
AclGrants(c, op, t) == AclHits(c, t) # {} /\ op \in Acl[Min(AclHits(c, t))].ops
AclFree(c, op, t)   == AclGrants(c, op, t) /\ Acl[Min(AclHits(c, t))].restr = NoRestr
Restrictions(c, t)  == IF AclHits(c, t) = {} THEN NoRestr ELSE Acl[Min(AclHits(c, t))].restr

\* Limits are 32-bit numbers.  The databases hold entries, the calls have
\* their arguments, and clients without restrictions filled the databases.
EntryFields == {"keys", "attrs", "policy", "life", "last", "ring", "next", "hkvno",
                "queue", "alias", "by"}
ASSUME LimitsAssumption ==
    /\ None \notin Workers
    /\ MaxLife \in Nat
    /\ \A i \in 1..Len(Acl) : Acl[i].restr.life \in Lives
ASSUME StartsAssumption ==
    \A s \in Starts :
       /\ DOMAIN s.princs = Names
       /\ \A n \in Names : s.princs[n] # None =>
             /\ DOMAIN s.princs[n] = EntryFields
             /\ \A c \in s.princs[n].by : Restrictions(c, n) = NoRestr
       /\ \A r \in s.load :
             /\ DOMAIN r = DOMAIN Req(None, None, None, None) /\ r.life \in Lives
             /\ r.target \in Names \/ r.op \in {"addpol", "modpol", "delpol", "rekey"}

AclPermitsRestrictedAdd(r) ==
    CASE r.op \in {"alias", "rename"} -> AclGrants(r.client, "add", r.dest)
      [] r.op = "create"              -> AclGrants(r.client, "add", r.target)
      [] OTHER                        -> TRUE

\* AclModule::authorize
AclPermits(r) ==
    CASE r.op = "create"                         -> AclGrants(r.client, "add", r.target)
      [] r.op \in {"modify", "purge", "setstr"}  -> AclGrants(r.client, "modify", r.target)
      [] r.op \in {"chpass", "chrand", "kpasswd", "rekey"}
                                                 -> AclGrants(r.client, "changepw", r.target)
      [] r.op = "setkey"                         -> AclGrants(r.client, "setkey", r.target)
      [] r.op = "delete"                         -> AclGrants(r.client, "delete", r.target)
      [] r.op = "rename" -> /\ AclGrants(r.client, "delete", r.target)
                            /\ AclFree(r.client, "add", r.dest)
      [] r.op = "alias"  -> /\ AclFree(r.client, "add", r.dest)
                            /\ AclGrants(r.client, "modify", r.target)
      [] r.op = "addpol"                         -> AclGrants(r.client, "add", None)
      [] r.op = "modpol"                         -> AclGrants(r.client, "modify", None)
      [] r.op = "delpol"                         -> AclGrants(r.client, "delete", None)

\* SelfModule::authorize
SelfPermits(r) == r.op \in {"chpass", "chrand", "kpasswd", "purge"} /\ r.client = r.target

\* Kadm5AuthModules::authorize, a loaded module having no opinion (a refusal
\* by it is Refuse).
Authorize(r) == AclPermits(r) \/ SelfPermits(r)

\* A kadmin/changepw ticket only changes its own principal's keys.
ServiceAllows(r) == r.changepw => r.op \in {"chpass", "chrand"} /\ r.client = r.target

----------------------------------------------------------------------------
(* The checks a call makes before its write. *)

Exists(n) == princs[n] # None
Locked(n) == "lockdown" \in princs[n].attrs

PolicyOf(name) == IF name = None THEN None ELSE policies[name]

\* check_self_keychange and kpasswd's check_min_life
SelfKeychange(r) ==
    r.client = r.target =>
        /\ r.initial
        /\ LET e == princs[r.target]
               p == PolicyOf(e.policy)
           IN  IF p = None THEN TRUE
               ELSE now - e.last >= p.minlife \/ "pwchange" \in e.attrs

\* check_password: the policy's own rules
CheckPassword(pw, p) == Strength[pw] >= p.minlen

\* The dict and princ modules, which only look at principals with a policy;
\* the empty module's refusal is left to the client, whose passwords are
\* not empty.
DictCheck(pw)     == pw \notin Dictionary
PrincCheck(pw, t) == pw \notin Range(t)

\* passwd_check
PasswordFits(pw, p, t) ==
    IF pw = None \/ p = None THEN TRUE
    ELSE CheckPassword(pw, p) /\ DictCheck(pw) /\ PrincCheck(pw, t)

ImposeOnRequested(rs, r) ==
    [r EXCEPT
       !.attrs  = IF "attrs" \in rs.mask \cap r.mask THEN (@ \cup rs.require) \ rs.forbid ELSE @,
       !.policy = IF "policy" \in rs.mask \cap r.mask THEN rs.policy ELSE @]

\* impose_restrictions on a create's or modify's record and mask
Impose(rs, r) ==
    [r EXCEPT
       !.attrs  = IF "attrs" \in rs.mask THEN (@ \cup rs.require) \ rs.forbid ELSE @,
       !.policy = IF "clrpolicy" \notin rs.mask /\ "policy" \in rs.mask THEN rs.policy ELSE @,
       !.life   = IF "life" \in rs.mask /\ ("life" \notin r.mask \/ @ > rs.life)
                  THEN rs.life ELSE @,
       !.mask   = ((IF "clrpolicy" \in rs.mask THEN @ \ {"policy"} ELSE @) \cup rs.mask)
                  \ (IF "clrpolicy" \in rs.mask THEN {"policy"} ELSE {})]

\* create and modify go on with the record the restrictions left.
Restricted(r) == IF r.op \in {"create", "modify"} /\ AclPermits(r)
                 THEN Impose(Restrictions(r.client, r.target), r) ELSE r

\* The policy a create gives its principal.
PolicyAsked(r) == IF "policy" \in r.mask THEN r.policy ELSE None

\* modify_principal asks for the lockdown attribute on the record as sent,
\* before the restrictions are imposed on it.
ModifyAllowed(r) == "attrs" \in r.mask /\ "lockdown" \notin r.attrs => ~Locked(r.target)

\* stub_rec: the target of these calls is fetched before anything else.
StubRec(r) ==
    r.op \in {"chrand", "chpass", "setkey", "purge", "setstr", "modify"} => Exists(r.target)

ChpassCheckedIgnoringLockdown(r) == SelfKeychange(r)

\* What each call reads and refuses before it writes (chpass, chrand, ...).
ChpassChecked(r) == ~Locked(r.target) /\ SelfKeychange(r)
ChrandChecked(r) == SelfKeychange(r)
KpasswdChecked(r) == Exists(r.target) /\ SelfKeychange(r)
SetkeyChecked(r) == ~Locked(r.target)
DeleteChecked(r) == Exists(r.target) /\ ~Locked(r.target)
RenameChecked(r) == Exists(r.target) /\ ~Locked(r.target)
ModifyChecked(r) == ModifyAllowed(r)
CreateChecked(r) ==
    /\ ~Exists(r.target)
    /\ PasswordFits(r.pw, PolicyOf(PolicyAsked(Restricted(r))), r.target)
CreatePolicyChecked(r) == policies[r.policy] = None
ModifyPolicyChecked(r) == policies[r.policy] # None

\* Kadm5::write
Checked(r) ==
    CASE r.op = "chpass"  -> ChpassChecked(r)
      [] r.op = "chrand"  -> ChrandChecked(r)
      [] r.op = "kpasswd" -> KpasswdChecked(r)
      [] r.op = "setkey"  -> SetkeyChecked(r)
      [] r.op = "delete"  -> DeleteChecked(r)
      [] r.op = "rename"  -> RenameChecked(r)
      [] r.op = "modify"  -> ModifyChecked(r)
      [] r.op = "create"  -> CreateChecked(r)
      [] r.op = "addpol"  -> CreatePolicyChecked(r)
      [] r.op = "modpol"  -> ModifyPolicyChecked(r)
      [] r.op = "rekey"   -> histkvno # 0
      [] OTHER            -> TRUE

KeyChange(r) == r.op \in {"chpass", "chrand", "kpasswd"}

\* Dispatch of a call up to its last check.  A kadm5 call takes REQUESTS
\* first when a module is loaded.
Check(w, r) ==
    /\ calls[w] = Idle
    /\ ServiceAllows(r)
    /\ Authorize(r)
    /\ StubRec(r)
    /\ Checked(r)
    /\ IF dynamic /\ r.op # "kpasswd"
       THEN holder = None /\ holder' = w
       ELSE (dynamic => holder = None) /\ UNCHANGED holder
    /\ calls' = [calls EXCEPT ![w] = [req |-> Restricted(r),
                                      at |-> IF KeyChange(r) THEN "plan" ELSE "write",
                                      policy |-> None, num |-> 0, hk |-> 0]]
    /\ UNCHANGED <<princs, policies, histkvno, dynamic, now, load, writes>>

----------------------------------------------------------------------------
(* change_password_keeping: the reads, then the transaction.                *)

NewKey(r) == IF r.pw = None THEN Random ELSE r.pw

\* End of a call: REQUESTS is released.
Ends(w) ==
    /\ calls' = [calls EXCEPT ![w] = Idle]
    /\ holder' = IF holder = w THEN None ELSE holder

\* The entry's policy, the policy itself and the history key, which the first
\* password change under a policy creates at version 2 before the password
\* is judged.
Plan(w) ==
    /\ calls[w] # Idle /\ calls[w].at = "plan"
    /\ LET r == calls[w].req IN
       /\ Exists(r.target)
       /\ LET name == princs[r.target].policy
              p    == PolicyOf(name)
              hist == p # None /\ r.pw # None
              hk   == IF histkvno = 0 THEN 2 ELSE histkvno
          IN  /\ histkvno' = IF hist THEN hk ELSE histkvno
              /\ IF PasswordFits(r.pw, p, r.target)
                 THEN /\ calls' = [calls EXCEPT ![w] =
                                      [calls[w] EXCEPT
                                         !.at = "write",
                                         !.policy = name,
                                         !.num = IF p = None THEN 0 ELSE p.history,
                                         !.hk = IF hist THEN hk ELSE 0]]
                      /\ UNCHANGED holder
                 ELSE Ends(w)
    /\ UNCHANGED <<princs, policies, dynamic, now, load, writes>>

ReusedCurrentOnly(e, c) == c.req.pw # None /\ c.num > 0 /\ NewKey(c.req) \in CurrentKeys(e)

\* check_pw_reuse against the current password and the history
Reused(e, c) ==
    /\ c.req.pw # None
    /\ c.num > 0
    /\ \/ NewKey(c.req) \in CurrentKeys(e)
       \/ c.num > 1 /\ e.hkvno = c.hk /\ NewKey(c.req) \in Range(e.ring)

\* One password per version stands for its keys of every enctype.
OldPassword(e) == CHOOSE k \in CurrentKeys(e) : TRUE

WithHistory(e, c) ==
    IF c.req.pw = None \/ c.num <= 1 \/ e.keys = <<>> THEN e
    ELSE [AddToHistory(e, c.hk, c.num, OldPassword(e))
             EXCEPT !.queue = QueueAfter(e, c.hk, c.num, OldPassword(e))]

Writes(w, op) ==
    /\ calls[w] # Idle
    /\ calls[w].at = "write"
    /\ calls[w].req.op = op
    /\ writes < MaxWrites
    /\ writes' = writes + 1
    /\ Ends(w)
    /\ UNCHANGED <<dynamic, now, load>>

ChangePassword(w, op) ==
    /\ Writes(w, op)
    /\ LET c == calls[w]
           r == c.req
       IN  /\ Exists(r.target)
           /\ LET e    == princs[r.target]
                  kvno == CurrentKvno(e) + 1
                  keep == IF op = "kpasswd" THEN 0 ELSE ClampKeepold(r)
              IN  /\ e.policy = c.policy
                  /\ ~Reused(e, c)
                  /\ kvno <= MaxKvno
                  /\ princs' = [princs EXCEPT ![r.target] =
                        [WithHistory(e, c) EXCEPT
                           !.keys  = <<[kvno |-> kvno, key |-> NewKey(r)]>> \o OldKept(e, keep),
                           !.attrs = @ \ {"pwchange"},
                           !.last  = now]]
    /\ UNCHANGED <<policies, histkvno>>

----------------------------------------------------------------------------
(* The other writes. *)

NewEntry(r) ==
    [keys   |-> <<[kvno |-> 1, key |-> NewKey(r)]>>,
     attrs  |-> IF "attrs" \in r.mask THEN r.attrs ELSE DefaultFlags,
     policy |-> PolicyAsked(r),
     life   |-> IF "life" \in r.mask THEN StoredLife(r.life) ELSE DefaultLife,
     last   |-> now, ring |-> <<>>, next |-> 0, hkvno |-> 0, queue |-> <<>>,
     alias  |-> FALSE, by |-> {r.client}]

CreatePrincipalUnchecked(w) ==
    /\ Writes(w, "create")
    /\ LET r == calls[w].req
       IN  princs' = [princs EXCEPT ![r.target] = NewEntry(r)]
    /\ UNCHANGED <<policies, histkvno>>

\* create_principal: the name must still be free in the transaction.
CreatePrincipal(w) ==
    /\ Writes(w, "create")
    /\ LET r == calls[w].req IN
       /\ ~Exists(r.target)
       /\ princs' = [princs EXCEPT ![r.target] = NewEntry(r)]
    /\ UNCHANGED <<policies, histkvno>>

\* principal_options and apply_options
ApplyOptions(e, r) ==
    [e EXCEPT !.attrs  = IF "attrs" \in r.mask THEN r.attrs ELSE @,
              !.life   = IF "life" \in r.mask THEN StoredLife(r.life) ELSE @,
              !.policy = IF "policy" \in r.mask THEN r.policy
                         ELSE IF "clrpolicy" \in r.mask THEN None ELSE @]

ModifyPrincipal(w) ==
    /\ Writes(w, "modify")
    /\ LET r == calls[w].req IN
       /\ Exists(r.target)
       /\ princs' = [princs EXCEPT ![r.target] =
                        [ApplyOptions(princs[r.target], r) EXCEPT !.by = @ \cup {r.client}]]
    /\ UNCHANGED <<policies, histkvno>>

\* delete_principal
DeletePrincipal(w) ==
    /\ Writes(w, "delete")
    /\ Exists(calls[w].req.target)
    /\ princs' = [princs EXCEPT ![calls[w].req.target] = None]
    /\ UNCHANGED <<policies, histkvno>>

\* rename_principal: the source as it is in the transaction, refused for an
\* alias; the destination must be free.
RenamePrincipal(w) ==
    /\ Writes(w, "rename")
    /\ LET r == calls[w].req IN
       /\ Exists(r.target) /\ ~princs[r.target].alias
       /\ ~Exists(r.dest)
       /\ princs' = [princs EXCEPT ![r.dest] = [princs[r.target] EXCEPT !.by = @ \cup {r.client}],
                                   ![r.target] = None]
    /\ UNCHANGED <<policies, histkvno>>

\* create_alias stores an entry without keys; the target is only named.
AliasEntry(r) ==
    [keys |-> <<>>, attrs |-> {"disallow"}, policy |-> None, life |-> 0, last |-> 0,
     ring |-> <<>>, next |-> 0, hkvno |-> 0, queue |-> <<>>, alias |-> TRUE, by |-> {r.client}]
CreateAlias(w) ==
    /\ Writes(w, "alias")
    /\ LET r == calls[w].req IN
       /\ ~Exists(r.dest)
       /\ princs' = [princs EXCEPT ![r.dest] = AliasEntry(r)]
    /\ UNCHANGED <<policies, histkvno>>

\* setkey_data: the next version, or the client's, which keepold requires to
\* be new; the old keys go either way.
SetKey(w) ==
    /\ Writes(w, "setkey")
    /\ LET r == calls[w].req IN
       /\ Exists(r.target)
       /\ LET e    == princs[r.target]
              kvno == IF r.kvno = 0 THEN CurrentKvno(e) + 1 ELSE r.kvno
          IN  /\ r.kvno # 0 /\ r.keep => r.kvno \notin Kvnos(e)
              /\ kvno <= MaxKvno
              /\ princs' = [princs EXCEPT ![r.target] =
                              [e EXCEPT !.keys = <<[kvno |-> kvno, key |-> Random]>>,
                                        !.attrs = @ \ {"pwchange"},
                                        !.last = now]]
    /\ UNCHANGED <<policies, histkvno>>

\* purgekeys: the versions below the client's kvno, or below the current one
PurgeKeys(w) ==
    /\ Writes(w, "purge")
    /\ LET r == calls[w].req IN
       /\ Exists(r.target)
       /\ LET e    == princs[r.target]
              keep == IF r.kvno > 0 THEN r.kvno ELSE CurrentKvno(e)
          IN  princs' = [princs EXCEPT ![r.target] =
                            [e EXCEPT !.keys = SelectSeq(@, LAMBDA k : k.kvno >= keep)]]
    /\ UNCHANGED <<policies, histkvno>>

\* set_string: an attribute no rule here reads
SetString(w) ==
    /\ Writes(w, "setstr")
    /\ Exists(calls[w].req.target)
    /\ UNCHANGED <<princs, policies, histkvno>>

\* chrand of kadmin/history, the only change that principal accepts
RekeyHistory(w) ==
    /\ Writes(w, "rekey")
    /\ histkvno' = histkvno + 1
    /\ UNCHANGED <<princs, policies>>

\* create_policy, modify_policy and delete_policy; principals keep the name
\* of a deleted policy.
CreatePolicy(w) ==
    /\ Writes(w, "addpol")
    /\ LET r == calls[w].req IN
       /\ policies[r.policy] = None
       /\ policies' = [policies EXCEPT ![r.policy] = r.rec]
    /\ UNCHANGED <<princs, histkvno>>
ModifyPolicy(w) ==
    /\ Writes(w, "modpol")
    /\ LET r == calls[w].req IN
       /\ policies[r.policy] # None
       /\ policies' = [policies EXCEPT ![r.policy] = r.rec]
    /\ UNCHANGED <<princs, histkvno>>
DeletePolicy(w) ==
    /\ Writes(w, "delpol")
    /\ policies[calls[w].req.policy] # None
    /\ policies' = [policies EXCEPT ![calls[w].req.policy] = None]
    /\ UNCHANGED <<princs, histkvno>>

\* A module or a precommit hook refuses, the quality checks fail, or the
\* transaction finds the entry gone, its policy changed, the password reused
\* or the name taken: the call ends and nothing is written.
Refuse(w) ==
    /\ calls[w] # Idle
    /\ Ends(w)
    /\ UNCHANGED <<princs, policies, histkvno, dynamic, now, load, writes>>

Tick ==
    /\ now < MaxTime
    /\ now' = now + 1
    /\ UNCHANGED <<princs, policies, histkvno, calls, holder, dynamic, load, writes>>

----------------------------------------------------------------------------
Init ==
    /\ \E s \in Starts :
          princs = s.princs /\ policies = s.policies /\ histkvno = s.hist /\ load = s.load
    /\ calls = [w \in Workers |-> Idle]
    /\ holder = None
    /\ dynamic \in BOOLEAN
    /\ now = 0
    /\ writes = 0

Next ==
    \/ \E w \in Workers :
          \/ \E r \in load : Check(w, r)
          \/ Plan(w)
          \/ \E op \in {"chpass", "chrand", "kpasswd"} : ChangePassword(w, op)
          \/ CreatePrincipal(w) \/ ModifyPrincipal(w) \/ DeletePrincipal(w)
          \/ RenamePrincipal(w) \/ CreateAlias(w) \/ SetKey(w) \/ PurgeKeys(w)
          \/ SetString(w) \/ RekeyHistory(w)
          \/ CreatePolicy(w) \/ ModifyPolicy(w) \/ DeletePolicy(w)
          \/ Refuse(w)
    \/ Tick

Spec == Init /\ [][Next]_vars

----------------------------------------------------------------------------
(* Properties *)

\* The entry a step of worker w's call wrote.
Wrote(w) == calls[w] # Idle /\ calls'[w] = Idle /\ princs' # princs
Rewrote(w, n) == Wrote(w) /\ princs'[n] # princs[n]

\* The history ring, read from old_key_next, is the queue of the newest
\* pw_history_num - 1 replaced passwords, however the policy grew and shrank
\* and the history key changed in between (add_to_history).
HistoryExact == \A n \in Names : Exists(n) => Unrolled(princs[n]) = princs[n].queue

\* A password change under a policy with history never sets the current
\* password or one the history holds, when the history key it read is still
\* the current one (change_password_keeping).
NoReuse ==
    [][\A w \in Workers : Wrote(w) /\ KeyChange(calls[w].req) /\ calls[w].req.pw # None =>
          LET c == calls[w]
              e == princs[c.req.target]
          IN  c.num > 1 /\ c.hk = histkvno =>
                 /\ c.req.pw \notin CurrentKeys(e)
                 /\ (e.hkvno = histkvno) => c.req.pw \notin Range(e.queue)]_vars

\* The same whatever happened to the history key in between: what the
\* documentation says of cpw.
NoReuseEver ==
    [][\A w \in Workers :
          /\ Wrote(w)
          /\ KeyChange(calls[w].req) /\ calls[w].req.pw # None
          /\ calls[w].num > 1
          => calls[w].req.pw \notin Range(princs[calls[w].req.target].queue)]_vars

\* While a module serializes the kadm5 calls, no call of an administrator
\* without restrictions deletes or renames a principal with lockdown_keys,
\* clears the attribute, or changes its keys other than to random ones or by
\* dropping old versions.
LockdownKept ==
    [][dynamic =>
         \A w \in Workers, n \in Names :
            /\ Rewrote(w, n) /\ Exists(n) /\ Locked(n)
            /\ calls[w].req.op # "kpasswd"
            /\ Restrictions(calls[w].req.client, n) = NoRestr
            => /\ calls[w].req.op \notin {"delete", "rename"}
               /\ "lockdown" \in princs'[n].attrs
               /\ calls[w].req.op \in {"chrand", "purge"} \/ princs'[n].keys = princs[n].keys]_vars

\* The same of every call, whoever makes it and however calls are served: what
\* the documentation says of lockdown_keys.
LockdownAlways ==
    [][\A w \in Workers, n \in Names :
          /\ Rewrote(w, n) /\ Exists(n) /\ Locked(n)
          => /\ princs'[n] # None
             /\ "lockdown" \in princs'[n].attrs
             /\ calls[w].req.op \in {"chrand", "purge"} \/ princs'[n].keys = princs[n].keys]_vars

\* A self-service change never comes before the policy's minimum password
\* life has passed since the last one.
MinLifeKept ==
    [][\A w \in Workers :
          Wrote(w) /\ KeyChange(calls[w].req) /\ calls[w].req.client = calls[w].req.target =>
             LET e == princs[calls[w].req.target]
                 p == PolicyOf(e.policy)
             IN  p = None \/ now - e.last >= p.minlife \/ "pwchange" \in e.attrs]_vars

\* Two calls that add one name, by create, alias or rename, never both
\* succeed: an entry is only ever written over by a call about that entry.
NoOverwrite ==
    [][\A w \in Workers, n \in Names :
          Rewrote(w, n) /\ calls[w].req.op \in {"create", "alias", "rename"} =>
             ~Exists(n) \/ (calls[w].req.op = "rename" /\ n = calls[w].req.target
                            /\ princs'[n] = None)]_vars

\* An entry has what restrictions force: required attributes, except the
\* need to change the password, which the next key change clears; none of
\* the forbidden ones; a life within the limit, unless the call asked for 0 or
\* less, which impose lets pass and which is then stored as no maximum or as
\* one above every i32; no policy or the given one.
Obeys(e, rs) ==
    /\ "attrs" \in rs.mask => /\ rs.require \ (rs.forbid \cup {"pwchange"}) \subseteq e.attrs
                              /\ rs.forbid \cap e.attrs = {}
    /\ "life" \in rs.mask => e.life = 0 \/ e.life <= rs.life \/ e.life > MaxLife
    /\ "clrpolicy" \in rs.mask => e.policy = None
    /\ "policy" \in rs.mask /\ "clrpolicy" \notin rs.mask => e.policy = rs.policy

\* A principal only a restricted administrator has created or modified obeys
\* that administrator's ACL restrictions, through every sequence of creates,
\* modifies, renames, aliases and key changes (impose_restrictions).
RestrictionsHold ==
    \A n \in Names : Exists(n) =>
        \A c \in princs[n].by : princs[n].by = {c} => Obeys(princs[n], Restrictions(c, n))

\* The same without the exception: a limited administrator's principals have
\* a maximum life, and none above the limit. Lives of 0 and below break it.
LivesCapped ==
    \A n \in Names : Exists(n) =>
        \A c \in princs[n].by :
           LET rs == Restrictions(c, n)
           IN  princs[n].by = {c} /\ "life" \in rs.mask /\ rs.life > 0 =>
                   princs[n].life \in 1..rs.life

\* The password history is exact and nothing it holds is set again
\* (add_to_history, change_password_keeping).
HistoryKept == []HistoryExact /\ NoReuse

\* No call writes over an entry it may not write: a locked-down principal's
\* keys, or another call's new entry.
WritesAllowed == LockdownKept /\ NoOverwrite

=============================================================================
