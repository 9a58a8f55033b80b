---------------------------- MODULE Admin_proofs ----------------------------
(***************************************************************************)
(* Proofs about Admin, for every ACL, database, set of calls and number of *)
(* threads: RestrictionsHold and WritesAllowed. The inductive invariant    *)
(* says what a call that passed its checks may still rely on when its      *)
(* transaction comes: the restrictions imposed on its record, and, while   *)
(* REQUESTS serializes the calls, that its target is not locked down.      *)
(***************************************************************************)
EXTENDS Admin, WellFoundedInduction, TLAPS

ReqFields == {"op", "client", "target", "dest", "changepw", "initial", "pw", "keep", "kvno",
              "mask", "attrs", "policy", "life", "rec"}
CallFields == {"req", "at", "policy", "num", "hk"}

\* What impose_restrictions left of a create's or modify's record.
Bound(r, rs) ==
    /\ "attrs" \in rs.mask => /\ "attrs" \in r.mask
                              /\ rs.require \ rs.forbid \subseteq r.attrs
                              /\ rs.forbid \cap r.attrs = {}
    /\ "life" \in rs.mask => "life" \in r.mask /\ r.life <= rs.life
    /\ r.life \in Lives /\ rs.life \in Lives
    /\ "clrpolicy" \in rs.mask => "clrpolicy" \in r.mask /\ "policy" \notin r.mask
    /\ "policy" \in rs.mask /\ "clrpolicy" \notin rs.mask => "policy" \in r.mask /\ r.policy = rs.policy

\* A call that passed its checks carries a record its restrictions allow.
RequestOk(r) ==
    /\ r.op \in {"create", "modify"} => Bound(r, Restrictions(r.client, r.target))
    /\ r.op \in {"alias", "rename"} => Restrictions(r.client, r.dest) = NoRestr
    /\ r.op = "rename" => r.target \in Names

\* A call that must not meet lockdown_keys did not, and does not.
UnlockedFor(r) ==
    r.target \in Names /\ Exists(r.target) =>
        /\ r.op \in {"chpass", "setkey", "delete", "rename"} => ~Locked(r.target)
        /\ /\ r.op = "modify" /\ Restrictions(r.client, r.target) = NoRestr
           /\ "attrs" \in r.mask /\ "lockdown" \notin r.attrs
           => ~Locked(r.target)

DbInv ==
    /\ DOMAIN princs = Names
    /\ \A n \in Names : Exists(n) => DOMAIN princs[n] = EntryFields
    /\ RestrictionsHold

CallInv ==
    /\ DOMAIN calls = Workers
    /\ \A r \in load : /\ DOMAIN r = ReqFields /\ r.life \in Lives
                       /\ r.op = "rename" => r.target \in Names
    /\ \A w \in Workers : calls[w] # Idle =>
          DOMAIN calls[w] = CallFields /\ RequestOk(calls[w].req)

\* While a module is loaded, the pending kadm5 call is REQUESTS' holder's.
MutexInv ==
    dynamic => \A w \in Workers : calls[w] # Idle /\ calls[w].req.op # "kpasswd" =>
                   holder = w /\ UnlockedFor(calls[w].req)

IInv == DbInv /\ CallInv /\ MutexInv

-----------------------------------------------------------------------------
(* The operators. *)

LEMMA LeastHit ==
    ASSUME NEW S \in SUBSET Nat, S # {}
    PROVE  Min(S) \in S
<1> DEFINE R == OpToRel(<, Nat)
<1>1. \A a, b \in Nat : a < b => <<a, b>> \in R
  BY Zenon DEF OpToRel
<1> HIDE DEF R
<1>2. PICK m \in S : \A z \in S : ~(<<z, m>> \in R)
  <2>1. IsWellFoundedOn(R, Nat)
    BY NatLessThanWellFounded, Zenon DEF R
  <2> QED BY <2>1, WFMin, Zenon
<1>3. \A z \in S : m <= z
  <2> TAKE z \in S
  <2>1. ~(z < m)
    BY <1>1, <1>2, Zenon
  <2> QED BY <2>1
<1> QED BY <1>3 DEF Min

LEMMA RestrictionsLife ==
    ASSUME NEW c, NEW t
    PROVE  Restrictions(c, t).life \in Lives
<1>1. CASE AclHits(c, t) = {}
  BY <1>1, LimitsAssumption DEF Restrictions, NoRestr, Lives
<1>2. CASE AclHits(c, t) # {}
  <2>1. AclHits(c, t) \in SUBSET Nat /\ AclHits(c, t) \subseteq 1..Len(Acl)
    BY DEF AclHits
  <2>2. Min(AclHits(c, t)) \in 1..Len(Acl)
    BY <1>2, <2>1, LeastHit
  <2> QED BY <1>2, <2>2, LimitsAssumption DEF Restrictions
<1> QED BY <1>1, <1>2

LEMMA ImposeBinds ==
    ASSUME NEW rs, rs.life \in Lives, NEW r, DOMAIN r = ReqFields, r.life \in Lives
    PROVE  /\ Bound(Impose(rs, r), rs)
           /\ Impose(rs, r).op = r.op /\ Impose(rs, r).client = r.client
           /\ Impose(rs, r).target = r.target /\ Impose(rs, r).dest = r.dest
           /\ rs.mask = {} => Impose(rs, r).mask = r.mask /\ Impose(rs, r).attrs = r.attrs
<1>1. PICK i : i = Impose(rs, r)
  OBVIOUS
<1>2. /\ i.attrs = IF "attrs" \in rs.mask THEN (r.attrs \cup rs.require) \ rs.forbid ELSE r.attrs
      /\ i.policy = IF "clrpolicy" \notin rs.mask /\ "policy" \in rs.mask THEN rs.policy ELSE r.policy
      /\ i.life = IF "life" \in rs.mask /\ ("life" \notin r.mask \/ r.life > rs.life)
                  THEN rs.life ELSE r.life
      /\ i.mask = ((IF "clrpolicy" \in rs.mask THEN r.mask \ {"policy"} ELSE r.mask) \cup rs.mask)
                  \ (IF "clrpolicy" \in rs.mask THEN {"policy"} ELSE {})
      /\ i.op = r.op /\ i.client = r.client /\ i.target = r.target /\ i.dest = r.dest
  BY <1>1 DEF Impose, ReqFields
<1>3. Bound(i, rs)
  BY <1>2, LimitsAssumption DEF Bound, Lives
<1>4. rs.mask = {} => i.mask = r.mask /\ i.attrs = r.attrs
  BY <1>2
<1> QED BY <1>1, <1>2, <1>3, <1>4

\* What the dispatcher hands on of a call that is authorized.
LEMMA RestrictedOk ==
    ASSUME NEW r, DOMAIN r = ReqFields, r.life \in Lives, Authorize(r),
           r.op = "rename" => r.target \in Names
    PROVE  /\ RequestOk(Restricted(r))
           /\ Restricted(r).op = r.op /\ Restricted(r).client = r.client
           /\ Restricted(r).target = r.target /\ Restricted(r).dest = r.dest
           /\ Restrictions(r.client, r.target) = NoRestr =>
                 Restricted(r).mask = r.mask /\ Restricted(r).attrs = r.attrs
<1>1. CASE r.op \in {"create", "modify"}
  <2>1. AclPermits(r)
    BY <1>1 DEF Authorize, SelfPermits
  <2>2. PICK rs : rs = Restrictions(r.client, r.target)
    OBVIOUS
  <2>3. Restricted(r) = Impose(rs, r)
    BY <1>1, <2>1, <2>2 DEF Restricted
  <2>4. rs.life \in Lives
    BY <2>2, RestrictionsLife
  <2>5. /\ Bound(Impose(rs, r), rs)
        /\ Impose(rs, r).op = r.op /\ Impose(rs, r).client = r.client
        /\ Impose(rs, r).target = r.target /\ Impose(rs, r).dest = r.dest
        /\ rs.mask = {} => Impose(rs, r).mask = r.mask /\ Impose(rs, r).attrs = r.attrs
    BY <2>4, ImposeBinds
  <2>6. rs = NoRestr => rs.mask = {}
    BY DEF NoRestr
  <2> QED BY <1>1, <2>2, <2>3, <2>5, <2>6 DEF RequestOk
<1>2. CASE r.op \notin {"create", "modify"}
  <2>1. Restricted(r) = r
    BY <1>2 DEF Restricted
  <2>2. r.op \in {"alias", "rename"} => AclFree(r.client, "add", r.dest)
    BY DEF Authorize, SelfPermits, AclPermits
  <2>3. AclFree(r.client, "add", r.dest) => Restrictions(r.client, r.dest) = NoRestr
    BY DEF AclFree, AclGrants, Restrictions
  <2> QED BY <1>2, <2>1, <2>2, <2>3 DEF RequestOk
<1> QED BY <1>1, <1>2

\* The password history leaves the rest of the entry alone.
LEMMA HistoryKeeps ==
    ASSUME NEW e, DOMAIN e = EntryFields, NEW c
    PROVE  /\ DOMAIN WithHistory(e, c) = EntryFields
           /\ WithHistory(e, c).attrs = e.attrs /\ WithHistory(e, c).policy = e.policy
           /\ WithHistory(e, c).life = e.life /\ WithHistory(e, c).by = e.by
<1>1. ASSUME NEW hk, NEW num, NEW old, NEW a, a = AddToHistory(e, hk, num, old)
      PROVE  DOMAIN a = EntryFields /\ a.attrs = e.attrs /\ a.policy = e.policy
             /\ a.life = e.life /\ a.by = e.by
  <2> DEFINE keep == num - 1
             room == RingRoom(RingStart(e, hk), keep)
             at   == IF room.next + 1 > Len(room.ring) THEN 0 ELSE room.next
             rng  == [room.ring EXCEPT ![at + 1] = old]
             nx   == IF at + 1 = keep THEN 0 ELSE at + 1
  <2>1. a = e \/ a = [e EXCEPT !.hkvno = hk, !.ring = rng, !.next = nx]
    BY <1>1 DEF AddToHistory
  <2> HIDE DEF rng, nx
  <2> QED BY <2>1 DEF EntryFields
<1>2. PICK a : a = AddToHistory(e, c.hk, c.num, OldPassword(e))
  OBVIOUS
<1>3. PICK q : q = QueueAfter(e, c.hk, c.num, OldPassword(e))
  OBVIOUS
<1>4. WithHistory(e, c) = e \/ WithHistory(e, c) = [a EXCEPT !.queue = q]
  BY <1>2, <1>3 DEF WithHistory
<1>5. DOMAIN a = EntryFields /\ a.attrs = e.attrs /\ a.policy = e.policy /\ a.life = e.life /\ a.by = e.by
  BY <1>1, <1>2
<1>6. PICK h : h = WithHistory(e, c)
  OBVIOUS
<1> QED BY <1>4, <1>5, <1>6 DEF EntryFields

\* An entry whose attributes only lose the need to change the password.
LEMMA ObeysKept ==
    ASSUME NEW e, NEW f, NEW rs, Obeys(e, rs),
           f.policy = e.policy, f.life = e.life,
           f.attrs \subseteq e.attrs, e.attrs \ {"pwchange"} \subseteq f.attrs
    PROVE  Obeys(f, rs)
BY DEF Obeys

-----------------------------------------------------------------------------
(* The end of a call. *)

LEMMA EndsKeeps ==
    ASSUME IInv, NEW w \in Workers, Ends(w), load' = load
    PROVE  /\ CallInv'
           /\ \A v \in Workers : calls'[v] # Idle =>
                 calls'[v] = calls[v] /\ v # w /\ (holder = v => holder' = v)
<1>1. \A v \in Workers : calls'[v] # Idle => calls'[v] = calls[v] /\ v # w
  BY DEF Ends, IInv, CallInv
<1>2. \A v \in Workers : v # w /\ holder = v => holder' = v
  BY DEF Ends
<1>3. CallInv'
  <2>1. DOMAIN calls' = Workers
    BY DEF Ends, IInv, CallInv
  <2>2. \A v \in Workers : calls'[v] # Idle =>
           DOMAIN calls'[v] = CallFields /\ RequestOk(calls'[v].req)
    BY <1>1 DEF IInv, CallInv
  <2> QED BY <2>1, <2>2 DEF IInv, CallInv
<1> QED BY <1>1, <1>2, <1>3

\* While a module is loaded nobody else's call waits on the writer's.
LEMMA WriterAlone ==
    ASSUME IInv, NEW w \in Workers, NEW op, Writes(w, op), op # "kpasswd"
    PROVE  CallInv' /\ MutexInv'
<1>1. /\ calls[w] # Idle /\ calls[w].req.op = op /\ Ends(w)
      /\ dynamic' = dynamic /\ load' = load
  BY DEF Writes
<1>2. CallInv'
  BY <1>1, EndsKeeps
<1>3. ASSUME dynamic, NEW v \in Workers, calls'[v] # Idle, calls'[v].req.op # "kpasswd" PROVE FALSE
  <2>1. calls'[v] = calls[v] /\ v # w
    BY <1>1, <1>3, EndsKeeps
  <2> QED BY <1>1, <1>3, <2>1 DEF IInv, MutexInv
<1> QED BY <1>1, <1>2, <1>3 DEF MutexInv

-----------------------------------------------------------------------------
(* What a write may leave in the database. *)

LEMMA DbStep ==
    ASSUME DbInv, DOMAIN princs' = Names,
           \A n \in Names :
              \/ princs'[n] = None
              \/ princs'[n] = princs[n]
              \/ /\ DOMAIN princs'[n] = EntryFields
                 /\ \A c \in princs'[n].by :
                       princs'[n].by = {c} => Obeys(princs'[n], Restrictions(c, n))
    PROVE  DbInv'
<1>1. \A n \in Names : princs'[n] # None => DOMAIN princs'[n] = EntryFields
  BY DEF DbInv, Exists
<1>2. ASSUME NEW n \in Names, princs'[n] # None, NEW c \in princs'[n].by, princs'[n].by = {c}
      PROVE  Obeys(princs'[n], Restrictions(c, n))
  <2>1. CASE princs'[n] = princs[n]
    BY <1>2, <2>1 DEF DbInv, RestrictionsHold, Exists
  <2>2. CASE princs'[n] # princs[n]
    BY <1>2, <2>2
  <2> QED BY <2>1, <2>2
<1> QED BY <1>1, <1>2 DEF DbInv, RestrictionsHold, Exists

\* A write of an entry that keeps what restrictions force.
LEMMA DbKept ==
    ASSUME DbInv, NEW t, NEW e, princs' = [princs EXCEPT ![t] = e], Exists(t),
           t \in Names =>
              /\ DOMAIN e = EntryFields
              /\ e.by = princs[t].by /\ e.policy = princs[t].policy /\ e.life = princs[t].life
              /\ e.attrs \subseteq princs[t].attrs /\ princs[t].attrs \ {"pwchange"} \subseteq e.attrs
    PROVE  DbInv'
<1>1. DOMAIN princs' = Names
  BY DEF DbInv
<1>2. \A n \in Names : n # t => princs'[n] = princs[n]
  BY DEF DbInv
<1>3. CASE t \notin Names
  BY <1>1, <1>2, <1>3, DbStep
<1>4. CASE t \in Names
  <2>1. princs'[t] = e
    BY <1>4 DEF DbInv
  <2>2. \A c \in e.by : e.by = {c} => Obeys(e, Restrictions(c, t))
    <3> TAKE c \in e.by
    <3> HAVE e.by = {c}
    <3>1. Obeys(princs[t], Restrictions(c, t))
      BY <1>4 DEF DbInv, RestrictionsHold
    <3> QED BY <1>4, <3>1, ObeysKept
  <2> QED BY <1>1, <1>2, <1>4, <2>1, <2>2, DbStep
<1> QED BY <1>3, <1>4

-----------------------------------------------------------------------------
(* The writes. *)

\* change_password_keeping's new entry.
LEMMA PasswordEntry ==
    ASSUME DbInv, NEW w \in Workers, NEW op, ChangePassword(w, op)
    PROVE  \E e : /\ princs' = [princs EXCEPT ![calls[w].req.target] = e]
                  /\ Exists(calls[w].req.target)
                  /\ calls[w].req.target \in Names =>
                        /\ DOMAIN e = EntryFields
                        /\ e.by = princs[calls[w].req.target].by
                        /\ e.policy = princs[calls[w].req.target].policy
                        /\ e.life = princs[calls[w].req.target].life
                        /\ e.attrs = princs[calls[w].req.target].attrs \ {"pwchange"}
<1>1. PICK c : c = calls[w]
  OBVIOUS
<1>2. PICK t : t = c.req.target
  OBVIOUS
<1>3. PICK o : o = princs[t]
  OBVIOUS
<1>4. PICK h : h = WithHistory(o, c)
  OBVIOUS
<1>5. \E ks : princs' = [princs EXCEPT ![t] =
                 [h EXCEPT !.keys = ks, !.attrs = @ \ {"pwchange"}, !.last = now]]
  BY <1>1, <1>2, <1>3, <1>4 DEF ChangePassword
<1>6. PICK ks : princs' = [princs EXCEPT ![t] =
                 [h EXCEPT !.keys = ks, !.attrs = @ \ {"pwchange"}, !.last = now]]
  BY <1>5
<1>7. PICK e : e = [h EXCEPT !.keys = ks, !.attrs = @ \ {"pwchange"}, !.last = now]
  OBVIOUS
<1>8. Exists(t)
  BY <1>1, <1>2 DEF ChangePassword
<1>9. ASSUME t \in Names
      PROVE  /\ DOMAIN e = EntryFields /\ e.by = o.by /\ e.policy = o.policy /\ e.life = o.life
             /\ e.attrs = o.attrs \ {"pwchange"}
  <2>1. DOMAIN o = EntryFields
    BY <1>3, <1>8, <1>9 DEF DbInv
  <2>2. DOMAIN h = EntryFields /\ h.attrs = o.attrs /\ h.policy = o.policy /\ h.life = o.life /\ h.by = o.by
    BY <1>4, <2>1, HistoryKeeps
  <2> QED BY <1>7, <2>2 DEF EntryFields
<1> QED BY <1>1, <1>2, <1>3, <1>6, <1>7, <1>8, <1>9

LEMMA ChangePasswordKeeps ==
    ASSUME IInv, NEW w \in Workers, NEW op, ChangePassword(w, op)
    PROVE  IInv'
<1>1. PICK t : t = calls[w].req.target
  OBVIOUS
<1>2. PICK e : /\ princs' = [princs EXCEPT ![t] = e] /\ Exists(t)
               /\ t \in Names =>
                     /\ DOMAIN e = EntryFields
                     /\ e.by = princs[t].by /\ e.policy = princs[t].policy /\ e.life = princs[t].life
                     /\ e.attrs = princs[t].attrs \ {"pwchange"}
  BY <1>1, PasswordEntry DEF IInv
<1>3. DbInv'
  BY <1>2, DbKept DEF IInv
<1>4. Writes(w, op)
  BY DEF ChangePassword
<1>5. CASE op # "kpasswd"
  BY <1>3, <1>4, <1>5, WriterAlone DEF IInv
<1>6. CASE op = "kpasswd"
  <2>1. Ends(w) /\ load' = load /\ dynamic' = dynamic
    BY <1>4 DEF Writes
  <2>2. CallInv'
    BY <2>1, EndsKeeps
  <2>3. \A n \in Names : princs'[n] # None => princs[n] # None /\ princs'[n].attrs \subseteq princs[n].attrs
    BY <1>2 DEF IInv, DbInv, Exists
  <2>4. ASSUME NEW r, UnlockedFor(r) PROVE UnlockedFor(r)'
    BY <2>3, <2>4 DEF UnlockedFor, Exists, Locked
  <2>5. MutexInv'
    <3> SUFFICES ASSUME dynamic, NEW v \in Workers, calls'[v] # Idle, calls'[v].req.op # "kpasswd"
                 PROVE  holder' = v /\ UnlockedFor(calls[v].req)'
      BY <2>1 DEF MutexInv
    <3>1. calls'[v] = calls[v] /\ (holder = v => holder' = v)
      BY <2>1, EndsKeeps
    <3>2. holder = v /\ UnlockedFor(calls[v].req)
      BY <3>1 DEF IInv, MutexInv
    <3>3. PICK r : r = calls[v].req /\ r = calls'[v].req
      BY <3>1
    <3>4. UnlockedFor(r)'
      BY <2>4, <3>2, <3>3
    <3> QED BY <3>1, <3>2, <3>3, <3>4 DEF UnlockedFor, Exists, Locked
  <2> QED BY <1>3, <2>2, <2>5 DEF IInv
<1> QED BY <1>5, <1>6

LEMMA CreateKeeps ==
    ASSUME IInv, NEW w \in Workers, CreatePrincipal(w)
    PROVE  DbInv'
<1>1. PICK r : r = calls[w].req
  OBVIOUS
<1>2. PICK e : e = NewEntry(r)
  OBVIOUS
<1>3. princs' = [princs EXCEPT ![r.target] = e] /\ calls[w] # Idle /\ r.op = "create"
  BY <1>1, <1>2 DEF CreatePrincipal, Writes
<1>4. Bound(r, Restrictions(r.client, r.target))
  BY <1>1, <1>3 DEF IInv, CallInv, RequestOk
<1>5. /\ DOMAIN e = EntryFields /\ e.by = {r.client}
      /\ "attrs" \in r.mask => e.attrs = r.attrs
      /\ "life" \in r.mask => e.life = StoredLife(r.life)
      /\ e.policy = IF "policy" \in r.mask THEN r.policy ELSE None
  BY <1>2 DEF NewEntry, EntryFields, PolicyAsked
<1>6. Obeys(e, Restrictions(r.client, r.target))
  BY <1>4, <1>5, LimitsAssumption DEF Bound, Obeys, Lives, StoredLife
<1>7. DOMAIN princs' = Names /\ \A n \in Names : princs'[n] = IF n = r.target THEN e ELSE princs[n]
  BY <1>3 DEF IInv, DbInv
<1> QED BY <1>5, <1>6, <1>7, DbStep DEF IInv

\* modify_principal's new entry e of one that was o.
Modified(e, o, r) ==
    /\ DOMAIN e = EntryFields /\ e.by = o.by \cup {r.client} /\ e.keys = o.keys
    /\ e.attrs = IF "attrs" \in r.mask THEN r.attrs ELSE o.attrs
    /\ e.life = IF "life" \in r.mask THEN StoredLife(r.life) ELSE o.life
    /\ "policy" \in r.mask => e.policy = r.policy
    /\ "policy" \notin r.mask /\ "clrpolicy" \in r.mask => e.policy = None

LEMMA ModifyEntry ==
    ASSUME DbInv, NEW w \in Workers, ModifyPrincipal(w)
    PROVE  LET r == calls[w].req
           IN  \E e : /\ princs' = [princs EXCEPT ![r.target] = e] /\ Exists(r.target)
                      /\ r.target \in Names => Modified(e, princs[r.target], r)
<1>r. PICK r : r = calls[w].req
  OBVIOUS
<1>o. PICK o : o = princs[r.target]
  OBVIOUS
<1>1. PICK a : a = ApplyOptions(o, r)
  OBVIOUS
<1>2. PICK e : e = [a EXCEPT !.by = @ \cup {r.client}]
  OBVIOUS
<1>3. princs' = [princs EXCEPT ![r.target] = e] /\ Exists(r.target)
  BY <1>r, <1>o, <1>1, <1>2 DEF ModifyPrincipal
<1>4. PICK x : x = IF "attrs" \in r.mask THEN r.attrs ELSE o.attrs
  OBVIOUS
<1>5. PICK y : y = IF "life" \in r.mask THEN StoredLife(r.life) ELSE o.life
  OBVIOUS
<1>6. PICK z : z = IF "policy" \in r.mask THEN r.policy
                   ELSE IF "clrpolicy" \in r.mask THEN None ELSE o.policy
  OBVIOUS
<1>7. a = [o EXCEPT !.attrs = x, !.life = y, !.policy = z]
  BY <1>1, <1>4, <1>5, <1>6 DEF ApplyOptions
<1>8. ASSUME r.target \in Names
      PROVE  /\ DOMAIN e = EntryFields /\ e.by = o.by \cup {r.client} /\ e.keys = o.keys
             /\ e.attrs = x /\ e.life = y /\ e.policy = z
  <2>1. DOMAIN o = EntryFields
    BY <1>o, <1>3, <1>8 DEF DbInv
  <2>2. /\ DOMAIN a = EntryFields /\ a.by = o.by /\ a.keys = o.keys
        /\ a.attrs = x /\ a.life = y /\ a.policy = z
    BY <1>7, <2>1 DEF EntryFields
  <2> QED BY <1>2, <2>2 DEF EntryFields
<1>9. /\ "policy" \in r.mask => z = r.policy
      /\ "policy" \notin r.mask /\ "clrpolicy" \in r.mask => z = None
  BY <1>6
<1>10. r.target \in Names => Modified(e, o, r)
  BY <1>4, <1>5, <1>8, <1>9 DEF Modified
<1> QED BY <1>r, <1>o, <1>3, <1>10

LEMMA ModifyKeeps ==
    ASSUME IInv, NEW w \in Workers, ModifyPrincipal(w)
    PROVE  DbInv'
<1>1. PICK r : r = calls[w].req
  OBVIOUS
<1>2. PICK o : o = princs[r.target]
  OBVIOUS
<1>3. PICK e : /\ princs' = [princs EXCEPT ![r.target] = e] /\ Exists(r.target)
               /\ r.target \in Names => Modified(e, o, r)
  <2>1. DbInv
    BY DEF IInv
  <2> QED BY <1>1, <1>2, <2>1, ModifyEntry
<1>4. calls[w] # Idle /\ r.op = "modify"
  BY <1>1 DEF ModifyPrincipal, Writes
<1>5. Bound(r, Restrictions(r.client, r.target))
  BY <1>1, <1>4 DEF IInv, CallInv, RequestOk
<1>6. DOMAIN princs' = Names /\ \A n \in Names : princs'[n] = IF n = r.target THEN e ELSE princs[n]
  BY <1>3 DEF IInv, DbInv
<1>7. ASSUME r.target \in Names, NEW c \in e.by, e.by = {c} PROVE Obeys(e, Restrictions(c, r.target))
  <2>1. c = r.client
    BY <1>3, <1>7 DEF Modified
  <2>2. Obeys(e, Restrictions(r.client, r.target))
    BY <1>3, <1>5, <1>7, LimitsAssumption DEF Bound, Obeys, Modified, Lives, StoredLife
  <2> QED BY <2>1, <2>2
<1>8. r.target \in Names => DOMAIN e = EntryFields
  BY <1>3 DEF Modified
<1> QED BY <1>6, <1>7, <1>8, DbStep DEF IInv

\* A client whose ACL line has no restrictions.
LEMMA FreeObeys ==
    ASSUME NEW e PROVE Obeys(e, NoRestr)
BY DEF Obeys, NoRestr

LEMMA RenameKeeps ==
    ASSUME IInv, NEW w \in Workers, RenamePrincipal(w)
    PROVE  DbInv'
<1>1. PICK r : r = calls[w].req
  OBVIOUS
<1>2. PICK o : o = princs[r.target]
  OBVIOUS
<1>3. PICK e : e = [o EXCEPT !.by = @ \cup {r.client}]
  OBVIOUS
<1>4. princs' = [princs EXCEPT ![r.dest] = e, ![r.target] = None]
      /\ Exists(r.target) /\ calls[w] # Idle /\ r.op = "rename"
  BY <1>1, <1>2, <1>3 DEF RenamePrincipal, Writes
<1>5. Restrictions(r.client, r.dest) = NoRestr
  BY <1>1, <1>4 DEF IInv, CallInv, RequestOk
<1>6. DOMAIN princs' = Names
  BY <1>4 DEF IInv, DbInv
<1>7. ASSUME NEW n \in Names
      PROVE  princs'[n] = IF n = r.target THEN None ELSE IF n = r.dest THEN e ELSE princs[n]
  BY <1>4 DEF IInv, DbInv
<1>8. r.target \in Names
  BY <1>1, <1>4 DEF IInv, CallInv, RequestOk
<1>9. DOMAIN o = EntryFields
  BY <1>2, <1>4, <1>8 DEF IInv, DbInv
<1>10. DOMAIN e = EntryFields /\ e.by = o.by \cup {r.client}
  BY <1>3, <1>9 DEF EntryFields
<1>11. \A c \in e.by : e.by = {c} => Obeys(e, Restrictions(c, r.dest))
  <2> TAKE c \in e.by
  <2> HAVE e.by = {c}
  <2>1. c = r.client
    BY <1>10
  <2> QED BY <1>5, <2>1, FreeObeys
<1> QED BY <1>6, <1>7, <1>10, <1>11, DbStep DEF IInv

LEMMA AliasKeeps ==
    ASSUME IInv, NEW w \in Workers, CreateAlias(w)
    PROVE  DbInv'
<1>1. PICK r : r = calls[w].req
  OBVIOUS
<1>2. PICK e : e = AliasEntry(r)
  OBVIOUS
<1>3. princs' = [princs EXCEPT ![r.dest] = e] /\ calls[w] # Idle /\ r.op = "alias"
  BY <1>1, <1>2 DEF CreateAlias, Writes
<1>4. Restrictions(r.client, r.dest) = NoRestr
  BY <1>1, <1>3 DEF IInv, CallInv, RequestOk
<1>5. DOMAIN e = EntryFields /\ e.by = {r.client}
  BY <1>2 DEF AliasEntry, EntryFields
<1>6. \A c \in e.by : e.by = {c} => Obeys(e, Restrictions(c, r.dest))
  <2> TAKE c \in e.by
  <2>1. c = r.client
    BY <1>5
  <2> QED BY <1>4, <2>1, FreeObeys
<1>7. DOMAIN princs' = Names /\ \A n \in Names : princs'[n] = IF n = r.dest THEN e ELSE princs[n]
  BY <1>3 DEF IInv, DbInv
<1> QED BY <1>5, <1>6, <1>7, DbStep DEF IInv

LEMMA DeleteKeeps ==
    ASSUME IInv, NEW w \in Workers, DeletePrincipal(w)
    PROVE  DbInv'
<1>1. PICK t : t = calls[w].req.target
  OBVIOUS
<1>2. princs' = [princs EXCEPT ![t] = None]
  BY <1>1 DEF DeletePrincipal
<1>3. DOMAIN princs' = Names /\ \A n \in Names : princs'[n] = IF n = t THEN None ELSE princs[n]
  BY <1>2 DEF IInv, DbInv
<1> QED BY <1>3, DbStep DEF IInv

\* setkey_data's and purgekeys's new entries.
LEMMA KeysEntry ==
    ASSUME DbInv, NEW w \in Workers, SetKey(w) \/ PurgeKeys(w), NEW t, t = calls[w].req.target
    PROVE  \E e : /\ princs' = [princs EXCEPT ![t] = e] /\ Exists(t)
                  /\ t \in Names =>
                        /\ DOMAIN e = EntryFields
                        /\ e.by = princs[t].by /\ e.policy = princs[t].policy /\ e.life = princs[t].life
                        /\ e.attrs \subseteq princs[t].attrs
                        /\ princs[t].attrs \ {"pwchange"} \subseteq e.attrs
<1>1. PICK o : o = princs[t]
  OBVIOUS
<1>2. Exists(t)
  BY DEF SetKey, PurgeKeys
<1>3. CASE SetKey(w)
  <2>1. \E ks : princs' = [princs EXCEPT ![t] =
                    [o EXCEPT !.keys = ks, !.attrs = @ \ {"pwchange"}, !.last = now]]
    BY <1>1, <1>3 DEF SetKey
  <2>2. PICK ks : princs' = [princs EXCEPT ![t] =
                    [o EXCEPT !.keys = ks, !.attrs = @ \ {"pwchange"}, !.last = now]]
    BY <2>1
  <2>3. PICK e : e = [o EXCEPT !.keys = ks, !.attrs = @ \ {"pwchange"}, !.last = now]
    OBVIOUS
  <2>4. ASSUME t \in Names
        PROVE  /\ DOMAIN e = EntryFields /\ e.by = o.by /\ e.policy = o.policy
               /\ e.life = o.life /\ e.attrs = o.attrs \ {"pwchange"}
    <3>1. DOMAIN o = EntryFields
      BY <1>1, <1>2, <2>4 DEF DbInv
    <3> QED BY <2>3, <3>1 DEF EntryFields
  <2> QED BY <1>1, <1>2, <2>2, <2>3, <2>4
<1>4. CASE PurgeKeys(w)
  <2>1. \E ks : princs' = [princs EXCEPT ![t] = [o EXCEPT !.keys = ks]]
    BY <1>1, <1>4 DEF PurgeKeys
  <2>2. PICK ks : princs' = [princs EXCEPT ![t] = [o EXCEPT !.keys = ks]]
    BY <2>1
  <2>3. PICK e : e = [o EXCEPT !.keys = ks]
    OBVIOUS
  <2>4. ASSUME t \in Names
        PROVE  /\ DOMAIN e = EntryFields /\ e.by = o.by /\ e.policy = o.policy
               /\ e.life = o.life /\ e.attrs = o.attrs
    <3>1. DOMAIN o = EntryFields
      BY <1>1, <1>2, <2>4 DEF DbInv
    <3> QED BY <2>3, <3>1 DEF EntryFields
  <2> QED BY <1>1, <1>2, <2>2, <2>3, <2>4
<1> QED BY <1>3, <1>4

LEMMA KeysKeep ==
    ASSUME IInv, NEW w \in Workers, SetKey(w) \/ PurgeKeys(w)
    PROVE  DbInv'
<1>1. PICK t : t = calls[w].req.target
  OBVIOUS
<1>2. PICK e : /\ princs' = [princs EXCEPT ![t] = e] /\ Exists(t)
               /\ t \in Names =>
                     /\ DOMAIN e = EntryFields
                     /\ e.by = princs[t].by /\ e.policy = princs[t].policy /\ e.life = princs[t].life
                     /\ e.attrs \subseteq princs[t].attrs
                     /\ princs[t].attrs \ {"pwchange"} \subseteq e.attrs
  BY <1>1, KeysEntry DEF IInv
<1> QED BY <1>2, DbKept DEF IInv

-----------------------------------------------------------------------------
(* The steps that write no principal. *)

LEMMA DbQuiet ==
    ASSUME DbInv, princs' = princs PROVE DbInv'
BY DEF DbInv, RestrictionsHold, Exists

\* A step that leaves the requests of the calls going on as they are.
LEMMA QuietKeeps ==
    ASSUME IInv, princs' = princs, dynamic' = dynamic, load' = load, DOMAIN calls' = Workers,
           \A v \in Workers : calls'[v] # Idle =>
              /\ calls[v] # Idle /\ DOMAIN calls'[v] = CallFields /\ calls'[v].req = calls[v].req
              /\ holder = v => holder' = v
    PROVE  IInv'
<1>1. DbInv'
  BY DbQuiet DEF IInv
<1>2. CallInv'
  BY DEF IInv, CallInv
<1>3. MutexInv'
  <2> SUFFICES ASSUME dynamic, NEW v \in Workers, calls'[v] # Idle, calls'[v].req.op # "kpasswd"
               PROVE  holder' = v /\ UnlockedFor(calls[v].req)'
    BY DEF MutexInv
  <2>1. holder = v /\ UnlockedFor(calls[v].req)
    BY DEF IInv, MutexInv
  <2>2. PICK r : r = calls[v].req /\ r = calls'[v].req
    OBVIOUS
  <2> QED BY <2>1, <2>2 DEF UnlockedFor, Exists, Locked
<1> QED BY <1>1, <1>2, <1>3 DEF IInv

LEMMA PlanKeeps ==
    ASSUME IInv, NEW w \in Workers, Plan(w)
    PROVE  IInv'
<1>1. princs' = princs /\ dynamic' = dynamic /\ load' = load /\ calls[w] # Idle
  BY DEF Plan
<1>2. CASE Ends(w)
  BY <1>1, <1>2, EndsKeeps, QuietKeeps DEF IInv, CallInv
<1>3. CASE ~Ends(w)
  <2> DEFINE r    == calls[w].req
             name == princs[r.target].policy
             p    == PolicyOf(name)
             n    == IF p = None THEN 0 ELSE p.history
             h    == IF p # None /\ r.pw # None THEN IF histkvno = 0 THEN 2 ELSE histkvno ELSE 0
  <2>2. calls' = [calls EXCEPT ![w] =
            [calls[w] EXCEPT !.at = "write", !.policy = name, !.num = n, !.hk = h]]
    BY <1>3 DEF Plan
  <2> HIDE DEF name, n, h
  <2>3. holder' = holder
    BY <1>3 DEF Plan
  <2>4. PICK c : c = [calls[w] EXCEPT !.at = "write", !.policy = name, !.num = n, !.hk = h]
    OBVIOUS
  <2>5. DOMAIN c = CallFields /\ c.req = calls[w].req
    BY <1>1, <2>4 DEF IInv, CallInv, CallFields
  <2>6. DOMAIN calls' = Workers /\ \A v \in Workers : calls'[v] = IF v = w THEN c ELSE calls[v]
    BY <2>2, <2>4 DEF IInv, CallInv
  <2>7. \A v \in Workers : calls'[v] # Idle =>
           /\ calls[v] # Idle /\ DOMAIN calls'[v] = CallFields /\ calls'[v].req = calls[v].req
           /\ holder = v => holder' = v
    BY <1>1, <2>3, <2>5, <2>6 DEF IInv, CallInv
  <2> QED BY <1>1, <2>6, <2>7, QuietKeeps
<1> QED BY <1>2, <1>3

\* What the checks found of the target, on the record as imposed.
LEMMA CheckedUnlocked ==
    ASSUME NEW r, DOMAIN r = ReqFields, r.life \in Lives, Authorize(r), Checked(r),
           r.op = "rename" => r.target \in Names
    PROVE  UnlockedFor(Restricted(r))
<1>1. PICK q : q = Restricted(r)
  OBVIOUS
<1>2. /\ q.op = r.op /\ q.client = r.client /\ q.target = r.target
      /\ Restrictions(r.client, r.target) = NoRestr => q.mask = r.mask /\ q.attrs = r.attrs
  BY <1>1, RestrictedOk
<1>3. r.op \in {"chpass", "setkey", "delete", "rename"} => ~Locked(r.target)
  BY DEF Checked, ChpassChecked, SetkeyChecked, DeleteChecked, RenameChecked
<1>4. r.op = "modify" => ModifyAllowed(r)
  BY DEF Checked, ModifyChecked
<1>5. UnlockedFor(q)
  BY <1>2, <1>3, <1>4 DEF UnlockedFor, ModifyAllowed
<1> QED BY <1>1, <1>5

LEMMA CheckKeeps ==
    ASSUME IInv, NEW w \in Workers, NEW r \in load, Check(w, r)
    PROVE  IInv'
<1>1. DOMAIN r = ReqFields /\ r.life \in Lives /\ (r.op = "rename" => r.target \in Names)
  BY DEF IInv, CallInv
<1>2. Authorize(r) /\ Checked(r) /\ princs' = princs /\ dynamic' = dynamic /\ load' = load
  BY DEF Check
<1>3. PICK q : q = Restricted(r)
  OBVIOUS
<1>4. RequestOk(q) /\ q.op = r.op
  BY <1>1, <1>2, <1>3, RestrictedOk
<1>5. UnlockedFor(q)
  BY <1>1, <1>2, <1>3, CheckedUnlocked
<1>6. PICK c : c = [req |-> q, at |-> IF KeyChange(r) THEN "plan" ELSE "write",
                    policy |-> None, num |-> 0, hk |-> 0]
  OBVIOUS
<1>7. DOMAIN c = CallFields /\ c.req = q
  BY <1>6 DEF CallFields
<1>8. DOMAIN calls' = Workers /\ \A v \in Workers : calls'[v] = IF v = w THEN c ELSE calls[v]
  BY <1>3, <1>6 DEF Check, IInv, CallInv
<1>9. CallInv'
  <2>1. \A v \in Workers : calls'[v] # Idle => DOMAIN calls'[v] = CallFields /\ RequestOk(calls'[v].req)
    BY <1>4, <1>7, <1>8 DEF IInv, CallInv
  <2> QED BY <1>2, <1>8, <2>1 DEF IInv, CallInv
<1>10. MutexInv'
  <2> SUFFICES ASSUME dynamic, NEW v \in Workers, calls'[v] # Idle, calls'[v].req.op # "kpasswd"
               PROVE  holder' = v /\ UnlockedFor(calls[v].req)'
    BY <1>2 DEF MutexInv
  <2>1. holder = None
    BY DEF Check
  <2>2. v = w
    BY <1>8, <2>1, LimitsAssumption DEF IInv, MutexInv
  <2>3. calls'[v] = c
    BY <1>8, <2>2
  <2>4. holder' = w
    BY <1>4, <1>7, <2>3 DEF Check
  <2> QED BY <1>2, <1>5, <1>7, <2>2, <2>3, <2>4 DEF UnlockedFor, Exists, Locked
<1>11. DbInv'
  BY <1>2, DbQuiet DEF IInv
<1> QED BY <1>9, <1>10, <1>11 DEF IInv

-----------------------------------------------------------------------------
(* The specification. *)

LEMMA NextKeeps ==
    ASSUME IInv, [Next]_vars PROVE IInv'
<1>1. CASE UNCHANGED vars
  BY <1>1, QuietKeeps DEF vars, IInv, CallInv
<1>2. CASE Tick
  BY <1>2, QuietKeeps DEF Tick, IInv, CallInv
<1>3. ASSUME NEW w \in Workers,
             \/ \E r \in load : Check(w, r)
             \/ Plan(w)
             \/ \E op \in {"chpass", "chrand", "kpasswd"} : ChangePassword(w, op)
             \/ CreatePrincipal(w) \/ ModifyPrincipal(w) \/ DeletePrincipal(w)
             \/ RenamePrincipal(w) \/ CreateAlias(w) \/ SetKey(w) \/ PurgeKeys(w)
             \/ SetString(w) \/ RekeyHistory(w)
             \/ CreatePolicy(w) \/ ModifyPolicy(w) \/ DeletePolicy(w)
             \/ Refuse(w)
      PROVE  IInv'
  <2>1. CASE \E r \in load : Check(w, r)
    BY <2>1, CheckKeeps
  <2>2. CASE Plan(w)
    BY <2>2, PlanKeeps
  <2>3. CASE \E op \in {"chpass", "chrand", "kpasswd"} : ChangePassword(w, op)
    BY <2>3, ChangePasswordKeeps
  <2>4. CASE CreatePrincipal(w)
    BY <2>4, CreateKeeps, WriterAlone DEF CreatePrincipal, IInv
  <2>5. CASE ModifyPrincipal(w)
    BY <2>5, ModifyKeeps, WriterAlone DEF ModifyPrincipal, IInv
  <2>6. CASE DeletePrincipal(w)
    BY <2>6, DeleteKeeps, WriterAlone DEF DeletePrincipal, IInv
  <2>7. CASE RenamePrincipal(w)
    BY <2>7, RenameKeeps, WriterAlone DEF RenamePrincipal, IInv
  <2>8. CASE CreateAlias(w)
    BY <2>8, AliasKeeps, WriterAlone DEF CreateAlias, IInv
  <2>9. CASE SetKey(w)
    BY <2>9, KeysKeep, WriterAlone DEF SetKey, IInv
  <2>10. CASE PurgeKeys(w)
    BY <2>10, KeysKeep, WriterAlone DEF PurgeKeys, IInv
  <2>11. CASE SetString(w)
    BY <2>11, DbQuiet, WriterAlone DEF SetString, IInv
  <2>12. CASE RekeyHistory(w)
    BY <2>12, DbQuiet, WriterAlone DEF RekeyHistory, IInv
  <2>13. CASE CreatePolicy(w)
    BY <2>13, DbQuiet, WriterAlone DEF CreatePolicy, IInv
  <2>14. CASE ModifyPolicy(w)
    BY <2>14, DbQuiet, WriterAlone DEF ModifyPolicy, IInv
  <2>15. CASE DeletePolicy(w)
    BY <2>15, DbQuiet, WriterAlone DEF DeletePolicy, IInv
  <2>16. CASE Refuse(w)
    <3>1. Ends(w) /\ load' = load /\ princs' = princs /\ dynamic' = dynamic
      BY <2>16 DEF Refuse
    <3> QED BY <3>1, EndsKeeps, QuietKeeps DEF IInv, CallInv
  <2> QED BY <1>3, <2>1, <2>2, <2>3, <2>4, <2>5, <2>6, <2>7, <2>8, <2>9, <2>10, <2>11, <2>12,
             <2>13, <2>14, <2>15, <2>16
<1> QED BY <1>1, <1>2, <1>3 DEF Next

LEMMA InitKeeps ==
    ASSUME Init PROVE IInv
<1>1. PICK s \in Starts : princs = s.princs /\ load = s.load
  BY DEF Init
<1>2. DOMAIN princs = Names
  BY <1>1, StartsAssumption
<1>3. ASSUME NEW n \in Names, princs[n] # None
      PROVE  /\ DOMAIN princs[n] = EntryFields
             /\ \A c \in princs[n].by : Restrictions(c, n) = NoRestr
  BY <1>1, <1>3, StartsAssumption
<1>4. RestrictionsHold
  BY <1>3, FreeObeys DEF RestrictionsHold, Exists
<1>5. DbInv
  BY <1>2, <1>3, <1>4 DEF DbInv, Exists
<1>6. DOMAIN Req(None, None, None, None) = ReqFields
  BY DEF Req, ReqFields
<1>7. ASSUME NEW r \in load
      PROVE  DOMAIN r = ReqFields /\ r.life \in Lives /\ (r.op = "rename" => r.target \in Names)
  BY <1>1, <1>6, <1>7, StartsAssumption
<1>8. CallInv
  BY <1>7 DEF CallInv, Init
<1>9. MutexInv
  BY DEF MutexInv, Init
<1> QED BY <1>5, <1>8, <1>9 DEF IInv

LEMMA Invariance == Spec => []IInv
<1>1. Init => IInv
  BY InitKeeps
<1>2. IInv /\ [Next]_vars => IInv'
  BY NextKeeps
<1> QED BY <1>1, <1>2, PTL DEF Spec

\* An entry only one restricted administrator wrote obeys that
\* administrator's ACL line, through creates, modifies, renames, aliases and
\* key changes of any number of threads (impose_restrictions, ModifyPrincipal
\* and the key changes of admin.rs).
THEOREM RestrictedObey == Spec => []RestrictionsHold
<1>1. IInv => RestrictionsHold
  BY DEF IInv, DbInv
<1> QED BY <1>1, Invariance, PTL

-----------------------------------------------------------------------------
(* What a write may not do. *)

\* The writer is the worker whose call ends.
LEMMA Writer ==
    ASSUME IInv, NEW v \in Workers, NEW op, Writes(v, op), NEW w \in Workers, Wrote(w)
    PROVE  v = w /\ calls[w].req.op = op
BY DEF Writes, Wrote, Ends, IInv, CallInv

LockdownStep ==
    dynamic =>
       \A w \in Workers, n \in Names :
          /\ Rewrote(w, n) /\ Exists(n) /\ Locked(n)
          /\ calls[w].req.op # "kpasswd"
          /\ Restrictions(calls[w].req.client, n) = NoRestr
          => /\ calls[w].req.op \notin {"delete", "rename"}
             /\ "lockdown" \in princs'[n].attrs
             /\ calls[w].req.op \in {"chrand", "purge"} \/ princs'[n].keys = princs[n].keys
OverwriteStep ==
    \A w \in Workers, n \in Names :
       Rewrote(w, n) /\ calls[w].req.op \in {"create", "alias", "rename"} =>
          ~Exists(n) \/ (calls[w].req.op = "rename" /\ n = calls[w].req.target
                         /\ princs'[n] = None)

\* A step in which w's call ends and an entry changes is w's write.
LEMMA WhoWrote ==
    ASSUME IInv, Next, NEW w \in Workers, Wrote(w)
    PROVE  \/ \E op \in {"chpass", "chrand", "kpasswd"} :
                 ChangePassword(w, op) /\ calls[w].req.op = op
           \/ CreatePrincipal(w) /\ calls[w].req.op = "create"
           \/ ModifyPrincipal(w) /\ calls[w].req.op = "modify"
           \/ DeletePrincipal(w) /\ calls[w].req.op = "delete"
           \/ RenamePrincipal(w) /\ calls[w].req.op = "rename"
           \/ CreateAlias(w) /\ calls[w].req.op = "alias"
           \/ SetKey(w) /\ calls[w].req.op = "setkey"
           \/ PurgeKeys(w) /\ calls[w].req.op = "purge"
<1>1. princs' # princs
  BY DEF Wrote
<1>2. ~Tick
  BY <1>1 DEF Tick
<1>3. PICK v \in Workers :
          \/ \E op \in {"chpass", "chrand", "kpasswd"} : ChangePassword(v, op)
          \/ CreatePrincipal(v) \/ ModifyPrincipal(v) \/ DeletePrincipal(v)
          \/ RenamePrincipal(v) \/ CreateAlias(v) \/ SetKey(v) \/ PurgeKeys(v)
  BY <1>1, <1>2 DEF Next, Check, Plan, SetString, RekeyHistory, CreatePolicy, ModifyPolicy,
                    DeletePolicy, Refuse
<1>4. CASE \E op \in {"chpass", "chrand", "kpasswd"} : ChangePassword(v, op)
  <2>1. PICK op \in {"chpass", "chrand", "kpasswd"} : ChangePassword(v, op)
    BY <1>4
  <2>2. v = w /\ calls[w].req.op = op
    BY <2>1, Writer DEF ChangePassword
  <2> QED BY <2>1, <2>2
<1>5. CASE CreatePrincipal(v)
  BY <1>5, Writer DEF CreatePrincipal
<1>6. CASE ModifyPrincipal(v)
  BY <1>6, Writer DEF ModifyPrincipal
<1>7. CASE DeletePrincipal(v)
  BY <1>7, Writer DEF DeletePrincipal
<1>8. CASE RenamePrincipal(v)
  BY <1>8, Writer DEF RenamePrincipal
<1>9. CASE CreateAlias(v)
  BY <1>9, Writer DEF CreateAlias
<1>10. CASE SetKey(v)
  BY <1>10, Writer DEF SetKey
<1>11. CASE PurgeKeys(v)
  <2>1. Writes(v, "purge")
    BY <1>11 DEF PurgeKeys
  <2>2. v = w /\ calls[w].req.op = "purge"
    BY <2>1, Writer
  <2> QED BY <1>11, <2>2
<1> QED BY <1>3, <1>4, <1>5, <1>6, <1>7, <1>8, <1>9, <1>10, <1>11

LEMMA OverwriteSafe ==
    ASSUME IInv, Next PROVE OverwriteStep
<1> SUFFICES ASSUME NEW w \in Workers, NEW n \in Names, Rewrote(w, n),
                    calls[w].req.op \in {"create", "alias", "rename"}
             PROVE  ~Exists(n) \/ (calls[w].req.op = "rename" /\ n = calls[w].req.target
                                   /\ princs'[n] = None)
  BY DEF OverwriteStep
<1>1. Wrote(w) /\ princs'[n] # princs[n]
  BY DEF Rewrote
<1>2. PICK r : r = calls[w].req
  OBVIOUS
<1>3. \/ CreatePrincipal(w) /\ r.op = "create"
      \/ RenamePrincipal(w) /\ r.op = "rename"
      \/ CreateAlias(w) /\ r.op = "alias"
  BY <1>1, <1>2, WhoWrote
<1>4. CASE CreatePrincipal(w)
  <2>1. princs' = [princs EXCEPT ![r.target] = NewEntry(r)] /\ ~Exists(r.target)
    BY <1>2, <1>4 DEF CreatePrincipal
  <2> QED BY <1>1, <2>1
<1>5. CASE CreateAlias(w)
  <2>1. princs' = [princs EXCEPT ![r.dest] = AliasEntry(r)] /\ ~Exists(r.dest)
    BY <1>2, <1>5 DEF CreateAlias
  <2> QED BY <1>1, <2>1
<1>6. CASE RenamePrincipal(w) /\ r.op = "rename"
  <2>1. PICK e : e = [princs[r.target] EXCEPT !.by = @ \cup {r.client}]
    OBVIOUS
  <2>2. princs' = [princs EXCEPT ![r.dest] = e, ![r.target] = None] /\ ~Exists(r.dest)
    BY <1>2, <1>6, <2>1 DEF RenamePrincipal
  <2>3. princs'[n] = IF n = r.target THEN None ELSE IF n = r.dest THEN e ELSE princs[n]
    BY <2>2 DEF IInv, DbInv
  <2> QED BY <1>1, <1>2, <1>6, <2>2, <2>3
<1> QED BY <1>3, <1>4, <1>5, <1>6

LEMMA LockdownSafe ==
    ASSUME IInv, Next PROVE LockdownStep
<1> SUFFICES ASSUME dynamic, NEW w \in Workers, NEW n \in Names,
                    Rewrote(w, n), Exists(n), Locked(n), calls[w].req.op # "kpasswd",
                    Restrictions(calls[w].req.client, n) = NoRestr
             PROVE  /\ calls[w].req.op \notin {"delete", "rename"}
                    /\ "lockdown" \in princs'[n].attrs
                    /\ calls[w].req.op \in {"chrand", "purge"} \/ princs'[n].keys = princs[n].keys
  BY DEF LockdownStep
<1>1. Wrote(w) /\ princs'[n] # princs[n]
  BY DEF Rewrote
<1>2. PICK r : r = calls[w].req
  OBVIOUS
<1>3. UnlockedFor(r)
  BY <1>1, <1>2 DEF Wrote, IInv, MutexInv
<1>4. r.op \in {"chpass", "setkey", "delete", "rename"} => r.target # n
  BY <1>3 DEF UnlockedFor
<1>5. \/ \E op \in {"chpass", "chrand"} : ChangePassword(w, op) /\ r.op = op
      \/ CreatePrincipal(w) /\ r.op = "create"
      \/ ModifyPrincipal(w) /\ r.op = "modify"
      \/ DeletePrincipal(w) /\ r.op = "delete"
      \/ RenamePrincipal(w) /\ r.op = "rename"
      \/ CreateAlias(w) /\ r.op = "alias"
      \/ SetKey(w) /\ r.op = "setkey"
      \/ PurgeKeys(w) /\ r.op = "purge"
  BY <1>1, <1>2, WhoWrote
<1>6. CASE \E op \in {"chpass", "chrand"} : ChangePassword(w, op) /\ r.op = op
  <2>1. PICK op \in {"chpass", "chrand"} : ChangePassword(w, op) /\ r.op = op
    BY <1>6
  <2>2. PICK e : /\ princs' = [princs EXCEPT ![r.target] = e]
                 /\ r.target \in Names => e.attrs = princs[r.target].attrs \ {"pwchange"}
    BY <1>2, <2>1, PasswordEntry DEF IInv
  <2>3. r.target = n
    BY <1>1, <2>2
  <2>4. r.op = "chrand"
    BY <1>4, <2>1, <2>3
  <2>5. princs'[n] = e
    BY <2>2, <2>3 DEF IInv, DbInv
  <2> QED BY <1>2, <2>2, <2>3, <2>4, <2>5 DEF Locked
<1>7. CASE r.op \in {"create", "alias", "rename"}
  <2>1. r.op = "rename" /\ n = r.target
    BY <1>1, <1>2, <1>7, OverwriteSafe DEF OverwriteStep
  <2> QED BY <1>4, <2>1
<1>8. CASE DeletePrincipal(w) /\ r.op = "delete"
  <2>1. princs' = [princs EXCEPT ![r.target] = None]
    BY <1>2, <1>8 DEF DeletePrincipal
  <2> QED BY <1>1, <1>4, <1>8, <2>1
<1>9. CASE (SetKey(w) /\ r.op = "setkey") \/ (PurgeKeys(w) /\ r.op = "purge")
  <2>1. PICK e : /\ princs' = [princs EXCEPT ![r.target] = e]
                 /\ r.target \in Names => princs[r.target].attrs \ {"pwchange"} \subseteq e.attrs
    <3>1. PICK t : t = r.target
      OBVIOUS
    <3>2. (SetKey(w) \/ PurgeKeys(w)) /\ t = calls[w].req.target
      BY <1>2, <1>9, <3>1
    <3>3. DbInv
      BY DEF IInv
    <3>4. PICK e : /\ princs' = [princs EXCEPT ![t] = e] /\ Exists(t)
                   /\ t \in Names =>
                         /\ DOMAIN e = EntryFields
                         /\ e.by = princs[t].by /\ e.policy = princs[t].policy
                         /\ e.life = princs[t].life
                         /\ e.attrs \subseteq princs[t].attrs
                         /\ princs[t].attrs \ {"pwchange"} \subseteq e.attrs
      BY <3>2, <3>3, KeysEntry
    <3> QED BY <3>1, <3>4
  <2>2. r.target = n
    BY <1>1, <2>1
  <2>3. r.op = "purge"
    BY <1>4, <1>9, <2>2
  <2>4. princs'[n] = e
    BY <2>1, <2>2 DEF IInv, DbInv
  <2> QED BY <1>2, <2>1, <2>2, <2>3, <2>4 DEF Locked
<1>10. CASE ModifyPrincipal(w) /\ r.op = "modify"
  <2>1. PICK e : /\ princs' = [princs EXCEPT ![r.target] = e]
                 /\ r.target \in Names => Modified(e, princs[r.target], r)
    BY <1>2, <1>10, ModifyEntry DEF IInv
  <2>2. r.target = n
    BY <1>1, <2>1
  <2>3. princs'[n] = e
    BY <2>1, <2>2 DEF IInv, DbInv
  <2>4. "attrs" \in r.mask => "lockdown" \in r.attrs
    BY <1>2, <1>3, <1>10, <2>2 DEF UnlockedFor
  <2>5. e.keys = princs[n].keys /\ "lockdown" \in e.attrs
    BY <2>1, <2>2, <2>4 DEF Modified, Locked
  <2> QED BY <1>2, <1>10, <2>3, <2>5
<1> QED BY <1>5, <1>6, <1>7, <1>8, <1>9, <1>10

\* No call writes over an entry it may not write: a locked-down principal's
\* keys and attribute, or another call's new entry, whatever the threads
\* interleave (the lockdown checks of krb5-rs-kadmind.rs and the transactions
\* of create, alias and rename).
THEOREM OnlyAllowedWrites == Spec => WritesAllowed
<1>1. IInv /\ [Next]_vars => [LockdownStep]_vars /\ [OverwriteStep]_vars
  BY LockdownSafe, OverwriteSafe
<1>2. Spec => [][LockdownStep]_vars /\ [][OverwriteStep]_vars
  BY <1>1, Invariance, PTL DEF Spec
<1> QED BY <1>2 DEF WritesAllowed, LockdownKept, NoOverwrite, LockdownStep, OverwriteStep
=============================================================================
