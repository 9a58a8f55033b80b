------------------------------ MODULE TgsClient ------------------------------
(***************************************************************************)
(* The client side of the ticket-granting exchange over a shared credential *)
(* cache (src/protocol/tgs_exchange/, src/client/): get_credentials with its *)
(* candidates and cached TGTs, S4U2Self, S4U2Proxy through referrals,       *)
(* default-cache selection and acquire_cred_with_password, one call after   *)
(* another.                                                                 *)
(*                                                                          *)
(* KDCs answer anything the client can decode: any error, or a reply naming *)
(* any client, server and realm. A reply that does not decrypt, is late     *)
(* (another nonce) or is too far in the future fails the exchange like any  *)
(* other error.                                                             *)
(*                                                                          *)
(* A lookup in a cache is one step and another program may act between any  *)
(* two of them. Choosing a cache out of the collection (cache_match,        *)
(* select_cache) looks at all of its caches at one moment.                  *)
(***************************************************************************)
EXTENDS Ccache

CONSTANTS
  Texts,     \* components of names, realms and other strings
  MaxHops,   \* MAX_REFERRAL_HOPS
  MaxSteps   \* MAX_EXCHANGE_STEPS

ASSUME TextsAssumption == {"", "none", "error", "any", "u2u", "krbtgt", "else"} \cup Realms \subseteq Texts
ASSUME ClientBounds == MaxHops \in Nat \ {0} /\ MaxSteps \in Nat \ {0}

(***************************************************************************)
(* Names and credentials of a settings record c. A ticket is for the       *)
(* server it is filed under, or for another name of that server where DNS  *)
(* or a KDC that was asked to canonicalize may have given one; it is never *)
(* a referral TGT filed under another name.                                *)
(***************************************************************************)
Components == Seq(Texts)
Principals == [n : Components, r : Texts]
Creds == [c : Principals, s : Components, sr : Texts, end : Nat, skey : BOOLEAN, sec : Texts, okd : BOOLEAN,
          tc : Principals, ts : Components]
Jobs == [kind : {"get", "self", "proxy", "password"}, cl : Principals \ {None}, s : Components, sr : Texts,
         user : Principals, id : Principals, ev : Texts, sel : BOOLEAN, cached : BOOLEAN, canon : BOOLEAN,
         u2u : BOOLEAN, nostore : BOOLEAN, ent : BOOLEAN]

CanonAsked(c) == \E p \in c.jobs : \E i \in DOMAIN p : p[i].canon
Renamed(c, s) == s \in DOMAIN c.hosts \/ CanonAsked(c)
SameServer(c, t) == t.ts = t.s \/ (Renamed(c, t.s) /\ ~IsTgs(t.ts))
Honest(c) == {t \in Creds : t.tc = t.c /\ SameServer(c, t)}
CacheFiles(c) ==
  {f \in [st : {"none", "torn", "mess", "ok", "junk"}, p : Principals, recs : Seq(Honest(c))] :
     Opened(f) => f.p # None}

\* Host-based services are not krbtgt, KDCs and other programs name somebody,
\* and the caches of the start hold what KDCs issued.
ASSUME ClientConfigs ==
  \A c \in Configs :
    /\ c.clients \subseteq Principals \ {None} /\ c.others \subseteq Principals \ {None}
    /\ c.srealms \subseteq Realms
    /\ c.padata \subseteq [k : {"none", "bad", "user"}, p : Principals]
    /\ \A s \in DOMAIN c.hosts : c.hosts[s] \in Components /\ ~IsTgs(c.hosts[s])
    /\ \A n \in Names : c.files[n] \in CacheFiles(c)
    /\ c.jobs \subseteq Seq(Jobs)

VARIABLES
  pc,     \* where the call is
  job,    \* the call: get, self, proxy or password, with its request
  left,   \* calls the program has still to make
  cache,  \* the cache it uses
  req,    \* the get_credentials call in progress, its own or a nested one
  cand,   \* server names get_credentials has still to try
  pcand,  \* server names the S4U2Proxy call has still to try
  ex,     \* the TGS exchange in progress
  sto,    \* the store_cred in progress: [cred, must, next]
  res     \* what the last call returned

jvars == <<pc, job, left, cache, req, cand, pcand, ex, sto, res>>
vars == <<cvars, jvars>>

TgtRealm(t) == IF IsTgs(t.s) THEN t.s[2] ELSE t.sr

NoReq == [c |-> None, s |-> <<>>, sr |-> "", canon |-> FALSE, u2u |-> FALSE, nostore |-> FALSE, cached |-> FALSE,
          then |-> "return"]
NoSto == [cred |-> NoCred, must |-> FALSE, next |-> "none"]
NoRes == [k |-> "none", cred |-> NoCred]
Ok(cred) == [k |-> "ok", cred |-> cred]
Err == [k |-> "err", cred |-> NoCred]

(***************************************************************************)
(* CanonPrinc: a host-based name is tried as qualified, then as DNS gives  *)
(* it when that differs.                                                   *)
(***************************************************************************)
Candidates(s) ==
  IF s \notin DOMAIN cfg.hosts THEN <<s>>
  ELSE IF cfg.hosts[s] = s THEN <<s>> ELSE <<s, cfg.hosts[s]>>

(***************************************************************************)
(* Exchanges. mode: plain, self, proxy; ref: the resume state is Referrals. *)
(***************************************************************************)
NoEx == [mode |-> "plain", tgt |-> NoCred, target |-> <<>>, canon |-> FALSE, ref |-> FALSE, seen |-> {}, hops |-> 0,
         first |-> TRUE, steps |-> 1, svc |-> None, user |-> None, refs |-> {},
         phase |-> "first", ptgt |-> NoCred, ttgt |-> NoCred, trealm |-> "none", evc |-> None]

\* new and begin: the first request goes to the realm of the TGT.
Plain(tgt, target, canon) ==
  [NoEx EXCEPT !.tgt = tgt, !.target = target, !.canon = canon, !.ref = canon,
               !.seen = IF canon THEN {TgtRealm(tgt)} ELSE {}]

S4u2Self(tgt, user) ==
  [NoEx EXCEPT !.mode = "self", !.tgt = tgt, !.target = tgt.c.n, !.first = FALSE, !.svc = tgt.c, !.user = user]

S4u2Proxy(tgt, ev, target) ==
  [NoEx EXCEPT !.mode = "proxy", !.tgt = tgt, !.target = target, !.first = FALSE, !.evc = ev]

FromRep(r) ==
  [c |-> r.c, s |-> r.sn, sr |-> r.sr, end |-> now + 1, skey |-> FALSE, sec |-> "none", okd |-> r.okd,
   tc |-> r.c, ts |-> r.sn]

Send(e) == [k |-> "send", ex |-> [e EXCEPT !.steps = @ + 1], cred |-> NoCred]
Done(e, cred) == [k |-> "done", ex |-> e, cred |-> cred]
Fail(e, k) == [k |-> k, ex |-> e, cred |-> NoCred]

\* handle_referral: a new realm each time, a bounded number of them; the
\* referral TGT keeps ok-as-delegate only if the TGT it came from had it.
HandleReferral(e, r) ==
  IF ~e.ref \/ e.hops >= MaxHops \/ r.sn[2] \in e.seen THEN Fail(e, "other")
  ELSE Send([e EXCEPT !.tgt = [FromRep(r) EXCEPT !.okd = r.okd /\ e.tgt.okd],
                      !.hops = @ + 1, !.seen = @ \cup {r.sn[2]}, !.first = FALSE])

\* validate_tgs_reply and process_tgs_rep of an ordinary exchange.
PlainRep(e, r) ==
  LET referral == IsTgs(r.sn) /\ r.sn # e.target
  IN IF r.c # e.tgt.c THEN Fail(e, "other")
     ELSE IF referral THEN HandleReferral(e, r)
     ELSE IF ~e.canon /\ r.sn # e.target THEN Fail(e, "other")
     ELSE Done(e, FromRep(r))

\* verify_s4u2self_reply: pa is "none" (no padata), "bad", or the user the
\* checksummed padata names; the first reply may rename the user.
VerifyS4u2Self(e, pa) ==
  CASE pa.k = "none" -> [ok |-> TRUE, user |-> e.user]
    [] pa.k = "bad" -> [ok |-> FALSE, user |-> e.user]
    [] OTHER -> IF e.refs = {} THEN [ok |-> TRUE, user |-> pa.p] ELSE [ok |-> pa.p = e.user, user |-> e.user]

\* (a mistake: the reply's client is not held against the user)
SelfRepAnyUser(e, r) ==
  LET v == VerifyS4u2Self(e, r.pa)
      e1 == [e EXCEPT !.user = v.user, !.refs = @ \cup {<<r.sn, r.sr>>}, !.tgt = FromRep(r)]
  IN IF IsTgs(r.sn) THEN
       IF r.c # e.tgt.c \/ ~v.ok \/ Cardinality(e1.refs) >= MaxHops THEN Fail(e, "other") ELSE Send(e1)
     ELSE IF r.c = e.svc \/ ~v.ok \/ r.sn # e.svc.n THEN Fail(e, "other")
     ELSE Done([e EXCEPT !.user = v.user], FromRep(r))

SelfRep(e, r) ==
  LET v == VerifyS4u2Self(e, r.pa)
      e1 == [e EXCEPT !.user = v.user, !.refs = @ \cup {<<r.sn, r.sr>>}, !.tgt = FromRep(r)]
  IN IF IsTgs(r.sn) THEN
       IF \/ r.c # e.tgt.c \/ ~v.ok
          \/ r.sn[2] = TgtRealm(e.tgt)
          \/ <<r.sn, r.sr>> \in e.refs
          \/ Cardinality(e1.refs) >= MaxHops
       THEN Fail(e, "other") ELSE Send(e1)
     ELSE IF r.c = e.svc \/ ~v.ok \/ r.sn # e.svc.n \/ r.c # v.user THEN Fail(e, "other")
     ELSE Done([e EXCEPT !.user = v.user], FromRep(r))

\* chase_referral: a TGT to a realm other than the one asked, not the name
\* of one used before, a bounded number of them.
Chase(e, r) ==
  LET refs == e.refs \cup {<<e.tgt.s, e.tgt.sr>>}
  IN IF \/ ~IsTgs(r.sn)
        \/ r.sn[2] = TgtRealm(e.tgt)
        \/ <<r.sn, r.sr>> \in e.refs
        \/ Cardinality(refs) >= MaxHops
     THEN Fail(e, "other")
     ELSE Send([e EXCEPT !.refs = refs, !.tgt = FromRep(r)])

ProxyDone(e, r) == IF r.c = e.evc THEN Done(e, FromRep(r)) ELSE Fail(e, "other")

\* The reply with the evidence ticket in the service's own realm.
ProxyFirst(e, r) ==
  IF r.sn = e.target THEN ProxyDone(e, r)
  ELSE IF ~IsTgs(r.sn) \/ ~r.rbcd THEN Fail(e, "other")
  ELSE Send([e EXCEPT !.ptgt = FromRep(r), !.phase = "target", !.refs = {}])

\* get_tgt_to_target_realm: the TGT that found the server is kept.
ProxyTarget(e, r) ==
  IF r.sn # e.target THEN Chase(e, r)
  ELSE IF TgtRealm(e.ptgt) = TgtRealm(e.tgt)
    THEN Send([e EXCEPT !.trealm = TgtRealm(e.tgt), !.refs = {}, !.phase = "final"])
    ELSE Send([e EXCEPT !.trealm = TgtRealm(e.tgt), !.refs = {}, !.phase = "proxytgt",
                        !.ttgt = e.tgt, !.tgt = e.ptgt])

\* (a mistake: the header stays on the TGT that was chased last)
ProxyTgtKeepsHeader(e, r) ==
  IF r.sn # Tgs(e.trealm) THEN Chase(e, r)
  ELSE Send([e EXCEPT !.ptgt = FromRep(r), !.phase = "final"])

\* get_target_realm_proxy_tgt.
ProxyTgt(e, r) ==
  IF r.sn # Tgs(e.trealm) THEN Chase(e, r)
  ELSE Send([e EXCEPT !.ptgt = FromRep(r), !.tgt = e.ttgt, !.ttgt = NoCred, !.phase = "final"])

ProxyFinal(e, r) ==
  IF ~r.rbcd \/ r.sn # e.target \/ r.sr # e.trealm THEN Fail(e, "other") ELSE ProxyDone(e, r)

ProxyRep(e, r) ==
  IF (e.phase \notin {"first", "final"} \/ IsTgs(r.sn)) /\ r.c # e.tgt.c THEN Fail(e, "other")
  ELSE CASE e.phase = "first" -> ProxyFirst(e, r)
         [] e.phase = "target" -> ProxyTarget(e, r)
         [] e.phase = "proxytgt" -> ProxyTgt(e, r)
         [] OTHER -> ProxyFinal(e, r)

\* (a mistake: an unknown server switches between referrals and no
\* referrals, without a limit of steps)
StepEndless(e, r) ==
  IF r.k = "rep" THEN
    CASE e.mode = "plain" -> PlainRep(e, r)
      [] e.mode = "self" -> SelfRep(e, r)
      [] OTHER -> ProxyRep(e, r)
  ELSE IF r.k = "unknown" THEN [k |-> "send", ex |-> [e EXCEPT !.ref = ~@], cred |-> NoCred]
  ELSE Fail(e, r.k)

\* process_reply under run_tgs, which gives up at MAX_EXCHANGE_STEPS and
\* when told to retry over TCP.
Step(e, r) ==
  IF e.steps >= MaxSteps THEN Fail(e, "other")
  ELSE IF r.k = "rep" THEN
    CASE e.mode = "plain" -> PlainRep(e, r)
      [] e.mode = "self" -> SelfRep(e, r)
      [] OTHER -> ProxyRep(e, r)
  ELSE IF r.k = "unknown" /\ e.first /\ e.ref THEN Send([e EXCEPT !.ref = FALSE, !.first = FALSE])
  ELSE Fail(e, r.k)

\* The answers of a KDC: realms, clients and server names of the settings,
\* those that the exchange's checks tell apart.
Replies(e) ==
  LET any == [k : {"rep"}, c : cfg.clients, sn : {e.target, <<"else">>} \cup {Tgs(r) : r \in Realms},
              sr : cfg.srealms,
              okd : IF e.mode = "plain" THEN BOOLEAN ELSE {FALSE},
              rbcd : IF e.mode = "proxy" THEN BOOLEAN ELSE {FALSE},
              pa : IF e.mode = "self" THEN cfg.padata ELSE {[k |-> "none", p |-> None]}]
  IN any \cup {[k |-> x] : x \in {"unknown", "other"}}

(***************************************************************************)
(* store_cred: the header is read, then the record appended.               *)
(***************************************************************************)
Store(cred, must, next) == sto' = [cred |-> cred, must |-> must, next |-> next] /\ pc' = "store"

StoreRead ==
  /\ pc = "store"
  /\ IF Opened(files[cache]) THEN pc' = "append" /\ UNCHANGED res
     ELSE IF sto.must THEN pc' = "return" /\ res' = Err
     ELSE pc' = sto.next /\ UNCHANGED res
  /\ UNCHANGED <<cvars, job, left, cache, req, cand, pcand, ex, sto>>

StoreAppend ==
  /\ pc = "append"
  /\ IF Exists(cache)
     THEN pc' = sto.next /\ files' = [files EXCEPT ![cache] = Appended(files[cache], sto.cred)] /\ UNCHANGED res
     ELSE /\ UNCHANGED files
          /\ IF sto.must THEN pc' = "return" /\ res' = Err ELSE pc' = sto.next /\ UNCHANGED res
  /\ UNCHANGED <<cfg, now, primary, oth, did, job, left, cache, req, cand, pcand, ex, sto>>

(***************************************************************************)
(* get_credentials.                                                        *)
(***************************************************************************)
Request(c, s, sr, then) ==
  [c |-> c, s |-> s, sr |-> sr, canon |-> job.canon, u2u |-> then = "return" /\ job.u2u, nostore |-> job.nostore,
   cached |-> job.cached, then |-> then]

MatchCred(c, s, sr, end, skey, sec) == [c |-> c, s |-> s, sr |-> sr, end |-> end, skey |-> skey, sec |-> sec]

\* What follows the nested call: the S4U exchange it fetched a TGT for.
GetReturns(r) ==
  /\ res' = r
  /\ IF r.k = "err" \/ req.then = "return" THEN pc' = "return" /\ UNCHANGED <<ex, pcand>>
     ELSE /\ pc' = req.then
          /\ ex' = IF req.then = "self.run" THEN S4u2Self(r.cred, job.id)
                   ELSE S4u2Proxy(r.cred, job.user, Head(pcand))
          /\ pcand' = IF req.then = "self.run" THEN pcand ELSE Tail(pcand)

\* check_cache.
GetCheck ==
  LET m == MatchCred(req.c, req.s, req.sr, now, req.u2u, IF req.u2u THEN "u2u" ELSE "any")
      hit == Retrieve(files[cache], m)
  IN /\ pc = "get.check"
     /\ IF hit.k = "miss" /\ ~req.cached
        THEN pc' = "get.cand" /\ cand' = Candidates(req.s) /\ UNCHANGED <<res, ex, pcand>>
        ELSE GetReturns(IF hit.k = "hit" THEN Ok(hit.cred) ELSE Err) /\ UNCHANGED cand
     /\ UNCHANGED <<cvars, job, left, cache, req, sto>>

\* tkt_creds, begin_get_tgt: a cached TGT for the server's realm, else the
\* local TGT, which must not have expired.
ServerRealm == IF req.sr = "" THEN req.c.r ELSE req.sr

CachedTgt == Retrieve(files[cache], MatchCred(req.c, Tgs(ServerRealm), "any", now, FALSE, "any"))
LocalTgt == Retrieve(files[cache], MatchCred(req.c, Tgs(req.c.r), req.c.r, 0, FALSE, "any"))

GetCandidate ==
  /\ pc = "get.cand"
  /\ IF cand = <<>> THEN GetReturns(Err) /\ UNCHANGED cand
     ELSE IF ServerRealm # req.c.r /\ CachedTgt.k = "hit" THEN
       /\ pc' = "get.svc" /\ ex' = Plain(CachedTgt.cred, Head(cand), req.canon)
       /\ UNCHANGED <<res, pcand, cand>>
     ELSE pc' = "get.local" /\ UNCHANGED <<res, ex, pcand, cand>>
  /\ UNCHANGED <<cvars, job, left, cache, req, sto>>

GetLocal ==
  /\ pc = "get.local"
  /\ IF LocalTgt.k = "hit" /\ now <= LocalTgt.cred.end THEN
       /\ IF ServerRealm = req.c.r
          THEN pc' = "get.svc" /\ ex' = Plain(LocalTgt.cred, Head(cand), req.canon)
          ELSE pc' = "get.realm" /\ ex' = Plain(LocalTgt.cred, Tgs(ServerRealm), req.canon)
       /\ UNCHANGED <<res, pcand>>
     ELSE GetReturns(Err)
  /\ UNCHANGED <<cvars, job, left, cache, req, cand, sto>>

\* The exchange for krbtgt/<server realm> ended.
GetRealm(s) ==
  /\ pc = "get.realm"
  /\ CASE s.k = "send" -> ex' = s.ex /\ UNCHANGED <<pc, cand, res, pcand, sto>>
       [] s.k = "done" ->
            /\ ex' = Plain(s.cred, Head(cand), req.canon)
            /\ IF s.cred.s = Tgs(ServerRealm) THEN Store(s.cred, FALSE, "get.svc") ELSE pc' = "get.svc" /\ UNCHANGED sto
            /\ UNCHANGED <<cand, res, pcand>>
       [] s.k = "unknown" -> pc' = "get.cand" /\ cand' = Tail(cand) /\ ex' = s.ex /\ UNCHANGED <<res, pcand, sto>>
       [] OTHER -> pc' = "return" /\ res' = Err /\ ex' = s.ex /\ UNCHANGED <<cand, pcand, sto>>
  /\ UNCHANGED <<cvars, job, left, cache, req>>

\* The exchange for the server: the credential is filed as it was asked for.
Filed(cred) == [cred EXCEPT !.s = req.s, !.sr = req.sr, !.skey = req.u2u, !.sec = IF req.u2u THEN "u2u" ELSE "none"]

GetService(s) ==
  /\ pc = "get.svc"
  /\ CASE s.k = "send" -> ex' = s.ex /\ UNCHANGED <<pc, cand, res, sto>>
       [] s.k = "done" ->
            /\ res' = Ok(Filed(s.cred)) /\ ex' = s.ex
            /\ IF req.nostore THEN pc' = "get.done" /\ UNCHANGED sto
               ELSE Store(Filed(s.cred), FALSE, "get.done")
            /\ UNCHANGED cand
       [] s.k = "unknown" -> pc' = "get.cand" /\ cand' = Tail(cand) /\ ex' = s.ex /\ UNCHANGED <<res, sto>>
       [] OTHER -> pc' = "return" /\ res' = Err /\ ex' = s.ex /\ UNCHANGED <<cand, sto>>
  /\ UNCHANGED <<cvars, job, left, cache, req, pcand>>

GetDone ==
  /\ pc = "get.done"
  /\ GetReturns(res)
  /\ UNCHANGED <<cvars, job, left, cache, req, cand, sto>>

(***************************************************************************)
(* get_default_credentials: choose a cache, then read whose it is.         *)
(***************************************************************************)
SelectStep ==
  /\ pc = "select"
  /\ primary' = IF SelectCache(job.sr) = Default THEN PrimaryMade ELSE primary
  /\ IF SelectCache(job.sr) = "error" THEN pc' = "return" /\ res' = Err /\ UNCHANGED cache
     ELSE pc' = "principal" /\ cache' = SelectCache(job.sr) /\ UNCHANGED res
  /\ UNCHANGED <<cfg, now, files, oth, did, job, left, req, cand, pcand, ex, sto>>

PrincipalStep ==
  /\ pc = "principal"
  /\ IF Opened(files[cache])
     THEN /\ job' = [job EXCEPT !.cl = Principal(files[cache])]
          /\ req' = Request(Principal(files[cache]), job.s, job.sr, "return")
          /\ pc' = "get.check" /\ UNCHANGED res
     ELSE pc' = "return" /\ res' = Err /\ UNCHANGED <<job, req>>
  /\ UNCHANGED <<cvars, left, cache, cand, pcand, ex, sto>>

(***************************************************************************)
(* get_credentials_for_user. A named user is looked for in the cache; an   *)
(* enterprise name again once its realm is known (an AS probe), and the    *)
(* user the KDC named once more at the end.                                *)
(***************************************************************************)
UserCred(p) == Retrieve(files[cache], MatchCred(p, job.cl.n, job.cl.r, now, FALSE, "any"))

SelfCheck ==
  /\ pc = "self.check"
  /\ IF job.cached \/ (job.user # None /\ UserCred(job.user).k # "miss")
     THEN /\ pc' = "return"
          /\ res' = IF job.user # None /\ UserCred(job.user).k = "hit" THEN Ok(UserCred(job.user).cred) ELSE Err
     ELSE pc' = "self.ident" /\ UNCHANGED res
  /\ UNCHANGED <<cvars, job, left, cache, req, cand, pcand, ex, sto>>

\* s4u_identify_user: the realm given, or the one the AS probe ends in.
SelfIdentify(r) ==
  LET id == IF job.user = None \/ job.ent THEN Princ(job.user.n, r) ELSE job.user
      old == UserCred(id)
  IN /\ pc = "self.ident"
     /\ job.user = None \/ job.ent \/ r = job.user.r
     /\ job' = [job EXCEPT !.id = id]
     /\ IF r = "error" \/ (job.ent /\ old.k = "error") THEN pc' = "return" /\ res' = Err /\ UNCHANGED req
        ELSE IF job.ent /\ old.k = "hit" THEN pc' = "return" /\ res' = Ok(old.cred) /\ UNCHANGED req
        ELSE pc' = "get.check" /\ req' = Request(job.cl, Tgs(r), job.cl.r, "self.run") /\ UNCHANGED res
     /\ UNCHANGED <<cvars, left, cache, cand, pcand, ex, sto>>

SelfRun(s) ==
  /\ pc = "self.run"
  /\ CASE s.k = "send" -> pc' = pc /\ UNCHANGED res
       [] s.k = "done" -> pc' = "self.final" /\ res' = Ok(s.cred)
       [] OTHER -> pc' = "return" /\ res' = Err
  /\ ex' = s.ex
  /\ UNCHANGED <<cvars, job, left, cache, req, cand, pcand, sto>>

SelfFinal ==
  LET old == UserCred(res.cred.c)
  IN /\ pc = "self.final"
     /\ IF res.cred.c = job.user \/ old.k = "miss" THEN
          /\ UNCHANGED res
          /\ IF job.nostore THEN pc' = "return" /\ UNCHANGED sto ELSE Store(res.cred, TRUE, "return")
        ELSE pc' = "return" /\ res' = (IF old.k = "hit" THEN Ok(old.cred) ELSE Err) /\ UNCHANGED sto
     /\ UNCHANGED <<cvars, job, left, cache, req, cand, pcand, ex>>

(***************************************************************************)
(* get_credentials_for_proxy: the cache is searched by server and evidence *)
(* ticket; the result must be for the evidence's client.                   *)
(***************************************************************************)
ProxyReturns(r) == pc' = "return" /\ res' = IF r.k = "ok" /\ r.cred.c = job.user THEN r ELSE Err

ProxyCheck ==
  LET hit == Retrieve(files[cache], MatchCred(None, job.s, job.sr, now, FALSE, job.ev))
  IN /\ pc = "proxy.check"
     /\ IF hit.k = "miss" /\ ~job.cached THEN pc' = "proxy.cand" /\ pcand' = Candidates(job.s) /\ UNCHANGED res
        ELSE ProxyReturns(IF hit.k = "hit" THEN Ok(hit.cred) ELSE Err) /\ UNCHANGED pcand
     /\ UNCHANGED <<cvars, job, left, cache, req, cand, ex, sto>>

ProxyCandidate ==
  /\ pc = "proxy.cand"
  /\ IF pcand = <<>> THEN pc' = "return" /\ res' = Err /\ UNCHANGED req
     ELSE pc' = "get.check" /\ req' = Request(job.cl, Tgs(job.cl.r), job.cl.r, "proxy.run") /\ UNCHANGED res
  /\ UNCHANGED <<cvars, job, left, cache, cand, pcand, ex, sto>>

ProxyFiled(cred) == [cred EXCEPT !.s = job.s, !.sr = job.sr, !.sec = job.ev]

ProxyRun(s) ==
  /\ pc = "proxy.run"
  /\ ex' = s.ex
  /\ CASE s.k = "send" -> UNCHANGED <<pc, res, sto>>
       [] s.k = "done" ->
            /\ res' = Ok(ProxyFiled(s.cred))
            /\ IF job.nostore THEN pc' = "proxy.done" /\ UNCHANGED sto
               ELSE Store(ProxyFiled(s.cred), FALSE, "proxy.done")
       [] s.k = "unknown" -> pc' = "proxy.cand" /\ UNCHANGED <<res, sto>>
       [] OTHER -> pc' = "return" /\ res' = Err /\ UNCHANGED sto
  /\ UNCHANGED <<cvars, job, left, cache, req, cand, pcand>>

ProxyFinish ==
  /\ pc = "proxy.done"
  /\ ProxyReturns(res)
  /\ UNCHANGED <<cvars, job, left, cache, req, cand, pcand, ex, sto>>

(***************************************************************************)
(* acquire_cred_with_password: the collection's cache for the client, with *)
(* the valid TGT it may hold; else the default cache if there is none yet; *)
(* else a new one. The AS exchange asks for CANONICALIZE, so that the      *)
(* reply may be for any client and server, after referrals of any realm    *)
(* (AsExchange has the exchange itself), and it is the client of the reply *)
(* that the cache is made for.                                             *)
(***************************************************************************)
PasswordMatch ==
  LET own == CacheMatch(job.cl)
  IN /\ pc = "password"
     /\ IF own = "none" THEN pc' = "default" /\ UNCHANGED cache ELSE pc' = "local" /\ cache' = own
     /\ UNCHANGED <<cvars, job, left, req, cand, pcand, ex, sto, res>>

PasswordLocal ==
  LET local == Retrieve(files[cache], MatchCred(job.cl, Tgs(job.cl.r), job.cl.r, 0, FALSE, "any"))
  IN /\ pc = "local"
     /\ IF local.k = "hit" /\ now <= local.cred.end
        THEN pc' = "return" /\ res' = Ok(local.cred) ELSE pc' = "as" /\ UNCHANGED res
     /\ UNCHANGED <<cvars, job, left, cache, req, cand, pcand, ex, sto>>

PasswordDefault ==
  /\ pc = "default" /\ pc' = "empty"
  /\ primary' = PrimaryMade /\ cache' = Default
  /\ UNCHANGED <<cfg, now, files, oth, did, job, left, req, cand, pcand, ex, sto, res>>

PasswordEmpty ==
  LET fresh == {n \in Names : ~Exists(n)}
  IN /\ pc = "empty"
     /\ IF ~Exists(cache) THEN pc' = "as" /\ UNCHANGED <<cache, files, res>>
        ELSE IF cfg.dir /\ fresh # {} THEN
          /\ cache' = CHOOSE n \in fresh : TRUE
          /\ files' = [files EXCEPT ![cache'] = Torn]
          /\ pc' = "as" /\ UNCHANGED res
        ELSE pc' = "return" /\ res' = Err /\ UNCHANGED <<cache, files>>
     /\ UNCHANGED <<cfg, now, primary, oth, did, job, left, req, cand, pcand, ex, sto>>

AsReplies ==
  [k : {"rep"}, c : cfg.clients, sn : {<<"else">>} \cup {Tgs(r) : r \in cfg.srealms}, sr : cfg.srealms, okd : {FALSE}]
    \cup {[k |-> "other"]}

PasswordAs(r) ==
  /\ pc = "as"
  /\ IF r.k = "rep" THEN pc' = "truncate" /\ res' = Ok(FromRep(r)) ELSE pc' = "return" /\ res' = Err
  /\ UNCHANGED <<cvars, job, left, cache, req, cand, pcand, ex, sto>>

PasswordTruncate ==
  /\ pc = "truncate"
  /\ files' = [files EXCEPT ![cache] = Torn]
  /\ pc' = "header"
  /\ UNCHANGED <<cfg, now, primary, oth, did, job, left, cache, req, cand, pcand, ex, sto, res>>

PasswordHeader ==
  /\ pc = "header"
  /\ \E f \in HeaderOver(files[cache], res.cred.c) : files' = [files EXCEPT ![cache] = f]
  /\ Store(res.cred, TRUE, "return")
  /\ UNCHANGED <<cfg, now, primary, oth, did, job, left, cache, req, cand, pcand, ex, res>>

(***************************************************************************)
(* The program makes one call after another.                               *)
(***************************************************************************)
Call ==
  /\ pc = "idle" /\ left # <<>>
  /\ job' = Head(left) /\ left' = Tail(left)
  /\ res' = NoRes /\ ex' = NoEx /\ cand' = <<>> /\ pcand' = <<>> /\ sto' = NoSto
  /\ cache' = "tkt"
  /\ LET j == Head(left)
     IN /\ pc' = CASE j.kind = "get" -> IF j.sel THEN "select" ELSE "get.check"
                   [] j.kind = "self" -> "self.check"
                   [] j.kind = "proxy" -> "proxy.check"
                   [] OTHER -> "password"
        /\ req' = IF j.kind = "get" /\ ~j.sel
                  THEN [c |-> j.cl, s |-> j.s, sr |-> j.sr, canon |-> j.canon, u2u |-> j.u2u,
                        nostore |-> j.nostore, cached |-> j.cached, then |-> "return"]
                  ELSE NoReq
  /\ UNCHANGED cvars

Return ==
  /\ pc = "return"
  /\ pc' = "idle"
  /\ UNCHANGED <<cvars, job, left, cache, req, cand, pcand, ex, sto, res>>

Answer(r) ==
  LET s == Step(ex, r)
  IN GetRealm(s) \/ GetService(s) \/ SelfRun(s) \/ ProxyRun(s)

Client ==
  \/ Call \/ Return
  \/ StoreRead \/ StoreAppend
  \/ GetCheck \/ GetCandidate \/ GetLocal \/ GetDone
  \/ SelectStep \/ PrincipalStep
  \/ SelfCheck \/ (\E r \in Realms \cup {"error"} : SelfIdentify(r)) \/ SelfFinal
  \/ ProxyCheck \/ ProxyCandidate \/ ProxyFinish
  \/ PasswordMatch \/ PasswordLocal \/ PasswordDefault \/ PasswordEmpty
  \/ (\E r \in AsReplies : PasswordAs(r)) \/ PasswordTruncate \/ PasswordHeader
  \/ \E r \in Replies(ex) : Answer(r)

Init ==
  /\ CcInit
  /\ pc = "idle" /\ left \in cfg.jobs
  /\ job = [kind |-> "none", cl |-> None, s |-> <<>>, sr |-> "", user |-> None, id |-> None, ev |-> "none", sel |-> FALSE,
            cached |-> FALSE, canon |-> FALSE, u2u |-> FALSE, nostore |-> FALSE, ent |-> FALSE]
  /\ cache = "tkt" /\ req = NoReq /\ cand = <<>> /\ pcand = <<>>
  /\ ex = NoEx /\ sto = NoSto /\ res = NoRes

Next == Client \/ (Other /\ UNCHANGED jvars)

\* The library runs its steps and every send returns an answer or an error
\* (SendTo); the other program owes nothing.
Spec == Init /\ [][Next]_vars /\ WF_vars(Client)

(***************************************************************************)
(* Properties.                                                             *)
(***************************************************************************)
IsFor(t, s) == t.s = s /\ SameServer(cfg, t)

\* The cache is that of the ticket's client and the ticket is in it.
Holds(n, t) ==
  Opened(files[n]) /\ Principal(files[n]) = t.tc /\ \E i \in DOMAIN files[n].recs : files[n].recs[i] = t

\* Whatever KDCs answer and other programs do to the cache, a call returns
\* a ticket whose client is the one it was made for (the principal of the
\* chosen cache, the user the KDC vouched for, the evidence's client; the
\* service itself only if it asked for itself), and for the server asked for,
\* never a referral TGT in its place. acquire_cred_with_password takes the
\* client and server a KDC names: what it found in a cache (nothing was
\* stored) is the TGT of the client asked for, what it got is named after the
\* ticket's own client, and the cache it returns is that client's and holds
\* the ticket, unless another program was at the caches.
TicketMatches ==
  pc = "return" /\ res.k = "ok" =>
    LET t == res.cred
    IN CASE job.kind = "get" -> t.tc = job.cl /\ IsFor(t, job.s)
         [] job.kind = "self" -> /\ IsFor(t, job.cl.n)
                                 /\ t.tc \in {job.user, job.id, ex.user}
                                 /\ t.tc = job.cl => job.cl \in {job.user, job.id}
         [] job.kind = "proxy" -> t.tc = job.user /\ IsFor(t, job.s)
         [] OTHER -> /\ t.tc = t.c
                     /\ sto = NoSto => t.tc = job.cl /\ IsFor(t, Tgs(job.cl.r))
                     /\ did = 0 => Holds(cache, t)

\* The last S4U2Proxy request is made with the service's own TGT for the
\* target realm as its header and a TGT of the service for that same realm
\* as its evidence.
FinalAligned ==
  pc = "proxy.run" /\ ex.phase = "final" =>
    /\ TgtRealm(ex.tgt) = ex.trealm /\ TgtRealm(ex.ptgt) = ex.trealm
    /\ ex.tgt.tc = job.cl /\ ex.ptgt.tc = job.cl

\* Every call asks for and returns the ticket of the principals it was made
\* for, through referrals, caches changed meanwhile and both chains of an
\* S4U2Proxy (get_credentials, verify_s4u2self_reply, s4u2proxy).
RightTicket == TicketMatches /\ FinalAligned

\* A foreign KDC cannot on its own grant delegation rights: a ticket is
\* ok-as-delegate only if the TGT it was asked with is (request.rs).
NoUnilateralDelegation ==
  pc = "return" /\ job.kind = "get" /\ res.k = "ok" /\ res.cred.okd => ex.tgt = NoCred \/ ex.tgt.okd

\* acquire_cred_with_password leaves the client's TGT in the client's cache
\* (README.md:17). Not so when the KDC names another client in its reply.
PasswordClient == pc = "return" /\ job.kind = "password" /\ res.k = "ok" => res.cred.tc = job.cl

\* Every call returns, whatever referrals KDCs send.
Ends == (pc # "idle") ~> (pc = "idle")
=============================================================================
