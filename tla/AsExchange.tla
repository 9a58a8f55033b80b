----------------------------- MODULE AsExchange -----------------------------
(***************************************************************************)
(* The AS exchange: the client's step machine (src/protocol/as_exchange,   *)
(* src/protocol/fast.rs), the KDC's stateless handler (src/kdc/as_req.rs,  *)
(* preauth.rs, cookie.rs, spake.rs, fast.rs, pkinit.rs) and the driver     *)
(* that repeats a failed exchange against primary KDCs (src/client).       *)
(*                                                                         *)
(* Keys and passwords are version numbers: decryption is comparing them.   *)
(* One request is outstanding at a time; every KDC of the realm may handle *)
(* it (retransmissions and several servers), and the first reply the       *)
(* transport accepts is fed to the client. Clock skew, enctype selection,  *)
(* anonymity and ticket contents are left out; principal state checks that *)
(* refuse a request before preauthentication are in Gate and Lockout, so   *)
(* that KDC_ERR_KEY_EXP (an answer to an identifying client) and           *)
(* KDC_ERR_C_PRINCIPAL_UNKNOWN (a referral from other KDCs) do not occur.  *)
(***************************************************************************)
EXTENDS Naturals, Sequences, FiniteSets

CONSTANTS Configs,     \* the client and KDC settings considered
          MaxTime,     \* bound: clock, in units longer than a cookie's life
          MaxKey,      \* bound: versions of the client's key
          MaxTgt,      \* bound: versions of the TGT key
          MaxChange,   \* bound: ticks, password and TGT key changes together
          MaxHandle    \* bound: times one request is handled

ASSUME BoundsAssumption == MaxTime \in Nat /\ MaxKey \in Nat /\ MaxTgt \in Nat \ {0}

MaxPreauthLoops == 16     \* MAX_PREAUTH_LOOPS
MaxExchangeSteps == 32    \* MAX_EXCHANGE_STEPS

VARIABLES
  cfg,    \* settings of this run
  kdc,    \* per KDC: the client's key and the TGT keys it holds
  now,    \* clock
  cl,     \* the client's exchange
  wire,   \* outstanding request, replies to it, how often it was handled
  ok,     \* ghost: the password and the armor have been good all along
  grant   \* ghost: what each issued ticket's request had proved

vars == <<cfg, kdc, now, cl, wire, ok, grant>>

Kdcs == {"p", "r", "b"}   \* primary and replica of realm A, the KDC of realm B
RealmOf(k) == IF k = "b" THEN "B" ELSE "A"

NoCh == [kind |-> "none", g |-> 0, id |-> <<>>, key |-> 0, sup |-> FALSE]
HintCh == [NoCh EXCEPT !.kind = "hint"]
NoCookie == [kind |-> "none", tgt |-> 0, born |-> 0, ch |-> NoCh]
Trivial == [NoCookie EXCEPT !.kind = "trivial"]
NoTok == [tgt |-> 0, born |-> 0]
NoMethod == [some |-> FALSE, fast |-> FALSE, info |-> FALSE, sp |-> NoCh,
             mech |-> "none", pk |-> FALSE, tok |-> NoTok, cookie |-> NoCookie]
NoPa == [t |-> "none", resp |-> FALSE, key |-> 0, ch |-> NoCh, dh |-> 0, tok |-> NoTok]
NoKey == [t |-> "none", v |-> 0, id |-> <<>>]

(***************************************************************************)
(* The KDC.                                                                *)
(***************************************************************************)
Tgt(k) == CHOOSE v \in kdc[k].tgt : \A w \in kdc[k].tgt : w <= v

\* CookieState::read: what the request's cookie still says, and whether it
\* is an expired one the request depends on.
Readable(k, req) == req.cookie.kind = "spake" /\ req.cookie.tgt \in kdc[k].tgt
Expired(born) == now > born
CookieExpired(k, req) == Readable(k, req) /\ Expired(req.cookie.born) /\ req.pa.t = "spake"
CookieCh(k, req) ==
  IF Readable(k, req) /\ ~Expired(req.cookie.born) THEN req.cookie.ch ELSE NoCh

\* CookieState::make.
MakeCookie(k, ch) ==
  IF ch.kind = "chal" THEN [kind |-> "spake", tgt |-> Tgt(k), born |-> now, ch |-> ch]
  ELSE Trivial

\* send_challenge.
Challenge(k, req, d, g, sup) ==
  [kind |-> "chal", g |-> g, id |-> <<k, req.n, d>>, key |-> kdc[k].key, sup |-> sup]

\* edata: an empty hint, or an optimistic challenge.
SpakeHint(k, req, d) ==
  IF cfg.kgroups = {} THEN NoCh
  ELSE IF cfg.kchal = 0 THEN HintCh ELSE Challenge(k, req, d, cfg.kchal, FALSE)

\* hint_list_with, with the PKINIT extras.
HintList(k, req, d) ==
  LET sp == SpakeHint(k, req, d) IN
  [some |-> TRUE, fast |-> TRUE, info |-> TRUE, sp |-> sp,
   mech |-> IF req.armor # 0 THEN "ec" ELSE "ts",
   pk |-> cfg.kpk, tok |-> IF cfg.kpk /\ req.info THEN [tgt |-> Tgt(k), born |-> now] ELSE NoTok,
   cookie |-> MakeCookie(k, sp)]

\* The MORE_PREAUTH_DATA_REQUIRED list.
MoreList(k, req, ch) ==
  [NoMethod EXCEPT !.some = TRUE, !.sp = ch, !.info = (req.cookie.kind = "none"),
                   !.cookie = MakeCookie(k, ch)]

\* verify_response: the cookie's challenge, answered by the holder of the
\* current key who saw the same transcript.
ResponseOk(k, req) ==
  LET ch == CookieCh(k, req) IN
  /\ ch.kind = "chal" /\ ch.g \in cfg.kgroups
  /\ ch = req.pa.ch
  /\ ch.key = kdc[k].key /\ req.pa.key = kdc[k].key

\* verify_enc_timestamp and verify_encrypted_challenge.
Proves(k, req) == req.pa.key = kdc[k].key
ProvesEc(k, req) == req.armor # 0 /\ Proves(k, req)

\* freshness_valid.
FreshnessValid(k, tok) == tok.tgt \in kdc[k].tgt /\ ~Expired(tok.born)

\* pkinit_verify: a weaker group than the KDC's, then the freshness token:
\* one that is sent must be valid, and one must be sent where it is required.
\* filter_preauth_error makes both refusals PREAUTH_FAILED.
PkVerdict(k, req) ==
  CASE ~cfg.kpk -> "skip"
    [] cfg.kpk /\ req.pa.dh < cfg.kdh -> "dh"
    [] OTHER -> IF IF req.pa.tok = NoTok THEN ~cfg.fresh ELSE FreshnessValid(k, req.pa.tok)
                THEN "ok" ELSE "failed"

\* spake::verify.
SpakeVerdict(k, req) ==
  CASE cfg.kgroups = {} -> "skip"
    [] cfg.kgroups # {} /\ req.pa.resp -> IF ResponseOk(k, req) THEN "ok" ELSE "failed"
    [] OTHER -> IF cfg.cgroups \cap cfg.kgroups # {} THEN "more" ELSE "failed"

\* check_padata on the request's element: "ok", "more", "dh", "failed" or,
\* for a mechanism the KDC does not have, "skip".
VerifyPa(k, req) ==
  CASE req.pa.t = "ts"    -> IF Proves(k, req) THEN "ok" ELSE "failed"
    [] req.pa.t = "ec"    -> IF ProvesEc(k, req) THEN "ok" ELSE "failed"
    [] req.pa.t = "spake" -> SpakeVerdict(k, req)
    [] req.pa.t = "pk"    -> PkVerdict(k, req)
    [] OTHER              -> "skip"

\* build_krb_error: armored once the armor key exists.
Err(k, req, code, m) ==
  [k |-> k, n |-> req.n, code |-> code, m |-> m, arm |-> req.armor # 0,
   key |-> NoKey, ck |-> 0]

\* Mutant: a request without preauthentication data is served.
AsReplyLax(k, req, d) ==
  [k |-> k, n |-> req.n, code |-> "rep", m |-> NoMethod, arm |-> req.armor # 0,
   key |-> [t |-> "lt", v |-> kdc[k].key, id |-> <<>>], ck |-> req.n]

\* The AS-REP: the reply key is PKINIT's, SPAKE's K'[0] or the long-term key.
AsRep(k, req) ==
  [k |-> k, n |-> req.n, code |-> "rep", m |-> NoMethod, arm |-> req.armor # 0,
   key |-> CASE req.pa.t = "pk" /\ VerifyPa(k, req) = "ok" ->
                  [t |-> "pk", v |-> req.n, id |-> <<>>]
             [] req.pa.t = "spake" /\ VerifyPa(k, req) = "ok" ->
                  [t |-> "k0", v |-> req.n, id |-> req.pa.ch.id]
             [] OTHER -> [t |-> "lt", v |-> kdc[k].key, id |-> <<>>],
   ck |-> IF req.info THEN req.n ELSE 0]

\* find_fast: the armor ticket does not decrypt here.
ArmorBad(k, req) == req.armor # 0 /\ (req.armor \notin kdc[k].tgt \/ RealmOf(k) # "A")

\* process_as_req_inner.
AsReply(k, req, d) ==
  LET v == VerifyPa(k, req) IN
  IF ArmorBad(k, req) THEN [Err(k, req, "armor", NoMethod) EXCEPT !.arm = FALSE]
  ELSE IF cfg.home # RealmOf(k) THEN Err(k, req, "wrong_realm", NoMethod)
  ELSE IF CookieExpired(k, req) THEN Err(k, req, "expired", NoMethod)
  ELSE CASE v = "more" ->
              LET g == CHOOSE x \in cfg.cgroups \cap cfg.kgroups : TRUE
              IN Err(k, req, "more", MoreList(k, req, Challenge(k, req, d, g, TRUE)))
         [] v = "failed" -> Err(k, req, "failed", HintList(k, req, d))
         [] v = "dh" -> Err(k, req, "dh", [NoMethod EXCEPT !.some = TRUE])
         [] v = "skip" /\ cfg.preauth -> Err(k, req, "required", HintList(k, req, d))
         [] OTHER -> AsRep(k, req)

\* A KDC of another kind refuses informational padata in a first request.
Reply(k, req, d) ==
  IF cfg.picky /\ req.info /\ req.pa = NoPa /\ ~ArmorBad(k, req)
  THEN Err(k, req, "failed", HintList(k, req, d)) ELSE AsReply(k, req, d)

(***************************************************************************)
(* The client.                                                             *)
(***************************************************************************)
\* LocatedTransport::record.
NoneUsed == [first |-> "none", all |-> {}]
Record(u, k) == [first |-> IF u.first = "none" THEN k ELSE u.first, all |-> u.all \cup {k}]

NewClient(realm, prim, used) ==
  [st |-> "init", realm |-> realm, n |-> 0, prim |-> prim, used |-> used,
   armored |-> FALSE, restarted |-> FALSE, info |-> TRUE, sel |-> "none",
   psent |-> FALSE, failed |-> {}, loops |-> 0, method |-> NoMethod,
   cookie |-> NoCookie, hint |-> FALSE, sup |-> FALSE, k0 |-> NoCh,
   dh |-> cfg.cdh, tok |-> NoTok, steps |-> 0, key |-> NoKey, arm |-> FALSE]

\* prep_req: the armor ticket, when the exchange is armored.
Armor(c) == IF c.armored THEN cfg.armor ELSE 0

\* build_as_req_from: the request the client's state gives.
Request(c, pa) ==
  [n |-> c.n, realm |-> c.realm, armor |-> Armor(c),
   cookie |-> c.cookie, pa |-> pa, info |-> c.info]

\* Mutant: replies to the previous request are still waiting to be read.
WireStale(c, pa) ==
  [on |-> TRUE, req |-> Request(c, pa), replies |-> wire.replies, count |-> 0, udp |-> TRUE]

Wire(c, pa) ==
  [on |-> TRUE, req |-> Request(c, pa), replies |-> {}, count |-> 0, udp |-> TRUE]
Idle(c) == [on |-> FALSE, req |-> Request(c, NoPa), replies |-> {}, count |-> 0, udp |-> TRUE]

GiveUp(c) == cl' = [c EXCEPT !.st = "failed"] /\ wire' = [wire EXCEPT !.on = FALSE]

\* Sending: a step of the driver's loop.
Send(c, pa) ==
  LET s == [c EXCEPT !.st = "await", !.n = @ + 1, !.steps = @ + 1]
  IN cl' = s /\ wire' = Wire(s, pa)

\* Mutant: a restart arms only when asked to.
RestartUnarmed(c, up) ==
  Send([c EXCEPT !.cookie = NoCookie, !.hint = FALSE, !.method = NoMethod,
                 !.sel = "none", !.failed = {}, !.loops = 0, !.psent = FALSE,
                 !.sup = FALSE, !.k0 = NoCh, !.armored = up], NoPa)

\* restart: back to the first request, armored when required or upgrading.
Restart(c, up) ==
  Send([c EXCEPT !.cookie = NoCookie, !.hint = FALSE, !.method = NoMethod,
                 !.sel = "none", !.failed = {}, !.loops = 0, !.psent = FALSE,
                 !.sup = FALSE, !.k0 = NoCh,
                 !.armored = (cfg.fast = "required" \/ up)], NoPa)

\* spake_process: answer the hint or the challenge, or pass.
SpakeAnswer(c, ch) ==
  LET support == [NoPa EXCEPT !.t = "spake"] IN
  CASE cfg.cgroups = {} \/ "spake" \in c.failed -> NoPa
    [] ch.kind = "hint" -> support
    [] ch.kind = "chal" /\ c.k0.kind = "none" /\ ch.g \in cfg.cgroups ->
         [support EXCEPT !.resp = TRUE, !.key = cfg.pw, !.ch = [ch EXCEPT !.sup = c.sup]]
    [] ch.kind = "chal" /\ c.k0.kind = "none" /\ ~c.sup -> support
    [] OTHER -> NoPa

\* pkinit_offered.
PkOffered(c, m) == cfg.cpk /\ m.pk /\ "pk" \notin c.failed

\* select_preauth over the method data, in the KDC's order.
Select(c, m) ==
  LET sp == SpakeAnswer(c, m.sp) IN
  CASE PkOffered(c, m) -> [NoPa EXCEPT !.t = "pk", !.dh = c.dh, !.tok = c.tok]
    [] ~PkOffered(c, m) /\ m.sp.kind # "none" /\ sp # NoPa -> sp
    [] OTHER -> IF m.mech \notin c.failed /\ (m.mech = "ts" \/ (m.mech = "ec" /\ c.armored))
                THEN [NoPa EXCEPT !.t = m.mech, !.key = cfg.pw] ELSE NoPa

\* send_preauth_request.
SendPreauth(c0) ==
  LET m == c0.method
      c == [c0 EXCEPT !.cookie = m.cookie, !.tok = IF m.tok # NoTok THEN m.tok ELSE @,
                      !.hint = @ \/ m.info]
      pa == Select(c, m)
      spfail == /\ ~PkOffered(c, m) /\ m.sp.kind # "none" /\ cfg.cgroups # {}
                /\ SpakeAnswer(c, m.sp) = NoPa
      d == [c EXCEPT !.sel = pa.t, !.psent = TRUE,
                     !.sup = @ \/ (pa.t = "spake" /\ ~pa.resp),
                     !.k0 = IF pa.resp THEN pa.ch ELSE @,
                     !.failed = IF spfail THEN @ \cup {"spake"} ELSE @]
  IN IF ~m.some \/ ~(c.hint \/ PkOffered(c, m)) \/ pa = NoPa THEN GiveUp(c)
     ELSE Send(d, pa)

\* pkinit_error: once more with the group the KDC names.
PkRetry(c) ==
  IF cfg.kdh >= c.dh /\ c.loops < MaxPreauthLoops
  THEN SendPreauth([c EXCEPT !.dh = cfg.kdh, !.loops = @ + 1])
  ELSE GiveUp(c)

\* FastState::process_error: the effective error, whether to follow up, and
\* the padata it brings.
Unwrapped(r) == ~cl.armored \/ r.arm
Retry(r) == r.m.some /\ Unwrapped(r) /\ (cl.armored => r.m.cookie.kind # "none")
Padata(r) == IF Unwrapped(r) THEN r.m ELSE NoMethod

\* upgrade_to_fast_p.
Upgrade(r) == ~cl.armored /\ cfg.fast # "off" /\ r.m.fast

\* The branch of process_kdc_reply an error takes, in the code's order.
Branch(r) ==
  CASE r.code = "rep" -> "rep"
    [] r.code = "toobig" -> "toobig"
    [] ~cl.restarted /\ Upgrade(r) -> "upgrade"
    [] cl.sel = "pk" /\ r.code = "dh" -> "pkinit"
    [] cfg.identify /\ r.code = "required" -> "identified"
    [] r.code \in {"required", "more"} /\ Retry(r) -> "continue"
    [] r.code = "failed" /\ ~cl.psent /\ ~cl.restarted -> "early"
    [] r.code = "failed" /\ Retry(r) -> "next"
    [] r.code = "expired" -> "expired"
    [] r.code = "wrong_realm" -> "referral"
    [] Retry(r) /\ cl.sel # "none" -> "again"
    [] OTHER -> "fail"

\* The reply key the client derives.
ClientKey ==
  CASE wire.req.pa.t = "pk" -> [t |-> "pk", v |-> cl.n, id |-> <<>>]
    [] cl.sel = "spake" /\ cl.k0.kind # "none" -> [t |-> "k0", v |-> cl.n, id |-> cl.k0.id]
    [] OTHER -> [t |-> "lt", v |-> cfg.pw, id |-> <<>>]

\* process_response: an armored request is answered armored.
RepFast(r) == cl.armored => r.arm

\* process_as_rep: the FAST response, the decryption, the nonce and the
\* checksum over the last request.
RepOk(r) ==
  /\ RepFast(r)
  /\ r.key = ClientKey
  /\ r.n = cl.n
  /\ r.ck \in {0, cl.n}
-----------------------------------------------------------------------------
Init ==
  /\ cfg \in Configs
  /\ kdc \in {[k \in Kdcs |-> IF k = "r" THEN [key |-> rk, tgt |-> {1}] ELSE [key |-> cfg.pk0, tgt |-> {1}]] :
                rk \in {1, cfg.pk0}}
  /\ now = 0
  /\ cl = NewClient("A", FALSE, NoneUsed)
  /\ wire = Idle(cl)
  /\ ok = (cfg.pw = cfg.pk0)
  /\ grant = {}

\* The password and armor stay usable at the primaries of the client's home.
Good(kd) == cfg.pw = kd["p"].key /\ (cfg.fast # "off" => cfg.armor \in kd["p"].tgt)

\* AsState::Initial.
Start ==
  /\ cl.st = "init"
  /\ Send([cl EXCEPT !.armored = (cfg.fast = "required")], NoPa)
  /\ UNCHANGED <<cfg, kdc, now, ok, grant>>

\* locate_kdc: the KDCs the transport may send the request to. Realm B
\* configures no primaries.
Targets == {k \in Kdcs : RealmOf(k) = wire.req.realm /\ (cl.prim => k = "p")}

\* RealmUnknown: a retry against primaries that is referred to a realm
\* without any ends with the first exchange's error.
LocateFails ==
  /\ wire.on /\ Targets = {}
  /\ GiveUp(cl)
  /\ UNCHANGED <<cfg, kdc, now, ok, grant>>

\* A KDC handles a copy of the request; over UDP a long reply becomes
\* KRB_ERR_RESPONSE_TOO_BIG. LocatedTransport records who answered.
Handle(k) ==
  /\ wire.on /\ wire.count < MaxHandle /\ k \in Targets
  /\ LET r == Reply(k, wire.req, wire.count)
         big == wire.udp /\ cfg.big /\ r.code = "rep"
     IN /\ wire' = [wire EXCEPT !.count = @ + 1,
                                !.replies = @ \cup {IF big THEN [Err(k, wire.req, "toobig", NoMethod) EXCEPT !.arm = FALSE] ELSE r}]
        /\ grant' = IF r.code # "rep" THEN grant
                    ELSE grant \cup {[n |-> r.n, k |-> k, arm |-> r.arm, key |-> kdc[k].key,
                                      proved |-> VerifyPa(k, wire.req) = "ok"]}
  /\ UNCHANGED <<cfg, kdc, now, cl, ok>>

\* LocatedTransport::send_recv: repeat over TCP only; whoever asked for it
\* has answered.
TcpRetry ==
  /\ wire.on /\ cfg.tcp
  /\ \E r \in wire.replies :
       r.code = "toobig" /\ cl' = [cl EXCEPT !.used = Record(@, r.k)]
  /\ wire' = [wire EXCEPT !.udp = FALSE, !.replies = {}, !.count = 0]
  /\ UNCHANGED <<cfg, kdc, now, ok, grant>>

\* No KDC answers within the passes.
Unreach ==
  /\ wire.on /\ wire.replies = {}
  /\ cl' = [cl EXCEPT !.st = "unreach"]
  /\ wire' = [wire EXCEPT !.on = FALSE]
  /\ UNCHANGED <<cfg, kdc, now, ok, grant>>

\* process_kdc_reply on the reply the transport returned; the driver's loop
\* is used up before the reply to its last request.
Receive(r) ==
  /\ wire.on /\ r \in wire.replies
  /\ r.code = "toobig" => ~cfg.tcp
  /\ LET c == [cl EXCEPT !.used = Record(@, r.k)]
         m == [c EXCEPT !.method = IF Padata(r).some THEN Padata(r) ELSE @]
     IN CASE cl.steps >= MaxExchangeSteps -> GiveUp(c)
          [] Branch(r) = "rep" ->
               IF cfg.identify \/ RepOk(r)
               THEN /\ cl' = [c EXCEPT !.st = IF cfg.identify THEN "identified" ELSE "done",
                                       !.key = r.key, !.arm = r.arm]
                    /\ wire' = [wire EXCEPT !.on = FALSE]
               ELSE GiveUp(c)
          [] Branch(r) = "toobig" -> GiveUp(c)
          [] Branch(r) = "upgrade" -> Restart([c EXCEPT !.restarted = TRUE], TRUE)
          [] Branch(r) = "pkinit" ->
               PkRetry(c)
          [] Branch(r) = "identified" ->
               cl' = [c EXCEPT !.st = "identified"] /\ wire' = [wire EXCEPT !.on = FALSE]
          [] Branch(r) = "continue" ->
               IF c.loops >= MaxPreauthLoops THEN GiveUp(c)
               ELSE SendPreauth([m EXCEPT !.loops = @ + 1])
          [] Branch(r) = "early" ->
               Restart([c EXCEPT !.info = FALSE, !.restarted = TRUE], FALSE)
          [] Branch(r) = "next" ->
               SendPreauth([m EXCEPT !.failed = @ \cup ({m.sel} \ {"none"}),
                                     !.sel = "none", !.psent = FALSE])
          [] Branch(r) = "expired" -> Restart([c EXCEPT !.restarted = FALSE], FALSE)
          [] Branch(r) = "referral" ->
               Restart([c EXCEPT !.restarted = FALSE, !.realm = cfg.home], FALSE)
          [] Branch(r) = "again" -> SendPreauth(c)
          [] OTHER -> GiveUp(c)
  /\ UNCHANGED <<cfg, kdc, now, ok, grant>>

\* Mutant: only the first KDC that answered is looked at.
AnyReplicasFirst(used) == used.first = "r"

\* any_replicas: the recorded KDCs against the primaries of the first one's
\* realm (realm B configures none).
AnyReplicas(used) == used.first \in {"p", "r"} /\ \E k \in used.all : k # "p"

\* Mutant: the retry is made however the exchange was made.
MayRetryAlways == cl.st = "failed" /\ AnyReplicas(cl.used)

\* with_primary_fallback: a failure, not yet against primaries, after an
\* exchange with a replica.
MayRetry == cl.st = "failed" /\ ~cl.prim /\ AnyReplicas(cl.used)

\* The repetition, against primaries only; the first exchange is dropped.
PrimaryRetry ==
  /\ MayRetry
  /\ cl' = NewClient("A", TRUE, cl.used)
  /\ wire' = [wire EXCEPT !.on = FALSE, !.replies = {}]
  /\ grant' = {}
  /\ UNCHANGED <<cfg, kdc, now, ok>>

Tick == now < MaxTime /\ now' = now + 1 /\ UNCHANGED <<cfg, kdc, cl, wire, ok, grant>>

SetKdc(f) == kdc' = f /\ ok' = (ok /\ Good(f)) /\ UNCHANGED <<cfg, now, cl, wire, grant>>

\* An administrator changes the password at the primary (and in realm B).
ChangePassword ==
  /\ kdc["p"].key < MaxKey
  /\ SetKdc([k \in Kdcs |-> IF k = "r" THEN kdc[k] ELSE [kdc[k] EXCEPT !.key = @ + 1]])

\* The TGT key is changed, keeping the old versions or not.
Rekey(keep) ==
  /\ Tgt("p") < MaxTgt
  /\ SetKdc([k \in Kdcs |-> IF k = "r" THEN kdc[k]
               ELSE [kdc[k] EXCEPT !.tgt = IF keep THEN @ \cup {Tgt("p") + 1} ELSE {Tgt("p") + 1}]])

\* The replica catches up.
Propagate ==
  /\ kdc["r"] # kdc["p"]
  /\ SetKdc([kdc EXCEPT !["r"] = kdc["p"]])

Ended == cl.st \in {"done", "identified", "unreach"} \/ (cl.st = "failed" /\ ~MayRetry)

\* The KDCs' state matters only while a KDC may still handle a request.
Watched == wire.on /\ wire.count < MaxHandle

Changes == now + (kdc["p"].key - cfg.pk0) + (Tgt("p") - 1)

Next ==
  \/ Start \/ LocateFails \/ TcpRetry \/ Unreach \/ PrimaryRetry
  \/ \E k \in Kdcs : Handle(k)
  \/ \E r \in wire.replies : Receive(r)
  \/ Watched /\ Propagate
  \/ Watched /\ Changes < MaxChange /\ (Tick \/ ChangePassword \/ \E keep \in BOOLEAN : Rekey(keep))
  \/ Ended /\ UNCHANGED vars

Fairness ==
  WF_vars(Start \/ LocateFails \/ TcpRetry \/ PrimaryRetry \/ (\E k \in Kdcs : Handle(k)) \/ (\E r \in wire.replies : Receive(r)))

Spec == Init /\ [][Next]_vars /\ Fairness
-----------------------------------------------------------------------------
TypeOK ==
  /\ cfg \in Configs /\ now \in 0..MaxTime /\ ok \in BOOLEAN
  /\ kdc \in [Kdcs -> [key : 0..MaxKey, tgt : SUBSET (1..MaxTgt) \ {{}}]]
  /\ cl.st \in {"init", "await", "done", "identified", "failed", "unreach"}
  /\ cl.sel \in {"none", "ts", "ec", "spake", "pk"} /\ cl.failed \subseteq {"ts", "ec", "spake", "pk"}
  /\ cl.loops \in 0..MaxPreauthLoops /\ cl.steps \in 0..MaxExchangeSteps
  /\ wire.on <=> cl.st = "await"
  /\ wire.on => wire.req.n = cl.n /\ \A r \in wire.replies : r.n = cl.n

\* A client that has accepted a ticket asked for exactly this one: some KDC
\* granted it for the last request, and where preauthentication is required
\* that KDC had checked a proof first (process_as_rep against
\* process_as_req_inner, with stale cookies, restarts and duplicates between).
Authentic ==
  cl.st = "done" =>
    \E g \in grant : /\ g.n = cl.n /\ g.arm = cl.arm
                     /\ cfg.preauth => g.proved
                     /\ cl.key.t = "lt" => g.key = cfg.pw

\* FAST is never lost on the way: a client that requires it sends nothing
\* unarmored and accepts nothing unarmored through restarts, referrals and
\* the primary retry; one that takes it when offered ends armored whenever
\* the KDC asked for preauthentication (restart, FastState::process_error).
FastKept ==
  /\ cfg.fast = "required" /\ wire.on => wire.req.armor # 0
  /\ cl.st = "done" /\ (cfg.fast = "required" \/ (cfg.fast = "opp" /\ cfg.preauth)) => cl.arm

\* What makes an exchange fail although password and armor are good.
Cause ==
  \/ cfg.home = "B" /\ cfg.fast # "off"          \* armor from another realm
  \/ cfg.big /\ ~cfg.tcp                         \* no transport for the reply

\* A user whose password stayed valid at the primary is not refused: stale
\* replicas, expired or unreadable cookies, a lost fresh token, rejected
\* mechanisms and key roll-over all end in a ticket, by a restart, the next
\* mechanism or the retry against primaries.
NotRefused == cl.st = "failed" /\ Ended /\ ok => Cause

\* The exchange ends: restarts, fallbacks and the retry do not feed on each other.
Ends == <>Ended

\* A ticket is accepted only after the proof, the armor and the reply key
\* this exchange called for, through restarts, referrals and the retry.
Protected == Authentic /\ FastKept

=============================================================================
