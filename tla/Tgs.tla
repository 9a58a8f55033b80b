--------------------------------- MODULE Tgs ---------------------------------
(***************************************************************************)
(* The ticket-granting service (src/kdc/tgs_req.rs, s4u.rs, policy.rs,     *)
(* authdata.rs and src/protocol/transit.rs) of several realms: the chains  *)
(* of tickets that principals build out of each other by ordinary          *)
(* requests, referrals, renewals, forwarding, S4U2Self and S4U2Proxy,      *)
(* while administrators change principals and time passes.                 *)
(*                                                                         *)
(* A request is handled in one step: the handler keeps no state between    *)
(* requests. Encryption is possession: a header ticket is used by the      *)
(* party that holds its session key, an evidence ticket by anyone, and     *)
(* both are found in the database of the KDC asked. PACs are present (a    *)
(* realm without them refuses S4U). A realm is the sequence of the labels  *)
(* of its name. A transited list is the set of realms it denotes: the      *)
(* compressed encoding that carries it is left out, and so are enctypes,   *)
(* addresses, anonymity, clock skew and authentication indicators.         *)
(***************************************************************************)
EXTENDS Naturals, Sequences, FiniteSets

CONSTANTS Realms,   \* the realms, each with a KDC of its own
          Configs   \* trust, [capaths], principals, policies and habits considered,
                    \* each with its bounds: maxTime (clock), maxTix (tickets)
                    \* and maxAdm (administrative changes)

NoRealm == << >>
Principal == [n : STRING, r : Realms]

\* The databases hold ordinary principals (the krbtgt ones are in trust),
\* the forwarded tickets go to some of them, and lives are whole numbers.
ASSUME RealmNames == Realms \subseteq Seq(STRING) \ {NoRealm}
ASSUME TgsConfigs ==
  \A c \in Configs :
    /\ {c.maxTime, c.maxTix, c.maxAdm, c.life, c.rlife} \subseteq Nat
    /\ DOMAIN c.pol \subseteq {p \in Principal : p.n \notin {"krbtgt", "none"}}
    /\ c.fronts \subseteq DOMAIN c.pol /\ c.names \subseteq Principal

MinOf(a, b) == IF a <= b THEN a ELSE b

(***************************************************************************)
(* The path between two realms.                                            *)
(***************************************************************************)
Suffix(r, k) == SubSeq(r, Len(r) - k + 1, Len(r))

\* comtail, adjtail: how many labels two names end in together.
CommonTail(c, s) ==
  LET same == {k \in 0 .. MinOf(Len(c), Len(s)) : Suffix(c, k) = Suffix(s, k)}
  IN CHOOSE k \in same : \A j \in same : j <= k

\* hier_tree, tweens: up from the client's realm to the common end, or to its
\* last label, and down to the server's.
HierTree(c, s) ==
  LET k == CommonTail(c, s)
      top == IF k = 0 THEN 1 ELSE k
  IN [i \in 1 .. Len(c) - top + 1 |-> Suffix(c, Len(c) - i + 1)]
     \o [i \in 1 .. Len(s) - k |-> Suffix(s, k + i)]

\* walk_realm_tree, capath_tree: the [capaths] path where there is one.
WalkRealmTree(cap, c, s) ==
  IF <<c, s>> \in DOMAIN cap THEN <<c>> \o cap[<<c, s>>] \o <<s>> ELSE HierTree(c, s)

\* A configuration keeps what walk_realm_tree gives for each pair of realms.
Walks(cap) == [p \in Realms \X Realms |-> WalkRealmTree(cap, p[1], p[2])]
ASSUME TgsPaths == \A c \in Configs : c.walk = Walks(c.cap)

VARIABLES
  cfg,   \* settings of this run
  now,   \* clock of every KDC
  pol,   \* per principal: status and delegation lists
  tix,   \* tickets issued, with ghost fields root, via and evi
  met,   \* ghost: <<client, service>> pairs a client came to itself or by delegation
  trans, \* ghost: <<client, service>> pairs a service could turn into evidence
  lists, \* ghost: <<service, resource>> pairs a delegation list ever held
  adm    \* administrative changes so far

vars == <<cfg, now, pol, tix, met, trans, lists, adm>>

Krbtgt(r) == [n |-> "krbtgt", r |-> r]
None == [n |-> "none", r |-> NoRealm]
IsTgs(s) == s.n = "krbtgt"

(***************************************************************************)
(* The database of a realm.                                                *)
(***************************************************************************)
Known(p) == p \in DOMAIN pol /\ pol[p].st # "gone"
On(p) == Known(p) /\ pol[p].st = "on"

\* krbtgt/X is a principal of realm r for r itself and each realm r trusts.
InDb(r, s) ==
  IF IsTgs(s) THEN s.r = r \/ <<r, s.r>> \in cfg.trust
  ELSE s.r = r /\ Known(s)

Attr(p, a) == p \in DOMAIN pol /\ p \in cfg[a]

\* find_referral_tgs: the realm [domain_realm] gives the host, when the
\* request may be referred.
ReferralRealm(r, s) ==
  IF cfg.canon /\ cfg.hosts[r][s.n] # r THEN cfg.hosts[r][s.n] ELSE NoRealm

\* find_alternate_tgs: the realm of the path nearest the target that shares
\* a key with r.
AlternateTgs(r, target) ==
  LET hops == cfg.walk[<<r, target>>]
      ok == {i \in 2..Len(hops) : <<r, hops[i]>> \in cfg.trust}
  IN IF ok = {} THEN None ELSE Krbtgt(hops[CHOOSE i \in ok : \A j \in ok : j <= i])

\* Mutant: the name is looked up whatever its realm.
SearchSprincAny(req) == IF Known(req.s) \/ InDb(req.at, req.s) THEN req.s ELSE None

\* search_sprinc: the entry the ticket is for, or None.
SearchSprinc(req) ==
  LET r == req.at
      s == [req.s EXCEPT !.r = IF IsTgs(req.s) THEN @ ELSE r]
      ref == IF IsTgs(s) THEN s.r ELSE ReferralRealm(r, s)
  IN CASE InDb(r, s) -> s
       [] ~InDb(r, s) /\ (req.kind \in {"renew", "forward", "u2u"} \/ ref = NoRealm) -> None
       [] OTHER -> IF InDb(r, Krbtgt(ref)) THEN Krbtgt(ref) ELSE AlternateTgs(r, ref)

\* Whether a referral or alternate TGT is issued instead of the ticket asked.
IsReferral(req) == IsTgs(SearchSprinc(req)) /\ SearchSprinc(req) # req.s

(***************************************************************************)
(* The request: header ticket, realm asked, name asked, kind, and for S4U  *)
(* the user or the evidence ticket.                                        *)
(***************************************************************************)
CrossRealm(req) == req.h.iss # req.at

\* The client named by S4U2Self or found behind the evidence ticket.
StktPacClient(req) == IF CrossRealm(req) THEN req.e.psub ELSE req.e.c
SubjectTkt(req) == IF req.kind = "proxy" THEN req.e ELSE req.h
SubjectClient(req) ==
  CASE req.kind = "self" -> req.user
    [] req.kind = "proxy" -> StktPacClient(req)
    [] OTHER -> req.h.c

\* The client of the new ticket.
TktClient(req) ==
  IF req.kind \in {"self", "proxy"} /\ ~IsReferral(req) THEN SubjectClient(req) ELSE req.h.c

\* The client entry whose attributes limit the ticket, or None.
ClientEntry(req) ==
  LET c == IF req.kind = "self" THEN req.user ELSE SubjectTkt(req).c
  IN IF c.r = req.at /\ Known(c) THEN c ELSE None

\* kdc_process_tgs_req: the header ticket's server is a usable principal
\* here, the holder made the authenticator and the ticket is in its time.
Readable(r, t) ==
  IF t.srv = Krbtgt(r) THEN t.iss = r \/ <<t.iss, r>> \in cfg.trust
  ELSE /\ t.iss = r /\ InDb(r, t.srv)
       /\ ~IsTgs(t.srv) => On(t.srv) /\ ~Attr(t.srv, "nosvr")
HeaderOk(req) == Readable(req.at, req.h) /\ req.h.start <= now /\ now <= req.h.end

\* decrypt_2ndtkt: the second ticket's times are not looked at.
SecondTktOk(req) == Readable(req.at, req.e)

\* check_tgs_opts, check_tgs_times and the header server rules of
\* check_tgs_constraints.
ConstraintsOk(req) ==
  /\ req.kind = "forward" => req.h.fwd
  /\ req.kind = "renew" => req.h.ren /\ now <= req.h.till
  /\ IF req.kind \in {"renew", "forward"}
     THEN req.h.srv = req.s /\ req.h.iss = req.at
     ELSE req.h.srv = Krbtgt(req.at)

\* check_tgs_s4u2self.
S4u2SelfOk(req) ==
  LET local == req.user.r = req.at IN
  /\ local => Known(req.user)
  /\ IsReferral(req) => CrossRealm(req)
  /\ ~IsReferral(req) => SearchSprinc(req) = req.h.c
  /\ ~(local /\ CrossRealm(req) /\ ~IsReferral(req))
  /\ local \/ CrossRealm(req)
  /\ IF local THEN req.h.psub = req.h.c /\ ~req.h.pr /\ On(req.user)
     ELSE req.h.psub = req.user /\ req.h.pr

\* check_tgs_lineage: no local user's ticket comes back from another realm.
LineageOk(req) == ~(CrossRealm(req) /\ req.h.c.r = req.at)

\* check_tgs_u2u: the second ticket is a TGT of this realm for the server.
U2uOk(req) ==
  /\ SecondTktOk(req)
  /\ req.e.srv = Krbtgt(req.at) /\ req.e.iss = req.at
  /\ SearchSprinc(req) = req.e.c

\* verify_deleg_pac: a realm-qualified subject, this target, and the
\* ticket's client as the last service of the delegation.
DelegPacOk(e, s) == e.pr /\ e.target = s.n /\ e.by # <<>> /\ e.by[Len(e.by)] = e.c

\* Mutant: evidence need not be forwardable.
S4u2ProxyOkAny(req) ==
  /\ SecondTktOk(req) /\ ~IsTgs(req.s)
  /\ req.h.psub = req.h.c /\ ~req.h.pr
  /\ ~CrossRealm(req) /\ req.e.srv = req.h.c /\ req.e.psub = req.e.c /\ ~req.e.pr

\* check_tgs_s4u2proxy.
S4u2ProxyOk(req) ==
  /\ SecondTktOk(req)
  /\ req.e.fwd
  /\ ~IsTgs(req.s)
  /\ req.h.psub = req.h.c /\ ~req.h.pr
  /\ IF CrossRealm(req)
     THEN /\ req.e.pr
          /\ ~IsReferral(req) /\ req.e.srv = Krbtgt(req.at) /\ req.e.iss # req.at
          /\ req.e.c = req.h.c
          /\ DelegPacOk(req.e, req.s)
     ELSE req.e.srv = req.h.c /\ req.e.psub = req.e.c /\ ~req.e.pr

\* check_s4u2proxy_policy: the resource's list for a client that says it
\* can use it, else the impersonator's list in its own realm.
ProxyPolicyOk(req) ==
  LET res == SearchSprinc(req) IN
  IF IsReferral(req) THEN cfg.rbcd
  ELSE \/ cfg.rbcd /\ req.h.c \in pol[res].from
       \/ ~CrossRealm(req) /\ res \in pol[req.e.srv].to

\* check_tgs_svc_policy.
SvcPolicyOk(req) ==
  LET s == SearchSprinc(req) IN
  /\ ~IsTgs(s) => On(s)
  /\ ~(cfg.ren = "yes" /\ Attr(s, "norenew"))
  /\ Attr(s, "nosvr") => req.kind = "u2u"

\* Mutant: the subject of a delegation is not looked at again.
RecheckOkHeader(req) == cfg.recheck => (req.h.c.r = req.at => On(req.h.c))

\* The re-checks that MIT does not make: the header ticket's local client,
\* and the local subject of a delegation.
RecheckOk(req) ==
  cfg.recheck =>
    /\ req.h.c.r = req.at => On(req.h.c)
    /\ req.kind = "proxy" /\ SubjectClient(req).r = req.at => On(SubjectClient(req))

(***************************************************************************)
(* The ticket.                                                             *)
(***************************************************************************)
\* s4u2self_forwardable.
S4u2SelfForwardable(s) == Attr(s, "t2a") \/ pol[s].to = {}

\* Mutant: the client's attribute is not applied to S4U2Self.
ForwardableLax(req) ==
  LET s == SearchSprinc(req) IN
  /\ req.h.fwd
  /\ req.kind # "self" => ~Attr(ClientEntry(req), "nofwd")
  /\ ~Attr(s, "nofwd")
  /\ req.kind = "self" /\ ~IsReferral(req) => S4u2SelfForwardable(s)

\* get_ticket_flags, FORWARDABLE.
Forwardable(req) ==
  LET s == SearchSprinc(req) IN
  IF req.kind = "renew" THEN req.h.fwd
  ELSE /\ req.h.fwd
       /\ ~Attr(ClientEntry(req), "nofwd") /\ ~Attr(s, "nofwd")
       /\ req.kind = "self" /\ ~IsReferral(req) => S4u2SelfForwardable(s)

\* Mutant: a renewal starts a full life.
EndTimeLong(req) == IF req.kind = "renew" THEN now + cfg.life ELSE MinOf(req.h.end, now + cfg.life)

\* get_ticket_endtime, or the renewal's: the same life again, up to renew-till.
EndTime(req) ==
  IF req.kind = "renew" THEN MinOf(req.h.till, now + (req.h.end - req.h.start))
  ELSE MinOf(req.h.end, now + cfg.life)

\* get_ticket_renewtime: 0 when the ticket is not renewable. h is the header
\* ticket's renewability, or the AS exchange's absence of one.
RenewTime(h, c, s, end) ==
  LET r == MinOf(h.till, now + cfg.rlife) IN
  IF Attr(s, "norenew") \/ Attr(c, "norenew") \/ ~h.ren \/ cfg.ren = "no" THEN 0
  ELSE IF cfg.ren = "ok" /\ r <= end THEN 0 ELSE r

\* Mutant: this realm is added instead of the one the header came from.
TransitedOwn(req) ==
  LET c == TktClient(req) IN
  IF ~CrossRealm(req) \/ req.h.iss = c.r THEN req.h.tr
  ELSE req.h.tr \cup ({req.at} \ {c.r, req.at})

\* add_to_transited with the header ticket's issuer, unless the request is
\* local or the issuer is the client's own realm.
Transited(req) ==
  LET c == TktClient(req) IN
  IF ~CrossRealm(req) \/ req.h.iss = c.r THEN req.h.tr
  ELSE req.h.tr \cup ({req.h.iss} \ {c.r, req.at})

\* Mutant: an unknown path passes.
TransitCheckedLax(req) == ~cfg.notc

\* check_transited_list: every realm is on the path from the subject.
PathRealms(r, s) ==
  LET hops == cfg.walk[<<r, s>>] IN {hops[i] : i \in 1 .. Len(hops) - 1}
TransitChecked(req) ==
  LET tr == Transited(req)
      cr == SubjectTkt(req).c.r IN
  \/ req.kind = "renew" /\ req.h.chk
  \/ /\ ~cfg.notc
     /\ tr = {} \/ (cr # req.at /\ tr \subseteq PathRealms(cr, req.at))

\* issue_tgs_authdata: the PAC's client and its delegation information.
PacOf(req) ==
  CASE req.kind = "self" /\ IsReferral(req) ->
         [psub |-> req.user, pr |-> TRUE, target |-> req.h.target, by |-> req.h.by]
    [] req.kind = "self" /\ ~IsReferral(req) ->
         [psub |-> TktClient(req), pr |-> FALSE, target |-> req.h.target, by |-> req.h.by]
    [] req.kind = "proxy" ->
         [psub |-> IF IsReferral(req) THEN req.e.c ELSE TktClient(req), pr |-> IsReferral(req),
          target |-> IF CrossRealm(req) THEN req.e.target ELSE req.s.n,
          by |-> IF CrossRealm(req) THEN req.e.by ELSE Append(req.e.by, req.e.srv)]
    [] OTHER -> [psub |-> req.h.psub, pr |-> req.h.pr, target |-> req.h.target, by |-> req.h.by]

\* check_normal_tgs_pac: an ordinary request's PAC is its client's own.
NormalPacOk(req) == req.h.psub = req.h.c /\ ~req.h.pr

\* check_tgs_constraints and check_tgs_policy.
Accepted(req) ==
  /\ HeaderOk(req)
  /\ SearchSprinc(req) # None
  /\ ConstraintsOk(req)
  /\ IF req.kind = "self" THEN S4u2SelfOk(req) ELSE LineageOk(req)
  /\ req.kind = "u2u" => U2uOk(req)
  /\ req.kind = "proxy" => S4u2ProxyOk(req)
  /\ req.kind \notin {"self", "proxy"} => NormalPacOk(req)
  /\ SvcPolicyOk(req)
  /\ req.kind = "proxy" => ProxyPolicyOk(req)
  /\ RecheckOk(req)
  /\ cfg.reject => TransitChecked(req)

\* tgs_issue_ticket. A forwarded TGT goes to the service it was asked for.
Issued(req) ==
  LET s == SearchSprinc(req)
      end == EndTime(req)
      till == RenewTime(req.h, ClientEntry(req), s, end)
      pac == PacOf(req)
  IN [iss |-> req.at, srv |-> s, c |-> TktClient(req),
      own |-> IF req.kind = "forward" THEN req.user ELSE req.h.own,
      tr |-> Transited(req), chk |-> TransitChecked(req),
      fwd |-> Forwardable(req), fd |-> req.h.fd \/ req.kind = "forward",
      ren |-> till # 0, start |-> now, end |-> end, till |-> till,
      psub |-> pac.psub, pr |-> pac.pr, target |-> pac.target, by |-> pac.by,
      root |-> req.h.root, via |-> req.h.via \cup {req.at},
      evi |-> req.h.evi \cup (IF req.kind = "proxy" THEN req.e.via \cup req.e.evi ELSE {})]

(***************************************************************************)
(* Requests the holder of a ticket can make.                               *)
(***************************************************************************)
Req(h, at, s, kind, user, e) ==
  [h |-> h, at |-> at, s |-> s, kind |-> kind, user |-> user, e |-> e]

\* A TGT is taken to its realm; any other ticket to its issuer, to be renewed.
Requests(h) ==
  LET at == IF IsTgs(h.srv) THEN h.srv.r ELSE h.iss
      names == cfg.names \cup {Krbtgt(r) : r \in Realms}
      Ask(kinds, x) == IF x \in cfg.kinds THEN kinds ELSE {}
  IN Ask({Req(h, at, s, "normal", None, h) : s \in names}, "normal")
     \cup Ask({Req(h, h.iss, h.srv, "renew", None, h)}, "renew")
     \cup Ask({Req(h, h.iss, h.srv, "forward", f, h) : f \in cfg.fronts}, "forward")
     \cup Ask({Req(h, at, h.c, "self", u, h) : u \in cfg.users}, "self")
     \cup Ask({Req(h, at, s, "proxy", None, e) : s \in cfg.names, e \in tix}, "proxy")
     \cup Ask({Req(h, at, s, "u2u", None, e) : s \in cfg.names, e \in tix}, "u2u")

\* process_tgs_req.
Serve(h, req) ==
  /\ Accepted(req)
  /\ Cardinality(tix) < cfg.maxTix
  /\ tix' = tix \cup {Issued(req)}
  /\ met' = IF req.kind \in {"self", "renew"} \/ IsTgs(Issued(req).srv) THEN met
            ELSE met \cup {<<TktClient(req), Issued(req).srv>>}
  /\ trans' = IF req.kind = "self" /\ ~IsReferral(req) /\ S4u2SelfForwardable(Issued(req).srv)
              THEN trans \cup {<<TktClient(req), Issued(req).srv>>} ELSE trans
  /\ UNCHANGED <<cfg, now, pol, lists, adm>>

ProcessTgsReq == \E h \in tix : \E req \in Requests(h) : Serve(h, req)

\* The ticket end of process_as_req: a client without a TGT gets one.
AsTicket(c) ==
  LET s == Krbtgt(c.r)
      end == now + cfg.life
      till == RenewTime([ren |-> TRUE, till |-> now + cfg.rlife], c, s, end)
  IN [iss |-> c.r, srv |-> s, c |-> c, own |-> c, tr |-> {}, chk |-> FALSE,
      fwd |-> ~Attr(c, "nofwd"), fd |-> FALSE, ren |-> till # 0,
      start |-> now, end |-> end, till |-> till,
      psub |-> c, pr |-> FALSE, target |-> "none", by |-> <<>>,
      root |-> [end |-> end, till |-> till], via |-> {c.r}, evi |-> {}]

ProcessAsReq(c) ==
  /\ On(c) /\ Cardinality(tix) < cfg.maxTix
  /\ ~\E t \in tix : t.c = c /\ t.own = c
  /\ tix' = tix \cup {AsTicket(c)}
  /\ UNCHANGED <<cfg, now, pol, met, trans, lists, adm>>

(***************************************************************************)
(* The administrator, and time.                                            *)
(***************************************************************************)
Listed(p) ==
  {x \in (DOMAIN p) \X (DOMAIN p) : x[2] \in p[x[1]].to \/ x[1] \in p[x[2]].from}

Admin(p) ==
  /\ adm < cfg.maxAdm /\ p # pol
  /\ pol' = p /\ adm' = adm + 1
  /\ lists' = lists \cup Listed(p)
  /\ UNCHANGED <<cfg, now, tix, met, trans>>

Modify(a) == \E st \in {"on", "off"} : pol[a].st # "gone" /\ Admin([pol EXCEPT ![a].st = st])
Remove(a) == Admin([pol EXCEPT ![a].st = "gone"])
SetTo(a, b) == Admin([pol EXCEPT ![a].to = IF b \in @ THEN @ \ {b} ELSE @ \cup {b}])
SetFrom(a, b) == Admin([pol EXCEPT ![b].from = IF a \in @ THEN @ \ {a} ELSE @ \cup {a}])

Tick == /\ now < cfg.maxTime /\ now' = now + 1
        /\ UNCHANGED <<cfg, pol, tix, met, trans, lists, adm>>

Init ==
  /\ cfg \in Configs
  /\ now = 0 /\ pol = cfg.pol /\ tix = {} /\ met = {} /\ trans = {}
  /\ lists = Listed(cfg.pol) /\ adm = 0

Next ==
  \/ ProcessTgsReq
  \/ \E c \in cfg.logins : ProcessAsReq(c)
  \/ \E a \in cfg.edited : Modify(a) \/ Remove(a)
  \/ \E p \in cfg.pairs : SetTo(p[1], p[2]) \/ SetFrom(p[1], p[2])
  \/ Tick

Spec == Init /\ [][Next]_vars

(***************************************************************************)
(* Properties.                                                             *)
(***************************************************************************)
\* Every ticket names a client and a server, is issued by the server's
\* realm unless it is a TGT, and is renewable exactly when it has a
\* renew-till (src/kdc/tgs_req.rs, the EncTicketPart it builds).
TypeOK ==
  /\ cfg \in Configs /\ now \in 0..cfg.maxTime
  /\ \A t \in tix :
       /\ t.iss \in Realms /\ t.tr \subseteq Realms /\ t.via \cup t.evi \subseteq Realms
       /\ t.c \in DOMAIN pol /\ t.own \in DOMAIN pol
       /\ IsTgs(t.srv) \/ t.srv.r = t.iss
       /\ t.ren = (t.till # 0)

\* However a ticket was derived, renewed or delegated, it ends within what
\* the AS exchange at the head of its chain allowed: by its end time, or by
\* its renew-till when it was renewable (get_ticket_endtime and the RENEW
\* arithmetic of process_tgs_req).
Lifetime ==
  \A t \in tix : /\ t.end <= t.root.end \/ t.end <= t.root.till
                 /\ t.till <= t.root.till

\* The service a delegated ticket was last delegated by.
Delegator(t) == IF t.by = <<>> THEN {} ELSE {t.by[Len(t.by)]}
Endpoints(t) == {t.c.r, t.iss} \cup {p.r : p \in Delegator(t)}

\* A ticket lists every realm whose KDC issued one of the tickets it was asked
\* with, from its holder's first one on, except its ends: the client's realm,
\* its issuer, and for a delegated ticket the realm of the service, whose own
\* way the KDCs saw (add_to_transited, tgs_req.rs "unchanged unless this is a
\* cross-realm request").  The way of the evidence of a delegation is not part
\* of it: see EvidenceTold.
TransitedComplete == \A t \in tix : t.via \ Endpoints(t) \subseteq t.tr

\* The ticket's way is on the configured path of its client or of the service
\* that delegated it.
OnPath(t) == \E p \in {t.c} \cup Delegator(t) : t.via \ Endpoints(t) \subseteq PathRealms(p.r, t.iss)

\* TRANSITED_POLICY_CHECKED is never set on a ticket that came through a
\* realm off the path (check_transited_list on the subject ticket's realm).
CheckedHonest == \A t \in tix : t.chk => OnPath(t)

\* With reject_bad_transit no ticket has come off the path, and so neither has
\* one that is used as evidence: its issuer judged its way, and the ticket made
\* from it does not tell it again.
RejectHolds == cfg.reject => \A t \in tix : OnPath(t)

\* What does not hold: that a delegated ticket lists the realms its evidence
\* came through as well.  process_tgs_req starts from the header ticket's list,
\* as MIT's does, and sets TRANSITED_POLICY_CHECKED for it.
EvidenceTold == \A t \in tix : (t.via \cup t.evi) \ Endpoints(t) \subseteq t.tr

\* A principal that must not be delegated never appears in a forwardable
\* ticket, nor in one another party can use at a third service, whatever
\* chain of forwarding, S4U2Self and S4U2Proxy is tried: only the holder of
\* a service's forwarded TGT gets that service's S4U2Self tickets
\* (DISALLOW_FORWARDABLE through get_ticket_flags).
SensitiveKept ==
  \A t \in tix : t.c \in cfg.nofwd =>
     /\ ~t.fwd
     /\ t.own # t.c => t.srv = t.own \/ (t.fd /\ ~IsTgs(t.srv))

\* A delegated ticket was allowed by a delegation list, and its user had
\* come to the delegating service or the service could make the user's
\* evidence itself (check_tgs_s4u2proxy, check_s4u2proxy_policy,
\* s4u2self_forwardable).
Delegated ==
  \A t \in tix : t.own # t.c /\ ~t.fd /\ ~IsTgs(t.srv) /\ t.srv # t.own =>
     /\ <<t.own, t.srv>> \in lists
     /\ <<t.c, t.own>> \in met \cup trans

\* With tgs_recheck_client a principal that is disabled or removed gets no
\* new ticket from its realm, in its own name or through a delegation.
DisabledStops ==
  [][\A t \in tix' \ tix :
       cfg.recheck /\ t.c.r = t.iss => On(t.c)]_vars

\* The way of the tickets a ticket was asked with is told and judged: every
\* realm on it is in the transited list, the checked flag is never set for one
\* off the configured path, and with reject_bad_transit there is none
\* (add_to_transited, check_transited_list, process_tgs_req).
TransitSound == TransitedComplete /\ CheckedHonest /\ RejectHolds

\* No chain of forwarding, S4U2Self and S4U2Proxy hands a user to a service
\* that no delegation list allows, or a user who must not be delegated to any.
DelegationSound == SensitiveKept /\ Delegated

\* Tickets outlive neither what the AS exchange allowed nor, with
\* tgs_recheck_client, the account they are for.
NothingOutlives == []Lifetime /\ DisabledStops

=============================================================================
