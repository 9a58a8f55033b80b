----------------------------- MODULE Tgs_proofs -----------------------------
(***************************************************************************)
(* Proofs about Tgs, for every configuration: NothingOutlives, TransitSound *)
(* and DelegationSound. The inductive invariant says of each ticket what a  *)
(* later request may rely on when it uses it as its header or its evidence. *)
(***************************************************************************)
EXTENDS Tgs, Integers, TLAPS

\* The databases keep their principals, and remember every list they held.
DbInv ==
  /\ cfg \in Configs /\ now \in Nat
  /\ DOMAIN pol = DOMAIN cfg.pol
  /\ Listed(pol) \subseteq lists

TicketType(t) ==
  /\ {t.start, t.end, t.till, t.root.end, t.root.till} \subseteq Nat
  /\ {t.c, t.own, t.psub} \subseteq DOMAIN cfg.pol
  /\ t.by \in Seq(DOMAIN cfg.pol)
  /\ t.srv = Krbtgt(t.srv.r) \/ (t.srv \in DOMAIN cfg.pol /\ t.srv.r = t.iss)

\* A TGT carries delegation information only for somebody else's account,
\* is held by another than its client only when it was forwarded, and has
\* been nowhere else when its client's own realm issued it.
TgtOk(t) ==
  IsTgs(t.srv) => /\ t.pr \/ t.by = <<>>
                  /\ t.own = t.c \/ t.fd
                  /\ ~t.pr /\ t.c.r = t.iss => t.via \subseteq {t.iss}

\* Neither the client nor the PAC's client of a forwardable ticket is one
\* that must not be delegated.
FwdOk(t) == t.fwd => t.c \notin cfg.nofwd /\ t.psub \notin cfg.nofwd

\* What evidence proves: that its client came to its service, or that the
\* service may speak for it; a referral TGT says so of its PAC's client.
EvidenceOk(t) ==
  /\ t.fwd /\ ~IsTgs(t.srv) => <<t.c, t.srv>> \in met \cup trans
  /\ IsTgs(t.srv) /\ t.pr /\ t.by # <<>> /\ t.by[Len(t.by)] = t.c
       => <<t.psub, t.c>> \in met \cup trans

LifetimeOk(t) ==
  /\ t.end <= t.root.end \/ t.end <= t.root.till
  /\ t.till <= t.root.till

TransitOk(t) ==
  /\ t.via \ Endpoints(t) \subseteq t.tr
  /\ t.chk => OnPath(t)
  /\ cfg.reject => OnPath(t)

DelegationOk(t) ==
  /\ t.c \in cfg.nofwd =>
       /\ ~t.fwd
       /\ t.own # t.c => t.srv = t.own \/ (t.fd /\ ~IsTgs(t.srv))
  /\ t.own # t.c /\ ~t.fd /\ ~IsTgs(t.srv) /\ t.srv # t.own =>
       /\ <<t.own, t.srv>> \in lists
       /\ <<t.c, t.own>> \in met \cup trans

TicketOk(t) ==
  /\ TicketType(t) /\ TgtOk(t) /\ FwdOk(t) /\ EvidenceOk(t)
  /\ LifetimeOk(t) /\ TransitOk(t) /\ DelegationOk(t)

IInv == DbInv /\ \A t \in tix : TicketOk(t)

-----------------------------------------------------------------------------
(* The operators. *)

\* A principal of a database is never a krbtgt, and is its two fields.
LEMMA PrincFacts ==
  ASSUME cfg \in Configs, NEW p \in DOMAIN cfg.pol
  PROVE  p = [n |-> p.n, r |-> p.r] /\ ~IsTgs(p) /\ p # None /\ p.r \in Realms
BY TgsConfigs DEF Principal, IsTgs, None

LEMMA KrbtgtFacts ==
  ASSUME NEW r
  PROVE  Krbtgt(r).r = r /\ IsTgs(Krbtgt(r)) /\ Krbtgt(r) # None
BY DEF Krbtgt, IsTgs, None

\* What search_sprinc finds: the name asked, in this realm, or a TGT. Only a
\* request that may be referred gets another than it asked for.
LEMMA SprincFacts ==
  ASSUME NEW req, req.s = [n |-> req.s.n, r |-> req.s.r],
         SearchSprinc(req) # None
  PROVE  /\ \/ SearchSprinc(req) = Krbtgt(SearchSprinc(req).r)
            \/ /\ SearchSprinc(req) = [n |-> req.s.n, r |-> req.at]
               /\ ~IsTgs(req.s) /\ Known(SearchSprinc(req))
         /\ req.kind \in {"renew", "forward", "u2u"} =>
              SearchSprinc(req) = IF IsTgs(req.s) THEN req.s ELSE [n |-> req.s.n, r |-> req.at]
<1> DEFINE s == [req.s EXCEPT !.r = IF IsTgs(req.s) THEN @ ELSE req.at]
           ref == IF IsTgs(s) THEN s.r ELSE ReferralRealm(req.at, s)
<1>1. s = IF IsTgs(req.s) THEN req.s ELSE [n |-> req.s.n, r |-> req.at]
  OBVIOUS
<1>2. IsTgs(s) <=> IsTgs(req.s)
  BY <1>1 DEF IsTgs
<1>3. IsTgs(s) => s = Krbtgt(s.r)
  BY <1>1 DEF IsTgs, Krbtgt
<1>4. ASSUME NEW t PROVE AlternateTgs(req.at, t) = None \/ AlternateTgs(req.at, t) = Krbtgt(AlternateTgs(req.at, t).r)
  <2> DEFINE hops == cfg.walk[<<req.at, t>>]
             ok == {i \in 2..Len(hops) : <<req.at, hops[i]>> \in cfg.trust}
             x == hops[CHOOSE i \in ok : \A j \in ok : j <= i]
  <2>1. AlternateTgs(req.at, t) = IF ok = {} THEN None ELSE Krbtgt(x)
    BY DEF AlternateTgs
  <2> HIDE DEF x, ok
  <2> QED BY <2>1, KrbtgtFacts
<1>5. SearchSprinc(req) = CASE InDb(req.at, s) -> s
       [] ~InDb(req.at, s) /\ (req.kind \in {"renew", "forward", "u2u"} \/ ref = NoRealm) -> None
       [] OTHER -> IF InDb(req.at, Krbtgt(ref)) THEN Krbtgt(ref) ELSE AlternateTgs(req.at, ref)
  BY DEF SearchSprinc
<1>6. InDb(req.at, s) /\ ~IsTgs(s) => Known(s)
  BY DEF InDb
<1> HIDE DEF s, ref
<1>7. CASE InDb(req.at, s)
  BY <1>7, <1>5, <1>1, <1>2, <1>3, <1>6
<1>8. CASE ~InDb(req.at, s)
  <2>1. ~(req.kind \in {"renew", "forward", "u2u"} \/ ref = NoRealm)
    BY <1>5, <1>8
  <2>2. SearchSprinc(req) = IF InDb(req.at, Krbtgt(ref)) THEN Krbtgt(ref) ELSE AlternateTgs(req.at, ref)
    BY <1>5, <1>8, <2>1
  <2> QED BY <2>1, <2>2, <1>4, KrbtgtFacts
<1> QED BY <1>7, <1>8

\* The requests a holder can make.
LEMMA ReqFacts ==
  ASSUME IInv, NEW h \in tix, NEW req \in Requests(h)
  PROVE  /\ req.h = h /\ req.e \in tix
         /\ req.kind \in {"normal", "renew", "forward", "self", "proxy", "u2u"}
         /\ req.s = [n |-> req.s.n, r |-> req.s.r]
         /\ req.kind \in {"renew", "forward"} => req.at = h.iss /\ req.s = h.srv
         /\ req.kind = "forward" => req.user \in DOMAIN cfg.pol
         /\ req.kind = "self" => req.s = h.c
<1> DEFINE at == IF IsTgs(h.srv) THEN h.srv.r ELSE h.iss
           names == cfg.names \cup {Krbtgt(r) : r \in Realms}
<1>1. \/ \E s \in names : req = Req(h, at, s, "normal", None, h)
      \/ req = Req(h, h.iss, h.srv, "renew", None, h)
      \/ \E f \in cfg.fronts : req = Req(h, h.iss, h.srv, "forward", f, h)
      \/ \E u \in cfg.users : req = Req(h, at, h.c, "self", u, h)
      \/ \E s \in cfg.names, e \in tix : req = Req(h, at, s, "proxy", None, e)
      \/ \E s \in cfg.names, e \in tix : req = Req(h, at, s, "u2u", None, e)
  BY DEF Requests
<1>2. \A s \in names : s = [n |-> s.n, r |-> s.r]
  BY TgsConfigs DEF IInv, DbInv, Principal, Krbtgt
<1>3. cfg.fronts \subseteq DOMAIN cfg.pol
  BY TgsConfigs DEF IInv, DbInv
<1>4. TicketType(h) /\ h.c = [n |-> h.c.n, r |-> h.c.r] /\ h.srv = [n |-> h.srv.n, r |-> h.srv.r]
  <2>1. TicketType(h)
    BY DEF IInv, TicketOk
  <2> QED BY <2>1, PrincFacts DEF TicketType, IInv, DbInv, Krbtgt
<1> HIDE DEF at, names
<1>5. CASE \E s \in names : req = Req(h, at, s, "normal", None, h)
  BY <1>5, <1>2 DEF Req
<1>6. CASE req = Req(h, h.iss, h.srv, "renew", None, h)
  BY <1>6, <1>4 DEF Req
<1>7. CASE \E f \in cfg.fronts : req = Req(h, h.iss, h.srv, "forward", f, h)
  BY <1>7, <1>3, <1>4 DEF Req
<1>8. CASE \E u \in cfg.users : req = Req(h, at, h.c, "self", u, h)
  BY <1>8, <1>4 DEF Req
<1>9. CASE \E s \in cfg.names, e \in tix : req = Req(h, at, s, "proxy", None, e)
  BY <1>9, <1>2 DEF Req, names
<1>10. CASE \E s \in cfg.names, e \in tix : req = Req(h, at, s, "u2u", None, e)
  BY <1>10, <1>2 DEF Req, names
<1> QED BY <1>1, <1>5, <1>6, <1>7, <1>8, <1>9, <1>10

-----------------------------------------------------------------------------
(* What an accepted request says of its tickets. *)

\* An accepted request for the holder of h.
Serving(h, req) == h \in tix /\ req \in Requests(h) /\ Accepted(req)

LEMMA HeaderFacts ==
  ASSUME IInv, NEW h, NEW req, Serving(h, req)
  PROVE  /\ h \in tix /\ req.h = h /\ TicketOk(h) /\ TicketOk(req.e)
         /\ h.start <= now /\ now <= h.end
         /\ req.kind \notin {"renew", "forward"} => h.srv = Krbtgt(req.at)
         /\ req.kind \in {"renew", "forward"} => req.at = h.iss
         /\ req.kind \notin {"self", "proxy"} => h.psub = h.c /\ ~h.pr
         /\ req.kind # "self" => ~(CrossRealm(req) /\ h.c.r = req.at)
         /\ req.kind = "forward" => h.fwd
BY ReqFacts DEF Serving, IInv, Accepted, HeaderOk, ConstraintsOk, NormalPacOk, LineageOk

\* The ticket's server: a TGT, or a principal of this realm's database.
LEMMA ServerFacts ==
  ASSUME IInv, NEW h, NEW req, Serving(h, req)
  PROVE  /\ \/ SearchSprinc(req) = Krbtgt(SearchSprinc(req).r)
            \/ /\ SearchSprinc(req) \in DOMAIN cfg.pol
               /\ SearchSprinc(req).r = req.at /\ ~IsTgs(req.s)
         /\ req.kind \in {"renew", "forward"} => SearchSprinc(req) = h.srv
         /\ req.kind = "u2u" => SearchSprinc(req) \in DOMAIN cfg.pol
<1>1. /\ req.s = [n |-> req.s.n, r |-> req.s.r]
      /\ req.kind \in {"renew", "forward"} => req.at = h.iss /\ req.s = h.srv
      /\ h \in tix /\ req.e \in tix
  BY ReqFacts DEF Serving
<1>2. SearchSprinc(req) # None
  BY DEF Serving, Accepted
<1>3. PICK sp : sp = SearchSprinc(req)
  OBVIOUS
<1>4. /\ \/ sp = Krbtgt(sp.r)
         \/ sp = [n |-> req.s.n, r |-> req.at] /\ ~IsTgs(req.s) /\ Known(sp)
      /\ req.kind \in {"renew", "forward", "u2u"} =>
           sp = IF IsTgs(req.s) THEN req.s ELSE [n |-> req.s.n, r |-> req.at]
  BY <1>1, <1>2, <1>3, SprincFacts
<1>5. Known(sp) => sp \in DOMAIN cfg.pol
  BY DEF Known, IInv, DbInv
<1>6. TicketType(h) /\ TicketType(req.e)
  BY <1>1 DEF IInv, TicketOk
<1>7. req.kind \in {"renew", "forward"} => sp = h.srv
  <2>1. h.srv = Krbtgt(h.srv.r) => IsTgs(h.srv)
    BY KrbtgtFacts
  <2>2. h.srv \in DOMAIN cfg.pol /\ h.srv.r = h.iss => ~IsTgs(h.srv) /\ h.srv = [n |-> h.srv.n, r |-> h.iss]
    BY PrincFacts DEF IInv, DbInv
  <2> QED BY <1>1, <1>4, <1>6, <2>1, <2>2 DEF TicketType
<1>8. req.kind = "u2u" => sp \in DOMAIN cfg.pol
  BY <1>3, <1>6 DEF Serving, Accepted, U2uOk, TicketType
<1> QED BY <1>3, <1>4, <1>5, <1>7, <1>8

\* S4U2Self: a user this realm knows, or one that the referral TGT names.
LEMMA SelfFacts ==
  ASSUME IInv, NEW h, NEW req, Serving(h, req), req.kind = "self"
  PROVE  /\ req.user \in DOMAIN cfg.pol
         /\ IF req.user.r = req.at THEN /\ On(req.user) /\ ClientEntry(req) = req.user
                                        /\ h.psub = h.c /\ ~h.pr /\ h.by = <<>>
            ELSE h.psub = req.user /\ h.pr
         /\ ~IsReferral(req) => SearchSprinc(req) = h.c /\ h.c \in DOMAIN cfg.pol /\ h.c.r = req.at
<1>1. req.h = h /\ TicketOk(h) /\ h.srv = Krbtgt(req.at)
  BY HeaderFacts
<1>2. TicketType(h) /\ TgtOk(h) /\ IsTgs(h.srv)
  BY <1>1, KrbtgtFacts DEF TicketOk
<1>3. S4u2SelfOk(req)
  BY DEF Serving, Accepted
<1>4. ASSUME req.user.r = req.at
      PROVE  /\ req.user \in DOMAIN cfg.pol /\ On(req.user) /\ ClientEntry(req) = req.user
             /\ h.psub = h.c /\ ~h.pr /\ h.by = <<>>
  <2>1. On(req.user) /\ h.psub = h.c /\ ~h.pr
    BY <1>1, <1>3, <1>4 DEF S4u2SelfOk
  <2>2. req.user \in DOMAIN cfg.pol
    BY <2>1 DEF On, Known, IInv, DbInv
  <2>3. ClientEntry(req) = req.user
    BY <2>1, <1>4 DEF ClientEntry, On
  <2> QED BY <1>2, <1>4, <2>1, <2>2, <2>3 DEF TgtOk
<1>5. ASSUME req.user.r # req.at
      PROVE  req.user \in DOMAIN cfg.pol /\ h.psub = req.user /\ h.pr
  BY <1>1, <1>2, <1>3, <1>5 DEF S4u2SelfOk, TicketType
<1>6. ~IsReferral(req) => SearchSprinc(req) = h.c /\ h.c \in DOMAIN cfg.pol /\ h.c.r = req.at
  <2>1. SUFFICES ASSUME ~IsReferral(req) PROVE SearchSprinc(req) = h.c /\ h.c \in DOMAIN cfg.pol /\ h.c.r = req.at
    OBVIOUS
  <2>2. SearchSprinc(req) = h.c /\ h.c \in DOMAIN cfg.pol
    BY <1>1, <1>2, <1>3, <2>1 DEF S4u2SelfOk, TicketType
  <2>3. ~IsTgs(h.c)
    BY <2>2, PrincFacts DEF IInv, DbInv
  <2> QED BY <2>2, <2>3, ServerFacts, KrbtgtFacts
<1> QED BY <1>4, <1>5, <1>6

\* S4U2Proxy: the header is the service's own, the evidence forwardable.
LEMMA ProxyFacts ==
  ASSUME IInv, NEW h, NEW req, Serving(h, req), req.kind = "proxy"
  PROVE  /\ req.e.fwd /\ h.psub = h.c /\ ~h.pr /\ h.by = <<>>
         /\ CrossRealm(req) => /\ ~IsReferral(req)
                               /\ IsTgs(req.e.srv) /\ req.e.c = h.c /\ req.e.pr
                               /\ req.e.by # <<>> /\ req.e.by[Len(req.e.by)] = req.e.c
         /\ ~CrossRealm(req) => /\ req.e.srv = h.c /\ ~IsTgs(req.e.srv)
                                /\ h.c.r = req.at
         /\ ~IsReferral(req) => /\ SearchSprinc(req) \in DOMAIN cfg.pol
                                /\ ~IsTgs(SearchSprinc(req))
                                /\ <<h.c, SearchSprinc(req)>> \in lists
<1>1. req.h = h /\ TicketOk(h) /\ h.srv = Krbtgt(req.at) /\ TicketOk(req.e)
  BY HeaderFacts
<1>2. TicketType(h) /\ TgtOk(h) /\ IsTgs(h.srv) /\ TicketType(req.e) /\ ~IsTgs(h.c)
  BY <1>1, KrbtgtFacts, PrincFacts DEF TicketOk, TicketType, IInv, DbInv
<1>3. S4u2ProxyOk(req) /\ SvcPolicyOk(req) /\ ProxyPolicyOk(req)
  BY DEF Serving, Accepted
<1>4. req.e.fwd /\ h.psub = h.c /\ ~h.pr /\ h.by = <<>>
  BY <1>1, <1>2, <1>3 DEF S4u2ProxyOk, TgtOk
<1>5. ASSUME CrossRealm(req)
      PROVE  /\ ~IsReferral(req)
             /\ IsTgs(req.e.srv) /\ req.e.c = h.c /\ req.e.pr
             /\ req.e.by # <<>> /\ req.e.by[Len(req.e.by)] = req.e.c
  BY <1>1, <1>3, <1>5, KrbtgtFacts DEF S4u2ProxyOk, DelegPacOk
<1>6. ASSUME ~CrossRealm(req)
      PROVE  req.e.srv = h.c /\ ~IsTgs(req.e.srv) /\ h.c.r = req.at
  <2>1. req.e.srv = h.c /\ Readable(req.at, req.e)
    BY <1>1, <1>3, <1>6 DEF S4u2ProxyOk, SecondTktOk
  <2>2. req.e.iss = req.at
    BY <2>1, <1>2, KrbtgtFacts DEF Readable
  <2> QED BY <2>1, <2>2, <1>2, KrbtgtFacts DEF TicketType
<1>7. ASSUME ~IsReferral(req)
      PROVE  /\ SearchSprinc(req) \in DOMAIN cfg.pol /\ ~IsTgs(SearchSprinc(req))
             /\ <<h.c, SearchSprinc(req)>> \in lists
  <2>1. PICK sp : sp = SearchSprinc(req)
    OBVIOUS
  <2>2. ~IsTgs(req.s)
    BY <1>3 DEF S4u2ProxyOk
  <2>3. ~IsTgs(sp)
    BY <1>7, <2>1, <2>2 DEF IsReferral
  <2>4. sp \in DOMAIN cfg.pol
    BY <2>1, <2>3, ServerFacts, KrbtgtFacts
  <2>5. h.c \in pol[sp].from \/ sp \in pol[h.c].to
    <3>1. \/ cfg.rbcd /\ req.h.c \in pol[sp].from
          \/ ~CrossRealm(req) /\ sp \in pol[req.e.srv].to
      BY <1>3, <1>7, <2>1 DEF ProxyPolicyOk
    <3> QED BY <3>1, <1>1, <1>6
  <2>6. <<h.c, sp>> \in Listed(pol)
    BY <2>4, <2>5, <1>2 DEF Listed, TicketType, IInv, DbInv
  <2> QED BY <2>1, <2>3, <2>4, <2>6 DEF IInv, DbInv
<1> QED BY <1>4, <1>5, <1>6, <1>7

\* The client of the new ticket.
LEMMA ClientFacts ==
  ASSUME IInv, NEW h, NEW req, Serving(h, req)
  PROVE  /\ TktClient(req) \in DOMAIN cfg.pol
         /\ req.kind \notin {"self", "proxy"} \/ IsReferral(req) => TktClient(req) = h.c
         /\ req.kind = "self" /\ ~IsReferral(req) => TktClient(req) = req.user
         /\ req.kind = "proxy" /\ ~IsReferral(req) =>
              TktClient(req) = IF CrossRealm(req) THEN req.e.psub ELSE req.e.c
<1>1. req.h = h /\ TicketType(h) /\ TicketType(req.e)
  BY HeaderFacts DEF TicketOk
<1>2. req.kind \notin {"self", "proxy"} \/ IsReferral(req) => TktClient(req) = h.c
  BY <1>1 DEF TktClient
<1>3. req.kind = "self" /\ ~IsReferral(req) => TktClient(req) = req.user
  BY DEF TktClient, SubjectClient
<1>4. req.kind = "proxy" /\ ~IsReferral(req) =>
              TktClient(req) = IF CrossRealm(req) THEN req.e.psub ELSE req.e.c
  BY DEF TktClient, SubjectClient, StktPacClient
<1> QED BY <1>1, <1>2, <1>3, <1>4, SelfFacts DEF TicketType

-----------------------------------------------------------------------------
(* The ticket issued, part by part of TicketOk. *)

LEMMA PacFacts ==
  ASSUME IInv, NEW h, NEW req, Serving(h, req)
  PROVE  /\ req.kind = "self" =>
              PacOf(req).psub = req.user /\ (PacOf(req).pr <=> IsReferral(req)) /\ PacOf(req).by = h.by
         /\ req.kind = "proxy" =>
              /\ PacOf(req).psub = IF IsReferral(req) THEN req.e.c ELSE TktClient(req)
              /\ (PacOf(req).pr <=> IsReferral(req))
              /\ PacOf(req).by = IF CrossRealm(req) THEN req.e.by ELSE Append(req.e.by, req.e.srv)
         /\ req.kind \notin {"self", "proxy"} =>
              PacOf(req).psub = h.psub /\ PacOf(req).pr = h.pr /\ PacOf(req).by = h.by
<1>1. req.h = h
  BY HeaderFacts
<1>2. ASSUME req.kind = "self"
      PROVE  PacOf(req).psub = req.user /\ (PacOf(req).pr <=> IsReferral(req)) /\ PacOf(req).by = h.by
  <2>1. CASE IsReferral(req)
    BY <1>1, <1>2, <2>1 DEF PacOf
  <2>2. CASE ~IsReferral(req)
    <3>1. TktClient(req) = req.user
      BY <1>2, <2>2, ClientFacts
    <3>2. PacOf(req) = [psub |-> TktClient(req), pr |-> FALSE, target |-> req.h.target, by |-> req.h.by]
      BY <1>2, <2>2 DEF PacOf
    <3> QED BY <1>1, <2>2, <3>1, <3>2
  <2> QED BY <2>1, <2>2
<1>3. ASSUME req.kind = "proxy"
      PROVE  /\ PacOf(req).psub = IF IsReferral(req) THEN req.e.c ELSE TktClient(req)
             /\ (PacOf(req).pr <=> IsReferral(req))
             /\ PacOf(req).by = IF CrossRealm(req) THEN req.e.by ELSE Append(req.e.by, req.e.srv)
  BY <1>3 DEF PacOf
<1>4. ASSUME req.kind \notin {"self", "proxy"}
      PROVE  PacOf(req).psub = h.psub /\ PacOf(req).pr = h.pr /\ PacOf(req).by = h.by
  BY <1>1, <1>4 DEF PacOf
<1> QED BY <1>2, <1>3, <1>4

LEMMA IssuedFields ==
  ASSUME NEW h, NEW req, req.h = h, NEW t, t = Issued(req)
  PROVE  /\ t.iss = req.at /\ t.srv = SearchSprinc(req) /\ t.c = TktClient(req)
         /\ t.own = (IF req.kind = "forward" THEN req.user ELSE h.own)
         /\ t.tr = Transited(req) /\ t.chk = TransitChecked(req)
         /\ t.fwd = Forwardable(req) /\ t.fd = (h.fd \/ req.kind = "forward")
         /\ t.start = now /\ t.end = EndTime(req)
         /\ t.till = RenewTime(h, ClientEntry(req), SearchSprinc(req), EndTime(req))
         /\ t.psub = PacOf(req).psub /\ t.pr = PacOf(req).pr /\ t.by = PacOf(req).by
         /\ t.root = h.root /\ t.via = h.via \cup {req.at}
BY DEF Issued

LEMMA RenewFacts ==
  ASSUME DbInv, NEW h, h.till \in Nat, NEW c, NEW s, NEW end
  PROVE  RenewTime(h, c, s, end) \in Nat /\ RenewTime(h, c, s, end) <= h.till
<1>1. now + cfg.rlife \in Nat
  BY TgsConfigs DEF DbInv
<1>2. PICK r : r = MinOf(h.till, now + cfg.rlife)
  OBVIOUS
<1>3. r \in Nat /\ r <= h.till
  BY <1>1, <1>2 DEF MinOf
<1> QED BY <1>2, <1>3 DEF RenewTime

\* The times: a renewal ends by the header's renew-till, any other ticket by
\* the header's end.
LEMMA IssuedTimes ==
  ASSUME IInv, NEW h, NEW req, Serving(h, req), NEW t, t = Issued(req)
  PROVE  {t.start, t.end, t.till, t.root.end, t.root.till} \subseteq Nat /\ LifetimeOk(t)
<1>1. req.h = h /\ TicketOk(h) /\ h.start <= now /\ now <= h.end
  BY HeaderFacts
<1>2. /\ {h.start, h.end, h.till, h.root.end, h.root.till} \subseteq Nat
      /\ LifetimeOk(h) /\ DbInv /\ now \in Nat /\ cfg.life \in Nat
  BY <1>1, TgsConfigs DEF TicketOk, TicketType, IInv, DbInv
<1>3. t.start = now /\ t.root = h.root /\ t.end = EndTime(req)
  BY <1>1, IssuedFields
<1>4. t.till \in Nat /\ t.till <= h.till
  BY <1>1, <1>2, IssuedFields, RenewFacts
<1>5. CASE req.kind = "renew"
  <2>1. now + (h.end - h.start) \in Nat
    BY <1>1, <1>2
  <2>2. EndTime(req) = MinOf(h.till, now + (h.end - h.start))
    BY <1>1, <1>5 DEF EndTime
  <2>3. EndTime(req) \in Nat /\ EndTime(req) <= h.till
    BY <1>2, <2>1, <2>2 DEF MinOf
  <2> QED BY <1>2, <1>3, <1>4, <2>3 DEF LifetimeOk
<1>6. CASE req.kind # "renew"
  <2>1. EndTime(req) = MinOf(h.end, now + cfg.life)
    BY <1>1, <1>6 DEF EndTime
  <2>2. EndTime(req) \in Nat /\ EndTime(req) <= h.end
    BY <1>2, <2>1 DEF MinOf
  <2> QED BY <1>2, <1>3, <1>4, <2>2 DEF LifetimeOk
<1> QED BY <1>5, <1>6

LEMMA IssuedType ==
  ASSUME IInv, NEW h, NEW req, Serving(h, req), NEW t, t = Issued(req)
  PROVE  TicketType(t) /\ TgtOk(t)
<1>1. req.h = h /\ h \in tix /\ TicketType(h) /\ TgtOk(h) /\ TicketType(req.e)
  BY HeaderFacts DEF TicketOk
<1>2. /\ t.iss = req.at /\ t.srv = SearchSprinc(req) /\ t.c = TktClient(req)
      /\ t.own = (IF req.kind = "forward" THEN req.user ELSE h.own)
      /\ t.fd = (h.fd \/ req.kind = "forward") /\ t.via = h.via \cup {req.at}
      /\ t.psub = PacOf(req).psub /\ t.pr = PacOf(req).pr /\ t.by = PacOf(req).by
  BY <1>1, IssuedFields
<1>3. t.c \in DOMAIN cfg.pol /\ t.own \in DOMAIN cfg.pol
  <2>1. t.c \in DOMAIN cfg.pol
    BY <1>2, ClientFacts
  <2>2. req.kind = "forward" => req.user \in DOMAIN cfg.pol
    BY ReqFacts DEF Serving
  <2> QED BY <1>1, <1>2, <2>1, <2>2 DEF TicketType
<1>4. t.psub \in DOMAIN cfg.pol
  BY <1>1, <1>2, <1>3, PacFacts, SelfFacts, ReqFacts DEF Serving, TicketType
<1>5. t.by \in Seq(DOMAIN cfg.pol)
  <2>1. CASE req.kind = "proxy"
    <3>1. ~CrossRealm(req) => req.e.srv \in DOMAIN cfg.pol
      BY <1>1, <2>1, ProxyFacts DEF TicketType
    <3>2. t.by = req.e.by \/ (~CrossRealm(req) /\ t.by = Append(req.e.by, req.e.srv))
      <4>1. PacOf(req).by = IF CrossRealm(req) THEN req.e.by ELSE Append(req.e.by, req.e.srv)
        BY <2>1, PacFacts
      <4> QED BY <1>2, <4>1
    <3>3. req.e.by \in Seq(DOMAIN cfg.pol)
      BY <1>1 DEF TicketType
    <3> QED BY <3>1, <3>2, <3>3
  <2>2. CASE req.kind # "proxy"
    BY <1>1, <1>2, <2>2, PacFacts DEF TicketType
  <2> QED BY <2>1, <2>2
<1>6. t.srv = Krbtgt(t.srv.r) \/ (t.srv \in DOMAIN cfg.pol /\ t.srv.r = t.iss)
  BY <1>2, ServerFacts
<1>7. TicketType(t)
  BY <1>3, <1>4, <1>5, <1>6, IssuedTimes DEF TicketType
<1>8. TgtOk(t)
  <2> SUFFICES ASSUME IsTgs(t.srv)
               PROVE  /\ t.pr \/ t.by = <<>>
                      /\ t.own = t.c \/ t.fd
                      /\ ~t.pr /\ t.c.r = t.iss => t.via \subseteq {t.iss}
    BY DEF TgtOk
  <2>1. t.srv \notin DOMAIN cfg.pol
    BY PrincFacts DEF IInv, DbInv
  <2>2. req.kind \in {"self", "proxy"} => IsReferral(req)
    <3>1. req.kind = "self" /\ ~IsReferral(req) => t.srv \in DOMAIN cfg.pol
      BY <1>2, SelfFacts
    <3>2. req.kind = "proxy" /\ ~IsReferral(req) => t.srv \in DOMAIN cfg.pol
      <4> SUFFICES ASSUME req.kind = "proxy", ~IsReferral(req) PROVE t.srv \in DOMAIN cfg.pol
        OBVIOUS
      <4>1. SearchSprinc(req) \in DOMAIN cfg.pol
        BY ProxyFacts
      <4> QED BY <1>2, <4>1
    <3> QED BY <2>1, <3>1, <3>2
  <2>3. t.c = h.c
    BY <1>2, <2>2, ClientFacts
  <2>4. IsTgs(h.srv)
    BY <1>2, HeaderFacts, ServerFacts, KrbtgtFacts
  <2>5. t.own = t.c \/ t.fd
    BY <1>1, <1>2, <2>3, <2>4 DEF TgtOk
  <2>6. t.pr \/ t.by = <<>>
    <3>1. CASE req.kind \in {"self", "proxy"}
      BY <1>2, <2>2, <3>1, PacFacts
    <3>2. CASE req.kind \notin {"self", "proxy"}
      BY <1>1, <1>2, <2>4, <3>2, PacFacts, HeaderFacts DEF TgtOk
    <3> QED BY <3>1, <3>2
  <2>7. ASSUME ~t.pr, t.c.r = t.iss PROVE t.via \subseteq {t.iss}
    <3>1. req.kind \notin {"self", "proxy"}
      BY <1>2, <2>2, <2>7, PacFacts
    <3>2. h.iss = req.at /\ ~h.pr
      BY <1>1, <1>2, <2>3, <2>7, <3>1, HeaderFacts DEF CrossRealm
    <3> QED BY <1>1, <1>2, <2>3, <2>4, <2>7, <3>2 DEF TgtOk
  <2> QED BY <2>5, <2>6, <2>7
<1> QED BY <1>7, <1>8

\* FORWARDABLE needs the header's flag, and S4U2Self that the user's realm
\* granted it.
LEMMA IssuedFwd ==
  ASSUME IInv, NEW h, NEW req, Serving(h, req), NEW t, t = Issued(req)
  PROVE  FwdOk(t) /\ (t.fwd => h.fwd)
<1>1. req.h = h /\ FwdOk(h) /\ FwdOk(req.e)
  BY HeaderFacts DEF TicketOk
<1>2. t.fwd = Forwardable(req) /\ t.c = TktClient(req) /\ t.psub = PacOf(req).psub
  BY <1>1, IssuedFields
<1>3. t.fwd => h.fwd
  BY <1>1, <1>2 DEF Forwardable
<1>4. CASE req.kind = "self"
  <2>1. t.psub = req.user
    BY <1>2, <1>4, PacFacts
  <2>2. t.c \in {h.c, req.user}
    BY <1>2, <1>4, ClientFacts
  <2>3. ASSUME t.fwd PROVE req.user \notin cfg.nofwd
    <3>1. CASE req.user.r = req.at
      <4>1. ~Attr(req.user, "nofwd") /\ req.user \in DOMAIN pol
        <5>1. ClientEntry(req) = req.user /\ req.user \in DOMAIN pol
          BY <1>4, <3>1, SelfFacts DEF IInv, DbInv
        <5>2. ~Attr(ClientEntry(req), "nofwd")
          BY <1>2, <1>4, <2>3 DEF Forwardable
        <5> QED BY <5>1, <5>2
      <4> QED BY <4>1 DEF Attr
    <3>2. CASE req.user.r # req.at
      <4>1. h.psub = req.user
        BY <1>4, <3>2, SelfFacts
      <4> QED BY <4>1, <1>1, <1>3, <2>3 DEF FwdOk
    <3> QED BY <3>1, <3>2
  <2> QED BY <1>1, <1>3, <2>1, <2>2, <2>3 DEF FwdOk
<1>5. CASE req.kind = "proxy"
  <2>1. req.e.fwd
    BY <1>5, ProxyFacts
  <2>2. t.c \in {h.c, req.e.c, req.e.psub} /\ t.psub \in {req.e.c, t.c}
    BY <1>2, <1>5, ClientFacts, PacFacts
  <2> QED BY <1>1, <1>3, <2>1, <2>2 DEF FwdOk
<1>6. CASE req.kind \notin {"self", "proxy"}
  BY <1>1, <1>2, <1>3, <1>6, ClientFacts, PacFacts DEF FwdOk
<1> QED BY <1>3, <1>4, <1>5, <1>6

\* The realms a header came through are listed in the new ticket, whoever
\* its client becomes.
LEMMA IssuedTransit ==
  ASSUME IInv, NEW h, NEW req, Serving(h, req), NEW t, t = Issued(req)
  PROVE  TransitOk(t)
<1>1. req.h = h /\ TicketType(h) /\ TgtOk(h) /\ TransitOk(h) /\ TicketType(req.e)
  BY HeaderFacts DEF TicketOk
<1>2. /\ t.iss = req.at /\ t.c = TktClient(req) /\ t.tr = Transited(req)
      /\ t.chk = TransitChecked(req) /\ t.by = PacOf(req).by /\ t.via = h.via \cup {req.at}
  BY <1>1, IssuedFields
<1>3. t.tr = IF h.iss = req.at \/ h.iss = t.c.r THEN h.tr ELSE h.tr \cup ({h.iss} \ {t.c.r, req.at})
  BY <1>1, <1>2 DEF Transited, CrossRealm
\* What the new ticket leaves out of its list is left out of the header's,
\* or is the header's issuer.
<1>4. Endpoints(h) \ {h.iss} \subseteq Endpoints(t)
  <2>1. CASE req.kind = "proxy"
    <3>1. Endpoints(h) = {h.c.r, h.iss}
      BY <2>1, ProxyFacts DEF Endpoints, Delegator
    <3>2. CASE CrossRealm(req)
      <4>1. t.by = req.e.by /\ req.e.by # <<>> /\ req.e.by[Len(req.e.by)] = h.c
        <5>1. t.by = req.e.by
          BY <1>2, <2>1, <3>2, PacFacts
        <5> QED BY <2>1, <3>2, <5>1, ProxyFacts
      <4> QED BY <3>1, <4>1 DEF Endpoints, Delegator
    <3>3. CASE ~CrossRealm(req)
      BY <1>2, <2>1, <3>1, <3>3, ProxyFacts DEF Endpoints
    <3> QED BY <3>2, <3>3
  <2>2. CASE req.kind # "proxy"
    <3>1. Delegator(t) = Delegator(h)
      BY <1>2, <2>2, PacFacts DEF Delegator
    <3>2. h.c.r \in {t.c.r, req.at}
      BY <1>2, <2>2, ClientFacts, SelfFacts
    <3> QED BY <1>2, <3>1, <3>2 DEF Endpoints
  <2> QED BY <2>1, <2>2
<1>5. req.at \in Endpoints(t) /\ t.c.r \in Endpoints(t)
  BY <1>2 DEF Endpoints
<1>6. t.via \ Endpoints(t) \subseteq t.tr
  BY <1>1, <1>2, <1>3, <1>4, <1>5 DEF TransitOk
<1>7. ASSUME t.chk PROVE OnPath(t)
  <2> SUFFICES \E p \in {t.c} \cup Delegator(t) : t.via \ Endpoints(t) \subseteq PathRealms(p.r, t.iss)
    BY DEF OnPath
  <2>1. CASE req.kind = "renew" /\ h.chk
    <3>1. t.c = h.c /\ t.by = h.by /\ t.iss = h.iss
      BY <1>2, <2>1, ClientFacts, PacFacts, HeaderFacts
    <3>2. Delegator(t) = Delegator(h) /\ Endpoints(t) = Endpoints(h) /\ h.iss \in Endpoints(h)
      BY <3>1 DEF Delegator, Endpoints
    <3> QED BY <1>1, <1>2, <2>1, <3>1, <3>2 DEF TransitOk, OnPath
  <2>2. CASE t.tr = {}
    BY <1>6, <2>2
  <2>3. CASE t.tr \subseteq PathRealms(SubjectTkt(req).c.r, req.at) /\ SubjectTkt(req).c.r # req.at
    <3>1. CASE req.kind = "proxy" /\ CrossRealm(req)
      <4>1. SubjectTkt(req).c = req.e.c
        BY <3>1 DEF SubjectTkt
      <4>2. req.e.c \in Delegator(t)
        <5>1. t.by = req.e.by /\ req.e.by # <<>> /\ req.e.by[Len(req.e.by)] = req.e.c
          BY <1>2, <3>1, PacFacts, ProxyFacts
        <5> QED BY <5>1 DEF Delegator
      <4> QED BY <1>2, <1>6, <2>3, <4>1, <4>2
    <3>2. CASE req.kind = "proxy" /\ ~CrossRealm(req)
      <4>1. SubjectTkt(req).c = req.e.c
        BY <3>2 DEF SubjectTkt
      <4>2. CASE IsReferral(req)
        \* The header is the service's, which is local, from this realm.
        <5>1. h.c.r = req.at /\ ~h.pr /\ h.srv = Krbtgt(req.at)
          BY <3>2, ProxyFacts, HeaderFacts
        <5>2. h.iss = req.at
          BY <1>1, <3>2 DEF CrossRealm
        <5>3. h.via \subseteq {req.at}
          BY <1>1, <5>1, <5>2, KrbtgtFacts DEF TgtOk
        <5> QED BY <1>2, <1>5, <5>3
      <4>3. CASE ~IsReferral(req)
        <5>1. t.c = req.e.c
          BY <1>2, <3>2, <4>3, ClientFacts
        <5> QED BY <1>2, <1>6, <2>3, <4>1, <5>1
      <4> QED BY <4>2, <4>3
    <3>3. CASE req.kind = "self"
      <4>1. SubjectTkt(req).c = h.c
        BY <1>1, <3>3 DEF SubjectTkt
      <4>2. CASE IsReferral(req)
        <5>1. t.c = h.c
          BY <1>2, <4>2, ClientFacts
        <5> QED BY <1>2, <1>6, <2>3, <4>1, <5>1
      <4>3. CASE ~IsReferral(req)
        BY <3>3, <4>3, <2>3, <4>1, SelfFacts
      <4> QED BY <4>2, <4>3
    <3>4. CASE req.kind \notin {"self", "proxy"}
      <4>1. SubjectTkt(req).c = h.c /\ t.c = h.c
        BY <1>1, <1>2, <3>4, ClientFacts DEF SubjectTkt
      <4> QED BY <1>2, <1>6, <2>3, <4>1
    <3> QED BY <3>1, <3>2, <3>3, <3>4
  <2>4. TransitChecked(req)
    BY <1>2, <1>7
  <2>5. \/ req.kind = "renew" /\ h.chk
        \/ t.tr = {}
        \/ t.tr \subseteq PathRealms(SubjectTkt(req).c.r, req.at) /\ SubjectTkt(req).c.r # req.at
    BY <1>1, <1>2, <2>4 DEF TransitChecked
  <2> QED BY <2>1, <2>2, <2>3, <2>5
<1>8. cfg.reject => t.chk
  BY <1>2 DEF Serving, Accepted
<1> QED BY <1>6, <1>7, <1>8 DEF TransitOk

\* Evidence is about a user who came to the service, or whom it may speak
\* for; a delegated ticket needs such evidence and a list.
LEMMA IssuedDelegation ==
  ASSUME IInv, NEW h, NEW req, Serving(h, req), Serve(h, req), NEW t, t = Issued(req)
  PROVE  EvidenceOk(t)' /\ DelegationOk(t)'
<1>1. /\ req.h = h /\ TicketOk(h) /\ TicketOk(req.e)
      /\ TicketType(h) /\ TgtOk(h) /\ FwdOk(h) /\ FwdOk(req.e)
      /\ EvidenceOk(h) /\ EvidenceOk(req.e) /\ DelegationOk(h)
  BY HeaderFacts DEF TicketOk
<1>2. /\ t.iss = req.at /\ t.srv = SearchSprinc(req) /\ t.c = TktClient(req)
      /\ t.own = (IF req.kind = "forward" THEN req.user ELSE h.own)
      /\ t.fd = (h.fd \/ req.kind = "forward") /\ t.fwd = Forwardable(req)
      /\ t.psub = PacOf(req).psub /\ t.pr = PacOf(req).pr /\ t.by = PacOf(req).by
  BY <1>1, IssuedFields
<1>3. /\ met \subseteq met' /\ trans \subseteq trans' /\ lists' = lists /\ cfg' = cfg
      /\ req.kind \notin {"self", "renew"} /\ ~IsTgs(t.srv) => <<t.c, t.srv>> \in met'
      /\ req.kind = "self" /\ ~IsReferral(req) /\ S4u2SelfForwardable(t.srv) => <<t.c, t.srv>> \in trans'
  BY <1>2 DEF Serve
<1>4. TicketType(t) /\ TgtOk(t) /\ FwdOk(t) /\ (t.fwd => h.fwd)
  BY IssuedType, IssuedFwd
<1>5. IsTgs(t.srv) /\ req.kind \in {"self", "proxy"} => IsReferral(req)
  <2>1. t.srv \in DOMAIN cfg.pol => ~IsTgs(t.srv)
    BY PrincFacts DEF IInv, DbInv
  <2>2. req.kind = "self" /\ ~IsReferral(req) => t.srv \in DOMAIN cfg.pol
    BY <1>2, SelfFacts
  <2>3. req.kind = "proxy" /\ ~IsReferral(req) => ~IsTgs(t.srv)
    <3> SUFFICES ASSUME req.kind = "proxy", ~IsReferral(req) PROVE ~IsTgs(t.srv)
      OBVIOUS
    <3>1. ~IsTgs(SearchSprinc(req))
      BY ProxyFacts
    <3> QED BY <1>2, <3>1
  <2> QED BY <2>1, <2>2, <2>3
\* The header of all but a renewal and a forwarding is a TGT.
<1>6. req.kind \notin {"renew", "forward"} => IsTgs(h.srv) /\ (h.own = h.c \/ h.fd)
  BY <1>1, HeaderFacts, KrbtgtFacts DEF TgtOk
<1>7. ASSUME t.fwd, ~IsTgs(t.srv) PROVE <<t.c, t.srv>> \in met' \cup trans'
  <2>1. CASE req.kind = "self"
    <3>1. ~IsReferral(req)
      BY <1>2, <1>7 DEF IsReferral
    <3>2. S4u2SelfForwardable(t.srv)
      BY <1>2, <1>7, <2>1, <3>1 DEF Forwardable
    <3> QED BY <1>3, <2>1, <3>1, <3>2
  <2>2. CASE req.kind = "renew"
    <3>1. t.c = h.c /\ t.srv = h.srv
      BY <1>2, <2>2, ClientFacts, ServerFacts
    <3> QED BY <1>1, <1>3, <1>4, <1>7, <3>1 DEF EvidenceOk
  <2>3. CASE req.kind \notin {"self", "renew"}
    BY <1>3, <1>7, <2>3
  <2> QED BY <2>1, <2>2, <2>3
<1>8. ASSUME IsTgs(t.srv), t.pr, t.by # <<>>, t.by[Len(t.by)] = t.c
      PROVE  <<t.psub, t.c>> \in met' \cup trans'
  <2>1. CASE req.kind = "proxy"
    <3>1. IsReferral(req) /\ ~CrossRealm(req)
      BY <1>5, <1>8, <2>1, ProxyFacts
    <3>2. t.psub = req.e.c /\ t.c = h.c
      BY <1>2, <2>1, <3>1, PacFacts, ClientFacts
    <3>3. req.e.fwd /\ req.e.srv = h.c /\ ~IsTgs(req.e.srv)
      BY <2>1, <3>1, ProxyFacts
    <3> QED BY <1>1, <1>3, <3>2, <3>3 DEF EvidenceOk
  <2>2. CASE req.kind = "self"
    <3>1. t.psub = req.user /\ t.by = h.by /\ t.c = h.c
      BY <1>2, <1>5, <1>8, <2>2, PacFacts, ClientFacts
    <3>2. h.psub = req.user /\ h.pr
      BY <1>8, <2>2, <3>1, SelfFacts
    <3> QED BY <1>1, <1>3, <1>6, <1>8, <2>2, <3>1, <3>2 DEF EvidenceOk
  <2>3. CASE req.kind \notin {"self", "proxy"}
    BY <1>2, <1>8, <2>3, PacFacts, HeaderFacts
  <2> QED BY <2>1, <2>2, <2>3
<1>9. EvidenceOk(t)'
  BY <1>7, <1>8 DEF EvidenceOk, IsTgs
<1>10. IsTgs(h.srv) => h.own # h.srv
  BY <1>1, PrincFacts DEF TicketType, IInv, DbInv
\* A sensitive client.
<1>11. ASSUME t.c \in cfg.nofwd, t.own # t.c PROVE t.srv = t.own \/ (t.fd /\ ~IsTgs(t.srv))
  <2>1. CASE req.kind = "self" /\ ~IsReferral(req)
    <3>1. t.srv = h.c /\ ~IsTgs(t.srv)
      <4>1. t.srv = h.c /\ h.c \in DOMAIN cfg.pol
        BY <1>2, <2>1, SelfFacts
      <4> QED BY <4>1, PrincFacts DEF IInv, DbInv
    <3> QED BY <1>2, <1>6, <2>1, <3>1
  <2>2. CASE req.kind = "proxy" /\ ~IsReferral(req)
    <3>1. t.c \in {req.e.c, req.e.psub}
      BY <1>2, <2>2, ClientFacts
    <3>2. req.e.fwd
      BY <2>2, ProxyFacts
    <3> QED BY <1>1, <1>11, <3>1, <3>2 DEF FwdOk
  <2>3. CASE req.kind \in {"self", "proxy"} => IsReferral(req)
    <3>1. t.c = h.c
      BY <1>2, <2>3, ClientFacts
    <3>2. CASE req.kind = "forward"
      <4>1. h.fwd
        BY <3>2, HeaderFacts
      <4> QED BY <1>1, <1>11, <3>1, <4>1 DEF FwdOk
    <3>3. CASE req.kind = "renew"
      <4>1. t.srv = h.srv
        BY <1>2, <3>3, ServerFacts
      <4> QED BY <1>1, <1>2, <1>11, <3>1, <3>3, <4>1 DEF DelegationOk
    <3>4. CASE req.kind \notin {"renew", "forward"}
      BY <1>1, <1>2, <1>6, <1>10, <1>11, <3>1, <3>4 DEF DelegationOk
    <3> QED BY <3>2, <3>3, <3>4
  <2> QED BY <2>1, <2>2, <2>3
\* A delegated ticket.
<1>12. ASSUME t.own # t.c, ~t.fd, ~IsTgs(t.srv), t.srv # t.own
       PROVE  <<t.own, t.srv>> \in lists /\ <<t.c, t.own>> \in met' \cup trans'
  <2>1. req.kind # "forward" /\ ~h.fd /\ t.own = h.own
    BY <1>2, <1>12
  <2>2. CASE req.kind = "renew"
    <3>1. t.c = h.c /\ t.srv = h.srv
      BY <1>2, <2>2, ClientFacts, ServerFacts
    <3> QED BY <1>1, <1>3, <1>12, <2>1, <3>1 DEF DelegationOk
  <2>3. CASE req.kind = "self"
    <3>1. ~IsReferral(req)
      BY <1>2, <1>12 DEF IsReferral
    <3>2. t.srv = h.c
      BY <1>2, <2>3, <3>1, SelfFacts
    <3> QED BY <1>6, <1>12, <2>1, <2>3, <3>2
  <2>4. CASE req.kind = "proxy"
    <3>1. ~IsReferral(req)
      BY <1>2, <1>12 DEF IsReferral
    <3>2. h.own = h.c
      BY <1>6, <2>1, <2>4
    <3>3. <<h.c, t.srv>> \in lists /\ req.e.fwd
      BY <1>2, <2>4, <3>1, ProxyFacts
    <3>4. CASE CrossRealm(req)
      <4>1. t.c = req.e.psub
        BY <1>2, <2>4, <3>1, <3>4, ClientFacts
      <4>2. /\ IsTgs(req.e.srv) /\ req.e.c = h.c /\ req.e.pr
            /\ req.e.by # <<>> /\ req.e.by[Len(req.e.by)] = req.e.c
        BY <2>4, <3>4, ProxyFacts
      <4> QED BY <1>1, <1>3, <2>1, <3>2, <3>3, <4>1, <4>2 DEF EvidenceOk
    <3>5. CASE ~CrossRealm(req)
      <4>1. t.c = req.e.c
        BY <1>2, <2>4, <3>1, <3>5, ClientFacts
      <4>2. req.e.srv = h.c /\ ~IsTgs(req.e.srv)
        BY <2>4, <3>5, ProxyFacts
      <4> QED BY <1>1, <1>3, <2>1, <3>2, <3>3, <4>1, <4>2 DEF EvidenceOk
    <3> QED BY <3>4, <3>5
  <2>5. CASE req.kind \notin {"renew", "forward", "self", "proxy"}
    <3>1. t.c = h.c
      BY <1>2, <2>5, ClientFacts
    <3> QED BY <1>6, <1>12, <2>1, <2>5, <3>1
  <2> QED BY <2>1, <2>2, <2>3, <2>4, <2>5
<1>13. DelegationOk(t)'
  BY <1>3, <1>4, <1>11, <1>12 DEF DelegationOk, FwdOk, IsTgs
<1> QED BY <1>9, <1>13

-----------------------------------------------------------------------------
(* The steps. *)

\* The ticket of an AS exchange is the head of a chain.
LEMMA AsTicketOk ==
  ASSUME IInv, NEW c, On(c), NEW t, t = AsTicket(c)
  PROVE  TicketOk(t)
<1>1. c \in DOMAIN cfg.pol /\ c \in DOMAIN pol
  BY DEF On, Known, IInv, DbInv
<1>2. /\ t.iss = c.r /\ t.srv = Krbtgt(c.r) /\ t.c = c /\ t.own = c /\ t.tr = {} /\ t.chk = FALSE
      /\ t.fwd = ~Attr(c, "nofwd") /\ t.start = now /\ t.end = now + cfg.life
      /\ t.till = RenewTime([ren |-> TRUE, till |-> now + cfg.rlife], c, Krbtgt(c.r), now + cfg.life)
      /\ t.psub = c /\ t.pr = FALSE /\ t.by = <<>> /\ t.via = {c.r}
      /\ t.root.end = t.end /\ t.root.till = t.till
  BY DEF AsTicket
<1>3. now \in Nat /\ cfg.life \in Nat /\ cfg.rlife \in Nat /\ DbInv
  BY TgsConfigs DEF IInv, DbInv
<1>4. t.till \in Nat /\ t.end \in Nat
  <2>1. PICK h : h = [ren |-> TRUE, till |-> now + cfg.rlife]
    OBVIOUS
  <2>2. h.till \in Nat
    BY <1>3, <2>1
  <2> QED BY <1>2, <1>3, <2>1, <2>2, RenewFacts
<1>5. IsTgs(t.srv) /\ t.srv = Krbtgt(t.srv.r)
  BY <1>2, KrbtgtFacts
<1>6. TicketType(t)
  BY <1>1, <1>2, <1>3, <1>4, <1>5 DEF TicketType
<1>7. TgtOk(t) /\ EvidenceOk(t) /\ DelegationOk(t)
  BY <1>1, <1>2, <1>5 DEF TgtOk, EvidenceOk, DelegationOk, Attr
<1>8. FwdOk(t)
  BY <1>1, <1>2 DEF FwdOk, Attr
<1>9. LifetimeOk(t)
  BY <1>2, <1>4 DEF LifetimeOk
<1>10. TransitOk(t)
  BY <1>2 DEF TransitOk, Endpoints, OnPath
<1> QED BY <1>6, <1>7, <1>8, <1>9, <1>10 DEF TicketOk

LEMMA TransitKept ==
  ASSUME cfg' = cfg, NEW t, TransitOk(t)
  PROVE  TransitOk(t)'
<1>1. ASSUME NEW p PROVE PathRealms(p.r, t.iss)' = PathRealms(p.r, t.iss)
  BY DEF PathRealms
<1>2. Endpoints(t)' = Endpoints(t) /\ Delegator(t)' = Delegator(t)
  BY DEF Endpoints, Delegator
<1> QED BY <1>1, <1>2 DEF TransitOk, OnPath

\* Tickets stay in order while the ghosts grow.
LEMMA TicketKept ==
  ASSUME cfg' = cfg, met \subseteq met', trans \subseteq trans', lists \subseteq lists',
         NEW t, TicketOk(t)
  PROVE  TicketOk(t)'
<1>1. TicketType(t)' /\ TgtOk(t)' /\ FwdOk(t)' /\ LifetimeOk(t)'
  BY DEF TicketOk, TicketType, TgtOk, FwdOk, LifetimeOk, IsTgs, Krbtgt
<1>2. EvidenceOk(t)' /\ DelegationOk(t)'
  BY DEF TicketOk, EvidenceOk, DelegationOk, IsTgs
<1>3. TransitOk(t)'
  BY TransitKept DEF TicketOk
<1> QED BY <1>1, <1>2, <1>3 DEF TicketOk

\* What the administrator may do to the databases.
LEMMA AdminKeeps ==
  ASSUME IInv, NEW p, DOMAIN p = DOMAIN pol, Admin(p)
  PROVE  IInv'
<1>1. cfg' = cfg /\ now' = now /\ tix' = tix /\ met' = met /\ trans' = trans /\ pol' = p
      /\ lists' = lists \cup Listed(p)
  BY DEF Admin
<1>2. DbInv'
  <2>1. Listed(pol)' = Listed(p)
    BY <1>1 DEF Listed
  <2> QED BY <1>1, <2>1 DEF IInv, DbInv
<1>3. \A t \in tix : TicketOk(t)'
  BY <1>1, TicketKept DEF IInv
<1> QED BY <1>1, <1>2, <1>3 DEF IInv

LEMMA ServeKeeps ==
  ASSUME IInv, NEW h \in tix, NEW req \in Requests(h), Serve(h, req)
  PROVE  IInv'
<1>1. Serving(h, req)
  BY DEF Serving, Serve
<1>2. PICK t : t = Issued(req)
  OBVIOUS
<1>3. /\ cfg' = cfg /\ now' = now /\ pol' = pol /\ lists' = lists /\ tix' = tix \cup {t}
      /\ met \subseteq met' /\ trans \subseteq trans'
  BY <1>2 DEF Serve
<1>4. DbInv'
  BY <1>3 DEF IInv, DbInv, Listed
<1>5. TicketOk(t)'
  <2>1. TicketType(t) /\ TgtOk(t) /\ FwdOk(t) /\ LifetimeOk(t) /\ TransitOk(t)
    BY <1>1, <1>2, IssuedType, IssuedFwd, IssuedTimes, IssuedTransit
  <2>2. EvidenceOk(t)' /\ DelegationOk(t)'
    BY <1>1, <1>2, IssuedDelegation
  <2>3. TicketType(t)' /\ TgtOk(t)' /\ FwdOk(t)' /\ LifetimeOk(t)'
    BY <1>3, <2>1 DEF TicketType, TgtOk, FwdOk, LifetimeOk, IsTgs, Krbtgt
  <2>4. TransitOk(t)'
    BY <1>3, <2>1, TransitKept
  <2> QED BY <2>2, <2>3, <2>4 DEF TicketOk
<1>6. \A x \in tix : TicketOk(x)'
  BY <1>3, TicketKept DEF IInv
<1> QED BY <1>3, <1>4, <1>5, <1>6 DEF IInv

LEMMA AsKeeps ==
  ASSUME IInv, NEW c, ProcessAsReq(c)
  PROVE  IInv'
<1>1. PICK t : t = AsTicket(c)
  OBVIOUS
<1>2. /\ On(c) /\ tix' = tix \cup {t} /\ cfg' = cfg /\ now' = now /\ pol' = pol
      /\ met' = met /\ trans' = trans /\ lists' = lists
  BY <1>1 DEF ProcessAsReq
<1>3. DbInv'
  BY <1>2 DEF IInv, DbInv, Listed
<1>4. TicketOk(t)
  BY <1>1, <1>2, AsTicketOk
<1>5. \A x \in tix \cup {t} : TicketOk(x)'
  BY <1>2, <1>4, TicketKept DEF IInv
<1> QED BY <1>2, <1>3, <1>5 DEF IInv

LEMMA InitIInv == Init => IInv
BY DEF Init, IInv, DbInv

LEMMA NextIInv == IInv /\ [Next]_vars => IInv'
<1> SUFFICES ASSUME IInv, [Next]_vars PROVE IInv'
  OBVIOUS
<1>1. CASE ProcessTgsReq
  BY <1>1, ServeKeeps DEF ProcessTgsReq
<1>2. ASSUME NEW c \in cfg.logins, ProcessAsReq(c) PROVE IInv'
  BY <1>2, AsKeeps
<1>3. ASSUME NEW a \in cfg.edited, Modify(a) \/ Remove(a) PROVE IInv'
  BY <1>3, AdminKeeps DEF Modify, Remove
<1>4. ASSUME NEW p \in cfg.pairs, SetTo(p[1], p[2]) \/ SetFrom(p[1], p[2]) PROVE IInv'
  BY <1>4, AdminKeeps DEF SetTo, SetFrom
<1>5. CASE Tick
  <2>1. DbInv'
    BY <1>5 DEF Tick, IInv, DbInv, Listed
  <2>2. \A t \in tix : TicketOk(t)'
    BY <1>5, TicketKept DEF Tick, IInv
  <2> QED BY <1>5, <2>1, <2>2 DEF Tick, IInv
<1>6. CASE UNCHANGED vars
  <2>1. DbInv'
    BY <1>6 DEF vars, IInv, DbInv, Listed
  <2>2. \A t \in tix : TicketOk(t)'
    BY <1>6, TicketKept DEF vars, IInv
  <2> QED BY <1>6, <2>1, <2>2 DEF vars, IInv
<1> QED BY <1>1, <1>2, <1>3, <1>4, <1>5, <1>6 DEF Next

LEMMA Inductive == Spec => []IInv
BY InitIInv, NextIInv, PTL DEF Spec

-----------------------------------------------------------------------------
(* The theorems. *)

\* The way of the header tickets a ticket was asked with is told and judged,
\* through any number of realms, referrals, renewals and delegations, and with
\* reject_bad_transit no ticket, evidence included, came off the configured
\* path (add_to_transited, check_transited_list, process_tgs_req).
THEOREM PathTold == Spec => []TransitSound
<1>1. IInv => TransitSound
  BY DEF IInv, TicketOk, TransitOk, TransitSound, TransitedComplete, CheckedHonest, RejectHolds
<1> QED BY <1>1, Inductive, PTL

\* No chain of forwarding, S4U2Self and S4U2Proxy delegates a user without a
\* list and evidence, nor a user who must not be delegated
\* (check_tgs_s4u2proxy, check_s4u2proxy_policy, get_ticket_flags).
THEOREM DelegationAllowed == Spec => []DelegationSound
<1>1. IInv => DelegationSound
  BY DEF IInv, TicketOk, DelegationOk, DelegationSound, SensitiveKept, Delegated
<1> QED BY <1>1, Inductive, PTL

\* A step that issues a ticket to a client of its own realm finds the client
\* enabled, when tgs_recheck_client is set.
LEMMA NewTicketOn ==
  ASSUME IInv, [Next]_vars, NEW t \in tix' \ tix, cfg.recheck, t.c.r = t.iss
  PROVE  On(t.c)
<1>1. CASE ProcessTgsReq
  <2>1. PICK h \in tix : \E req \in Requests(h) : Serve(h, req)
    BY <1>1 DEF ProcessTgsReq
  <2>2. PICK req \in Requests(h) : Serve(h, req)
    BY <2>1
  <2>3. Serving(h, req) /\ t = Issued(req) /\ RecheckOk(req)
    BY <2>2 DEF Serving, Serve, Accepted
  <2>4. req.h = h /\ t.c = TktClient(req) /\ t.iss = req.at
    BY <2>3, HeaderFacts, IssuedFields
  <2>5. CASE req.kind = "self" /\ ~IsReferral(req)
    <3>1. t.c = req.user
      BY <2>3, <2>4, <2>5, ClientFacts
    <3> QED BY <2>3, <2>4, <2>5, <3>1, SelfFacts
  <2>6. CASE req.kind = "proxy" /\ ~IsReferral(req)
    <3>1. t.c = SubjectClient(req)
      BY <2>4, <2>6 DEF TktClient
    <3> QED BY <2>3, <2>4, <2>6, <3>1 DEF RecheckOk
  <2>7. CASE req.kind \in {"self", "proxy"} => IsReferral(req)
    <3>1. t.c = h.c
      BY <2>3, <2>4, <2>7, ClientFacts
    <3> QED BY <2>3, <2>4, <3>1 DEF RecheckOk
  <2> QED BY <2>5, <2>6, <2>7
<1>2. ASSUME NEW c \in cfg.logins, ProcessAsReq(c) PROVE On(t.c)
  <2>1. t = AsTicket(c) /\ On(c)
    BY <1>2 DEF ProcessAsReq
  <2>2. t.c = c
    BY <2>1 DEF AsTicket
  <2> QED BY <2>1, <2>2
<1>3. CASE UNCHANGED tix
  BY <1>3
<1> QED BY <1>1, <1>2, <1>3 DEF Next, Modify, Remove, SetTo, SetFrom, Admin, Tick, vars

\* Tickets outlive neither what the AS exchange allowed nor, with
\* tgs_recheck_client, the account they are for (get_ticket_endtime, the
\* RENEW arithmetic and the re-checks of process_tgs_req).
THEOREM NoneOutlives == Spec => NothingOutlives
<1>1. IInv => Lifetime
  BY DEF IInv, TicketOk, LifetimeOk, Lifetime
<1>2. IInv /\ [Next]_vars =>
        [\A t \in tix' \ tix : cfg.recheck /\ t.c.r = t.iss => On(t.c)]_vars
  BY NewTicketOn
<1> QED BY <1>1, <1>2, Inductive, PTL DEF NothingOutlives, DisabledStops, Spec
=============================================================================
