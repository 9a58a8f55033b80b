----------------------------- MODULE MCTgsClient -----------------------------
(***************************************************************************)
(* Programs of two calls at most, over one FILE cache or a DIR collection. *)
(***************************************************************************)
EXTENDS TgsClient

MCTexts == {"", "none", "error", "any", "u2u", "krbtgt", "else", "me", "eve", "usr", "web", "web2", "bad", "user",
            "ev"} \cup Realms

me == Princ(<<"me">>, "A")
eve == Princ(<<"eve">>, "B")
usr == Princ(<<"usr">>, "B")
web == <<"web">>
web2 == <<"web2">>

Tgt(p, e) == [NoCred EXCEPT !.c = p, !.s = Tgs(p.r), !.sr = p.r, !.end = e, !.tc = p, !.ts = Tgs(p.r)]
FileOf(p, creds) == [st |-> "ok", p |-> p, recs |-> creds]
J == [kind |-> "get", cl |-> me, s |-> web, sr |-> "", user |-> None, id |-> None, ev |-> "none", sel |-> FALSE,
      cached |-> FALSE, canon |-> FALSE, u2u |-> FALSE, nostore |-> FALSE, ent |-> FALSE]
NoPa == [k |-> "none", p |-> None]
BadPa == [k |-> "bad", p |-> None]
Pa(p) == [k |-> "user", p |-> p]

Base == [maxTime |-> 0, maxOther |-> 0, dir |-> FALSE, ident |-> None, host |-> "none", others |-> {eve},
         hosts |-> [h \in {web} |-> web2], clients |-> {me, eve}, srealms |-> {"A", "B"}, padata |-> {NoPa},
         files |-> [n \in Names |-> IF n = "tkt" THEN FileOf(me, <<Tgt(me, 0)>>) ELSE NoFile],
         jobs |-> {}]

\* Services in this realm, in another and behind referrals, with names to
\* try, the same call made twice.
Gets == [Base EXCEPT !.maxTime = 1, !.maxOther = 1, !.srealms = {"A"},
           !.jobs = {<<[J EXCEPT !.sr = r, !.canon = c]>> : r \in {"", "B"}, c \in BOOLEAN}
                    \cup {<<[J EXCEPT !.u2u = TRUE], [J EXCEPT !.u2u = TRUE]>>}]

\* S4U2Self for a named user, an enterprise name and a certificate.
Selfs == [Base EXCEPT !.clients = {me, usr, eve}, !.srealms = Realms, !.padata = {NoPa, BadPa, Pa(usr), Pa(eve)},
            !.files = [n \in Names |-> IF n = "tkt" THEN FileOf(me, <<Tgt(me, 1)>>) ELSE NoFile],
            !.jobs = {<<[J EXCEPT !.kind = "self", !.s = <<>>, !.user = u, !.ent = TRUE]>> : u \in {usr, Princ(<<"usr">>, "A")}}
                     \cup {<<[J EXCEPT !.kind = "self", !.s = <<>>, !.user = usr], [J EXCEPT !.kind = "self", !.s = <<>>, !.user = usr, !.cached = TRUE]>>}
                     \cup {<<[J EXCEPT !.kind = "self", !.s = <<>>, !.nostore = TRUE]>>}]

\* S4U2Proxy with the evidence of usr, twice.
Proxies == [Base EXCEPT !.clients = {me, usr}, !.srealms = Realms, !.hosts = [h \in {} |-> web],
              !.jobs = {<<j, j>> : j \in {[J EXCEPT !.kind = "proxy", !.user = usr, !.ev = "ev"]}}]

\* A collection: selection by identity, realm, host or default; passwords.
Cols == [Base EXCEPT !.dir = TRUE, !.maxOther = 2, !.others = {me, eve}, !.hosts = [h \in {} |-> web],
           !.clients = {me, eve},
           !.jobs = {<<[J EXCEPT !.kind = "password"]>>,
                     <<[J EXCEPT !.kind = "password"], [J EXCEPT !.sel = TRUE, !.nostore = TRUE]>>}]

\* The client's cache has no TGT that is still valid, another client has the
\* default cache, or there is no cache yet.
AsksKdc(f, k) ==
  [Cols EXCEPT !.maxTime = 1, !.maxOther = k, !.files = [n \in Names |-> IF n = "tkt" THEN f ELSE NoFile]]

MCConfigs ==
  {Gets, Selfs, Proxies, Cols,
   AsksKdc(FileOf(me, <<Tgt(me, 0)>>), 1), AsksKdc(FileOf(eve, <<Tgt(eve, 1)>>), 0), AsksKdc(NoFile, 0),
   [Cols EXCEPT !.ident = eve, !.files = [n \in Names |-> IF n = "tkt" THEN FileOf(me, <<Tgt(me, 1)>>) ELSE FileOf(eve, <<Tgt(eve, 1)>>)],
                !.maxOther = 1, !.jobs = {<<[J EXCEPT !.sel = TRUE]>>}],
   [Cols EXCEPT !.host = "B", !.files = [n \in Names |-> IF n = "tkt" THEN FileOf(me, <<Tgt(me, 1)>>) ELSE FileOf(eve, <<Tgt(eve, 1)>>)],
                !.maxOther = 1, !.jobs = {<<[J EXCEPT !.sel = TRUE, !.sr = r]>> : r \in {"", "A"}}]}
=============================================================================
