-------------------------- MODULE TgsClient_proofs --------------------------
(***************************************************************************)
(* Proofs about TgsClient, for every program, cache, KDC and other program *)
(* the settings describe: a call returns the ticket of the principals it   *)
(* was made for (RightTicket).                                             *)
(***************************************************************************)
EXTENDS TgsClient, SequenceTheorems, WellFoundedInduction, TLAPS

-----------------------------------------------------------------------------
(* The inductive invariant *)

Files == CacheFiles(cfg)
Good == Honest(cfg)
Calls == {j \in Jobs : j.canon => CanonAsked(cfg)}

Others == [pc : {"idle", "header", "store", "append", "scan", "cut", "write"}, n : Names \cup {"none"}, p : Principals, data : Files]
Exchanges ==
  [mode : {"plain", "self", "proxy"}, tgt : Creds, target : Components, canon : BOOLEAN, ref : BOOLEAN,
   seen : SUBSET Texts, hops : Nat, first : BOOLEAN, steps : Nat, svc : Principals, user : Principals,
   refs : SUBSET (Components \X Texts), phase : {"first", "target", "proxytgt", "final"}, ptgt : Creds,
   ttgt : Creds, trealm : Texts, evc : Principals]
Requests ==
  [c : Principals, s : Components, sr : Texts, canon : BOOLEAN, u2u : BOOLEAN, nostore : BOOLEAN, cached : BOOLEAN,
   then : {"return", "self.run", "proxy.run"}]
Stores == [cred : Good, must : BOOLEAN, next : {"none", "get.svc", "get.done", "proxy.done", "return"}]
Results == [k : {"none", "ok", "err"}, cred : Good]
Labels ==
  {"idle", "return", "store", "append", "get.check", "get.cand", "get.local", "get.realm", "get.svc", "get.done", "select",
   "principal", "self.check", "self.ident", "self.run", "self.final", "proxy.check", "proxy.cand", "proxy.run",
   "proxy.done", "password", "local", "default", "empty", "as", "truncate", "header"}

\* Whatever lies in a cache is a ticket under the names it was issued for,
\* and so is what the other program is about to write.
CachesOK ==
  /\ cfg \in Configs /\ now \in Nat
  /\ primary \in {"none", "tkt", "tktX"}
  /\ files \in [Names -> Files]
  /\ oth \in Others
  /\ oth.pc # "idle" => oth.n \in Names
  /\ oth.pc \in {"header", "store", "append"} => oth.p # None
  /\ oth.pc \in {"scan", "cut", "write"} => oth.data.p # None

\* The names a server is asked for under.
HostNames(s) == {s} \cup (IF s \in DOMAIN cfg.hosts THEN {cfg.hosts[s]} ELSE {})

\* Where the call is, or goes on once its credential is stored.
At(l) == pc = l \/ (pc \in {"store", "append"} /\ sto.next = l)

TypesOK ==
  /\ pc \in Labels /\ left \in Seq(Calls) /\ cache \in Names
  /\ ex \in Exchanges /\ req \in Requests /\ sto \in Stores /\ res \in Results
  /\ pc # "idle" => job \in Calls /\ pcand \in Seq(HostNames(job.s))
  /\ pc \in {"store", "append"} => sto.next # "none"

\* What each label is part of.
KindOK ==
  /\ pc \in {"select", "principal"} => job.kind = "get"
  /\ pc \in {"self.check", "self.ident", "self.run", "self.final"} => job.kind = "self"
  /\ pc \in {"proxy.check", "proxy.cand", "proxy.run"} \/ At("proxy.done") => job.kind = "proxy"
  /\ pc \in {"password", "local", "default", "empty", "as", "truncate", "header"} => job.kind = "password"

\* get_credentials works for the call's own client, for the server of the
\* call or for a TGT that the S4U exchange after it needs.
GetOK ==
  pc \in {"get.check", "get.cand", "get.local", "get.realm"} \/ At("get.svc") \/ At("get.done") =>
    /\ req.c = job.cl /\ req.canon = job.canon
    /\ req.then = "return" => job.kind = "get" /\ req.s = job.s
    /\ req.then = "self.run" => job.kind = "self"
    /\ req.then = "proxy.run" => job.kind = "proxy" /\ pcand # <<>>

PlainOK ==
  /\ pc \in {"get.cand", "get.local", "get.realm"} \/ At("get.svc") => cand \in Seq(HostNames(req.s))
  /\ pc = "get.local" => cand # <<>>
  /\ pc = "get.realm" \/ At("get.svc") =>
       cand # <<>> /\ ex.mode = "plain" /\ ex.tgt.c = req.c /\ ex.canon = req.canon
  /\ At("get.svc") => ex.target \in HostNames(req.s)
  /\ At("get.done") => res.k = "ok" /\ res.cred.c = req.c /\ res.cred.s = req.s

SelfOK ==
  /\ pc = "self.run" => ex.mode = "self" /\ ~ex.first /\ ex.svc = job.cl /\ ex.tgt.c = job.cl
  /\ pc = "self.final" =>
       /\ res.k = "ok" /\ res.cred.s = job.cl.n
       /\ res.cred.c = ex.user /\ res.cred.c # job.cl /\ res.cred.c # None

\* An S4U2Proxy exchange for the service c: both chains stay with it, and the
\* TGT kept for the last request is for the realm the proxy TGT is asked for.
Chains(e, c) ==
  /\ e.mode = "proxy" /\ ~e.first
  /\ e.tgt.c = c /\ e.tgt.tc = c
  /\ e.phase # "first" => e.ptgt.c = c /\ e.ptgt.tc = c
  /\ e.phase = "proxytgt" => e.ttgt.c = c /\ e.ttgt.tc = c /\ TgtRealm(e.ttgt) = e.trealm
  /\ e.phase = "final" => TgtRealm(e.tgt) = e.trealm /\ TgtRealm(e.ptgt) = e.trealm

ProxyOK ==
  /\ pc = "proxy.run" => Chains(ex, job.cl) /\ ex.evc = job.user /\ ex.target \in HostNames(job.s)
  /\ At("proxy.done") => res.k = "ok" /\ res.cred.s = job.s

PasswordOK ==
  pc \in {"truncate", "header"} => res.k = "ok" /\ res.cred.c # None

\* The answer, once it is there.
AnswerOK ==
  At("return") /\ res.k = "ok" =>
    /\ job.kind = "get" => res.cred.c = job.cl /\ res.cred.s = job.s
    /\ job.kind = "self" => /\ res.cred.s = job.cl.n
                            /\ res.cred.c \in {job.user, job.id, ex.user}
                            /\ res.cred.c = job.cl => job.cl \in {job.user, job.id}
    /\ job.kind = "proxy" => res.cred.c = job.user /\ res.cred.s = job.s
    /\ job.kind = "password" /\ sto = NoSto => res.cred.c = job.cl /\ res.cred.s = Tgs(job.cl.r)

CallOK == GetOK /\ PlainOK /\ SelfOK /\ ProxyOK /\ PasswordOK /\ AnswerOK
ClientInv == CachesOK /\ TypesOK /\ KindOK /\ CallOK

\* While no other program was at the caches: the one that a password call
\* works on, from the match or the truncation to the answer.
Kept(f, t) == Opened(f) /\ Principal(f) = t.c /\ \E i \in DOMAIN f.recs : f.recs[i] = t
Made(f) ==
  /\ pc = "local" => Opened(f) /\ Principal(f) = job.cl
  /\ pc = "header" => f = Torn
  /\ pc \in {"store", "append"} => /\ sto.cred = res.cred /\ sto.next = "return"
                                   /\ f = [st |-> "ok", p |-> res.cred.c, recs |-> <<>>]
  /\ pc = "return" /\ res.k = "ok" => Kept(f, res.cred)

HeldInv ==
  /\ did \in Nat
  /\ did = 0 => oth.pc = "idle" /\ (pc # "idle" /\ job.kind = "password" => Made(files[cache]))

-----------------------------------------------------------------------------
(* Credentials and caches *)

LEMMA TextsAre == {"", "none", "error", "any", "u2u", "krbtgt", "else"} \subseteq Texts /\ Realms \subseteq Texts
BY TextsAssumption

LEMMA NoneIs == None \in Principals /\ <<>> \in Components
<1>1. "none" \in Texts
  BY TextsAre
<1> QED BY <1>1 DEF None, Princ, Principals, Components

LEMMA TgsIs ==
  ASSUME NEW r \in Texts
  PROVE  Tgs(r) \in Components /\ IsTgs(Tgs(r)) /\ Tgs(r)[2] = r
<1>1. Tgs(r) \in Components
  <2>1. "krbtgt" \in Texts
    BY TextsAre
  <2> QED BY <2>1 DEF Tgs, Components
<1>2. IsTgs(Tgs(r))
  BY DEF Tgs, IsTgs
<1>3. Tgs(r)[2] = r
  BY DEF Tgs
<1> QED BY <1>1, <1>2, <1>3

LEMMA NoCredGood == NoCred \in Creds /\ NoCred \in Good
<1>1. NoCred \in Creds
  <2>1. "none" \in Texts
    BY TextsAre
  <2> QED BY <2>1, NoneIs DEF NoCred, Creds
<1> QED BY <1>1 DEF NoCred, Good, Honest, SameServer

LEMMA GoodIs ==
  ASSUME NEW t \in Good
  PROVE  t \in Creds /\ t.tc = t.c /\ SameServer(cfg, t)
BY DEF Good, Honest

LEMMA FilesIs ==
  ASSUME NEW f \in Files
  PROVE  /\ f \in [st : {"none", "torn", "mess", "ok", "junk"}, p : Principals, recs : Seq(Good)]
         /\ Opened(f) => f.p # None
BY DEF Files, CacheFiles, Good

LEMMA IsFile ==
  ASSUME NEW st \in {"none", "torn", "mess", "ok", "junk"}, NEW p \in Principals, NEW recs \in Seq(Good),
         st \in {"ok", "junk"} => p # None
  PROVE  [st |-> st, p |-> p, recs |-> recs] \in Files
BY DEF Files, CacheFiles, Good, Opened

LEMMA FromRepGood ==
  ASSUME NEW r, r.c \in Principals, r.sn \in Components, r.sr \in Texts, r.okd \in BOOLEAN, now \in Nat
  PROVE  /\ FromRep(r) \in Creds /\ FromRep(r) \in Good
         /\ FromRep(r).c = r.c /\ FromRep(r).tc = r.c /\ FromRep(r).s = r.sn /\ FromRep(r).ts = r.sn
<1>1. FromRep(r) \in Creds
  <2>1. "none" \in Texts
    BY TextsAre
  <2> QED BY <2>1 DEF FromRep, Creds
<1>2. FromRep(r).c = r.c /\ FromRep(r).tc = r.c /\ FromRep(r).s = r.sn /\ FromRep(r).ts = r.sn
  BY DEF FromRep
<1> QED BY <1>1, <1>2 DEF Good, Honest, SameServer

LEMMA OwnTgtGood ==
  ASSUME NEW p \in Principals, now \in Nat
  PROVE  /\ OwnTgt(p) \in Good /\ OwnTgt(p).c = p /\ OwnTgt(p).s = Tgs(p.r)
<1>1. OwnTgt(p) \in Creds
  <2>1. "none" \in Texts /\ p.r \in Texts /\ Tgs(p.r) \in Components
    BY TextsAre, TgsIs DEF Principals
  <2> QED BY <2>1 DEF OwnTgt, Creds
<1>2. OwnTgt(p).c = p /\ OwnTgt(p).tc = p /\ OwnTgt(p).s = Tgs(p.r) /\ OwnTgt(p).ts = Tgs(p.r)
  BY DEF OwnTgt
<1> QED BY <1>1, <1>2 DEF Good, Honest, SameServer

LEMMA SmallestIndex ==
  ASSUME NEW S \in SUBSET Nat, S # {}
  PROVE  (CHOOSE i \in S : \A j \in S : i <= j) \in S
<1> DEFINE R == OpToRel(<, Nat)
<1>1. \A a, b \in Nat : a < b => <<a, b>> \in R
  BY Zenon DEF OpToRel
<1> HIDE DEF R
<1>2. PICK m \in S : \A z \in S : ~(<<z, m>> \in R)
  <2>1. IsWellFoundedOn(R, Nat)
    BY NatLessThanWellFounded, Zenon DEF R
  <2> QED BY <2>1, WFMin, Zenon
<1>3. \A z \in S : m <= z
  <2> TAKE z \in S
  <2>1. ~(z < m)
    BY <1>1, <1>2, Zenon
  <2> QED BY <2>1
<1> QED BY <1>3, Zenon

\* retrieve_in finds a ticket of the cache that matches.
LEMMA RetrieveIs ==
  ASSUME NEW f \in Files, NEW m
  PROVE  /\ Retrieve(f, m).k \in {"error", "miss", "hit"}
         /\ Retrieve(f, m).cred \in Good
         /\ Retrieve(f, m).k = "hit" => CredsMatch(m, Retrieve(f, m).cred)
<1> DEFINE hit == {i \in DOMAIN f.recs : CredsMatch(m, f.recs[i])}
           least == CHOOSE i \in hit : \A j \in hit : i <= j
<1>1. f.recs \in Seq(Good)
  BY FilesIs
<1>2. hit # {} => least \in hit
  <2>1. hit \in SUBSET Nat
    BY <1>1
  <2> QED BY <2>1, SmallestIndex
<1>3. \A i \in hit : f.recs[i] \in Good /\ CredsMatch(m, f.recs[i])
  BY <1>1
<1> HIDE DEF least
<1>4. Retrieve(f, m) = IF f.st # "ok" THEN [k |-> "error", cred |-> NoCred]
                       ELSE IF hit = {} THEN [k |-> "miss", cred |-> NoCred]
                       ELSE [k |-> "hit", cred |-> f.recs[least]]
  BY Zenon DEF Retrieve, least
<1> HIDE DEF hit
<1> QED BY <1>2, <1>3, <1>4, NoCredGood

LEMMA MatchIs ==
  ASSUME NEW f \in Files, NEW m, Retrieve(f, m).k = "hit"
  PROVE  /\ m.c # None => Retrieve(f, m).cred.c = m.c
         /\ Retrieve(f, m).cred.s = m.s
BY RetrieveIs DEF CredsMatch

LEMMA AppendedIs ==
  ASSUME NEW f \in Files, NEW t \in Good
  PROVE  Appended(f, t) \in Files
<1>1. /\ f.st \in {"none", "torn", "mess", "ok", "junk"} /\ f.p \in Principals /\ f.recs \in Seq(Good)
      /\ f = [st |-> f.st, p |-> f.p, recs |-> f.recs]
      /\ f.st \in {"ok", "junk"} => f.p # None
  BY FilesIs DEF Opened
<1>2. CASE f.st = "ok"
  <2>1. Appended(f, t) = [st |-> "ok", p |-> f.p, recs |-> Append(f.recs, t)]
    BY <1>1, <1>2 DEF Appended
  <2>2. Append(f.recs, t) \in Seq(Good)
    BY <1>1
  <2> QED BY <1>1, <1>2, <2>1, <2>2, IsFile
<1>3. CASE f.st \in {"torn", "mess"}
  <2>1. Appended(f, t) = [st |-> "mess", p |-> f.p, recs |-> f.recs]
    BY <1>1, <1>3 DEF Appended
  <2> QED BY <1>1, <2>1, IsFile
<1>4. CASE f.st \notin {"ok", "torn", "mess"}
  BY <1>4 DEF Appended
<1> QED BY <1>2, <1>3, <1>4

LEMMA HeaderIs ==
  ASSUME NEW f \in Files, NEW p \in Principals, p # None, NEW g \in HeaderOver(f, p)
  PROVE  g \in Files
<1>1. /\ f.st \in {"none", "torn", "mess", "ok", "junk"} /\ f.p \in Principals /\ f.recs \in Seq(Good)
      /\ f = [st |-> f.st, p |-> f.p, recs |-> f.recs]
      /\ f.st \in {"ok", "junk"} => f.p # None
  BY FilesIs DEF Opened
<1>2. <<>> \in Seq(Good)
  OBVIOUS
<1>3. [st |-> "ok", p |-> p, recs |-> <<>>] \in Files /\ [st |-> "junk", p |-> p, recs |-> <<>>] \in Files
  BY <1>2, IsFile
<1>4. [f EXCEPT !.p = p] \in Files
  <2>1. [f EXCEPT !.p = p] = [st |-> f.st, p |-> p, recs |-> f.recs]
    BY <1>1
  <2> QED BY <1>1, <2>1, IsFile
<1>5. CASE f.st = "torn"
  BY <1>3, <1>5 DEF HeaderOver
<1>6. CASE f.st = "mess"
  BY <1>3, <1>6 DEF HeaderOver
<1>7. CASE f.st = "none"
  BY <1>7 DEF HeaderOver
<1>8. CASE f.st \in {"ok", "junk"}
  <2>1. HeaderOver(f, p) = {f, [f EXCEPT !.p = p], [st |-> "junk", p |-> p, recs |-> <<>>]}
    BY <1>8 DEF HeaderOver
  <2> QED BY <1>3, <1>4, <2>1
<1> QED BY <1>1, <1>5, <1>6, <1>7, <1>8

LEMMA TornIs == NoFile \in Files /\ Torn \in Files
<1>1. <<>> \in Seq(Good)
  OBVIOUS
<1>2. Torn = [st |-> "torn", p |-> None, recs |-> <<>>]
  BY DEF Torn, NoFile
<1> QED BY <1>1, <1>2, NoneIs, IsFile DEF NoFile

\* The first of some caches is one of them.
LEMMA FirstIs ==
  ASSUME NEW these
  PROVE  First(these) = "none" \/ First(these) \in these
<1> DEFINE hit == Collection \cap these
<1>1. hit # {} => (CHOOSE n \in hit : TRUE) \in hit
  BY Zenon
<1> QED BY <1>1 DEF First

LEMMA CacheMatchIs ==
  ASSUME NEW p
  PROVE  CacheMatch(p) = "none" \/ CacheMatch(p) \in Names
BY FirstIs DEF CacheMatch

LEMMA SelectIs ==
  ASSUME primary \in {"none", "tkt", "tktX"}, NEW sr
  PROVE  SelectCache(sr) = "error" \/ SelectCache(sr) \in Names
<1>1. Default \in Names
  BY DEF Default, ReadPrimary, Names
<1>2. RealmChoose(sr) = "none" \/ RealmChoose(sr) \in Names
  BY FirstIs DEF RealmChoose
<1>3. HostnameChoose(cfg.host) \in {"none", "error"} \/ HostnameChoose(cfg.host) \in Names
  BY FirstIs DEF HostnameChoose
<1> QED BY <1>1, <1>2, <1>3, CacheMatchIs DEF SelectCache

-----------------------------------------------------------------------------
(* The steps of the other program *)

LEMMA Static ==
  ASSUME cfg' = cfg
  PROVE  /\ Files' = Files /\ Good' = Good /\ Calls' = Calls /\ Others' = Others
         /\ Stores' = Stores /\ Results' = Results
         /\ \A s : HostNames(s)' = HostNames(s)
<1>1. Files' = Files /\ Good' = Good /\ Calls' = Calls
  BY DEF Files, Good, Calls
<1> QED BY <1>1 DEF Others, Stores, Results, HostNames

LEMMA FilesKept ==
  ASSUME cfg' = cfg, files \in [Names -> Files], NEW n, NEW f \in Files, files' = [files EXCEPT ![n] = f]
  PROVE  files' \in [Names -> Files']
BY Static

LEMMA OthersIs ==
  ASSUME NEW o \in Others
  PROVE  /\ o = [pc |-> o.pc, n |-> o.n, p |-> o.p, data |-> o.data]
         /\ o.pc \in {"idle", "header", "store", "append", "scan", "cut", "write"}
         /\ o.n \in Names \cup {"none"} /\ o.p \in Principals /\ o.data \in Files
BY DEF Others

LEMMA IdleIs == Idle \in Others /\ Idle.pc = "idle"
BY TornIs, NoneIs DEF Idle, Others

\* remove_cred without the i-th record
LEMMA CutIs ==
  ASSUME NEW S, NEW q \in Seq(S), NEW i \in 1..3, i <= Len(q)
  PROVE  SubSeq(q, 1, i - 1) \o SubSeq(q, i + 1, Len(q)) \in Seq(S)
<1>1. SubSeq(q, 1, i - 1) \in Seq(S)
  BY SubSeqProperties
<1>2. SubSeq(q, i + 1, Len(q)) \in Seq(S)
  BY SubSeqProperties
<1> QED BY <1>1, <1>2, ConcatProperties

LEMMA CutFile ==
  ASSUME NEW f \in Files, NEW q \in Seq(Good)
  PROVE  [f EXCEPT !.recs = q] \in Files /\ [f EXCEPT !.recs = q].p = f.p
<1>1. /\ f.st \in {"none", "torn", "mess", "ok", "junk"} /\ f.p \in Principals
      /\ f = [st |-> f.st, p |-> f.p, recs |-> f.recs]
      /\ f.st \in {"ok", "junk"} => f.p # None
  BY FilesIs DEF Opened
<1>2. [f EXCEPT !.recs = q] = [st |-> f.st, p |-> f.p, recs |-> q]
  BY <1>1
<1> QED BY <1>1, <1>2, IsFile

LEMMA JunkFile ==
  ASSUME NEW f \in Files, f.p # None
  PROVE  /\ [f EXCEPT !.st = "junk", !.recs = <<>>] \in Files
         /\ [f EXCEPT !.st = "junk", !.recs = <<>>].p = f.p
<1>1. f \in [st : {"none", "torn", "mess", "ok", "junk"}, p : Principals, recs : Seq(Good)]
  BY FilesIs
<1>0. <<>> \in Seq(Good)
  OBVIOUS
<1>q. PICK q \in Seq(Good) : q = <<>>
  BY <1>0, Zenon
<1>2. PICK g : g = [f EXCEPT !.st = "junk", !.recs = q]
  OBVIOUS
<1>3. g \in [st : {"none", "torn", "mess", "ok", "junk"}, p : Principals, recs : Seq(Good)]
  BY <1>1, <1>2
<1>4. g.p = f.p
  BY <1>1, <1>2
<1> QED BY <1>q, <1>2, <1>3, <1>4 DEF Files, CacheFiles, Good

LEMMA ScanKeeps ==
  ASSUME CachesOK, NEW i \in 1..3, OtherRemoveScan(i)
  PROVE  CachesOK'
<1>1. cfg' = cfg /\ now' = now /\ files' = files /\ primary' = primary
  BY DEF OtherRemoveScan
<1>2. /\ oth \in Others /\ oth.pc = "scan" /\ oth.n \in Names /\ oth.data.p # None
      /\ oth.data \in Files
  BY OthersIs DEF OtherRemoveScan, CachesOK
<1> DEFINE old == oth.data
           cut == SubSeq(old.recs, 1, i - 1) \o SubSeq(old.recs, i + 1, Len(old.recs))
<1>3. old \in Files /\ old.p # None /\ old.recs \in Seq(Good)
  BY <1>2, FilesIs
<1>4. i <= Len(old.recs) => cut \in Seq(Good)
  BY <1>3, CutIs
<1>5. i <= Len(old.recs) =>
         [old EXCEPT !.recs = cut] \in Files /\ [old EXCEPT !.recs = cut].p = old.p
  BY <1>3, <1>4, CutFile
<1>6. [old EXCEPT !.st = "junk", !.recs = <<>>] \in Files /\ [old EXCEPT !.st = "junk", !.recs = <<>>].p = old.p
  BY <1>3, JunkFile
<1>7. \/ oth' = Idle
      \/ \E d \in Files : d.p = old.p /\ oth' = [oth EXCEPT !.pc = "cut", !.data = d]
  <2>1. \/ oth' = Idle
        \/ i <= Len(old.recs) /\ oth' = [oth EXCEPT !.pc = "cut", !.data = [old EXCEPT !.recs = cut]]
        \/ oth' = [oth EXCEPT !.pc = "cut", !.data = [old EXCEPT !.st = "junk", !.recs = <<>>]]
    BY <1>3 DEF OtherRemoveScan
  <2> HIDE DEF cut
  <2> QED BY <2>1, <1>5, <1>6
<1>8. CASE oth' = Idle
  BY <1>1, <1>8, Static, IdleIs DEF CachesOK
<1>9. ASSUME NEW d \in Files, d.p = old.p, oth' = [oth EXCEPT !.pc = "cut", !.data = d]
      PROVE  CachesOK'
  <2>1. oth' = [pc |-> "cut", n |-> oth.n, p |-> oth.p, data |-> d]
    <3>1. oth = [pc |-> oth.pc, n |-> oth.n, p |-> oth.p, data |-> oth.data]
      BY <1>2, OthersIs
    <3>2. oth' = [oth EXCEPT !.pc = "cut", !.data = d]
      BY <1>9
    <3> QED BY <3>1, <3>2
  <2>2. oth' \in Others /\ oth'.pc = "cut" /\ oth'.n \in Names /\ oth'.data.p # None
    BY <1>2, <1>9, <2>1, OthersIs DEF Others
  <2> QED BY <1>1, <2>2, Static DEF CachesOK
<1> QED BY <1>7, <1>8, <1>9

LEMMA OtherKeeps ==
  ASSUME CachesOK, Other
  PROVE  CachesOK' /\ cfg' = cfg
<1>0. cfg' = cfg
  BY DEF Other, OtherTruncate, OtherHeader, OtherStore, OtherAppend, OtherDestroy, OtherSwitch, OtherRemoveRead,
         OtherRemoveScan, OtherRemoveTruncate, OtherRemoveWrite, Tick
<1> USE <1>0
<1>i. ClientConfigs /\ cfg \in Configs
  BY ClientConfigs DEF CachesOK
<1>1. ASSUME NEW n \in Names, NEW p \in cfg.others, OtherTruncate(n, p)
      PROVE  CachesOK'
  <2>1. p \in Principals /\ p # None
    BY <1>i DEF ClientConfigs
  <2>2. oth' = [pc |-> "header", n |-> n, p |-> p, data |-> NoFile]
    BY <1>1 DEF OtherTruncate, Begin, Idle
  <2>3. oth' \in Others /\ oth'.n \in Names /\ oth'.p # None /\ oth'.pc = "header"
    BY <2>1, <2>2, TornIs DEF Others
  <2>4. files' \in [Names -> Files']
    BY <1>1, TornIs, FilesKept DEF OtherTruncate, CachesOK
  <2> QED BY <1>1, <2>3, <2>4, Static DEF CachesOK, OtherTruncate
<1>2. CASE OtherHeader
  <2>1. oth \in Others /\ oth.pc = "header" /\ oth.n \in Names /\ oth.p # None
    BY <1>2 DEF OtherHeader, CachesOK
  <2>2. oth' = [pc |-> "store", n |-> oth.n, p |-> oth.p, data |-> oth.data]
    BY <1>2, <2>1, OthersIs DEF OtherHeader
  <2>3. oth' \in Others /\ oth'.n \in Names /\ oth'.p # None /\ oth'.pc = "store"
    BY <2>1, <2>2, OthersIs DEF Others
  <2>4. files[oth.n] \in Files
    BY <2>1 DEF CachesOK
  <2>5. PICK f \in HeaderOver(files[oth.n], oth.p) : files' = [files EXCEPT ![oth.n] = f]
    BY <1>2 DEF OtherHeader
  <2>6. f \in Files
    BY <2>1, <2>4, <2>5, HeaderIs, OthersIs
  <2>7. files' \in [Names -> Files']
    BY <2>5, <2>6, FilesKept DEF CachesOK
  <2> QED BY <1>2, <2>3, <2>7, Static DEF CachesOK, OtherHeader
<1>3. CASE OtherStore
  <2>1. oth \in Others /\ oth.pc = "store" /\ oth.n \in Names /\ oth.p # None
    BY <1>3 DEF OtherStore, CachesOK
  <2>2. oth' = Idle \/ oth' = [pc |-> "append", n |-> oth.n, p |-> oth.p, data |-> oth.data]
    BY <1>3, <2>1, OthersIs DEF OtherStore
  <2>3. oth' \in Others /\ (oth'.pc = "idle" \/ (oth'.n \in Names /\ oth'.p # None /\ oth'.pc = "append"))
    <3>1. CASE oth' = Idle
      <4>1. oth' \in Others /\ oth'.pc = "idle"
        BY <3>1, IdleIs
      <4> QED BY <4>1
    <3>2. CASE oth' # Idle
      BY <2>1, <2>2, <3>2, OthersIs DEF Others
    <3> QED BY <3>1, <3>2
  <2> QED BY <1>3, <2>3, Static DEF CachesOK, OtherStore
<1>4. CASE OtherAppend
  <2>1. oth \in Others /\ oth.n \in Names /\ oth.p \in Principals /\ now \in Nat /\ files[oth.n] \in Files
    BY <1>4, OthersIs DEF OtherAppend, CachesOK
  <2>2. Appended(files[oth.n], OwnTgt(oth.p)) \in Files
    BY <2>1, OwnTgtGood, AppendedIs
  <2>3. files' \in [Names -> Files']
    BY <1>4, <2>2, FilesKept DEF OtherAppend, CachesOK
  <2> QED BY <1>4, <2>3, IdleIs, Static DEF CachesOK, OtherAppend
<1>5. ASSUME NEW n \in Names, OtherDestroy(n)
      PROVE  CachesOK'
  <2>1. files' \in [Names -> Files'] /\ oth' = Idle
    BY <1>5, TornIs, FilesKept DEF OtherDestroy, Begin, CachesOK
  <2> QED BY <1>5, <2>1, IdleIs, Static DEF CachesOK, OtherDestroy
<1>6. ASSUME NEW n \in Names, OtherSwitch(n)
      PROVE  CachesOK'
  <2>1. oth' = Idle /\ primary' \in {"none", "tkt", "tktX"}
    BY <1>6 DEF OtherSwitch, Begin, Names
  <2> QED BY <1>6, <2>1, IdleIs, Static DEF CachesOK, OtherSwitch
<1>7. ASSUME NEW n \in Names, OtherRemoveRead(n)
      PROVE  CachesOK'
  <2>1. files[n] \in Files /\ Opened(files[n])
    BY <1>7 DEF CachesOK, OtherRemoveRead
  <2>2. files[n].p # None
    BY <2>1, FilesIs
  <2>3. oth' = [pc |-> "scan", n |-> n, p |-> None, data |-> files[n]]
    BY <1>7 DEF OtherRemoveRead, Begin, Idle
  <2>4. oth' \in Others /\ oth'.n \in Names /\ oth'.data.p # None /\ oth'.pc = "scan"
    BY <2>1, <2>2, <2>3, NoneIs DEF Others
  <2> QED BY <1>7, <2>4, Static DEF CachesOK, OtherRemoveRead
<1>8. ASSUME NEW i \in 1..3, OtherRemoveScan(i)
      PROVE  CachesOK'
  BY <1>8, ScanKeeps
<1>9. CASE OtherRemoveTruncate
  <2>1. oth \in Others /\ oth.pc = "cut" /\ oth.n \in Names /\ oth.data.p # None
    BY <1>9 DEF OtherRemoveTruncate, CachesOK
  <2>2. oth' = [pc |-> "write", n |-> oth.n, p |-> oth.p, data |-> oth.data]
    BY <1>9, <2>1, OthersIs DEF OtherRemoveTruncate
  <2>3. oth' \in Others /\ oth'.n \in Names /\ oth'.data.p # None /\ oth'.pc = "write"
    BY <2>1, <2>2, OthersIs DEF Others
  <2>4. files' \in [Names -> Files']
    BY <1>9, TornIs, FilesKept DEF OtherRemoveTruncate, CachesOK
  <2> QED BY <1>9, <2>3, <2>4, Static DEF CachesOK, OtherRemoveTruncate
<1>10. CASE OtherRemoveWrite
  <2>1. /\ oth \in Others /\ oth.pc = "write" /\ oth.n \in Names /\ oth.data.p # None
        /\ oth.data \in Files /\ files[oth.n] \in Files
    BY <1>10, OthersIs DEF OtherRemoveWrite, CachesOK
  <2>2. [oth.data EXCEPT !.st = "junk", !.recs = <<>>] \in Files
    BY <2>1, JunkFile
  <2>3. PICK f \in Files : files' = [files EXCEPT ![oth.n] = f]
    BY <1>10, <2>1, <2>2 DEF OtherRemoveWrite
  <2>4. files' \in [Names -> Files']
    BY <2>3, FilesKept DEF CachesOK
  <2> QED BY <1>10, <2>4, IdleIs, Static DEF CachesOK, OtherRemoveWrite
<1>11. CASE Tick
  <2>1. now' \in Nat
    BY <1>11 DEF Tick, CachesOK
  <2> QED BY <1>11, <2>1, Static DEF CachesOK, Tick
<1> QED BY <1>1, <1>2, <1>3, <1>4, <1>5, <1>6, <1>7, <1>8, <1>9, <1>10, <1>11 DEF Other

\* Nothing that the client holds depends on what others do.
LEMMA JobsKept ==
  ASSUME TypesOK, KindOK, CallOK, cfg' = cfg, UNCHANGED jvars
  PROVE  TypesOK' /\ KindOK' /\ CallOK'
<1>1. TypesOK'
  BY Static DEF TypesOK, jvars
<1>2. KindOK' /\ GetOK' /\ SelfOK' /\ PasswordOK' /\ AnswerOK'
  BY DEF CallOK, KindOK, GetOK, SelfOK, PasswordOK, AnswerOK, At, jvars
<1>3. PlainOK' /\ ProxyOK'
  BY Static DEF CallOK, PlainOK, ProxyOK, Chains, At, jvars, TgtRealm
<1> QED BY <1>1, <1>2, <1>3 DEF CallOK

-----------------------------------------------------------------------------
(* One step of an exchange *)

LEMMA RealmIs ==
  ASSUME NEW t \in Creds
  PROVE  TgtRealm(t) \in Texts
<1>1. t.s \in Seq(Texts) /\ t.sr \in Texts
  BY DEF Creds, Components
<1>2. Len(t.s) = 2 => t.s[2] \in Texts
  BY <1>1
<1> QED BY <1>1, <1>2 DEF TgtRealm, IsTgs

\* An answer of a KDC to e.
Reply(r) ==
  /\ r.k \in {"rep", "unknown", "other"}
  /\ r.k = "rep" =>
       /\ r.c \in Principals /\ r.c # None /\ r.sn \in Components /\ r.sr \in Texts
       /\ r.okd \in BOOLEAN /\ r.rbcd \in BOOLEAN
       /\ r.pa \in [k : {"none", "bad", "user"}, p : Principals]

LEMMA RepliesAre ==
  ASSUME cfg \in Configs, NEW e \in Exchanges, NEW r \in Replies(e)
  PROVE  Reply(r)
<1>1. CASE r \in {[k |-> x] : x \in {"unknown", "other"}}
  BY <1>1 DEF Reply
<1>2. CASE r \in [k : {"rep"}, c : cfg.clients, sn : {e.target, <<"else">>} \cup {Tgs(q) : q \in Realms},
              sr : cfg.srealms,
              okd : IF e.mode = "plain" THEN BOOLEAN ELSE {FALSE},
              rbcd : IF e.mode = "proxy" THEN BOOLEAN ELSE {FALSE},
              pa : IF e.mode = "self" THEN cfg.padata ELSE {[k |-> "none", p |-> None]}]
  <2>1. r.k = "rep" /\ r.c \in cfg.clients /\ r.sn \in {e.target, <<"else">>} \cup {Tgs(q) : q \in Realms}
    BY <1>2
  <2>2. /\ r.sr \in cfg.srealms
        /\ r.okd \in BOOLEAN /\ r.rbcd \in BOOLEAN
        /\ r.pa \in (IF e.mode = "self" THEN cfg.padata ELSE {[k |-> "none", p |-> None]})
    BY <1>2
  <2>3. r.c \in Principals /\ r.c # None
    BY <2>1, ClientConfigs
  <2>4. r.sn \in Components
    <3>1. <<"else">> \in Components
      <4>1. "else" \in Texts
        BY TextsAre
      <4> QED BY <4>1 DEF Components
    <3>2. \A q \in Realms : Tgs(q) \in Components
      BY TextsAre, TgsIs
    <3>3. e.target \in Components
      BY DEF Exchanges
    <3> QED BY <2>1, <3>1, <3>2, <3>3
  <2>5. r.sr \in Texts
    <3>1. cfg.srealms \subseteq Realms
      BY ClientConfigs
    <3> QED BY <2>2, <3>1, TextsAre
  <2>6. r.pa \in [k : {"none", "bad", "user"}, p : Principals]
    <3>1. CASE e.mode = "self"
      BY <2>2, <3>1, ClientConfigs
    <3>2. CASE e.mode # "self"
      BY <2>2, <3>2, NoneIs
    <3> QED BY <3>1, <3>2
  <2> QED BY <2>1, <2>2, <2>3, <2>4, <2>5, <2>6 DEF Reply
<1> QED BY <1>1, <1>2 DEF Replies

LEMMA SendIs ==
  ASSUME NEW e \in Exchanges
  PROVE  /\ Send(e).k = "send" /\ Send(e).ex \in Exchanges
         /\ Send(e).ex.mode = e.mode /\ Send(e).ex.tgt = e.tgt /\ Send(e).ex.target = e.target
         /\ Send(e).ex.canon = e.canon /\ Send(e).ex.svc = e.svc /\ Send(e).ex.phase = e.phase
         /\ Send(e).ex.ptgt = e.ptgt /\ Send(e).ex.ttgt = e.ttgt /\ Send(e).ex.trealm = e.trealm
         /\ Send(e).ex.evc = e.evc /\ (Send(e).ex.first <=> e.first)
<1>1. PICK f : f = [e EXCEPT !.steps = @ + 1]
  OBVIOUS
<1>2. f \in Exchanges
  BY <1>1 DEF Exchanges
<1>3. /\ f.mode = e.mode /\ f.tgt = e.tgt /\ f.target = e.target /\ f.canon = e.canon /\ f.svc = e.svc
      /\ f.phase = e.phase /\ f.ptgt = e.ptgt /\ f.ttgt = e.ttgt /\ f.trealm = e.trealm /\ f.evc = e.evc
      /\ f.first <=> e.first
  BY <1>1 DEF Exchanges
<1>4. Send(e).k = "send" /\ Send(e).ex = f
  BY <1>1 DEF Send
<1> QED BY <1>2, <1>3, <1>4

\* What an exchange ends with, and that a failure leaves it alone.
Ended(e, s) ==
  /\ s.k \in {"send", "done", "unknown", "other"}
  /\ s.ex \in Exchanges
  /\ s.k = "done" => s.cred \in Good

LEMMA FailIs ==
  ASSUME NEW e \in Exchanges, NEW k \in {"unknown", "other"}
  PROVE  Ended(e, Fail(e, k)) /\ Fail(e, k).k = k
BY DEF Ended, Fail

LEMMA DoneIs ==
  ASSUME NEW e \in Exchanges, NEW t \in Good
  PROVE  Ended(e, Done(e, t)) /\ Done(e, t).k = "done" /\ Done(e, t).cred = t /\ Done(e, t).ex = e
BY DEF Ended, Done

\* An ordinary exchange keeps its client and target. A final ticket is for
\* the target or, when asked to canonicalize, for another name that is not
\* a TGT's.
PlainFacts(e, s) ==
  /\ Ended(e, s)
  /\ s.k = "send" =>
       /\ s.ex.mode = "plain" /\ s.ex.tgt.c = e.tgt.c
       /\ s.ex.target = e.target /\ s.ex.canon = e.canon
  /\ s.k = "done" =>
       /\ s.cred.c = e.tgt.c /\ s.cred.s = s.cred.ts
       /\ s.cred.ts # e.target => e.canon /\ ~IsTgs(s.cred.ts)

LEMMA ReferralIs ==
  ASSUME now \in Nat, NEW e \in Exchanges, e.mode = "plain", NEW r, Reply(r), r.k = "rep", IsTgs(r.sn), r.c = e.tgt.c
  PROVE  PlainFacts(e, HandleReferral(e, r))
<1>1. CASE ~e.ref \/ e.hops >= MaxHops \/ r.sn[2] \in e.seen
  BY <1>1, FailIs DEF HandleReferral, PlainFacts
<1>2. CASE ~(~e.ref \/ e.hops >= MaxHops \/ r.sn[2] \in e.seen)
  <2>1. FromRep(r) \in Creds /\ FromRep(r).c = r.c
    BY FromRepGood DEF Reply
  <2>2. PICK b \in BOOLEAN : b = (r.okd /\ e.tgt.okd)
    OBVIOUS
  <2>3. PICK t : t = [FromRep(r) EXCEPT !.okd = b]
    OBVIOUS
  <2>4. t \in Creds /\ t.c = r.c
    BY <2>1, <2>3 DEF Creds
  <2>5. r.sn[2] \in Texts
    BY DEF Reply, IsTgs, Components
  <2>a. PICK h \in Nat : h = e.hops + 1
    BY DEF Exchanges
  <2>b. PICK z \in SUBSET Texts : z = e.seen \cup {r.sn[2]}
    BY <2>5 DEF Exchanges
  <2>6. PICK f : f = [e EXCEPT !.tgt = t, !.hops = h, !.seen = z, !.first = FALSE]
    OBVIOUS
  <2>7. f \in Exchanges
    BY <2>4, <2>6 DEF Exchanges
  <2>8. f.mode = "plain" /\ f.tgt = t /\ f.target = e.target /\ f.canon = e.canon
    BY <2>6 DEF Exchanges
  <2>9. HandleReferral(e, r) = Send(f)
    BY <1>2, <2>2, <2>3, <2>6, <2>a, <2>b DEF HandleReferral
  <2> QED BY <2>4, <2>7, <2>8, <2>9, SendIs DEF PlainFacts, Ended
<1> QED BY <1>1, <1>2

LEMMA PlainStep ==
  ASSUME now \in Nat, NEW e \in Exchanges, e.mode = "plain", NEW r, Reply(r)
  PROVE  PlainFacts(e, Step(e, r))
<1>1. CASE e.steps >= MaxSteps
  BY <1>1, FailIs DEF Step, PlainFacts
<1>2. CASE e.steps < MaxSteps /\ r.k # "rep"
  <2>1. CASE r.k = "unknown" /\ e.first /\ e.ref
    <3>1. PICK f : f = [e EXCEPT !.ref = FALSE, !.first = FALSE]
      OBVIOUS
    <3>2. f \in Exchanges
      BY <3>1 DEF Exchanges
    <3>3. f.mode = "plain" /\ f.tgt = e.tgt /\ f.target = e.target /\ f.canon = e.canon
      BY <3>1 DEF Exchanges
    <3>4. Step(e, r) = Send(f)
      BY <1>2, <2>1, <3>1, ClientBounds DEF Step, Exchanges
    <3> QED BY <3>2, <3>3, <3>4, SendIs DEF PlainFacts, Ended
  <2>2. CASE ~(r.k = "unknown" /\ e.first /\ e.ref)
    <3>1. Step(e, r) = Fail(e, r.k)
      BY <1>2, <2>2, ClientBounds DEF Step, Exchanges
    <3> QED BY <1>2, <3>1, FailIs DEF PlainFacts, Reply
  <2> QED BY <2>1, <2>2
<1>3. CASE e.steps < MaxSteps /\ r.k = "rep"
  <2>1. Step(e, r) = PlainRep(e, r)
    BY <1>3, ClientBounds DEF Step, Exchanges
  <2>2. CASE r.c # e.tgt.c
    BY <2>1, <2>2, FailIs DEF PlainRep, PlainFacts
  <2>3. CASE r.c = e.tgt.c /\ IsTgs(r.sn) /\ r.sn # e.target
    <3>1. PlainRep(e, r) = HandleReferral(e, r)
      BY <2>3 DEF PlainRep
    <3> QED BY <1>3, <2>1, <2>3, <3>1, ReferralIs
  <2>4. CASE r.c = e.tgt.c /\ ~(IsTgs(r.sn) /\ r.sn # e.target) /\ ~e.canon /\ r.sn # e.target
    BY <2>1, <2>4, FailIs DEF PlainRep, PlainFacts
  <2>5. CASE r.c = e.tgt.c /\ ~(IsTgs(r.sn) /\ r.sn # e.target) /\ ~(~e.canon /\ r.sn # e.target)
    <3>1. PlainRep(e, r) = Done(e, FromRep(r))
      BY <2>5 DEF PlainRep
    <3>2. FromRep(r) \in Good /\ FromRep(r).c = r.c /\ FromRep(r).s = r.sn /\ FromRep(r).ts = r.sn
      BY <1>3, FromRepGood DEF Reply
    <3> QED BY <2>1, <2>5, <3>1, <3>2, DoneIs DEF PlainFacts
  <2> QED BY <2>2, <2>3, <2>4, <2>5
<1> QED
  <2>1. e.steps >= MaxSteps \/ e.steps < MaxSteps
    BY ClientBounds DEF Exchanges
  <2> QED BY <1>1, <1>2, <1>3, <2>1

\* An S4U2Self exchange stays with the service; its ticket is for the
\* service, and its client is the user the exchange ends with, never the
\* service.
SelfFacts(e, s) ==
  /\ Ended(e, s)
  /\ s.k = "send" => s.ex.mode = "self" /\ ~s.ex.first /\ s.ex.svc = e.svc /\ s.ex.tgt.c = e.tgt.c
  /\ s.k = "done" => /\ s.cred.s = e.svc.n /\ s.cred.c = s.ex.user
                     /\ s.cred.c # e.svc /\ s.cred.c # None

LEMMA VerifyIs ==
  ASSUME NEW e \in Exchanges, NEW pa \in [k : {"none", "bad", "user"}, p : Principals]
  PROVE  VerifyS4u2Self(e, pa).user \in Principals
<1>1. e.user \in Principals /\ pa.p \in Principals /\ pa.k \in {"none", "bad", "user"}
  BY DEF Exchanges
<1> QED BY <1>1 DEF VerifyS4u2Self

LEMMA SelfRepIs ==
  ASSUME now \in Nat, NEW e \in Exchanges, e.mode = "self", ~e.first, NEW r, Reply(r), r.k = "rep"
  PROVE  SelfFacts(e, SelfRep(e, r))
<1>1. PICK v : v = VerifyS4u2Self(e, r.pa)
  OBVIOUS
<1>2. v.user \in Principals
  BY <1>1, VerifyIs DEF Reply
<1>3. /\ FromRep(r) \in Creds /\ FromRep(r) \in Good /\ FromRep(r).c = r.c
      /\ FromRep(r).s = r.sn
  BY FromRepGood DEF Reply
<1>4. PICK z \in SUBSET (Components \X Texts) : z = e.refs \cup {<<r.sn, r.sr>>}
  <2>1. <<r.sn, r.sr>> \in Components \X Texts
    BY DEF Reply
  <2>2. e.refs \in SUBSET (Components \X Texts)
    BY DEF Exchanges
  <2> QED BY <2>1, <2>2
<1>5. PICK t : t = FromRep(r)
  OBVIOUS
<1>6. PICK f : f = [e EXCEPT !.user = v.user, !.refs = z, !.tgt = t]
  OBVIOUS
<1>7. f \in Exchanges /\ f.mode = "self" /\ ~f.first /\ f.svc = e.svc /\ f.tgt = t
  BY <1>2, <1>3, <1>5, <1>6 DEF Exchanges
<1>8. PICK g : g = [e EXCEPT !.user = v.user]
  OBVIOUS
<1>9. g \in Exchanges /\ g.user = v.user
  BY <1>2, <1>8 DEF Exchanges
<1>10. \/ SelfRep(e, r) = Fail(e, "other")
       \/ IsTgs(r.sn) /\ r.c = e.tgt.c /\ SelfRep(e, r) = Send(f)
       \/ /\ ~IsTgs(r.sn) /\ r.c # e.svc /\ r.sn = e.svc.n /\ r.c = v.user
          /\ SelfRep(e, r) = Done(g, t)
  <2>1. [e EXCEPT !.user = VerifyS4u2Self(e, r.pa).user, !.refs = @ \cup {<<r.sn, r.sr>>}, !.tgt = FromRep(r)] = f
    BY <1>1, <1>4, <1>5, <1>6
  <2>2. [e EXCEPT !.user = VerifyS4u2Self(e, r.pa).user] = g
    BY <1>1, <1>8
  <2> QED BY <1>1, <1>5, <2>1, <2>2, Zenon DEF SelfRep
<1>11. CASE SelfRep(e, r) = Fail(e, "other")
  BY <1>11, FailIs DEF SelfFacts
<1>12. CASE r.c = e.tgt.c /\ SelfRep(e, r) = Send(f)
  BY <1>3, <1>5, <1>7, <1>12, SendIs DEF SelfFacts, Ended
<1>13. CASE r.c # e.svc /\ r.sn = e.svc.n /\ r.c = v.user /\ SelfRep(e, r) = Done(g, t)
  <2>1. Ended(e, Done(g, t)) /\ Done(g, t).k = "done" /\ Done(g, t).cred = t /\ Done(g, t).ex = g
    BY <1>3, <1>5, <1>9, DoneIs DEF Ended
  <2> QED BY <1>3, <1>5, <1>9, <1>13, <2>1 DEF SelfFacts, Reply
<1> QED BY <1>10, <1>11, <1>12, <1>13

LEMMA SelfStep ==
  ASSUME now \in Nat, NEW e \in Exchanges, e.mode = "self", ~e.first, NEW r, Reply(r)
  PROVE  SelfFacts(e, Step(e, r))
<1>1. CASE e.steps >= MaxSteps
  BY <1>1, FailIs DEF Step, SelfFacts
<1>2. CASE e.steps < MaxSteps /\ r.k # "rep"
  <2>1. Step(e, r) = Fail(e, r.k)
    BY <1>2, ClientBounds DEF Step, Exchanges
  <2> QED BY <1>2, <2>1, FailIs DEF SelfFacts, Reply
<1>3. CASE e.steps < MaxSteps /\ r.k = "rep"
  <2>1. Step(e, r) = SelfRep(e, r)
    BY <1>3, ClientBounds DEF Step, Exchanges
  <2> QED BY <1>3, <2>1, SelfRepIs
<1> QED
  <2>1. e.steps >= MaxSteps \/ e.steps < MaxSteps
    BY ClientBounds DEF Exchanges
  <2> QED BY <1>1, <1>2, <1>3, <2>1

\* An S4U2Proxy exchange ends with a ticket for the target, of the evidence's
\* client.
ProxyFacts(e, c, s) ==
  /\ Ended(e, s)
  /\ s.k = "send" => Chains(s.ex, c) /\ s.ex.evc = e.evc /\ s.ex.target = e.target
  /\ s.k = "done" => s.cred.c = e.evc /\ s.cred.s = e.target /\ s.cred.ts = e.target

LEMMA ProxySent ==
  ASSUME NEW e, NEW c, NEW f \in Exchanges, Chains(f, c), f.evc = e.evc, f.target = e.target
  PROVE  ProxyFacts(e, c, Send(f))
BY SendIs DEF ProxyFacts, Ended, Chains

LEMMA ProxyFailed ==
  ASSUME NEW e \in Exchanges, NEW c, NEW k \in {"unknown", "other"}
  PROVE  ProxyFacts(e, c, Fail(e, k))
BY FailIs DEF ProxyFacts

LEMMA ChaseIs ==
  ASSUME now \in Nat, NEW e \in Exchanges, NEW c, Chains(e, c), NEW r, Reply(r), r.k = "rep", r.c = c,
         e.phase \in {"target", "proxytgt"}
  PROVE  ProxyFacts(e, c, Chase(e, r))
<1>1. PICK z \in SUBSET (Components \X Texts) : z = e.refs \cup {<<e.tgt.s, e.tgt.sr>>}
  <2>1. e.tgt \in Creds /\ e.refs \in SUBSET (Components \X Texts)
    BY DEF Exchanges
  <2>2. <<e.tgt.s, e.tgt.sr>> \in Components \X Texts
    BY <2>1 DEF Creds
  <2> QED BY <2>1, <2>2
<1>2. PICK t : t = FromRep(r)
  OBVIOUS
<1>3. t \in Creds /\ t.c = c /\ t.tc = c
  BY <1>2, FromRepGood DEF Reply
<1>4. PICK f : f = [e EXCEPT !.refs = z, !.tgt = t]
  OBVIOUS
<1>5. f \in Exchanges
  BY <1>3, <1>4 DEF Exchanges
<1>6. /\ f.mode = e.mode /\ (f.first <=> e.first) /\ f.tgt = t /\ f.phase = e.phase /\ f.ptgt = e.ptgt
      /\ f.ttgt = e.ttgt /\ f.trealm = e.trealm /\ f.evc = e.evc /\ f.target = e.target
  BY <1>4 DEF Exchanges
<1>7. Chase(e, r) = Fail(e, "other") \/ Chase(e, r) = Send(f)
  BY <1>1, <1>2, <1>4, Zenon DEF Chase
<1>8. Chains(f, c)
  BY <1>3, <1>6 DEF Chains
<1> QED BY <1>5, <1>6, <1>7, <1>8, ProxySent, ProxyFailed

LEMMA ProxyDoneIs ==
  ASSUME now \in Nat, NEW e \in Exchanges, NEW c, NEW r, Reply(r), r.k = "rep", r.sn = e.target
  PROVE  ProxyFacts(e, c, ProxyDone(e, r))
<1>1. PICK t : t = FromRep(r)
  OBVIOUS
<1>2. t \in Good /\ t.c = r.c /\ t.s = r.sn /\ t.ts = r.sn
  BY <1>1, FromRepGood DEF Reply
<1>3. CASE r.c = e.evc
  <2>1. ProxyDone(e, r) = Done(e, t)
    BY <1>1, <1>3 DEF ProxyDone
  <2> QED BY <1>2, <1>3, <2>1, DoneIs DEF ProxyFacts
<1>4. CASE r.c # e.evc
  BY <1>4, ProxyFailed DEF ProxyDone
<1> QED BY <1>3, <1>4

LEMMA ProxyFirstIs ==
  ASSUME now \in Nat, NEW e \in Exchanges, NEW c, Chains(e, c), NEW r, Reply(r), r.k = "rep",
         IsTgs(r.sn) => r.c = c
  PROVE  ProxyFacts(e, c, ProxyFirst(e, r))
<1>1. CASE r.sn = e.target
  BY <1>1, ProxyDoneIs DEF ProxyFirst
<1>2. CASE r.sn # e.target /\ (~IsTgs(r.sn) \/ ~r.rbcd)
  BY <1>2, ProxyFailed DEF ProxyFirst
<1>3. CASE r.sn # e.target /\ ~(~IsTgs(r.sn) \/ ~r.rbcd)
  <2>1. PICK t : t = FromRep(r)
    OBVIOUS
  <2>2. t \in Creds /\ t.c = c /\ t.tc = c
    BY <1>3, <2>1, FromRepGood DEF Reply
  <2>3. PICK f : f = [e EXCEPT !.ptgt = t, !.phase = "target", !.refs = {}]
    OBVIOUS
  <2>4. f \in Exchanges
    BY <2>2, <2>3 DEF Exchanges
  <2>5. /\ f.mode = e.mode /\ (f.first <=> e.first) /\ f.tgt = e.tgt /\ f.phase = "target" /\ f.ptgt = t
        /\ f.evc = e.evc /\ f.target = e.target
    BY <2>3 DEF Exchanges
  <2>6. ProxyFirst(e, r) = Send(f)
    BY <1>3, <2>1, <2>3 DEF ProxyFirst
  <2>7. Chains(f, c)
    BY <2>2, <2>5 DEF Chains
  <2> QED BY <2>4, <2>5, <2>6, <2>7, ProxySent
<1> QED BY <1>1, <1>2, <1>3

LEMMA ProxyTargetIs ==
  ASSUME now \in Nat, NEW e \in Exchanges, NEW c, Chains(e, c), NEW r, Reply(r), r.k = "rep", r.c = c,
         e.phase = "target"
  PROVE  ProxyFacts(e, c, ProxyTarget(e, r))
<1>0. TgtRealm(e.tgt) \in Texts /\ e.tgt \in Creds /\ e.ptgt \in Creds
  BY RealmIs DEF Exchanges
<1>q. PICK q : q = TgtRealm(e.tgt)
  OBVIOUS
<1>1. CASE r.sn # e.target
  <2>1. ProxyTarget(e, r) = Chase(e, r)
    BY <1>1 DEF ProxyTarget
  <2> QED BY <2>1, ChaseIs
<1>2. CASE r.sn = e.target /\ TgtRealm(e.ptgt) = TgtRealm(e.tgt)
  <2>1. PICK f : f = [e EXCEPT !.trealm = q, !.refs = {}, !.phase = "final"]
    OBVIOUS
  <2>2. f \in Exchanges
    BY <1>0, <1>q, <2>1 DEF Exchanges
  <2>3. /\ f.mode = e.mode /\ (f.first <=> e.first) /\ f.tgt = e.tgt /\ f.phase = "final" /\ f.ptgt = e.ptgt
        /\ f.trealm = q /\ f.evc = e.evc /\ f.target = e.target
    BY <2>1 DEF Exchanges
  <2>4. ProxyTarget(e, r) = Send(f)
    BY <1>2, <1>q, <2>1 DEF ProxyTarget
  <2>5. Chains(f, c)
    BY <1>2, <1>q, <2>3 DEF Chains
  <2> QED BY <2>2, <2>3, <2>4, <2>5, ProxySent
<1>3. CASE r.sn = e.target /\ TgtRealm(e.ptgt) # TgtRealm(e.tgt)
  <2>0. PICK a, b : a = e.tgt /\ b = e.ptgt
    OBVIOUS
  <2>1. PICK f : f = [e EXCEPT !.trealm = q, !.refs = {}, !.phase = "proxytgt", !.ttgt = a, !.tgt = b]
    OBVIOUS
  <2>2. f \in Exchanges
    BY <1>0, <1>q, <2>0, <2>1 DEF Exchanges
  <2>3. /\ f.mode = e.mode /\ (f.first <=> e.first) /\ f.tgt = b /\ f.phase = "proxytgt" /\ f.ptgt = e.ptgt
        /\ f.ttgt = a /\ f.trealm = q /\ f.evc = e.evc /\ f.target = e.target
    BY <2>1 DEF Exchanges
  <2>4. ProxyTarget(e, r) = Send(f)
    BY <1>3, <1>q, <2>0, <2>1 DEF ProxyTarget
  <2>5. Chains(f, c)
    BY <1>q, <2>0, <2>3 DEF Chains
  <2> QED BY <2>2, <2>3, <2>4, <2>5, ProxySent
<1> QED BY <1>1, <1>2, <1>3

LEMMA ProxyTgtIs ==
  ASSUME now \in Nat, NEW e \in Exchanges, NEW c, Chains(e, c), NEW r, Reply(r), r.k = "rep", r.c = c,
         e.phase = "proxytgt"
  PROVE  ProxyFacts(e, c, ProxyTgt(e, r))
<1>1. CASE r.sn # Tgs(e.trealm)
  <2>1. ProxyTgt(e, r) = Chase(e, r)
    BY <1>1 DEF ProxyTgt
  <2> QED BY <2>1, ChaseIs
<1>2. CASE r.sn = Tgs(e.trealm)
  <2>1. PICK t : t = FromRep(r)
    OBVIOUS
  <2>2. t \in Creds /\ t.c = c /\ t.tc = c /\ t.s = Tgs(e.trealm)
    BY <1>2, <2>1, FromRepGood DEF Reply
  <2>3. TgtRealm(t) = e.trealm
    <3>1. e.trealm \in Texts
      BY DEF Exchanges
    <3> QED BY <2>2, <3>1, TgsIs DEF TgtRealm
  <2>4. PICK a : a = e.ttgt
    OBVIOUS
  <2>5. PICK f : f = [e EXCEPT !.ptgt = t, !.tgt = a, !.ttgt = NoCred, !.phase = "final"]
    OBVIOUS
  <2>6. f \in Exchanges
    BY <2>2, <2>4, <2>5, NoCredGood DEF Exchanges
  <2>7. /\ f.mode = e.mode /\ (f.first <=> e.first) /\ f.tgt = a /\ f.phase = "final" /\ f.ptgt = t
        /\ f.trealm = e.trealm /\ f.evc = e.evc /\ f.target = e.target
    BY <2>5 DEF Exchanges
  <2>8. ProxyTgt(e, r) = Send(f)
    BY <1>2, <2>1, <2>4, <2>5 DEF ProxyTgt
  <2>9. Chains(f, c)
    BY <2>2, <2>3, <2>4, <2>7 DEF Chains
  <2> QED BY <2>6, <2>7, <2>8, <2>9, ProxySent
<1> QED BY <1>1, <1>2

LEMMA ProxyStep ==
  ASSUME now \in Nat, NEW e \in Exchanges, NEW c, Chains(e, c), NEW r, Reply(r)
  PROVE  ProxyFacts(e, c, Step(e, r))
<1>0. e.mode = "proxy" /\ ~e.first /\ e.tgt.c = c
  BY DEF Chains
<1>1. CASE e.steps >= MaxSteps
  BY <1>1, ProxyFailed DEF Step
<1>2. CASE e.steps < MaxSteps /\ r.k # "rep"
  <2>1. Step(e, r) = Fail(e, r.k)
    BY <1>0, <1>2, ClientBounds DEF Step, Exchanges
  <2> QED BY <1>2, <2>1, ProxyFailed DEF Reply
<1>3. CASE e.steps < MaxSteps /\ r.k = "rep"
  <2>0. e.phase \in {"first", "target", "proxytgt", "final"}
    BY DEF Exchanges
  <2>1. Step(e, r) = ProxyRep(e, r)
    BY <1>0, <1>3, ClientBounds DEF Step, Exchanges
  <2>2. CASE (e.phase \notin {"first", "final"} \/ IsTgs(r.sn)) /\ r.c # e.tgt.c
    BY <2>1, <2>2, ProxyFailed DEF ProxyRep
  <2>3. CASE ~((e.phase \notin {"first", "final"} \/ IsTgs(r.sn)) /\ r.c # e.tgt.c)
    <3>1. CASE e.phase = "first"
      <4>1. ProxyRep(e, r) = ProxyFirst(e, r)
        BY <2>3, <3>1 DEF ProxyRep
      <4> QED BY <1>0, <1>3, <2>1, <2>3, <4>1, ProxyFirstIs
    <3>2. CASE e.phase = "target"
      <4>1. ProxyRep(e, r) = ProxyTarget(e, r)
        BY <2>3, <3>2 DEF ProxyRep
      <4> QED BY <1>0, <1>3, <2>1, <2>3, <3>2, <4>1, ProxyTargetIs
    <3>3. CASE e.phase = "proxytgt"
      <4>1. ProxyRep(e, r) = ProxyTgt(e, r)
        BY <2>3, <3>3 DEF ProxyRep
      <4> QED BY <1>0, <1>3, <2>1, <2>3, <3>3, <4>1, ProxyTgtIs
    <3>4. CASE e.phase = "final"
      <4>1. ProxyRep(e, r) = ProxyFinal(e, r)
        BY <2>3, <3>4 DEF ProxyRep
      <4>2. CASE ~r.rbcd \/ r.sn # e.target \/ r.sr # e.trealm
        BY <2>1, <4>1, <4>2, ProxyFailed DEF ProxyFinal
      <4>3. CASE ~(~r.rbcd \/ r.sn # e.target \/ r.sr # e.trealm)
        <5>1. ProxyFinal(e, r) = ProxyDone(e, r)
          BY <4>3 DEF ProxyFinal
        <5> QED BY <1>3, <2>1, <4>1, <4>3, <5>1, ProxyDoneIs
      <4> QED BY <4>2, <4>3
    <3> QED BY <2>0, <3>1, <3>2, <3>3, <3>4
  <2> QED BY <2>2, <2>3
<1> QED
  <2>1. e.steps >= MaxSteps \/ e.steps < MaxSteps
    BY ClientBounds DEF Exchanges
  <2> QED BY <1>1, <1>2, <1>3, <2>1

-----------------------------------------------------------------------------
(* The steps of the client *)

LEMMA CachesKept ==
  ASSUME CachesOK, cfg' = cfg, now' = now, oth' = oth, primary' \in {"none", "tkt", "tktX"},
         files' \in [Names -> Files]
  PROVE  CachesOK'
BY Static DEF CachesOK

LEMMA CachesSame ==
  ASSUME CachesOK, UNCHANGED cvars
  PROVE  CachesOK' /\ cfg' = cfg /\ files' = files
BY CachesKept DEF CachesOK, cvars

LEMMA ErrIs == Err \in Results /\ Err.k = "err" /\ NoRes \in Results
BY NoCredGood DEF Err, NoRes, Results

LEMMA OkIs ==
  ASSUME NEW t \in Good
  PROVE  Ok(t) \in Results /\ Ok(t).k = "ok" /\ Ok(t).cred = t
BY DEF Ok, Results

LEMMA CallsIs ==
  ASSUME NEW j \in Calls
  PROVE  /\ j.kind \in {"get", "self", "proxy", "password"} /\ j.cl \in Principals /\ j.cl # None
         /\ j.s \in Components /\ j.sr \in Texts /\ j.user \in Principals /\ j.id \in Principals
         /\ j.canon \in BOOLEAN /\ j.u2u \in BOOLEAN /\ j.nostore \in BOOLEAN /\ j.cached \in BOOLEAN
         /\ j.canon => CanonAsked(cfg)
         /\ j.cl.n \in Components /\ j.cl.r \in Texts /\ j.user.n \in Components /\ j.ev \in Texts
<1>1. j \in Jobs /\ (j.canon => CanonAsked(cfg))
  BY DEF Calls
<1>2. j.cl \in Principals /\ j.user \in Principals
  BY <1>1 DEF Jobs
<1> QED BY <1>1, <1>2 DEF Jobs, Principals

LEMMA HostNamesAre ==
  ASSUME cfg \in Configs, NEW s \in Components, NEW x \in HostNames(s)
  PROVE  x \in Components /\ (x = s \/ (Renamed(cfg, s) /\ ~IsTgs(x)))
BY ClientConfigs DEF HostNames, Renamed

LEMMA CandidatesAre ==
  ASSUME NEW s
  PROVE  Candidates(s) \in Seq(HostNames(s))
<1>1. s \in HostNames(s) /\ (s \in DOMAIN cfg.hosts => cfg.hosts[s] \in HostNames(s))
  BY DEF HostNames
<1>2. PICK H : H = HostNames(s)
  OBVIOUS
<1>3. <<s>> \in Seq(H)
  BY <1>1, <1>2
<1>4. s \in DOMAIN cfg.hosts => <<s, cfg.hosts[s]>> \in Seq(H)
  BY <1>1, <1>2
<1> QED BY <1>2, <1>3, <1>4 DEF Candidates

LEMMA NoExIs == NoEx \in Exchanges /\ NoEx.phase = "first"
<1>1. "none" \in Texts
  BY TextsAre
<1> QED BY <1>1, NoCredGood, NoneIs DEF NoEx, Exchanges

LEMMA PlainIs ==
  ASSUME NEW t \in Creds, NEW x \in Components, NEW b \in BOOLEAN
  PROVE  /\ Plain(t, x, b) \in Exchanges
         /\ Plain(t, x, b).mode = "plain" /\ Plain(t, x, b).tgt = t
         /\ Plain(t, x, b).target = x /\ (Plain(t, x, b).canon = b)
<1>1. PICK n \in Exchanges : n = NoEx
  BY NoExIs
<1>2. PICK z \in SUBSET Texts : z = IF b THEN {TgtRealm(t)} ELSE {}
  BY RealmIs
<1>3. PICK f : f = [n EXCEPT !.tgt = t, !.target = x, !.canon = b, !.ref = b, !.seen = z]
  OBVIOUS
<1>4. f \in Exchanges
  BY <1>3 DEF Exchanges
<1>5. n.mode = "plain"
  BY <1>1 DEF NoEx
<1>6. f.mode = "plain" /\ f.tgt = t /\ f.target = x /\ (f.canon = b)
  BY <1>3, <1>5 DEF Exchanges
<1>7. Plain(t, x, b) = f
  BY <1>1, <1>2, <1>3 DEF Plain
<1> QED BY <1>4, <1>6, <1>7

LEMMA S4u2SelfIs ==
  ASSUME NEW t \in Creds, NEW u \in Principals
  PROVE  /\ S4u2Self(t, u) \in Exchanges
         /\ S4u2Self(t, u).mode = "self" /\ ~S4u2Self(t, u).first /\ S4u2Self(t, u).tgt = t
         /\ S4u2Self(t, u).svc = t.c
<1>1. PICK n \in Exchanges : n = NoEx
  BY NoExIs
<1>2. PICK c \in Principals : c = t.c
  BY DEF Creds
<1>3. PICK x \in Components : x = c.n
  BY DEF Principals
<1>4. PICK f : f = [n EXCEPT !.mode = "self", !.tgt = t, !.target = x, !.first = FALSE, !.svc = c, !.user = u]
  OBVIOUS
<1>5. f \in Exchanges
  BY <1>4 DEF Exchanges
<1>6. f.mode = "self" /\ ~f.first /\ f.tgt = t /\ f.svc = c
  BY <1>4 DEF Exchanges
<1>7. S4u2Self(t, u) = f
  BY <1>1, <1>2, <1>3, <1>4 DEF S4u2Self
<1> QED BY <1>2, <1>5, <1>6, <1>7

LEMMA S4u2ProxyIs ==
  ASSUME NEW t \in Creds, t.tc = t.c, NEW u \in Principals, NEW x \in Components
  PROVE  /\ S4u2Proxy(t, u, x) \in Exchanges
         /\ Chains(S4u2Proxy(t, u, x), t.c)
         /\ S4u2Proxy(t, u, x).evc = u /\ S4u2Proxy(t, u, x).target = x
<1>1. PICK n \in Exchanges : n = NoEx
  BY NoExIs
<1>2. n.phase = "first"
  BY <1>1, NoExIs
<1>4. PICK f : f = [n EXCEPT !.mode = "proxy", !.tgt = t, !.target = x, !.first = FALSE, !.evc = u]
  OBVIOUS
<1>5. f \in Exchanges
  BY <1>4 DEF Exchanges
<1>6. f.mode = "proxy" /\ ~f.first /\ f.tgt = t /\ f.evc = u /\ f.target = x /\ f.phase = "first"
  BY <1>2, <1>4 DEF Exchanges
<1>7. S4u2Proxy(t, u, x) = f
  BY <1>1, <1>4 DEF S4u2Proxy
<1> QED BY <1>5, <1>6, <1>7 DEF Chains

\* The states in which get_credentials is at work.
Getting == pc \in {"get.check", "get.cand", "get.local", "get.realm"} \/ At("get.svc") \/ At("get.done")

LEMMA GettingIs ==
  ASSUME TypesOK, GetOK, Getting
  PROVE  /\ req.c = job.cl /\ req.canon = job.canon
         /\ req.then = "return" => job.kind = "get" /\ req.s = job.s
         /\ req.then = "self.run" => job.kind = "self"
         /\ req.then = "proxy.run" => job.kind = "proxy" /\ pcand # <<>>
         /\ req.then \in {"return", "self.run", "proxy.run"}
         /\ req.s \in Components /\ req.canon \in BOOLEAN /\ req.u2u \in BOOLEAN
         /\ job \in Calls /\ pcand \in Seq(HostNames(job.s)) /\ req.c \in Principals /\ req.c # None
<1>1. pc # "idle"
  BY DEF Getting, At
<1>2. job \in Calls /\ pcand \in Seq(HostNames(job.s)) /\ req \in Requests
  BY <1>1 DEF TypesOK
<1>3. job.cl \in Principals /\ job.cl # None
  BY <1>2, CallsIs
<1>4. /\ req.then \in {"return", "self.run", "proxy.run"} /\ req.s \in Components
      /\ req.canon \in BOOLEAN /\ req.u2u \in BOOLEAN
  BY <1>2 DEF Requests
<1> QED BY <1>2, <1>3, <1>4 DEF GetOK, Getting

\* What get_credentials found goes back to its caller, or into the S4U
\* exchange it was made for.
LEMMA GetReturnsKeeps ==
  ASSUME cfg \in Configs, cfg' = cfg, TypesOK, GetOK, Getting,
         NEW r \in Results, r.k = "ok" => r.cred.c = req.c /\ r.cred.s = req.s, r.k \in {"ok", "err"},
         GetReturns(r), UNCHANGED <<job, left, cache, req, sto>>
  PROVE  TypesOK' /\ KindOK' /\ CallOK'
<1>g. /\ req.c = job.cl /\ req.canon = job.canon
      /\ req.then = "return" => job.kind = "get" /\ req.s = job.s
      /\ req.then = "self.run" => job.kind = "self"
      /\ req.then = "proxy.run" => job.kind = "proxy" /\ pcand # <<>>
      /\ req.then \in {"return", "self.run", "proxy.run"}
      /\ job \in Calls /\ pcand \in Seq(HostNames(job.s)) /\ job.cl \in Principals
      /\ job.id \in Principals /\ job.user \in Principals /\ job.s \in Components
  BY GettingIs, CallsIs
<1>r. res' = r /\ r.cred \in Good
  BY DEF GetReturns, Results
<1>t. left' \in Seq(Calls') /\ cache' \in Names /\ req' \in Requests /\ sto' \in Stores' /\ res' \in Results'
  BY <1>r, Static DEF TypesOK
<1>1. CASE r.k = "err" \/ req.then = "return"
  <2>1. pc' = "return" /\ ex' = ex /\ pcand' = pcand
    BY <1>1 DEF GetReturns
  <2>2. TypesOK'
    BY <1>g, <1>t, <2>1, Static DEF TypesOK, Labels
  <2>3. KindOK' /\ GetOK' /\ PlainOK' /\ SelfOK' /\ ProxyOK' /\ PasswordOK'
    BY <2>1 DEF KindOK, GetOK, PlainOK, SelfOK, ProxyOK, PasswordOK, At
  <2>4. AnswerOK'
    <3>1. CASE r.k = "err"
      BY <1>r, <3>1 DEF AnswerOK
    <3>2. CASE r.k = "ok"
      <4>1. job'.kind = "get" /\ res'.cred.c = job'.cl /\ res'.cred.s = job'.s
        BY <1>1, <1>g, <1>r, <3>2
      <4> QED BY <4>1 DEF AnswerOK
    <3> QED BY <3>1, <3>2
  <2> QED BY <2>2, <2>3, <2>4 DEF CallOK
<1>2. CASE r.k = "ok" /\ req.then = "self.run"
  <2>1. pc' = "self.run" /\ ex' = S4u2Self(r.cred, job.id) /\ pcand' = pcand
    BY <1>2 DEF GetReturns
  <2>2. ex' \in Exchanges /\ ex'.mode = "self" /\ ~ex'.first /\ ex'.tgt.c = job.cl /\ ex'.svc = job.cl
    BY <1>2, <1>g, <1>r, <2>1, GoodIs, S4u2SelfIs
  <2>3. TypesOK'
    BY <1>g, <1>t, <2>1, <2>2, Static DEF TypesOK, Labels
  <2>4. KindOK' /\ GetOK' /\ PlainOK' /\ SelfOK' /\ ProxyOK' /\ PasswordOK' /\ AnswerOK'
    BY <1>2, <1>g, <2>1, <2>2 DEF KindOK, GetOK, PlainOK, SelfOK, ProxyOK, PasswordOK, AnswerOK, At
  <2> QED BY <2>3, <2>4 DEF CallOK
<1>3. CASE r.k = "ok" /\ req.then = "proxy.run"
  <2>1. pc' = "proxy.run" /\ ex' = S4u2Proxy(r.cred, job.user, Head(pcand)) /\ pcand' = Tail(pcand)
    BY <1>3 DEF GetReturns
  <2>2. Head(pcand) \in HostNames(job.s) /\ Tail(pcand) \in Seq(HostNames(job.s))
    BY <1>3, <1>g
  <2>3. Head(pcand) \in Components
    BY <1>g, <2>2, HostNamesAre
  <2>4. ex' \in Exchanges /\ Chains(ex', job.cl) /\ ex'.evc = job.user /\ ex'.target = Head(pcand)
    BY <1>3, <1>g, <1>r, <2>1, <2>3, GoodIs, S4u2ProxyIs
  <2>5. TypesOK'
    BY <1>g, <1>t, <2>1, <2>2, <2>4, Static DEF TypesOK, Labels
  <2>6. KindOK' /\ GetOK' /\ PlainOK' /\ SelfOK' /\ PasswordOK' /\ AnswerOK'
    BY <1>3, <1>g, <2>1 DEF KindOK, GetOK, PlainOK, SelfOK, PasswordOK, AnswerOK, At
  <2>7. Chains(ex, job.cl)'
    BY <2>4 DEF Chains, TgtRealm
  <2>8. ProxyOK'
    BY <2>1, <2>2, <2>4, <2>7, Static DEF ProxyOK, At
  <2> QED BY <2>5, <2>6, <2>8 DEF CallOK
<1> QED BY <1>1, <1>2, <1>3, <1>g

\* A step that ends the call with an error.
LEMMA FailsKeeps ==
  ASSUME cfg' = cfg, TypesOK, pc # "idle", pc' = "return", res' = Err, ex' \in Exchanges,
         job' \in Calls, job'.s = job.s, UNCHANGED <<left, cache, req, pcand, sto>>
  PROVE  TypesOK' /\ KindOK' /\ CallOK'
<1>1. TypesOK'
  BY ErrIs, Static DEF TypesOK, Labels
<1>2. KindOK' /\ GetOK' /\ PlainOK' /\ SelfOK' /\ ProxyOK' /\ PasswordOK'
  BY DEF KindOK, GetOK, PlainOK, SelfOK, ProxyOK, PasswordOK, At
<1>3. AnswerOK'
  BY ErrIs DEF AnswerOK
<1> QED BY <1>1, <1>2, <1>3 DEF CallOK

LEMMA CallKeeps ==
  ASSUME ClientInv, Call
  PROVE  ClientInv'
<1>1. CachesOK' /\ cfg' = cfg
  BY CachesSame DEF ClientInv, Call
<1>2. left \in Seq(Calls) /\ left # <<>>
  BY DEF ClientInv, TypesOK, Call
<1>3. Head(left) \in Calls /\ Tail(left) \in Seq(Calls)
  BY <1>2
<1>4. PICK j \in Calls : j = Head(left)
  BY <1>3
<1>5. /\ job' = j /\ left' = Tail(left) /\ res' = NoRes /\ ex' = NoEx /\ pcand' = <<>>
      /\ sto' = NoSto /\ cache' = "tkt"
  BY <1>4 DEF Call
<1>6. /\ pc' = CASE j.kind = "get" -> IF j.sel THEN "select" ELSE "get.check"
                 [] j.kind = "self" -> "self.check"
                 [] j.kind = "proxy" -> "proxy.check"
                 [] OTHER -> "password"
      /\ req' = IF j.kind = "get" /\ ~j.sel
                THEN [c |-> j.cl, s |-> j.s, sr |-> j.sr, canon |-> j.canon, u2u |-> j.u2u,
                      nostore |-> j.nostore, cached |-> j.cached, then |-> "return"]
                ELSE NoReq
  BY <1>4 DEF Call
<1>7. /\ pc' \in {"select", "get.check", "self.check", "proxy.check", "password"}
      /\ pc' = "select" => j.kind = "get"
      /\ pc' = "get.check" => j.kind = "get" /\ ~j.sel
      /\ pc' = "self.check" => j.kind = "self"
      /\ pc' = "proxy.check" => j.kind = "proxy"
      /\ pc' = "password" => j.kind = "password"
  BY <1>6, CallsIs
<1>8. req' \in Requests
  <2>1. NoReq \in Requests
    <3>1. "" \in Texts
      BY TextsAre
    <3> QED BY <3>1, NoneIs DEF NoReq, Requests
  <2>2. [c |-> j.cl, s |-> j.s, sr |-> j.sr, canon |-> j.canon, u2u |-> j.u2u,
         nostore |-> j.nostore, cached |-> j.cached, then |-> "return"] \in Requests
    BY CallsIs DEF Requests
  <2> QED BY <1>6, <2>1, <2>2
<1>9. pc' = "get.check" => /\ req'.c = j.cl /\ req'.canon = j.canon /\ req'.then = "return" /\ req'.s = j.s
  BY <1>6, <1>7
<1>10. TypesOK'
  <2>1. NoSto \in Stores
    BY NoCredGood DEF NoSto, Stores
  <2>2. <<>> \in Seq(HostNames(j.s))
    OBVIOUS
  <2>3. cache' \in Names /\ pc' \in Labels \ {"store", "append"}
    BY <1>5, <1>7 DEF Names, Labels
  <2> QED BY <1>1, <1>3, <1>5, <1>8, <2>1, <2>2, <2>3, ErrIs, NoExIs, Static DEF TypesOK
<1>11. KindOK' /\ GetOK'
  BY <1>5, <1>7, <1>9 DEF KindOK, GetOK, At
<1>12. PlainOK' /\ SelfOK' /\ ProxyOK' /\ PasswordOK' /\ AnswerOK'
  BY <1>7 DEF PlainOK, SelfOK, ProxyOK, PasswordOK, AnswerOK, At
<1> QED BY <1>1, <1>10, <1>11, <1>12 DEF ClientInv, CallOK

LEMMA ReturnKeeps ==
  ASSUME ClientInv, Return
  PROVE  ClientInv'
<1>1. CachesOK' /\ cfg' = cfg
  BY CachesSame DEF ClientInv, Return
<1>2. TypesOK'
  BY <1>1, Static DEF ClientInv, TypesOK, Return, Labels
<1>3. KindOK' /\ CallOK'
  BY DEF Return, CallOK, KindOK, GetOK, PlainOK, SelfOK, ProxyOK, PasswordOK, AnswerOK, At
<1> QED BY <1>1, <1>2, <1>3 DEF ClientInv

\* A store keeps what it goes on to.
LEMMA StoredOn ==
  ASSUME cfg' = cfg, TypesOK, KindOK, CallOK, pc \in {"store", "append"}, pc' \in {"append", sto.next},
         UNCHANGED <<job, left, cache, req, cand, pcand, ex, sto, res>>
  PROVE  TypesOK' /\ KindOK' /\ CallOK'
<1>1. sto.next \in {"get.svc", "get.done", "proxy.done", "return"}
  BY DEF TypesOK, Stores
<1>2. TypesOK'
  BY <1>1, Static DEF TypesOK, Labels
<1>3. \A l \in Labels \ {"store", "append"} : At(l)' => At(l)
  BY <1>1 DEF At
<1>4. pc' \in {"append", "get.svc", "get.done", "proxy.done", "return"}
  BY <1>1
<1>5. KindOK' /\ GetOK' /\ SelfOK' /\ PasswordOK' /\ AnswerOK'
  BY <1>1, <1>4 DEF CallOK, KindOK, GetOK, SelfOK, PasswordOK, AnswerOK, At
<1>6. PlainOK' /\ ProxyOK'
  BY <1>1, <1>4, Static DEF CallOK, PlainOK, ProxyOK, At
<1> QED BY <1>2, <1>5, <1>6 DEF CallOK

LEMMA StoreKeeps ==
  ASSUME ClientInv, StoreRead \/ StoreAppend
  PROVE  ClientInv'
<1>1. cfg' = cfg /\ pc \in {"store", "append"} /\ pc # "idle"
  BY DEF StoreRead, StoreAppend, cvars
<1>2. CachesOK'
  <2>1. CASE StoreRead
    BY <2>1, CachesSame DEF ClientInv, StoreRead
  <2>2. CASE StoreAppend
    <3>1. files[cache] \in Files /\ sto.cred \in Good /\ files \in [Names -> Files]
      BY DEF ClientInv, CachesOK, TypesOK, Stores
    <3>2. Appended(files[cache], sto.cred) \in Files
      BY <3>1, AppendedIs
    <3>3. files' \in [Names -> Files]
      BY <2>2, <3>1, <3>2 DEF StoreAppend
    <3> QED BY <2>2, <3>3, CachesKept DEF ClientInv, CachesOK, StoreAppend
  <2> QED BY <2>1, <2>2
<1>3. \/ pc' \in {"append", sto.next} /\ res' = res
      \/ pc' = "return" /\ res' = Err
  BY DEF StoreRead, StoreAppend
<1>4. UNCHANGED <<job, left, cache, req, cand, pcand, ex, sto>>
  BY DEF StoreRead, StoreAppend
<1>5. CASE pc' \in {"append", sto.next} /\ res' = res
  BY <1>1, <1>2, <1>4, <1>5, StoredOn DEF ClientInv
<1>6. CASE pc' = "return" /\ res' = Err
  <2>1. job' \in Calls /\ job'.s = job.s /\ ex' \in Exchanges
    BY <1>1, <1>4 DEF ClientInv, TypesOK
  <2> QED BY <1>1, <1>2, <1>4, <1>6, <2>1, FailsKeeps DEF ClientInv
<1> QED BY <1>3, <1>5, <1>6

LEMMA GetCheckKeeps ==
  ASSUME ClientInv, GetCheck
  PROVE  ClientInv'
<1>1. CachesOK' /\ cfg' = cfg /\ cfg \in Configs
  BY CachesSame DEF ClientInv, GetCheck, CachesOK
<1>2. Getting /\ GetOK /\ TypesOK
  BY DEF Getting, GetCheck, ClientInv, CallOK
<1>3. /\ req.c = job.cl /\ req.canon = job.canon
      /\ req.then = "return" => job.kind = "get" /\ req.s = job.s
      /\ req.then = "self.run" => job.kind = "self"
      /\ req.then = "proxy.run" => job.kind = "proxy" /\ pcand # <<>>
      /\ req.c # None
  BY <1>2, GettingIs
<1>4. files[cache] \in Files
  BY DEF ClientInv, CachesOK, TypesOK
<1> DEFINE sec == IF req.u2u THEN "u2u" ELSE "any"
           m == MatchCred(req.c, req.s, req.sr, now, req.u2u, sec)
           hit == Retrieve(files[cache], m)
<1>5. hit.cred \in Good /\ (hit.k = "hit" => hit.cred.c = req.c /\ hit.cred.s = req.s)
  <2>1. m.c = req.c /\ m.s = req.s
    BY DEF MatchCred
  <2> HIDE DEF m
  <2> QED BY <1>3, <1>4, <2>1, RetrieveIs, MatchIs
<1>6. CASE hit.k = "miss" /\ ~req.cached
  <2>1. /\ pc' = "get.cand" /\ cand' = Candidates(req.s)
        /\ UNCHANGED <<res, ex, pcand, job, left, cache, req, sto>>
    BY <1>6 DEF GetCheck
  <2> HIDE DEF hit
  <2>2. TypesOK'
    BY <1>1, <1>2, <2>1, Static DEF TypesOK, Labels, GetCheck
  <2>3. KindOK' /\ GetOK' /\ SelfOK' /\ ProxyOK' /\ PasswordOK' /\ AnswerOK'
    BY <1>3, <2>1 DEF KindOK, GetOK, SelfOK, ProxyOK, PasswordOK, AnswerOK, At
  <2>4. PlainOK'
    <3>1. Candidates(req.s) \in Seq(HostNames(req.s))
      BY CandidatesAre
    <3> QED BY <1>1, <2>1, <3>1, Static DEF PlainOK, At
  <2> QED BY <1>1, <2>2, <2>3, <2>4 DEF ClientInv, CallOK
<1>7. CASE ~(hit.k = "miss" /\ ~req.cached)
  <2>1. PICK r : r = IF hit.k = "hit" THEN Ok(hit.cred) ELSE Err
    OBVIOUS
  <2>2. GetReturns(r) /\ UNCHANGED <<job, left, cache, req, sto>>
    BY <1>7, <2>1 DEF GetCheck
  <2>3. r \in Results /\ r.k \in {"ok", "err"} /\ (r.k = "ok" => r.cred.c = req.c /\ r.cred.s = req.s)
    <3> HIDE DEF hit
    <3>1. CASE hit.k = "hit"
      BY <1>5, <2>1, <3>1, OkIs
    <3>2. CASE hit.k # "hit"
      BY <2>1, <3>2, ErrIs
    <3> QED BY <3>1, <3>2
  <2> HIDE DEF hit
  <2> QED BY <1>1, <1>2, <2>2, <2>3, GetReturnsKeeps DEF ClientInv
<1> QED BY <1>6, <1>7

\* An ordinary exchange begins, for the realm's TGT or for the server.
LEMMA PlainBegins ==
  ASSUME cfg \in Configs, cfg' = cfg, TypesOK, GetOK, Getting, cand \in Seq(HostNames(req.s)), cand # <<>>,
         NEW t \in Creds, t.c = req.c, NEW x \in Components, pc' \in {"get.realm", "get.svc"},
         pc' = "get.svc" => x \in HostNames(req.s),
         ex' = Plain(t, x, req.canon), UNCHANGED <<res, pcand, cand, job, left, cache, req, sto>>
  PROVE  TypesOK' /\ KindOK' /\ CallOK'
<1>1. /\ req.c = job.cl /\ req.canon = job.canon
      /\ req.then = "return" => job.kind = "get" /\ req.s = job.s
      /\ req.then = "self.run" => job.kind = "self"
      /\ req.then = "proxy.run" => job.kind = "proxy" /\ pcand # <<>>
      /\ req.canon \in BOOLEAN /\ job \in Calls /\ pcand \in Seq(HostNames(job.s))
  BY GettingIs
<1>2. ex' \in Exchanges /\ ex'.mode = "plain" /\ ex'.tgt = t /\ ex'.target = x /\ ex'.canon = req.canon
  BY <1>1, PlainIs
<1>3. TypesOK'
  BY <1>1, <1>2, Static DEF TypesOK, Labels
<1>4. KindOK' /\ GetOK' /\ SelfOK' /\ ProxyOK' /\ PasswordOK' /\ AnswerOK'
  BY <1>1 DEF KindOK, GetOK, SelfOK, ProxyOK, PasswordOK, AnswerOK, At
<1>5. PlainOK'
  BY <1>2, Static DEF PlainOK, At
<1> QED BY <1>3, <1>4, <1>5 DEF CallOK

LEMMA GetCandidateKeeps ==
  ASSUME ClientInv, GetCandidate
  PROVE  ClientInv'
<1>1. CachesOK' /\ cfg' = cfg /\ cfg \in Configs
  BY CachesSame DEF ClientInv, GetCandidate, CachesOK
<1>2. Getting /\ GetOK /\ TypesOK /\ cand \in Seq(HostNames(req.s))
  BY DEF Getting, GetCandidate, ClientInv, CallOK, PlainOK
<1>3. req.c # None /\ req.c \in Principals /\ req.s \in Components /\ req \in Requests
  BY <1>2, GettingIs DEF TypesOK
<1>4. files[cache] \in Files
  BY DEF ClientInv, CachesOK, TypesOK
<1>5. CachedTgt.cred \in Creds /\ (CachedTgt.k = "hit" => CachedTgt.cred.c = req.c)
  <2>0. PICK m : m = MatchCred(req.c, Tgs(ServerRealm), "any", now, FALSE, "any")
    OBVIOUS
  <2>1. CachedTgt = Retrieve(files[cache], m)
    BY <2>0 DEF CachedTgt
  <2>m. m.c = req.c
    BY <2>0 DEF MatchCred
  <2>2. CachedTgt.cred \in Good
    BY <1>4, <2>1, RetrieveIs
  <2>3. CachedTgt.k = "hit" => CachedTgt.cred.c = req.c
    BY <1>3, <1>4, <2>1, <2>m, MatchIs
  <2> QED BY <2>2, <2>3, GoodIs
<1>7. cand # <<>> => Head(cand) \in HostNames(req.s) /\ Head(cand) \in Components
  BY <1>1, <1>2, <1>3, HostNamesAre
<1>9. UNCHANGED <<job, left, cache, req, sto>>
  BY DEF GetCandidate
<1>10. \/ GetReturns(Err)
       \/ /\ cand # <<>> /\ UNCHANGED <<res, pcand, cand>> /\ pc' = "get.svc" /\ CachedTgt.k = "hit"
          /\ ex' = Plain(CachedTgt.cred, Head(cand), req.canon)
       \/ cand # <<>> /\ UNCHANGED <<res, ex, pcand, cand>> /\ pc' = "get.local"
  BY DEF GetCandidate
<1>11. CASE GetReturns(Err)
  BY <1>1, <1>2, <1>9, <1>11, ErrIs, GetReturnsKeeps DEF ClientInv
<1>12. CASE /\ cand # <<>> /\ UNCHANGED <<res, pcand, cand>> /\ pc' = "get.svc" /\ CachedTgt.k = "hit"
            /\ ex' = Plain(CachedTgt.cred, Head(cand), req.canon)
  BY <1>1, <1>2, <1>5, <1>7, <1>9, <1>12, PlainBegins DEF ClientInv
<1>13. CASE cand # <<>> /\ UNCHANGED <<res, ex, pcand, cand>> /\ pc' = "get.local"
  <2>1. TypesOK'
    <3>1. job \in Calls /\ pcand \in Seq(HostNames(job.s))
      BY <1>2, GettingIs
    <3> QED BY <1>1, <1>2, <1>9, <1>13, <3>1, Static DEF TypesOK, Labels
  <2>2. KindOK' /\ GetOK' /\ SelfOK' /\ ProxyOK' /\ PasswordOK' /\ AnswerOK'
    <3>1. /\ req.c = job.cl /\ req.canon = job.canon
          /\ req.then = "return" => job.kind = "get" /\ req.s = job.s
          /\ req.then = "self.run" => job.kind = "self"
          /\ req.then = "proxy.run" => job.kind = "proxy" /\ pcand # <<>>
      BY <1>2, GettingIs
    <3> QED BY <1>9, <1>13, <3>1 DEF KindOK, GetOK, SelfOK, ProxyOK, PasswordOK, AnswerOK, At
  <2>3. PlainOK'
    BY <1>1, <1>2, <1>9, <1>13, Static DEF PlainOK, At
  <2> QED BY <1>1, <2>1, <2>2, <2>3 DEF ClientInv, CallOK
<1> QED BY <1>10, <1>11, <1>12, <1>13

LEMMA GetLocalKeeps ==
  ASSUME ClientInv, GetLocal
  PROVE  ClientInv'
<1>1. CachesOK' /\ cfg' = cfg /\ cfg \in Configs
  BY CachesSame DEF ClientInv, GetLocal, CachesOK
<1>2. Getting /\ GetOK /\ TypesOK /\ cand \in Seq(HostNames(req.s)) /\ cand # <<>>
  BY DEF Getting, GetLocal, ClientInv, CallOK, PlainOK
<1>3. req.c # None /\ req.c \in Principals /\ req.s \in Components /\ req \in Requests
  BY <1>2, GettingIs DEF TypesOK
<1>4. files[cache] \in Files
  BY DEF ClientInv, CachesOK, TypesOK
<1>6. LocalTgt.cred \in Creds /\ (LocalTgt.k = "hit" => LocalTgt.cred.c = req.c)
  <2>0. PICK m : m = MatchCred(req.c, Tgs(req.c.r), req.c.r, 0, FALSE, "any")
    OBVIOUS
  <2>1. LocalTgt = Retrieve(files[cache], m)
    BY <2>0 DEF LocalTgt
  <2>m. m.c = req.c
    BY <2>0 DEF MatchCred
  <2>2. LocalTgt.cred \in Good
    BY <1>4, <2>1, RetrieveIs
  <2>3. LocalTgt.k = "hit" => LocalTgt.cred.c = req.c
    BY <1>3, <1>4, <2>1, <2>m, MatchIs
  <2> QED BY <2>2, <2>3, GoodIs
<1>7. Head(cand) \in HostNames(req.s) /\ Head(cand) \in Components
  BY <1>1, <1>2, <1>3, HostNamesAre
<1>8. ServerRealm \in Texts /\ Tgs(ServerRealm) \in Components
  <2>1. req.c.r \in Texts /\ req.sr \in Texts
    BY <1>3 DEF Requests, Principals
  <2>2. ServerRealm \in Texts
    BY <2>1 DEF ServerRealm
  <2> QED BY <2>2, TgsIs
<1>9. UNCHANGED <<job, left, cache, req, cand, sto>>
  BY DEF GetLocal
<1>10. \/ GetReturns(Err)
       \/ /\ UNCHANGED <<res, pcand>> /\ pc' = "get.svc" /\ LocalTgt.k = "hit"
          /\ ex' = Plain(LocalTgt.cred, Head(cand), req.canon)
       \/ /\ UNCHANGED <<res, pcand>> /\ pc' = "get.realm" /\ LocalTgt.k = "hit"
          /\ ex' = Plain(LocalTgt.cred, Tgs(ServerRealm), req.canon)
  BY DEF GetLocal
<1>11. CASE GetReturns(Err)
  BY <1>1, <1>2, <1>9, <1>11, ErrIs, GetReturnsKeeps DEF ClientInv
<1>12. CASE /\ UNCHANGED <<res, pcand>> /\ pc' = "get.svc" /\ LocalTgt.k = "hit"
            /\ ex' = Plain(LocalTgt.cred, Head(cand), req.canon)
  BY <1>1, <1>2, <1>6, <1>7, <1>9, <1>12, PlainBegins DEF ClientInv
<1>13. CASE /\ UNCHANGED <<res, pcand>> /\ pc' = "get.realm" /\ LocalTgt.k = "hit"
            /\ ex' = Plain(LocalTgt.cred, Tgs(ServerRealm), req.canon)
  BY <1>1, <1>2, <1>6, <1>8, <1>9, <1>13, PlainBegins DEF ClientInv
<1> QED BY <1>10, <1>11, <1>12, <1>13

\* The ordinary exchange goes on, or the next name is tried.
LEMMA PlainGoesOn ==
  ASSUME cfg' = cfg, TypesOK, GetOK, Getting, pc \in {"get.realm", "get.svc"}, PlainOK,
         NEW s, PlainFacts(ex, s), ex' = s.ex,
         \/ s.k = "send" /\ UNCHANGED <<pc, cand>>
         \/ pc' = "get.cand" /\ cand' = Tail(cand),
         UNCHANGED <<res, pcand, job, left, cache, req, sto>>
  PROVE  TypesOK' /\ KindOK' /\ CallOK'
<1>1. /\ req.c = job.cl /\ req.canon = job.canon
      /\ req.then = "return" => job.kind = "get" /\ req.s = job.s
      /\ req.then = "self.run" => job.kind = "self"
      /\ req.then = "proxy.run" => job.kind = "proxy" /\ pcand # <<>>
      /\ job \in Calls /\ pcand \in Seq(HostNames(job.s))
  BY GettingIs
<1>2. pc' \in {"get.realm", "get.svc", "get.cand"} /\ ex' \in Exchanges
  BY DEF PlainFacts, Ended
<1>3. TypesOK'
  BY <1>1, <1>2, Static DEF TypesOK, Labels
<1>4. KindOK' /\ GetOK' /\ SelfOK' /\ ProxyOK' /\ PasswordOK' /\ AnswerOK'
  BY <1>1, <1>2 DEF KindOK, GetOK, SelfOK, ProxyOK, PasswordOK, AnswerOK, At
<1>5. /\ cand \in Seq(HostNames(req.s)) /\ cand # <<>>
      /\ ex.mode = "plain" /\ ex.tgt.c = req.c /\ ex.canon = req.canon
      /\ pc = "get.svc" => ex.target \in HostNames(req.s)
  BY DEF PlainOK, At
<1>6. Tail(cand) \in Seq(HostNames(req.s))
  BY <1>5
<1>7. PlainOK'
  BY <1>5, <1>6, Static DEF PlainOK, At, PlainFacts
<1> QED BY <1>3, <1>4, <1>7 DEF CallOK

\* A ticket that is stored, or kept, on the way to label l.
LEMMA StoreIs ==
  ASSUME NEW t \in Good, NEW b \in BOOLEAN, NEW l \in {"get.svc", "get.done", "proxy.done", "return"}, Store(t, b, l)
  PROVE  pc' = "store" /\ sto' \in Stores /\ sto'.next = l
BY DEF Store, Stores

LEMMA GetRealmKeeps ==
  ASSUME ClientInv, NEW s, PlainFacts(ex, s), GetRealm(s)
  PROVE  ClientInv'
<1>1. CachesOK' /\ cfg' = cfg /\ cfg \in Configs
  BY CachesSame DEF ClientInv, GetRealm, CachesOK
<1>2. /\ Getting /\ GetOK /\ TypesOK /\ PlainOK /\ cand \in Seq(HostNames(req.s)) /\ pc = "get.realm"
      /\ cand # <<>> /\ ex.tgt.c = req.c
  BY DEF Getting, GetRealm, ClientInv, CallOK, PlainOK
<1>3. UNCHANGED <<job, left, cache, req>> /\ s.k \in {"send", "done", "unknown", "other"} /\ s.ex \in Exchanges
  BY DEF GetRealm, PlainFacts, Ended
<1>4. CASE s.k = "send"
  <2>1. ex' = s.ex /\ UNCHANGED <<pc, cand, res, pcand, sto>>
    BY <1>4 DEF GetRealm
  <2> QED BY <1>1, <1>2, <1>3, <1>4, <2>1, PlainGoesOn DEF ClientInv
<1>5. CASE s.k = "unknown"
  <2>1. ex' = s.ex /\ pc' = "get.cand" /\ cand' = Tail(cand) /\ UNCHANGED <<res, pcand, sto>>
    BY <1>5 DEF GetRealm
  <2> QED BY <1>1, <1>2, <1>3, <2>1, PlainGoesOn DEF ClientInv
<1>6. CASE s.k = "other"
  <2>1. ex' = s.ex /\ pc' = "return" /\ res' = Err /\ UNCHANGED <<pcand, sto>>
    BY <1>6 DEF GetRealm
  <2>2. job \in Calls
    BY <1>2 DEF TypesOK
  <2> QED BY <1>1, <1>2, <1>3, <2>1, <2>2, FailsKeeps DEF ClientInv
<1>7. CASE s.k = "done"
  <2>1. s.cred \in Good /\ s.cred \in Creds /\ s.cred.c = req.c
    BY <1>2, <1>7, GoodIs DEF PlainFacts, Ended
  <2>2. Head(cand) \in HostNames(req.s) /\ Head(cand) \in Components
    BY <1>1, <1>2, GettingIs, HostNamesAre
  <2>3. ex' = Plain(s.cred, Head(cand), req.canon) /\ UNCHANGED <<cand, res, pcand>>
    BY <1>7 DEF GetRealm
  <2>4. CASE pc' = "get.svc" /\ UNCHANGED sto
    BY <1>1, <1>2, <1>3, <2>1, <2>2, <2>3, <2>4, PlainBegins DEF ClientInv
  <2>5. CASE Store(s.cred, FALSE, "get.svc")
    <3>1. pc' = "store" /\ sto' \in Stores /\ sto'.next = "get.svc"
      BY <2>1, <2>5, StoreIs
    <3>2. /\ req.c = job.cl /\ req.canon = job.canon
          /\ req.then = "return" => job.kind = "get" /\ req.s = job.s
          /\ req.then = "self.run" => job.kind = "self"
          /\ req.then = "proxy.run" => job.kind = "proxy" /\ pcand # <<>>
          /\ req.canon \in BOOLEAN /\ job \in Calls /\ pcand \in Seq(HostNames(job.s))
      BY <1>2, GettingIs
    <3>3. /\ ex' \in Exchanges /\ ex'.mode = "plain" /\ ex'.tgt.c = req.c /\ ex'.target = Head(cand)
          /\ ex'.canon = req.canon
      BY <2>1, <2>2, <2>3, <3>2, PlainIs
    <3>4. TypesOK'
      BY <1>1, <1>2, <1>3, <2>3, <3>1, <3>2, <3>3, Static DEF TypesOK, Labels
    <3>5. KindOK' /\ GetOK' /\ SelfOK' /\ ProxyOK' /\ PasswordOK' /\ AnswerOK'
      BY <1>3, <2>3, <3>1, <3>2 DEF KindOK, GetOK, SelfOK, ProxyOK, PasswordOK, AnswerOK, At
    <3>6. PlainOK'
      BY <1>1, <1>2, <1>3, <2>2, <2>3, <3>1, <3>3, Static DEF PlainOK, At
    <3> QED BY <1>1, <3>4, <3>5, <3>6 DEF ClientInv, CallOK
  <2>6. Store(s.cred, FALSE, "get.svc") \/ (pc' = "get.svc" /\ UNCHANGED sto)
    BY <1>7 DEF GetRealm
  <2> QED BY <2>4, <2>5, <2>6
<1> QED BY <1>3, <1>4, <1>5, <1>6, <1>7

\* The ticket is filed under the names it was asked for.
LEMMA FiledIs ==
  ASSUME cfg \in Configs, TypesOK, GetOK, Getting, NEW t \in Good, t.c = req.c, t.s = t.ts,
         NEW x \in HostNames(req.s), t.ts # x => req.canon /\ ~IsTgs(t.ts)
  PROVE  Filed(t) \in Good /\ Filed(t).c = req.c /\ Filed(t).s = req.s
<1>1. req.s \in Components /\ req.sr \in Texts /\ req.u2u \in BOOLEAN /\ req.canon = job.canon /\ job \in Calls
  BY GettingIs DEF TypesOK, Requests
<1>2. t \in Creds /\ t.tc = t.c
  BY GoodIs
<1>3. PICK sec \in Texts : sec = IF req.u2u THEN "u2u" ELSE "none"
  BY TextsAre
<1>4. PICK s, sr, u : s = req.s /\ sr = req.sr /\ u = req.u2u
  OBVIOUS
<1>5. PICK f : f = [t EXCEPT !.s = s, !.sr = sr, !.skey = u, !.sec = sec]
  OBVIOUS
<1>6. Filed(t) = f
  BY <1>3, <1>4, <1>5 DEF Filed
<1>7. f \in Creds
  BY <1>1, <1>2, <1>4, <1>5 DEF Creds
<1>8. f.c = t.c /\ f.tc = t.tc /\ f.s = req.s /\ f.ts = t.ts
  BY <1>2, <1>4, <1>5 DEF Creds
<1>9. SameServer(cfg, f)
  <2>1. CASE t.ts = x
    <3>1. x = req.s \/ (Renamed(cfg, req.s) /\ ~IsTgs(x))
      BY <1>1, HostNamesAre
    <3> QED BY <1>8, <2>1, <3>1 DEF SameServer
  <2>2. CASE t.ts # x
    <3>1. CanonAsked(cfg)
      BY <1>1, <2>2, CallsIs
    <3> QED BY <1>8, <2>2, <3>1 DEF SameServer, Renamed
  <2> QED BY <2>1, <2>2
<1> QED BY <1>2, <1>6, <1>7, <1>8, <1>9 DEF Good, Honest

LEMMA GetServiceKeeps ==
  ASSUME ClientInv, NEW s, PlainFacts(ex, s), GetService(s)
  PROVE  ClientInv'
<1>1. CachesOK' /\ cfg' = cfg /\ cfg \in Configs
  BY CachesSame DEF ClientInv, GetService, CachesOK
<1>2. /\ Getting /\ GetOK /\ TypesOK /\ PlainOK /\ cand \in Seq(HostNames(req.s)) /\ pc = "get.svc"
      /\ cand # <<>> /\ ex.tgt.c = req.c /\ ex.canon = req.canon /\ ex.target \in HostNames(req.s)
  BY DEF Getting, GetService, ClientInv, CallOK, PlainOK, At
<1>3. /\ UNCHANGED <<job, left, cache, req, pcand>> /\ s.k \in {"send", "done", "unknown", "other"}
      /\ s.ex \in Exchanges
  BY DEF GetService, PlainFacts, Ended
<1>4. CASE s.k = "send"
  <2>1. ex' = s.ex /\ UNCHANGED <<pc, cand, res, sto>>
    BY <1>4 DEF GetService
  <2> QED BY <1>1, <1>2, <1>3, <1>4, <2>1, PlainGoesOn DEF ClientInv
<1>5. CASE s.k = "unknown"
  <2>1. ex' = s.ex /\ pc' = "get.cand" /\ cand' = Tail(cand) /\ UNCHANGED <<res, sto>>
    BY <1>5 DEF GetService
  <2> QED BY <1>1, <1>2, <1>3, <2>1, PlainGoesOn DEF ClientInv
<1>6. CASE s.k = "other"
  <2>1. ex' = s.ex /\ pc' = "return" /\ res' = Err /\ UNCHANGED sto
    BY <1>6 DEF GetService
  <2>2. job \in Calls
    BY <1>2 DEF TypesOK
  <2> QED BY <1>1, <1>2, <1>3, <2>1, <2>2, FailsKeeps DEF ClientInv
<1>7. CASE s.k = "done"
  <2>1. s.cred \in Good /\ s.cred.c = req.c /\ s.cred.s = s.cred.ts
        /\ (s.cred.ts # ex.target => req.canon /\ ~IsTgs(s.cred.ts))
    BY <1>2, <1>7 DEF PlainFacts, Ended
  <2>2. PICK t : t = Filed(s.cred)
    OBVIOUS
  <2>3. t \in Good /\ t.c = req.c /\ t.s = req.s
    BY <1>1, <1>2, <2>1, <2>2, FiledIs
  <2>4. res' = Ok(t) /\ ex' = s.ex
    BY <1>7, <2>2 DEF GetService
  <2>5. \/ pc' = "get.done" /\ UNCHANGED sto
        \/ pc' = "store" /\ sto' \in Stores /\ sto'.next = "get.done"
    <3>1. (pc' = "get.done" /\ UNCHANGED sto) \/ Store(t, FALSE, "get.done")
      BY <1>7, <2>2 DEF GetService
    <3> QED BY <2>3, <3>1, StoreIs
  <2>6. /\ req.c = job.cl /\ req.canon = job.canon
        /\ req.then = "return" => job.kind = "get" /\ req.s = job.s
        /\ req.then = "self.run" => job.kind = "self"
        /\ req.then = "proxy.run" => job.kind = "proxy" /\ pcand # <<>>
        /\ job \in Calls /\ pcand \in Seq(HostNames(job.s))
    BY <1>2, GettingIs
  <2>7. res' \in Results /\ res'.k = "ok" /\ res'.cred = t
    BY <2>3, <2>4, OkIs
  <2>8. TypesOK'
    BY <1>1, <1>2, <1>3, <2>4, <2>5, <2>6, <2>7, Static DEF TypesOK, Labels
  <2>9. KindOK' /\ GetOK' /\ SelfOK' /\ ProxyOK' /\ PasswordOK' /\ AnswerOK'
    BY <1>3, <2>5, <2>6 DEF KindOK, GetOK, SelfOK, ProxyOK, PasswordOK, AnswerOK, At
  <2>10. PlainOK'
    BY <1>3, <2>3, <2>5, <2>7 DEF PlainOK, At
  <2> QED BY <1>1, <2>8, <2>9, <2>10 DEF ClientInv, CallOK
<1> QED BY <1>3, <1>4, <1>5, <1>6, <1>7

LEMMA GetDoneKeeps ==
  ASSUME ClientInv, GetDone
  PROVE  ClientInv'
<1>1. CachesOK' /\ cfg' = cfg /\ cfg \in Configs
  BY CachesSame DEF ClientInv, GetDone, CachesOK
<1>2. Getting /\ GetOK /\ TypesOK /\ res.k = "ok" /\ res.cred.c = req.c /\ res.cred.s = req.s /\ res \in Results
  BY DEF Getting, GetDone, ClientInv, CallOK, PlainOK, TypesOK, At
<1>3. GetReturns(res) /\ UNCHANGED <<job, left, cache, req, sto>>
  BY DEF GetDone
<1> QED BY <1>1, <1>2, <1>3, GetReturnsKeeps DEF ClientInv

LEMMA SelectKeeps ==
  ASSUME ClientInv, SelectStep
  PROVE  ClientInv'
<1>1. cfg' = cfg /\ pc = "select" /\ TypesOK /\ job \in Calls /\ job.kind = "get" /\ ex \in Exchanges
  BY DEF SelectStep, ClientInv, TypesOK, KindOK
<1>2. CachesOK'
  <2>1. primary' \in {"none", "tkt", "tktX"}
    BY DEF SelectStep, PrimaryMade, ClientInv, CachesOK
  <2> QED BY <2>1, CachesKept DEF SelectStep, ClientInv, CachesOK
<1>3. UNCHANGED <<job, left, req, cand, pcand, ex, sto>>
  BY DEF SelectStep
<1>4. CASE SelectCache(job.sr) = "error"
  BY <1>1, <1>2, <1>3, <1>4, FailsKeeps DEF SelectStep, ClientInv
<1>5. CASE SelectCache(job.sr) # "error"
  <2>1. pc' = "principal" /\ cache' \in Names /\ res' = res
    BY <1>5, SelectIs DEF SelectStep, ClientInv, CachesOK
  <2>2. TypesOK'
    BY <1>1, <1>3, <2>1, Static DEF TypesOK, Labels
  <2>3. KindOK' /\ CallOK'
    BY <1>1, <1>3, <2>1 DEF KindOK, CallOK, GetOK, PlainOK, SelfOK, ProxyOK, PasswordOK, AnswerOK, At
  <2> QED BY <1>2, <2>2, <2>3 DEF ClientInv
<1> QED BY <1>4, <1>5

LEMMA RequestIs ==
  ASSUME job \in Calls, NEW c \in Principals, NEW s \in Components, NEW sr \in Texts,
         NEW then \in {"return", "self.run", "proxy.run"}
  PROVE  /\ Request(c, s, sr, then) \in Requests
         /\ Request(c, s, sr, then).c = c /\ Request(c, s, sr, then).s = s
         /\ Request(c, s, sr, then).canon = job.canon /\ Request(c, s, sr, then).then = then
<1>1. PICK b \in BOOLEAN : b = (then = "return" /\ job.u2u)
  OBVIOUS
<1>2. job.canon \in BOOLEAN /\ job.nostore \in BOOLEAN /\ job.cached \in BOOLEAN
  BY CallsIs
<1>3. Request(c, s, sr, then) = [c |-> c, s |-> s, sr |-> sr, canon |-> job.canon, u2u |-> b,
        nostore |-> job.nostore, cached |-> job.cached, then |-> then]
  BY <1>1, Zenon DEF Request
<1> QED BY <1>2, <1>3 DEF Requests

\* get_credentials is called, with a request of the call.
LEMMA GetBegins ==
  ASSUME cfg' = cfg, TypesOK, pc # "idle", job' \in Calls, job'.s = job.s, pc' = "get.check", req' \in Requests,
         req'.c = job'.cl, req'.canon = job'.canon,
         req'.then = "return" => job'.kind = "get" /\ req'.s = job'.s,
         req'.then = "self.run" => job'.kind = "self",
         req'.then = "proxy.run" => job'.kind = "proxy" /\ pcand # <<>>,
         UNCHANGED <<left, cache, cand, pcand, ex, sto, res>>
  PROVE  TypesOK' /\ KindOK' /\ CallOK'
<1>1. TypesOK'
  BY Static DEF TypesOK, Labels
<1>2. KindOK' /\ GetOK' /\ PlainOK' /\ SelfOK' /\ ProxyOK' /\ PasswordOK' /\ AnswerOK'
  BY DEF KindOK, GetOK, PlainOK, SelfOK, ProxyOK, PasswordOK, AnswerOK, At
<1> QED BY <1>1, <1>2 DEF CallOK

LEMMA JobWith ==
  ASSUME NEW j \in Calls, NEW c \in Principals, c # None
  PROVE  /\ [j EXCEPT !.cl = c] \in Calls /\ [j EXCEPT !.cl = c].cl = c /\ [j EXCEPT !.cl = c].s = j.s
         /\ [j EXCEPT !.cl = c].kind = j.kind /\ [j EXCEPT !.cl = c].canon = j.canon
<1>1. j \in Jobs /\ (j.canon => CanonAsked(cfg))
  BY DEF Calls
<1>2. PICK k : k = [j EXCEPT !.cl = c]
  OBVIOUS
<1>3. k \in Jobs /\ k.cl = c /\ k.s = j.s /\ k.kind = j.kind /\ k.canon = j.canon
  BY <1>1, <1>2 DEF Jobs
<1> QED BY <1>1, <1>2, <1>3 DEF Calls

LEMMA JobFor ==
  ASSUME NEW j \in Calls, NEW p \in Principals
  PROVE  /\ [j EXCEPT !.id = p] \in Calls /\ [j EXCEPT !.id = p].cl = j.cl /\ [j EXCEPT !.id = p].s = j.s
         /\ [j EXCEPT !.id = p].kind = j.kind /\ [j EXCEPT !.id = p].canon = j.canon
         /\ [j EXCEPT !.id = p].id = p /\ [j EXCEPT !.id = p].user = j.user
<1>1. j \in Jobs /\ (j.canon => CanonAsked(cfg))
  BY DEF Calls
<1>2. PICK k : k = [j EXCEPT !.id = p]
  OBVIOUS
<1>3. /\ k \in Jobs /\ k.cl = j.cl /\ k.s = j.s /\ k.kind = j.kind /\ k.canon = j.canon
      /\ k.id = p /\ k.user = j.user
  BY <1>1, <1>2 DEF Jobs
<1> QED BY <1>1, <1>2, <1>3 DEF Calls

LEMMA PrincipalKeeps ==
  ASSUME ClientInv, PrincipalStep
  PROVE  ClientInv'
<1>1. CachesOK' /\ cfg' = cfg
  BY CachesSame DEF ClientInv, PrincipalStep
<1>2. pc = "principal" /\ TypesOK /\ job \in Calls /\ job.kind = "get" /\ ex \in Exchanges
  BY DEF PrincipalStep, ClientInv, TypesOK, KindOK
<1>3. UNCHANGED <<left, cache, cand, pcand, ex, sto>> /\ files[cache] \in Files
  BY DEF PrincipalStep, ClientInv, CachesOK, TypesOK
<1>4. CASE Opened(files[cache])
  <2>1. PICK p : p = Principal(files[cache])
    OBVIOUS
  <2>2. p \in Principals /\ p # None
    BY <1>3, <1>4, <2>1, FilesIs DEF Principal
  <2>3. /\ job' = [job EXCEPT !.cl = p] /\ req' = Request(p, job.s, job.sr, "return")
        /\ pc' = "get.check" /\ res' = res
    BY <1>4, <2>1 DEF PrincipalStep
  <2>4. job' \in Calls /\ job'.cl = p /\ job'.s = job.s /\ job'.kind = "get" /\ job'.canon = job.canon
    BY <1>2, <2>2, <2>3, JobWith
  <2>5. job.s \in Components /\ job.sr \in Texts
    BY <1>2, CallsIs
  <2>6. req' \in Requests /\ req'.c = p /\ req'.s = job.s /\ req'.canon = job.canon /\ req'.then = "return"
    BY <1>2, <2>2, <2>3, <2>5, RequestIs
  <2> QED BY <1>1, <1>2, <1>3, <2>3, <2>4, <2>6, GetBegins DEF ClientInv
<1>5. CASE ~Opened(files[cache])
  <2>1. pc' = "return" /\ res' = Err /\ job' = job /\ req' = req
    BY <1>5 DEF PrincipalStep
  <2> QED BY <1>1, <1>2, <1>3, <2>1, FailsKeeps DEF ClientInv
<1> QED BY <1>4, <1>5

\* The call returns with a ticket that it found or was given.
LEMMA AnswersKeeps ==
  ASSUME cfg' = cfg, TypesOK, pc # "idle", pc' = "return", job' \in Calls, job'.s = job.s, res' \in Results,
         UNCHANGED <<left, cache, req, pcand, ex, sto>>,
         res'.k = "ok" =>
           /\ job'.kind = "get" => res'.cred.c = job'.cl /\ res'.cred.s = job'.s
           /\ job'.kind = "self" => /\ res'.cred.s = job'.cl.n
                                    /\ res'.cred.c \in {job'.user, job'.id, ex'.user}
                                    /\ res'.cred.c = job'.cl => job'.cl \in {job'.user, job'.id}
           /\ job'.kind = "proxy" => res'.cred.c = job'.user /\ res'.cred.s = job'.s
           /\ job'.kind = "password" => res'.cred.c = job'.cl /\ res'.cred.s = Tgs(job'.cl.r)
  PROVE  TypesOK' /\ KindOK' /\ CallOK'
<1>1. TypesOK'
  BY Static DEF TypesOK, Labels
<1>2. KindOK' /\ GetOK' /\ PlainOK' /\ SelfOK' /\ ProxyOK' /\ PasswordOK'
  BY DEF KindOK, GetOK, PlainOK, SelfOK, ProxyOK, PasswordOK, At
<1>3. AnswerOK'
  BY DEF AnswerOK, Tgs
<1> QED BY <1>1, <1>2, <1>3 DEF CallOK

LEMMA UserCredIs ==
  ASSUME files[cache] \in Files, NEW p
  PROVE  /\ UserCred(p).cred \in Good /\ UserCred(p).k \in {"error", "miss", "hit"}
         /\ p # None /\ UserCred(p).k = "hit" => UserCred(p).cred.c = p /\ UserCred(p).cred.s = job.cl.n
<1>0. PICK m : m = MatchCred(p, job.cl.n, job.cl.r, now, FALSE, "any")
  OBVIOUS
<1>1. UserCred(p) = Retrieve(files[cache], m) /\ m.c = p /\ m.s = job.cl.n
  BY <1>0 DEF UserCred, MatchCred
<1>2. UserCred(p).cred \in Good /\ UserCred(p).k \in {"error", "miss", "hit"}
  BY <1>1, RetrieveIs
<1>3. p # None /\ UserCred(p).k = "hit" => UserCred(p).cred.c = p /\ UserCred(p).cred.s = job.cl.n
  BY <1>1, MatchIs
<1> QED BY <1>2, <1>3

LEMMA SelfCheckKeeps ==
  ASSUME ClientInv, SelfCheck
  PROVE  ClientInv'
<1>1. CachesOK' /\ cfg' = cfg
  BY CachesSame DEF ClientInv, SelfCheck
<1>2. /\ pc = "self.check" /\ TypesOK /\ job \in Calls /\ job.kind = "self" /\ ex \in Exchanges
      /\ files[cache] \in Files
  BY DEF SelfCheck, ClientInv, TypesOK, KindOK, CachesOK
<1>3. UNCHANGED <<job, left, cache, req, cand, pcand, ex, sto>>
  BY DEF SelfCheck
<1>4. CASE pc' = "self.ident" /\ res' = res
  <2>1. TypesOK'
    BY <1>1, <1>2, <1>3, <1>4, Static DEF TypesOK, Labels
  <2>2. KindOK' /\ CallOK'
    BY <1>2, <1>3, <1>4 DEF KindOK, CallOK, GetOK, PlainOK, SelfOK, ProxyOK, PasswordOK, AnswerOK, At
  <2> QED BY <1>1, <2>1, <2>2 DEF ClientInv
<1>5. CASE pc' = "return" /\ res' = Err
  BY <1>1, <1>2, <1>3, <1>5, FailsKeeps DEF ClientInv
<1>6. CASE /\ pc' = "return" /\ job.user # None /\ UserCred(job.user).k = "hit"
           /\ res' = Ok(UserCred(job.user).cred)
  <2>1. PICK t : t = UserCred(job.user).cred
    OBVIOUS
  <2>2. t \in Good /\ t.c = job.user /\ t.s = job.cl.n
    BY <1>2, <1>6, <2>1, UserCredIs
  <2>3. res' \in Results /\ res'.cred = t
    BY <1>6, <2>1, <2>2, OkIs
  <2>4. UNCHANGED <<left, cache, req, pcand, ex, sto>> /\ job' = job /\ pc' = "return" /\ pc # "idle"
    BY <1>2, <1>3, <1>6
  <2> QED BY <1>1, <1>2, <2>2, <2>3, <2>4, AnswersKeeps DEF ClientInv
<1> QED BY <1>4, <1>5, <1>6 DEF SelfCheck

LEMMA SelfIdentifyKeeps ==
  ASSUME ClientInv, NEW r \in Realms \cup {"error"}, SelfIdentify(r)
  PROVE  ClientInv'
<1>1. CachesOK' /\ cfg' = cfg
  BY CachesSame DEF ClientInv, SelfIdentify
<1>2. /\ pc = "self.ident" /\ pc # "idle" /\ TypesOK /\ job \in Calls /\ job.kind = "self" /\ ex \in Exchanges
      /\ files[cache] \in Files
  BY DEF SelfIdentify, ClientInv, TypesOK, KindOK, CachesOK
<1>3. UNCHANGED <<left, cache, cand, pcand, ex, sto>>
  BY DEF SelfIdentify
<1>4. r \in Texts /\ r # "none" /\ Tgs(r) \in Components
  <2>1. r \in Texts /\ r # "none"
    BY TextsAre DEF Realms
  <2> QED BY <2>1, TgsIs
<1>5. PICK id : id = IF job.user = None \/ job.ent THEN Princ(job.user.n, r) ELSE job.user
  OBVIOUS
<1>6. id \in Principals /\ id # None
  <2>1. job.user \in Principals /\ job.user.n \in Components
    BY <1>2, CallsIs
  <2>2. Princ(job.user.n, r) \in Principals
    BY <1>4, <2>1 DEF Princ, Principals
  <2>3. Princ(job.user.n, r) # None
    <3>1. Princ(job.user.n, r).r = r /\ None.r = "none"
      BY DEF Princ, None
    <3> QED BY <1>4, <3>1
  <2> QED BY <1>5, <2>1, <2>2, <2>3
<1>7. job' = [job EXCEPT !.id = id]
  BY <1>5 DEF SelfIdentify
<1>8. /\ job' \in Calls /\ job'.cl = job.cl /\ job'.s = job.s /\ job'.kind = "self" /\ job'.canon = job.canon
      /\ job'.id = id /\ job'.user = job.user
  BY <1>2, <1>6, <1>7, JobFor
<1>9. \/ pc' = "return" /\ res' = Err /\ req' = req
      \/ pc' = "return" /\ UserCred(id).k = "hit" /\ res' = Ok(UserCred(id).cred) /\ req' = req
      \/ pc' = "get.check" /\ req' = Request(job.cl, Tgs(r), job.cl.r, "self.run") /\ res' = res
  BY <1>5 DEF SelfIdentify
<1>10. CASE pc' = "return" /\ res' = Err /\ req' = req
  BY <1>1, <1>2, <1>3, <1>8, <1>10, FailsKeeps DEF ClientInv
<1>11. CASE pc' = "return" /\ UserCred(id).k = "hit" /\ res' = Ok(UserCred(id).cred) /\ req' = req
  <2>1. PICK t : t = UserCred(id).cred
    OBVIOUS
  <2>2. t \in Good /\ t.c = id /\ t.s = job.cl.n
    BY <1>2, <1>6, <1>11, <2>1, UserCredIs
  <2>3. res' \in Results /\ res'.cred = t
    BY <1>11, <2>1, <2>2, OkIs
  <2>4. UNCHANGED <<left, cache, req, pcand, ex, sto>> /\ pc' = "return"
    BY <1>3, <1>11
  <2> QED BY <1>1, <1>2, <1>8, <2>2, <2>3, <2>4, AnswersKeeps DEF ClientInv
<1>12. CASE pc' = "get.check" /\ req' = Request(job.cl, Tgs(r), job.cl.r, "self.run") /\ res' = res
  <2>1. job.cl \in Principals /\ job.cl.r \in Texts
    BY <1>2, CallsIs
  <2>2. req' \in Requests /\ req'.c = job.cl /\ req'.canon = job.canon /\ req'.then = "self.run"
    BY <1>2, <1>4, <1>12, <2>1, RequestIs
  <2> QED BY <1>1, <1>2, <1>3, <1>8, <1>12, <2>2, GetBegins DEF ClientInv
<1> QED BY <1>9, <1>10, <1>11, <1>12

LEMMA SelfRunKeeps ==
  ASSUME ClientInv, NEW s, SelfFacts(ex, s), SelfRun(s)
  PROVE  ClientInv'
<1>1. CachesOK' /\ cfg' = cfg
  BY CachesSame DEF ClientInv, SelfRun
<1>2. /\ pc = "self.run" /\ pc # "idle" /\ TypesOK /\ job \in Calls /\ job.kind = "self"
      /\ ex.svc = job.cl /\ ex.tgt.c = job.cl
  BY DEF SelfRun, ClientInv, TypesOK, KindOK, CallOK, SelfOK
<1>3. /\ UNCHANGED <<job, left, cache, req, cand, pcand, sto>> /\ ex' = s.ex
      /\ s.k \in {"send", "done", "unknown", "other"} /\ s.ex \in Exchanges
  BY DEF SelfRun, SelfFacts, Ended
<1>4. CASE s.k = "send"
  <2>1. pc' = "self.run" /\ res' = res
    BY <1>2, <1>4 DEF SelfRun
  <2>2. ex'.mode = "self" /\ ~ex'.first /\ ex'.svc = job.cl /\ ex'.tgt.c = job.cl
    BY <1>2, <1>3, <1>4 DEF SelfFacts
  <2>3. TypesOK'
    BY <1>1, <1>2, <1>3, <2>1, Static DEF TypesOK, Labels
  <2>4. KindOK' /\ CallOK'
    BY <1>2, <1>3, <2>1, <2>2
    DEF KindOK, CallOK, GetOK, PlainOK, SelfOK, ProxyOK, PasswordOK, AnswerOK, At
  <2> QED BY <1>1, <2>3, <2>4 DEF ClientInv
<1>5. CASE s.k = "done"
  <2>1. pc' = "self.final" /\ res' = Ok(s.cred)
    BY <1>5 DEF SelfRun
  <2>2. /\ s.cred \in Good /\ s.cred.s = job.cl.n /\ s.cred.c = ex'.user
        /\ s.cred.c # job.cl /\ s.cred.c # None
    BY <1>2, <1>3, <1>5 DEF SelfFacts, Ended
  <2>3. res' \in Results /\ res'.k = "ok" /\ res'.cred = s.cred
    BY <2>1, <2>2, OkIs
  <2>4. TypesOK'
    BY <1>1, <1>2, <1>3, <2>1, <2>3, Static DEF TypesOK, Labels
  <2>5. KindOK' /\ CallOK'
    BY <1>2, <1>3, <2>1, <2>2, <2>3
    DEF KindOK, CallOK, GetOK, PlainOK, SelfOK, ProxyOK, PasswordOK, AnswerOK, At
  <2> QED BY <1>1, <2>4, <2>5 DEF ClientInv
<1>6. CASE s.k \in {"unknown", "other"}
  <2>1. pc' = "return" /\ res' = Err
    BY <1>6 DEF SelfRun
  <2> QED BY <1>1, <1>2, <1>3, <2>1, FailsKeeps DEF ClientInv
<1> QED BY <1>3, <1>4, <1>5, <1>6

LEMMA SelfFinalKeeps ==
  ASSUME ClientInv, SelfFinal
  PROVE  ClientInv'
<1>1. CachesOK' /\ cfg' = cfg
  BY CachesSame DEF ClientInv, SelfFinal
<1>2. /\ pc = "self.final" /\ pc # "idle" /\ TypesOK /\ job \in Calls /\ job.kind = "self" /\ ex \in Exchanges
      /\ files[cache] \in Files /\ res \in Results
      /\ res.k = "ok" /\ res.cred.s = job.cl.n
      /\ res.cred.c = ex.user /\ res.cred.c # job.cl /\ res.cred.c # None
  BY DEF SelfFinal, ClientInv, TypesOK, KindOK, CachesOK, CallOK, SelfOK
<1>3. UNCHANGED <<job, left, cache, req, cand, pcand, ex>>
  BY DEF SelfFinal
<1>4. PICK old : old = UserCred(res.cred.c)
  OBVIOUS
<1>5. old.cred \in Good /\ (old.k = "hit" => old.cred.c = res.cred.c /\ old.cred.s = job.cl.n)
  BY <1>2, <1>4, UserCredIs
<1>6. \/ pc' = "return" /\ res' = res /\ sto' = sto
      \/ Store(res.cred, TRUE, "return") /\ res' = res
      \/ pc' = "return" /\ old.k = "hit" /\ res' = Ok(old.cred) /\ sto' = sto
      \/ pc' = "return" /\ res' = Err /\ sto' = sto
  BY <1>4 DEF SelfFinal
<1>7. CASE pc' = "return" /\ res' = res /\ sto' = sto
  BY <1>1, <1>2, <1>3, <1>7, AnswersKeeps DEF ClientInv
<1>8. CASE Store(res.cred, TRUE, "return") /\ res' = res
  <2>1. res.cred \in Good
    BY <1>2 DEF Results
  <2>2. pc' = "store" /\ sto' \in Stores /\ sto'.next = "return"
    BY <1>8, <2>1, StoreIs
  <2>3. TypesOK'
    BY <1>1, <1>2, <1>3, <1>8, <2>2, Static DEF TypesOK, Labels
  <2>4. KindOK' /\ GetOK' /\ PlainOK' /\ SelfOK' /\ ProxyOK' /\ PasswordOK'
    BY <2>2 DEF KindOK, GetOK, PlainOK, SelfOK, ProxyOK, PasswordOK, At
  <2>5. AnswerOK'
    BY <1>2, <1>3, <1>8 DEF AnswerOK
  <2> QED BY <1>1, <2>3, <2>4, <2>5 DEF ClientInv, CallOK
<1>9. CASE pc' = "return" /\ old.k = "hit" /\ res' = Ok(old.cred) /\ sto' = sto
  <2>1. res' \in Results /\ res'.cred = old.cred
    BY <1>5, <1>9, OkIs
  <2>2. UNCHANGED <<left, cache, req, pcand, ex, sto>> /\ job' = job /\ pc' = "return"
    BY <1>3, <1>9
  <2>3. res'.cred.c = ex.user /\ res'.cred.c # job.cl /\ res'.cred.s = job.cl.n
    BY <1>2, <1>5, <1>9, <2>1
  <2> QED BY <1>1, <1>2, <2>1, <2>2, <2>3, AnswersKeeps DEF ClientInv
<1>10. CASE pc' = "return" /\ res' = Err /\ sto' = sto
  BY <1>1, <1>2, <1>3, <1>10, FailsKeeps DEF ClientInv
<1> QED BY <1>6, <1>7, <1>8, <1>9, <1>10

LEMMA ProxyReturnsKeeps ==
  ASSUME cfg' = cfg, TypesOK, pc # "idle", job \in Calls, job.kind = "proxy", NEW r \in Results,
         r.k = "ok" => r.cred.s = job.s, ProxyReturns(r),
         UNCHANGED <<job, left, cache, req, pcand, ex, sto>>
  PROVE  TypesOK' /\ KindOK' /\ CallOK'
<1>1. pc' = "return" /\ (res' = Err \/ (res' = r /\ r.k = "ok" /\ r.cred.c = job.user))
  BY DEF ProxyReturns
<1>2. ex \in Exchanges
  BY DEF TypesOK
<1>3. CASE res' = Err
  BY <1>1, <1>2, <1>3, FailsKeeps
<1>4. CASE res' = r /\ r.k = "ok" /\ r.cred.c = job.user
  BY <1>1, <1>4, AnswersKeeps
<1> QED BY <1>1, <1>3, <1>4

LEMMA ProxyCheckKeeps ==
  ASSUME ClientInv, ProxyCheck
  PROVE  ClientInv'
<1>1. CachesOK' /\ cfg' = cfg
  BY CachesSame DEF ClientInv, ProxyCheck
<1>2. /\ pc = "proxy.check" /\ pc # "idle" /\ TypesOK /\ job \in Calls /\ job.kind = "proxy"
      /\ files[cache] \in Files
  BY DEF ProxyCheck, ClientInv, TypesOK, KindOK, CachesOK
<1>3. UNCHANGED <<job, left, cache, req, cand, ex, sto>>
  BY DEF ProxyCheck
<1> DEFINE m == MatchCred(None, job.s, job.sr, now, FALSE, job.ev)
           hit == Retrieve(files[cache], m)
<1>4. hit.cred \in Good /\ (hit.k = "hit" => hit.cred.s = job.s)
  <2>1. m.s = job.s
    BY DEF MatchCred
  <2> HIDE DEF m
  <2> QED BY <1>2, <2>1, RetrieveIs, MatchIs
<1>5. CASE pc' = "proxy.cand" /\ pcand' = Candidates(job.s) /\ res' = res
  <2>1. Candidates(job.s) \in Seq(HostNames(job.s))
    BY CandidatesAre
  <2>2. TypesOK'
    BY <1>1, <1>2, <1>3, <1>5, <2>1, Static DEF TypesOK, Labels
  <2>3. KindOK' /\ CallOK'
    BY <1>2, <1>3, <1>5 DEF KindOK, CallOK, GetOK, PlainOK, SelfOK, ProxyOK, PasswordOK, AnswerOK, At
  <2> QED BY <1>1, <2>2, <2>3 DEF ClientInv
<1>6. CASE ProxyReturns(IF hit.k = "hit" THEN Ok(hit.cred) ELSE Err) /\ pcand' = pcand
  <2>1. PICK r : r = IF hit.k = "hit" THEN Ok(hit.cred) ELSE Err
    OBVIOUS
  <2>2. r \in Results /\ (r.k = "ok" => r.cred.s = job.s)
    <3> HIDE DEF hit
    <3>1. CASE hit.k = "hit"
      BY <1>4, <2>1, <3>1, OkIs
    <3>2. CASE hit.k # "hit"
      BY <2>1, <3>2, ErrIs
    <3> QED BY <3>1, <3>2
  <2>3. ProxyReturns(r) /\ UNCHANGED <<job, left, cache, req, pcand, ex, sto>>
    BY <1>3, <1>6, <2>1
  <2> HIDE DEF hit
  <2> QED BY <1>1, <1>2, <2>2, <2>3, ProxyReturnsKeeps DEF ClientInv
<1> QED BY <1>5, <1>6 DEF ProxyCheck

LEMMA ProxyCandidateKeeps ==
  ASSUME ClientInv, ProxyCandidate
  PROVE  ClientInv'
<1>1. CachesOK' /\ cfg' = cfg
  BY CachesSame DEF ClientInv, ProxyCandidate
<1>2. pc = "proxy.cand" /\ pc # "idle" /\ TypesOK /\ job \in Calls /\ job.kind = "proxy" /\ ex \in Exchanges
  BY DEF ProxyCandidate, ClientInv, TypesOK, KindOK
<1>3. UNCHANGED <<job, left, cache, cand, pcand, ex, sto>>
  BY DEF ProxyCandidate
<1>4. CASE pcand = <<>>
  <2>1. pc' = "return" /\ res' = Err /\ req' = req
    BY <1>4 DEF ProxyCandidate
  <2> QED BY <1>1, <1>2, <1>3, <2>1, FailsKeeps DEF ClientInv
<1>5. CASE pcand # <<>>
  <2>1. pc' = "get.check" /\ req' = Request(job.cl, Tgs(job.cl.r), job.cl.r, "proxy.run") /\ res' = res
    BY <1>5 DEF ProxyCandidate
  <2>2. job.cl \in Principals /\ job.cl.r \in Texts /\ Tgs(job.cl.r) \in Components
    BY <1>2, CallsIs, TgsIs
  <2>3. req' \in Requests /\ req'.c = job.cl /\ req'.canon = job.canon /\ req'.then = "proxy.run"
    BY <1>2, <2>1, <2>2, RequestIs
  <2> QED BY <1>1, <1>2, <1>3, <1>5, <2>1, <2>3, GetBegins DEF ClientInv
<1> QED BY <1>4, <1>5

LEMMA ProxyFinishKeeps ==
  ASSUME ClientInv, ProxyFinish
  PROVE  ClientInv'
<1>1. CachesOK' /\ cfg' = cfg
  BY CachesSame DEF ClientInv, ProxyFinish
<1>2. /\ pc = "proxy.done" /\ pc # "idle" /\ TypesOK /\ job \in Calls /\ job.kind = "proxy" /\ res \in Results
      /\ res.cred.s = job.s
  BY DEF ProxyFinish, ClientInv, TypesOK, KindOK, CallOK, ProxyOK, At
<1>3. ProxyReturns(res) /\ UNCHANGED <<job, left, cache, req, pcand, ex, sto>>
  BY DEF ProxyFinish
<1> QED BY <1>1, <1>2, <1>3, ProxyReturnsKeeps DEF ClientInv

LEMMA ProxyFiledIs ==
  ASSUME cfg \in Configs, job \in Calls, NEW t \in Good, NEW x \in HostNames(job.s), t.ts = x
  PROVE  ProxyFiled(t) \in Good /\ ProxyFiled(t).c = t.c /\ ProxyFiled(t).s = job.s
<1>1. t \in Creds /\ t.tc = t.c
  BY GoodIs
<1>2. PICK s, sr, ev : s = job.s /\ sr = job.sr /\ ev = job.ev
  OBVIOUS
<1>3. s \in Components /\ sr \in Texts /\ ev \in Texts
  BY <1>2, CallsIs
<1>4. PICK f : f = [t EXCEPT !.s = s, !.sr = sr, !.sec = ev]
  OBVIOUS
<1>5. f \in Creds /\ f.c = t.c /\ f.tc = t.tc /\ f.s = s /\ f.ts = t.ts
  BY <1>1, <1>3, <1>4 DEF Creds
<1>6. ProxyFiled(t) = f
  BY <1>2, <1>4 DEF ProxyFiled
<1>7. x = s \/ (Renamed(cfg, s) /\ ~IsTgs(x))
  BY <1>2, <1>3, HostNamesAre
<1>8. SameServer(cfg, f)
  BY <1>5, <1>7 DEF SameServer
<1> QED BY <1>1, <1>2, <1>5, <1>6, <1>8 DEF Good, Honest

LEMMA ProxyRunKeeps ==
  ASSUME ClientInv, NEW s, ProxyFacts(ex, job.cl, s), ProxyRun(s)
  PROVE  ClientInv'
<1>1. CachesOK' /\ cfg' = cfg /\ cfg \in Configs
  BY CachesSame DEF ClientInv, ProxyRun, CachesOK
<1>2. /\ pc = "proxy.run" /\ pc # "idle" /\ TypesOK /\ job \in Calls /\ job.kind = "proxy"
      /\ ex.evc = job.user /\ ex.target \in HostNames(job.s)
  BY DEF ProxyRun, ClientInv, TypesOK, KindOK, CallOK, ProxyOK
<1>3. /\ UNCHANGED <<job, left, cache, req, cand, pcand>> /\ ex' = s.ex
      /\ s.k \in {"send", "done", "unknown", "other"} /\ s.ex \in Exchanges
  BY DEF ProxyRun, ProxyFacts, Ended
<1>4. CASE s.k = "send"
  <2>1. UNCHANGED <<pc, res, sto>>
    BY <1>4 DEF ProxyRun
  <2>2. Chains(s.ex, job.cl) /\ ex'.evc = job.user /\ ex'.target \in HostNames(job.s)
    BY <1>2, <1>3, <1>4 DEF ProxyFacts
  <2>3. Chains(ex, job.cl)'
    BY <1>3, <2>2 DEF Chains, TgtRealm
  <2>4. TypesOK'
    BY <1>1, <1>2, <1>3, <2>1, Static DEF TypesOK, Labels
  <2>5. KindOK' /\ GetOK' /\ PlainOK' /\ SelfOK' /\ PasswordOK' /\ AnswerOK'
    BY <1>2, <1>3, <2>1 DEF KindOK, GetOK, PlainOK, SelfOK, PasswordOK, AnswerOK, At
  <2>6. ProxyOK'
    BY <1>1, <1>2, <1>3, <2>1, <2>2, <2>3, Static DEF ProxyOK, At
  <2> QED BY <1>1, <2>4, <2>5, <2>6 DEF ClientInv, CallOK
<1>5. CASE s.k = "done"
  <2>1. s.cred \in Good /\ s.cred.ts = ex.target
    BY <1>5 DEF ProxyFacts, Ended
  <2>2. PICK t : t = ProxyFiled(s.cred)
    OBVIOUS
  <2>3. t \in Good /\ t.s = job.s
    BY <1>1, <1>2, <2>1, <2>2, ProxyFiledIs
  <2>4. res' = Ok(t)
    BY <1>5, <2>2 DEF ProxyRun
  <2>5. \/ pc' = "proxy.done" /\ sto' = sto
        \/ pc' = "store" /\ sto' \in Stores /\ sto'.next = "proxy.done"
    <3>1. (pc' = "proxy.done" /\ sto' = sto) \/ Store(t, FALSE, "proxy.done")
      BY <1>5, <2>2 DEF ProxyRun
    <3> QED BY <2>3, <3>1, StoreIs
  <2>6. res' \in Results /\ res'.k = "ok" /\ res'.cred = t
    BY <2>3, <2>4, OkIs
  <2>7. TypesOK'
    BY <1>1, <1>2, <1>3, <2>5, <2>6, Static DEF TypesOK, Labels
  <2>8. KindOK' /\ GetOK' /\ PlainOK' /\ SelfOK' /\ PasswordOK' /\ AnswerOK' /\ ProxyOK'
    BY <1>2, <1>3, <2>3, <2>5, <2>6 DEF KindOK, GetOK, PlainOK, SelfOK, ProxyOK, PasswordOK, AnswerOK, At
  <2> QED BY <1>1, <2>7, <2>8 DEF ClientInv, CallOK
<1>6. CASE s.k = "unknown"
  <2>1. pc' = "proxy.cand" /\ UNCHANGED <<res, sto>>
    BY <1>6 DEF ProxyRun
  <2>2. TypesOK'
    BY <1>1, <1>2, <1>3, <2>1, Static DEF TypesOK, Labels
  <2>3. KindOK' /\ CallOK'
    BY <1>2, <1>3, <2>1 DEF KindOK, CallOK, GetOK, PlainOK, SelfOK, ProxyOK, PasswordOK, AnswerOK, At
  <2> QED BY <1>1, <2>2, <2>3 DEF ClientInv
<1>7. CASE s.k = "other"
  <2>1. pc' = "return" /\ res' = Err /\ sto' = sto
    BY <1>7 DEF ProxyRun
  <2> QED BY <1>1, <1>2, <1>3, <2>1, FailsKeeps DEF ClientInv
<1> QED BY <1>3, <1>4, <1>5, <1>6, <1>7

LEMMA AnswerKeeps ==
  ASSUME ClientInv, NEW r \in Replies(ex), Answer(r)
  PROVE  ClientInv'
<1>1. Reply(r) /\ now \in Nat /\ ex \in Exchanges
  BY RepliesAre DEF ClientInv, CachesOK, TypesOK
<1>2. PICK s : s = Step(ex, r)
  OBVIOUS
<1>3. GetRealm(s) \/ GetService(s) \/ SelfRun(s) \/ ProxyRun(s)
  BY <1>2 DEF Answer
<1>4. CASE GetRealm(s)
  <2>1. ex.mode = "plain"
    BY <1>4 DEF GetRealm, ClientInv, CallOK, PlainOK
  <2> QED BY <1>1, <1>2, <1>4, <2>1, PlainStep, GetRealmKeeps
<1>5. CASE GetService(s)
  <2>1. ex.mode = "plain"
    BY <1>5 DEF GetService, ClientInv, CallOK, PlainOK, At
  <2> QED BY <1>1, <1>2, <1>5, <2>1, PlainStep, GetServiceKeeps
<1>6. CASE SelfRun(s)
  <2>1. ex.mode = "self" /\ ~ex.first
    BY <1>6 DEF SelfRun, ClientInv, CallOK, SelfOK
  <2> QED BY <1>1, <1>2, <1>6, <2>1, SelfStep, SelfRunKeeps
<1>7. CASE ProxyRun(s)
  <2>1. Chains(ex, job.cl)
    BY <1>7 DEF ProxyRun, ClientInv, CallOK, ProxyOK
  <2> QED BY <1>1, <1>2, <1>7, <2>1, ProxyStep, ProxyRunKeeps
<1> QED BY <1>3, <1>4, <1>5, <1>6, <1>7

-----------------------------------------------------------------------------
(* acquire_cred_with_password *)

LEMMA PasswordGoesOn ==
  ASSUME cfg' = cfg, TypesOK, pc # "idle", job \in Calls, job.kind = "password", cache' \in Names, res' \in Results,
         UNCHANGED <<job, left, req, pcand, ex, sto>>,
         pc' \in {"local", "default", "empty", "as", "truncate", "header", "return"},
         pc' \in {"truncate", "header"} => res'.k = "ok" /\ res'.cred.c # None,
         pc' = "return" /\ res'.k = "ok" => res'.cred.c = job.cl /\ res'.cred.s = Tgs(job.cl.r)
  PROVE  TypesOK' /\ KindOK' /\ CallOK'
<1>1. TypesOK'
  BY Static DEF TypesOK, Labels
<1>2. KindOK' /\ GetOK' /\ PlainOK' /\ SelfOK' /\ ProxyOK'
  BY DEF KindOK, GetOK, PlainOK, SelfOK, ProxyOK, At
<1>3. PasswordOK' /\ AnswerOK'
  BY DEF PasswordOK, AnswerOK, At, Tgs
<1> QED BY <1>1, <1>2, <1>3 DEF CallOK

LEMMA PasswordMatchKeeps ==
  ASSUME ClientInv, PasswordMatch
  PROVE  ClientInv'
<1>1. CachesOK' /\ cfg' = cfg
  BY CachesSame DEF ClientInv, PasswordMatch, CachesOK
<1>2. /\ pc = "password" /\ pc # "idle" /\ TypesOK /\ job \in Calls /\ job.kind = "password"
      /\ cache \in Names /\ res \in Results /\ UNCHANGED <<job, left, req, pcand, ex, sto, res>>
  BY DEF PasswordMatch, ClientInv, TypesOK, KindOK
<1>3. pc' \in {"local", "default"} /\ cache' \in Names
  BY <1>2, CacheMatchIs DEF PasswordMatch
<1>4. TypesOK' /\ KindOK' /\ CallOK'
  BY <1>1, <1>2, <1>3, PasswordGoesOn
<1> QED BY <1>1, <1>4 DEF ClientInv

LEMMA PasswordLocalKeeps ==
  ASSUME ClientInv, PasswordLocal
  PROVE  ClientInv'
<1>1. CachesOK' /\ cfg' = cfg
  BY CachesSame DEF ClientInv, PasswordLocal, CachesOK
<1>2. /\ pc = "local" /\ pc # "idle" /\ TypesOK /\ job \in Calls /\ job.kind = "password"
      /\ cache \in Names /\ res \in Results /\ files[cache] \in Files
      /\ UNCHANGED <<job, left, cache, req, pcand, ex, sto>>
  BY DEF PasswordLocal, ClientInv, CachesOK, TypesOK, KindOK
<1>3. PICK m : m = MatchCred(job.cl, Tgs(job.cl.r), job.cl.r, 0, FALSE, "any")
  OBVIOUS
<1>4. m.c = job.cl /\ m.s = Tgs(job.cl.r) /\ job.cl # None
  BY <1>2, <1>3, CallsIs DEF MatchCred
<1>5. PICK hit : hit = Retrieve(files[cache], m)
  OBVIOUS
<1>6. hit.cred \in Good /\ (hit.k = "hit" => hit.cred.c = job.cl /\ hit.cred.s = Tgs(job.cl.r))
  BY <1>2, <1>4, <1>5, RetrieveIs, MatchIs
<1>7. (hit.k = "hit" /\ pc' = "return" /\ res' = Ok(hit.cred)) \/ (pc' = "as" /\ res' = res)
  BY <1>3, <1>5 DEF PasswordLocal
<1>8. /\ res' \in Results /\ pc' \in {"as", "return"}
      /\ pc' # "as" => res'.cred.c = job.cl /\ res'.cred.s = Tgs(job.cl.r)
  BY <1>2, <1>6, <1>7, OkIs
<1>9. TypesOK' /\ KindOK' /\ CallOK'
  BY <1>1, <1>2, <1>8, PasswordGoesOn
<1> QED BY <1>1, <1>9 DEF ClientInv

LEMMA PasswordDefaultKeeps ==
  ASSUME ClientInv, PasswordDefault
  PROVE  ClientInv'
<1>1. /\ cfg' = cfg /\ now' = now /\ oth' = oth /\ files' = files /\ files \in [Names -> Files] /\ CachesOK
      /\ primary \in {"none", "tkt", "tktX"} /\ primary' = PrimaryMade /\ cache' = Default
  BY DEF ClientInv, CachesOK, PasswordDefault
<1>2. /\ pc = "default" /\ pc # "idle" /\ TypesOK /\ job \in Calls /\ job.kind = "password"
      /\ res \in Results /\ UNCHANGED <<job, left, req, pcand, ex, sto, res>> /\ pc' = "empty"
  BY DEF PasswordDefault, ClientInv, TypesOK, KindOK
<1>3. primary' \in {"none", "tkt", "tktX"} /\ cache' \in Names
  BY <1>1 DEF PrimaryMade, Default, ReadPrimary, Names
<1>4. CachesOK'
  BY <1>1, <1>3, CachesKept
<1>5. TypesOK' /\ KindOK' /\ CallOK'
  BY <1>1, <1>2, <1>3, PasswordGoesOn
<1> QED BY <1>4, <1>5 DEF ClientInv

LEMMA PasswordEmptyKeeps ==
  ASSUME ClientInv, PasswordEmpty
  PROVE  ClientInv'
<1>1. /\ cfg' = cfg /\ now' = now /\ oth' = oth /\ primary' = primary /\ files \in [Names -> Files] /\ CachesOK
      /\ primary \in {"none", "tkt", "tktX"}
  BY DEF ClientInv, CachesOK, PasswordEmpty
<1>2. /\ pc = "empty" /\ pc # "idle" /\ TypesOK /\ job \in Calls /\ job.kind = "password"
      /\ cache \in Names /\ res \in Results /\ UNCHANGED <<job, left, req, pcand, ex, sto>>
  BY DEF PasswordEmpty, ClientInv, TypesOK, KindOK
<1>3. PICK fresh : fresh = {n \in Names : ~Exists(n)}
  OBVIOUS
<1>4. \/ cache' = cache /\ pc' = "as" /\ res' = res /\ files' = files
      \/ /\ fresh # {} /\ cache' = CHOOSE n \in fresh : TRUE
         /\ files' = [files EXCEPT ![cache'] = Torn] /\ pc' = "as" /\ res' = res
      \/ pc' = "return" /\ res' = Err /\ cache' = cache /\ files' = files
  BY <1>3 DEF PasswordEmpty
<1>5. fresh # {} => (CHOOSE n \in fresh : TRUE) \in Names
  <2>1. fresh # {} => (CHOOSE n \in fresh : TRUE) \in fresh
    BY Zenon
  <2> QED BY <1>3, <2>1
<1>6. cache' \in Names /\ files' \in [Names -> Files]
  BY <1>1, <1>2, <1>4, <1>5, TornIs
<1>7. CachesOK'
  BY <1>1, <1>6, CachesKept
<1>8. res' \in Results /\ pc' \in {"as", "return"} /\ (pc' # "as" => res'.k = "err")
  BY <1>2, <1>4, ErrIs
<1>9. TypesOK' /\ KindOK' /\ CallOK'
  BY <1>1, <1>2, <1>6, <1>8, PasswordGoesOn
<1> QED BY <1>7, <1>9 DEF ClientInv

LEMMA AsRepliesAre ==
  ASSUME cfg \in Configs, NEW r \in AsReplies
  PROVE  r.k = "rep" => /\ r.c \in Principals /\ r.c # None /\ r.sn \in Components /\ r.sr \in Texts
                        /\ r.okd \in BOOLEAN
<1>1. CASE r \in [k : {"rep"}, c : cfg.clients, sn : {<<"else">>} \cup {Tgs(q) : q \in cfg.srealms}, sr : cfg.srealms,
                  okd : {FALSE}]
  <2>1. /\ r.c \in cfg.clients /\ r.sn \in {<<"else">>} \cup {Tgs(q) : q \in cfg.srealms} /\ r.sr \in cfg.srealms
        /\ r.okd \in BOOLEAN
    BY <1>1
  <2>2. cfg.clients \subseteq Principals \ {None} /\ cfg.srealms \subseteq Texts
    BY ClientConfigs, TextsAre
  <2>3. <<"else">> \in Components
    <3>1. "else" \in Texts
      BY TextsAre
    <3> QED BY <3>1 DEF Components
  <2>4. \A q \in cfg.srealms : Tgs(q) \in Components
    BY <2>2, TgsIs
  <2> QED BY <2>1, <2>2, <2>3, <2>4
<1>2. CASE r \in {[k |-> "other"]}
  BY <1>2
<1> QED BY <1>1, <1>2 DEF AsReplies

LEMMA PasswordAsKeeps ==
  ASSUME ClientInv, NEW r \in AsReplies, PasswordAs(r)
  PROVE  ClientInv'
<1>1. CachesOK' /\ cfg' = cfg /\ now \in Nat /\ cfg \in Configs
  BY CachesSame DEF ClientInv, PasswordAs, CachesOK
<1>2. /\ pc = "as" /\ pc # "idle" /\ TypesOK /\ job \in Calls /\ job.kind = "password" /\ cache \in Names
      /\ UNCHANGED <<job, left, cache, req, pcand, ex, sto>>
  BY DEF PasswordAs, ClientInv, TypesOK, KindOK
<1>3. PICK t : t = FromRep(r)
  OBVIOUS
<1>4. r.k = "rep" => t \in Good /\ t.c # None
  BY <1>1, <1>3, AsRepliesAre, FromRepGood
<1>5. (r.k = "rep" /\ pc' = "truncate" /\ res' = Ok(t)) \/ (pc' = "return" /\ res' = Err)
  BY <1>3 DEF PasswordAs
<1>6. /\ res' \in Results /\ pc' \in {"truncate", "return"}
      /\ pc' = "truncate" => res'.k = "ok" /\ res'.cred.c # None
      /\ pc' = "return" => res'.k # "ok"
  BY <1>4, <1>5, OkIs, ErrIs
<1>7. TypesOK' /\ KindOK' /\ CallOK'
  BY <1>1, <1>2, <1>6, PasswordGoesOn
<1> QED BY <1>1, <1>7 DEF ClientInv

LEMMA PasswordTruncateKeeps ==
  ASSUME ClientInv, PasswordTruncate
  PROVE  ClientInv'
<1>1. /\ cfg' = cfg /\ now' = now /\ oth' = oth /\ primary' = primary /\ files \in [Names -> Files] /\ CachesOK
      /\ files' = [files EXCEPT ![cache] = Torn] /\ primary \in {"none", "tkt", "tktX"}
  BY DEF ClientInv, CachesOK, PasswordTruncate
<1>2. /\ pc = "truncate" /\ pc # "idle" /\ TypesOK /\ job \in Calls /\ job.kind = "password" /\ cache \in Names
      /\ UNCHANGED <<job, left, cache, req, pcand, ex, sto, res>> /\ pc' = "header" /\ res \in Results
      /\ res.k = "ok" /\ res.cred.c # None
  BY DEF PasswordTruncate, ClientInv, TypesOK, KindOK, CallOK, PasswordOK
<1>3. CachesOK'
  <2>1. files' \in [Names -> Files]
    BY <1>1, TornIs
  <2> QED BY <1>1, <2>1, CachesKept
<1>4. TypesOK' /\ KindOK' /\ CallOK'
  BY <1>1, <1>2, PasswordGoesOn, Static
<1> QED BY <1>3, <1>4 DEF ClientInv

LEMMA PasswordHeaderKeeps ==
  ASSUME ClientInv, PasswordHeader
  PROVE  ClientInv'
<1>1. /\ cfg' = cfg /\ now' = now /\ oth' = oth /\ primary' = primary /\ files \in [Names -> Files] /\ CachesOK
      /\ primary \in {"none", "tkt", "tktX"}
  BY DEF ClientInv, CachesOK, PasswordHeader
<1>2. /\ pc = "header" /\ pc # "idle" /\ TypesOK /\ job \in Calls /\ job.kind = "password" /\ cache \in Names
      /\ UNCHANGED <<job, left, cache, req, pcand, ex, res>> /\ res \in Results
      /\ res.k = "ok" /\ res.cred.c # None
  BY DEF PasswordHeader, ClientInv, TypesOK, KindOK, CallOK, PasswordOK
<1>3. PICK f \in HeaderOver(files[cache], res.cred.c) : files' = [files EXCEPT ![cache] = f]
  BY DEF PasswordHeader
<1>4. CachesOK'
  <2>1. f \in Files
    <3>1. res.cred.c \in Principals /\ files[cache] \in Files
      BY <1>1, <1>2 DEF Results, Good, Honest, Creds
    <3> QED BY <1>2, <1>3, <3>1, HeaderIs
  <2>2. files' \in [Names -> Files]
    BY <1>1, <1>3, <2>1
  <2> QED BY <1>1, <2>2, CachesKept
<1>5. pc' = "store" /\ sto' \in Stores /\ sto'.next = "return"
  <2>1. res.cred \in Good
    BY <1>2 DEF Results
  <2>2. Store(res.cred, TRUE, "return")
    BY DEF PasswordHeader
  <2> QED BY <2>1, <2>2, StoreIs
<1>6. TypesOK'
  BY <1>1, <1>2, <1>5, Static DEF TypesOK, Labels
<1>7. KindOK' /\ GetOK' /\ PlainOK' /\ SelfOK' /\ ProxyOK' /\ PasswordOK'
  BY <1>2, <1>5 DEF KindOK, GetOK, PlainOK, SelfOK, ProxyOK, PasswordOK, At
<1>8. AnswerOK'
  BY <1>2, <1>5 DEF AnswerOK, At, NoSto
<1> QED BY <1>4, <1>6, <1>7, <1>8 DEF ClientInv, CallOK

-----------------------------------------------------------------------------
(* The cache a password call returns *)

LEMMA RetrieveFinds ==
  ASSUME NEW f \in Files, NEW m, Retrieve(f, m).k = "hit"
  PROVE  f.st = "ok" /\ \E i \in DOMAIN f.recs : f.recs[i] = Retrieve(f, m).cred
<1> DEFINE hit == {i \in DOMAIN f.recs : CredsMatch(m, f.recs[i])}
           least == CHOOSE i \in hit : \A j \in hit : i <= j
<1>1. f.recs \in Seq(Good)
  BY FilesIs
<1>2. hit # {} => least \in hit
  <2>1. hit \in SUBSET Nat
    BY <1>1
  <2> QED BY <2>1, SmallestIndex
<1>3. hit \subseteq DOMAIN f.recs
  OBVIOUS
<1> HIDE DEF least
<1>4. Retrieve(f, m) = IF f.st # "ok" THEN [k |-> "error", cred |-> NoCred]
                       ELSE IF hit = {} THEN [k |-> "miss", cred |-> NoCred]
                       ELSE [k |-> "hit", cred |-> f.recs[least]]
  BY Zenon DEF Retrieve, least
<1> HIDE DEF hit
<1>5. f.st = "ok" /\ hit # {}
  BY <1>4
<1>6. Retrieve(f, m).cred = f.recs[least]
  BY <1>4, <1>5
<1> QED BY <1>2, <1>3, <1>5, <1>6

LEMMA OthersCount ==
  ASSUME HeldInv, Other, UNCHANGED jvars
  PROVE  HeldInv'
<1>1. did' \in Nat /\ (did' = 0 => did = 0 /\ oth' = oth /\ files' = files)
  <2>1. CASE did' = did + 1
    BY <2>1 DEF HeldInv
  <2>2. CASE OtherHeader \/ OtherStore \/ OtherAppend \/ OtherRemoveTruncate \/ OtherRemoveWrite
    BY <2>2 DEF OtherHeader, OtherStore, OtherAppend, OtherRemoveTruncate, OtherRemoveWrite, HeldInv
  <2>3. CASE \E i \in 1..3 : OtherRemoveScan(i)
    <3>1. oth.pc = "scan" /\ did' = did
      BY <2>3 DEF OtherRemoveScan
    <3> QED BY <3>1 DEF HeldInv
  <2>4. CASE Tick
    BY <2>4 DEF Tick, HeldInv
  <2> QED BY <2>1, <2>2, <2>3, <2>4
        DEF Other, OtherTruncate, OtherDestroy, OtherSwitch, OtherRemoveRead, Begin
<1>2. pc' = pc /\ job' = job /\ sto' = sto /\ res' = res /\ cache' = cache
  BY DEF jvars
<1>3. CASE did' = 0
  <2>1. did = 0 /\ oth' = oth /\ files'[cache'] = files[cache]
    BY <1>1, <1>2, <1>3
  <2>2. pc # "idle" /\ job.kind = "password" => Made(files[cache])
    BY <2>1 DEF HeldInv
  <2>3. pc # "idle" /\ job.kind = "password" => Made(files[cache])'
    BY <1>2, <2>1, <2>2 DEF Made
  <2> QED BY <1>1, <1>2, <2>1, <2>3 DEF HeldInv
<1> QED BY <1>1, <1>3 DEF HeldInv

\* The steps of the other kinds of calls.
LEMMA NotPassword ==
  ASSUME ClientInv,
         \/ GetCheck \/ GetCandidate \/ GetLocal \/ GetDone \/ SelectStep \/ PrincipalStep
         \/ SelfCheck \/ (\E r \in Realms \cup {"error"} : SelfIdentify(r)) \/ SelfFinal
         \/ ProxyCheck \/ ProxyCandidate \/ ProxyFinish
         \/ \E r \in Replies(ex) : Answer(r)
  PROVE  did' = did /\ oth' = oth /\ job'.kind # "password"
<1>1. pc \in {"get.check", "get.cand", "get.local", "get.realm", "get.svc", "get.done", "select", "principal",
             "self.check", "self.ident", "self.run", "self.final", "proxy.check", "proxy.cand", "proxy.run",
             "proxy.done"}
  BY DEF GetCheck, GetCandidate, GetLocal, GetDone, SelectStep, PrincipalStep, SelfCheck, SelfIdentify, SelfFinal,
     ProxyCheck, ProxyCandidate, ProxyFinish, Answer, GetRealm, GetService, SelfRun, ProxyRun
<1>2. job \in Calls /\ job.kind # "password"
  <2>1. job \in Calls /\ req \in Requests
    BY <1>1 DEF ClientInv, TypesOK
  <2>2. req.then \in {"return", "self.run", "proxy.run"}
    BY <2>1 DEF Requests
  <2> QED BY <1>1, <2>1, <2>2 DEF ClientInv, KindOK, CallOK, GetOK, At
<1>3. did' = did /\ oth' = oth
  BY DEF GetCheck, GetCandidate, GetLocal, GetDone, SelectStep, PrincipalStep, SelfCheck, SelfIdentify, SelfFinal,
     ProxyCheck, ProxyCandidate, ProxyFinish, Answer, GetRealm, GetService, SelfRun, ProxyRun, cvars
<1>4. job' = job \/ (\E x : job' = [job EXCEPT !.cl = x]) \/ (\E x : job' = [job EXCEPT !.id = x])
  BY DEF GetCheck, GetCandidate, GetLocal, GetDone, SelectStep, PrincipalStep, SelfCheck, SelfIdentify, SelfFinal,
     ProxyCheck, ProxyCandidate, ProxyFinish, Answer, GetRealm, GetService, SelfRun, ProxyRun
<1>5. job'.kind = job.kind
  BY <1>2, <1>4 DEF Calls, Jobs
<1> QED BY <1>2, <1>3, <1>5

LEMMA PasswordHolds ==
  ASSUME ClientInv, HeldInv, did = 0, pc # "idle", job.kind = "password",
         \/ StoreRead \/ StoreAppend \/ PasswordMatch \/ PasswordLocal \/ PasswordDefault \/ PasswordEmpty
         \/ (\E r \in AsReplies : PasswordAs(r)) \/ PasswordTruncate \/ PasswordHeader
  PROVE  Made(files[cache])'
<1>1. Made(files[cache])
  BY DEF HeldInv
<1>2. files \in [Names -> Files] /\ cache \in Names /\ job \in Calls
  BY DEF ClientInv, CachesOK, TypesOK
<1>3. CASE StoreRead
  <2>1. pc = "store" /\ files' = files /\ cache' = cache /\ sto' = sto /\ files[cache].st = "ok"
    BY <1>1, <1>3 DEF StoreRead, cvars, Made
  <2>2. pc' = "append" /\ res' = res
    BY <1>3, <2>1 DEF StoreRead, Opened
  <2> QED BY <1>1, <2>1, <2>2 DEF Made
<1>4. CASE StoreAppend
  <2>1. PICK t : t = res.cred
    OBVIOUS
  <2>2. /\ pc = "append" /\ cache' = cache /\ sto' = sto /\ sto.cred = t /\ sto.next = "return"
        /\ files[cache] = [st |-> "ok", p |-> t.c, recs |-> <<>>]
    BY <1>1, <1>4, <2>1 DEF StoreAppend, Made
  <2>3. pc' = "return" /\ res' = res /\ files'[cache] = Appended(files[cache], t)
    BY <1>2, <1>4, <2>2 DEF StoreAppend, Exists
  <2>4. Appended(files[cache], t) = [st |-> "ok", p |-> t.c, recs |-> <<t>>]
    BY <2>2 DEF Appended
  <2>5. Kept([st |-> "ok", p |-> t.c, recs |-> <<t>>], t)
    <3>1. 1 \in DOMAIN <<t>> /\ <<t>>[1] = t
      OBVIOUS
    <3> QED BY <3>1 DEF Kept, Opened, Principal
  <2>6. Kept(files[cache], res.cred)'
    <3>1. files'[cache'] = [st |-> "ok", p |-> t.c, recs |-> <<t>>] /\ res'.cred = t
      BY <2>1, <2>2, <2>3, <2>4
    <3> QED BY <2>5, <3>1 DEF Kept
  <2> QED BY <2>3, <2>6 DEF Made
<1>5. CASE PasswordMatch
  <2>1. PICK own : own = CacheMatch(job.cl)
    OBVIOUS
  <2>2. own # "none" => Opened(files[own]) /\ Principal(files[own]) = job.cl
    BY <2>1, FirstIs DEF CacheMatch
  <2>3. /\ files' = files /\ job' = job
        /\ pc' = "default" \/ (pc' = "local" /\ cache' = own /\ own # "none")
    BY <1>5, <2>1 DEF PasswordMatch, cvars
  <2>4. pc' = "local" => Opened(files'[cache']) /\ Principal(files'[cache']) = job'.cl
    BY <2>2, <2>3
  <2> QED BY <2>3, <2>4 DEF Made, Opened, Principal
<1>6. CASE PasswordLocal
  <2>1. PICK m : m = MatchCred(job.cl, Tgs(job.cl.r), job.cl.r, 0, FALSE, "any")
    OBVIOUS
  <2>2. m.c = job.cl /\ job.cl # None
    BY <1>2, <2>1, CallsIs DEF MatchCred
  <2>3. PICK hit : hit = Retrieve(files[cache], m)
    OBVIOUS
  <2>4. PICK f : f = files[cache]
    OBVIOUS
  <2>5. /\ files'[cache'] = f
        /\ (hit.k = "hit" /\ pc' = "return" /\ res' = Ok(hit.cred)) \/ pc' = "as"
    BY <1>6, <2>1, <2>3, <2>4 DEF PasswordLocal, cvars
  <2>6. Principal(f) = job.cl /\ Opened(f)
    BY <1>1, <1>6, <2>4 DEF PasswordLocal, Made
  <2>7. hit.k = "hit" => Kept(f, hit.cred)
    <3>1. f \in Files
      BY <1>2, <2>4
    <3>2. hit.k = "hit" => hit.cred.c = job.cl
      BY <2>2, <2>3, <2>4, <3>1, MatchIs
    <3>3. hit.k = "hit" => \E i \in DOMAIN f.recs : f.recs[i] = hit.cred
      BY <2>3, <2>4, <3>1, RetrieveFinds
    <3> QED BY <2>6, <3>2, <3>3 DEF Kept
  <2>8. pc' = "return" => Kept(files[cache], res.cred)'
    <3>1. pc' = "return" => hit.k = "hit" /\ res'.cred = hit.cred
      BY <2>5 DEF Ok
    <3> QED BY <2>5, <2>7, <3>1 DEF Kept
  <2> QED BY <2>5, <2>8 DEF Made
<1>7. CASE PasswordDefault \/ PasswordEmpty \/ \E r \in AsReplies : PasswordAs(r)
  <2>1. pc' \in {"empty", "as", "truncate"} \/ (pc' = "return" /\ res' = Err)
    BY <1>7 DEF PasswordDefault, PasswordEmpty, PasswordAs
  <2> QED BY <2>1, ErrIs DEF Made
<1>8. CASE PasswordTruncate
  <2>1. pc' = "header" /\ files'[cache'] = Torn
    BY <1>2, <1>8 DEF PasswordTruncate
  <2> QED BY <2>1 DEF Made, Torn, NoFile
<1>9. CASE PasswordHeader
  <2>1. files[cache] = Torn
    BY <1>1, <1>9 DEF PasswordHeader, Made
  <2>2. files[cache].st = "torn"
    BY <2>1 DEF Torn, NoFile
  <2>3. HeaderOver(files[cache], res.cred.c) = {[st |-> "ok", p |-> res.cred.c, recs |-> <<>>]}
    BY <2>2 DEF HeaderOver
  <2>4. PICK f \in HeaderOver(files[cache], res.cred.c) : files' = [files EXCEPT ![cache] = f]
    BY <1>9 DEF PasswordHeader
  <2>5. /\ pc' = "store" /\ sto'.cred = res.cred /\ sto'.next = "return" /\ res' = res /\ cache' = cache
    BY <1>9 DEF PasswordHeader, Store
  <2>6. files'[cache'] = [st |-> "ok", p |-> res'.cred.c, recs |-> <<>>]
    BY <1>2, <2>3, <2>4, <2>5
  <2> QED BY <2>5, <2>6 DEF Made
<1> QED BY <1>3, <1>4, <1>5, <1>6, <1>7, <1>8, <1>9

LEMMA HeldKeeps ==
  ASSUME ClientInv, HeldInv, [Next]_vars
  PROVE  HeldInv'
<1> DEFINE Mine == \/ StoreRead \/ StoreAppend \/ PasswordMatch \/ PasswordLocal \/ PasswordDefault \/ PasswordEmpty
                   \/ (\E r \in AsReplies : PasswordAs(r)) \/ PasswordTruncate \/ PasswordHeader
<1>1. CASE Call
  <2>1. did' = did /\ oth' = oth /\ job' = Head(left)
    BY <1>1 DEF Call, cvars
  <2>2. job'.kind = "password" => pc' = "password"
    BY <1>1, <2>1 DEF Call
  <2>3. job'.kind = "password" => Made(files[cache])'
    BY <2>2 DEF Made
  <2> QED BY <2>1, <2>3 DEF HeldInv
<1>2. CASE Return
  <2>1. did' = did /\ oth' = oth /\ pc' = "idle"
    BY <1>2 DEF Return, cvars
  <2> QED BY <2>1 DEF HeldInv
<1>3. CASE Mine
  <2>1. did' = did /\ oth' = oth /\ job' = job /\ pc # "idle"
    BY <1>3 DEF StoreRead, StoreAppend, PasswordMatch, PasswordLocal, PasswordDefault, PasswordEmpty, PasswordAs,
       PasswordTruncate, PasswordHeader, cvars
  <2>2. did = 0 /\ job.kind = "password" => Made(files[cache])'
    BY <1>3, <2>1, PasswordHolds
  <2> QED BY <2>1, <2>2 DEF HeldInv
<1>4. CASE \/ GetCheck \/ GetCandidate \/ GetLocal \/ GetDone \/ SelectStep \/ PrincipalStep
           \/ SelfCheck \/ (\E r \in Realms \cup {"error"} : SelfIdentify(r)) \/ SelfFinal
           \/ ProxyCheck \/ ProxyCandidate \/ ProxyFinish
           \/ \E r \in Replies(ex) : Answer(r)
  <2>1. did' = did /\ oth' = oth /\ job'.kind # "password"
    BY <1>4, NotPassword
  <2> QED BY <2>1 DEF HeldInv
<1>5. CASE Other /\ UNCHANGED jvars
  BY <1>5, OthersCount
<1>6. CASE UNCHANGED vars
  BY <1>6 DEF vars, cvars, jvars, HeldInv, Made
<1> QED BY <1>1, <1>2, <1>3, <1>4, <1>5, <1>6 DEF Next, Client

-----------------------------------------------------------------------------
(* The theorem *)

LEMMA ClientStart ==
  ASSUME Init
  PROVE  ClientInv
<1>1. /\ cfg \in Configs /\ now = 0 /\ files = [n \in Names |-> cfg.files[n]] /\ oth = Idle
      /\ primary \in {"none", "tkt", "tktX"}
  BY DEF Init, CcInit
<1>2. CachesOK
  <2>1. files \in [Names -> Files]
    BY <1>1, ClientConfigs DEF Files
  <2> QED BY <1>1, <2>1, IdleIs DEF CachesOK
<1>3. /\ pc = "idle" /\ left \in cfg.jobs /\ cache = "tkt" /\ req = NoReq /\ ex = NoEx /\ sto = NoSto /\ res = NoRes
  BY DEF Init
<1>4. left \in Seq(Calls)
  <2>1. left \in Seq(Jobs)
    BY <1>1, <1>3, ClientConfigs
  <2>2. \A i \in DOMAIN left : left[i].canon => CanonAsked(cfg)
    BY <1>3 DEF CanonAsked
  <2>3. \A i \in DOMAIN left : left[i] \in Calls
    BY <2>1, <2>2 DEF Calls
  <2>4. left \in [1..Len(left) -> Calls] /\ Len(left) \in Nat
    BY <2>1, <2>3
  <2> QED BY <2>4, SeqDef
<1>5. ex \in Exchanges /\ req \in Requests /\ sto \in Stores /\ res \in Results
  <2>1. "" \in Texts
    BY TextsAre
  <2>2. NoReq \in Requests
    BY <2>1, NoneIs DEF NoReq, Requests
  <2>3. NoSto \in Stores
    BY NoCredGood DEF NoSto, Stores
  <2> QED BY <1>3, <2>2, <2>3, NoExIs, ErrIs
<1>6. TypesOK
  BY <1>3, <1>4, <1>5 DEF TypesOK, Labels, Names
<1>7. KindOK /\ CallOK
  BY <1>3 DEF KindOK, CallOK, GetOK, PlainOK, SelfOK, ProxyOK, PasswordOK, AnswerOK, At
<1> QED BY <1>2, <1>6, <1>7 DEF ClientInv

LEMMA ClientKeeps ==
  ASSUME ClientInv, [Next]_vars
  PROVE  ClientInv'
<1>1. CASE Client
  BY <1>1, CallKeeps, ReturnKeeps, StoreKeeps, GetCheckKeeps, GetCandidateKeeps, GetLocalKeeps, GetDoneKeeps,
     SelectKeeps, PrincipalKeeps, SelfCheckKeeps, SelfIdentifyKeeps, SelfFinalKeeps, ProxyCheckKeeps, ProxyCandidateKeeps,
     ProxyFinishKeeps, PasswordMatchKeeps, PasswordLocalKeeps, PasswordDefaultKeeps, PasswordEmptyKeeps,
     PasswordAsKeeps, PasswordTruncateKeeps, PasswordHeaderKeeps, AnswerKeeps
     DEF Client
<1>2. CASE Other /\ UNCHANGED jvars
  BY <1>2, OtherKeeps, JobsKept DEF ClientInv
<1>3. CASE UNCHANGED vars
  BY <1>3, CachesSame, JobsKept DEF ClientInv, vars
<1> QED BY <1>1, <1>2, <1>3 DEF Next

LEMMA RightOnes ==
  ASSUME ClientInv, HeldInv
  PROVE  RightTicket
<1>1. TicketMatches
  <2>1. SUFFICES ASSUME pc = "return", res.k = "ok"
                 PROVE  TicketMatches
    BY DEF TicketMatches
  <2>2. job \in Calls /\ res.cred \in Good /\ AnswerOK
    BY <2>1 DEF ClientInv, TypesOK, CallOK, Results
  <2>3. PICK t : t = res.cred
    OBVIOUS
  <2>4. t.tc = t.c /\ SameServer(cfg, t)
    BY <2>2, <2>3, GoodIs
  <2>5. job.kind \in {"get", "self", "proxy", "password"}
    BY <2>2, CallsIs
  <2>6. /\ job.kind = "get" => t.c = job.cl /\ t.s = job.s
        /\ job.kind = "self" => /\ t.s = job.cl.n /\ t.c \in {job.user, job.id, ex.user}
                                /\ t.c = job.cl => job.cl \in {job.user, job.id}
        /\ job.kind = "proxy" => t.c = job.user /\ t.s = job.s
        /\ job.kind = "password" /\ sto = NoSto => t.c = job.cl /\ t.s = Tgs(job.cl.r)
    BY <2>1, <2>2, <2>3 DEF AnswerOK, At
  <2>7. job.kind = "password" /\ did = 0 => Holds(cache, t)
    BY <2>1, <2>3, <2>4 DEF HeldInv, Made, Kept, Holds
  <2> QED BY <2>3, <2>4, <2>5, <2>6, <2>7 DEF TicketMatches, IsFor
<1>2. FinalAligned
  BY DEF ClientInv, CallOK, ProxyOK, Chains, FinalAligned
<1> QED BY <1>1, <1>2 DEF RightTicket

LEMMA HeldStart ==
  ASSUME Init
  PROVE  HeldInv
BY DEF Init, CcInit, Idle, HeldInv

\* Whatever KDCs answer and whatever other programs do to the caches, every
\* call of get_credentials, get_credentials_for_user and
\* get_credentials_for_proxy returns a ticket of the client and for the server
\* it was made for, and the last S4U2Proxy request has the service's own TGTs
\* of the target realm as its header and its evidence.
\* acquire_cred_with_password returns the TGT of the client it was asked for
\* when a cache holds it; else a ticket under the name of the client the KDC
\* put in it, in a cache made for that client.
THEOREM TicketsRight == Spec => []RightTicket
<1>1. Init => ClientInv /\ HeldInv
  BY ClientStart, HeldStart
<1>2. ClientInv /\ HeldInv /\ [Next]_vars => ClientInv' /\ HeldInv'
  BY ClientKeeps, HeldKeeps
<1>3. ClientInv /\ HeldInv => RightTicket
  BY RightOnes
<1> QED BY <1>1, <1>2, <1>3, PTL DEF Spec
=============================================================================
