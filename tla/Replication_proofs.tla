------------------------- MODULE Replication_proofs -------------------------
(***************************************************************************)
(* Proofs about the two ways a replica is kept, which share no state:      *)
(*   - Replication, for every set of keys and values and every bucket      *)
(*     width, overlap, batch limit, lag, retention and bound;              *)
(*   - Kprop, for every number of replicas, stalled ones among them, of    *)
(*     versions, records, connections and failures, with kpropd run        *)
(*     standalone: a replica's database is a whole dump, and a push that   *)
(*     is reported was loaded (ReplicaWhole).                              *)
(***************************************************************************)
EXTENDS Replication, Kprop, SequenceTheorems, TLAPS, WellFoundedInduction

-----------------------------------------------------------------------------
(* Full propagation                                                        *)

IsSeq(s) == \E S : s \in Seq(S)

IsConn(c) ==
  c = [st |-> c.st, host |-> c.host, open |-> c.open, c2s |-> c.c2s, s2c |-> c.s2c, hpc |-> c.hpc, hctx |-> c.hctx,
       size |-> c.size, out |-> c.out, lock |-> c.lock, at |-> c.at, ver |-> c.ver, loaded |-> c.loaded]
IsPush(r) ==
  r = [pc |-> r.pc, snap |-> r.snap, fresh |-> r.fresh, todo |-> r.todo, host |-> r.host,
       conn |-> r.conn, ctx |-> r.ctx, fd |-> r.fd, sent |-> r.sent]
IsContext(c) ==
  c = [flags |-> c.flags, laddr |-> c.laddr, raddr |-> c.raddr, etypes |-> c.etypes, key |-> c.key,
       sendk |-> c.sendk, recvk |-> c.recvk, lseq |-> c.lseq, rseq |-> c.rseq, neg |-> c.neg, auth |-> c.auth,
       rc |-> c.rc, sane |-> c.sane, heim |-> c.heim, cst |-> c.cst]

\* How many messages of the pusher the handler has read, and how many answers
\* it has given.
Entered == {"lock", "locking", "size"}
Reading == {"wait", "versions", "auth", "recv"} \cup Entered
HandlerRead(c) ==
  IF c.hpc \in {"wait", "versions"} THEN 0 ELSE IF c.hpc = "auth" THEN 1 ELSE IF c.hpc \in Entered THEN 2 ELSE 3 + c.at
HandlerSaid(c) == IF c.hpc \in {"wait", "versions"} THEN 0 ELSE IF c.hpc = "auth" THEN 1 ELSE 2

\* Message k of a push of version v: after the versions and the AP-REQ the size,
\* then the records.
Carries(v, k, m) ==
  /\ k = 3 => m.body = KRecords[v]
  /\ k - 3 \in 1..KRecords[v] => m.body = <<v, k - 3>>

ConnOK(c) ==
  c.st = "used" =>
    /\ c.host \in KHosts /\ c.ver \in Versions /\ c.hpc \in Reading \cup {"load", "orphan", "end"}
    /\ IsSeq(c.c2s) /\ IsSeq(c.s2c)
    /\ c.host \in HungHosts => c.hpc \in {"wait", "end"} /\ c.s2c = << >>
    /\ c.hpc \in {"recv", "load"} => c.size = KRecords[c.ver] /\ c.at \in 0..c.size
    /\ c.hpc = "load" => c.at = c.size
    /\ c.hpc \in Reading => \A k \in 1..Len(c.c2s) : Carries(c.ver, HandlerRead(c) + k, c.c2s[k])

Online == {"status", "rep", "xmit", "ack"}
Dumping == {"idle", "write", "rename"}

PushWrote(r) == IF r.pc = "status" THEN 1 ELSE IF r.pc = "rep" THEN 2 ELSE 3 + r.sent
PushTook(r) == IF r.pc = "status" THEN 0 ELSE IF r.pc = "rep" THEN 1 ELSE 2

\* A pusher by itself, with a dump file of version d.
PusherOK(r, d) ==
  /\ r.pc \in Dumping \cup {"stamp", "next", "open", "connect"} \cup Online
  /\ r.pc \in {"write", "rename"} => r.snap \in Versions
  /\ r.pc \notin Dumping => d \in Versions
  /\ r.todo \subseteq KHosts
  /\ r.pc \in {"open", "connect"} \cup Online => r.host \in KHosts
  /\ r.pc \in {"connect"} \cup Online => r.fd \in Versions
  /\ r.conn # NoConn <=> r.pc \in Online
  /\ r.pc \in Online =>
       /\ r.conn \in KConns /\ IsContext(r.ctx) /\ r.ctx.laddr = "kprop"
       /\ r.pc # "status" => r.ctx.key = "session"
       /\ r.sent \in 0..KRecords[r.fd] /\ (r.pc \in {"status", "rep"} => r.sent = 0)

\* A pusher and its connection.
PairOK(r, c) ==
  /\ c.st = "used" /\ c.open = TRUE /\ c.ver = r.fd /\ c.host = r.host
  /\ c.hpc \in Reading => HandlerRead(c) + Len(c.c2s) = PushWrote(r)
  /\ c.hpc \notin {"end", "orphan"} => HandlerSaid(c) = Len(c.s2c) + PushTook(r)
  /\ c.hpc = "orphan" => c.s2c = << >>
  /\ c.hpc = "end" => Len(c.s2c) + PushTook(r) <= 2 \/ c.loaded

IsHandler(c) == c.st = "used" /\ c.hpc \notin {"wait", "end", "orphan"}
IsOrphan(c) == c.st = "used" /\ c.hpc = "orphan"

\* The file a handler writes or loads, by the names and files of its host.
FileOK(c, nm, fs) ==
  /\ c.hpc \in {"size", "recv"} => c.out = nm.temp /\ nm.temp # 0
  /\ c.hpc = "size" => c.at = 0 /\ fs[c.out] = << >>
  /\ c.hpc = "recv" => fs[c.out] = [k \in 1..c.at |-> <<c.ver, k>>]
  /\ c.hpc = "load" => nm.file # 0 /\ fs[nm.file] = Records(c.ver)

\* The file a load without its kpropd will open or has opened: no one writes it.
Whole(s) == \E v \in Versions : s = Records(v)
OrphanOK(c, nm, fs) ==
  nm.file # 0 /\ (c.out # 0 => c.out \in KInodes /\ c.out # nm.temp /\ Whole(fs[c.out]))

HostOK(nm, fs, base) ==
  /\ nm = [temp |-> nm.temp, file |-> nm.file]
  /\ nm.temp \in KInodes \cup {0} /\ nm.file \in KInodes \cup {0}
  /\ nm.temp # 0 => nm.temp # nm.file
  /\ fs = [n \in KInodes |-> fs[n]]
  /\ nm.file # 0 => Whole(fs[nm.file])
  /\ base = << >> \/ Whole(base)

\* Connections not yet accepted.
QueueOK(h, s) ==
  /\ IsSeq(s)
  /\ \A k \in 1..Len(s) :
       /\ s[k] \in KConns /\ kconn[s[k]].st = "used" /\ kconn[s[k]].host = h /\ kconn[s[k]].hpc = "wait"
       /\ \A j \in 1..Len(s) : s[j] = s[k] => j = k

KShapes ==
  /\ push = [p \in Pushers |-> push[p]] /\ kconn = [i \in KConns |-> kconn[i]]
  /\ kqueue = [h \in KHosts |-> kqueue[h]] /\ names = [h \in KHosts |-> names[h]]
  /\ inode = [h \in KHosts |-> inode[h]] /\ kdb = [h \in KHosts |-> kdb[h]]
  /\ dump = [ver |-> dump.ver, ok |-> dump.ok] /\ kver \in Versions
  /\ \A p \in Pushers : IsPush(push[p])
  /\ \A i \in KConns : IsConn(kconn[i])

PushersOK ==
  /\ \A p \in Pushers : PusherOK(push[p], dump.ver)
  /\ \A p \in Pushers : push[p].pc \in Online => PairOK(push[p], kconn[push[p].conn])
  /\ \A p, o \in Pushers : push[p].conn = push[o].conn /\ push[p].conn # NoConn => p = o

ConnsOK ==
  /\ \A i \in KConns : ConnOK(kconn[i])
  /\ \A i, j \in KConns : IsHandler(kconn[i]) /\ IsHandler(kconn[j]) /\ kconn[i].host = kconn[j].host => i = j

FilesOK ==
  /\ \A h \in KHosts : HostOK(names[h], inode[h], kdb[h])
  /\ \A i \in KConns : IsHandler(kconn[i]) => FileOK(kconn[i], names[kconn[i].host], inode[kconn[i].host])
  /\ \A i \in KConns : IsOrphan(kconn[i]) => OrphanOK(kconn[i], names[kconn[i].host], inode[kconn[i].host])

QueuesOK == \A h \in KHosts \ HungHosts : QueueOK(h, kqueue[h])

KInv == kmode = "standalone" => KShapes /\ PushersOK /\ ConnsOK /\ FilesOK /\ QueuesOK

LEMMA SeqIs ==
  ASSUME NEW s, IsSeq(s)
  PROVE  Len(s) \in Nat /\ DOMAIN s = 1..Len(s) /\ (s = << >> <=> Len(s) = 0)
<1>1. PICK S : s \in Seq(S)
  BY DEF IsSeq
<1> QED BY <1>1, EmptySeq, LenProperties

LEMMA AppendIs ==
  ASSUME NEW s, IsSeq(s), NEW m
  PROVE  /\ IsSeq(Append(s, m)) /\ Len(s) \in Nat /\ Len(Append(s, m)) = Len(s) + 1
         /\ \A k \in 1..Len(s) : Append(s, m)[k] = s[k]
         /\ Append(s, m)[Len(s) + 1] = m
<1>1. PICK S : s \in Seq(S)
  BY DEF IsSeq
<1>2. PICK T : T = S \cup {m}
  OBVIOUS
<1>3. s \in Seq(T) /\ m \in T
  BY <1>1, <1>2
<1>4. Append(s, m) \in Seq(T)
  BY <1>3, AppendProperties
<1>5. /\ Len(s) \in Nat /\ Len(Append(s, m)) = Len(s) + 1
      /\ \A k \in 1..Len(s) : Append(s, m)[k] = s[k]
      /\ Append(s, m)[Len(s) + 1] = m
  BY <1>3, AppendProperties, LenProperties
<1> QED BY <1>4, <1>5 DEF IsSeq

LEMMA TailIs ==
  ASSUME NEW s, IsSeq(s), s # << >>
  PROVE  /\ IsSeq(Tail(s)) /\ Len(s) \in Nat /\ Len(s) >= 1 /\ Len(Tail(s)) = Len(s) - 1
         /\ \A k \in 1..Len(Tail(s)) : Tail(s)[k] = s[k + 1]
<1>1. PICK S : s \in Seq(S)
  BY DEF IsSeq
<1>2. Tail(s) \in Seq(S) /\ Len(s) \in Nat /\ Len(Tail(s)) = Len(s) - 1 /\ \A k \in 1..Len(Tail(s)) : Tail(s)[k] = s[k + 1]
  BY <1>1, HeadTailProperties, LenProperties
<1>3. Len(s) >= 1
  BY <1>1, <1>2, SeqIs DEF IsSeq
<1> QED BY <1>2, <1>3 DEF IsSeq

LEMMA ShortIs ==
  ASSUME NEW m
  PROVE  IsSeq(<< >>) /\ Len(<< >>) = 0 /\ IsSeq(<<m>>) /\ Len(<<m>>) = 1
<1>1. << >> \in Seq({}) /\ <<m>> \in Seq({m})
  OBVIOUS
<1> QED BY <1>1 DEF IsSeq

\* A context of kprop, from its AP-REQ on, can seal messages.
Seals(c) == IsContext(c) /\ c.laddr = "kprop" /\ c.key = "session"

LEMMA ApMakeIs ==
  ASSUME NEW c, Seals(c), NEW kind, NEW body, NEW id, NEW tm
  PROVE  ApMake(c, kind, body, id, tm).out.body = body /\ Seals(ApMake(c, kind, body, id, tm).ctx)
<1>1. c.laddr # NoAp /\ SendKey(c) # NoAp
  BY DEF Seals, SendKey, NoAp
<1>2. PICK msg : /\ msg.body = body
                 /\ ApMake(c, kind, body, id, tm) =
                      Done([c EXCEPT !.rc = IF "time" \in c.flags THEN @ \cup {id} ELSE @,
                                     !.lseq = IF Numbers(c) THEN Wrapped(@ + 1) ELSE @,
                                     !.cst = IF kind = "priv" /\ @ # NoNum THEN id ELSE @], msg)
  BY <1>1 DEF ApMake
<1>3. PICK x, y, z : x = (IF "time" \in c.flags THEN c.rc \cup {id} ELSE c.rc)
                     /\ y = (IF Numbers(c) THEN Wrapped(c.lseq + 1) ELSE c.lseq)
                     /\ z = (IF kind = "priv" /\ c.cst # NoNum THEN id ELSE c.cst)
  OBVIOUS
<1>4. PICK d : d = [c EXCEPT !.rc = x, !.lseq = y, !.cst = z]
  OBVIOUS
<1>5. ApMake(c, kind, body, id, tm) = Done(d, msg)
  BY <1>2, <1>3, <1>4
<1>6. Seals(d)
  BY <1>4 DEF Seals, IsContext
<1> QED BY <1>2, <1>5, <1>6 DEF Done

LEMMA ApReadIs ==
  ASSUME NEW c, NEW kind, NEW m, NEW tm, ApRead(c, kind, m, tm).ok
  PROVE  ApRead(c, kind, m, tm).out = m.body
<1>1. \/ \E d : ApRead(c, kind, m, tm) = Refused(d)
      \/ \E d : ApRead(c, kind, m, tm) = Done(d, m.body)
  BY DEF ApRead
<1> QED BY <1>1 DEF Refused, Done

LEMMA ApMkReqIs ==
  ASSUME NEW c, IsContext(c), c.laddr = "kprop"
  PROVE  Seals(ApMkReq(c, SendauthOpts, [tkt |-> Ticket0, client |-> "primary"], 1, 0, 0).ctx)
<1>1. TimesValid(Ticket0, 0)
  BY ApAssumption DEF TimesValid, Ticket0
<1>2. PICK k : k = [c EXCEPT !.key = "session"]
  OBVIOUS
<1>3. IsContext(k) /\ k.laddr = "kprop" /\ k.key = "session"
  BY <1>2 DEF IsContext
<1>4. PICK d : d = DrawSeq(k, 1)
  OBVIOUS
<1>5. IsContext(d) /\ d.laddr = "kprop" /\ d.key = "session"
  BY <1>3, <1>4 DEF DrawSeq, IsContext
<1>6. \E a : ApMkReq(c, SendauthOpts, [tkt |-> Ticket0, client |-> "primary"], 1, 0, 0).ctx = [d EXCEPT !.auth = a]
  BY <1>1, <1>2, <1>4 DEF ApMkReq, SendauthOpts, Ticket0, Done
<1>7. \A a : Seals([d EXCEPT !.auth = a])
  BY <1>5 DEF Seals, IsContext
<1> QED BY <1>6, <1>7

LEMMA ApRdRepIs ==
  ASSUME NEW c, Seals(c), NEW rep
  PROVE  Seals(ApRdRep(c, rep).ctx)
<1>1. CASE rep.key # c.key \/ rep.id # c.auth.id
  BY <1>1 DEF ApRdRep, Refused
<1>2. CASE ~(rep.key # c.key \/ rep.id # c.auth.id)
  <2>1. PICK x, y, z : /\ x = (IF rep.subkey = NoAp THEN c.recvk ELSE rep.subkey)
                       /\ y = (IF rep.subkey = NoAp THEN c.sendk ELSE rep.subkey)
                       /\ z = (IF rep.subkey = NoAp THEN c.neg ELSE rep.subkey[2])
    OBVIOUS
  <2>2. PICK d : d = [c EXCEPT !.rseq = rep.seq, !.recvk = x, !.sendk = y, !.neg = z]
    OBVIOUS
  <2>3. ApRdRep(c, rep) = Done(d, NoAp)
    BY <1>2, <2>1, <2>2 DEF ApRdRep
  <2>4. Seals(d)
    BY <2>2 DEF Seals, IsContext
  <2> QED BY <2>3, <2>4 DEF Done
<1> QED BY <1>1, <1>2

LEMMA InitIvectorIs ==
  ASSUME NEW c, Seals(c)
  PROVE  Seals(InitIvector(c))
BY DEF Seals, IsContext, InitIvector

KParts == KShapes /\ PushersOK /\ ConnsOK /\ FilesOK /\ QueuesOK

\* What the pushers' own files and rounds do to a pusher: it is not on a
\* connection, or stays where it was on it.
Follows(a, b) ==
  b.pc \in Online => b.pc = a.pc /\ b.conn = a.conn /\ b.fd = a.fd /\ b.host = a.host /\ b.sent = a.sent

LEMMA PushOnly ==
  ASSUME KParts, UNCHANGED <<kconn, kqueue, names, inode, kdb>>, push' = [o \in Pushers |-> push'[o]],
         dump' = [ver |-> dump'.ver, ok |-> dump'.ok], kver' \in Versions,
         \A o \in Pushers : IsPush(push'[o]) /\ PusherOK(push'[o], dump'.ver) /\ Follows(push[o], push'[o])
  PROVE  KParts'
<1>1. KShapes'
  BY DEF KParts, KShapes, IsPush, IsConn
<1>2. ASSUME NEW o \in Pushers, push'[o].pc \in Online
      PROVE  push[o].pc \in Online /\ push'[o].conn = push[o].conn /\ PairOK(push'[o], kconn'[push'[o].conn])
  <2>1. push[o].pc \in Online /\ push'[o].conn = push[o].conn
    BY <1>2 DEF Follows
  <2>2. PairOK(push[o], kconn[push[o].conn])
    BY <2>1 DEF KParts, PushersOK
  <2>3. PushWrote(push'[o]) = PushWrote(push[o]) /\ PushTook(push'[o]) = PushTook(push[o])
    BY <1>2 DEF Follows, PushWrote, PushTook
  <2>4. PairOK(push'[o], kconn[push[o].conn])
    BY <1>2, <2>2, <2>3 DEF Follows, PairOK
  <2> QED BY <2>1, <2>4
<1>3. ASSUME NEW o \in Pushers, push'[o].conn # NoConn
      PROVE  push'[o].conn = push[o].conn
  <2>1. push'[o].pc \in Online
    BY <1>3 DEF PusherOK
  <2> QED BY <1>2, <2>1
<1>4. PushersOK'
  <2>1. \A o \in Pushers : PusherOK(push[o], dump.ver)'
    BY DEF PusherOK
  <2>2. \A o \in Pushers : (push[o].pc \in Online => PairOK(push[o], kconn[push[o].conn]))'
    BY <1>2 DEF PairOK
  <2>3. ASSUME NEW o \in Pushers, NEW g \in Pushers, push'[o].conn = push'[g].conn, push'[o].conn # NoConn
        PROVE  o = g
    BY <1>3, <2>3 DEF KParts, PushersOK
  <2> QED BY <2>1, <2>2, <2>3 DEF PushersOK
<1>5. ConnsOK' /\ FilesOK' /\ QueuesOK'
  BY DEF KParts, ConnsOK, FilesOK, QueuesOK, QueueOK
<1> QED BY <1>1, <1>4, <1>5 DEF KParts

LEMMA Offline ==
  ASSUME KParts, NEW p \in Pushers, NEW n, IsPush(n), PusherOK(n, dump'.ver), n.pc \notin Online,
         push' = [push EXCEPT ![p] = n] \/ push' = [Stamped EXCEPT ![p] = n],
         dump'.ver = dump.ver \/ dump'.ver \in Versions,
         dump' = [ver |-> dump'.ver, ok |-> dump'.ok], kver' = kver,
         UNCHANGED <<kconn, kqueue, names, inode, kdb>>
  PROVE  KParts'
<1>1. /\ push = [o \in Pushers |-> push[o]] /\ kver \in Versions
      /\ \A o \in Pushers : IsPush(push[o]) /\ PusherOK(push[o], dump.ver)
  BY DEF KParts, KShapes, PushersOK
<1>2. \A o \in Pushers : push'[o] = IF o = p THEN n ELSE IF push' = [push EXCEPT ![p] = n] THEN push[o] ELSE [push[o] EXCEPT !.fresh = TRUE]
  BY <1>1 DEF Stamped
<1>3. push' = [o \in Pushers |-> push'[o]]
  BY <1>1 DEF Stamped
<1>4. ASSUME NEW a, IsPush(a), PusherOK(a, dump.ver), NEW b, b = a \/ b = [a EXCEPT !.fresh = TRUE]
      PROVE  IsPush(b) /\ PusherOK(b, dump'.ver) /\ Follows(a, b)
  <2>1. /\ IsPush(b) /\ b.pc = a.pc /\ b.snap = a.snap /\ b.todo = a.todo /\ b.host = a.host
        /\ b.conn = a.conn /\ b.ctx = a.ctx /\ b.fd = a.fd /\ b.sent = a.sent
    BY <1>4 DEF IsPush
  <2>2. PusherOK(b, dump'.ver)
    BY <1>4, <2>1 DEF PusherOK
  <2> QED BY <2>1, <2>2 DEF Follows
<1>5. ASSUME NEW o \in Pushers
      PROVE  IsPush(push'[o]) /\ PusherOK(push'[o], dump'.ver) /\ Follows(push[o], push'[o])
  <2>1. CASE o = p
    BY <1>2, <2>1 DEF Follows
  <2>2. CASE o # p
    <3>1. push'[o] = push[o] \/ push'[o] = [push[o] EXCEPT !.fresh = TRUE]
      BY <1>2, <2>2
    <3> QED BY <1>1, <1>4, <3>1
  <2> QED BY <2>1, <2>2
<1> QED BY <1>1, <1>3, <1>5, PushOnly

LEMMA IdleOK ==
  ASSUME NEW d
  PROVE  IsPush(IdlePush) /\ PusherOK(IdlePush, d)
BY DEF IdlePush, IsPush, PusherOK, Dumping, Online, NoConn

LEMMA ChangeKept ==
  ASSUME KParts, Change
  PROVE  KParts'
<1>1. UNCHANGED <<dump, push, kconn, kqueue, names, inode, kdb>> /\ kver' \in Versions
  BY DEF Change
<1>2. \A o \in Pushers : IsPush(push'[o]) /\ PusherOK(push'[o], dump'.ver) /\ Follows(push[o], push'[o])
  BY <1>1 DEF KParts, KShapes, PushersOK, Follows
<1>3. push' = [o \in Pushers |-> push'[o]] /\ dump' = [ver |-> dump'.ver, ok |-> dump'.ok]
  BY <1>1 DEF KParts, KShapes
<1> QED BY <1>1, <1>2, <1>3, PushOnly

\* A pusher that goes on from where it is off the network.
LEMMA OfflineGoes ==
  ASSUME KParts, NEW p \in Pushers, NEW n, IsPush(n), n.conn = push[p].conn, push[p].pc \notin Online,
         n.pc \in Dumping \cup {"stamp", "next", "open", "connect"}, n.todo \subseteq KHosts,
         n.pc \in {"write", "rename"} => n.snap \in Versions, n.pc \notin Dumping => dump'.ver \in Versions,
         n.pc \in {"open", "connect"} => n.host \in KHosts, n.pc = "connect" => n.fd \in Versions,
         push' = [push EXCEPT ![p] = n] \/ push' = [Stamped EXCEPT ![p] = n],
         dump'.ver = dump.ver \/ dump'.ver \in Versions,
         dump' = [ver |-> dump'.ver, ok |-> dump'.ok], kver' = kver,
         UNCHANGED <<kconn, kqueue, names, inode, kdb>>
  PROVE  KParts'
<1>1. n.pc \notin Online
  BY DEF Online, Dumping
<1>2. n.conn = NoConn
  BY DEF KParts, PushersOK, PusherOK
<1>3. PusherOK(n, dump'.ver)
  BY <1>1, <1>2 DEF PusherOK, Online
<1> QED BY <1>1, <1>3, Offline

LEMMA DumpKept ==
  ASSUME KParts, NEW p \in Pushers,
         DumpStart(p) \/ DumpWrite(p) \/ DumpRename(p) \/ DumpStamp(p) \/ DumpFails(p)
  PROVE  KParts'
<1>1. /\ IsPush(push[p]) /\ PusherOK(push[p], dump.ver) /\ kver \in Versions
      /\ dump = [ver |-> dump.ver, ok |-> dump.ok]
  BY DEF KParts, KShapes, PushersOK
<1>2. PICK a : a = push[p]
  OBVIOUS
<1>3. CASE DumpStart(p)
  <2>1. PICK n : n = [IdlePush EXCEPT !.pc = "write", !.snap = kver]
    OBVIOUS
  <2>2. IsPush(n) /\ n.pc = "write" /\ n.snap = kver /\ n.todo = {} /\ n.conn = NoConn
    BY <2>1 DEF IdlePush, IsPush
  <2>3. push' = [push EXCEPT ![p] = n] /\ UNCHANGED <<kver, dump, kconn, kqueue, names, inode, kdb>>
    BY <1>3, <2>1 DEF DumpStart, PStep
  <2>4. n.pc \notin Online /\ PusherOK(n, dump.ver)
    BY <1>1, <2>2 DEF PusherOK, Dumping, Online
  <2> QED BY <1>1, <2>2, <2>3, <2>4, Offline
<1>4. CASE DumpWrite(p)
  <2>1. PICK same : push' = [Stamped EXCEPT ![p] = [a EXCEPT !.pc = "rename", !.fresh = same]]
    BY <1>2, <1>4 DEF DumpWrite
  <2>2. PICK n : n = [a EXCEPT !.pc = "rename", !.fresh = same]
    OBVIOUS
  <2>3. IsPush(n) /\ n.pc = "rename" /\ n.snap = a.snap /\ n.conn = a.conn /\ n.todo = a.todo
    BY <1>1, <1>2, <2>2 DEF IsPush
  <2>4. /\ push' = [Stamped EXCEPT ![p] = n] /\ UNCHANGED <<kver, kconn, kqueue, names, inode, kdb>> /\ a.pc = "write"
        /\ dump' = [dump EXCEPT !.ok = TRUE]
    BY <1>2, <1>4, <2>1, <2>2 DEF DumpWrite
  <2>5. a.pc \notin Online /\ a.todo \subseteq KHosts /\ n.pc \in Dumping /\ a.snap \in Versions
    BY <1>1, <1>2, <2>3, <2>4 DEF Online, Dumping, PusherOK
  <2>6. dump'.ver = dump.ver /\ dump' = [ver |-> dump'.ver, ok |-> dump'.ok]
    BY <1>1, <2>4
  <2> QED BY <1>1, <1>2, <2>3, <2>4, <2>5, <2>6, OfflineGoes
<1>5. CASE DumpRename(p)
  <2>1. PICK n : n = [a EXCEPT !.pc = "stamp"]
    OBVIOUS
  <2>2. IsPush(n) /\ n.pc = "stamp" /\ n.conn = a.conn /\ n.todo = a.todo
    BY <1>1, <1>2, <2>1 DEF IsPush
  <2>3. /\ push' = [push EXCEPT ![p] = n] /\ UNCHANGED <<kver, kconn, kqueue, names, inode, kdb>> /\ a.pc = "rename"
        /\ dump' = [ver |-> a.snap, ok |-> a.fresh]
    BY <1>2, <1>5, <2>1 DEF PStep, DumpRename
  <2>4. dump'.ver = a.snap /\ dump' = [ver |-> dump'.ver, ok |-> dump'.ok]
    BY <2>3
  <2>5. a.pc \notin Online /\ a.todo \subseteq KHosts /\ a.snap \in Versions
    BY <1>1, <1>2, <2>3 DEF Online, PusherOK
  <2> QED BY <1>1, <1>2, <2>2, <2>3, <2>4, <2>5, OfflineGoes
<1>6. CASE DumpStamp(p)
  <2>1. PICK H : H = IF p = "loop" THEN {KHosts} ELSE {{h} : h \in KHosts \ HungHosts}
    OBVIOUS
  <2>2. \A hosts \in H : hosts \subseteq KHosts
    <3>1. CASE p = "loop"
      BY <2>1, <3>1
    <3>2. CASE p # "loop"
      BY <2>1, <3>2
    <3> QED BY <3>1, <3>2
  <2>3. PICK hosts \in H : push' = [Stamped EXCEPT ![p] = [a EXCEPT !.pc = "next", !.todo = hosts]]
    BY <1>2, <1>6, <2>1 DEF DumpStamp
  <2>4. push' = [Stamped EXCEPT ![p] = [a EXCEPT !.pc = "next", !.todo = hosts]] /\ hosts \subseteq KHosts
    BY <2>3, <2>2
  <2>5. PICK n : n = [a EXCEPT !.pc = "next", !.todo = hosts]
    OBVIOUS
  <2>6. IsPush(n) /\ n.pc = "next" /\ n.conn = a.conn /\ n.todo = hosts
    BY <1>1, <1>2, <2>5 DEF IsPush
  <2>7. /\ push' = [Stamped EXCEPT ![p] = n] /\ UNCHANGED <<kver, kconn, kqueue, names, inode, kdb>> /\ a.pc = "stamp"
        /\ dump' = [dump EXCEPT !.ok = TRUE]
    BY <1>2, <1>6, <2>4, <2>5 DEF DumpStamp
  <2>8. dump'.ver = dump.ver /\ dump' = [ver |-> dump'.ver, ok |-> dump'.ok]
    BY <1>1, <2>7
  <2>9. a.pc \notin Online /\ dump.ver \in Versions
    BY <1>1, <1>2, <2>7 DEF Online, Dumping, PusherOK
  <2> QED BY <1>1, <1>2, <2>4, <2>6, <2>7, <2>8, <2>9, OfflineGoes
<1>7. CASE DumpFails(p)
  <2>1. push' = [push EXCEPT ![p] = IdlePush] /\ UNCHANGED <<kver, dump, kconn, kqueue, names, inode, kdb>>
    BY <1>7 DEF DumpFails, PStep
  <2>2. IdlePush.pc \notin Online
    BY DEF IdlePush, Online
  <2> QED BY <1>1, <2>1, <2>2, IdleOK, Offline
<1> QED BY <1>3, <1>4, <1>5, <1>6, <1>7

LEMMA RoundKept ==
  ASSUME KParts, NEW p \in Pushers, NextHost(p) \/ OpenDatabase(p) \/ GetTicketsFails(p)
  PROVE  KParts'
<1>1. /\ IsPush(push[p]) /\ PusherOK(push[p], dump.ver) /\ kver \in Versions
      /\ dump = [ver |-> dump.ver, ok |-> dump.ok] /\ UNCHANGED <<kver, dump, kconn, kqueue, names, inode, kdb>>
  BY DEF KParts, KShapes, PushersOK, NextHost, OpenDatabase, GetTicketsFails
<1>2. PICK a : a = push[p]
  OBVIOUS
<1>3. a.pc \in {"next", "open"}
  BY <1>2 DEF NextHost, OpenDatabase, GetTicketsFails
<1>4. a.pc \notin Online /\ a.todo \subseteq KHosts /\ dump.ver \in Versions /\ (a.pc = "open" => a.host \in KHosts)
  BY <1>1, <1>2, <1>3 DEF Online, Dumping, PusherOK
<1>5. CASE NextHost(p) /\ a.todo = {}
  <2>1. push' = [push EXCEPT ![p] = IdlePush]
    BY <1>2, <1>5 DEF NextHost, PStep
  <2>2. IdlePush.pc \notin Online
    BY DEF IdlePush, Online
  <2> QED BY <1>1, <2>1, <2>2, IdleOK, Offline
<1>6. CASE NextHost(p) /\ a.todo # {}
  <2>1. PICK h \in a.todo : push' = [push EXCEPT ![p] = [a EXCEPT !.pc = "open", !.todo = a.todo \ {h}, !.host = h]]
    BY <1>2, <1>6 DEF NextHost, PStep
  <2>2. PICK n : n = [a EXCEPT !.pc = "open", !.todo = a.todo \ {h}, !.host = h]
    OBVIOUS
  <2>3. IsPush(n) /\ n.pc = "open" /\ n.conn = a.conn /\ n.todo = a.todo \ {h} /\ n.host = h
    BY <1>1, <1>2, <2>2 DEF IsPush
  <2>4. push' = [push EXCEPT ![p] = n] /\ n.todo \subseteq KHosts /\ n.host \in KHosts
    BY <1>4, <2>1, <2>2, <2>3
  <2> QED BY <1>1, <1>2, <1>4, <2>3, <2>4, OfflineGoes
<1>7. CASE OpenDatabase(p)
  <2>1. PICK at : push' = [push EXCEPT ![p] = [a EXCEPT !.pc = at, !.fd = dump.ver]] /\ at \in {"connect", "next"}
    BY <1>2, <1>7 DEF OpenDatabase, PStep
  <2>2. PICK n : n = [a EXCEPT !.pc = at, !.fd = dump.ver]
    OBVIOUS
  <2>3. IsPush(n) /\ n.pc = at /\ n.conn = a.conn /\ n.todo = a.todo /\ n.host = a.host /\ n.fd = dump.ver
    BY <1>1, <1>2, <2>2 DEF IsPush
  <2>4. push' = [push EXCEPT ![p] = n] /\ a.pc = "open"
    BY <1>2, <1>7, <2>1, <2>2 DEF OpenDatabase
  <2> QED BY <1>1, <1>2, <1>4, <2>1, <2>3, <2>4, OfflineGoes
<1>8. CASE GetTicketsFails(p)
  <2>1. PICK n : n = [a EXCEPT !.pc = "next"]
    OBVIOUS
  <2>2. IsPush(n) /\ n.pc = "next" /\ n.conn = a.conn /\ n.todo = a.todo
    BY <1>1, <1>2, <2>1 DEF IsPush
  <2>3. push' = [push EXCEPT ![p] = n]
    BY <1>2, <1>8, <2>1 DEF GetTicketsFails, PStep
  <2> QED BY <1>1, <1>2, <1>4, <2>2, <2>3, OfflineGoes
<1> QED BY <1>5, <1>6, <1>7, <1>8

\* What keeps the parts when one connection changes.
LEMMA OneConn ==
  ASSUME KParts, NEW i \in KConns, NEW c, IsConn(c), ConnOK(c), kconn' = [kconn EXCEPT ![i] = c], kver' = kver, dump' = dump,
         push' = [o \in Pushers |-> push'[o]], kqueue' = [h \in KHosts |-> kqueue'[h]],
         names' = [h \in KHosts |-> names'[h]], inode' = [h \in KHosts |-> inode'[h]], kdb' = [h \in KHosts |-> kdb'[h]],
         \A o \in Pushers : IsPush(push'[o]) /\ PusherOK(push'[o], dump.ver),
         \A o \in Pushers : push'[o].pc \in Online /\ push'[o].conn = i => PairOK(push'[o], c),
         \A o \in Pushers : push'[o].pc \in Online /\ push'[o].conn # i => push'[o] = push[o],
         \A o, g \in Pushers : push'[o].conn = push'[g].conn /\ push'[o].conn # NoConn => o = g,
         \A j \in KConns : j # i /\ IsHandler(kconn[j]) /\ IsHandler(c) => kconn[j].host # c.host,
         FilesOK', QueuesOK'
  PROVE  KParts'
<1>1. /\ kconn = [j \in KConns |-> kconn[j]] /\ kver \in Versions /\ dump = [ver |-> dump.ver, ok |-> dump.ok]
      /\ \A j \in KConns : IsConn(kconn[j]) /\ ConnOK(kconn[j])
  BY DEF KParts, KShapes, ConnsOK
<1>2. kconn'[i] = c /\ \A j \in KConns : j # i => kconn'[j] = kconn[j]
  BY <1>1
<1>3. kconn' = [j \in KConns |-> kconn'[j]]
  BY <1>1
<1>4. ASSUME NEW j \in KConns
      PROVE  IsConn(kconn'[j]) /\ ConnOK(kconn'[j])
  BY <1>1, <1>2
<1>5. (\A j \in KConns : IsConn(kconn[j]))' /\ (\A j \in KConns : ConnOK(kconn[j]))'
  BY <1>4 DEF IsConn, ConnOK, Carries
<1>6. KShapes'
  <2>1. (\A o \in Pushers : IsPush(push[o]))'
    BY DEF IsPush
  <2> QED BY <1>1, <1>3, <1>5, <2>1 DEF KShapes
<1>7. PushersOK'
  <2>1. (\A o \in Pushers : PusherOK(push[o], dump.ver))'
    BY DEF PusherOK
  <2>2. ASSUME NEW o \in Pushers, push'[o].pc \in Online
        PROVE  PairOK(push'[o], kconn'[push'[o].conn])
    <3>1. CASE push'[o].conn = i
      BY <1>2, <2>2, <3>1
    <3>2. CASE push'[o].conn # i
      <4>1. push'[o] = push[o]
        BY <2>2, <3>2
      <4>2. push[o].conn \in KConns
        BY <2>2, <4>1 DEF PusherOK
      <4>3. PairOK(push[o], kconn[push[o].conn])
        BY <2>2, <4>1 DEF KParts, PushersOK
      <4> QED BY <1>2, <3>2, <4>1, <4>2, <4>3
    <3> QED BY <3>1, <3>2
  <2>3. (\A o \in Pushers : push[o].pc \in Online => PairOK(push[o], kconn[push[o].conn]))'
    BY <2>2 DEF PairOK
  <2> QED BY <2>1, <2>3 DEF PushersOK
<1>8. ConnsOK'
  <2>1. ASSUME NEW j \in KConns, NEW k \in KConns, IsHandler(kconn'[j]), IsHandler(kconn'[k]), kconn'[j].host = kconn'[k].host
        PROVE  j = k
    <3>1. CASE j # i /\ k # i
      BY <1>2, <2>1, <3>1 DEF KParts, ConnsOK
    <3>2. CASE j = i \/ k = i
      BY <1>2, <2>1, <3>2
    <3> QED BY <3>1, <3>2
  <2>2. (\A j, k \in KConns : IsHandler(kconn[j]) /\ IsHandler(kconn[k]) /\ kconn[j].host = kconn[k].host => j = k)'
    BY <2>1 DEF IsHandler
  <2> QED BY <1>5, <2>2 DEF ConnsOK
<1> QED BY <1>6, <1>7, <1>8 DEF KParts

LEMMA QueuesStay ==
  ASSUME KParts, NEW i \in KConns, NEW c, kconn' = [kconn EXCEPT ![i] = c],
         \A h \in KHosts \ HungHosts : kqueue'[h] = kqueue[h],
         kconn[i].hpc = "wait" /\ kconn[i].host \notin HungHosts => c.st = "used" /\ c.host = kconn[i].host /\ c.hpc = "wait"
  PROVE  QueuesOK'
<1>1. kconn = [j \in KConns |-> kconn[j]]
  BY DEF KParts, KShapes
<1>2. kconn'[i] = c /\ \A j \in KConns : j # i => kconn'[j] = kconn[j]
  BY <1>1
<1>3. ASSUME NEW h \in KHosts \ HungHosts
      PROVE  QueueOK(h, kqueue[h])'
  <2>1. QueueOK(h, kqueue[h]) /\ kqueue'[h] = kqueue[h]
    BY DEF KParts, QueuesOK
  <2>2. PICK s : s = kqueue[h]
    OBVIOUS
  <2>3. ASSUME NEW k \in 1..Len(s)
        PROVE  /\ s[k] \in KConns /\ kconn'[s[k]].st = "used" /\ kconn'[s[k]].host = h /\ kconn'[s[k]].hpc = "wait"
               /\ \A j \in 1..Len(s) : s[j] = s[k] => j = k
    <3>1. /\ s[k] \in KConns /\ kconn[s[k]].st = "used" /\ kconn[s[k]].host = h /\ kconn[s[k]].hpc = "wait"
          /\ \A j \in 1..Len(s) : s[j] = s[k] => j = k
      BY <2>1, <2>2 DEF QueueOK
    <3> QED BY <1>2, <3>1
  <2>4. kqueue'[h] = s /\ IsSeq(s)
    BY <2>1, <2>2 DEF QueueOK
  <2> QED BY <2>3, <2>4 DEF QueueOK
<1> QED BY <1>3 DEF QueuesOK

LEMMA FilesStay ==
  ASSUME KParts, NEW i \in KConns, NEW c, kconn' = [kconn EXCEPT ![i] = c], UNCHANGED <<names, inode, kdb>>,
         IsHandler(c) => FileOK(c, names[c.host], inode[c.host]),
         IsOrphan(c) => OrphanOK(c, names[c.host], inode[c.host])
  PROVE  FilesOK'
<1>1. kconn = [j \in KConns |-> kconn[j]] /\ FilesOK
  BY DEF KParts, KShapes
<1>2. kconn'[i] = c /\ \A j \in KConns : j # i => kconn'[j] = kconn[j]
  BY <1>1
<1>3. ASSUME NEW j \in KConns, IsHandler(kconn'[j])
      PROVE  FileOK(kconn'[j], names'[kconn'[j].host], inode'[kconn'[j].host])
  BY <1>1, <1>2, <1>3 DEF FilesOK
<1>4. (\A j \in KConns : IsHandler(kconn[j]) => FileOK(kconn[j], names[kconn[j].host], inode[kconn[j].host]))'
  BY <1>3 DEF IsHandler, FileOK
<1>5. ASSUME NEW j \in KConns, IsOrphan(kconn'[j])
      PROVE  OrphanOK(kconn'[j], names'[kconn'[j].host], inode'[kconn'[j].host])
  BY <1>1, <1>2, <1>5 DEF FilesOK
<1>6. (\A j \in KConns : IsOrphan(kconn[j]) => OrphanOK(kconn[j], names[kconn[j].host], inode[kconn[j].host]))'
  BY <1>5 DEF IsOrphan, OrphanOK, Whole
<1>7. (\A h \in KHosts : HostOK(names[h], inode[h], kdb[h]))'
  BY <1>1 DEF FilesOK, HostOK
<1> QED BY <1>4, <1>6, <1>7 DEF FilesOK

\* A pusher that reads or writes on its connection.
LEMMA ClientGoes ==
  ASSUME KParts, NEW p \in Pushers, push[p].pc \in Online, NEW i, i = push[p].conn, NEW a, a = kconn[i],
         NEW n, IsPush(n), PusherOK(n, dump.ver), n.pc \in Online, n.conn = i, push' = [push EXCEPT ![p] = n],
         NEW c, IsConn(c), ConnOK(c), PairOK(n, c), kconn' = [kconn EXCEPT ![i] = c],
         c.st = a.st, c.host = a.host, c.hpc = a.hpc, c.out = a.out, c.at = a.at, c.ver = a.ver,
         UNCHANGED <<kver, dump, kqueue, names, inode, kdb>>
  PROVE  KParts'
<1>1. KShapes /\ PushersOK /\ ConnsOK /\ FilesOK
  BY DEF KParts
<1>2. i \in KConns /\ a.st = "used" /\ i # NoConn
  BY <1>1, KpropAssumption DEF PushersOK, PusherOK, PairOK, NoConn
<1>3. push'[p] = n /\ \A o \in Pushers : o # p => push'[o] = push[o]
  BY <1>1 DEF KShapes
<1>4. \A o \in Pushers : o # p => push[o].conn # i
  BY <1>1, <1>2 DEF PushersOK
<1>5. /\ push' = [o \in Pushers |-> push'[o]] /\ kqueue' = [h \in KHosts |-> kqueue'[h]]
      /\ names' = [h \in KHosts |-> names'[h]] /\ inode' = [h \in KHosts |-> inode'[h]] /\ kdb' = [h \in KHosts |-> kdb'[h]]
  BY <1>1 DEF KShapes
<1>6. \A o \in Pushers : IsPush(push'[o]) /\ PusherOK(push'[o], dump.ver)
  BY <1>1, <1>3 DEF KShapes, PushersOK
<1>7. /\ \A o \in Pushers : push'[o].pc \in Online /\ push'[o].conn = i => PairOK(push'[o], c)
      /\ \A o \in Pushers : push'[o].pc \in Online /\ push'[o].conn # i => push'[o] = push[o]
  BY <1>3, <1>4
<1>8. \A o, g \in Pushers : push'[o].conn = push'[g].conn /\ push'[o].conn # NoConn => o = g
  BY <1>1, <1>3, <1>4 DEF PushersOK
<1>9. IsHandler(c) => IsHandler(a)
  BY DEF IsHandler
<1>10. \A j \in KConns : j # i /\ IsHandler(kconn[j]) /\ IsHandler(c) => kconn[j].host # c.host
  BY <1>1, <1>2, <1>9 DEF ConnsOK
<1>11. FilesOK'
  <2>1. IsHandler(c) => FileOK(c, names[c.host], inode[c.host])
    BY <1>1, <1>2, <1>9 DEF FilesOK, FileOK
  <2>2. IsOrphan(c) => OrphanOK(c, names[c.host], inode[c.host])
    BY <1>1, <1>2 DEF FilesOK, OrphanOK, IsOrphan
  <2> QED BY <1>2, <2>1, <2>2, FilesStay
<1>12. QueuesOK'
  BY <1>2, QueuesStay
<1> QED BY <1>2, <1>5, <1>6, <1>7, <1>8, <1>10, <1>11, <1>12, OneConn

LEMMA HangsUp ==
  ASSUME KParts, NEW p \in Pushers, push[p].conn # NoConn, kconn' = Hangup(push[p].conn), PStep(p, OnTo(p)),
         kqueue' = [h \in KHosts |-> kqueue'[h]], \A h \in KHosts \ HungHosts : kqueue'[h] = kqueue[h],
         UNCHANGED <<kver, dump, names, inode, kdb>>
  PROVE  KParts'
<1>1. KShapes /\ PushersOK /\ ConnsOK /\ FilesOK
  BY DEF KParts
<1>2. PICK i : i = push[p].conn
  OBVIOUS
<1>3. PICK a : a = kconn[i]
  OBVIOUS
<1>4. PICK r : r = push[p]
  OBVIOUS
<1>5. IsPush(r) /\ PusherOK(r, dump.ver) /\ r.pc \in Online /\ i \in KConns /\ PairOK(r, a)
  BY <1>1, <1>2, <1>3, <1>4 DEF KShapes, PushersOK, PusherOK
<1>6. IsConn(a) /\ ConnOK(a) /\ a.st = "used"
  BY <1>1, <1>3, <1>5 DEF KShapes, ConnsOK, PairOK
<1>7. PICK n : n = [r EXCEPT !.pc = "next", !.host = NoAp, !.conn = NoConn, !.ctx = NoAp, !.fd = 0, !.sent = 0]
  OBVIOUS
<1>8. IsPush(n) /\ n.pc = "next" /\ n.conn = NoConn /\ n.todo = r.todo
  BY <1>5, <1>7 DEF IsPush
<1>9. PusherOK(n, dump.ver)
  BY <1>5, <1>8 DEF PusherOK, Dumping, Online
<1>10. push' = [push EXCEPT ![p] = n]
  BY <1>4, <1>7 DEF PStep, OnTo
<1>11. PICK c : c = IF a.hpc = "end" \/ a.host \in HungHosts THEN FreeConn ELSE [a EXCEPT !.open = FALSE, !.s2c = << >>]
  OBVIOUS
<1>12. kconn' = [kconn EXCEPT ![i] = c]
  BY <1>2, <1>3, <1>11 DEF Hangup
<1>13. /\ IsConn(c) /\ ConnOK(c) /\ (IsHandler(c) => IsHandler(a) /\ c.host = a.host /\ c.hpc = a.hpc /\ c.out = a.out /\ c.at = a.at /\ c.ver = a.ver)
       /\ (IsOrphan(c) => IsOrphan(a) /\ c.host = a.host /\ c.out = a.out)
       /\ a.hpc = "wait" /\ a.host \notin HungHosts => c.st = "used" /\ c.host = a.host /\ c.hpc = "wait"
  <2>1. CASE a.hpc = "end" \/ a.host \in HungHosts
    BY <1>11, <2>1 DEF FreeConn, IsConn, ConnOK, IsHandler, IsOrphan
  <2>2. CASE ~(a.hpc = "end" \/ a.host \in HungHosts)
    <3>1. /\ IsConn(c) /\ c.st = a.st /\ c.host = a.host /\ c.c2s = a.c2s /\ c.s2c = << >> /\ c.hpc = a.hpc
          /\ c.size = a.size /\ c.out = a.out /\ c.at = a.at /\ c.ver = a.ver
      BY <1>6, <1>11, <2>2 DEF IsConn
    <3>2. HandlerRead(c) = HandlerRead(a)
      BY <3>1 DEF HandlerRead
    <3>3. ConnOK(c)
      BY <1>6, <2>2, <3>1, <3>2, ShortIs DEF ConnOK
    <3> QED BY <1>6, <3>1, <3>3 DEF IsHandler, IsOrphan
  <2> QED BY <2>1, <2>2
<1>14. push'[p] = n /\ \A o \in Pushers : o # p => push'[o] = push[o]
  BY <1>1, <1>10 DEF KShapes
<1>15. \A o \in Pushers : o # p => push[o].conn # i
  BY <1>1, <1>2 DEF PushersOK
<1>16. /\ push' = [o \in Pushers |-> push'[o]]
       /\ names' = [h \in KHosts |-> names'[h]] /\ inode' = [h \in KHosts |-> inode'[h]] /\ kdb' = [h \in KHosts |-> kdb'[h]]
  BY <1>1, <1>10 DEF KShapes
<1>17. \A o \in Pushers : IsPush(push'[o]) /\ PusherOK(push'[o], dump.ver)
  BY <1>1, <1>8, <1>9, <1>14 DEF KShapes, PushersOK
<1>18. "next" \notin Online /\ i # NoConn
  BY <1>2 DEF Online
<1>19. /\ \A o \in Pushers : push'[o].pc \in Online /\ push'[o].conn = i => PairOK(push'[o], c)
       /\ \A o \in Pushers : push'[o].pc \in Online /\ push'[o].conn # i => push'[o] = push[o]
  BY <1>8, <1>14, <1>15, <1>18
<1>20. \A o, g \in Pushers : push'[o].conn = push'[g].conn /\ push'[o].conn # NoConn => o = g
  BY <1>1, <1>8, <1>14 DEF PushersOK
<1>21. \A j \in KConns : j # i /\ IsHandler(kconn[j]) /\ IsHandler(c) => kconn[j].host # c.host
  BY <1>1, <1>3, <1>5, <1>13 DEF ConnsOK
<1>22. FilesOK'
  <2>1. IsHandler(c) => FileOK(c, names[c.host], inode[c.host])
    BY <1>1, <1>3, <1>5, <1>13 DEF FilesOK, FileOK
  <2>2. IsOrphan(c) => OrphanOK(c, names[c.host], inode[c.host])
    BY <1>1, <1>3, <1>5, <1>13 DEF FilesOK, OrphanOK
  <2> QED BY <1>5, <1>12, <2>1, <2>2, FilesStay
<1>23. QueuesOK'
  BY <1>3, <1>5, <1>12, <1>13, QueuesStay
<1> QED BY <1>5, <1>12, <1>13, <1>16, <1>17, <1>19, <1>20, <1>21, <1>22, <1>23, OneConn

LEMMA HangupKept ==
  ASSUME KParts, NEW p \in Pushers, ReadAck(p) \/ PushFails(p) \/ PushKilled(p)
  PROVE  KParts'
<1>1. CASE ReadAck(p) \/ PushFails(p)
  <2>1. push[p].conn # NoConn /\ kconn' = Hangup(push[p].conn) /\ PStep(p, OnTo(p)) /\ UNCHANGED <<kver, dump, kqueue, names, inode, kdb>>
    BY <1>1 DEF ReadAck, PushFails, Answer
  <2>2. kqueue' = [h \in KHosts |-> kqueue'[h]]
    BY <2>1 DEF KParts, KShapes
  <2> QED BY <2>1, <2>2, HangsUp
<1>2. CASE PushKilled(p)
  <2>1. push[p].conn # NoConn /\ kconn' = Hangup(push[p].conn) /\ PStep(p, OnTo(p)) /\ UNCHANGED <<kver, dump, names, inode, kdb>>
    BY <1>2 DEF PushKilled
  <2>2. kqueue' = [h \in KHosts |-> kqueue'[h]] /\ \A h \in KHosts \ HungHosts : kqueue'[h] = kqueue[h]
    BY <1>2 DEF PushKilled
  <2> QED BY <2>1, <2>2, HangsUp
<1> QED BY <1>1, <1>2

LEMMA SaidIs ==
  ASSUME NEW c
  PROVE  HandlerSaid(c) \in 0..2
BY DEF HandlerSaid

LEMMA ReadIs ==
  ASSUME NEW c, ConnOK(c), c.st = "used", c.hpc \in Reading
  PROVE  HandlerRead(c) \in Nat
<1>1. CASE c.hpc = "recv"
  <2>1. c.size = KRecords[c.ver] /\ c.at \in 0..c.size /\ c.ver \in Versions
    BY <1>1 DEF ConnOK
  <2>2. c.at \in Nat
    BY <2>1, KpropAssumption DEF Versions
  <2> QED BY <2>2 DEF HandlerRead
<1>2. CASE c.hpc # "recv"
  BY <1>2 DEF HandlerRead, Reading, Entered
<1> QED BY <1>1, <1>2

\* A pusher writes its next message on connection a, after an answer or without
\* one.
Written(a, c, m) == c = [a EXCEPT !.c2s = Append(a.c2s, m), !.s2c = c.s2c]
Taken(a, z, r, n) ==
  \/ z = a.s2c /\ PushTook(n) = PushTook(r)
  \/ a.s2c # << >> /\ z = Tail(a.s2c) /\ PushTook(n) = PushTook(r) + 1

LEMMA TakenIs ==
  ASSUME NEW a, NEW z, NEW r, NEW n, IsSeq(a.s2c), Taken(a, z, r, n)
  PROVE  /\ IsSeq(z) /\ Len(z) \in Nat /\ Len(a.s2c) \in Nat /\ Len(z) + PushTook(n) = Len(a.s2c) + PushTook(r)
         /\ a.s2c = << >> => z = << >>
<1>1. PushTook(r) \in Nat /\ PushTook(n) \in Nat
  BY DEF PushTook
<1>2. PICK s : s = a.s2c
  OBVIOUS
<1>3. PICK tr, tn : tr = PushTook(r) /\ tn = PushTook(n)
  OBVIOUS
<1>4. CASE z = s /\ tn = tr
  BY <1>2, <1>3, <1>4, SeqIs
<1>5. CASE s # << >> /\ z = Tail(s) /\ tn = tr + 1
  <2>1. IsSeq(z) /\ Len(s) \in Nat /\ Len(s) >= 1 /\ Len(z) = Len(s) - 1
    BY <1>2, <1>5, TailIs
  <2>2. Len(z) \in Nat /\ Len(z) + tn = Len(s) + tr
    BY <1>1, <1>3, <1>5, <2>1
  <2> QED BY <1>2, <1>3, <1>5, <2>1, <2>2
<1> QED BY <1>2, <1>3, <1>4, <1>5 DEF Taken

LEMMA Sends ==
  ASSUME KParts, NEW p \in Pushers, NEW r, r = push[p], r.pc \in Online, NEW i, i = r.conn, NEW a, a = kconn[i],
         NEW n, IsPush(n), PusherOK(n, dump.ver), n.pc \in Online, n.conn = i, n.fd = r.fd, n.host = r.host, push' = [push EXCEPT ![p] = n],
         NEW m, PushWrote(n) = PushWrote(r) + 1, PushWrote(r) \in Nat, Carries(r.fd, PushWrote(n), m),
         NEW c, Written(a, c, m), Taken(a, c.s2c, r, n), kconn' = [kconn EXCEPT ![i] = c],
         UNCHANGED <<kver, dump, kqueue, names, inode, kdb>>
  PROVE  KParts'
<1>1. KShapes /\ PushersOK /\ ConnsOK
  BY DEF KParts
<1>2. IsPush(r) /\ PusherOK(r, dump.ver) /\ i \in KConns /\ PairOK(r, a)
  BY <1>1 DEF KShapes, PushersOK, PusherOK
<1>3. IsConn(a) /\ ConnOK(a) /\ a.st = "used" /\ a.ver = r.fd /\ a.host = r.host
  BY <1>1, <1>2 DEF KShapes, ConnsOK, PairOK
<1>4. PICK y, z : y = Append(a.c2s, m) /\ z = c.s2c
  OBVIOUS
<1>5. /\ IsConn(c) /\ c.st = a.st /\ c.host = a.host /\ c.hpc = a.hpc /\ c.out = a.out /\ c.at = a.at /\ c.ver = a.ver
      /\ c.open = a.open /\ c.size = a.size /\ c.loaded = a.loaded /\ c.c2s = y /\ c.s2c = z
  BY <1>3, <1>4 DEF IsConn, Written
<1>6. IsSeq(a.c2s) /\ IsSeq(a.s2c)
  BY <1>3 DEF ConnOK
<1>7. /\ IsSeq(y) /\ Len(a.c2s) \in Nat /\ Len(y) = Len(a.c2s) + 1
      /\ \A k \in 1..Len(a.c2s) : y[k] = a.c2s[k]
      /\ y[Len(a.c2s) + 1] = m
  BY <1>4, <1>6, AppendIs
<1>8. /\ IsSeq(z) /\ Len(z) \in Nat /\ Len(a.s2c) \in Nat /\ Len(z) + PushTook(n) = Len(a.s2c) + PushTook(r)
      /\ a.s2c = << >> => z = << >>
  BY <1>4, <1>6, TakenIs
<1>9. HandlerRead(c) = HandlerRead(a) /\ HandlerSaid(c) = HandlerSaid(a)
  BY <1>5 DEF HandlerRead, HandlerSaid
<1>10. a.hpc \in Reading => HandlerRead(a) \in Nat /\ HandlerRead(a) + Len(a.c2s) = PushWrote(r)
  BY <1>2, <1>3, ReadIs DEF PairOK
<1>11. ConnOK(c)
  <2>1. ASSUME a.hpc \in Reading, NEW k \in 1..Len(y)
        PROVE  Carries(a.ver, HandlerRead(a) + k, y[k])
    <3>1. CASE k \in 1..Len(a.c2s)
      BY <1>3, <1>7, <2>1, <3>1 DEF ConnOK
    <3>2. CASE k = Len(a.c2s) + 1
      <4>1. HandlerRead(a) + k = PushWrote(n) /\ y[k] = m
        BY <1>7, <1>10, <2>1, <3>2
      <4> QED BY <1>3, <4>1
    <3> QED BY <1>7, <2>1, <3>1, <3>2
  <2>2. /\ c.host \in KHosts /\ c.ver \in Versions /\ c.hpc \in Reading \cup {"load", "orphan", "end"}
        /\ IsSeq(c.c2s) /\ IsSeq(c.s2c)
        /\ c.host \in HungHosts => c.hpc \in {"wait", "end"} /\ c.s2c = << >>
        /\ c.hpc \in {"recv", "load"} => c.size = KRecords[c.ver] /\ c.at \in 0..c.size
        /\ c.hpc = "load" => c.at = c.size
    BY <1>3, <1>5, <1>7, <1>8 DEF ConnOK
  <2>3. c.hpc \in Reading => \A k \in 1..Len(c.c2s) : Carries(c.ver, HandlerRead(c) + k, c.c2s[k])
    BY <1>5, <1>9, <2>1
  <2> QED BY <2>2, <2>3 DEF ConnOK
<1>12. PairOK(n, c)
  <2>1. c.hpc \in Reading => HandlerRead(c) + Len(c.c2s) = PushWrote(n)
    BY <1>5, <1>7, <1>9, <1>10
  <2>2. c.hpc \notin {"end", "orphan"} => HandlerSaid(c) = Len(c.s2c) + PushTook(n)
    BY <1>2, <1>5, <1>8, <1>9 DEF PairOK
  <2>3. (c.hpc = "end" => Len(c.s2c) + PushTook(n) <= 2 \/ c.loaded) /\ (c.hpc = "orphan" => c.s2c = << >>)
    BY <1>2, <1>5, <1>8 DEF PairOK
  <2> QED BY <1>2, <1>5, <2>1, <2>2, <2>3 DEF PairOK
<1>13. push[p].pc \in Online /\ i = push[p].conn
  OBVIOUS
<1>14. /\ c.st = a.st /\ c.host = a.host /\ c.hpc = a.hpc /\ c.out = a.out /\ c.at = a.at /\ c.ver = a.ver
       /\ IsConn(c) /\ ConnOK(c) /\ PairOK(n, c)
  BY <1>5, <1>11, <1>12
<1> QED BY <1>13, <1>14, ClientGoes

LEMMA SendKept ==
  ASSUME KParts, NEW p \in Pushers, SendApReq(p) \/ SendSize(p) \/ SendBlock(p)
  PROVE  KParts'
<1>1. KShapes /\ PushersOK /\ ConnsOK
  BY DEF KParts
<1>2. PICK r : r = push[p]
  OBVIOUS
<1>3. PICK i : i = r.conn
  OBVIOUS
<1>4. PICK a : a = kconn[i]
  OBVIOUS
<1>5. r.pc \in Online /\ IsPush(r) /\ PusherOK(r, dump.ver) /\ i \in KConns /\ i # NoConn /\ IsConn(a) /\ kconn = [j \in KConns |-> kconn[j]]
  BY <1>1, <1>2, <1>3, <1>4, KpropAssumption DEF NoConn, KShapes, PushersOK, PusherOK, SendApReq, SendSize, SendBlock, Answer, Online
<1>6. /\ r.fd \in Versions /\ r.host \in KHosts /\ r.todo \subseteq KHosts /\ dump.ver \in Versions
      /\ IsContext(r.ctx) /\ r.ctx.laddr = "kprop" /\ (r.pc # "status" => r.ctx.key = "session")
      /\ r.sent \in 0..KRecords[r.fd] /\ (r.pc \in {"status", "rep"} => r.sent = 0) /\ KRecords[r.fd] \in Nat \ {0}
  BY <1>5, KpropAssumption DEF PusherOK, Versions, Dumping, Online
<1>7. UNCHANGED <<kver, dump, kqueue, names, inode, kdb>>
  BY DEF SendApReq, SendSize, SendBlock
<1>8. CASE SendApReq(p)
  <2>1. PICK t : t = ApMkReq(r.ctx, SendauthOpts, [tkt |-> Ticket0, client |-> "primary"], 1, 0, 0)
    OBVIOUS
  <2>2. Seals(t.ctx)
    BY <1>6, <2>1, ApMkReqIs
  <2>3. PICK n : n = [r EXCEPT !.pc = "rep", !.ctx = t.ctx]
    OBVIOUS
  <2>4. r.pc = "status" /\ a.s2c # << >> /\ push' = [push EXCEPT ![p] = n] /\ kconn' = [Took(i) EXCEPT ![i].c2s = Append(@, t.out)]
    BY <1>2, <1>3, <1>4, <1>8, <2>1, <2>3 DEF SendApReq, PStep, Answer
  <2>5. /\ IsPush(n) /\ n.pc = "rep" /\ n.conn = i /\ n.fd = r.fd /\ n.host = r.host /\ n.todo = r.todo
        /\ n.ctx = t.ctx /\ n.sent = r.sent
    BY <1>3, <1>5, <2>3 DEF IsPush
  <2>6. PusherOK(n, dump.ver)
    BY <1>5, <1>6, <2>2, <2>4, <2>5 DEF PusherOK, Seals, Online, Dumping
  <2>7. PICK z : z = Tail(a.s2c)
    OBVIOUS
  <2>8. PICK m : m = t.out
    OBVIOUS
  <2>9. PICK c : c = [a EXCEPT !.c2s = Append(a.c2s, m), !.s2c = z]
    OBVIOUS
  <2>10. kconn' = [kconn EXCEPT ![i] = c]
    <3>1. PICK b : b = [a EXCEPT !.s2c = z]
      OBVIOUS
    <3>2. Took(i) = [kconn EXCEPT ![i] = b] /\ b.c2s = a.c2s
      BY <1>4, <1>5, <2>7, <3>1 DEF Took, IsConn
    <3>3. c = [b EXCEPT !.c2s = Append(a.c2s, m)]
      BY <1>5, <2>9, <3>1 DEF IsConn
    <3> QED BY <1>5, <2>4, <2>8, <3>2, <3>3
  <2>11. PushWrote(r) = 1 /\ PushWrote(n) = 2 /\ PushTook(r) = 0 /\ PushTook(n) = 1
    BY <2>4, <2>5 DEF PushWrote, PushTook
  <2>12. Carries(r.fd, PushWrote(n), m)
    BY <2>11 DEF Carries
  <2>13. n.pc \in Online
    BY <2>5 DEF Online
  <2>14. Written(a, c, m) /\ Taken(a, c.s2c, r, n)
    BY <1>5, <2>4, <2>7, <2>9, <2>11 DEF IsConn, Written, Taken
  <2>15. PushWrote(n) = PushWrote(r) + 1 /\ PushWrote(r) \in Nat /\ push' = [push EXCEPT ![p] = n] /\ r.pc \in Online
    BY <1>5, <2>4, <2>11
  <2>16. IsPush(n) /\ PusherOK(n, dump.ver) /\ n.pc \in Online /\ n.conn = i /\ n.fd = r.fd /\ n.host = r.host
    BY <2>5, <2>6, <2>13
  <2> QED BY <1>2, <1>3, <1>4, <1>7, <2>10, <2>12, <2>14, <2>15, <2>16, Sends
<1>9. CASE SendSize(p)
  <2>1. PICK t : t = ApRdRep(r.ctx, ApplyAnswer(p))
    OBVIOUS
  <2>2. PICK s : s = ApMake(t.ctx, "safe", KRecords[r.fd], 1, 0)
    OBVIOUS
  <2>3. PICK n : n = [r EXCEPT !.pc = "xmit", !.ctx = InitIvector(s.ctx)]
    OBVIOUS
  <2>4. r.pc = "rep" /\ a.s2c # << >> /\ push' = [push EXCEPT ![p] = n] /\ kconn' = [Took(i) EXCEPT ![i].c2s = Append(@, s.out)]
    BY <1>2, <1>3, <1>4, <1>9, <2>1, <2>2, <2>3 DEF SendSize, PStep, Answer
  <2>5. Seals(r.ctx)
    BY <1>6, <2>4 DEF Seals
  <2>6. Seals(t.ctx)
    BY <2>1, <2>5, ApRdRepIs
  <2>7. Seals(s.ctx) /\ s.out.body = KRecords[r.fd]
    BY <2>2, <2>6, ApMakeIs
  <2>8. Seals(InitIvector(s.ctx))
    BY <2>7, InitIvectorIs
  <2>9. /\ IsPush(n) /\ n.pc = "xmit" /\ n.conn = i /\ n.fd = r.fd /\ n.host = r.host /\ n.todo = r.todo
        /\ n.ctx = InitIvector(s.ctx) /\ n.sent = r.sent
    BY <1>3, <1>5, <2>3 DEF IsPush
  <2>10. PusherOK(n, dump.ver)
    BY <1>5, <1>6, <2>8, <2>4, <2>9 DEF PusherOK, Seals, Online, Dumping
  <2>11. PICK z : z = Tail(a.s2c)
    OBVIOUS
  <2>12. PICK m : m = s.out
    OBVIOUS
  <2>13. PICK c : c = [a EXCEPT !.c2s = Append(a.c2s, m), !.s2c = z]
    OBVIOUS
  <2>14. kconn' = [kconn EXCEPT ![i] = c]
    <3>1. PICK b : b = [a EXCEPT !.s2c = z]
      OBVIOUS
    <3>2. Took(i) = [kconn EXCEPT ![i] = b] /\ b.c2s = a.c2s
      BY <1>4, <1>5, <2>11, <3>1 DEF Took, IsConn
    <3>3. c = [b EXCEPT !.c2s = Append(a.c2s, m)]
      BY <1>5, <2>13, <3>1 DEF IsConn
    <3> QED BY <1>5, <2>4, <2>12, <3>2, <3>3
  <2>15. PushWrote(r) = 2 /\ PushWrote(n) = 3 /\ PushTook(r) = 1 /\ PushTook(n) = 2
    BY <1>6, <2>4, <2>9 DEF PushWrote, PushTook
  <2>16. Carries(r.fd, PushWrote(n), m)
    BY <2>12, <2>15, <2>7 DEF Carries
  <2>17. n.pc \in Online
    BY <2>9 DEF Online
  <2>18. Written(a, c, m) /\ Taken(a, c.s2c, r, n)
    BY <1>5, <2>4, <2>11, <2>13, <2>15 DEF IsConn, Written, Taken
  <2>19. PushWrote(n) = PushWrote(r) + 1 /\ PushWrote(r) \in Nat /\ push' = [push EXCEPT ![p] = n] /\ r.pc \in Online
    BY <1>5, <2>4, <2>15
  <2>20. IsPush(n) /\ PusherOK(n, dump.ver) /\ n.pc \in Online /\ n.conn = i /\ n.fd = r.fd /\ n.host = r.host
    BY <2>9, <2>10, <2>17
  <2> QED BY <1>2, <1>3, <1>4, <1>7, <2>14, <2>16, <2>18, <2>19, <2>20, Sends
<1>10. CASE SendBlock(p)
  <2>1. PICK s : s = ApMake(r.ctx, "priv", Records(r.fd)[r.sent + 1], r.sent + 2, 0)
    OBVIOUS
  <2>2. PICK at : at = IF r.sent + 1 = KRecords[r.fd] THEN "ack" ELSE r.pc
    OBVIOUS
  <2>3. PICK n : n = [r EXCEPT !.sent = r.sent + 1, !.ctx = s.ctx, !.pc = at]
    OBVIOUS
  <2>4. r.pc = "xmit" /\ r.sent < KRecords[r.fd] /\ push' = [push EXCEPT ![p] = n] /\ kconn' = Wrote(i, s.out)
    BY <1>2, <1>3, <1>4, <1>10, <2>1, <2>2, <2>3 DEF SendBlock, PStep
  <2>5. Seals(r.ctx)
    BY <1>6, <2>4 DEF Seals
  <2>6. Records(r.fd)[r.sent + 1] = <<r.fd, r.sent + 1>>
    BY <1>6, <2>4 DEF Records
  <2>7. Seals(s.ctx) /\ s.out.body = <<r.fd, r.sent + 1>>
    BY <2>1, <2>5, <2>6, ApMakeIs
  <2>8. /\ IsPush(n) /\ n.pc = at /\ n.conn = i /\ n.fd = r.fd /\ n.host = r.host /\ n.todo = r.todo
        /\ n.ctx = s.ctx /\ n.sent = r.sent + 1 /\ at \in {"xmit", "ack"}
    BY <1>3, <1>5, <2>2, <2>3, <2>4 DEF IsPush
  <2>9. n.sent \in 0..KRecords[n.fd]
    BY <1>6, <2>4, <2>8
  <2>10. PusherOK(n, dump.ver)
    BY <1>5, <1>6, <2>7, <2>9, <2>8 DEF PusherOK, Seals, Online, Dumping
  <2>11. PICK z : z = a.s2c
    OBVIOUS
  <2>12. PICK m : m = s.out
    OBVIOUS
  <2>13. PICK c : c = [a EXCEPT !.c2s = Append(a.c2s, m), !.s2c = z]
    OBVIOUS
  <2>14. kconn' = [kconn EXCEPT ![i] = c]
    <3>1. c = [a EXCEPT !.c2s = Append(a.c2s, m)]
      BY <1>5, <2>11, <2>13 DEF IsConn
    <3> QED BY <1>4, <1>5, <2>4, <2>12, <3>1 DEF Wrote
  <2>15. PushWrote(r) = 3 + r.sent /\ PushWrote(n) = PushWrote(r) + 1 /\ PushWrote(r) \in Nat /\ PushTook(r) = PushTook(n) /\ PushWrote(n) = 4 + r.sent
    BY <1>6, <2>4, <2>8 DEF PushWrote, PushTook
  <2>16. Carries(r.fd, PushWrote(n), m)
    BY <1>6, <2>12, <2>15, <2>7 DEF Carries
  <2>17. n.pc \in Online
    BY <2>8 DEF Online
  <2>18. Written(a, c, m) /\ Taken(a, c.s2c, r, n)
    BY <1>5, <2>4, <2>11, <2>13, <2>15 DEF IsConn, Written, Taken
  <2>19. PushWrote(n) = PushWrote(r) + 1 /\ PushWrote(r) \in Nat /\ push' = [push EXCEPT ![p] = n] /\ r.pc \in Online
    BY <1>5, <2>4, <2>15
  <2>20. IsPush(n) /\ PusherOK(n, dump.ver) /\ n.pc \in Online /\ n.conn = i /\ n.fd = r.fd /\ n.host = r.host
    BY <2>8, <2>10, <2>17
  <2> QED BY <1>2, <1>3, <1>4, <1>7, <2>14, <2>16, <2>18, <2>19, <2>20, Sends
<1> QED BY <1>8, <1>9, <1>10

LEMMA ConnectKept ==
  ASSUME KParts, NEW p \in Pushers, Connect(p)
  PROVE  KParts'
<1>1. KShapes /\ PushersOK /\ ConnsOK /\ FilesOK /\ QueuesOK
  BY DEF KParts
<1>2. PICK r : r = push[p]
  OBVIOUS
<1>3. PICK x : x = ApNew({"seq"}, "kprop", NoAp, <<18>>)
  OBVIOUS
<1>4. PICK i \in KConns :
         /\ kconn[i].st = "free"
         /\ kconn' = [kconn EXCEPT ![i] =
              [FreeConn EXCEPT !.st = "used", !.host = r.host, !.open = TRUE,
                               !.c2s = <<"versions">>, !.hpc = "wait", !.ver = r.fd]]
         /\ kqueue' = [kqueue EXCEPT ![r.host] = Append(@, i)]
         /\ push' = [push EXCEPT ![p] = [r EXCEPT !.pc = "status", !.conn = i, !.sent = 0, !.ctx = x]]
  BY <1>2, <1>3 DEF Connect, PStep
<1>5. r.pc = "connect" /\ UNCHANGED <<kver, dump, names, inode, kdb>>
  BY <1>2 DEF Connect
<1>6. /\ IsPush(r) /\ r.fd \in Versions /\ r.host \in KHosts /\ r.todo \subseteq KHosts /\ dump.ver \in Versions
      /\ KRecords[r.fd] \in Nat \ {0} /\ i # NoConn
  <2>1. IsPush(r) /\ PusherOK(r, dump.ver)
    BY <1>1, <1>2 DEF KShapes, PushersOK
  <2>2. r.fd \in Versions /\ r.host \in KHosts /\ r.todo \subseteq KHosts /\ dump.ver \in Versions
    BY <1>5, <2>1 DEF PusherOK, Dumping
  <2>3. KRecords[r.fd] \in Nat \ {0}
    BY <2>2, KpropAssumption DEF Versions
  <2>4. i # NoConn
    BY KpropAssumption DEF NoConn
  <2> QED BY <2>1, <2>2, <2>3, <2>4
<1>7. IsContext(x) /\ x.laddr = "kprop"
  BY <1>3 DEF ApNew, IsContext
<1>8. PICK n : n = [r EXCEPT !.pc = "status", !.conn = i, !.sent = 0, !.ctx = x]
  OBVIOUS
<1>9. /\ IsPush(n) /\ n.pc = "status" /\ n.conn = i /\ n.sent = 0 /\ n.ctx = x /\ n.fd = r.fd /\ n.host = r.host
      /\ n.todo = r.todo
  BY <1>6, <1>8 DEF IsPush
<1>10. PusherOK(n, dump.ver) /\ n.pc \in Online
  BY <1>6, <1>7, <1>9 DEF PusherOK, Online, Dumping
<1>11. PICK c : c = [FreeConn EXCEPT !.st = "used", !.host = r.host, !.open = TRUE,
                               !.c2s = <<"versions">>, !.hpc = "wait", !.ver = r.fd]
  OBVIOUS
<1>12. /\ IsConn(c) /\ c.st = "used" /\ c.host = r.host /\ c.open = TRUE /\ c.c2s = <<"versions">> /\ c.s2c = << >>
       /\ c.hpc = "wait" /\ c.ver = r.fd
  BY <1>11 DEF FreeConn, IsConn
<1>13. kconn' = [kconn EXCEPT ![i] = c] /\ push' = [push EXCEPT ![p] = n]
  BY <1>4, <1>8, <1>11
<1>14. HandlerRead(c) = 0 /\ HandlerSaid(c) = 0 /\ PushWrote(n) = 1 /\ PushTook(n) = 0 /\ Len(c.c2s) = 1 /\ Len(c.s2c) = 0
       /\ IsSeq(c.c2s) /\ IsSeq(c.s2c)
  BY <1>9, <1>12, ShortIs DEF HandlerRead, HandlerSaid, PushWrote, PushTook
<1>15. ConnOK(c)
  <2>1. \A k \in 1..Len(c.c2s) : Carries(c.ver, HandlerRead(c) + k, c.c2s[k])
    BY <1>14 DEF Carries
  <2> QED BY <1>6, <1>12, <1>14, <2>1 DEF ConnOK, Reading
<1>16. PairOK(n, c)
  BY <1>9, <1>12, <1>14 DEF PairOK
<1>17. push'[p] = n /\ \A o \in Pushers : o # p => push'[o] = push[o]
  BY <1>1, <1>13 DEF KShapes
<1>18. \A o \in Pushers : push[o].conn # i
  <2>1. SUFFICES ASSUME NEW o \in Pushers, push[o].conn = i
                 PROVE  FALSE
    OBVIOUS
  <2>2. PairOK(push[o], kconn[i])
    BY <1>1, <1>6, <2>1 DEF PushersOK, PusherOK
  <2> QED BY <1>4, <2>2 DEF PairOK
<1>19. /\ push' = [o \in Pushers |-> push'[o]] /\ kqueue' = [h \in KHosts |-> kqueue'[h]]
       /\ names' = [h \in KHosts |-> names'[h]] /\ inode' = [h \in KHosts |-> inode'[h]] /\ kdb' = [h \in KHosts |-> kdb'[h]]
  BY <1>1, <1>4, <1>5, <1>13 DEF KShapes
<1>20. \A o \in Pushers : IsPush(push'[o]) /\ PusherOK(push'[o], dump.ver)
  BY <1>1, <1>9, <1>10, <1>17 DEF KShapes, PushersOK
<1>21. /\ \A o \in Pushers : push'[o].pc \in Online /\ push'[o].conn = i => PairOK(push'[o], c)
       /\ \A o \in Pushers : push'[o].pc \in Online /\ push'[o].conn # i => push'[o] = push[o]
  BY <1>9, <1>16, <1>17, <1>18
<1>22. \A o, g \in Pushers : push'[o].conn = push'[g].conn /\ push'[o].conn # NoConn => o = g
  BY <1>1, <1>9, <1>17, <1>18 DEF PushersOK
<1>23. ~IsHandler(c) /\ ~IsOrphan(c)
  BY <1>12 DEF IsHandler, IsOrphan
<1>24. FilesOK'
  BY <1>5, <1>13, <1>23, FilesStay
<1>25. QueuesOK'
  <2>1. kconn'[i] = c /\ \A j \in KConns : j # i => kconn'[j] = kconn[j]
    BY <1>1, <1>13 DEF KShapes
  <2>2. ASSUME NEW h \in KHosts \ HungHosts
        PROVE  QueueOK(h, kqueue[h])'
    <3>1. PICK s : s = kqueue[h]
      OBVIOUS
    <3>2. IsSeq(s) /\ \A k \in 1..Len(s) :
            /\ s[k] \in KConns /\ kconn[s[k]].st = "used" /\ kconn[s[k]].host = h /\ kconn[s[k]].hpc = "wait"
            /\ \A j \in 1..Len(s) : s[j] = s[k] => j = k
      BY <1>1, <3>1 DEF QueuesOK, QueueOK
    <3>3. \A k \in 1..Len(s) : s[k] # i /\ kconn'[s[k]] = kconn[s[k]]
      BY <1>4, <2>1, <3>2
    <3>4. CASE h # r.host
      <4>1. kqueue'[h] = s
        BY <1>1, <1>4, <3>1, <3>4 DEF KShapes
      <4> QED BY <3>2, <3>3, <4>1 DEF QueueOK
    <3>5. CASE h = r.host
      <4>1. PICK t : t = Append(s, i)
        OBVIOUS
      <4>2. kqueue'[h] = t
        BY <1>1, <1>4, <3>1, <3>5, <4>1 DEF KShapes
      <4>3. /\ IsSeq(t) /\ Len(s) \in Nat /\ Len(t) = Len(s) + 1
            /\ \A k \in 1..Len(s) : t[k] = s[k]
            /\ t[Len(s) + 1] = i
        BY <3>2, <4>1, AppendIs
      <4>4. ASSUME NEW k \in 1..Len(t)
            PROVE  /\ t[k] \in KConns /\ kconn'[t[k]].st = "used" /\ kconn'[t[k]].host = h /\ kconn'[t[k]].hpc = "wait"
                   /\ \A j \in 1..Len(t) : t[j] = t[k] => j = k
        <5>1. CASE k \in 1..Len(s)
          <6>1. t[k] = s[k] /\ s[k] # i
            BY <3>3, <4>3, <5>1
          <6>2. ASSUME NEW j \in 1..Len(t), t[j] = t[k]
                PROVE  j = k
            <7>1. j \in 1..Len(s)
              BY <4>3, <6>1, <6>2
            <7> QED BY <3>2, <4>3, <5>1, <6>1, <6>2, <7>1
          <6> QED BY <3>2, <3>3, <5>1, <6>1, <6>2
        <5>2. CASE k = Len(s) + 1
          <6>1. ASSUME NEW j \in 1..Len(t), t[j] = t[k]
                PROVE  j = k
            <7>1. CASE j \in 1..Len(s)
              BY <3>3, <4>3, <5>2, <6>1, <7>1
            <7>2. CASE j = Len(s) + 1
              BY <5>2, <7>2
            <7> QED BY <4>3, <7>1, <7>2
          <6> QED BY <1>12, <2>1, <3>5, <4>3, <5>2, <6>1
        <5> QED BY <4>3, <5>1, <5>2
      <4> QED BY <4>2, <4>3, <4>4 DEF QueueOK
    <3> QED BY <3>4, <3>5
  <2> QED BY <2>2 DEF QueuesOK
<1> QED BY <1>5, <1>12, <1>13, <1>15, <1>19, <1>20, <1>21, <1>22, <1>23, <1>24, <1>25, OneConn

LEMMA AcceptKept ==
  ASSUME KParts, NEW g \in KHosts, KAccept(g), kmode = "standalone"
  PROVE  KParts'
<1>1. KShapes /\ PushersOK /\ ConnsOK /\ FilesOK /\ QueuesOK
  BY DEF KParts
<1>2. PICK i, a, x : i = kqueue[g][1] /\ a = kconn[i] /\ x = ApNew({"seq"}, "kprop", NoAp, <<18>>)
  OBVIOUS
<1>3. /\ g \notin HungHosts /\ kqueue[g] # << >> /\ Handlers(g) = {}
      /\ kqueue' = [kqueue EXCEPT ![g] = Tail(@)]
      /\ kconn' = [kconn EXCEPT ![i].hpc = "versions", ![i].hctx = x]
      /\ UNCHANGED <<kver, dump, push, names, inode, kdb>>
  BY <1>2 DEF KAccept
<1>4. PICK s : s = kqueue[g]
  OBVIOUS
<1>5. IsSeq(s) /\ \A k \in 1..Len(s) :
            /\ s[k] \in KConns /\ kconn[s[k]].st = "used" /\ kconn[s[k]].host = g /\ kconn[s[k]].hpc = "wait"
            /\ \A j \in 1..Len(s) : s[j] = s[k] => j = k
  BY <1>1, <1>3, <1>4 DEF QueuesOK, QueueOK
<1>6. PICK t : t = Tail(s)
  OBVIOUS
<1>7. /\ IsSeq(t) /\ Len(s) \in Nat /\ Len(s) >= 1 /\ Len(t) = Len(s) - 1
      /\ \A k \in 1..Len(t) : t[k] = s[k + 1]
  BY <1>3, <1>4, <1>5, <1>6, TailIs
<1>8. i = s[1] /\ i \in KConns /\ a.st = "used" /\ a.host = g /\ a.hpc = "wait" /\ IsConn(a) /\ ConnOK(a)
  <2>1. i = s[1] /\ 1 \in 1..Len(s)
    BY <1>2, <1>4, <1>7
  <2>2. i \in KConns /\ a.st = "used" /\ a.host = g /\ a.hpc = "wait"
    BY <1>2, <1>5, <2>1
  <2> QED BY <1>1, <1>2, <2>1, <2>2 DEF KShapes, ConnsOK
<1>9. PICK c : c = [a EXCEPT !.hpc = "versions", !.hctx = x]
  OBVIOUS
<1>10. kconn' = [kconn EXCEPT ![i] = c]
  BY <1>1, <1>2, <1>3, <1>8, <1>9 DEF KShapes, IsConn
<1>11. /\ IsConn(c) /\ c.st = "used" /\ c.host = g /\ c.hpc = "versions" /\ c.c2s = a.c2s /\ c.s2c = a.s2c /\ c.ver = a.ver
       /\ c.open = a.open /\ c.loaded = a.loaded
  BY <1>8, <1>9 DEF IsConn
<1>12. HandlerRead(c) = 0 /\ HandlerRead(a) = 0 /\ HandlerSaid(c) = 0 /\ HandlerSaid(a) = 0 /\ "versions" \in Reading /\ "wait" \in Reading
  BY <1>8, <1>11 DEF HandlerRead, HandlerSaid, Reading
<1>13. ConnOK(c)
  BY <1>3, <1>8, <1>11, <1>12 DEF ConnOK
<1>14. \A o \in Pushers : push[o].pc \in Online /\ push[o].conn = i => PairOK(push[o], c)
  <2>1. SUFFICES ASSUME NEW o \in Pushers, push[o].pc \in Online, push[o].conn = i
                 PROVE  PairOK(push[o], c)
    OBVIOUS
  <2>2. PairOK(push[o], a)
    BY <1>1, <1>2, <2>1 DEF PushersOK
  <2> QED BY <1>8, <1>11, <1>12, <2>2 DEF PairOK
<1>15. /\ push' = [o \in Pushers |-> push'[o]] /\ kqueue' = [h \in KHosts |-> kqueue'[h]]
       /\ names' = [h \in KHosts |-> names'[h]] /\ inode' = [h \in KHosts |-> inode'[h]] /\ kdb' = [h \in KHosts |-> kdb'[h]]
  BY <1>1, <1>3 DEF KShapes
<1>16. /\ \A o \in Pushers : IsPush(push'[o]) /\ PusherOK(push'[o], dump.ver)
       /\ \A o \in Pushers : push'[o].pc \in Online /\ push'[o].conn = i => PairOK(push'[o], c)
       /\ \A o \in Pushers : push'[o].pc \in Online /\ push'[o].conn # i => push'[o] = push[o]
       /\ \A o, u \in Pushers : push'[o].conn = push'[u].conn /\ push'[o].conn # NoConn => o = u
  BY <1>1, <1>3, <1>14 DEF KShapes, PushersOK
<1>17. \A j \in KConns : j # i /\ IsHandler(kconn[j]) /\ IsHandler(c) => kconn[j].host # c.host
  BY <1>3, <1>11 DEF Handlers, IsHandler
<1>18. FilesOK'
  <2>1. FileOK(c, names[c.host], inode[c.host])
    BY <1>11 DEF FileOK
  <2>2. ~IsOrphan(c)
    BY <1>11 DEF IsOrphan
  <2> QED BY <1>3, <1>8, <1>10, <2>1, <2>2, FilesStay
<1>19. QueuesOK'
  <2>1. kconn'[i] = c /\ \A j \in KConns : j # i => kconn'[j] = kconn[j]
    BY <1>1, <1>8, <1>10 DEF KShapes
  <2>2. ASSUME NEW h \in KHosts \ HungHosts
        PROVE  QueueOK(h, kqueue[h])'
    <3>1. CASE h = g
      <4>1. kqueue'[h] = t
        BY <1>1, <1>3, <1>4, <1>6, <3>1 DEF KShapes
      <4>2. ASSUME NEW k \in 1..Len(t)
            PROVE  /\ t[k] \in KConns /\ kconn'[t[k]].st = "used" /\ kconn'[t[k]].host = h /\ kconn'[t[k]].hpc = "wait"
                   /\ \A j \in 1..Len(t) : t[j] = t[k] => j = k
        <5>1. k + 1 \in 1..Len(s) /\ t[k] = s[k + 1] /\ 1 \in 1..Len(s) /\ k + 1 # 1 /\ k \in Nat
          BY <1>7
        <5>2. t[k] # i /\ t[k] \in KConns
          BY <1>5, <1>8, <5>1
        <5>3. ASSUME NEW j \in 1..Len(t), t[j] = t[k]
              PROVE  j = k
          <6>1. j + 1 \in 1..Len(s) /\ s[j + 1] = s[k + 1] /\ j \in Nat
            BY <1>7, <5>1, <5>3
          <6>2. j + 1 = k + 1
            BY <1>5, <5>1, <6>1
          <6> QED BY <5>1, <6>1, <6>2
        <5> QED BY <1>5, <2>1, <3>1, <5>1, <5>2, <5>3
      <4> QED BY <1>7, <4>1, <4>2 DEF QueueOK
    <3>2. CASE h # g
      <4>1. kqueue'[h] = kqueue[h]
        BY <1>1, <1>3, <3>2 DEF KShapes
      <4>2. PICK y : y = kqueue[h]
        OBVIOUS
      <4>3. IsSeq(y) /\ \A k \in 1..Len(y) :
            /\ y[k] \in KConns /\ kconn[y[k]].st = "used" /\ kconn[y[k]].host = h /\ kconn[y[k]].hpc = "wait"
            /\ \A j \in 1..Len(y) : y[j] = y[k] => j = k
        BY <1>1, <4>2 DEF QueuesOK, QueueOK
      <4>4. \A k \in 1..Len(y) : y[k] # i /\ kconn'[y[k]] = kconn[y[k]]
        BY <1>2, <1>8, <2>1, <3>2, <4>3
      <4>5. kqueue'[h] = y
        BY <4>1, <4>2
      <4> QED BY <4>3, <4>4, <4>5 DEF QueueOK
    <3> QED BY <3>1, <3>2
  <2> QED BY <2>2 DEF QueuesOK
<1> QED BY <1>3, <1>8, <1>10, <1>11, <1>13, <1>15, <1>16, <1>17, <1>18, <1>19, OneConn

\* A handler goes on: its connection changes, and nothing but its own host's
\* files.
LEMMA HandlerGoes ==
  ASSUME KParts, NEW i \in KConns, NEW a, a = kconn[i], IsHandler(a), NEW c, IsConn(c), ConnOK(c),
         kconn' = [kconn EXCEPT ![i] = c], IsHandler(c) => c.host = a.host,
         \A o \in Pushers : push[o].pc \in Online /\ PairOK(push[o], a) => PairOK(push[o], c),
         names' = [h \in KHosts |-> names'[h]], inode' = [h \in KHosts |-> inode'[h]], kdb' = [h \in KHosts |-> kdb'[h]],
         \A h \in KHosts : h # a.host => names'[h] = names[h] /\ inode'[h] = inode[h] /\ kdb'[h] = kdb[h],
         HostOK(names'[a.host], inode'[a.host], kdb'[a.host]),
         IsHandler(c) => FileOK(c, names'[a.host], inode'[a.host]), ~IsOrphan(c),
         \A j \in KConns : IsOrphan(kconn[j]) /\ kconn[j].host = a.host => OrphanOK(kconn[j], names'[a.host], inode'[a.host]),
         UNCHANGED <<kver, dump, push, kqueue>>
  PROVE  KParts'
<1>1. KShapes /\ PushersOK /\ ConnsOK /\ FilesOK /\ QueuesOK
  BY DEF KParts
<1>2. a.host \in KHosts /\ a.hpc \notin {"wait", "end", "orphan"}
  BY <1>1 DEF ConnsOK, ConnOK, IsHandler
<1>3. \A j \in KConns : j # i /\ IsHandler(kconn[j]) => kconn[j].host # a.host
  BY <1>1 DEF ConnsOK
<1>4. \A j \in KConns : j # i /\ IsHandler(kconn[j]) /\ IsHandler(c) => kconn[j].host # c.host
  BY <1>3
<1>5. push' = [o \in Pushers |-> push'[o]] /\ kqueue' = [h \in KHosts |-> kqueue'[h]]
  BY <1>1 DEF KShapes
<1>6. /\ \A o \in Pushers : IsPush(push'[o]) /\ PusherOK(push'[o], dump.ver)
      /\ \A o \in Pushers : push'[o].pc \in Online /\ push'[o].conn = i => PairOK(push'[o], c)
      /\ \A o \in Pushers : push'[o].pc \in Online /\ push'[o].conn # i => push'[o] = push[o]
      /\ \A o, u \in Pushers : push'[o].conn = push'[u].conn /\ push'[o].conn # NoConn => o = u
  BY <1>1 DEF KShapes, PushersOK
<1>7. kconn'[i] = c /\ \A j \in KConns : j # i => kconn'[j] = kconn[j]
  BY <1>1 DEF KShapes
<1>8. FilesOK'
  <2>1. ASSUME NEW h \in KHosts
        PROVE  HostOK(names'[h], inode'[h], kdb'[h])
    <3>1. HostOK(names[h], inode[h], kdb[h])
      BY <1>1 DEF FilesOK
    <3> QED BY <3>1
  <2>2. ASSUME NEW j \in KConns, IsHandler(kconn'[j])
        PROVE  FileOK(kconn'[j], names'[kconn'[j].host], inode'[kconn'[j].host])
    <3>1. CASE j = i
      BY <1>7, <2>2, <3>1
    <3>2. CASE j # i
      <4>1. kconn'[j] = kconn[j] /\ IsHandler(kconn[j]) /\ kconn[j].host \in KHosts /\ kconn[j].host # a.host
        BY <1>1, <1>3, <1>7, <2>2, <3>2 DEF ConnsOK, ConnOK, IsHandler
      <4>2. FileOK(kconn[j], names[kconn[j].host], inode[kconn[j].host])
        BY <1>1, <4>1 DEF FilesOK
      <4> QED BY <4>1, <4>2
    <3> QED BY <3>1, <3>2
  <2>3. (\A h \in KHosts : HostOK(names[h], inode[h], kdb[h]))'
    BY <2>1 DEF HostOK
  <2>4. (\A j \in KConns : IsHandler(kconn[j]) => FileOK(kconn[j], names[kconn[j].host], inode[kconn[j].host]))'
    BY <2>2 DEF IsHandler, FileOK
  <2>5. ASSUME NEW j \in KConns, IsOrphan(kconn'[j])
        PROVE  OrphanOK(kconn'[j], names'[kconn'[j].host], inode'[kconn'[j].host])
    <3>1. j # i /\ kconn'[j] = kconn[j] /\ IsOrphan(kconn[j]) /\ kconn[j].host \in KHosts
      BY <1>1, <1>7, <2>5 DEF ConnsOK, ConnOK, IsOrphan
    <3>2. OrphanOK(kconn[j], names[kconn[j].host], inode[kconn[j].host])
      BY <1>1, <3>1 DEF FilesOK
    <3> QED BY <3>1, <3>2
  <2>6. (\A j \in KConns : IsOrphan(kconn[j]) => OrphanOK(kconn[j], names[kconn[j].host], inode[kconn[j].host]))'
    BY <2>5 DEF IsOrphan, OrphanOK, Whole
  <2> QED BY <2>3, <2>4, <2>6 DEF FilesOK
<1>9. QueuesOK'
  BY <1>2, QueuesStay
<1> QED BY <1>4, <1>5, <1>6, <1>8, <1>9, OneConn

\* The step of a handler or of a load without one that leaves the files alone.
LEMMA ConnGoes ==
  ASSUME KParts, NEW i \in KConns, NEW a, a = kconn[i], IsHandler(a) \/ IsOrphan(a), NEW c, IsConn(c), ConnOK(c),
         kconn' = [kconn EXCEPT ![i] = c], IsHandler(c) => IsHandler(a) /\ c.host = a.host,
         \A r : PairOK(r, a) => PairOK(r, c),
         IsHandler(c) => FileOK(c, names[a.host], inode[a.host]),
         IsOrphan(c) => c.host = a.host /\ OrphanOK(c, names[a.host], inode[a.host]),
         UNCHANGED <<kver, dump, push, kqueue, names, inode, kdb>>
  PROVE  KParts'
<1>1. KShapes /\ PushersOK /\ ConnsOK /\ FilesOK /\ QueuesOK
  BY DEF KParts
<1>2. a.hpc # "wait"
  BY DEF IsHandler, IsOrphan
<1>3. \A j \in KConns : j # i /\ IsHandler(kconn[j]) /\ IsHandler(c) => kconn[j].host # c.host
  BY <1>1 DEF ConnsOK
<1>4. /\ push' = [o \in Pushers |-> push'[o]] /\ kqueue' = [h \in KHosts |-> kqueue'[h]]
      /\ names' = [h \in KHosts |-> names'[h]] /\ inode' = [h \in KHosts |-> inode'[h]] /\ kdb' = [h \in KHosts |-> kdb'[h]]
  BY <1>1 DEF KShapes
<1>5. /\ \A o \in Pushers : IsPush(push'[o]) /\ PusherOK(push'[o], dump.ver)
      /\ \A o \in Pushers : push'[o].pc \in Online /\ push'[o].conn = i => PairOK(push'[o], c)
      /\ \A o \in Pushers : push'[o].pc \in Online /\ push'[o].conn # i => push'[o] = push[o]
      /\ \A o, u \in Pushers : push'[o].conn = push'[u].conn /\ push'[o].conn # NoConn => o = u
  BY <1>1 DEF KShapes, PushersOK
<1>6. FilesOK'
  BY FilesStay
<1>7. QueuesOK'
  BY <1>2, QueuesStay
<1> QED BY <1>3, <1>4, <1>5, <1>6, <1>7, OneConn

\* The end of a handler or a load, with or without anyone to hear of it.
LEMMA EndIs ==
  ASSUME NEW a, IsConn(a), ConnOK(a), IsHandler(a) \/ IsOrphan(a), NEW e, e = KEnded(a) \/ e = KEnded([a EXCEPT !.hpc = "end"])
  PROVE  /\ IsConn(e) /\ ConnOK(e) /\ ~IsHandler(e) /\ ~IsOrphan(e)
         /\ \A r : PairOK(r, a) => PairOK(r, e)
<1>1. PICK b : b \in {a, [a EXCEPT !.hpc = "end"]} /\ e = KEnded(b)
  OBVIOUS
<1>2. /\ IsConn(b) /\ b.st = a.st /\ b.host = a.host /\ b.open = a.open /\ b.s2c = a.s2c
      /\ b.ver = a.ver /\ b.loaded = a.loaded
  BY <1>1 DEF IsConn
<1>3. CASE ~a.open
  <2>1. e = FreeConn /\ a.open # TRUE
    BY <1>1, <1>2, <1>3 DEF KEnded
  <2>2. IsConn(e) /\ ConnOK(e) /\ ~IsHandler(e) /\ ~IsOrphan(e)
    BY <2>1 DEF FreeConn, IsConn, ConnOK, IsHandler, IsOrphan
  <2>3. \A r : ~PairOK(r, a)
    BY <2>1 DEF PairOK
  <2> QED BY <2>2, <2>3
<1>4. CASE a.open
  <2>1. e = [b EXCEPT !.hpc = "end", !.c2s = << >>, !.hctx = NoAp, !.out = 0, !.lock = 0]
    BY <1>1, <1>2, <1>4 DEF KEnded
  <2>2. /\ IsConn(e) /\ e.hpc = "end" /\ e.st = a.st /\ e.host = a.host /\ e.open = a.open /\ e.s2c = a.s2c
        /\ e.ver = a.ver /\ e.loaded = a.loaded /\ e.c2s = << >>
    BY <1>2, <2>1 DEF IsConn
  <2>3. ConnOK(e)
    BY <2>2, ShortIs DEF ConnOK, IsHandler, IsOrphan, Reading, Entered
  <2>4. ~IsHandler(e) /\ ~IsOrphan(e)
    BY <2>2 DEF IsHandler, IsOrphan
  <2>5. ASSUME NEW r, PairOK(r, a)
        PROVE  PairOK(r, e)
    <3>1. Len(a.s2c) + PushTook(r) <= 2
      <4>1. CASE IsHandler(a)
        <5>1. HandlerSaid(a) = Len(a.s2c) + PushTook(r) /\ HandlerSaid(a) \in 0..2
          BY <2>5, <4>1, SaidIs DEF PairOK, IsHandler
        <5> QED BY <5>1
      <4>2. CASE IsOrphan(a)
        <5>1. Len(a.s2c) = 0 /\ PushTook(r) \in 0..2
          BY <2>5, <4>2, ShortIs DEF PairOK, IsOrphan, PushTook
        <5> QED BY <5>1
      <4> QED BY <4>1, <4>2
    <3> QED BY <2>2, <2>5, <3>1 DEF PairOK, Reading, Entered
  <2> QED BY <2>2, <2>3, <2>4, <2>5
<1> QED BY <1>3, <1>4

LEMMA EndKept ==
  ASSUME KParts, NEW i \in KConns, IsHandler(kconn[i]) \/ IsOrphan(kconn[i]), Handled(i, [kconn[i] EXCEPT !.hpc = "end"]),
         UNCHANGED <<kver, dump, push, kqueue, names, inode, kdb>>
  PROVE  KParts'
<1>1. KShapes /\ ConnsOK /\ FilesOK
  BY DEF KParts
<1>2. PICK a : a = kconn[i]
  OBVIOUS
<1>3. PICK e : e = KEnded([a EXCEPT !.hpc = "end"])
  OBVIOUS
<1>4. IsConn(a) /\ ConnOK(a) /\ (IsHandler(a) \/ IsOrphan(a))
  BY <1>1, <1>2 DEF KShapes, ConnsOK
<1>5. kconn' = [kconn EXCEPT ![i] = e]
  <2>1. PICK b : b = [a EXCEPT !.hpc = "end"]
    OBVIOUS
  <2>2. b.hpc = "end"
    BY <1>4, <2>1 DEF IsConn
  <2> QED BY <1>2, <1>3, <2>1, <2>2 DEF Handled
<1>6. /\ IsConn(e) /\ ConnOK(e) /\ ~IsHandler(e) /\ ~IsOrphan(e)
      /\ \A r : PairOK(r, a) => PairOK(r, e)
  BY <1>3, <1>4, EndIs
<1> QED BY <1>2, <1>4, <1>5, <1>6, ConnGoes

HasSaid(x, c) ==
  /\ IsConn(c) /\ c.st = x.st /\ c.host = x.host /\ c.open = x.open /\ c.c2s = x.c2s /\ c.hpc = x.hpc
  /\ c.size = x.size /\ c.out = x.out /\ c.at = x.at /\ c.ver = x.ver /\ c.loaded = x.loaded
  /\ IsSeq(c.s2c) /\ (x.open = TRUE => Len(c.s2c) = Len(x.s2c) + 1)

LEMMA SaysIs ==
  ASSUME NEW x, IsConn(x), IsSeq(x.s2c), NEW m
  PROVE  HasSaid(x, Said(x, m))
<1>1. PICK c : c = Said(x, m)
  OBVIOUS
<1>2. CASE x.open
  <2>1. PICK y : y = Append(x.s2c, m)
    OBVIOUS
  <2>2. c = [x EXCEPT !.s2c = y]
    BY <1>1, <1>2, <2>1 DEF Said
  <2>3. IsSeq(y) /\ Len(y) = Len(x.s2c) + 1
    BY <2>1, AppendIs
  <2> QED BY <1>1, <2>2, <2>3 DEF IsConn, HasSaid
<1>3. CASE ~x.open
  <2>1. c = x /\ x.open # TRUE
    BY <1>1, <1>3 DEF Said
  <2> QED BY <1>1, <2>1 DEF HasSaid
<1> QED BY <1>2, <1>3

\* A handler that has read its next message.
LEMMA HandlerTakes ==
  ASSUME NEW a, IsConn(a), ConnOK(a), IsHandler(a), a.hpc \in Reading, a.c2s # << >>,
         NEW c, IsConn(c), c.st = a.st, c.host = a.host, c.open = a.open, c.ver = a.ver, c.c2s = Tail(a.c2s),
         c.hpc \in Reading \ {"wait"}, HandlerRead(c) = HandlerRead(a) + 1,
         IsSeq(c.s2c), a.open = TRUE => Len(c.s2c) = Len(a.s2c) + (HandlerSaid(c) - HandlerSaid(a)),
         c.hpc = "recv" => c.size = KRecords[c.ver] /\ c.at \in 0..c.size
  PROVE  ConnOK(c) /\ \A r : PairOK(r, a) => PairOK(r, c)
<1>1. /\ a.host \in KHosts /\ a.ver \in Versions /\ IsSeq(a.c2s) /\ IsSeq(a.s2c) /\ a.host \notin HungHosts /\ a.st = "used"
      /\ \A k \in 1..Len(a.c2s) : Carries(a.ver, HandlerRead(a) + k, a.c2s[k])
  BY DEF ConnOK, IsHandler
<1>2. PICK s, t : s = a.c2s /\ t = c.c2s
  OBVIOUS
<1>3. IsSeq(t) /\ Len(s) \in Nat /\ Len(s) >= 1 /\ Len(t) = Len(s) - 1 /\ \A k \in 1..Len(t) : t[k] = s[k + 1]
  BY <1>1, <1>2, TailIs
<1>4. HandlerRead(a) \in Nat
  BY <1>1, ReadIs
<1>5. ConnOK(c)
  <2>1. ASSUME NEW k \in 1..Len(t)
        PROVE  Carries(c.ver, HandlerRead(c) + k, t[k])
    <3>1. k + 1 \in 1..Len(s) /\ HandlerRead(c) + k = HandlerRead(a) + (k + 1)
      BY <1>3, <1>4
    <3> QED BY <1>1, <1>2, <1>3, <3>1
  <2>2. c.hpc \notin {"load", "orphan", "end"}
    BY DEF Reading, Entered
  <2>3. c.hpc \in Reading
    OBVIOUS
  <2> QED BY <1>1, <1>2, <1>3, <2>1, <2>2, <2>3 DEF ConnOK
<1>6. ASSUME NEW r, PairOK(r, a)
      PROVE  PairOK(r, c)
  <2>1. /\ a.open = TRUE /\ a.ver = r.fd /\ a.host = r.host /\ HandlerRead(a) + Len(s) = PushWrote(r)
        /\ HandlerSaid(a) = Len(a.s2c) + PushTook(r)
    BY <1>2, <1>6 DEF PairOK, IsHandler
  <2>2. HandlerRead(c) + Len(t) = PushWrote(r)
    BY <1>3, <1>4, <2>1
  <2>3. Len(a.s2c) \in Nat /\ HandlerSaid(c) \in 0..2 /\ HandlerSaid(a) \in 0..2 /\ PushTook(r) \in 0..2
    BY <1>1, SeqIs, SaidIs DEF PushTook
  <2>4. HandlerSaid(c) = Len(c.s2c) + PushTook(r)
    BY <2>1, <2>3
  <2>5. c.hpc \notin {"end", "orphan"}
    BY DEF Reading, Entered
  <2> QED BY <1>1, <1>2, <2>1, <2>2, <2>4, <2>5 DEF PairOK
<1> QED BY <1>5, <1>6

LEMMA AuthKept ==
  ASSUME KParts, NEW i \in KConns, RecvVersions(i) \/ RecvAuth(i) \/ RecvReplay(i)
  PROVE  KParts'
<1>1. KShapes /\ ConnsOK
  BY DEF KParts
<1>2. PICK a : a = kconn[i]
  OBVIOUS
<1>3. UNCHANGED <<kver, dump, push, kqueue, names, inode, kdb>> /\ a.st = "used" /\ a.hpc \in {"versions", "auth"} /\ a.c2s # << >>
  BY <1>2 DEF RecvVersions, RecvAuth, RecvReplay, Reads
<1>4. IsConn(a) /\ ConnOK(a) /\ IsHandler(a) /\ a.hpc \in Reading /\ IsSeq(a.s2c) /\ Len(a.s2c) \in Nat
  BY <1>1, <1>2, <1>3, SeqIs DEF KShapes, ConnsOK, ConnOK, IsHandler, Reading
<1>5. ASSUME NEW hpc \in {"auth", "lock"}, a.hpc = IF hpc = "auth" THEN "versions" ELSE "auth", NEW ctx, NEW m,
             NEW x, x = [a EXCEPT !.hpc = hpc, !.c2s = Tail(a.c2s), !.hctx = ctx], Handled(i, Said(x, m))
      PROVE  KParts'
  <2>1. PICK c : c = Said(x, m)
    OBVIOUS
  <2>2. /\ IsConn(x) /\ x.st = a.st /\ x.host = a.host /\ x.open = a.open /\ x.ver = a.ver /\ x.c2s = Tail(a.c2s) /\ x.hpc = hpc
        /\ x.s2c = a.s2c
    BY <1>4, <1>5 DEF IsConn
  <2>3. /\ IsConn(c) /\ c.st = x.st /\ c.host = x.host /\ c.open = x.open /\ c.c2s = x.c2s /\ c.hpc = x.hpc /\ c.ver = x.ver
        /\ IsSeq(c.s2c) /\ (x.open = TRUE => Len(c.s2c) = Len(x.s2c) + 1)
    <3>1. IsConn(x) /\ IsSeq(x.s2c)
      BY <1>4, <2>2
    <3>2. HasSaid(x, c)
      BY <2>1, <3>1, SaysIs
    <3> QED BY <3>2 DEF HasSaid
  <2>4. kconn' = [kconn EXCEPT ![i] = c]
    BY <1>5, <2>1, <2>2, <2>3 DEF Handled
  <2>5. HandlerRead(c) = HandlerRead(a) + 1 /\ HandlerSaid(c) - HandlerSaid(a) = 1
    BY <1>5, <2>2, <2>3 DEF HandlerRead, HandlerSaid, Entered
  <2>6. c.hpc \in Reading \ {"wait"} /\ c.hpc # "recv"
    BY <2>2, <2>3 DEF Reading, Entered
  <2>7. a.open = TRUE => Len(c.s2c) = Len(a.s2c) + (HandlerSaid(c) - HandlerSaid(a))
    BY <2>2, <2>3, <2>5
  <2>8. c.st = a.st /\ c.host = a.host /\ c.open = a.open /\ c.ver = a.ver /\ c.c2s = Tail(a.c2s)
    BY <2>2, <2>3
  <2>9. ConnOK(c) /\ \A r : PairOK(r, a) => PairOK(r, c)
    BY <1>3, <1>4, <2>3, <2>5, <2>6, <2>7, <2>8, HandlerTakes
  <2>10. FileOK(c, names[a.host], inode[a.host]) /\ ~IsOrphan(c)
    BY <2>2, <2>3 DEF FileOK, IsOrphan
  <2> QED BY <1>2, <1>3, <1>4, <2>3, <2>4, <2>8, <2>9, <2>10, ConnGoes
<1>6. CASE RecvVersions(i)
  <2>1. PICK x : x = [a EXCEPT !.hpc = "auth", !.c2s = Tail(a.c2s)]
    OBVIOUS
  <2>2. x = [a EXCEPT !.hpc = "auth", !.c2s = Tail(a.c2s), !.hctx = a.hctx]
    BY <1>4, <2>1 DEF IsConn
  <2>3. Handled(i, Said(x, "status")) /\ a.hpc = "versions"
    BY <1>2, <1>6, <2>1 DEF RecvVersions, Reads
  <2> QED BY <1>5, <2>2, <2>3
<1>7. CASE RecvReplay(i)
  <2>1. Handled(i, [kconn[i] EXCEPT !.hpc = "end"])
    BY <1>7 DEF RecvReplay
  <2> QED BY <1>2, <1>3, <1>4, <2>1, EndKept
<1>8. CASE RecvAuth(i)
  <2>1. PICK r, t : Handled(i, IF r.ok THEN Said([a EXCEPT !.hpc = "lock", !.c2s = Tail(a.c2s), !.hctx = t.ctx], t.out)
                               ELSE [a EXCEPT !.hpc = "end"])
    BY <1>2, <1>8 DEF RecvAuth
  <2>2. CASE r.ok
    <3>1. PICK x : x = [a EXCEPT !.hpc = "lock", !.c2s = Tail(a.c2s), !.hctx = t.ctx]
      OBVIOUS
    <3>2. Handled(i, Said(x, t.out)) /\ a.hpc = "auth"
      BY <1>2, <1>8, <2>1, <2>2, <3>1 DEF RecvAuth, Reads
    <3> QED BY <1>5, <3>1, <3>2
  <2>3. CASE ~r.ok
    <3>1. Handled(i, [kconn[i] EXCEPT !.hpc = "end"])
      BY <1>2, <2>1, <2>3
    <3> QED BY <1>2, <1>3, <1>4, <3>1, EndKept
  <2> QED BY <2>2, <2>3
<1> QED BY <1>6, <1>7, <1>8

\* What open(temp) gives: the file of that name, or a fresh one.
LEMMA OpenedIs ==
  ASSUME KParts, NEW h \in KHosts, NEW n \in Opened(h)
  PROVE  /\ n \in KInodes /\ n # 0 /\ n # names[h].file
         /\ \A j \in KConns : IsOrphan(kconn[j]) /\ kconn[j].host = h => kconn[j].out # n
         /\ \A base : HostOK(names[h], inode[h], base) => HostOK([temp |-> n, file |-> names[h].file], inode[h], base)
<1>1. HostOK(names[h], inode[h], kdb[h])
  BY DEF KParts, FilesOK
<1>2. n \in KInodes /\ n # names[h].file
  <2>1. CASE names[h].temp # 0
    BY <1>1, <2>1 DEF Opened, HostOK
  <2>2. CASE names[h].temp = 0
    BY <2>2 DEF Opened, Unused
  <2> QED BY <2>1, <2>2
<1>3. n # 0
  BY <1>2, KpropAssumption
<1>4. ASSUME NEW j \in KConns, IsOrphan(kconn[j]), kconn[j].host = h
      PROVE  kconn[j].out # n
  <2>1. CASE names[h].temp # 0
    <3>1. OrphanOK(kconn[j], names[h], inode[h])
      BY <1>4 DEF KParts, FilesOK
    <3>2. n = names[h].temp
      BY <2>1 DEF Opened
    <3> QED BY <1>3, <3>1, <3>2 DEF OrphanOK
  <2>2. CASE names[h].temp = 0
    <3>1. n \in Unused(h) /\ j \in Orphans(h)
      BY <1>4, <2>2 DEF Opened, Orphans, IsOrphan
    <3> QED BY <3>1 DEF Unused
  <2> QED BY <2>1, <2>2
<1> QED BY <1>1, <1>2, <1>3, <1>4 DEF HostOK

\* A file that is opened or written under the temporary name is none that a load
\* reads.
LEMMA TempApart ==
  ASSUME KParts, NEW h \in KHosts, NEW n, NEW nm, NEW fs, nm.file = names[h].file, nm.temp = n,
         \A m \in KInodes : m # n => fs[m] = inode[h][m],
         \A j \in KConns : IsOrphan(kconn[j]) /\ kconn[j].host = h => kconn[j].out = 0 \/ kconn[j].out # n
  PROVE  \A j \in KConns : IsOrphan(kconn[j]) /\ kconn[j].host = h => OrphanOK(kconn[j], nm, fs)
<1>1. SUFFICES ASSUME NEW j \in KConns, IsOrphan(kconn[j]), kconn[j].host = h
               PROVE  OrphanOK(kconn[j], nm, fs)
  OBVIOUS
<1>2. OrphanOK(kconn[j], names[h], inode[h])
  BY <1>1 DEF KParts, FilesOK
<1> QED BY <1>1, <1>2 DEF OrphanOK

LEMMA TempKept ==
  ASSUME KParts, NEW i \in KConns, OpenTemp(i) \/ LockTemp(i)
  PROVE  KParts'
<1>1. KShapes /\ ConnsOK /\ FilesOK
  BY DEF KParts
<1>2. PICK a, g : a = kconn[i] /\ g = kconn[i].host
  OBVIOUS
<1>3. UNCHANGED <<kver, dump, push, kqueue, kdb>> /\ a.st = "used" /\ a.hpc \in {"lock", "locking"}
  BY <1>2 DEF OpenTemp, LockTemp
<1>4. IsConn(a) /\ ConnOK(a) /\ IsHandler(a) /\ a.hpc \in Entered /\ g = a.host /\ g \in KHosts /\ HostOK(names[g], inode[g], kdb[g])
  BY <1>1, <1>2, <1>3 DEF KShapes, ConnsOK, FilesOK, ConnOK, IsHandler, Entered
<1>5. ASSUME NEW c, IsConn(c), c.st = a.st, c.host = a.host, c.open = a.open, c.ver = a.ver, c.c2s = a.c2s, c.s2c = a.s2c,
             c.loaded = a.loaded, c.hpc \in Entered
      PROVE  ConnOK(c) /\ \A r : PairOK(r, a) => PairOK(r, c)
  <2>1. HandlerRead(c) = HandlerRead(a) /\ HandlerSaid(c) = HandlerSaid(a) /\ c.hpc \in Reading /\ a.hpc \in Reading
    BY <1>4, <1>5 DEF HandlerRead, HandlerSaid, Entered, Reading
  <2>2. c.hpc \notin {"recv", "load", "orphan", "end", "wait"} /\ a.host \notin HungHosts
    BY <1>4, <1>5 DEF Entered, ConnOK, IsHandler
  <2>3. ConnOK(c)
    BY <1>4, <1>5, <2>1, <2>2 DEF ConnOK, IsHandler
  <2>4. a.hpc \notin {"end", "orphan"}
    BY <1>4 DEF IsHandler
  <2> QED BY <1>5, <2>1, <2>2, <2>3, <2>4 DEF PairOK
<1>6. CASE OpenTemp(i)
  <2>1. PICK n \in Opened(g) : /\ names' = [names EXCEPT ![g].temp = n]
                               /\ Handled(i, [a EXCEPT !.hpc = "locking", !.lock = n])
    BY <1>2, <1>6 DEF OpenTemp
  <2>2. PICK c : c = [a EXCEPT !.hpc = "locking", !.lock = n]
    OBVIOUS
  <2>3. /\ IsConn(c) /\ c.st = a.st /\ c.host = a.host /\ c.open = a.open /\ c.ver = a.ver /\ c.c2s = a.c2s /\ c.s2c = a.s2c
        /\ c.loaded = a.loaded /\ c.hpc = "locking"
    BY <1>4, <2>2 DEF IsConn
  <2>4. ConnOK(c) /\ \A r : PairOK(r, a) => PairOK(r, c)
    BY <1>5, <2>3 DEF Entered
  <2>5. kconn' = [kconn EXCEPT ![i] = c] /\ inode' = inode
    BY <1>6, <2>1, <2>2, <2>3 DEF Handled, OpenTemp
  <2>6. names'[g] = [temp |-> n, file |-> names[g].file]
    BY <1>1, <1>4, <2>1 DEF KShapes, HostOK
  <2>7. /\ names' = [h \in KHosts |-> names'[h]] /\ inode' = [h \in KHosts |-> inode'[h]] /\ kdb' = [h \in KHosts |-> kdb'[h]]
        /\ \A h \in KHosts : h # a.host => names'[h] = names[h] /\ inode'[h] = inode[h] /\ kdb'[h] = kdb[h]
    BY <1>1, <1>3, <1>4, <2>1, <2>5 DEF KShapes
  <2>8. HostOK(names'[a.host], inode'[a.host], kdb'[a.host])
    BY <1>3, <1>4, <2>5, <2>6, OpenedIs
  <2>9. FileOK(c, names'[a.host], inode'[a.host]) /\ ~IsOrphan(c)
    BY <2>3 DEF FileOK, IsOrphan
  <2>10. \A j \in KConns : IsOrphan(kconn[j]) /\ kconn[j].host = a.host => OrphanOK(kconn[j], names'[a.host], inode'[a.host])
    <3>1. PICK nm, fs : nm = names'[g] /\ fs = inode'[g]
      OBVIOUS
    <3>2. nm.file = names[g].file /\ nm.temp = n /\ fs = inode[g]
      BY <2>5, <2>6, <3>1
    <3>3. \A j \in KConns : IsOrphan(kconn[j]) /\ kconn[j].host = g => kconn[j].out # n
      BY <1>4, OpenedIs
    <3>4. \A j \in KConns : IsOrphan(kconn[j]) /\ kconn[j].host = g => OrphanOK(kconn[j], nm, fs)
      BY <1>4, <3>2, <3>3, TempApart
    <3> QED BY <1>4, <3>1, <3>4
  <2> QED BY <1>2, <1>3, <1>4, <2>3, <2>4, <2>5, <2>7, <2>8, <2>9, <2>10, HandlerGoes
<1>7. CASE LockTemp(i)
  <2>1. CASE Handled(i, [a EXCEPT !.hpc = "end"]) /\ UNCHANGED <<names, inode>>
    BY <1>2, <1>3, <1>4, <2>1, EndKept
  <2>2. ASSUME NEW n \in Opened(g), names' = [names EXCEPT ![g].temp = n], inode' = [inode EXCEPT ![g][n] = << >>],
               Handled(i, [a EXCEPT !.hpc = "size", !.out = n, !.at = 0])
        PROVE  KParts'
    <3>1. n \in KInodes /\ n # 0 /\ n # names[g].file
      BY <1>4, OpenedIs
    <3>2. PICK c : c = [a EXCEPT !.hpc = "size", !.out = n, !.at = 0]
      OBVIOUS
    <3>3. /\ IsConn(c) /\ c.st = a.st /\ c.host = a.host /\ c.open = a.open /\ c.ver = a.ver /\ c.c2s = a.c2s /\ c.s2c = a.s2c
          /\ c.loaded = a.loaded /\ c.hpc = "size" /\ c.out = n /\ c.at = 0
      BY <1>4, <3>2 DEF IsConn
    <3>4. ConnOK(c) /\ \A r : PairOK(r, a) => PairOK(r, c)
      BY <1>5, <3>3 DEF Entered
    <3>5. kconn' = [kconn EXCEPT ![i] = c]
      BY <2>2, <3>2, <3>3 DEF Handled
    <3>6. names'[g] = [temp |-> n, file |-> names[g].file]
      BY <1>1, <1>4, <2>2 DEF KShapes, HostOK
    <3>7. inode'[g] = [inode[g] EXCEPT ![n] = << >>]
      BY <1>1, <1>4, <2>2 DEF KShapes
    <3>8. inode'[g] = [m \in KInodes |-> inode'[g][m]] /\ inode'[g][n] = << >>
      BY <1>4, <3>1, <3>7 DEF HostOK
    <3>9. /\ names' = [h \in KHosts |-> names'[h]] /\ inode' = [h \in KHosts |-> inode'[h]] /\ kdb' = [h \in KHosts |-> kdb'[h]]
          /\ \A h \in KHosts : h # a.host => names'[h] = names[h] /\ inode'[h] = inode[h] /\ kdb'[h] = kdb[h]
      BY <1>1, <1>3, <1>4, <2>2 DEF KShapes
    <3>10. HostOK(names'[a.host], inode'[a.host], kdb'[a.host])
      <4>1. HostOK(names'[g], inode[g], kdb'[g])
        BY <1>3, <1>4, <3>6, OpenedIs
      <4>2. names[g].file # 0 => inode'[g][names[g].file] = inode[g][names[g].file]
        BY <1>4, <3>1, <3>7 DEF HostOK
      <4> QED BY <1>4, <3>6, <3>8, <4>1, <4>2 DEF HostOK
    <3>11. FileOK(c, names'[a.host], inode'[a.host]) /\ ~IsOrphan(c)
      BY <1>4, <3>1, <3>3, <3>6, <3>8 DEF FileOK, IsOrphan
    <3>12. \A j \in KConns : IsOrphan(kconn[j]) /\ kconn[j].host = a.host => OrphanOK(kconn[j], names'[a.host], inode'[a.host])
      <4>1. PICK nm, fs : nm = names'[g] /\ fs = inode'[g]
        OBVIOUS
      <4>2. nm.file = names[g].file /\ nm.temp = n /\ \A m \in KInodes : m # n => fs[m] = inode[g][m]
        BY <1>4, <3>6, <3>7, <4>1 DEF HostOK
      <4>3. \A j \in KConns : IsOrphan(kconn[j]) /\ kconn[j].host = g => kconn[j].out # n
        BY <1>4, OpenedIs
      <4>4. \A j \in KConns : IsOrphan(kconn[j]) /\ kconn[j].host = g => OrphanOK(kconn[j], nm, fs)
        BY <1>4, <4>2, <4>3, TempApart
      <4> QED BY <1>4, <4>1, <4>4
    <3> QED BY <1>2, <1>3, <1>4, <3>3, <3>4, <3>5, <3>9, <3>10, <3>11, <3>12, HandlerGoes
  <2>3. \/ Handled(i, [a EXCEPT !.hpc = "end"]) /\ UNCHANGED <<names, inode>>
        \/ \E n \in Opened(g) :
              /\ names' = [names EXCEPT ![g].temp = n]
              /\ inode' = [inode EXCEPT ![g][n] = << >>]
              /\ Handled(i, [a EXCEPT !.hpc = "size", !.out = n, !.at = 0])
    BY <1>2, <1>7 DEF LockTemp
  <2> QED BY <2>1, <2>2, <2>3
<1> QED BY <1>6, <1>7

LEMMA SizeKept ==
  ASSUME KParts, NEW i \in KConns, RecvSize(i)
  PROVE  KParts'
<1>1. KShapes /\ ConnsOK /\ FilesOK
  BY DEF KParts
<1>2. PICK a : a = kconn[i]
  OBVIOUS
<1>3. UNCHANGED <<kver, dump, push, kqueue, names, inode, kdb>> /\ a.st = "used" /\ a.hpc = "size" /\ a.c2s # << >>
  BY <1>2 DEF RecvSize, Reads
<1>4. /\ IsConn(a) /\ ConnOK(a) /\ IsHandler(a) /\ a.hpc \in Reading /\ IsSeq(a.c2s) /\ IsSeq(a.s2c) /\ Len(a.s2c) \in Nat
      /\ a.ver \in Versions /\ FileOK(a, names[a.host], inode[a.host])
  BY <1>1, <1>2, <1>3, SeqIs DEF KShapes, ConnsOK, FilesOK, ConnOK, IsHandler, Reading, Entered
<1>5. PICK r : /\ r = ApRead(a.hctx, "safe", a.c2s[1], 0)
               /\ Handled(i, IF r.ok THEN [a EXCEPT !.hpc = "recv", !.c2s = Tail(a.c2s), !.size = r.out, !.hctx = InitIvector(r.ctx)]
                             ELSE [a EXCEPT !.hpc = "end"])
  BY <1>2 DEF RecvSize
<1>6. CASE r.ok
  <2>1. r.out = a.c2s[1].body
    BY <1>5, <1>6, ApReadIs
  <2>2. HandlerRead(a) = 2 /\ HandlerSaid(a) = 2
    BY <1>3 DEF HandlerRead, HandlerSaid, Entered
  <2>3. Carries(a.ver, 3, a.c2s[1])
    <3>1. 1 \in 1..Len(a.c2s)
      BY <1>3, <1>4, TailIs
    <3>2. Carries(a.ver, 2 + 1, a.c2s[1])
      BY <1>3, <1>4, <2>2, <3>1 DEF ConnOK
    <3> QED BY <3>2
  <2>4. r.out = KRecords[a.ver] /\ KRecords[a.ver] \in Nat
    BY <1>4, <2>1, <2>3, KpropAssumption DEF Carries, Versions
  <2>5. PICK x : x = InitIvector(r.ctx)
    OBVIOUS
  <2>6. PICK c : c = [a EXCEPT !.hpc = "recv", !.c2s = Tail(a.c2s), !.size = r.out, !.hctx = x]
    OBVIOUS
  <2>7. /\ IsConn(c) /\ c.st = a.st /\ c.host = a.host /\ c.open = a.open /\ c.ver = a.ver /\ c.c2s = Tail(a.c2s) /\ c.hpc = "recv"
        /\ c.s2c = a.s2c /\ c.size = r.out /\ c.at = a.at /\ c.out = a.out
    BY <1>4, <2>6 DEF IsConn
  <2>8. kconn' = [kconn EXCEPT ![i] = c]
    BY <1>5, <1>6, <2>5, <2>6, <2>7 DEF Handled
  <2>9. a.at = 0 /\ a.out = names[a.host].temp /\ names[a.host].temp # 0 /\ inode[a.host][a.out] = << >>
    BY <1>3, <1>4 DEF FileOK
  <2>10. HandlerRead(c) = HandlerRead(a) + 1 /\ HandlerSaid(c) = 2
    BY <2>2, <2>7, <2>9 DEF HandlerRead, HandlerSaid, Entered
  <2>11. c.hpc \in Reading \ {"wait"} /\ c.size = KRecords[c.ver] /\ c.at \in 0..c.size
    BY <2>4, <2>7, <2>9 DEF Reading
  <2>12. Len(c.s2c) = Len(a.s2c) + (HandlerSaid(c) - HandlerSaid(a)) /\ IsSeq(c.s2c)
    BY <1>4, <2>2, <2>7, <2>10
  <2>13. ConnOK(c) /\ \A u : PairOK(u, a) => PairOK(u, c)
    BY <1>3, <1>4, <2>7, <2>10, <2>11, <2>12, HandlerTakes
  <2>14. FileOK(c, names[a.host], inode[a.host])
    <3>1. << >> = [k \in 1..0 |-> <<c.ver, k>>]
      OBVIOUS
    <3> QED BY <2>7, <2>9, <3>1 DEF FileOK
  <2>15. ~IsOrphan(c)
    BY <2>7 DEF IsOrphan
  <2> QED BY <1>2, <1>3, <1>4, <2>7, <2>8, <2>13, <2>14, <2>15, ConnGoes
<1>7. CASE ~r.ok
  <2>1. Handled(i, [kconn[i] EXCEPT !.hpc = "end"])
    BY <1>2, <1>5, <1>7
  <2> QED BY <1>2, <1>3, <1>4, <2>1, EndKept
<1> QED BY <1>6, <1>7

\* The next block in its place.
LEMMA PutNext ==
  ASSUME NEW v, NEW n \in Nat
  PROVE  PutAt([k \in 1..n |-> <<v, k>>], n + 1, <<v, n + 1>>) = [k \in 1..(n + 1) |-> <<v, k>>]
<1>1. PICK s : s = [k \in 1..n |-> <<v, k>>]
  OBVIOUS
<1>2. Len(s) = n
  <2>1. s \in Seq({<<v, k>> : k \in 1..n})
    BY <1>1
  <2>2. DOMAIN s = 1..n /\ DOMAIN s = 1..Len(s) /\ Len(s) \in Nat
    BY <1>1, <2>1, LenProperties
  <2> QED BY <2>2
<1>3. Max({n, n + 1}) = n + 1
  BY DEF Max
<1>4. PutAt(s, n + 1, <<v, n + 1>>) = [k \in 1..(n + 1) |-> IF k = n + 1 THEN <<v, n + 1>> ELSE IF k <= n THEN s[k] ELSE "hole"]
  BY <1>2, <1>3 DEF PutAt
<1>5. \A k \in 1..(n + 1) : (IF k = n + 1 THEN <<v, n + 1>> ELSE IF k <= n THEN s[k] ELSE "hole") = <<v, k>>
  <2>1. SUFFICES ASSUME NEW k \in 1..(n + 1)
                 PROVE  (IF k = n + 1 THEN <<v, n + 1>> ELSE IF k <= n THEN s[k] ELSE "hole") = <<v, k>>
    OBVIOUS
  <2>2. CASE k = n + 1
    BY <2>2
  <2>3. CASE k # n + 1
    <3>1. k \in 1..n /\ k <= n
      BY <2>3
    <3> QED BY <1>1, <2>3, <3>1
  <2> QED BY <2>2, <2>3
<1> QED BY <1>1, <1>4, <1>5

LEMMA BlockKept ==
  ASSUME KParts, NEW i \in KConns, RecvBlock(i)
  PROVE  KParts'
<1>1. KShapes /\ ConnsOK /\ FilesOK
  BY DEF KParts
<1>2. PICK a, g : a = kconn[i] /\ g = kconn[i].host
  OBVIOUS
<1>3. UNCHANGED <<kver, dump, push, kqueue, names, kdb>> /\ a.st = "used" /\ a.hpc = "recv" /\ a.c2s # << >> /\ a.at < a.size
  BY <1>2 DEF RecvBlock, Reads
<1>4. /\ IsConn(a) /\ ConnOK(a) /\ IsHandler(a) /\ a.hpc \in Reading /\ IsSeq(a.c2s) /\ IsSeq(a.s2c) /\ Len(a.s2c) \in Nat
      /\ a.ver \in Versions /\ g = a.host /\ g \in KHosts
  BY <1>1, <1>2, <1>3, SeqIs DEF KShapes, ConnsOK, ConnOK, IsHandler, Reading, Entered
<1>5. FileOK(a, names[g], inode[g]) /\ HostOK(names[g], inode[g], kdb[g])
  BY <1>1, <1>2, <1>4 DEF FilesOK
<1>6. a.size = KRecords[a.ver] /\ a.at \in 0..a.size /\ a.at \in Nat /\ a.at + 1 \in 1..KRecords[a.ver] /\ KRecords[a.ver] \in Nat
  BY <1>3, <1>4, KpropAssumption DEF ConnOK, Versions
<1>7. PICK r : /\ r = ApRead(a.hctx, "priv", a.c2s[1], 0)
               /\ Handled(i, IF r.ok THEN [a EXCEPT !.c2s = Tail(a.c2s), !.at = a.at + 1, !.hctx = r.ctx]
                             ELSE [a EXCEPT !.hpc = "end"])
               /\ inode' = IF r.ok THEN [inode EXCEPT ![g][a.out] = PutAt(@, a.at + 1, r.out)] ELSE inode
  BY <1>2 DEF RecvBlock
<1>8. CASE r.ok
  <2>1. r.out = a.c2s[1].body
    BY <1>7, <1>8, ApReadIs
  <2>2. HandlerRead(a) = 3 + a.at /\ HandlerSaid(a) = 2
    BY <1>3 DEF HandlerRead, HandlerSaid, Entered
  <2>3. Carries(a.ver, 4 + a.at, a.c2s[1])
    <3>1. 1 \in 1..Len(a.c2s) /\ HandlerRead(a) + 1 = 4 + a.at
      BY <1>3, <1>4, <1>6, <2>2, TailIs
    <3>2. Carries(a.ver, HandlerRead(a) + 1, a.c2s[1])
      BY <1>3, <1>4, <3>1 DEF ConnOK
    <3> QED BY <3>1, <3>2
  <2>4. r.out = <<a.ver, a.at + 1>>
    <3>1. (4 + a.at) - 3 = a.at + 1
      BY <1>6
    <3> QED BY <1>6, <2>1, <2>3, <3>1 DEF Carries
  <2>5. PICK c : c = [a EXCEPT !.c2s = Tail(a.c2s), !.at = a.at + 1, !.hctx = r.ctx]
    OBVIOUS
  <2>6. /\ IsConn(c) /\ c.st = a.st /\ c.host = a.host /\ c.open = a.open /\ c.ver = a.ver /\ c.c2s = Tail(a.c2s) /\ c.hpc = "recv"
        /\ c.s2c = a.s2c /\ c.size = a.size /\ c.at = a.at + 1 /\ c.out = a.out
    BY <1>3, <1>4, <2>5 DEF IsConn
  <2>7. kconn' = [kconn EXCEPT ![i] = c]
    BY <1>7, <1>8, <2>5, <2>6 DEF Handled
  <2>8. a.out = names[g].temp /\ names[g].temp # 0 /\ inode[g][a.out] = [k \in 1..a.at |-> <<a.ver, k>>]
    BY <1>3, <1>5 DEF FileOK
  <2>9. HandlerRead(c) = HandlerRead(a) + 1 /\ HandlerSaid(c) = 2
    BY <1>6, <2>2, <2>6 DEF HandlerRead, HandlerSaid, Entered
  <2>10. c.hpc \in Reading \ {"wait"} /\ c.size = KRecords[c.ver] /\ c.at \in 0..c.size
    BY <1>6, <2>6 DEF Reading
  <2>11. Len(c.s2c) = Len(a.s2c) + (HandlerSaid(c) - HandlerSaid(a)) /\ IsSeq(c.s2c)
    BY <1>4, <2>2, <2>6, <2>9
  <2>12. ConnOK(c) /\ \A u : PairOK(u, a) => PairOK(u, c)
    BY <1>3, <1>4, <2>6, <2>9, <2>10, <2>11, HandlerTakes
  <2>13. PICK s : s = PutAt(inode[g][a.out], a.at + 1, r.out)
    OBVIOUS
  <2>14. s = [k \in 1..(a.at + 1) |-> <<a.ver, k>>]
    <3>1. PutAt([k \in 1..a.at |-> <<a.ver, k>>], a.at + 1, <<a.ver, a.at + 1>>) = [k \in 1..(a.at + 1) |-> <<a.ver, k>>]
      BY <1>6, PutNext
    <3> QED BY <2>4, <2>8, <2>13, <3>1
  <2>15. a.out \in KInodes /\ inode[g] = [n \in KInodes |-> inode[g][n]]
    BY <1>5, <2>8 DEF HostOK
  <2>16. inode'[g] = [inode[g] EXCEPT ![a.out] = s]
    BY <1>1, <1>4, <1>7, <1>8, <2>13 DEF KShapes
  <2>17. inode'[g][a.out] = s /\ inode'[g] = [n \in KInodes |-> inode'[g][n]]
    BY <2>15, <2>16
  <2>18. /\ names' = [h \in KHosts |-> names'[h]] /\ inode' = [h \in KHosts |-> inode'[h]] /\ kdb' = [h \in KHosts |-> kdb'[h]]
         /\ \A h \in KHosts : h # a.host => names'[h] = names[h] /\ inode'[h] = inode[h] /\ kdb'[h] = kdb[h]
    BY <1>1, <1>3, <1>4, <1>7, <1>8 DEF KShapes
  <2>19. HostOK(names'[a.host], inode'[a.host], kdb'[a.host])
    <3>1. names[g].file # 0 => inode'[g][names[g].file] = inode[g][names[g].file]
      BY <1>5, <2>8, <2>15, <2>16 DEF HostOK
    <3> QED BY <1>3, <1>4, <1>5, <2>17, <3>1 DEF HostOK
  <2>20. FileOK(c, names'[a.host], inode'[a.host])
    <3>1. inode'[g][c.out] = [k \in 1..c.at |-> <<c.ver, k>>]
      BY <2>6, <2>14, <2>17
    <3> QED BY <1>3, <1>4, <2>6, <2>8, <3>1 DEF FileOK
  <2>21. \A j \in KConns : IsOrphan(kconn[j]) /\ kconn[j].host = a.host => OrphanOK(kconn[j], names'[a.host], inode'[a.host])
    <3>1. PICK nm, fs : nm = names'[g] /\ fs = inode'[g]
      OBVIOUS
    <3>2. nm.file = names[g].file /\ nm.temp = a.out /\ \A m \in KInodes : m # a.out => fs[m] = inode[g][m]
      BY <1>3, <2>8, <2>15, <2>16, <3>1
    <3>3. \A j \in KConns : IsOrphan(kconn[j]) /\ kconn[j].host = g => kconn[j].out = 0 \/ kconn[j].out # a.out
      BY <1>1, <2>8 DEF FilesOK, OrphanOK
    <3>4. \A j \in KConns : IsOrphan(kconn[j]) /\ kconn[j].host = g => OrphanOK(kconn[j], nm, fs)
      BY <1>4, <3>2, <3>3, TempApart
    <3> QED BY <1>4, <3>1, <3>4
  <2>22. ~IsOrphan(c)
    BY <2>6 DEF IsOrphan
  <2> QED BY <1>2, <1>3, <1>4, <2>6, <2>7, <2>12, <2>18, <2>19, <2>20, <2>21, <2>22, HandlerGoes
<1>9. CASE ~r.ok
  <2>1. Handled(i, [kconn[i] EXCEPT !.hpc = "end"]) /\ inode' = inode
    BY <1>2, <1>7, <1>9
  <2> QED BY <1>2, <1>3, <1>4, <2>1, EndKept
<1> QED BY <1>8, <1>9

LEMMA RenameKept ==
  ASSUME KParts, NEW i \in KConns, RenameTemp(i)
  PROVE  KParts'
<1>1. KShapes /\ ConnsOK /\ FilesOK
  BY DEF KParts
<1>2. PICK a, g : a = kconn[i] /\ g = kconn[i].host
  OBVIOUS
<1>3. UNCHANGED <<kver, dump, push, kqueue, inode, kdb>> /\ a.st = "used" /\ a.hpc = "recv" /\ a.at = a.size
  BY <1>2 DEF RenameTemp, WholeReceived
<1>4. /\ IsConn(a) /\ ConnOK(a) /\ IsHandler(a) /\ a.ver \in Versions /\ g = a.host /\ g \in KHosts
  BY <1>1, <1>2, <1>3 DEF KShapes, ConnsOK, ConnOK, IsHandler
<1>5. FileOK(a, names[g], inode[g]) /\ HostOK(names[g], inode[g], kdb[g])
  BY <1>1, <1>2, <1>4 DEF FilesOK
<1>6. /\ a.out = names[g].temp /\ names[g].temp # 0 /\ inode[g][a.out] = [k \in 1..a.at |-> <<a.ver, k>>]
      /\ a.size = KRecords[a.ver] /\ a.at \in 0..a.size
  BY <1>3, <1>4, <1>5 DEF FileOK, ConnOK
<1>7. PICK c : c = [a EXCEPT !.hpc = "load"]
  OBVIOUS
<1>8. /\ IsConn(c) /\ c.st = a.st /\ c.host = a.host /\ c.open = a.open /\ c.ver = a.ver /\ c.c2s = a.c2s /\ c.hpc = "load"
      /\ c.s2c = a.s2c /\ c.size = a.size /\ c.at = a.at /\ c.loaded = a.loaded
  BY <1>4, <1>7 DEF IsConn
<1>9. kconn' = [kconn EXCEPT ![i] = c] /\ names' = [names EXCEPT ![g] = [temp |-> 0, file |-> names[g].temp]]
  BY <1>2, <1>6, <1>7, <1>8 DEF RenameTemp, Handled
<1>10. names'[g] = [temp |-> 0, file |-> names[g].temp]
  BY <1>1, <1>4, <1>9 DEF KShapes
<1>11. "load" \notin Reading /\ HandlerSaid(c) = 2 /\ HandlerSaid(a) = 2
  BY <1>3, <1>8 DEF Reading, Entered, HandlerSaid
<1>12. ConnOK(c)
  BY <1>3, <1>4, <1>6, <1>8, <1>11 DEF ConnOK
<1>13. \A u : PairOK(u, a) => PairOK(u, c)
  BY <1>3, <1>8, <1>11 DEF PairOK
<1>14. /\ names' = [h \in KHosts |-> names'[h]] /\ inode' = [h \in KHosts |-> inode'[h]] /\ kdb' = [h \in KHosts |-> kdb'[h]]
       /\ \A h \in KHosts : h # a.host => names'[h] = names[h] /\ inode'[h] = inode[h] /\ kdb'[h] = kdb[h]
  BY <1>1, <1>3, <1>4, <1>9 DEF KShapes
<1>15. inode'[g][names'[g].file] = Records(c.ver) /\ names'[g].file # 0
  BY <1>3, <1>6, <1>8, <1>10 DEF Records
<1>16. HostOK(names'[a.host], inode'[a.host], kdb'[a.host])
  BY <1>3, <1>4, <1>5, <1>8, <1>10, <1>15 DEF HostOK, Whole
<1>17. FileOK(c, names'[a.host], inode'[a.host]) /\ ~IsOrphan(c)
  BY <1>4, <1>8, <1>15 DEF FileOK, IsOrphan
<1>18. ASSUME NEW j \in KConns, IsOrphan(kconn[j]), kconn[j].host = a.host
       PROVE  OrphanOK(kconn[j], names'[a.host], inode'[a.host])
  <2>1. OrphanOK(kconn[j], names[g], inode[g])
    BY <1>1, <1>4, <1>18 DEF FilesOK
  <2> QED BY <1>3, <1>4, <1>10, <1>15, <2>1 DEF OrphanOK
<1> QED BY <1>2, <1>3, <1>4, <1>8, <1>9, <1>12, <1>13, <1>14, <1>16, <1>17, <1>18, HandlerGoes

LEMMA FailKept ==
  ASSUME KParts, NEW i \in KConns, LoadFails(i) \/ HandlerFails(i)
  PROVE  KParts'
<1>1. /\ IsHandler(kconn[i]) \/ IsOrphan(kconn[i])
      /\ Handled(i, [kconn[i] EXCEPT !.hpc = "end"]) /\ UNCHANGED <<kver, dump, push, kqueue, names, inode, kdb>>
  BY DEF LoadFails, HandlerFails, IsHandler, IsOrphan
<1> QED BY <1>1, EndKept

\* What keeps the parts when several connections change.
LEMMA ManyConns ==
  ASSUME KParts, UNCHANGED <<kver, dump, push>>, kconn' = [j \in KConns |-> kconn'[j]], kqueue' = [h \in KHosts |-> kqueue'[h]],
         names' = [h \in KHosts |-> names'[h]], inode' = [h \in KHosts |-> inode'[h]], kdb' = [h \in KHosts |-> kdb'[h]],
         \A j \in KConns : IsConn(kconn'[j]) /\ ConnOK(kconn'[j]),
         \A j \in KConns : IsHandler(kconn'[j]) => IsHandler(kconn[j]) /\ kconn'[j].host = kconn[j].host,
         \A j \in KConns, o \in Pushers : PairOK(push[o], kconn[j]) => PairOK(push[o], kconn'[j]),
         FilesOK', QueuesOK'
  PROVE  KParts'
<1>1. KShapes /\ PushersOK /\ ConnsOK
  BY DEF KParts
<1>2. (\A j \in KConns : IsConn(kconn[j]))' /\ (\A j \in KConns : ConnOK(kconn[j]))'
  BY DEF IsConn, ConnOK, Carries
<1>3. KShapes'
  <2>1. (\A o \in Pushers : IsPush(push[o]))'
    BY <1>1 DEF KShapes, IsPush
  <2> QED BY <1>1, <1>2, <2>1 DEF KShapes
<1>4. PushersOK'
  <2>1. ASSUME NEW o \in Pushers, push[o].pc \in Online
        PROVE  PairOK(push'[o], kconn'[push'[o].conn])
    <3>1. push[o].conn \in KConns /\ PairOK(push[o], kconn[push[o].conn])
      BY <1>1, <2>1 DEF PushersOK, PusherOK
    <3> QED BY <3>1
  <2>2. (\A o \in Pushers : push[o].pc \in Online => PairOK(push[o], kconn[push[o].conn]))'
    BY <2>1 DEF PairOK
  <2>3. (\A o \in Pushers : PusherOK(push[o], dump.ver))'
    BY <1>1 DEF PushersOK, PusherOK
  <2>4. (\A o, u \in Pushers : push[o].conn = push[u].conn /\ push[o].conn # NoConn => o = u)'
    BY <1>1 DEF PushersOK
  <2> QED BY <2>2, <2>3, <2>4 DEF PushersOK
<1>5. ConnsOK'
  <2>1. ASSUME NEW j \in KConns, NEW k \in KConns, IsHandler(kconn'[j]), IsHandler(kconn'[k]), kconn'[j].host = kconn'[k].host
        PROVE  j = k
    BY <1>1, <2>1 DEF ConnsOK
  <2>2. (\A j, k \in KConns : IsHandler(kconn[j]) /\ IsHandler(kconn[k]) /\ kconn[j].host = kconn[k].host => j = k)'
    BY <2>1 DEF IsHandler
  <2> QED BY <1>2, <2>2 DEF ConnsOK
<1> QED BY <1>3, <1>4, <1>5 DEF KParts

\* A connection of which only what was loaded has changed.
Flagged(a, c) ==
  /\ IsConn(c) /\ c.st = a.st /\ c.host = a.host /\ c.open = a.open /\ c.c2s = a.c2s /\ c.s2c = a.s2c /\ c.hpc = a.hpc
  /\ c.size = a.size /\ c.out = a.out /\ c.at = a.at /\ c.ver = a.ver /\ (a.loaded => c.loaded)

LEMMA FlaggedIs ==
  ASSUME NEW a, NEW c, Flagged(a, c), ConnOK(a)
  PROVE  /\ IsConn(c) /\ ConnOK(c) /\ (IsHandler(c) <=> IsHandler(a)) /\ (IsOrphan(c) <=> IsOrphan(a)) /\ c.host = a.host
         /\ \A r : PairOK(r, a) => PairOK(r, c)
         /\ \A nm, fs : FileOK(a, nm, fs) => FileOK(c, nm, fs)
         /\ \A nm, fs : OrphanOK(a, nm, fs) => OrphanOK(c, nm, fs)
<1>1. HandlerRead(c) = HandlerRead(a) /\ HandlerSaid(c) = HandlerSaid(a)
  BY DEF Flagged, HandlerRead, HandlerSaid
<1>2. ConnOK(c)
  BY <1>1 DEF Flagged, ConnOK
<1>3. (IsHandler(c) <=> IsHandler(a)) /\ (IsOrphan(c) <=> IsOrphan(a)) /\ IsConn(c) /\ c.host = a.host
  BY DEF Flagged, IsHandler, IsOrphan
<1>4. \A r : PairOK(r, a) => PairOK(r, c)
  BY <1>1 DEF Flagged, PairOK
<1>5. \A nm, fs : FileOK(a, nm, fs) => FileOK(c, nm, fs)
  BY DEF Flagged, FileOK
<1>6. \A nm, fs : OrphanOK(a, nm, fs) => OrphanOK(c, nm, fs)
  BY DEF Flagged, OrphanOK
<1> QED BY <1>2, <1>3, <1>4, <1>5, <1>6

LEMMA FlagIs ==
  ASSUME NEW j \in KConns, IsConn(kconn[j]), NEW g, NEW s
  PROVE  Flagged(kconn[j], NowLoaded(g, s)[j])
<1>1. PICK b, x : b = kconn[j] /\ x = (kconn[j].loaded \/ s = Records(kconn[j].ver))
  OBVIOUS
<1>2. PICK c : c = [b EXCEPT !.loaded = x]
  OBVIOUS
<1>3. NowLoaded(g, s)[j] = b \/ NowLoaded(g, s)[j] = c
  BY <1>1, <1>2 DEF NowLoaded
<1>4. Flagged(b, b) /\ IsConn(b)
  BY <1>1 DEF Flagged
<1>5. b.loaded => x
  BY <1>1
<1>6. Flagged(b, c)
  BY <1>2, <1>4, <1>5 DEF Flagged, IsConn
<1> QED BY <1>1, <1>3, <1>4, <1>6

\* The end of a handler that has loaded its file.
LEMMA LoadEndIs ==
  ASSUME NEW a, IsConn(a), ConnOK(a), IsHandler(a), a.hpc = "load", NEW b, Flagged(a, b), b.loaded = TRUE,
         NEW m, NEW e, e = KEnded(Said(b, m))
  PROVE  /\ IsConn(e) /\ ConnOK(e) /\ ~IsHandler(e) /\ ~IsOrphan(e)
         /\ \A r : PairOK(r, a) => PairOK(r, e)
<1>1. PICK c : c = Said(b, m)
  OBVIOUS
<1>2. IsConn(b) /\ IsSeq(b.s2c)
  BY DEF Flagged, ConnOK, IsHandler
<1>3. HasSaid(b, c)
  BY <1>1, <1>2, SaysIs
<1>4. /\ IsConn(c) /\ c.st = "used" /\ c.host = a.host /\ c.open = a.open /\ c.ver = a.ver /\ c.loaded = TRUE /\ IsSeq(c.s2c)
  BY <1>3 DEF HasSaid, Flagged, IsHandler
<1>5. CASE ~c.open
  <2>1. e = FreeConn /\ a.open # TRUE
    BY <1>1, <1>4, <1>5 DEF KEnded
  <2>2. IsConn(e) /\ ConnOK(e) /\ ~IsHandler(e) /\ ~IsOrphan(e)
    BY <2>1 DEF FreeConn, IsConn, ConnOK, IsHandler, IsOrphan
  <2>3. \A r : ~PairOK(r, a)
    BY <2>1 DEF PairOK
  <2> QED BY <2>2, <2>3
<1>6. CASE c.open
  <2>1. e = [c EXCEPT !.hpc = "end", !.c2s = << >>, !.hctx = NoAp, !.out = 0, !.lock = 0]
    BY <1>1, <1>6 DEF KEnded
  <2>2. /\ IsConn(e) /\ e.hpc = "end" /\ e.st = "used" /\ e.host = a.host /\ e.open = a.open /\ e.s2c = c.s2c
        /\ e.ver = a.ver /\ e.loaded = TRUE /\ e.c2s = << >>
    BY <1>4, <2>1 DEF IsConn
  <2>3. ConnOK(e)
    BY <1>4, <2>2, ShortIs DEF ConnOK, IsHandler, Reading, Entered
  <2>4. ~IsHandler(e) /\ ~IsOrphan(e)
    BY <2>2 DEF IsHandler, IsOrphan
  <2>5. \A r : PairOK(r, a) => PairOK(r, e)
    BY <2>2 DEF PairOK, Reading, Entered
  <2> QED BY <2>2, <2>3, <2>4, <2>5
<1> QED BY <1>5, <1>6

\* A host replaces its database by a whole file, and one connection ends.
LEMMA Loads ==
  ASSUME KParts, NEW i \in KConns, NEW a, a = kconn[i], a.hpc # "wait", NEW g \in KHosts, NEW s, Whole(s), NEW e,
         IsConn(e), ConnOK(e), ~IsHandler(e), ~IsOrphan(e), \A r : PairOK(r, a) => PairOK(r, e),
         kdb' = [kdb EXCEPT ![g] = s], kconn' = [NowLoaded(g, s) EXCEPT ![i] = e],
         UNCHANGED <<kver, dump, push, kqueue, names, inode>>
  PROVE  KParts'
<1>1. KShapes /\ ConnsOK /\ FilesOK /\ QueuesOK
  BY DEF KParts
<1>2. PICK f : f = NowLoaded(g, s)
  OBVIOUS
<1>3. kconn'[i] = e /\ \A j \in KConns : j # i => kconn'[j] = f[j]
  BY <1>2 DEF NowLoaded
<1>4. ASSUME NEW j \in KConns
      PROVE  Flagged(kconn[j], f[j])
  BY <1>1, <1>2, FlagIs DEF KShapes
<1>5. ASSUME NEW j \in KConns, j # i
      PROVE  /\ IsConn(kconn'[j]) /\ ConnOK(kconn'[j]) /\ kconn'[j].host = kconn[j].host
             /\ (IsHandler(kconn'[j]) <=> IsHandler(kconn[j])) /\ (IsOrphan(kconn'[j]) <=> IsOrphan(kconn[j]))
             /\ kconn'[j].st = kconn[j].st /\ kconn'[j].hpc = kconn[j].hpc
             /\ \A r : PairOK(r, kconn[j]) => PairOK(r, kconn'[j])
             /\ \A nm, fs : FileOK(kconn[j], nm, fs) => FileOK(kconn'[j], nm, fs)
             /\ \A nm, fs : OrphanOK(kconn[j], nm, fs) => OrphanOK(kconn'[j], nm, fs)
  <2>1. Flagged(kconn[j], kconn'[j]) /\ ConnOK(kconn[j])
    BY <1>1, <1>3, <1>4, <1>5 DEF ConnsOK
  <2>2. kconn'[j].st = kconn[j].st /\ kconn'[j].hpc = kconn[j].hpc
    BY <2>1 DEF Flagged
  <2> QED BY <2>1, <2>2, FlaggedIs
<1>6. /\ kqueue' = [h \in KHosts |-> kqueue'[h]]
      /\ names' = [h \in KHosts |-> names'[h]] /\ inode' = [h \in KHosts |-> inode'[h]] /\ kdb' = [h \in KHosts |-> kdb'[h]]
      /\ \A h \in KHosts : h # g => kdb'[h] = kdb[h]
      /\ kdb'[g] = s
  BY <1>1 DEF KShapes
<1>7. kconn' = [j \in KConns |-> kconn'[j]]
  BY DEF NowLoaded
<1>8. FilesOK'
  <2>1. ASSUME NEW h \in KHosts
        PROVE  HostOK(names'[h], inode'[h], kdb'[h])
    <3>1. HostOK(names[h], inode[h], kdb[h])
      BY <1>1 DEF FilesOK
    <3>2. CASE h = g
      BY <1>6, <3>1, <3>2 DEF HostOK
    <3>3. CASE h # g
      BY <1>6, <3>1, <3>3
    <3> QED BY <3>2, <3>3
  <2>2. ASSUME NEW j \in KConns, IsHandler(kconn'[j])
        PROVE  FileOK(kconn'[j], names'[kconn'[j].host], inode'[kconn'[j].host])
    <3>1. j # i
      BY <1>3, <2>2
    <3>2. IsHandler(kconn[j]) /\ FileOK(kconn[j], names[kconn[j].host], inode[kconn[j].host])
      BY <1>1, <1>5, <2>2, <3>1 DEF FilesOK
    <3> QED BY <1>5, <3>1, <3>2
  <2>3. ASSUME NEW j \in KConns, IsOrphan(kconn'[j])
        PROVE  OrphanOK(kconn'[j], names'[kconn'[j].host], inode'[kconn'[j].host])
    <3>1. j # i
      BY <1>3, <2>3
    <3>2. IsOrphan(kconn[j]) /\ OrphanOK(kconn[j], names[kconn[j].host], inode[kconn[j].host])
      BY <1>1, <1>5, <2>3, <3>1 DEF FilesOK
    <3> QED BY <1>5, <3>1, <3>2
  <2>4. (\A h \in KHosts : HostOK(names[h], inode[h], kdb[h]))'
    BY <2>1 DEF HostOK, Whole
  <2>5. (\A j \in KConns : IsHandler(kconn[j]) => FileOK(kconn[j], names[kconn[j].host], inode[kconn[j].host]))'
    BY <2>2 DEF IsHandler, FileOK
  <2>6. (\A j \in KConns : IsOrphan(kconn[j]) => OrphanOK(kconn[j], names[kconn[j].host], inode[kconn[j].host]))'
    BY <2>3 DEF IsOrphan, OrphanOK, Whole
  <2> QED BY <2>4, <2>5, <2>6 DEF FilesOK
<1>9. QueuesOK'
  <2>1. ASSUME NEW h \in KHosts \ HungHosts
        PROVE  QueueOK(h, kqueue[h])'
    <3>1. PICK y : y = kqueue[h]
      OBVIOUS
    <3>2. IsSeq(y) /\ \A k \in 1..Len(y) :
            /\ y[k] \in KConns /\ kconn[y[k]].st = "used" /\ kconn[y[k]].host = h /\ kconn[y[k]].hpc = "wait"
            /\ \A j \in 1..Len(y) : y[j] = y[k] => j = k
      BY <1>1, <3>1 DEF QueuesOK, QueueOK
    <3>3. \A k \in 1..Len(y) : kconn'[y[k]].st = "used" /\ kconn'[y[k]].host = h /\ kconn'[y[k]].hpc = "wait"
      BY <1>5, <3>2
    <3>4. kqueue'[h] = y
      BY <3>1
    <3> QED BY <3>2, <3>3, <3>4 DEF QueueOK
  <2> QED BY <2>1 DEF QueuesOK
<1>10. /\ \A j \in KConns : IsConn(kconn'[j]) /\ ConnOK(kconn'[j])
       /\ \A j \in KConns : IsHandler(kconn'[j]) => IsHandler(kconn[j]) /\ kconn'[j].host = kconn[j].host
       /\ \A j \in KConns, o \in Pushers : PairOK(push[o], kconn[j]) => PairOK(push[o], kconn'[j])
  BY <1>3, <1>5
<1> QED BY <1>6, <1>7, <1>8, <1>9, <1>10, ManyConns

LEMMA LoadKept ==
  ASSUME KParts, NEW i \in KConns, LoadDatabase(i)
  PROVE  KParts'
<1>1. KShapes /\ ConnsOK /\ FilesOK /\ QueuesOK
  BY DEF KParts
<1>2. PICK a, g : a = kconn[i] /\ g = kconn[i].host
  OBVIOUS
<1>3. UNCHANGED <<kver, dump, push, kqueue, names, inode>> /\ a.st = "used" /\ a.hpc = "load"
  BY <1>2 DEF LoadDatabase
<1>4. /\ IsConn(a) /\ ConnOK(a) /\ IsHandler(a) /\ a.ver \in Versions /\ g = a.host /\ g \in KHosts /\ a.ver # 0
  BY <1>1, <1>2, <1>3, KpropAssumption DEF KShapes, ConnsOK, ConnOK, IsHandler, Versions
<1>5. PICK s : s = inode[g][names[g].file]
  OBVIOUS
<1>6. s = Records(a.ver) /\ Whole(s)
  BY <1>1, <1>2, <1>3, <1>4, <1>5 DEF FilesOK, FileOK, Whole
<1>7. CASE ~Parses(s)
  <2>1. Handled(i, [kconn[i] EXCEPT !.hpc = "end"]) /\ kdb' = kdb
    BY <1>2, <1>5, <1>7 DEF LoadDatabase
  <2> QED BY <1>2, <1>3, <1>4, <2>1, EndKept
<1>8. CASE Parses(s)
  <2>1. PICK ack : ack = ApMake(a.hctx, "safe", a.size, 9, 0).out
    OBVIOUS
  <2>2. PICK b : b = NowLoaded(g, s)[i]
    OBVIOUS
  <2>3. PICK e : e = KEnded(Said(b, ack))
    OBVIOUS
  <2>4. kdb' = [kdb EXCEPT ![g] = s] /\ kconn' = [NowLoaded(g, s) EXCEPT ![i] = KEnded(Said(@, ack))]
    BY <1>2, <1>5, <1>8, <2>1 DEF LoadDatabase
  <2>5. kconn' = [NowLoaded(g, s) EXCEPT ![i] = e]
    BY <2>2, <2>3, <2>4
  <2>6. Flagged(a, b)
    BY <1>2, <1>4, <2>2, FlagIs
  <2>7. b.loaded = TRUE
    <3>1. PICK x : x = (a.loaded \/ s = Records(a.ver))
      OBVIOUS
    <3>2. x = TRUE
      BY <1>6, <3>1
    <3>3. b = [a EXCEPT !.loaded = x]
      BY <1>2, <1>4, <2>2, <3>1 DEF NowLoaded
    <3> QED BY <1>4, <3>2, <3>3 DEF IsConn
  <2>8. /\ IsConn(e) /\ ConnOK(e) /\ ~IsHandler(e) /\ ~IsOrphan(e)
        /\ \A r : PairOK(r, a) => PairOK(r, e)
    BY <1>3, <1>4, <2>3, <2>6, <2>7, LoadEndIs
  <2> QED BY <1>2, <1>3, <1>4, <1>6, <2>4, <2>5, <2>8, Loads
<1> QED BY <1>7, <1>8

\* A load that outlived its kpropd.
LEMMA OrphanKept ==
  ASSUME KParts, NEW i \in KConns, OrphanOpen(i) \/ OrphanLoad(i)
  PROVE  KParts'
<1>1. KShapes /\ ConnsOK /\ FilesOK
  BY DEF KParts
<1>2. PICK a, g : a = kconn[i] /\ g = kconn[i].host
  OBVIOUS
<1>3. UNCHANGED <<kver, dump, push, kqueue, names, inode>> /\ IsOrphan(a) /\ a.hpc # "wait"
  BY <1>2 DEF OrphanOpen, OrphanLoad, IsOrphan
<1>4. IsConn(a) /\ ConnOK(a) /\ g = a.host /\ g \in KHosts
  BY <1>1, <1>2, <1>3 DEF KShapes, ConnsOK, ConnOK, IsOrphan
<1>5. OrphanOK(a, names[g], inode[g]) /\ HostOK(names[g], inode[g], kdb[g])
  BY <1>1, <1>2, <1>3, <1>4 DEF FilesOK
<1>6. CASE OrphanOpen(i)
  <2>1. PICK n : n = names[g].file
    OBVIOUS
  <2>2. PICK c : c = [a EXCEPT !.out = n]
    OBVIOUS
  <2>3. /\ IsConn(c) /\ c.st = a.st /\ c.host = a.host /\ c.open = a.open /\ c.c2s = a.c2s /\ c.s2c = a.s2c /\ c.hpc = a.hpc
        /\ c.size = a.size /\ c.at = a.at /\ c.ver = a.ver /\ c.loaded = a.loaded /\ c.out = n
    BY <1>4, <2>2 DEF IsConn
  <2>4. kconn' = [kconn EXCEPT ![i] = c] /\ kdb' = kdb
    BY <1>2, <1>6, <2>1, <2>2 DEF OrphanOpen
  <2>5. HandlerRead(c) = HandlerRead(a) /\ HandlerSaid(c) = HandlerSaid(a)
    BY <2>3 DEF HandlerRead, HandlerSaid
  <2>6. ConnOK(c) /\ \A r : PairOK(r, a) => PairOK(r, c)
    BY <1>4, <2>3, <2>5 DEF ConnOK, PairOK
  <2>7. ~IsHandler(c) /\ OrphanOK(c, names[g], inode[g])
    <3>1. names[g].file # 0 /\ names[g].file \in KInodes /\ Whole(inode[g][names[g].file]) /\ names[g].file # names[g].temp
      BY <1>5 DEF OrphanOK, HostOK
    <3> QED BY <1>3, <2>1, <2>3, <3>1 DEF OrphanOK, IsHandler, IsOrphan
  <2> QED BY <1>2, <1>3, <1>4, <2>3, <2>4, <2>6, <2>7, ConnGoes
<1>7. CASE OrphanLoad(i)
  <2>1. PICK s : s = inode[g][a.out]
    OBVIOUS
  <2>2. Whole(s)
    BY <1>2, <1>5, <1>7, <2>1 DEF OrphanOK, OrphanLoad
  <2>3. CASE ~Parses(s)
    <3>1. Handled(i, [kconn[i] EXCEPT !.hpc = "end"]) /\ kdb' = kdb
      BY <1>2, <1>7, <2>1, <2>3 DEF OrphanLoad
    <3> QED BY <1>2, <1>3, <3>1, EndKept
  <2>4. CASE Parses(s)
    <3>1. PICK b : b = NowLoaded(g, s)[i]
      OBVIOUS
    <3>2. PICK e : e = KEnded(b)
      OBVIOUS
    <3>3. kdb' = [kdb EXCEPT ![g] = s] /\ kconn' = [NowLoaded(g, s) EXCEPT ![i] = KEnded(@)]
      BY <1>2, <1>7, <2>1, <2>4 DEF OrphanLoad
    <3>4. kconn' = [NowLoaded(g, s) EXCEPT ![i] = e]
      BY <3>1, <3>2, <3>3
    <3>5. Flagged(a, b)
      BY <1>2, <1>4, <3>1, FlagIs
    <3>6. IsConn(b) /\ ConnOK(b) /\ IsOrphan(b) /\ \A r : PairOK(r, a) => PairOK(r, b)
      BY <1>3, <1>4, <3>5, FlaggedIs
    <3>7. /\ IsConn(e) /\ ConnOK(e) /\ ~IsHandler(e) /\ ~IsOrphan(e)
          /\ \A r : PairOK(r, b) => PairOK(r, e)
      BY <3>2, <3>6, EndIs
    <3> QED BY <1>2, <1>3, <1>4, <2>2, <3>3, <3>4, <3>6, <3>7, Loads
  <2> QED BY <2>3, <2>4
<1> QED BY <1>6, <1>7

LEMMA EmptyIs == IsSeq(<< >>) /\ Len(<< >>) = 0 /\ 1..0 = {}
<1>1. << >> \in Seq({})
  OBVIOUS
<1> QED BY <1>1 DEF IsSeq

\* A connection that kpropd's death cuts.
LEMMA CutIs ==
  ASSUME NEW a, IsConn(a), ConnOK(a), a.st = "used", a.hpc # "load", NEW e, e = KCut(a)
  PROVE  /\ IsConn(e) /\ ConnOK(e) /\ ~IsHandler(e) /\ ~IsOrphan(e)
         /\ \A r : PairOK(r, a) => PairOK(r, e)
<1>1. PICK b : b = [a EXCEPT !.s2c = << >>] /\ e = KEnded(b)
  BY DEF KCut
<1>2. /\ IsConn(b) /\ b.st = a.st /\ b.host = a.host /\ b.open = a.open /\ b.s2c = << >>
      /\ b.ver = a.ver /\ b.loaded = a.loaded
  BY <1>1 DEF IsConn
<1>3. CASE ~a.open
  <2>1. e = FreeConn /\ a.open # TRUE
    BY <1>1, <1>2, <1>3 DEF KEnded
  <2>2. IsConn(e) /\ ConnOK(e) /\ ~IsHandler(e) /\ ~IsOrphan(e)
    BY <2>1 DEF FreeConn, IsConn, ConnOK, IsHandler, IsOrphan
  <2>3. \A r : ~PairOK(r, a)
    BY <2>1 DEF PairOK
  <2> QED BY <2>2, <2>3
<1>4. CASE a.open
  <2>1. e = [b EXCEPT !.hpc = "end", !.c2s = << >>, !.hctx = NoAp, !.out = 0, !.lock = 0]
    BY <1>1, <1>2, <1>4 DEF KEnded
  <2>2. /\ IsConn(e) /\ e.hpc = "end" /\ e.st = a.st /\ e.host = a.host /\ e.open = a.open /\ e.s2c = << >>
        /\ e.ver = a.ver /\ e.loaded = a.loaded /\ e.c2s = << >>
    BY <1>2, <2>1 DEF IsConn
  <2>3. ConnOK(e)
    BY <2>2, ShortIs DEF ConnOK, Reading, Entered
  <2>4. ~IsHandler(e) /\ ~IsOrphan(e)
    BY <2>2 DEF IsHandler, IsOrphan
  <2>5. ASSUME NEW r, PairOK(r, a)
        PROVE  PairOK(r, e)
    <3>1. Len(e.s2c) + PushTook(r) <= 2
      <4>1. PushTook(r) \in 0..2
        BY DEF PushTook
      <4>2. Len(e.s2c) = 0
        BY <2>2, EmptyIs
      <4> QED BY <4>1, <4>2
    <3> QED BY <2>2, <2>5, <3>1 DEF PairOK, Reading, Entered
  <2> QED BY <2>2, <2>3, <2>4, <2>5
<1> QED BY <1>3, <1>4

\* A load whose kpropd dies.
LEMMA OrphanIs ==
  ASSUME NEW a, IsConn(a), ConnOK(a), a.st = "used", a.hpc = "load", NEW e, e = KCut(a)
  PROVE  /\ IsConn(e) /\ ConnOK(e) /\ ~IsHandler(e) /\ e.host = a.host /\ e.out = 0
         /\ \A r : PairOK(r, a) => PairOK(r, e)
<1>1. e = [a EXCEPT !.hpc = "orphan", !.c2s = << >>, !.s2c = << >>, !.hctx = NoAp, !.out = 0, !.lock = 0]
  BY DEF KCut
<1>2. /\ IsConn(e) /\ e.hpc = "orphan" /\ e.st = a.st /\ e.host = a.host /\ e.open = a.open /\ e.s2c = << >> /\ e.c2s = << >>
      /\ e.ver = a.ver /\ e.out = 0
  BY <1>1 DEF IsConn
<1>3. ConnOK(e)
  BY <1>2, ShortIs DEF ConnOK, Reading, Entered
<1>4. ~IsHandler(e)
  BY <1>2 DEF IsHandler
<1>5. \A r : PairOK(r, a) => PairOK(r, e)
  BY <1>2 DEF PairOK, Reading, Entered
<1> QED BY <1>2, <1>3, <1>4, <1>5

LEMMA RestartKept ==
  ASSUME KParts, NEW g \in KHosts, KRestart(g)
  PROVE  KParts'
<1>1. KShapes /\ ConnsOK /\ FilesOK /\ QueuesOK
  BY DEF KParts
<1>2. /\ UNCHANGED <<kver, dump, push, names, inode, kdb>> /\ kqueue' = [kqueue EXCEPT ![g] = << >>]
      /\ kconn' = [j \in KConns |-> IF kconn[j].st = "used" /\ kconn[j].host = g /\ kconn[j].hpc # "orphan"
                                    THEN KCut(kconn[j]) ELSE kconn[j]]
  BY DEF KRestart
<1>3. ASSUME NEW j \in KConns
      PROVE  /\ IsConn(kconn'[j]) /\ ConnOK(kconn'[j]) /\ (IsHandler(kconn'[j]) => kconn'[j] = kconn[j])
             /\ \A r : PairOK(r, kconn[j]) => PairOK(r, kconn'[j])
             /\ (IsOrphan(kconn'[j]) => kconn'[j].host = kconn[j].host
                                       /\ OrphanOK(kconn'[j], names[kconn[j].host], inode[kconn[j].host]))
             /\ kconn[j].host # g => kconn'[j] = kconn[j]
  <2>1. PICK a, e : a = kconn[j] /\ e = kconn'[j]
    OBVIOUS
  <2>2. IsConn(a) /\ ConnOK(a)
    BY <1>1, <2>1 DEF KShapes, ConnsOK
  <2>3. CASE a.st = "used" /\ a.host = g /\ a.hpc \notin {"load", "orphan"}
    <3>1. e = KCut(a)
      BY <1>2, <2>1, <2>3
    <3>2. /\ IsConn(e) /\ ConnOK(e) /\ ~IsHandler(e) /\ ~IsOrphan(e)
          /\ \A r : PairOK(r, a) => PairOK(r, e)
      BY <2>2, <2>3, <3>1, CutIs
    <3> QED BY <2>1, <2>3, <3>2
  <2>4. CASE a.st = "used" /\ a.host = g /\ a.hpc = "load"
    <3>1. e = KCut(a)
      BY <1>2, <2>1, <2>4
    <3>2. /\ IsConn(e) /\ ConnOK(e) /\ ~IsHandler(e) /\ e.host = a.host /\ e.out = 0
          /\ \A r : PairOK(r, a) => PairOK(r, e)
      BY <2>2, <2>4, <3>1, OrphanIs
    <3>3. names[g].file # 0
      BY <1>1, <2>1, <2>4 DEF FilesOK, FileOK, IsHandler
    <3> QED BY <2>1, <2>4, <3>2, <3>3 DEF OrphanOK
  <2>5. CASE ~(a.st = "used" /\ a.host = g /\ a.hpc # "orphan")
    <3>1. e = a
      BY <1>2, <2>1, <2>5
    <3>2. IsOrphan(a) => OrphanOK(a, names[a.host], inode[a.host])
      BY <1>1, <2>1 DEF FilesOK
    <3> QED BY <2>1, <2>2, <3>1, <3>2
  <2> QED BY <2>3, <2>4, <2>5
<1>4. /\ kconn' = [j \in KConns |-> kconn'[j]] /\ kqueue' = [h \in KHosts |-> kqueue'[h]]
      /\ names' = [h \in KHosts |-> names'[h]] /\ inode' = [h \in KHosts |-> inode'[h]] /\ kdb' = [h \in KHosts |-> kdb'[h]]
  BY <1>1, <1>2 DEF KShapes
<1>5. FilesOK'
  <2>1. \A h \in KHosts : HostOK(names'[h], inode'[h], kdb'[h])
    BY <1>1, <1>2 DEF FilesOK
  <2>2. ASSUME NEW j \in KConns, IsHandler(kconn'[j])
        PROVE  FileOK(kconn'[j], names'[kconn'[j].host], inode'[kconn'[j].host])
    BY <1>1, <1>2, <1>3, <2>2 DEF FilesOK
  <2>3. (\A h \in KHosts : HostOK(names[h], inode[h], kdb[h]))'
    BY <2>1 DEF HostOK
  <2>4. (\A j \in KConns : IsHandler(kconn[j]) => FileOK(kconn[j], names[kconn[j].host], inode[kconn[j].host]))'
    BY <2>2 DEF IsHandler, FileOK
  <2>5. ASSUME NEW j \in KConns, IsOrphan(kconn'[j])
        PROVE  OrphanOK(kconn'[j], names'[kconn'[j].host], inode'[kconn'[j].host])
    BY <1>2, <1>3, <2>5
  <2>6. (\A j \in KConns : IsOrphan(kconn[j]) => OrphanOK(kconn[j], names[kconn[j].host], inode[kconn[j].host]))'
    BY <2>5 DEF IsOrphan, OrphanOK, Whole
  <2> QED BY <2>3, <2>4, <2>6 DEF FilesOK
<1>6. QueuesOK'
  <2>1. ASSUME NEW h \in KHosts \ HungHosts
        PROVE  QueueOK(h, kqueue[h])'
    <3>1. CASE h = g
      <4>1. kqueue'[h] = << >>
        BY <1>1, <1>2, <3>1 DEF KShapes
      <4> QED BY <4>1, EmptyIs DEF QueueOK
    <3>2. CASE h # g
      <4>1. PICK y : y = kqueue[h]
        OBVIOUS
      <4>2. IsSeq(y) /\ \A k \in 1..Len(y) :
              /\ y[k] \in KConns /\ kconn[y[k]].st = "used" /\ kconn[y[k]].host = h /\ kconn[y[k]].hpc = "wait"
              /\ \A j \in 1..Len(y) : y[j] = y[k] => j = k
        BY <1>1, <4>1 DEF QueuesOK, QueueOK
      <4>3. \A k \in 1..Len(y) : kconn'[y[k]] = kconn[y[k]]
        BY <1>3, <3>2, <4>2
      <4>4. kqueue'[h] = y
        BY <1>1, <1>2, <3>2, <4>1 DEF KShapes
      <4> QED BY <4>2, <4>3, <4>4 DEF QueueOK
    <3> QED BY <3>1, <3>2
  <2> QED BY <2>1 DEF QueuesOK
<1>7. /\ \A j \in KConns : IsConn(kconn'[j]) /\ ConnOK(kconn'[j])
      /\ \A j \in KConns : IsHandler(kconn'[j]) => IsHandler(kconn[j]) /\ kconn'[j].host = kconn[j].host
      /\ \A j \in KConns, o \in Pushers : PairOK(push[o], kconn[j]) => PairOK(push[o], kconn'[j])
  BY <1>3
<1> QED BY <1>2, <1>4, <1>5, <1>6, <1>7, ManyConns

LEMMA LossKept ==
  ASSUME KParts, NEW g \in KHosts, LosesDatabase(g)
  PROVE  KParts'
<1>1. KShapes /\ PushersOK /\ ConnsOK /\ FilesOK /\ QueuesOK
  BY DEF KParts
<1>2. UNCHANGED <<kver, dump, push, kconn, kqueue, names, inode>> /\ kdb' = [kdb EXCEPT ![g] = << >>]
  BY DEF LosesDatabase
<1>3. kdb' = [h \in KHosts |-> kdb'[h]] /\ kdb'[g] = << >> /\ \A h \in KHosts : h # g => kdb'[h] = kdb[h]
  BY <1>1, <1>2 DEF KShapes
<1>4. KShapes' /\ PushersOK' /\ ConnsOK'
  BY <1>1, <1>2, <1>3 DEF KShapes, PushersOK, ConnsOK
<1>5. FilesOK'
  <2>1. ASSUME NEW h \in KHosts
        PROVE  HostOK(names'[h], inode'[h], kdb'[h])
    <3>1. HostOK(names[h], inode[h], kdb[h])
      BY <1>1 DEF FilesOK
    <3> QED BY <1>2, <1>3, <3>1 DEF HostOK
  <2>2. (\A h \in KHosts : HostOK(names[h], inode[h], kdb[h]))'
    BY <2>1 DEF HostOK
  <2> QED BY <1>1, <1>2, <2>2 DEF FilesOK
<1>6. QueuesOK'
  BY <1>1, <1>2 DEF QueuesOK, QueueOK
<1> QED BY <1>4, <1>5, <1>6 DEF KParts

LEMMA KpropStarts ==
  ASSUME KInit
  PROVE  KParts
<1>1. 1 \in Versions
  <2>1. Len(KRecords) \in Nat /\ DOMAIN KRecords = 1..Len(KRecords) /\ Len(KRecords) # 0
    BY KpropAssumption, LenProperties, EmptySeq
  <2> QED BY <2>1 DEF Versions
<1>2. /\ kver = 1 /\ dump = [ver |-> 0, ok |-> FALSE]
      /\ \A p \in Pushers : push[p] = IdlePush
      /\ \A i \in KConns : kconn[i] = FreeConn
      /\ \A h \in KHosts : /\ kqueue[h] = << >> /\ names[h] = [temp |-> 0, file |-> 0]
                           /\ inode[h] = [n \in KInodes |-> << >>] /\ kdb[h] = << >>
  BY DEF KInit
<1>3. IsConn(FreeConn) /\ ConnOK(FreeConn) /\ ~IsHandler(FreeConn) /\ ~IsOrphan(FreeConn)
  BY DEF FreeConn, IsConn, ConnOK, IsHandler, IsOrphan
<1>4. IsPush(IdlePush) /\ PusherOK(IdlePush, 0) /\ IdlePush.pc \notin Online /\ IdlePush.conn = NoConn
  BY IdleOK DEF IdlePush, Online
<1>5. KShapes
  BY <1>1, <1>2, <1>3, <1>4 DEF KInit, KShapes
<1>6. PushersOK
  BY <1>2, <1>4 DEF PushersOK
<1>7. ConnsOK
  BY <1>2, <1>3 DEF ConnsOK
<1>8. FilesOK
  BY <1>2, <1>3 DEF FilesOK, HostOK
<1>9. QueuesOK
  BY <1>2, EmptyIs DEF QueuesOK, QueueOK
<1> QED BY <1>5, <1>6, <1>7, <1>8, <1>9 DEF KParts

LEMMA KpropKept ==
  ASSUME KParts, KNext, kmode = "standalone"
  PROVE  KParts'
<1>1. CASE Change
  BY <1>1, ChangeKept
<1>2. ASSUME NEW p \in Pushers, DumpStart(p) \/ PushStep(p) \/ PushFault(p)
      PROVE  KParts'
  <2>1. CASE DumpStart(p) \/ DumpWrite(p) \/ DumpRename(p) \/ DumpStamp(p) \/ DumpFails(p)
    BY <2>1, DumpKept
  <2>2. CASE NextHost(p) \/ OpenDatabase(p) \/ GetTicketsFails(p)
    BY <2>2, RoundKept
  <2>3. CASE Connect(p)
    BY <2>3, ConnectKept
  <2>4. CASE SendApReq(p) \/ SendSize(p) \/ SendBlock(p)
    BY <2>4, SendKept
  <2>5. CASE ReadAck(p) \/ PushFails(p) \/ PushKilled(p)
    BY <2>5, HangupKept
  <2> QED BY <1>2, <2>1, <2>2, <2>3, <2>4, <2>5 DEF PushStep, PushFault
<1>3. ASSUME NEW i \in KConns, HandlerStep(i) \/ RecvReplay(i) \/ LoadFails(i)
      PROVE  KParts'
  <2>1. CASE RecvVersions(i) \/ RecvAuth(i) \/ RecvReplay(i)
    BY <2>1, AuthKept
  <2>2. CASE OpenTemp(i) \/ LockTemp(i)
    BY <2>2, TempKept
  <2>3. CASE RecvSize(i)
    BY <2>3, SizeKept
  <2>4. CASE RecvBlock(i)
    BY <2>4, BlockKept
  <2>5. CASE RenameTemp(i)
    BY <2>5, RenameKept
  <2>6. CASE LoadDatabase(i)
    BY <2>6, LoadKept
  <2>7. CASE LoadFails(i) \/ HandlerFails(i)
    BY <2>7, FailKept
  <2>8. CASE OrphanOpen(i) \/ OrphanLoad(i)
    BY <2>8, OrphanKept
  <2> QED BY <1>3, <2>1, <2>2, <2>3, <2>4, <2>5, <2>6, <2>7, <2>8 DEF HandlerStep
<1>4. ASSUME NEW h \in KHosts, KAccept(h) \/ KRestart(h) \/ LosesDatabase(h)
      PROVE  KParts'
  BY <1>4, AcceptKept, RestartKept, LossKept
<1> QED BY <1>1, <1>2, <1>3, <1>4 DEF KNext

LEMMA ModeKept ==
  ASSUME KNext
  PROVE  kmode' = kmode
BY DEF KNext, Change, DumpStart, PushStep, PushFault, DumpWrite, DumpRename, DumpStamp, DumpFails, NextHost, OpenDatabase,
       GetTicketsFails, Connect, SendApReq, SendSize, SendBlock, ReadAck, PushFails, PushKilled, HandlerStep, RecvVersions,
       RecvAuth, RecvReplay, OpenTemp, LockTemp, RecvSize, RecvBlock, RenameTemp, LoadDatabase, LoadFails, HandlerFails,
       KAccept, KRestart, OrphanOpen, OrphanLoad, LosesDatabase

\* ReplicaWhole: with kpropd run standalone, whatever pushes, dumps and crashes
\* interleave, a replica's database is one whole dump of some version (a
\* handler's temporary file is its alone, and holds the prefix of the dump that
\* the handler has read: FilesOK), and an answer that kprop would take for
\* success is there only after the replica has loaded that dump (a handler has
\* given as many answers as its pusher has messages to show for, and the third
\* only once it has loaded: PairOK).
THEOREM ReplicasWhole == KSpec => []ReplicaWhole
<1>1. KInit => KInv
  BY KpropStarts DEF KInv, KParts
<1>2. KInv /\ [KNext]_kVars => KInv'
  <2>1. SUFFICES ASSUME KInv, [KNext]_kVars, kmode' = "standalone"
                 PROVE  KParts'
    BY DEF KInv, KParts
  <2>2. CASE UNCHANGED kVars
    <3>1. KParts
      BY <2>1, <2>2 DEF KInv, KParts, kVars
    <3> QED BY <2>2, <3>1 DEF kVars, KParts, KShapes, PushersOK, ConnsOK, FilesOK, QueuesOK, QueueOK
  <2>3. CASE KNext
    <3>1. kmode = "standalone"
      BY <2>1, <2>3, ModeKept
    <3>2. KParts
      BY <2>1, <3>1 DEF KInv, KParts
    <3> QED BY <2>3, <3>1, <3>2, KpropKept
  <2> QED BY <2>1, <2>2, <2>3
<1>3. KInv => ReplicaWhole
  <2>1. SUFFICES ASSUME KInv, kmode = "standalone"
                 PROVE  /\ \A h \in KHosts : kdb[h] = << >> \/ \E v \in Versions : kdb[h] = Records(v)
                        /\ \A p \in Pushers : Succeeds(p) => kconn[push[p].conn].loaded
    BY DEF ReplicaWhole, DatabaseWhole, SucceededLoaded
  <2>2. KParts
    BY <2>1 DEF KInv, KParts
  <2>3. \A h \in KHosts : kdb[h] = << >> \/ \E v \in Versions : kdb[h] = Records(v)
    BY <2>2 DEF KParts, FilesOK, HostOK, Whole
  <2>4. ASSUME NEW p \in Pushers, Succeeds(p)
        PROVE  kconn[push[p].conn].loaded
    <3>1. PICK r, a : r = push[p] /\ a = kconn[push[p].conn]
      OBVIOUS
    <3>2. r.pc = "ack" /\ a.s2c # << >> /\ push[p].pc \in Online
      BY <2>4, <3>1 DEF Succeeds, Answer, Online
    <3>3. PairOK(r, a) /\ ConnOK(a) /\ a.st = "used" /\ PushTook(r) = 2
      BY <2>2, <3>1, <3>2 DEF KParts, PushersOK, PusherOK, PairOK, ConnsOK, PushTook
    <3>4. Len(a.s2c) \in Nat /\ Len(a.s2c) >= 1
      BY <3>2, <3>3, SeqIs DEF ConnOK
    <3>5. HandlerSaid(a) \in 0..2
      BY SaidIs
    <3>6. a.hpc = "end"
      BY <3>3, <3>4, <3>5 DEF PairOK
    <3> QED BY <3>1, <3>3, <3>4, <3>6 DEF PairOK
  <2> QED BY <2>3, <2>4
<1> QED BY <1>1, <1>2, <1>3, PTL DEF KSpec

-----------------------------------------------------------------------------
(* The replication engine                                                  *)

USE ValueAssumption, BucketAssumption, OverlapAssumption, LimitAssumption,
    LagAssumption, RetentionAssumption, PolicyAssumption, BoundAssumption

-----------------------------------------------------------------------------
(* Lemmas about the operators                                              *)

\* Buckets are integers and follow the order of timestamps.
LEMMA BucketMono ==
    ASSUME NEW a \in Int, NEW b \in Int, a <= b
    PROVE  Bucket(a) \in Int /\ Bucket(b) \in Int /\ Bucket(a) <= Bucket(b)
<1>1. Bucket(a) \in Int /\ Bucket(b) \in Int
  BY DEF Bucket
<1>2. BucketWidth * Bucket(a) <= a /\ a < BucketWidth * Bucket(a) + BucketWidth
  BY DEF Bucket
<1>3. BucketWidth * Bucket(b) <= b /\ b < BucketWidth * Bucket(b) + BucketWidth
  BY DEF Bucket
<1> QED BY <1>1, <1>2, <1>3

\* A transaction that starts within the bound logs in one of the buckets.
LEMMA StartBucket ==
    ASSUME NEW t \in 0 .. MaxTs
    PROVE  Bucket(t) \in Buckets
<1>1. Bucket(0) = 0
  BY DEF Bucket
<1>2. Bucket(0) <= Bucket(t) /\ Bucket(t) <= Bucket(MaxTs) /\ Bucket(t) \in Int
  BY BucketMono
<1>3. Bucket(MaxTs) \in Int
  BY BucketMono
<1> QED BY <1>1, <1>2, <1>3 DEF Buckets

\* A non-empty set of timestamps has a greatest element, and Max returns it.
LEMMA MaxOfTimestamps ==
    ASSUME NEW S \in SUBSET (1 .. MaxTs), S # {}
    PROVE  Max(S) \in S /\ \A x \in S : x <= Max(S)
<1> DEFINE T == {MaxTs - x : x \in S}
           R == OpToRel(<, Nat)
<1>1. T \subseteq Nat /\ T # {}
  OBVIOUS
<1>2. \A a, b \in Nat : a < b => <<a, b>> \in R
  BY Zenon DEF OpToRel
<1> HIDE DEF R
<1>3. PICK y \in T : \A z \in T : ~(<<z, y>> \in R)
  <2>1. IsWellFoundedOn(R, Nat)
    BY NatLessThanWellFounded, Zenon DEF R
  <2> QED BY <2>1, <1>1, WFMin, Zenon
<1>4. \A z \in T : y <= z
  <2> TAKE z \in T
  <2>1. z \in Nat /\ y \in Nat
    BY <1>1, <1>3
  <2>2. ~(z < y)
    BY <2>1, <1>2, <1>3, Zenon
  <2> QED BY <2>1, <2>2
<1>5. PICK m \in S : y = MaxTs - m
  BY <1>3
<1>6. \A x \in S : m >= x
  <2> TAKE x \in S
  <2>1. y <= MaxTs - x
    BY <1>4
  <2> QED BY <2>1, <1>5
<1>7. \E x \in S : \A z \in S : x >= z
  BY <1>6
<1>8. Max(S) \in S /\ \A z \in S : Max(S) >= z
  BY <1>7 DEF Max
<1> QED BY <1>8

\* Higher returns one of its arguments, and is no lower than either.
LEMMA HigherBound ==
    ASSUME NEW a \in 0 .. MaxTs, NEW b \in 0 .. MaxTs
    PROVE  Higher(a, b) \in 0 .. MaxTs /\ Higher(a, b) >= a /\ Higher(a, b) >= b
  BY DEF Higher

\* The newest log row that names k is one of those fetched.
LEMMA NewestFetched ==
    ASSUME TypeOK, NEW k, NEW fetched \in SUBSET log,
           \E l \in fetched : l.key = k
    PROVE  \E l \in fetched : l.key = k /\ l.ts = NewestOf(k, fetched)
<1> DEFINE S == {l.ts : l \in {f \in fetched : f.key = k}}
<1>1. S \in SUBSET (1 .. MaxTs) /\ S # {}
  BY DEF TypeOK
<1>2. Max(S) \in S
  BY <1>1, MaxOfTimestamps
<1>3. NewestOf(k, fetched) = Max(S)
  BY DEF NewestOf
<1> QED BY <1>2, <1>3

\* materialize_changes returns rows.
LEMMA ChangeType ==
    ASSUME TypeOK, NEW t, NEW fetched \in SUBSET log
    PROVE  Materialize(t, fetched) \in [Keys -> Row]
<1>1. AbsentRow \in Row
  BY DEF AbsentRow, Row, Contents
<1>2. ASSUME NEW k \in Keys, \E l \in fetched : l.key = k
      PROVE  ChangeOf(k, t, fetched) \in Row
  <2>1. CASE RowAt(k, t) = {}
    <3>1. PICK l \in fetched : l.key = k /\ l.ts = NewestOf(k, fetched)
      BY <1>2, NewestFetched
    <3>2. NewestOf(k, fetched) \in Nat
      BY <3>1 DEF TypeOK
    <3> QED BY <2>1, <3>2 DEF ChangeOf, Row, Contents
  <2>2. CASE RowAt(k, t) # {}
    <3>1. PICK r \in RowAt(k, t) : r = CHOOSE x \in RowAt(k, t) : TRUE
      BY <2>2
    <3>2. r \in rows
      BY <3>1 DEF RowAt, LatestAt
    <3> QED BY <2>2, <3>1, <3>2 DEF ChangeOf, Row, TypeOK
  <2> QED BY <2>1, <2>2
<1> QED BY <1>1, <1>2 DEF Materialize

\* A snapshot page holds rows.
LEMMA PageType ==
    ASSUME TypeOK, NEW k, NEW t
    PROVE  PageOf(k, t) \in Row
<1> DEFINE found == {r \in RowAt(k, t) : ~(r.val = Gone /\ PrunedPast(r.ts, t))}
<1>1. CASE found = {}
  BY <1>1 DEF PageOf, AbsentRow, Row, Contents
<1>2. CASE found # {}
  <2>1. PICK r \in found : r = CHOOSE x \in found : TRUE
    BY <1>2
  <2>2. r \in rows
    BY <2>1 DEF RowAt, LatestAt
  <2>3. PageOf(k, t) = [ver |-> r.ts, val |-> r.val]
    BY <1>2, <2>1 DEF PageOf
  <2> QED BY <2>2, <2>3 DEF Row, TypeOK
<1> QED BY <1>1, <1>2

\* A batch ends at the read timestamp or at a candidate's timestamp.
LEMMA BatchEnd ==
    ASSUME NEW cands, NEW t, NEW upto \in BatchEnds(cands, t)
    PROVE  upto = t \/ \E l \in cands : upto = l.ts
  BY DEF BatchEnds, Cutoffs

-----------------------------------------------------------------------------
(* Type correctness                                                        *)

LEMMA TypeInit == Init => TypeOK
<1> SUFFICES ASSUME Init PROVE TypeOK
  OBVIOUS
<1>1. NoRows \in [Keys -> Row]
  BY DEF NoRows, AbsentRow, Row, Contents
<1> QED BY <1>1 DEF Init, TypeOK, NoJob, InitStatus, NoCheckpoint

LEMMA TypeNext == TypeOK /\ [Next]_vars => TypeOK'
<1> SUFFICES ASSUME TypeOK, [Next]_vars PROVE TypeOK'
  OBVIOUS
<1> USE DEF TypeOK
<1>j. NoJob \in [upto : 0 .. MaxTs, fetched : SUBSET log,
                 changes : [Keys -> Row], todo : SUBSET Keys]
  BY DEF NoJob, NoRows, AbsentRow, Row, Contents
<1>1. CASE Tick
  BY <1>1 DEF Tick, authority, cache, replica, engine
<1>2. CASE Write
  <2>1. PICK start \in 0 .. now, ts \in 0 .. MaxTs, S \in (SUBSET Keys) \ {{}} :
           \E writes \in [S -> Contents] : Commit(start, ts, writes)
    BY <1>2 DEF Write
  <2>2. PICK writes \in [S -> Contents] : Commit(start, ts, writes)
    BY <2>1
  <2>3. ts \in 1 .. MaxTs
    BY <2>2 DEF Commit
  <2>4. rows' \subseteq [key : Keys, ts : 1 .. MaxTs, val : Contents]
    BY <2>2, <2>3 DEF Commit
  <2>5. log' \subseteq [key : Keys, ts : 1 .. MaxTs, bucket : Buckets] /\ log \subseteq log'
    BY <2>2, <2>3, StartBucket DEF Commit
  <2> QED BY <2>2, <2>4, <2>5 DEF Commit, cache, replica, engine
<1>3. CASE PruneLog
  <2>1. PICK start \in 0 .. now, ts \in 0 .. MaxTs, retention \in Retentions :
           Prune(start, ts, retention)
    BY <1>3 DEF PruneLog
  <2>2. ts \in 1 .. MaxTs /\ start - retention \in 1 .. MaxTs
    BY <2>1 DEF Prune
  <2>3. prunes' \subseteq [ts : 1 .. MaxTs, cutoff : 1 .. MaxTs]
    BY <2>1, <2>2 DEF Prune
  <2> QED BY <2>1, <2>3 DEF Prune, cache, replica, engine
<1>4. CASE BeginCycle
  BY <1>4, <1>j DEF BeginCycle, GoTo, authority, cache, replica
<1>5. CASE Poll
  <2>1. PICK t \in ReadTs : PollStale(t) \/ PollNothing(t) \/ PollScan(t)
    BY <1>5 DEF Poll
  <2>2. CASE PollStale(t)
    BY <2>2, <1>j DEF PollStale, GoTo, authority, cache, replica
  <2>3. CASE PollNothing(t)
    <3>1. t \in 0 .. MaxTs /\ checkpoint \in 0 .. MaxTs
      BY <2>1, <2>3 DEF ReadTs, PollNothing, NoCheckpoint
    <3>2. [NoJob EXCEPT !.upto = checkpoint] \in
             [upto : 0 .. MaxTs, fetched : SUBSET log,
              changes : [Keys -> Row], todo : SUBSET Keys]
      BY <3>1, <1>j
    <3> QED BY <2>3, <3>2 DEF PollNothing, GoTo, authority, cache, replica
  <2>4. CASE PollScan(t)
    <3>1. t \in 0 .. MaxTs
      BY <2>1 DEF ReadTs
    <3>2. readlog' \in [Buckets -> 0 .. MaxTs]
      BY <2>4, <3>1, HigherBound DEF PollScan
    <3>3. PICK upto \in BatchEnds(Candidates(checkpoint, t), t) :
            LET fetched == {l \in Candidates(checkpoint, t) : l.ts <= upto}
            IN  \/ /\ upto = t
                   /\ GoTo("apply", [NoJob EXCEPT !.upto = t,
                                       !.changes = Materialize(t, fetched)])
                \/ /\ upto < t
                   /\ GoTo("materialize", [NoJob EXCEPT !.upto = upto,
                                             !.fetched = fetched])
      BY <2>4 DEF PollScan
    <3> DEFINE fetched == {l \in Candidates(checkpoint, t) : l.ts <= upto}
    <3>4. fetched \in SUBSET log /\ Candidates(checkpoint, t) \subseteq log
      BY DEF Candidates, LogAt
    <3>5. upto \in 0 .. MaxTs
      BY <3>1, <3>4, BatchEnd
    <3>6. Materialize(t, fetched) \in [Keys -> Row]
      BY <3>4, ChangeType
    <3> HIDE DEF fetched
    <3>7. job' \in [upto : 0 .. MaxTs, fetched : SUBSET log,
                    changes : [Keys -> Row], todo : SUBSET Keys]
      BY <3>1, <3>3, <3>4, <3>5, <3>6, <1>j DEF GoTo, fetched
    <3>8. pc' \in {"apply", "materialize"}
      BY <3>3 DEF GoTo
    <3> QED BY <2>4, <3>2, <3>7, <3>8 DEF PollScan, authority, replica
  <2> QED BY <2>1, <2>2, <2>3, <2>4
<1>6. CASE MaterializeTruncated
  <2>1. Materialize(job.upto, job.fetched) \in [Keys -> Row]
    BY ChangeType
  <2> QED BY <1>6, <2>1, <1>j DEF MaterializeTruncated, GoTo, authority, cache, replica
<1>7. CASE Apply
  <2>1. db' \in [Keys -> Row]
    BY <1>7 DEF Apply, ApplyChanges
  <2> QED BY <1>7, <2>1, <1>j DEF Apply, GoTo, authority, cache
<1>8. CASE Publish
  BY <1>8, <1>j DEF Publish, GoTo, authority, cache, replica
<1>9. CASE Rebuild
  <2>1. ASSUME NEW t \in ReadTs, OpenSnapshot(t) PROVE TypeOK'
    <3>1. t \in 0 .. MaxTs
      BY <2>1 DEF ReadTs
    <3>2. job' = [upto |-> t, fetched |-> {}, changes |-> NoRows, todo |-> Keys]
      BY <2>1 DEF OpenSnapshot, GoTo, NoJob
    <3>3. NoRows \in [Keys -> Row]
      BY DEF NoRows, AbsentRow, Row, Contents
    <3>4. job' \in [upto : 0 .. MaxTs, fetched : SUBSET log,
                    changes : [Keys -> Row], todo : SUBSET Keys]
      BY <3>1, <3>2, <3>3
    <3> QED BY <2>1, <3>4 DEF OpenSnapshot, GoTo, authority, cache, replica
  <2>2. ASSUME NEW k \in Keys, CopyPage(k) PROVE TypeOK'
    <3>1. readrow' \in [Keys -> 0 .. MaxTs]
      BY <2>2, HigherBound DEF CopyPage
    <3>2. PageOf(k, job.upto) \in Row
      BY PageType
    <3> QED BY <2>2, <3>1, <3>2 DEF CopyPage, GoTo, authority, replica
  <2>3. CASE Install
    BY <2>3, <1>j DEF Install, GoTo, authority, cache
  <2>4. CASE PublishRebuild
    BY <2>4, <1>j DEF PublishRebuild, GoTo, authority, cache, replica
  <2> QED BY <1>9, <2>1, <2>2, <2>3, <2>4 DEF Rebuild
<1>10. CASE Fail
  BY <1>10, <1>j DEF Fail, GoTo, authority, cache, replica
<1>11. CASE Crash
  BY <1>11, <1>j DEF Crash, GoTo, InitStatus, authority, cache, replica
<1>12. CASE UNCHANGED vars
  BY <1>12 DEF vars, authority, cache, replica, engine
<1> QED BY <1>1, <1>2, <1>3, <1>4, <1>5, <1>6, <1>7, <1>8, <1>9, <1>10, <1>11,
           <1>12 DEF Next

\* Every state of the specification is well typed.
THEOREM TypeCorrect == Spec => []TypeOK
  BY TypeInit, TypeNext, PTL DEF Spec

-----------------------------------------------------------------------------
(* What a read at a timestamp finds                                        *)

\* The newest versions of a row, when there is more than one, are the same.
LEMMA LatestUnique ==
    ASSUME TypeOK, OneVersion, NEW k, NEW t,
           NEW r \in LatestAt(k, t), NEW q \in LatestAt(k, t)
    PROVE  r = q
<1>1. r \in rows /\ q \in rows /\ r.key = q.key /\ r.ts <= q.ts /\ q.ts <= r.ts
  BY DEF LatestAt
<1>2. r.ts \in Nat /\ q.ts \in Nat
  BY <1>1 DEF TypeOK
<1> QED BY <1>1, <1>2 DEF OneVersion

\* The authoritative value is the newest version's.
LEMMA ValOfLatest ==
    ASSUME TypeOK, OneVersion, NEW k, NEW t, NEW r \in LatestAt(k, t)
    PROVE  ValAt(k, t) = r.val
<1>1. (CHOOSE q \in LatestAt(k, t) : TRUE) \in LatestAt(k, t)
  OBVIOUS
<1>2. (CHOOSE q \in LatestAt(k, t) : TRUE) = r
  BY <1>1, LatestUnique
<1> QED BY <1>2 DEF ValAt

\* When every newest version is a tombstone, or there is none, the entity is
\* gone.
LEMMA ValGone ==
    ASSUME NEW k, NEW t, \A r \in LatestAt(k, t) : r.val = Gone
    PROVE  ValAt(k, t) = Gone
  BY DEF ValAt

\* Between two timestamps with no version in between nothing changes.
LEMMA ValQuiet ==
    ASSUME TypeOK, NEW k, NEW c \in Int, NEW t \in Int, c <= t,
           \A r \in rows : ~(r.key = k /\ r.ts > c /\ r.ts <= t)
    PROVE  ValAt(k, t) = ValAt(k, c)
<1>1. \A r \in rows : r.ts \in Int
  BY DEF TypeOK
<1>2. \A r \in rows : r.key = k => (r.ts <= t <=> r.ts <= c)
  BY <1>1
<1>3. LatestAt(k, t) = LatestAt(k, c)
  BY <1>2, Zenon DEF LatestAt
<1> QED BY <1>3 DEF ValAt

\* Commits above t leave what is read at t alone.
LEMMA ValStable ==
    ASSUME TypeOK, TypeOK', NEW k, NEW t \in Int, rows \subseteq rows',
           \A r \in rows' \ rows : r.key = k => r.ts > t
    PROVE  LET before == ValAt(k, t)
           IN  ValAt(k, t)' = before
<1>1. \A r \in rows' : r.ts \in Int
  BY DEF TypeOK
<1>2. \A r \in rows' : r.key = k /\ r.ts <= t => r \in rows
  BY <1>1
<1>3. LatestAt(k, t)' = LatestAt(k, t)
  BY <1>2, Zenon DEF LatestAt
<1> QED BY <1>3 DEF ValAt

\* A snapshot page holds the authoritative value.
LEMMA PageExact ==
    ASSUME TypeOK, OneVersion, NEW k, NEW t \in Nat
    PROVE  PageOf(k, t).val = ValAt(k, t) /\ PageOf(k, t).ver <= t
<1> DEFINE found == {r \in RowAt(k, t) : ~(r.val = Gone /\ PrunedPast(r.ts, t))}
<1>1. CASE found = {}
  <2>1. \A r \in LatestAt(k, t) : r.val = Gone
    BY <1>1 DEF RowAt
  <2>2. ValAt(k, t) = Gone
    BY <2>1, ValGone
  <2> QED BY <1>1, <2>2 DEF PageOf, AbsentRow
<1>2. CASE found # {}
  <2>1. PICK r \in found : r = CHOOSE x \in found : TRUE
    BY <1>2
  <2>2. r \in LatestAt(k, t)
    BY <2>1 DEF RowAt
  <2>3. ValAt(k, t) = r.val
    BY <2>2, ValOfLatest
  <2>4. PageOf(k, t) = [ver |-> r.ts, val |-> r.val]
    BY <1>2, <2>1 DEF PageOf
  <2>5. r.ts <= t
    BY <2>2 DEF LatestAt
  <2> QED BY <2>3, <2>4, <2>5
<1> QED BY <1>1, <1>2

\* materialize_changes returns exactly what changed since the checkpoint.
LEMMA MaterializeExact ==
    ASSUME TypeOK, LogMatchesRows, OneVersion, checkpoint \in 0 .. MaxTs,
           NEW t \in Nat, checkpoint <= t,
           NEW fetched \in SUBSET log, FetchedCovers(fetched, t)
    PROVE  BatchExact(Materialize(t, fetched), t)
<1> SUFFICES ASSUME NEW k \in Keys
             PROVE  LET change == Materialize(t, fetched)[k]
                    IN  \/ change = AbsentRow /\ ValAt(k, t) = ValAt(k, checkpoint)
                        \/ /\ change.ver > checkpoint /\ change.ver <= t
                           /\ change.val = ValAt(k, t)
  BY Zenon DEF BatchExact
<1>1. CASE ~\E l \in fetched : l.key = k
  <2>1. Materialize(t, fetched)[k] = AbsentRow
    BY <1>1 DEF Materialize
  <2>2. \A r \in rows : ~(r.key = k /\ r.ts > checkpoint /\ r.ts <= t)
    BY <1>1 DEF FetchedCovers
  <2>3. ValAt(k, t) = ValAt(k, checkpoint)
    BY <2>2, ValQuiet
  <2> QED BY <2>1, <2>3
<1>2. CASE \E l \in fetched : l.key = k
  <2>1. Materialize(t, fetched)[k] = ChangeOf(k, t, fetched)
    BY <1>2 DEF Materialize
  <2>2. CASE RowAt(k, t) = {}
    <3>1. PICK l \in fetched : l.key = k /\ l.ts = NewestOf(k, fetched)
      BY <1>2, NewestFetched
    <3>2. NewestOf(k, fetched) > checkpoint /\ NewestOf(k, fetched) <= t
      BY <3>1 DEF FetchedCovers
    <3>3. \A r \in LatestAt(k, t) : r.val = Gone
      BY <2>2 DEF RowAt
    <3>4. ValAt(k, t) = Gone
      BY <3>3, ValGone
    <3> QED BY <2>1, <2>2, <3>2, <3>4 DEF ChangeOf
  <2>3. CASE RowAt(k, t) # {}
    <3>1. PICK r \in RowAt(k, t) : r = CHOOSE x \in RowAt(k, t) : TRUE
      BY <2>3
    <3>2. r \in LatestAt(k, t)
      BY <3>1 DEF RowAt
    <3>3. ChangeOf(k, t, fetched) = [ver |-> r.ts, val |-> r.val]
      BY <2>3, <3>1 DEF ChangeOf
    <3>4. PICK l \in fetched : l.key = k
      BY <1>2
    <3>5. PICK q \in rows : q.key = k /\ q.ts = l.ts
      BY <3>4 DEF LogMatchesRows
    <3>6. q.ts > checkpoint /\ q.ts <= t
      BY <3>4, <3>5 DEF FetchedCovers
    <3>7. r \in rows /\ r.ts <= t /\ q.ts <= r.ts
      BY <3>2, <3>5, <3>6 DEF LatestAt
    <3>8. r.ts \in Int /\ q.ts \in Int
      BY <3>5, <3>7 DEF TypeOK
    <3>9. r.ts > checkpoint
      BY <3>6, <3>7, <3>8
    <3>10. ValAt(k, t) = r.val
      BY <3>2, ValOfLatest
    <3> QED BY <2>1, <3>3, <3>7, <3>9, <3>10
  <2> QED BY <2>2, <2>3
<1> QED BY <1>1, <1>2

-----------------------------------------------------------------------------
(* The inductive invariant                                                 *)

\* A timestamp that is closed stays closed while the caches grow.
LEMMA ClosedGrows ==
    ASSUME TypeOK, TypeOK', NEW t \in 0 .. MaxTs, Closed(t),
           \A b \in Buckets : readlog'[b] >= readlog[b],
           \A k \in Keys : readrow'[k] >= readrow[k]
    PROVE  Closed(t)'
<1>1. \A k \in Keys : readrow[k] \in Int /\ readrow'[k] \in Int
  BY DEF TypeOK
<1>2. \A b \in Buckets : readlog[b] \in Int /\ readlog'[b] \in Int
  BY DEF TypeOK
<1> QED BY <1>1, <1>2 DEF Closed

\* A commit lands above every closed timestamp.
LEMMA CommitAboveClosed ==
    ASSUME TypeOK, NEW t \in 0 .. MaxTs, Closed(t),
           NEW start \in 0 .. now, NEW ts \in 0 .. MaxTs,
           NEW S \in SUBSET Keys, S # {}, NEW writes \in [S -> Contents],
           Commit(start, ts, writes)
    PROVE  ts > t
<1> SUFFICES ASSUME ts <= t PROVE FALSE
  OBVIOUS
<1>1. PICK k \in S : TRUE
  OBVIOUS
<1>2. ts >= start /\ ts > 0 /\ ts <= start + Overlap
      /\ ts > readlog[Bucket(start)] /\ ts > readrow[k]
  BY <1>1 DEF Commit
<1>3. start \in 0 .. MaxTs
  BY DEF TypeOK
<1>4. Bucket(start) \in Buckets
  BY <1>3, StartBucket
<1>5. Bucket(ts - Overlap) <= Bucket(start) /\ Bucket(start) <= Bucket(ts)
  BY <1>2, <1>3, BucketMono
<1>6. ts <= readrow[k] \/ ts <= readlog[Bucket(start)]
  BY <1>2, <1>4, <1>5 DEF Closed
<1>7. readrow[k] \in Int /\ readlog[Bucket(start)] \in Int
  BY <1>4 DEF TypeOK
<1> QED BY <1>2, <1>6, <1>7

\* A step that touches neither the authority's rows and log, nor the caches,
\* nor the replica.
LEMMA QuietStep ==
    ASSUME IInv, UNCHANGED <<rows, log, cache, replica>>
    PROVE  LogMatchesRows' /\ OneVersion' /\ ReplicaInv'
<1> USE DEF cache, replica
<1>1. LogMatchesRows'
  BY DEF IInv, LogMatchesRows
<1>2. OneVersion'
  BY DEF IInv, OneVersion
<1>3. ReplicaInv'
  BY DEF IInv, ReplicaInv, Closed, ValAt, LatestAt
<1> QED BY <1>1, <1>2, <1>3

\* A committed transaction preserves the invariant.
LEMMA CommitInv ==
    ASSUME IInv, TypeOK',
           NEW start \in 0 .. now, NEW ts \in 0 .. MaxTs,
           NEW S \in SUBSET Keys, S # {}, NEW writes \in [S -> Contents],
           Commit(start, ts, writes)
    PROVE  IInv'
<1> USE DEF IInv
<1>1. /\ rows' = rows \union {[key |-> k, ts |-> ts, val |-> writes[k]] : k \in S}
      /\ log' = log \union {[key |-> k, ts |-> ts, bucket |-> Bucket(start)] : k \in S}
      /\ UNCHANGED <<cache, replica, engine>>
  BY DEF Commit
<1>2. ts >= start /\ ts > 0 /\ ts <= start + Overlap
  BY DEF Commit
<1>3. \A r \in rows' \ rows : r.ts = ts /\ r.key \in S /\ r.ts > readrow[r.key]
  BY <1>1 DEF Commit
<1>4. \A k \in Keys, t \in 0 .. MaxTs :
         (Closed(t) \/ t <= readrow[k]) => \A r \in rows' \ rows : r.key = k => r.ts > t
  <2> SUFFICES ASSUME NEW k \in Keys, NEW t \in 0 .. MaxTs,
                      Closed(t) \/ t <= readrow[k],
                      NEW r \in rows' \ rows, r.key = k
               PROVE  r.ts > t
    BY Zenon
  <2>1. readrow[k] \in Int
    BY DEF TypeOK
  <2>2. CASE Closed(t)
    BY <2>2, <1>3, CommitAboveClosed
  <2>3. CASE t <= readrow[k]
    BY <2>1, <2>3, <1>3
  <2> QED BY <2>2, <2>3
<1>5. LogMatchesRows'
  <2>1. ASSUME NEW r \in rows' PROVE \E l \in log' : l.key = r.key /\ l.ts = r.ts
    <3>1. CASE r \in rows
      BY <1>1, <3>1 DEF LogMatchesRows
    <3>2. CASE r \notin rows
      <4>1. PICK k \in S : r = [key |-> k, ts |-> ts, val |-> writes[k]]
        BY <1>1, <3>2
      <4>2. [key |-> k, ts |-> ts, bucket |-> Bucket(start)] \in log'
        BY <1>1, <4>1
      <4> QED BY <4>1, <4>2
    <3> QED BY <3>1, <3>2
  <2>2. ASSUME NEW l \in log' PROVE \E r \in rows' : l.key = r.key /\ l.ts = r.ts
    <3>1. CASE l \in log
      BY <1>1, <3>1 DEF LogMatchesRows
    <3>2. CASE l \notin log
      <4>1. PICK k \in S : l = [key |-> k, ts |-> ts, bucket |-> Bucket(start)]
        BY <1>1, <3>2
      <4>2. [key |-> k, ts |-> ts, val |-> writes[k]] \in rows'
        BY <1>1, <4>1
      <4> QED BY <4>1, <4>2
    <3> QED BY <3>1, <3>2
  <2>3. Bucket(ts - Overlap) <= Bucket(start) /\ Bucket(start) <= Bucket(ts)
    BY <1>2, BucketMono DEF TypeOK
  <2>4. \A l \in log' : Bucket(l.ts - Overlap) <= l.bucket /\ l.bucket <= Bucket(l.ts)
    BY <1>1, <2>3 DEF LogMatchesRows
  <2> QED BY <2>1, <2>2, <2>4 DEF LogMatchesRows
<1>6. OneVersion'
  <2>1. \A r \in rows : r.key \in S => r.ts < ts
    BY DEF Commit
  <2>2. \A r \in rows : r.ts \in Int
    BY DEF TypeOK
  <2> QED BY <1>1, <2>1, <2>2 DEF OneVersion
<1>7. \A k \in Keys, t \in 0 .. MaxTs :
         (Closed(t) \/ t <= readrow[k]) => ValAt(k, t)' = ValAt(k, t)
  <2> SUFFICES ASSUME NEW k \in Keys, NEW t \in 0 .. MaxTs,
                      Closed(t) \/ t <= readrow[k]
               PROVE  ValAt(k, t)' = ValAt(k, t)
    OBVIOUS
  <2>1. \A r \in rows' \ rows : r.key = k => r.ts > t
    BY <1>4
  <2> QED BY <2>1, <1>1, ValStable
<1>8. \A t \in 0 .. MaxTs : Closed(t) => Closed(t)'
  BY <1>1 DEF Closed, cache
<1>9. ReplicaInv'
  <2>1. CASE checkpoint = NoCheckpoint
    BY <1>1, <2>1 DEF ReplicaInv, replica
  <2>2. CASE checkpoint # NoCheckpoint
    <3>1. PICK c \in 0 .. MaxTs : c = checkpoint /\ c = checkpoint'
      BY <1>1, <2>2 DEF TypeOK, replica
    <3>2. Closed(c)' /\ Closed(c)
      BY <1>8, <2>2, <3>1 DEF ReplicaInv
    <3>3. \A k \in Keys : ValAt(k, c)' = ValAt(k, c)
      BY <1>7, <3>2
    <3>4. \A k \in Keys : db'[k].ver <= c /\ db'[k].val = ValAt(k, c)'
      BY <1>1, <2>2, <3>1, <3>3 DEF ReplicaInv, replica
    <3>5. Closed(checkpoint)'
      BY <3>1, <3>2 DEF Closed
    <3>6. \A k \in Keys : ValAt(k, checkpoint)' = ValAt(k, c)'
      BY <3>1 DEF ValAt, LatestAt
    <3> QED BY <3>1, <3>4, <3>5, <3>6 DEF ReplicaInv
  <2> QED BY <2>1, <2>2
<1>10. UNCHANGED <<pc, job, checkpoint, readrow>>
  BY <1>1 DEF engine, replica, cache
<1>11. CASE pc = "materialize"
  <2>1. PICK u \in 0 .. MaxTs : u = job.upto /\ u = job'.upto
    BY <1>10 DEF TypeOK
  <2>2. checkpoint <= u /\ Closed(u) /\ Closed(u)' /\ FetchedCovers(job.fetched, u)
    BY <1>8, <1>11, <2>1 DEF JobInv
  <2>3. Closed(job.upto)'
    BY <2>1, <2>2 DEF Closed
  <2>4. \A r \in rows' \ rows : r.ts > u
    BY <1>3, <1>4, <2>2
  <2>5. FetchedCovers(job.fetched, job.upto)'
    BY <1>1, <1>10, <2>1, <2>2, <2>4 DEF FetchedCovers, TypeOK
  <2>6. JobInv'
    BY <1>10, <1>11, <2>1, <2>2, <2>3, <2>5 DEF JobInv
  <2> QED BY <1>5, <1>6, <1>9, <2>6
<1>12. CASE pc = "apply"
  <2>1. PICK u \in 0 .. MaxTs : u = job.upto /\ u = job'.upto
    BY <1>10 DEF TypeOK
  <2>2. checkpoint <= u /\ Closed(u) /\ Closed(u)' /\ BatchExact(job.changes, u)
        /\ checkpoint # NoCheckpoint
    BY <1>8, <1>12, <2>1 DEF JobInv
  <2>3. Closed(job.upto)'
    BY <2>1, <2>2 DEF Closed
  <2>4. PICK c \in 0 .. MaxTs : c = checkpoint /\ c = checkpoint'
    BY <1>10, <2>2 DEF TypeOK
  <2>5. Closed(c)
    BY <2>2, <2>4 DEF ReplicaInv
  <2>6. \A k \in Keys : ValAt(k, c)' = ValAt(k, c) /\ ValAt(k, u)' = ValAt(k, u)
    BY <1>7, <2>2, <2>5
  <2>7. \A k \in Keys : /\ ValAt(k, checkpoint)' = ValAt(k, checkpoint)
                        /\ ValAt(k, job.upto)' = ValAt(k, u)
    <3>1. \A k \in Keys : ValAt(k, checkpoint)' = ValAt(k, c)'
      BY <2>4 DEF ValAt, LatestAt
    <3>2. \A k \in Keys : ValAt(k, job.upto)' = ValAt(k, u)'
      BY <2>1 DEF ValAt, LatestAt
    <3> QED BY <2>4, <2>6, <3>1, <3>2
  <2>8. BatchExact(job.changes, job.upto)'
    BY <1>10, <2>1, <2>2, <2>7 DEF BatchExact
  <2>9. JobInv'
    BY <1>10, <1>12, <2>1, <2>2, <2>3, <2>8 DEF JobInv
  <2> QED BY <1>5, <1>6, <1>9, <2>9
<1>13. CASE pc = "pages"
  <2>1. PICK u \in 0 .. MaxTs : u = job.upto /\ u = job'.upto
    BY <1>10 DEF TypeOK
  <2>2. \A k \in Keys \ job.todo : ValAt(k, job.upto)' = ValAt(k, u)
    <3>1. \A k \in Keys \ job.todo : u <= readrow[k]
      BY <1>13, <2>1 DEF JobInv, TypeOK
    <3>2. \A k \in Keys \ job.todo : ValAt(k, u)' = ValAt(k, u)
      BY <1>7, <3>1
    <3>3. \A k \in Keys : ValAt(k, job.upto)' = ValAt(k, u)'
      BY <2>1 DEF ValAt, LatestAt
    <3> QED BY <3>2, <3>3
  <2>3. JobInv'
    BY <1>10, <1>13, <2>1, <2>2 DEF JobInv
  <2> QED BY <1>5, <1>6, <1>9, <2>3
<1>14. CASE pc \notin {"materialize", "apply", "pages"}
  <2>1. JobInv'
    BY <1>10, <1>14 DEF JobInv
  <2> QED BY <1>5, <1>6, <1>9, <2>1
<1> QED BY <1>11, <1>12, <1>13, <1>14

\* The poll at t fetches every log row of the interval it ends.
LEMMA ScanCovers ==
    ASSUME TypeOK, LogMatchesRows, checkpoint \in 0 .. MaxTs,
           NEW t \in 0 .. MaxTs, t > checkpoint, ~PrunedPast(checkpoint, t),
           NEW upto \in Int, upto <= t
    PROVE  FetchedCovers({l \in Candidates(checkpoint, t) : l.ts <= upto}, upto)
<1> DEFINE fetched == {l \in Candidates(checkpoint, t) : l.ts <= upto}
<1>1. \A l \in fetched : l.ts > checkpoint /\ l.ts <= upto
  BY DEF Candidates
<1>2. ASSUME NEW r \in rows, r.ts > checkpoint, r.ts <= upto
      PROVE  \E l \in fetched : l.key = r.key
  <2>1. PICK l \in log : l.key = r.key /\ l.ts = r.ts
    BY DEF LogMatchesRows
  <2>2. l.ts \in Int /\ l.bucket \in Int /\ l.ts > checkpoint /\ l.ts <= upto /\ l.ts <= t
    BY <1>2, <2>1 DEF TypeOK, Buckets
  <2>3. Bucket(l.ts - Overlap) <= l.bucket /\ l.bucket <= Bucket(l.ts)
    BY <2>1 DEF LogMatchesRows
  <2>4. /\ ScanFirst(checkpoint) \in Int /\ Bucket(l.ts - Overlap) \in Int
        /\ ScanFirst(checkpoint) <= Bucket(l.ts - Overlap)
    <3>1. checkpoint - Overlap <= l.ts - Overlap
      BY <2>2
    <3> QED BY <2>2, <3>1, BucketMono DEF ScanFirst
  <2>5. Bucket(l.ts) \in Int /\ ScanLast(t) \in Int /\ Bucket(l.ts) <= ScanLast(t)
    BY <2>2, BucketMono DEF ScanLast
  <2>6. l.bucket \in ScanFirst(checkpoint) .. ScanLast(t)
    BY <2>2, <2>3, <2>4, <2>5
  <2>7. ASSUME NEW p \in prunes, p.ts <= t PROVE ~(l.bucket < ScanFirst(p.cutoff))
    <3>1. p.cutoff \in Int /\ p.cutoff <= checkpoint
      BY <2>7 DEF PrunedPast, TypeOK
    <3>2. p.cutoff - Overlap <= checkpoint - Overlap
      BY <3>1
    <3>3. ScanFirst(p.cutoff) \in Int /\ ScanFirst(p.cutoff) <= ScanFirst(checkpoint)
      BY <3>1, <3>2, BucketMono DEF ScanFirst
    <3> QED BY <2>2, <2>3, <2>4, <3>3
  <2>8. l \in fetched
    BY <2>1, <2>2, <2>6, <2>7 DEF Candidates, LogAt
  <2> QED BY <2>1, <2>8
<1> QED BY <1>1, <1>2 DEF FetchedCovers

\* The poll at t closes the interval it scanned.
LEMMA ScanCloses ==
    ASSUME TypeOK, TypeOK', checkpoint \in 0 .. MaxTs, Closed(checkpoint),
           NEW t \in 0 .. MaxTs, PollScan(t)
    PROVE  Closed(t)'
<1>1. /\ readlog' = [b \in Buckets |->
                        IF b \in ScanFirst(checkpoint) .. ScanLast(t)
                          THEN Higher(readlog[b], t) ELSE readlog[b]]
      /\ readrow' = readrow
  BY DEF PollScan
<1> SUFFICES ASSUME NEW k \in Keys, NEW c \in 1 .. t, NEW b \in Buckets,
                    Bucket(c - Overlap) <= b, b <= Bucket(c)
             PROVE  c <= readrow'[k] \/ c <= readlog'[b]
  BY DEF Closed
<1>2. readlog[b] \in Int /\ readrow[k] \in Int /\ b \in Int
  <2>1. readlog[b] \in 0 .. MaxTs /\ readrow[k] \in 0 .. MaxTs
    BY DEF TypeOK
  <2>2. b \in Int
    BY DEF Buckets
  <2> QED BY <2>1, <2>2
<1>3. CASE c <= checkpoint
  <2>1. c <= readrow[k] \/ c <= readlog[b]
    BY <1>3 DEF Closed
  <2>2. readlog'[b] = Higher(readlog[b], t) \/ readlog'[b] = readlog[b]
    BY <1>1
  <2>3. readlog'[b] \in Int /\ readlog'[b] >= readlog[b]
    BY <1>2, <2>2 DEF Higher
  <2> QED BY <1>1, <1>2, <2>1, <2>3
<1>4. CASE c > checkpoint
  <2>1. checkpoint - Overlap <= c - Overlap
    BY <1>4
  <2>2. /\ ScanFirst(checkpoint) \in Int /\ Bucket(c - Overlap) \in Int
        /\ ScanFirst(checkpoint) <= Bucket(c - Overlap)
    BY <2>1, BucketMono DEF ScanFirst
  <2>3. Bucket(c) \in Int /\ ScanLast(t) \in Int /\ Bucket(c) <= ScanLast(t)
    BY BucketMono DEF ScanLast
  <2>4. b \in ScanFirst(checkpoint) .. ScanLast(t)
    BY <1>2, <2>2, <2>3
  <2>5. readlog'[b] = Higher(readlog[b], t)
    BY <1>1, <2>4
  <2>6. readlog'[b] >= t /\ readlog'[b] \in Int
    BY <1>2, <2>5 DEF Higher
  <2> QED BY <2>6
<1> QED BY <1>3, <1>4

LEMMA PollInv ==
    ASSUME IInv, TypeOK', NEW t \in ReadTs, PollScan(t)
    PROVE  IInv'
<1> USE DEF IInv
<1>1. t \in 0 .. MaxTs
  BY DEF ReadTs, TypeOK
<1>2. /\ pc = "poll" /\ ~PrunedPast(checkpoint, t) /\ t > checkpoint
      /\ UNCHANGED <<rows, log, prunes, readrow, db, checkpoint>>
  BY DEF PollScan, authority, replica
<1>3. PICK c \in 0 .. MaxTs : c = checkpoint /\ c = checkpoint'
  BY <1>2 DEF JobInv, TypeOK
<1>4. Closed(c) /\ Closed(checkpoint)
  BY <1>2, <1>3 DEF JobInv, ReplicaInv
<1>5. Closed(t)'
  BY <1>1, <1>3, <1>4, ScanCloses
<1>6. PICK upto \in BatchEnds(Candidates(checkpoint, t), t) :
        LET fetched == {l \in Candidates(checkpoint, t) : l.ts <= upto}
        IN  \/ /\ upto = t
               /\ GoTo("apply", [NoJob EXCEPT !.upto = t,
                                   !.changes = Materialize(t, fetched)])
            \/ /\ upto < t
               /\ GoTo("materialize", [NoJob EXCEPT !.upto = upto,
                                         !.fetched = fetched])
  BY DEF PollScan
<1> DEFINE fetched == {l \in Candidates(checkpoint, t) : l.ts <= upto}
<1>7. /\ upto \in 0 .. MaxTs /\ upto <= t /\ checkpoint <= upto
      /\ fetched \in SUBSET log
  <2>1. \A l \in Candidates(checkpoint, t) :
           l \in log /\ l.ts <= t /\ l.ts > checkpoint
    BY DEF Candidates, LogAt
  <2>2. \A l \in log : l.ts \in 0 .. MaxTs
    BY DEF TypeOK
  <2> QED BY <1>1, <1>2, <1>3, <2>1, <2>2, BatchEnd
<1>8. FetchedCovers(fetched, upto)
  BY <1>1, <1>2, <1>3, <1>7, ScanCovers
<1> HIDE DEF fetched
<1>9. LogMatchesRows' /\ OneVersion'
  BY <1>2 DEF LogMatchesRows, OneVersion
<1>10. Closed(c)' /\ Closed(upto)' /\ Closed(checkpoint)'
  BY <1>1, <1>2, <1>3, <1>5, <1>7 DEF Closed
<1>11. ReplicaInv'
  <2>1. \A k \in Keys : ValAt(k, checkpoint)' = ValAt(k, checkpoint)
    BY <1>2 DEF ValAt, LatestAt
  <2>2. \A k \in Keys : db[k].ver <= checkpoint /\ db[k].val = ValAt(k, checkpoint)
    BY <1>2, <1>3 DEF ReplicaInv, JobInv
  <2> QED BY <1>2, <1>10, <2>1, <2>2 DEF ReplicaInv
<1>12. CASE upto = t
  <2>1. job' = [NoJob EXCEPT !.upto = t, !.changes = Materialize(t, fetched)]
        /\ pc' = "apply"
    BY <1>1, <1>6, <1>12 DEF GoTo, fetched
  <2>2. job'.upto = t /\ job'.changes = Materialize(t, fetched)
    BY <2>1 DEF NoJob
  <2>3. BatchExact(Materialize(t, fetched), t)
    BY <1>1, <1>3, <1>7, <1>8, <1>12, MaterializeExact
  <2>4. \A k \in Keys : /\ ValAt(k, job.upto)' = ValAt(k, t)
                        /\ ValAt(k, checkpoint)' = ValAt(k, checkpoint)
    BY <1>2, <2>2 DEF ValAt, LatestAt
  <2>5. BatchExact(job.changes, job.upto)'
    BY <1>2, <2>2, <2>3, <2>4 DEF BatchExact
  <2>6. Closed(job.upto)'
    BY <1>5, <2>2 DEF Closed
  <2>7. JobInv'
    BY <1>2, <1>3, <2>1, <2>2, <2>5, <2>6, <1>7, <1>12 DEF JobInv, NoCheckpoint
  <2> QED BY <1>9, <1>11, <2>7
<1>13. CASE upto < t
  <2>1. job' = [NoJob EXCEPT !.upto = upto, !.fetched = fetched]
        /\ pc' = "materialize"
    BY <1>1, <1>6, <1>7, <1>13 DEF GoTo, fetched
  <2>2. job'.upto = upto /\ job'.fetched = fetched
    BY <2>1 DEF NoJob
  <2>3. FetchedCovers(job.fetched, job.upto)'
    BY <1>2, <1>8, <2>2 DEF FetchedCovers
  <2>4. Closed(job.upto)'
    BY <1>10, <2>2 DEF Closed
  <2>5. JobInv'
    BY <1>2, <1>3, <2>1, <2>2, <2>3, <2>4, <1>7 DEF JobInv, NoCheckpoint
  <2> QED BY <1>9, <1>11, <2>5
<1> QED BY <1>1, <1>7, <1>12, <1>13

LEMMA ApplyInv ==
    ASSUME IInv, TypeOK', Apply
    PROVE  IInv'
<1> USE DEF IInv
<1>1. /\ pc = "apply" /\ pc' = "publish"
      /\ db' = ApplyChanges(db, job.changes) /\ checkpoint' = job.upto
      /\ UNCHANGED <<rows, log, readlog, readrow>>
  BY DEF Apply, GoTo, authority, cache
<1>2. /\ checkpoint # NoCheckpoint /\ checkpoint <= job.upto
      /\ Closed(job.upto) /\ BatchExact(job.changes, job.upto)
  BY <1>1 DEF JobInv
<1>3. checkpoint \in Int /\ job.upto \in Int /\ job.upto # NoCheckpoint
  BY DEF TypeOK, NoCheckpoint
<1>4. ASSUME NEW k \in Keys
      PROVE  db'[k].ver <= job.upto /\ db'[k].val = ValAt(k, job.upto)
  <2>1. db[k].ver <= checkpoint /\ db[k].val = ValAt(k, checkpoint) /\ db[k].ver \in Nat
    BY <1>2 DEF ReplicaInv, TypeOK, Row
  <2>2. db'[k] = IF db[k].ver >= job.changes[k].ver THEN db[k] ELSE job.changes[k]
    BY <1>1 DEF ApplyChanges
  <2>3. CASE job.changes[k] = AbsentRow /\ ValAt(k, job.upto) = ValAt(k, checkpoint)
    <3>1. db'[k] = db[k]
      BY <2>1, <2>2, <2>3 DEF AbsentRow
    <3> QED BY <1>2, <1>3, <2>1, <2>3, <3>1
  <2>4. CASE /\ job.changes[k].ver > checkpoint /\ job.changes[k].ver <= job.upto
             /\ job.changes[k].val = ValAt(k, job.upto)
    <3>1. job.changes[k].ver \in Nat
      BY DEF TypeOK, Row
    <3>2. db'[k] = job.changes[k]
      BY <1>3, <2>1, <2>2, <2>4, <3>1
    <3> QED BY <2>4, <3>2
  <2> QED BY <1>2, <2>3, <2>4 DEF BatchExact
<1>5. \A k \in Keys : ValAt(k, checkpoint)' = ValAt(k, job.upto)
  BY <1>1 DEF ValAt, LatestAt
<1>6. Closed(checkpoint)'
  BY <1>1, <1>2 DEF Closed
<1>7. ReplicaInv'
  BY <1>1, <1>4, <1>5, <1>6 DEF ReplicaInv
<1>8. LogMatchesRows' /\ OneVersion'
  BY <1>1 DEF LogMatchesRows, OneVersion
<1>9. JobInv'
  BY <1>1, <1>3 DEF JobInv
<1> QED BY <1>7, <1>8, <1>9

LEMMA CopyPageInv ==
    ASSUME IInv, TypeOK', NEW k \in Keys, CopyPage(k)
    PROVE  IInv'
<1> USE DEF IInv
<1>1. /\ pc = "pages" /\ pc' = "pages" /\ k \in job.todo
      /\ readrow' = [readrow EXCEPT ![k] = Higher(@, job.upto)]
      /\ job' = [job EXCEPT !.todo = @ \ {k}, !.changes[k] = PageOf(k, job.upto)]
      /\ UNCHANGED <<rows, log, readlog, db, checkpoint>>
  BY DEF CopyPage, GoTo, authority, replica
<1>2. job.upto \in 0 .. MaxTs
  BY DEF TypeOK
<1>3. \A j \in Keys : readrow[j] \in 0 .. MaxTs
  BY DEF TypeOK
<1>4. readrow'[k] >= job.upto /\ readrow'[k] >= readrow[k]
  BY <1>1, <1>2, <1>3 DEF Higher, TypeOK
<1>5. \A j \in Keys \ {k} : readrow'[j] = readrow[j]
  BY <1>1 DEF TypeOK
<1>6. \A j \in Keys : readrow'[j] >= readrow[j]
  BY <1>3, <1>4, <1>5
<1>7. \A b \in Buckets : readlog'[b] >= readlog[b]
  BY <1>1 DEF TypeOK
<1>8. ReplicaInv'
  <2>1. CASE checkpoint = NoCheckpoint
    BY <1>1, <2>1 DEF ReplicaInv
  <2>2. CASE checkpoint # NoCheckpoint
    <3>1. PICK c \in 0 .. MaxTs : c = checkpoint /\ c = checkpoint'
      BY <1>1, <2>2 DEF TypeOK
    <3>2. Closed(c)
      BY <2>2, <3>1 DEF ReplicaInv
    <3>3. Closed(c)'
      BY <1>6, <1>7, <3>2, ClosedGrows
    <3>4. Closed(checkpoint)'
      BY <3>1, <3>3 DEF Closed
    <3>5. \A j \in Keys : ValAt(j, checkpoint)' = ValAt(j, checkpoint)
      BY <1>1 DEF ValAt, LatestAt
    <3> QED BY <1>1, <2>2, <3>4, <3>5 DEF ReplicaInv
  <2> QED BY <2>1, <2>2
<1>9. LogMatchesRows' /\ OneVersion'
  BY <1>1 DEF LogMatchesRows, OneVersion
<1>10. job'.upto = job.upto /\ job'.todo = job.todo \ {k}
  BY <1>1 DEF TypeOK
<1>11. job'.changes = [job.changes EXCEPT ![k] = PageOf(k, job.upto)]
  BY <1>1 DEF TypeOK
<1>12. \A j \in Keys : ValAt(j, job.upto)' = ValAt(j, job.upto)
  BY <1>1, <1>10 DEF ValAt, LatestAt
<1>13. ASSUME NEW j \in Keys \ job'.todo
       PROVE  /\ readrow'[j] >= job.upto
              /\ job'.changes[j].ver <= job.upto
              /\ job'.changes[j].val = ValAt(j, job.upto)
  <2>1. CASE j = k
    <3>1. job'.changes[j] = PageOf(k, job.upto)
      BY <1>11, <2>1 DEF TypeOK
    <3>2. PageOf(k, job.upto).val = ValAt(k, job.upto) /\ PageOf(k, job.upto).ver <= job.upto
      BY <1>2, PageExact
    <3> QED BY <1>4, <2>1, <3>1, <3>2
  <2>2. CASE j # k
    <3>1. j \in Keys \ job.todo /\ job'.changes[j] = job.changes[j]
      BY <1>10, <1>11, <2>2 DEF TypeOK
    <3>2. /\ readrow[j] >= job.upto /\ job.changes[j].ver <= job.upto
          /\ job.changes[j].val = ValAt(j, job.upto)
      BY <1>1, <3>1 DEF JobInv
    <3> QED BY <1>5, <2>2, <3>1, <3>2
  <2> QED BY <2>1, <2>2
<1>14. JobInv'
  BY <1>1, <1>10, <1>12, <1>13 DEF JobInv
<1> QED BY <1>8, <1>9, <1>14

LEMMA InstallInv ==
    ASSUME IInv, TypeOK', Install
    PROVE  IInv'
<1> USE DEF IInv
<1>1. /\ pc = "pages" /\ job.todo = {} /\ pc' = "installed"
      /\ db' = job.changes /\ checkpoint' = job.upto
      /\ UNCHANGED <<rows, log, readlog, readrow>>
  BY DEF Install, GoTo, authority, cache
<1>2. job.upto \in 0 .. MaxTs /\ job.upto # NoCheckpoint
  BY DEF TypeOK, NoCheckpoint
<1>3. \A k \in Keys : /\ readrow[k] >= job.upto
                      /\ job.changes[k].ver <= job.upto
                      /\ job.changes[k].val = ValAt(k, job.upto)
  BY <1>1 DEF JobInv
<1>4. \A k \in Keys : readrow[k] \in Int
  BY DEF TypeOK
<1>5. Closed(checkpoint)'
  BY <1>1, <1>2, <1>3, <1>4 DEF Closed
<1>6. \A k \in Keys : ValAt(k, checkpoint)' = ValAt(k, job.upto)
  BY <1>1 DEF ValAt, LatestAt
<1>7. ReplicaInv'
  BY <1>1, <1>3, <1>5, <1>6 DEF ReplicaInv
<1>8. LogMatchesRows' /\ OneVersion'
  BY <1>1 DEF LogMatchesRows, OneVersion
<1>9. JobInv'
  BY <1>1, <1>2 DEF JobInv
<1> QED BY <1>7, <1>8, <1>9

LEMMA InductiveInit == Init => IInv
<1> SUFFICES ASSUME Init PROVE IInv
  OBVIOUS
<1>1. TypeOK
  BY TypeInit
<1>2. LogMatchesRows /\ OneVersion
  BY DEF Init, LogMatchesRows, OneVersion
<1>3. ReplicaInv /\ JobInv
  BY DEF Init, ReplicaInv, JobInv
<1> QED BY <1>1, <1>2, <1>3 DEF IInv

LEMMA InductiveNext == IInv /\ [Next]_vars => IInv'
<1> SUFFICES ASSUME IInv, [Next]_vars PROVE IInv'
  OBVIOUS
<1>t. TypeOK'
  BY TypeNext DEF IInv
<1>q. ASSUME UNCHANGED <<rows, log, cache, replica>>, JobInv' PROVE IInv'
  BY <1>t, <1>q, QuietStep DEF IInv
<1>e. ASSUME UNCHANGED <<rows, log, cache, replica, pc, job>> PROVE IInv'
  <2>1. JobInv'
    BY <1>e DEF IInv, JobInv, FetchedCovers, BatchExact, Closed, ValAt, LatestAt,
                cache, replica
  <2> QED BY <1>e, <1>q, <2>1
<1>1. CASE Tick
  BY <1>1, <1>e DEF Tick, authority, engine
<1>2. CASE Write
  <2>1. PICK start \in 0 .. now, ts \in 0 .. MaxTs, S \in (SUBSET Keys) \ {{}} :
           \E writes \in [S -> Contents] : Commit(start, ts, writes)
    BY <1>2 DEF Write
  <2>2. PICK writes \in [S -> Contents] : Commit(start, ts, writes)
    BY <2>1
  <2>3. S \in SUBSET Keys /\ S # {}
    OBVIOUS
  <2> QED BY <1>t, <2>2, <2>3, CommitInv
<1>3. CASE PruneLog
  BY <1>3, <1>e DEF PruneLog, Prune, engine
<1>4. CASE BeginCycle
  <2>1. JobInv'
    BY <1>4 DEF BeginCycle, GoTo, JobInv, replica
  <2> QED BY <1>4, <1>q, <2>1 DEF BeginCycle, authority
<1>5. CASE Poll
  <2>1. PICK t \in ReadTs : PollStale(t) \/ PollNothing(t) \/ PollScan(t)
    BY <1>5 DEF Poll
  <2>2. CASE PollStale(t)
    <3>1. JobInv'
      BY <2>2 DEF PollStale, GoTo, JobInv
    <3> QED BY <2>2, <1>q, <3>1 DEF PollStale, authority
  <2>3. CASE PollNothing(t)
    <3>1. JobInv'
      BY <2>3 DEF PollNothing, GoTo, IInv, JobInv, replica
    <3> QED BY <2>3, <1>q, <3>1 DEF PollNothing, authority
  <2>4. CASE PollScan(t)
    BY <1>t, <2>4, PollInv
  <2> QED BY <2>1, <2>2, <2>3, <2>4
<1>6. CASE MaterializeTruncated
  <2>1. /\ pc = "materialize" /\ pc' = "apply"
        /\ UNCHANGED <<rows, log, cache, replica>>
        /\ job'.upto = job.upto
        /\ job'.changes = Materialize(job.upto, job.fetched)
    BY <1>6 DEF MaterializeTruncated, GoTo, NoJob, authority
  <2>2. /\ checkpoint # NoCheckpoint /\ checkpoint <= job.upto /\ Closed(job.upto)
        /\ FetchedCovers(job.fetched, job.upto)
    BY <2>1 DEF IInv, JobInv
  <2>3. BatchExact(Materialize(job.upto, job.fetched), job.upto)
    <3>1. checkpoint \in 0 .. MaxTs /\ job.upto \in Nat /\ job.fetched \in SUBSET log
      BY <2>2 DEF IInv, TypeOK
    <3> QED BY <2>2, <3>1, MaterializeExact DEF IInv
  <2>4. \A k \in Keys : /\ ValAt(k, job.upto)' = ValAt(k, job.upto)
                        /\ ValAt(k, checkpoint)' = ValAt(k, checkpoint)
    BY <2>1 DEF ValAt, LatestAt, replica
  <2>5. BatchExact(job.changes, job.upto)'
    BY <2>1, <2>3, <2>4 DEF BatchExact, replica
  <2>6. Closed(job.upto)'
    BY <2>1, <2>2 DEF Closed, cache
  <2>7. JobInv'
    BY <2>1, <2>2, <2>5, <2>6 DEF JobInv, replica
  <2> QED BY <1>q, <2>1, <2>7
<1>7. CASE Apply
  BY <1>7, <1>t, ApplyInv
<1>8. CASE Publish
  <2>1. JobInv'
    BY <1>8 DEF Publish, GoTo, JobInv
  <2> QED BY <1>8, <1>q, <2>1 DEF Publish, authority
<1>9. CASE Rebuild
  <2>1. ASSUME NEW t \in ReadTs, OpenSnapshot(t) PROVE IInv'
    <3>1. job'.todo = Keys /\ pc' = "pages"
      BY <2>1 DEF OpenSnapshot, GoTo, NoJob
    <3>2. JobInv'
      BY <3>1 DEF JobInv
    <3> QED BY <2>1, <1>q, <3>2 DEF OpenSnapshot, authority
  <2>2. ASSUME NEW k \in Keys, CopyPage(k) PROVE IInv'
    BY <2>2, <1>t, CopyPageInv
  <2>3. CASE Install
    BY <2>3, <1>t, InstallInv
  <2>4. CASE PublishRebuild
    <3>1. JobInv'
      BY <2>4 DEF PublishRebuild, GoTo, JobInv
    <3> QED BY <2>4, <1>q, <3>1 DEF PublishRebuild, authority
  <2> QED BY <1>9, <2>1, <2>2, <2>3, <2>4 DEF Rebuild
<1>10. CASE Fail
  <2>1. JobInv'
    BY <1>10 DEF Fail, GoTo, JobInv
  <2> QED BY <1>10, <1>q, <2>1 DEF Fail, authority
<1>11. CASE Crash
  <2>1. JobInv'
    BY <1>11 DEF Crash, GoTo, JobInv
  <2> QED BY <1>11, <1>q, <2>1 DEF Crash, authority
<1>12. CASE UNCHANGED vars
  BY <1>12, <1>e DEF vars, authority, engine
<1> QED BY <1>1, <1>2, <1>3, <1>4, <1>5, <1>6, <1>7, <1>8, <1>9, <1>10, <1>11,
           <1>12 DEF Next

\* The invariant holds in every state.
LEMMA Invariant == Spec => []IInv
  BY InductiveInit, InductiveNext, PTL DEF Spec

\* Whatever is committed, pruned, polled, rebuilt, lost or restarted, and for
\* every bucket width, overlap and batch limit, the replica holds exactly the
\* authority's state at its checkpoint (ReplicaSource::poll and snapshot,
\* ReplicaSink::apply and begin_rebuild).
THEOREM Exactness == Spec => []ReplicaExact
<1>1. IInv => ReplicaExact
  BY DEF IInv, ReplicaInv, ReplicaExact
<1> QED BY <1>1, Invariant, PTL

-----------------------------------------------------------------------------
(***************************************************************************)
(* What the KDC is promised of its store: the status vouches for what is   *)
(* on disk, and every step of replication is a step of ReplicaView or      *)
(* leaves what ReplicaView speaks of alone.  Both rest on the operator     *)
(* pruning only what is older than a follower read; pruning closer than    *)
(* that (prune --older-than 0s) lets a rebuild start from a snapshot below *)
(* the checkpoint it replaces.                                             *)
(***************************************************************************)

-----------------------------------------------------------------------------
(* The checkpoint never goes back                                          *)

\* A rebuild begins when the checkpoint is below a prune's cutoff.
LEMMA PrunedBehind ==
    ASSUME TypeOK, StatusInv, checkpoint # NoCheckpoint, PrunedPast(checkpoint, now)
    PROVE  checkpoint + FollowerLag < now
<1>1. PICK p \in prunes : checkpoint < p.cutoff
  BY DEF PrunedPast
<1>2. p.cutoff \in Int /\ p.cutoff + FollowerLag <= now
  BY <1>1 DEF TypeOK, StatusInv
<1>3. checkpoint \in Int /\ now \in Int
  BY DEF TypeOK, NoCheckpoint
<1> QED BY <1>1, <1>2, <1>3

LEMMA StatusInit == Init => StatusInv
  BY DEF Init, StatusInv, StatusDurable, InitStatus

LEMMA StatusNext ==
    ASSUME LagWithinRetention, IInv, TypeOK', StatusInv, [Next]_vars
    PROVE  StatusInv'
<1> USE DEF IInv, StatusDurable
<1>n. now \in Int /\ checkpoint \in Int /\ status.applied \in Int /\ job.upto \in Int
  BY DEF TypeOK, NoCheckpoint
<1>c. \A p \in prunes : p.cutoff \in Int
  BY DEF TypeOK
<1>1. CASE Tick
  BY <1>1, <1>n, <1>c DEF Tick, StatusInv, authority, cache, replica, engine
<1>2. CASE Write
  BY <1>2 DEF Write, Commit, StatusInv, cache, replica, engine
<1>3. CASE PruneLog
  <2>1. PICK start \in 0 .. now, ts \in 0 .. MaxTs, retention \in Retentions :
           Prune(start, ts, retention)
    BY <1>3 DEF PruneLog
  <2>2. start - retention + FollowerLag <= now
    BY <1>n, <2>1 DEF LagWithinRetention
  <2>3. /\ prunes' = prunes \union {[ts |-> ts, cutoff |-> start - retention]}
        /\ UNCHANGED <<now, replica, engine>>
    BY <2>1 DEF Prune
  <2> QED BY <2>2, <2>3 DEF StatusInv, replica, engine
<1>4. CASE BeginCycle
  <2>1. PrunedPast(checkpoint, now) /\ checkpoint # NoCheckpoint => checkpoint + FollowerLag < now
    BY PrunedBehind
  <2>2. status'.applied = status.applied /\ (status'.bootstrapped => status.bootstrapped)
    BY <1>4 DEF BeginCycle, TypeOK
  <2>3. /\ UNCHANGED <<now, prunes, checkpoint>>
        /\ pc' \in {"open", "cycle", "poll"}
        /\ pc' = "open" => checkpoint = NoCheckpoint \/ PrunedPast(checkpoint, now)
    BY <1>4 DEF BeginCycle, GoTo, authority, replica
  <2> QED BY <2>1, <2>2, <2>3 DEF StatusInv
<1>5. CASE Poll
  <2>1. PICK t \in ReadTs : PollStale(t) \/ PollNothing(t) \/ PollScan(t)
    BY <1>5 DEF Poll
  <2>2. CASE PollStale(t)
    BY <2>2 DEF PollStale, GoTo, StatusInv, authority, replica
  <2>3. CASE PollNothing(t)
    BY <2>3, <1>n DEF PollNothing, GoTo, NoJob, StatusInv, authority, replica
  <2>4. CASE PollScan(t)
    <3>1. pc' \in {"apply", "materialize"}
      BY <2>4 DEF PollScan, GoTo
    <3> QED BY <2>4, <3>1 DEF PollScan, StatusInv, authority, replica
  <2> QED BY <2>1, <2>2, <2>3, <2>4
<1>6. CASE MaterializeTruncated
  BY <1>6 DEF MaterializeTruncated, GoTo, StatusInv, authority, replica
<1>7. CASE Apply
  <2>1. checkpoint <= job.upto
    BY <1>7 DEF Apply, JobInv
  <2> QED BY <1>7, <1>n, <2>1 DEF Apply, GoTo, NoJob, StatusInv, authority
<1>8. CASE Publish
  BY <1>8 DEF Publish, GoTo, StatusInv, authority, replica, TypeOK
<1>9. CASE Rebuild
  <2>1. ASSUME NEW t \in ReadTs, OpenSnapshot(t) PROVE StatusInv'
    <3>1. checkpoint <= t
      BY <2>1, <1>n DEF OpenSnapshot, ReadTs, StatusInv, NoCheckpoint
    <3> QED BY <2>1, <3>1 DEF OpenSnapshot, GoTo, NoJob, StatusInv, authority, replica
  <2>2. ASSUME NEW k \in Keys, CopyPage(k) PROVE StatusInv'
    <3>1. job'.upto = job.upto
      BY <2>2 DEF CopyPage, GoTo, TypeOK
    <3> QED BY <2>2, <3>1 DEF CopyPage, GoTo, StatusInv, authority, replica
  <2>3. CASE Install
    BY <2>3, <1>n DEF Install, GoTo, NoJob, StatusInv, authority
  <2>4. CASE PublishRebuild
    BY <2>4 DEF PublishRebuild, GoTo, StatusInv, authority, replica
  <2> QED BY <1>9, <2>1, <2>2, <2>3, <2>4 DEF Rebuild
<1>10. CASE Fail
  BY <1>10 DEF Fail, GoTo, StatusInv, authority, replica, TypeOK
<1>11. CASE Crash
  BY <1>11 DEF Crash, GoTo, InitStatus, StatusInv, authority, replica
<1>12. CASE UNCHANGED vars
  BY <1>12 DEF vars, StatusInv, authority, replica, engine
<1> QED BY <1>1, <1>2, <1>3, <1>4, <1>5, <1>6, <1>7, <1>8, <1>9, <1>10, <1>11,
           <1>12 DEF Next

LEMMA StatusInvariant ==
    ASSUME LagWithinRetention
    PROVE  Spec => [](IInv /\ StatusInv)
<1>1. Init => IInv /\ StatusInv
  BY InductiveInit, StatusInit
<1>2. IInv /\ StatusInv /\ [Next]_vars => (IInv /\ StatusInv)'
  <2> SUFFICES ASSUME IInv, StatusInv, [Next]_vars PROVE IInv' /\ StatusInv'
    OBVIOUS
  <2>1. IInv'
    BY InductiveNext
  <2>2. TypeOK'
    BY <2>1 DEF IInv
  <2> QED BY <2>1, <2>2, StatusNext
<1> QED BY <1>1, <1>2, PTL DEF Spec

\* What heartbeats and the gate vouch for has reached the disk: no crash,
\* failed cycle, rebuild or prune publishes a timestamp above the checkpoint
\* of the database CURRENT names (EngineHandle::status, cycle, rebuild).
THEOREM VouchedDurable ==
    ASSUME LagWithinRetention
    PROVE  Spec => []StatusDurable
<1>1. IInv /\ StatusInv => StatusDurable
  BY DEF StatusInv
<1> QED BY <1>1, StatusInvariant, PTL

-----------------------------------------------------------------------------
(* Replication implements ReplicaView                                      *)

\* The step that moves the checkpoint moves the whole view to it.
LEMMA MovesWhole ==
    ASSUME IInv, IInv', UNCHANGED rows, checkpoint' >= checkpoint,
           checkpoint' # NoCheckpoint
    PROVE  View!Advance
<1>1. \A k \in Keys : db'[k].val = ValAt(k, checkpoint)'
  BY DEF IInv, ReplicaInv
<1>2. \A k \in Keys : ValAt(k, checkpoint)' = View!ValAt(k, checkpoint')
  BY DEF ValAt, LatestAt, View!ValAt, View!LatestAt
<1>3. [k \in Keys |-> db'[k].val] = [k \in Keys |-> View!ValAt(k, checkpoint')]
  BY <1>1, <1>2
<1> QED BY <1>3 DEF View!Advance, View!NoCheckpoint, NoCheckpoint

LEMMA ViewInit == Init => View!Init
  BY DEF Init, View!Init, NoRows, AbsentRow, NoCheckpoint, View!NoCheckpoint

LEMMA ViewStep ==
    ASSUME IInv, IInv', StatusInv, [Next]_vars
    PROVE  [View!Next]_<<rows, checkpoint, [k \in Keys |-> db[k].val]>>
<1>q. ASSUME UNCHANGED <<rows, replica>>
      PROVE  UNCHANGED <<rows, checkpoint, [k \in Keys |-> db[k].val]>>
  BY <1>q DEF replica
<1>n. checkpoint \in Int /\ job.upto \in 0 .. MaxTs
  BY DEF IInv, TypeOK, NoCheckpoint
<1>1. CASE Write
  <2>1. PICK start \in 0 .. now, ts \in 0 .. MaxTs, S \in (SUBSET Keys) \ {{}} :
           \E writes \in [S -> Contents] : Commit(start, ts, writes)
    BY <1>1 DEF Write
  <2>2. PICK writes \in [S -> Contents] : Commit(start, ts, writes)
    BY <2>1
  <2>3. S \in SUBSET Keys /\ S # {}
    OBVIOUS
  <2>4. ts > checkpoint
    <3>1. CASE checkpoint = NoCheckpoint
      BY <2>2, <3>1 DEF Commit, NoCheckpoint
    <3>2. CASE checkpoint # NoCheckpoint
      <4>1. checkpoint \in 0 .. MaxTs /\ Closed(checkpoint)
        BY <3>2 DEF IInv, TypeOK, ReplicaInv
      <4> QED BY <2>2, <2>3, <4>1, CommitAboveClosed DEF IInv
    <3> QED BY <3>1, <3>2
  <2>5. rows \subseteq rows' /\ \A r \in rows' \ rows : r.ts = ts
    BY <2>2 DEF Commit
  <2>6. UNCHANGED <<checkpoint, [k \in Keys |-> db[k].val]>>
    BY <2>2 DEF Commit, replica
  <2> QED BY <2>4, <2>5, <2>6 DEF View!Next, View!Write
<1>2. CASE Apply
  <2>1. /\ checkpoint' = job.upto /\ checkpoint <= job.upto /\ UNCHANGED rows
    BY <1>2 DEF Apply, IInv, JobInv, authority
  <2>2. View!Advance
    BY <1>n, <2>1, MovesWhole DEF NoCheckpoint
  <2> QED BY <2>2 DEF View!Next
<1>3. CASE Install
  <2>1. /\ checkpoint' = job.upto /\ checkpoint <= job.upto /\ UNCHANGED rows
    BY <1>3 DEF Install, StatusInv, authority
  <2>2. View!Advance
    BY <1>n, <2>1, MovesWhole DEF NoCheckpoint
  <2> QED BY <2>2 DEF View!Next
<1>4. CASE Tick \/ PruneLog \/ BeginCycle \/ MaterializeTruncated \/ Publish \/ Fail \/ Crash
  <2>1. UNCHANGED <<rows, replica>>
    BY <1>4 DEF Tick, PruneLog, Prune, BeginCycle, MaterializeTruncated, Publish, Fail, Crash,
                authority
  <2> QED BY <1>q, <2>1
<1>5. CASE Poll
  <2>1. UNCHANGED <<rows, replica>>
    BY <1>5 DEF Poll, PollStale, PollNothing, PollScan, authority
  <2> QED BY <1>q, <2>1
<1>6. CASE Rebuild /\ ~Install
  <2>1. UNCHANGED <<rows, replica>>
    BY <1>6 DEF Rebuild, OpenSnapshot, CopyPage, PublishRebuild, authority
  <2> QED BY <1>q, <2>1
<1>7. CASE UNCHANGED vars
  <2>1. UNCHANGED <<rows, replica>>
    BY <1>7 DEF vars, authority
  <2> QED BY <1>q, <2>1
<1> QED BY <1>1, <1>2, <1>3, <1>4, <1>5, <1>6, <1>7 DEF Next

\* Replication implements ReplicaView: every poll, truncated or not, rebuild,
\* failure, prune and restart either leaves the KDC's view alone or moves all
\* of it to a later timestamp, and nothing is ever committed at or below the
\* timestamp the view stands at.
THEOREM Implementation ==
    ASSUME LagWithinRetention
    PROVE  Spec => ImplementsView
<1>1. IInv /\ StatusInv /\ (IInv /\ StatusInv)' /\ [Next]_vars
        => [View!Next]_<<rows, checkpoint, [k \in Keys |-> db[k].val]>>
  BY ViewStep
<1>2. Spec => [](IInv /\ StatusInv)
  BY StatusInvariant
<1> QED BY <1>1, <1>2, ViewInit, PTL DEF Spec, ImplementsView, View!Spec
=============================================================================
