------------------------------- MODULE Kprop -------------------------------
(***************************************************************************)
(* Full propagation: a primary's dump (krb5-rs-kdb dump), pushed by kprop  *)
(* to the kpropd of each replica, which receives it into a temporary file, *)
(* renames it, loads it and acknowledges it (bin/krb5-rs-kprop.rs,         *)
(* bin/krb5-rs-kpropd.rs, kdc/kdb/kprop.rs).  Two pushers share the dump   *)
(* file: the --interval loop and an operator's own dump and push.          *)
(*                                                                         *)
(* A dump of version v is the sequence of its records, one to a block; a   *)
(* file cut off between two records loads as if it were whole.  An open    *)
(* file is the inode, so a dump renamed over it changes nothing for its    *)
(* reader.                                                                 *)
(***************************************************************************)
EXTENDS ApContext, FiniteSets, FiniteSetsExt

CONSTANTS KHosts, HungHosts,   \* the replicas, and those whose kpropd never answers
          KRecords,            \* the number of records of each version of the database
          KModes,              \* "standalone" and "inetd", as kpropd is started
          KConns, KInodes,     \* connections and files that exist at a time
          MaxKFaults           \* failures and pushes by the operator

\* A dump has a first version and begins with a header; 0 is no connection and
\* no file.
ASSUME KpropAssumption ==
    /\ KRecords \in Seq(Nat \ {0}) /\ KRecords # << >>
    /\ KConns \subseteq Nat \ {0} /\ KInodes \subseteq Nat \ {0}

Versions == DOMAIN KRecords
Pushers == {"loop", "op"}

VARIABLES
    kmode,
    kver,      \* the version of the primary's database
    dump,      \* the dump file: its version, and whether .dump_ok is no older
    push,      \* per pusher: pc, the dump it writes, hosts to go, its connection
    kconn,     \* the connections, each with the state of its handler
    kqueue,    \* per host: connections not yet accepted
    names,     \* per host: the inodes of <file>.temp and <file>, 0 if none
    inode,     \* per host and inode: its records
    kdb,       \* per host: the records of its database
    kfaults

kVars == <<kmode, kver, dump, push, kconn, kqueue, names, inode, kdb, kfaults>>

Records(v) == [i \in 1..KRecords[v] |-> <<v, i>>]
NoConn == 0

FreeConn == [st |-> "free", host |-> NoAp, open |-> FALSE, c2s |-> << >>, s2c |-> << >>,
             hpc |-> "none", hctx |-> NoAp, size |-> 0, out |-> 0, lock |-> 0, at |-> 0,
             ver |-> 0, loaded |-> FALSE]
IdlePush == [pc |-> "idle", snap |-> 0, fresh |-> FALSE, todo |-> {}, host |-> NoAp,
             conn |-> NoConn, ctx |-> NoAp, fd |-> 0, sent |-> 0]

KInit ==
    /\ kmode \in KModes
    /\ kver = 1
    /\ dump = [ver |-> 0, ok |-> FALSE]
    /\ push = [p \in Pushers |-> IdlePush]
    /\ kconn = [i \in KConns |-> FreeConn]
    /\ kqueue = [h \in KHosts |-> << >>]
    /\ names = [h \in KHosts |-> [temp |-> 0, file |-> 0]]
    /\ inode = [h \in KHosts |-> [n \in KInodes |-> << >>]]
    /\ kdb = [h \in KHosts |-> << >>]
    /\ kfaults = 0

Fault == kfaults < MaxKFaults /\ kfaults' = kfaults + 1
PStep(p, rec) == push' = [push EXCEPT ![p] = rec]

----------------------------------------------------------------------------
(* The primary *)

Change ==
    /\ kver + 1 \in Versions
    /\ kver' = kver + 1
    /\ UNCHANGED <<kmode, dump, push, kconn, kqueue, names, inode, kdb, kfaults>>

\* A stamp on .dump_ok is newer than every dump written before it.
Stamped == [q \in Pushers |-> [push[q] EXCEPT !.fresh = TRUE]]

\* A round: the database is read.
DumpStart(p) ==
    /\ push[p].pc = "idle"
    /\ IF p = "op" THEN Fault ELSE UNCHANGED kfaults
    /\ PStep(p, [IdlePush EXCEPT !.pc = "write", !.snap = kver])
    /\ UNCHANGED <<kmode, kver, dump, kconn, kqueue, names, inode, kdb>>

\* write_dump_file: the first stamp, and the dump into a file of this process's
\* own, in the second of the stamp or in a later one.
DumpWrite(p) ==
    /\ push[p].pc = "write"
    /\ dump' = [dump EXCEPT !.ok = TRUE]
    /\ \E same \in BOOLEAN :
         push' = [Stamped EXCEPT ![p] = [push[p] EXCEPT !.pc = "rename", !.fresh = same]]
    /\ UNCHANGED <<kmode, kver, kconn, kqueue, names, inode, kdb, kfaults>>

DumpRename(p) ==
    /\ push[p].pc = "rename"
    /\ dump' = [ver |-> push[p].snap, ok |-> push[p].fresh]
    /\ PStep(p, [push[p] EXCEPT !.pc = "stamp"])
    /\ UNCHANGED <<kmode, kver, kconn, kqueue, names, inode, kdb, kfaults>>

\* The loop pushes to every host in turn, the operator to one.
DumpStamp(p) ==
    /\ push[p].pc = "stamp"
    /\ dump' = [dump EXCEPT !.ok = TRUE]
    /\ \E hosts \in IF p = "loop" THEN {KHosts} ELSE {{h} : h \in KHosts \ HungHosts} :
         push' = [Stamped EXCEPT ![p] = [push[p] EXCEPT !.pc = "next", !.todo = hosts]]
    /\ UNCHANGED <<kmode, kver, kconn, kqueue, names, inode, kdb, kfaults>>

\* The dump fails, or kdb dies under it; the loop goes on to its next round.
DumpFails(p) ==
    /\ push[p].pc \in {"write", "rename", "stamp"} /\ Fault
    /\ PStep(p, IdlePush)
    /\ UNCHANGED <<kmode, kver, dump, kconn, kqueue, names, inode, kdb>>

\* propagate_forever: the next host, in any order, or the end of the round
NextHost(p) ==
    /\ push[p].pc = "next"
    /\ IF push[p].todo = {} THEN PStep(p, IdlePush)
       ELSE \E h \in push[p].todo :
              PStep(p, [push[p] EXCEPT !.pc = "open", !.todo = @ \ {h}, !.host = h])
    /\ UNCHANGED <<kmode, kver, dump, kconn, kqueue, names, inode, kdb, kfaults>>

\* main, open_database: a dump newer than its stamp ends this push.
OpenDatabase(p) ==
    /\ push[p].pc = "open"
    /\ PStep(p, [push[p] EXCEPT !.pc = IF dump.ok THEN "connect" ELSE "next", !.fd = dump.ver])
    /\ UNCHANGED <<kmode, kver, dump, kconn, kqueue, names, inode, kdb, kfaults>>

\* get_tickets fails: the KDC is down, the keytab has no key.
GetTicketsFails(p) ==
    /\ push[p].pc = "open" /\ Fault
    /\ PStep(p, [push[p] EXCEPT !.pc = "next"])
    /\ UNCHANGED <<kmode, kver, dump, kconn, kqueue, names, inode, kdb>>

\* connect, and sendauth up to the status byte
Connect(p) ==
    /\ push[p].pc = "connect"
    /\ \E i \in KConns :
         /\ kconn[i].st = "free" /\ \A j \in KConns : kconn[j].st = "free" => i <= j
         /\ kconn' = [kconn EXCEPT ![i] =
              [FreeConn EXCEPT !.st = "used", !.host = push[p].host, !.open = TRUE,
                               !.c2s = <<"versions">>, !.hpc = "wait", !.ver = push[p].fd]]
         /\ kqueue' = [kqueue EXCEPT ![push[p].host] = Append(@, i)]
         /\ PStep(p, [push[p] EXCEPT !.pc = "status", !.conn = i, !.sent = 0,
                                    !.ctx = ApNew({"seq"}, "kprop", NoAp, <<18>>)])
    /\ UNCHANGED <<kmode, kver, dump, names, inode, kdb, kfaults>>

Ticket0 == [key |-> "session", etype |-> 18, kvno |-> 1, server |-> "host",
            client |-> "primary", caddr |-> NoAp, transited |-> FALSE, start |-> 0, end |-> 0,
            invalid |-> FALSE]
SendauthOpts == [mutual |-> TRUE, negotiate |-> FALSE, subkey |-> FALSE]

\* What the client writes and takes off its connection
Wrote(i, msg) == [kconn EXCEPT ![i].c2s = Append(@, msg)]
Took(i) == [kconn EXCEPT ![i].s2c = Tail(@)]
Answer(p, pc) ==
    /\ push[p].pc = pc /\ push[p].conn # NoConn
    /\ kconn[push[p].conn].s2c # << >>
ApplyAnswer(p) == kconn[push[p].conn].s2c[1]

\* sendauth: the AP-REQ
SendApReq(p) ==
    /\ Answer(p, "status")
    /\ \E r \in {ApMkReq(push[p].ctx, SendauthOpts, [tkt |-> Ticket0, client |-> "primary"], 1, 0, 0)} :
         /\ kconn' = [Took(push[p].conn) EXCEPT ![push[p].conn].c2s = Append(@, r.out)]
         /\ PStep(p, [push[p] EXCEPT !.pc = "rep", !.ctx = r.ctx])
    /\ UNCHANGED <<kmode, kver, dump, kqueue, names, inode, kdb, kfaults>>

\* sendauth's AP-REP, and xmit_database's size and cipher state
SendSize(p) ==
    /\ Answer(p, "rep")
    /\ \E r \in {ApRdRep(push[p].ctx, ApplyAnswer(p))} :
       \E s \in {ApMake(r.ctx, "safe", KRecords[push[p].fd], 1, 0)} :
         /\ kconn' = [Took(push[p].conn) EXCEPT ![push[p].conn].c2s = Append(@, s.out)]
         /\ PStep(p, [push[p] EXCEPT !.pc = "xmit", !.ctx = InitIvector(s.ctx)])
    /\ UNCHANGED <<kmode, kver, dump, kqueue, names, inode, kdb, kfaults>>

\* One block; after the last the pusher waits.
SendBlock(p) ==
    /\ push[p].pc = "xmit" /\ push[p].sent < KRecords[push[p].fd]
    /\ \E r \in {ApMake(push[p].ctx, "priv", Records(push[p].fd)[push[p].sent + 1],
                        push[p].sent + 2, 0)} :
         /\ kconn' = Wrote(push[p].conn, r.out)
         /\ PStep(p, [push[p] EXCEPT !.sent = @ + 1, !.ctx = r.ctx,
                                    !.pc = IF push[p].sent + 1 = KRecords[push[p].fd] THEN "ack" ELSE @])
    /\ UNCHANGED <<kmode, kver, dump, kqueue, names, inode, kdb, kfaults>>

\* A connection that no one holds any more is gone.
Hangup(i) == [kconn EXCEPT ![i] =
                IF @.hpc = "end" \/ @.host \in HungHosts THEN FreeConn
                ELSE [@ EXCEPT !.open = FALSE, !.s2c = << >>]]
OnTo(p) == [push[p] EXCEPT !.pc = "next", !.host = NoAp, !.conn = NoConn, !.ctx = NoAp,
                           !.fd = 0, !.sent = 0]

\* The acknowledgement: the right size is a success, anything else is not.
\* done is the version whose push succeeded (update_last_prop_file).
ReadAck(p) ==
    /\ Answer(p, "ack")
    /\ kconn' = Hangup(push[p].conn)
    /\ PStep(p, OnTo(p))
    /\ UNCHANGED <<kmode, kver, dump, kqueue, names, inode, kdb, kfaults>>

\* What the answer to p would make it report
Succeeds(p) ==
    /\ Answer(p, "ack")
    /\ LET r == ApRead(push[p].ctx, "safe", ApplyAnswer(p), 0)
       IN  r.ok /\ r.out = KRecords[push[p].fd]

\* Reading from a connection whose other end is gone
PushFails(p) ==
    /\ push[p].conn # NoConn /\ push[p].pc \in {"status", "rep", "ack"}
    /\ kconn[push[p].conn].hpc \in {"end", "orphan"} /\ kconn[push[p].conn].s2c = << >>
    /\ kconn' = Hangup(push[p].conn)
    /\ PStep(p, OnTo(p))
    /\ UNCHANGED <<kmode, kver, dump, kqueue, names, inode, kdb, kfaults>>

\* Mutant of PushKilled: the loop waits for its child without a deadline.
PushKilledNever(p) ==
    /\ push[p].conn # NoConn /\ push[p].host \notin HungHosts /\ Fault
    /\ kconn' = Hangup(push[p].conn)
    /\ PStep(p, OnTo(p))
    /\ UNCHANGED <<kmode, kver, dump, kqueue, names, inode, kdb>>

\* kprop dies, or wait_deadline kills it: always in the end if the replica
\* does not answer.
PushKilled(p) ==
    /\ push[p].conn # NoConn
    /\ IF push[p].host \in HungHosts THEN UNCHANGED kfaults ELSE Fault
    /\ kconn' = Hangup(push[p].conn)
    /\ kqueue' = [h \in KHosts |-> IF h \in HungHosts THEN SelectSeq(kqueue[h], LAMBDA i : i # push[p].conn)
                                  ELSE kqueue[h]]
    /\ PStep(p, OnTo(p))
    /\ UNCHANGED <<kmode, kver, dump, names, inode, kdb>>

----------------------------------------------------------------------------
(* kpropd *)

Handlers(h) == {i \in KConns : kconn[i].st = "used" /\ kconn[i].host = h
                               /\ kconn[i].hpc \notin {"wait", "end", "orphan"}}
\* Loads that outlived the kpropd that started them, and need no connection
Orphans(h) == {i \in KConns : kconn[i].st = "used" /\ kconn[i].host = h /\ kconn[i].hpc = "orphan"}

\* do_standalone serves one connection at a time; inetd starts a process for
\* each.
KAccept(h) ==
    /\ h \notin HungHosts /\ kqueue[h] # << >>
    /\ kmode = "standalone" => Handlers(h) = {}
    /\ kqueue' = [kqueue EXCEPT ![h] = Tail(@)]
    /\ kconn' = [kconn EXCEPT ![kqueue[h][1]].hpc = "versions",
                   ![kqueue[h][1]].hctx = ApNew({"seq"}, "kprop", NoAp, <<18>>)]
    /\ UNCHANGED <<kmode, kver, dump, push, names, inode, kdb, kfaults>>

\* The handler of i reads a message in pc; a closed connection with nothing
\* left to read ends it (HandlerFails).
Reads(i, pc) == kconn[i].st = "used" /\ kconn[i].hpc = pc /\ kconn[i].c2s # << >>
Said(c, msg) == IF c.open THEN [c EXCEPT !.s2c = Append(@, msg)] ELSE c
KEnded(c) == IF ~c.open THEN FreeConn
             ELSE [c EXCEPT !.hpc = "end", !.c2s = << >>, !.hctx = NoAp, !.out = 0, !.lock = 0]
Handled(i, c) == kconn' = [kconn EXCEPT ![i] = IF c.hpc = "end" THEN KEnded(c) ELSE c]

\* recvauth: the versions, then the AP-REQ
RecvVersions(i) ==
    /\ Reads(i, "versions")
    /\ Handled(i, Said([kconn[i] EXCEPT !.hpc = "auth", !.c2s = Tail(@)], "status"))
    /\ UNCHANGED <<kmode, kver, dump, push, kqueue, names, inode, kdb, kfaults>>

\* The AP-REQ.  A client that is on the ACL goes on; ReplayCache::check takes
\* two requests of one client in one microsecond for a replay.
RecvAuth(i) ==
    /\ Reads(i, "auth")
    /\ \E r \in {ApRdReq(kconn[i].hctx, kconn[i].c2s[1], "host", {1}, 0)} :
       \E t \in {IF r.ok THEN ApMkRep(r.ctx, 9) ELSE r} :
         Handled(i, IF r.ok THEN Said([kconn[i] EXCEPT !.hpc = "lock", !.c2s = Tail(@), !.hctx = t.ctx],
                                      t.out)
                    ELSE [kconn[i] EXCEPT !.hpc = "end"])
    /\ UNCHANGED <<kmode, kver, dump, push, kqueue, names, inode, kdb, kfaults>>

RecvReplay(i) ==
    /\ Reads(i, "auth") /\ Fault
    /\ Handled(i, [kconn[i] EXCEPT !.hpc = "end"])
    /\ UNCHANGED <<kmode, kver, dump, push, kqueue, names, inode, kdb>>

\* Files of h nothing refers to any more
Unused(h) == KInodes \ ({names[h].temp, names[h].file}
                        \cup UNION {{kconn[j].out, kconn[j].lock} : j \in Handlers(h) \cup Orphans(h)})
\* open(temp) with create: the inode it gives
Opened(h) == IF names[h].temp # 0 THEN {names[h].temp}
             ELSE {n \in Unused(h) : \A m \in Unused(h) : n <= m}

\* doit opens the temporary file and then locks what it opened ...
OpenTemp(i) ==
    /\ kconn[i].st = "used" /\ kconn[i].hpc = "lock"
    /\ \E n \in Opened(kconn[i].host) :
         /\ names' = [names EXCEPT ![kconn[i].host].temp = n]
         /\ Handled(i, [kconn[i] EXCEPT !.hpc = "locking", !.lock = n])
    /\ UNCHANGED <<kmode, kver, dump, push, kqueue, inode, kdb, kfaults>>

\* ... and opens it again by its name, truncating it, to write to.  No one
\* else may hold the lock.
LockTemp(i) ==
    /\ kconn[i].st = "used" /\ kconn[i].hpc = "locking"
    /\ LET h == kconn[i].host IN
       IF \E j \in Handlers(h) \ {i} : kconn[j].lock = kconn[i].lock /\ kconn[j].hpc # "locking"
       THEN /\ Handled(i, [kconn[i] EXCEPT !.hpc = "end"])
            /\ UNCHANGED <<names, inode>>
       ELSE \E n \in Opened(h) :
              /\ names' = [names EXCEPT ![h].temp = n]
              /\ inode' = [inode EXCEPT ![h][n] = << >>]
              /\ Handled(i, [kconn[i] EXCEPT !.hpc = "size", !.out = n, !.at = 0])
    /\ UNCHANGED <<kmode, kver, dump, push, kqueue, kdb, kfaults>>

\* recv_database: the size ...
RecvSize(i) ==
    /\ Reads(i, "size")
    /\ \E r \in {ApRead(kconn[i].hctx, "safe", kconn[i].c2s[1], 0)} :
         Handled(i, IF r.ok THEN [kconn[i] EXCEPT !.hpc = "recv", !.c2s = Tail(@), !.size = r.out,
                                                  !.hctx = InitIvector(r.ctx)]
                    ELSE [kconn[i] EXCEPT !.hpc = "end"])
    /\ UNCHANGED <<kmode, kver, dump, push, kqueue, names, inode, kdb, kfaults>>

\* Writing at an offset the file does not reach leaves a hole.
PutAt(s, at, b) == [k \in 1..Max({Len(s), at}) |->
                      IF k = at THEN b ELSE IF k <= Len(s) THEN s[k] ELSE "hole"]

\* ... and as many blocks as it says
RecvBlock(i) ==
    /\ Reads(i, "recv") /\ kconn[i].at < kconn[i].size
    /\ \E r \in {ApRead(kconn[i].hctx, "priv", kconn[i].c2s[1], 0)} :
         /\ Handled(i, IF r.ok THEN [kconn[i] EXCEPT !.c2s = Tail(@), !.at = @ + 1, !.hctx = r.ctx]
                       ELSE [kconn[i] EXCEPT !.hpc = "end"])
         /\ inode' = IF r.ok THEN [inode EXCEPT ![kconn[i].host][kconn[i].out] =
                                     PutAt(@, kconn[i].at + 1, r.out)]
                     ELSE inode
    /\ UNCHANGED <<kmode, kver, dump, push, kqueue, names, kdb, kfaults>>

\* Mutant of WholeReceived: the size announced is only an upper bound.
AnythingReceived(i) == kconn[i].at <= kconn[i].size

WholeReceived(i) == kconn[i].at = kconn[i].size

\* sync, rename: whatever the temporary file's name refers to by now
RenameTemp(i) ==
    /\ kconn[i].st = "used" /\ kconn[i].hpc = "recv" /\ WholeReceived(i)
    /\ LET h == kconn[i].host IN
       IF names[h].temp = 0
       THEN Handled(i, [kconn[i] EXCEPT !.hpc = "end"]) /\ UNCHANGED names
       ELSE /\ names' = [names EXCEPT ![h] = [temp |-> 0, file |-> names[h].temp]]
            /\ Handled(i, [kconn[i] EXCEPT !.hpc = "load"])
    /\ UNCHANGED <<kmode, kver, dump, push, kqueue, inode, kdb, kfaults>>

\* A file of records loads, wherever it ends.
Parses(s) == \A k \in DOMAIN s : s[k] # "hole"

\* The connections to h, once it has loaded s
NowLoaded(h, s) ==
    [j \in KConns |-> IF kconn[j].host = h /\ kconn[j].ver # 0
                      THEN [kconn[j] EXCEPT !.loaded = @ \/ s = Records(kconn[j].ver)] ELSE kconn[j]]

\* load_database: the child reads the file by its name and replaces the
\* database; the size goes back in a KRB-SAFE message once it has exited.
LoadDatabase(i) ==
    /\ kconn[i].st = "used" /\ kconn[i].hpc = "load"
    /\ LET h == kconn[i].host
           s == inode[h][names[h].file]
           ack == ApMake(kconn[i].hctx, "safe", kconn[i].size, 9, 0).out
       IN  IF Parses(s)
           THEN /\ kdb' = [kdb EXCEPT ![h] = s]
                /\ kconn' = [NowLoaded(h, s) EXCEPT ![i] = KEnded(Said(@, ack))]
           ELSE Handled(i, [kconn[i] EXCEPT !.hpc = "end"]) /\ UNCHANGED kdb
    /\ UNCHANGED <<kmode, kver, dump, push, kqueue, names, inode, kfaults>>

\* Mutant of LoadFails: the exit status of the load is not looked at.
LoadFailsUnnoticed(i) ==
    /\ kconn[i].st = "used" /\ kconn[i].hpc = "load" /\ Fault
    /\ LET ack == ApMake(kconn[i].hctx, "safe", kconn[i].size, 9, 0).out
       IN  Handled(i, [Said(kconn[i], ack) EXCEPT !.hpc = "end"])
    /\ UNCHANGED <<kmode, kver, dump, push, kqueue, names, inode, kdb>>

\* The load fails, and no one is told it succeeded.
LoadFails(i) ==
    /\ kconn[i].st = "used" /\ kconn[i].hpc \in {"load", "orphan"} /\ Fault
    /\ Handled(i, [kconn[i] EXCEPT !.hpc = "end"])
    /\ UNCHANGED <<kmode, kver, dump, push, kqueue, names, inode, kdb>>

\* The end of a connection that kprop closed, or that broke
HandlerFails(i) ==
    /\ kconn[i].st = "used" /\ kconn[i].hpc \in {"versions", "auth", "size", "recv"}
    /\ ~kconn[i].open /\ kconn[i].c2s = << >>
    /\ kconn[i].hpc = "recv" => kconn[i].at < kconn[i].size
    /\ Handled(i, [kconn[i] EXCEPT !.hpc = "end"])
    /\ UNCHANGED <<kmode, kver, dump, push, kqueue, names, inode, kdb, kfaults>>

\* kpropd dies and is started again, and accepts at once.  Its connections and
\* locks go with it; a load that it started goes on beside it ...
KCut(c) == IF c.hpc = "load"
           THEN [c EXCEPT !.hpc = "orphan", !.c2s = << >>, !.s2c = << >>, !.hctx = NoAp, !.out = 0, !.lock = 0]
           ELSE KEnded([c EXCEPT !.s2c = << >>])
KRestart(h) ==
    /\ Fault /\ \E i \in KConns : kconn[i].host = h /\ kconn[i].hpc # "orphan"
    /\ kconn' = [i \in KConns |-> IF kconn[i].st = "used" /\ kconn[i].host = h /\ kconn[i].hpc # "orphan"
                                  THEN KCut(kconn[i]) ELSE kconn[i]]
    /\ kqueue' = [kqueue EXCEPT ![h] = << >>]
    /\ UNCHANGED <<kmode, kver, dump, push, names, inode, kdb>>

\* ... opens the file by its name, whichever push has renamed one to it since ...
OrphanOpen(i) ==
    /\ kconn[i].st = "used" /\ kconn[i].hpc = "orphan" /\ kconn[i].out = 0
    /\ kconn' = [kconn EXCEPT ![i].out = names[kconn[i].host].file]
    /\ UNCHANGED <<kmode, kver, dump, push, kqueue, names, inode, kdb, kfaults>>

\* ... and replaces the database, however much later, with no one to tell.
OrphanLoad(i) ==
    /\ kconn[i].st = "used" /\ kconn[i].hpc = "orphan" /\ kconn[i].out # 0
    /\ LET h == kconn[i].host
           s == inode[h][kconn[i].out]
       IN  IF Parses(s)
           THEN /\ kdb' = [kdb EXCEPT ![h] = s]
                /\ kconn' = [NowLoaded(h, s) EXCEPT ![i] = KEnded(@)]
           ELSE Handled(i, [kconn[i] EXCEPT !.hpc = "end"]) /\ UNCHANGED kdb
    /\ UNCHANGED <<kmode, kver, dump, push, kqueue, names, inode, kfaults>>

\* A replica may lose its database.
LosesDatabase(h) ==
    /\ Fault /\ kdb[h] # << >>
    /\ kdb' = [kdb EXCEPT ![h] = << >>]
    /\ UNCHANGED <<kmode, kver, dump, push, kconn, kqueue, names, inode>>

----------------------------------------------------------------------------
PushStep(p) ==
    \/ DumpWrite(p) \/ DumpRename(p) \/ DumpStamp(p) \/ NextHost(p) \/ OpenDatabase(p)
    \/ Connect(p) \/ SendApReq(p) \/ SendSize(p) \/ SendBlock(p) \/ ReadAck(p) \/ PushFails(p)
PushFault(p) == DumpFails(p) \/ GetTicketsFails(p) \/ PushKilled(p)
HandlerStep(i) ==
    \/ RecvVersions(i) \/ RecvAuth(i) \/ OpenTemp(i) \/ LockTemp(i) \/ RecvSize(i) \/ RecvBlock(i)
    \/ RenameTemp(i) \/ LoadDatabase(i) \/ HandlerFails(i) \/ OrphanOpen(i) \/ OrphanLoad(i)

KNext ==
    \/ Change
    \/ \E p \in Pushers : DumpStart(p) \/ PushStep(p) \/ PushFault(p)
    \/ \E i \in KConns : HandlerStep(i) \/ RecvReplay(i) \/ LoadFails(i)
    \/ \E h \in KHosts : KAccept(h) \/ KRestart(h) \/ LosesDatabase(h)

KSpec == KInit /\ [][KNext]_kVars

\* The loop starts its rounds, the processes run, and a push that a replica
\* does not answer is killed at its deadline.
KFairness ==
    /\ WF_kVars(DumpStart("loop"))
    /\ \A p \in Pushers : WF_kVars(PushStep(p)) /\ WF_kVars(PushKilled(p) /\ kfaults' = kfaults)
    /\ \A i \in KConns : WF_kVars(HandlerStep(i))
    /\ \A h \in KHosts : WF_kVars(KAccept(h))

\* A replica's database is always one whole dump, of some version the primary
\* had, or nothing yet: no cut connection, killed push, concurrent dump or
\* crash leaves part of one, or a mixture (open_database, recv_database, the
\* rename, load_command).  kpropd started by inetd has no such guarantee.
DatabaseWhole ==
    kmode = "standalone" => \A h \in KHosts : kdb[h] = << >> \/ \E v \in Versions : kdb[h] = Records(v)

\* kprop reports success only for a dump that the replica has loaded since
\* kprop connected (xmit_database, doit's order of load and acknowledgement).
SucceededLoaded ==
    kmode = "standalone" =>
      \A p \in Pushers : Succeeds(p) => kconn[push[p].conn].loaded

\* Replicas hold whole dumps, and a push that was reported is one of them.
ReplicaWhole == DatabaseWhole /\ SucceededLoaded

\* "Every host gets the full dump each round, so a replica that lost its
\* database is refilled": once the primary stops changing, every replica that
\* answers comes to hold its last version, stalled replicas or not, and an
\* operator's older push in between is made good.
Refilled == \A h \in KHosts \ HungHosts :
              []<>(kdb[h] # << >> /\ \E v \in Versions : kdb[h] = Records(v) /\ v = kver)
=============================================================================
