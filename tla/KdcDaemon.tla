----------------------------- MODULE KdcDaemon -----------------------------
(***************************************************************************)
(* The KDC daemon from start to exit (bin/krb5-rs-kdc.rs), its UDP and TCP *)
(* service (kdc/server.rs), and the kdcpolicy and audit modules a request  *)
(* consults over RPC (plugin/rpc.rs, kdc/plugins.rs, kdc/plugins/rpc.rs).  *)
(*                                                                         *)
(* A module is a process of its own.  A connection to it carries one call  *)
(* at a time; a call that times out closes it, and what was written to it  *)
(* is still read by the module.  What a module did is in dseen.            *)
(***************************************************************************)
EXTENDS Naturals, Sequences, FiniteSets

CONSTANTS PolicyMods, AuditMods,   \* kdcpolicy and audit modules, in order
          UdpReqs, TcpReqs,        \* requests
          MaxOpen,                 \* MAX_STREAM_CONNECTIONS
          DConfigs,                \* the database and whether it is waited for, modules, requests,
                                   \* and what is asked in them
          MaxDFaults               \* crashes and failures

VARIABLES
    dcfg,     \* the configuration
    dpc,      \* where run is
    dsig,     \* the termination signal: "none", "sent" or "taken"
    dstop,    \* the shutdown channel holds true
    late,     \* the shutdown timeout has passed
    deny,     \* the requests the policy modules refuse
    loaded,   \* modules whose init succeeded at the start
    act,      \* every request and run itself: what it does
    udp,      \* the UDP task: "off", "recv", "ended" or the request it handles
    tcp,      \* the TCP task
    reg,      \* its registry of open connections, oldest first
    aborted,  \* connections whose task it has aborted
    count,    \* InFlight: connections, and whether a waiter was woken
    link,     \* per module: the KDC's connection to it
    orphan,   \* per module: calls on connections the KDC has closed
    alive,    \* modules that run
    dseen,    \* ghost: per module, what it did
    heard,    \* ghost: <<actor, module, call>> that was answered
    dfaults

dVars == <<dcfg, dpc, dsig, dstop, late, deny, loaded, act, udp, tcp, reg, aborted, count, link,
           orphan, alive, dseen, heard, dfaults>>

Mods == PolicyMods \o AuditMods
ModSet == {Mods[i] : i \in DOMAIN Mods}
IsPolicy(m) == \E i \in DOMAIN PolicyMods : PolicyMods[i] = m

\* The calls of a request and of run, in their order: check_policy asks every
\* policy module; kau_request goes through the audit modules once for each of
\* the things a request was.
Each(mods, c) == [i \in DOMAIN mods |-> [mod |-> mods[i], call |-> c]]
Audited(c) == Each(AuditMods, c)
Steps == Each(PolicyMods, "check")
         \o (Audited("s4u2self") \o (Audited("s4u2proxy") \o (Audited("u2u") \o (Audited("tgs_req")
         \o (Audited("as_req") \o (Audited("kdc_start") \o Audited("kdc_stop")))))))
AuditCalls == {"s4u2self", "s4u2proxy", "u2u", "tgs_req", "as_req", "kdc_start", "kdc_stop"}

\* What an audit module is told of one request: as_req, or tgs_req after what
\* its padata and options make of it; nothing of one that dispatch refuses
\* before it is processed.
RequestEvents ==
    {{}, {"as_req"}} \cup {{"tgs_req"} \cup s : s \in SUBSET {"s4u2self", "s4u2proxy", "u2u"}}
Reqs == UdpReqs \cup TcpReqs
Actors == Reqs \cup {"run"}

\* Every module has a connection of its own, however often a program is named.
ASSUME ModsAssumption ==
    /\ PolicyMods \in Seq(ModSet) /\ AuditMods \in Seq(ModSet)
    /\ \A i, j \in DOMAIN Mods : Mods[i] = Mods[j] => i = j
ASSUME ReqsAssumption ==
    /\ IsFiniteSet(TcpReqs) /\ UdpReqs \cap TcpReqs = {}
    /\ Reqs \cap {"run", "none", "off", "recv", "ended"} = {}
ASSUME ConfigsAssumption ==
    \A c \in DConfigs :
      /\ c.db \in {"keytab", "turso", "file", "klmdb", "kldap", "cockroach"}
      /\ c.kinds \subseteq [res : {"ticket", "refused"}, ev : RequestEvents]

NoLink == [up |-> FALSE, cut |-> FALSE, n |-> 0, q |-> << >>, a |-> << >>, by |-> "none"]
NoAct == [pc |-> "idle", k |-> 0, res |-> "none", ev |-> {}]

DInit ==
    /\ dcfg \in DConfigs /\ dpc = "open" /\ dsig = "none" /\ dstop = FALSE /\ late = FALSE
    /\ deny \in SUBSET {r \in dcfg.reqs : \E m \in dcfg.mods : IsPolicy(m)} /\ loaded = {}
    /\ act = [x \in Actors |-> NoAct]
    /\ udp = "off" /\ tcp = "off" /\ reg = << >> /\ aborted = {}
    /\ count = [n |-> 0, woken |-> FALSE]
    /\ link = [m \in ModSet |-> NoLink] /\ orphan = [m \in ModSet |-> << >>]
    /\ alive \in SUBSET dcfg.mods
    /\ dseen = [m \in ModSet |-> << >>] /\ heard = {} /\ dfaults = 0

Over == dpc \in {"done", "failed", "killed"}
DFault == dfaults < MaxDFaults /\ dfaults' = dfaults + 1

rpcVars == <<link, orphan, dseen, heard>>
netVars == <<udp, tcp, reg, aborted, count>>
mainVars == <<dcfg, dpc, dsig, dstop, late, loaded>>

----------------------------------------------------------------------------
(* Starting *)

\* What a failure to open the store leads to.  A keytab, a database library
\* that is not waited for and a bad setting end the daemon; --wait-for-database
\* tries again; a replica without a snapshot retries its bootstrap.
Waiting == IF dcfg.wait THEN {"open"} ELSE {"failed"}
KeytabMode == {"failed"}
TursoMode == {"failed"}
FileMode == Waiting
KlmdbMode == Waiting
KldapMode == Waiting
CockroachMode == {"open", "failed"}
OpenFails == [keytab |-> KeytabMode, turso |-> TursoMode, file |-> FileMode, klmdb |-> KlmdbMode,
              kldap |-> KldapMode, cockroach |-> CockroachMode]

OpenStore ==
    /\ dpc = "open"
    /\ \/ dpc' = "load" /\ UNCHANGED dfaults
       \/ DFault /\ dpc' \in OpenFails[dcfg.db]
    /\ UNCHANGED <<dcfg, dsig, dstop, late, deny, loaded, act, netVars, rpcVars, alive>>

\* plugins::load, in the modules' order.  A module that is not there or does
\* not speak the protocol is skipped; one whose init fails is not.
LoadModule ==
    /\ dpc = "load" /\ act["run"].k < Len(Mods)
    /\ LET m == Mods[act["run"].k + 1] IN
       \/ /\ m \in alive
          /\ loaded' = loaded \cup {m}
          /\ link' = [link EXCEPT ![m] = [NoLink EXCEPT !.up = TRUE, !.n = 1]]
          /\ UNCHANGED <<dpc, dfaults>>
       \/ /\ IF m \in alive THEN DFault ELSE UNCHANGED dfaults
          /\ dpc' = "load" \/ (m \in alive /\ dpc' = "failed")
          /\ UNCHANGED <<loaded, link>>
    /\ act' = [act EXCEPT !["run"].k = @ + 1]
    /\ UNCHANGED <<dcfg, dsig, dstop, late, deny, netVars, orphan, alive, dseen, heard>>

\* After the last call comes the reply.
PcAt(k) == IF k > Len(Steps) THEN "reply" ELSE "call"

\* run calls kdc_start and kdc_stop of the loaded audit modules.
Notify(what) == [NoAct EXCEPT !.pc = PcAt(1), !.k = 1, !.ev = {what}]

Loaded ==
    /\ dpc = "load" /\ act["run"].k = Len(Mods)
    /\ dpc' = "start" /\ act' = [act EXCEPT !["run"] = Notify("kdc_start")]
    /\ UNCHANGED <<dcfg, dsig, dstop, late, deny, loaded, netVars, rpcVars, alive, dfaults>>

\* The listeners; an address that cannot be bound ends the daemon, and no
\* one is told that it stopped.
DBind ==
    /\ dpc = "start" /\ act["run"].pc = "reply"
    /\ act' = [act EXCEPT !["run"] = NoAct]
    /\ \/ dpc' = "serve" /\ udp' = "recv" /\ tcp' = "accept" /\ UNCHANGED dfaults
       \/ dpc' = "failed" /\ DFault /\ UNCHANGED <<udp, tcp>>
    /\ UNCHANGED <<dcfg, dsig, dstop, late, deny, loaded, reg, aborted, count, rpcVars, alive>>

----------------------------------------------------------------------------
(* A module's connection: Conn, Client and serve *)

ModOf(x) == Steps[act[x].k].mod
\* The calls x does not make: none of a module that is not loaded; run and a
\* refused request ask no policy module, and an audit module is told only of
\* what happened.
Skips(x, k) ==
    \/ Steps[k].mod \notin loaded
    \/ IF IsPolicy(Steps[k].mod) THEN x = "run" \/ act[x].res = "refused"
       ELSE Steps[k].call \notin act[x].ev
\* A message: put_request, put_state and get_* carry it whole, so it is the
\* actor, what is asked or told, and the result.
CallMsg(x) == [who |-> x, call |-> Steps[act[x].k].call, res |-> act[x].res]
InitMsg == [who |-> "none", call |-> "init", res |-> "none"]

\* The caller goes on to its k-th call, or has made its calls.
Advanced(x, res, k) == [act EXCEPT ![x].k = k, ![x].res = res, ![x].pc = PcAt(k)]

SkipModule(x) ==
    /\ ~Over /\ act[x].pc = "call"
    /\ \E k \in act[x].k + 1 .. Len(Steps) + 1 :
         /\ \A j \in act[x].k .. k - 1 : Skips(x, j)
         /\ k <= Len(Steps) => ~Skips(x, k)
         /\ act' = Advanced(x, act[x].res, k)
    /\ UNCHANGED <<mainVars, deny, netVars, rpcVars, alive, dfaults>>

\* Conn::lock
TakeConn(x) ==
    /\ ~Over /\ act[x].pc = "call" /\ ~Skips(x, act[x].k) /\ link[ModOf(x)].by = "none"
    /\ link' = [link EXCEPT ![ModOf(x)].by = x]
    /\ act' = [act EXCEPT ![x].pc = IF link[ModOf(x)].up THEN "send" ELSE "connect"]
    /\ UNCHANGED <<mainVars, deny, netVars, orphan, alive, dseen, heard, dfaults>>

\* Mutant of Unavailable: a module that cannot be asked does not count.
UnavailableIgnored(m, res) == res

\* A module that cannot be asked refuses the request (RemotePolicy::check);
\* the audit modules' failures are ignored (RemoteAudit).
Unavailable(m, res) == IF IsPolicy(m) THEN "refused" ELSE res

\* Mutant of AfterFailure: the call is made again on a new connection.
AfterFailureAgain(x) == [act EXCEPT ![x].pc = "call"]

AfterFailure(x) == Advanced(x, Unavailable(ModOf(x), act[x].res), act[x].k + 1)

\* An error drops the connection; the module still has what was sent.
Dropped(m) == [link EXCEPT ![m] = NoLink]
Orphaned(m) == [orphan EXCEPT ![m] = @ \o link[m].q]
CallFails(x) ==
    /\ act' = AfterFailure(x)
    /\ link' = Dropped(ModOf(x)) /\ orphan' = Orphaned(ModOf(x))

\* handshake: the version bytes and INITIALIZE
ConnectModule(x) ==
    /\ ~Over /\ act[x].pc = "connect"
    /\ IF ModOf(x) \in alive
       THEN /\ link' = [link EXCEPT ![ModOf(x)] = [NoLink EXCEPT !.up = TRUE, !.n = 1, !.by = x,
                                                     !.q = <<[id |-> 1, msg |-> InitMsg]>>]]
            /\ act' = [act EXCEPT ![x].pc = "init"]
            /\ UNCHANGED orphan
       ELSE CallFails(x)
    /\ UNCHANGED <<mainVars, deny, netVars, alive, dseen, heard, dfaults>>

\* Client::call: writing the request
SendCall(x) ==
    /\ ~Over /\ act[x].pc = "send"
    /\ LET l == link[ModOf(x)] IN
       IF l.cut THEN CallFails(x)
       ELSE /\ link' = [link EXCEPT ![ModOf(x)].n = @ + 1,
                                    ![ModOf(x)].q = Append(@, [id |-> l.n + 1, msg |-> CallMsg(x)])]
            /\ act' = [act EXCEPT ![x].pc = "wait"]
            /\ UNCHANGED orphan
    /\ UNCHANGED <<mainVars, deny, netVars, alive, dseen, heard, dfaults>>

\* An answer must be to this request and this call.
Answers(x, ans) == ans.id = link[ModOf(x)].n
Verdict(x, ans) == IF IsPolicy(ModOf(x)) /\ ~ans.ok THEN "refused" ELSE act[x].res

ReadAnswer(x) ==
    /\ ~Over /\ act[x].pc \in {"init", "wait"} /\ link[ModOf(x)].a # << >>
    /\ LET ans == link[ModOf(x)].a[1]
           m == ModOf(x) IN
       IF ~Answers(x, ans) \/ (act[x].pc = "init" /\ ~ans.ok)
       THEN CallFails(x) /\ UNCHANGED heard
       ELSE /\ UNCHANGED orphan
            /\ IF act[x].pc = "init"
               THEN /\ link' = [link EXCEPT ![m].a = Tail(@)]
                    /\ act' = [act EXCEPT ![x].pc = "send"]
                    /\ UNCHANGED heard
               ELSE /\ link' = [link EXCEPT ![m].a = Tail(@), ![m].by = "none"]
                    /\ act' = Advanced(x, Verdict(x, ans), act[x].k + 1)
                    /\ heard' = heard \cup {<<x, m, Steps[act[x].k].call>>}
    /\ UNCHANGED <<mainVars, deny, netVars, alive, dseen, dfaults>>

\* The end of the connection, or 30 seconds without an answer
CallTimeout(x) ==
    /\ ~Over /\ act[x].pc \in {"init", "wait"}
    /\ link[ModOf(x)].a = << >>
    /\ CallFails(x)
    /\ UNCHANGED <<mainVars, deny, netVars, alive, dseen, heard, dfaults>>

\* serve, serve_kdcpolicy and serve_audit: the module does what it is asked
\* and answers.
Does(m, msg, ok) == IF msg.call = "init" THEN dseen
                    ELSE [dseen EXCEPT ![m] = Append(@, [who |-> msg.who, call |-> msg.call,
                                                         res |-> msg.res, ok |-> ok])]
Allows(m, msg) == ~(IsPolicy(m) /\ msg.who \in deny)

ModuleServes(m) ==
    /\ m \in alive /\ link[m].q # << >>
    /\ LET r == link[m].q[1] IN
       \E ok \in {Allows(m, r.msg)} \cup (IF r.msg.call = "init" THEN {FALSE} ELSE {}) :
         /\ link' = [link EXCEPT ![m].q = Tail(@), ![m].a = Append(@, [id |-> r.id, ok |-> ok])]
         /\ dseen' = Does(m, r.msg, ok)
    /\ UNCHANGED <<mainVars, deny, act, netVars, orphan, alive, heard, dfaults>>

ModuleServesOrphan(m) ==
    /\ m \in alive /\ orphan[m] # << >>
    /\ \E i \in DOMAIN orphan[m] :
         /\ orphan' = [orphan EXCEPT ![m] = SubSeq(@, 1, i - 1) \o SubSeq(@, i + 1, Len(@))]
         /\ dseen' = Does(m, orphan[m][i].msg, Allows(m, orphan[m][i].msg))
    /\ UNCHANGED <<mainVars, deny, act, netVars, link, alive, heard, dfaults>>

ModuleDies(m) ==
    /\ m \in alive /\ ~Over /\ DFault
    /\ alive' = alive \ {m}
    /\ link' = [link EXCEPT ![m].cut = @ \/ link[m].up, ![m].q = << >>]
    /\ orphan' = [orphan EXCEPT ![m] = << >>]
    /\ UNCHANGED <<mainVars, deny, act, netVars, dseen, heard>>

ModuleStarts(m) ==
    /\ m \in dcfg.mods \ alive /\ ~Over /\ alive' = alive \cup {m}
    /\ UNCHANGED <<mainVars, deny, act, netVars, rpcVars, dfaults>>

----------------------------------------------------------------------------
(* Serving *)

\* dispatch: what the request is, and what becomes of it before the policy
\* modules are asked.
Begun(kind) == [NoAct EXCEPT !.pc = PcAt(1), !.k = 1, !.res = kind.res, !.ev = kind.ev]

\* serve_udp_with: one datagram at a time
RecvUdp(r) ==
    /\ ~Over /\ udp = "recv" /\ act[r].pc = "idle" /\ r \in dcfg.reqs
    /\ udp' = r /\ \E kind \in dcfg.kinds : act' = [act EXCEPT ![r] = Begun(kind)]
    /\ UNCHANGED <<mainVars, deny, tcp, reg, aborted, count, rpcVars, alive, dfaults>>
\* handle_udp_from_at: a reply that is too long is replaced by
\* KRB_ERR_RESPONSE_TOO_BIG, after the modules were told of it.
ReplyUdp(r) ==
    /\ ~Over /\ udp = r /\ act[r].pc = "reply"
    /\ udp' = "recv" /\ \E p \in {"sent", "toobig"} : act' = [act EXCEPT ![r].pc = p]
    /\ UNCHANGED <<mainVars, deny, tcp, reg, aborted, count, rpcVars, alive, dfaults>>
StopUdp ==
    /\ ~Over /\ dstop /\ udp = "recv" /\ udp' = "ended"
    /\ UNCHANGED <<mainVars, deny, act, tcp, reg, aborted, count, rpcVars, alive, dfaults>>

\* serve_tcp_with: a task for each connection; beyond the limit the oldest is
\* aborted.
Accept(r) ==
    /\ ~Over /\ tcp = "accept" /\ act[r].pc = "idle" /\ r \in dcfg.reqs
    /\ count' = [count EXCEPT !.n = @ + 1]
    /\ act' = [act EXCEPT ![r].pc = "read"]
    /\ IF Len(reg) = MaxOpen
       THEN reg' = Append(Tail(reg), r) /\ aborted' = aborted \cup {reg[1]}
       ELSE reg' = Append(reg, r) /\ UNCHANGED aborted
    /\ UNCHANGED <<mainVars, deny, udp, tcp, rpcVars, alive, dfaults>>

\* serve_connection: the request; one too long is answered at once, and a
\* client may go away or send nothing.
ReadRequest(r) ==
    /\ ~Over /\ act[r].pc = "read"
    /\ act' \in {[act EXCEPT ![r] = Begun(kind)] : kind \in dcfg.kinds} \cup
                {[act EXCEPT ![r].pc = "reply", ![r].res = "toolong"],
                 [act EXCEPT ![r].pc = "leave"]}
    /\ UNCHANGED <<mainVars, deny, netVars, rpcVars, alive, dfaults>>
ReplyTcp(r) ==
    /\ ~Over /\ r \in TcpReqs /\ act[r].pc = "reply" /\ r \notin aborted
    /\ act' = [act EXCEPT ![r].pc = "unlist"]
    /\ UNCHANGED <<mainVars, deny, netVars, rpcVars, alive, dfaults>>
\* An aborted task ends where it next waits, which is never in a call.
Abort(r) ==
    /\ ~Over /\ r \in aborted
    /\ act[r].pc \in {"read", "reply"} \/ (act[r].pc = "call" /\ act[r].k = 1)
    /\ act' = [act EXCEPT ![r].pc = "leave"]
    /\ UNCHANGED <<mainVars, deny, netVars, rpcVars, alive, dfaults>>
Unlist(r) ==
    /\ ~Over /\ act[r].pc = "unlist"
    /\ reg' = SelectSeq(reg, LAMBDA c : c # r)
    /\ act' = [act EXCEPT ![r].pc = "unlisted"]
    /\ UNCHANGED <<mainVars, deny, udp, tcp, aborted, count, rpcVars, alive, dfaults>>
\* The guard is dropped last.  A waiter that is not yet enabled hears nothing.
Leave(r) ==
    /\ ~Over /\ act[r].pc \in {"unlisted", "leave"}
    /\ act' = [act EXCEPT ![r].pc = IF @ = "unlisted" THEN "sent" ELSE "gone"]
    /\ reg' = SelectSeq(reg, LAMBDA c : c # r)
    /\ count' = [n |-> count.n - 1,
                 woken |-> count.woken \/ (count.n = 1 /\ tcp \in {"load", "await"})]
    /\ UNCHANGED <<mainVars, deny, udp, tcp, aborted, rpcVars, alive, dfaults>>

\* The wait for open connections: the waiter is enabled first, and then looks
\* at the count.
StopAccept ==
    /\ ~Over /\ dstop /\ tcp = "accept"
    /\ tcp' = "load" /\ count' = [count EXCEPT !.woken = FALSE]
    /\ UNCHANGED <<mainVars, deny, act, udp, reg, aborted, rpcVars, alive, dfaults>>

\* Mutant of LoadCount: the waiter waits without looking.
LoadCountUnseen ==
    /\ ~Over /\ tcp = "load" /\ tcp' = "await"
    /\ UNCHANGED <<mainVars, deny, act, udp, reg, aborted, count, rpcVars, alive, dfaults>>

LoadCount ==
    /\ ~Over /\ tcp = "load"
    /\ tcp' = IF count.n = 0 THEN "ended" ELSE "await"
    /\ UNCHANGED <<mainVars, deny, act, udp, reg, aborted, count, rpcVars, alive, dfaults>>
Woken ==
    /\ ~Over /\ tcp = "await" /\ count.woken
    /\ tcp' = "load" /\ count' = [count EXCEPT !.woken = FALSE]
    /\ UNCHANGED <<mainVars, deny, act, udp, reg, aborted, rpcVars, alive, dfaults>>

----------------------------------------------------------------------------
(* Stopping *)

\* SIGTERM.  Until it is waited for, the default action ends the process; but
\* cockroach_mode has waited for it before, and then no one does until run.
Signal ==
    /\ ~Over /\ dsig = "none"
    /\ \/ /\ dpc = "serve"
          /\ dsig' = "taken" /\ dpc' = "drain" /\ dstop' = TRUE
       \/ /\ dpc = "open" \/ (dpc \in {"load", "start"} /\ dcfg.db # "cockroach")
          /\ dsig' = "taken" /\ dpc' = "killed" /\ UNCHANGED dstop
       \/ /\ dpc = "open" /\ dcfg.db = "cockroach"
          /\ dsig' = "taken" /\ dpc' = "done" /\ UNCHANGED dstop
       \/ /\ dpc \in {"load", "start"} /\ dcfg.db = "cockroach"
          /\ dsig' = "sent" /\ UNCHANGED <<dpc, dstop>>
    /\ UNCHANGED <<dcfg, late, deny, loaded, act, netVars, rpcVars, alive, dfaults>>

\* A listener that fails ends the daemon at once.
ListenerFails ==
    /\ dpc = "serve" /\ DFault /\ dpc' = "failed"
    /\ UNCHANGED <<dcfg, dsig, dstop, late, deny, loaded, act, netVars, rpcVars, alive>>

Stopping(timedOut) ==
    /\ dpc = "drain"
    /\ dpc' = "stop" /\ late' = timedOut /\ act' = [act EXCEPT !["run"] = Notify("kdc_stop")]
    /\ UNCHANGED <<dcfg, dsig, dstop, deny, loaded, netVars, rpcVars, alive, dfaults>>
Drained == udp = "ended" /\ tcp = "ended" /\ Stopping(FALSE)
DrainTimeout == Stopping(TRUE)

\* The modules get FINALIZE as their connections are dropped; the tasks that
\* are left go with the runtime.
Exit ==
    /\ dpc = "stop" /\ act["run"].pc = "reply"
    /\ \A m \in ModSet : link[m].by = "none"
    /\ dpc' = "done" /\ link' = [m \in ModSet |-> NoLink]
    /\ UNCHANGED <<dcfg, dsig, dstop, late, deny, loaded, act, netVars, orphan, alive, dseen, heard,
                   dfaults>>

----------------------------------------------------------------------------
RunStep == OpenStore \/ LoadModule \/ Loaded \/ DBind \/ Drained \/ Exit
CallStep(x) == SkipModule(x) \/ TakeConn(x) \/ ConnectModule(x) \/ SendCall(x) \/ ReadAnswer(x)
               \/ CallTimeout(x)
TaskStep(r) == ReplyTcp(r) \/ Abort(r) \/ Unlist(r) \/ Leave(r)
WaitStep == StopAccept \/ LoadCount \/ Woken

DNext ==
    \/ RunStep \/ WaitStep \/ StopUdp \/ Signal \/ ListenerFails \/ DrainTimeout
    \/ \E x \in Actors : CallStep(x)
    \/ \E m \in ModSet : ModuleServes(m) \/ ModuleServesOrphan(m) \/ ModuleDies(m) \/ ModuleStarts(m)
    \/ \E r \in UdpReqs : RecvUdp(r) \/ ReplyUdp(r)
    \/ \E r \in TcpReqs : Accept(r) \/ ReadRequest(r) \/ TaskStep(r)

DSpec == DInit /\ [][DNext]_dVars

\* The tasks run and every call times out; modules and clients owe nothing.
DFairness ==
    /\ WF_dVars(RunStep) /\ WF_dVars(DrainTimeout)
    /\ \A x \in Actors : WF_dVars(CallStep(x))

----------------------------------------------------------------------------
\* A ticket leaves only if every loaded policy module has allowed that very
\* request: a module that crashes, times out, comes back or answers late can
\* refuse one, never let one through (RemotePolicy::check, Conn::call).
FailsClosed ==
    \A r \in Reqs : act[r].pc \in {"sent", "unlisted", "unlist"} /\ act[r].res = "ticket" =>
      \A m \in loaded : IsPolicy(m) =>
        \E i \in DOMAIN dseen[m] : dseen[m][i].who = r /\ dseen[m][i].ok

\* No audit module is told twice of the same thing about a request, however
\* its connection broke: once that it was an S4U2Self, S4U2Proxy or
\* user-to-user request, once of the request itself.  One that answered was
\* told; and it is told the result that was reached, by the request's own checks
\* and by the policy modules, also when that result was too long for a datagram
\* and the client is sent to TCP instead (RemoteAudit::req, call_blocking,
\* kau_request).
AuditedOnce ==
    \A m \in loaded, r \in Reqs : ~IsPolicy(m) =>
      /\ \A i, j \in DOMAIN dseen[m] :
           dseen[m][i].who = r /\ dseen[m][j].who = r /\ dseen[m][i].call = dseen[m][j].call => i = j
      /\ \A c \in AuditCalls : <<r, m, c>> \in heard =>
           \E i \in DOMAIN dseen[m] : dseen[m][i].who = r /\ dseen[m][i].call = c
      /\ \A i \in DOMAIN dseen[m] :
           dseen[m][i].who = r /\ act[r].pc \in {"sent", "toobig", "unlisted", "unlist"} =>
             dseen[m][i].res = act[r].res

\* What does not hold: that an audit module is told what the client gets.
\* handle_udp_from_at replaces a reply that is too long after kau_request
\* reported it.
ToldAsSent ==
    \A m \in loaded, r \in Reqs : ~IsPolicy(m) /\ act[r].pc = "toobig" =>
      \A i \in DOMAIN dseen[m] : dseen[m][i].who = r => dseen[m][i].res # "ticket"

\* The wait for open connections never misses the last one's end, and an
\* orderly shutdown leaves no request half done (InFlight, Notify::enable).
NoLostWakeup ==
    /\ ~(tcp = "await" /\ count.n = 0 /\ ~count.woken)
    /\ dpc = "stop" /\ ~late =>
         \A r \in Reqs : act[r].pc \in {"idle", "sent", "toobig", "gone"}

\* A SIGTERM that run takes ends the daemon, whatever clients and modules do.
Stops == (dsig = "taken") ~> Over

\* "SIGTERM and SIGINT ... stop the listeners ... and exit 0" (krb5-rs-kdc.rs)
SignalHeeded == (dsig # "none") ~> Over

\* "kau_kdc_stop, after the last request has been handled" (krb5-rs-kdc.rs)
StopLast ==
    \A m \in loaded : \A i, j \in DOMAIN dseen[m] :
      dseen[m][i].call = "kdc_stop" /\ i < j => dseen[m][j].who = "run"
=============================================================================
