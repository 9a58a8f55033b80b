-------------------------------- MODULE Gss ---------------------------------
(***************************************************************************)
(* Two applications establish a GSS-API context and use it: the calling    *)
(* loop passes the mechanisms' tokens to and fro (GssMechs), then each     *)
(* side protects messages (gssapi/krb5/context.rs) that the network may    *)
(* lose, reorder and repeat, or one calls the other over RPCSEC_GSS        *)
(* (rpc/gss.rs).                                                           *)
(***************************************************************************)
EXTENDS GssMechs

CONSTANTS
    Configs,        \* what the two sides may be set up with
    MaxMsgs,        \* bound, by kind: messages a side protects
    MaxDeliver,     \* bound, by kind: deliveries in all
    MaxCalls        \* bound: RPC calls the client makes

(* A configuration:                                                        *)
(*   kind      "krb5", "spnego", "iakerb" or "rpc"                         *)
(*   mutual, replay, sequence  what the initiator asks for                 *)
(*   icb, acb  channel bindings of the two sides, or None; cbt: the        *)
(*             initiator insists on them                                   *)
(*   itypes, atypes      SPNEGO mechanism lists                            *)
(*   ischemes, aschemes  NegoEx schemes; optimistic: send a first token    *)
(*   cred      what the IAKERB initiator starts with; arealm: the acceptor *)
(*             knows its realm                                             *)

VARIABLES
    conf,
    ini, acc,       \* the two sides' mechanism state
    wire,           \* the token under way, with the side it is for
    failed,         \* the side whose step returned an error, and why
    sent,           \* protected messages that exist
    delivered,      \* how many deliveries there were
    last,           \* the last message's status, and what it should be
    rpc             \* the RPC client's and server's state

vars == <<conf, ini, acc, wire, failed, sent, delivered, last, rpc>>

NewIni(c) == CASE c.kind = "spnego" -> NewSpnegoInitiator(c)
               [] c.kind = "iakerb" -> NewIakerbInitiator(c)
               [] OTHER -> [k |-> NewKrb5("krb5", <<>>), opened |-> FALSE]
NewAcc(c) == CASE c.kind = "spnego" -> NewSpnegoAcceptor(c)
               [] c.kind = "iakerb" -> NewIakerbAcceptor
               [] OTHER -> [k |-> NewKrb5("krb5", <<>>), opened |-> FALSE]

\* GssClient and GssServer: seq and xid of the last call, the call awaited,
\* the server's window; calls and replies under way; ran counts the
\* dispatches and wrong says that a result was taken for another call's.
NewRpc == [seq |-> 0, xid |-> 0, wait |-> None, est |-> TRUE, win |-> [last |-> 0, mask |-> 0],
           calls |-> {}, replies |-> <<>>, ran |-> [q \in 1..MaxCalls |-> 0], wrong |-> FALSE]

Init ==
    /\ conf \in Configs
    /\ ini = NewIni(conf) /\ acc = NewAcc(conf)
    /\ wire = None /\ failed = None
    /\ sent = {} /\ delivered = 0 /\ last = None
    /\ rpc = NewRpc

----------------------------------------------------------------------------
(* Establishing the context *)

To(side, token) == [to |-> side, token |-> token]
Running == failed = None
Quiet == UNCHANGED <<conf, sent, delivered, last, rpc>>

\* The krb5 mechanism by itself.  Over RPC the initiator is done only when
\* the reply to its INIT call is in, whose verifier covers the window.
Krb5Start(c, s) ==
    LET r == Krb5Init(c, s.k, None)
    IN  [s |-> [k |-> r.k, opened |-> c.kind # "rpc" /\ r.k.st = "done"], out |-> r.out, err |-> r.err]

Krb5Reply(c, s, token) ==
    LET r == Krb5Init(c, s.k, token)
    IN  [s |-> [k |-> r.k, opened |-> r.k.st = "done"], out |-> r.out, err |-> r.err]

\* connect: the AP-REP if one is awaited, then the verifier
InitRes(c, s, t) ==
    LET r == IF s.k.st = "done" THEN [k |-> s.k, out |-> None, err |-> FALSE]
             ELSE Krb5Init(c, s.k, t.token)
    IN  IF r.err THEN NoStep(s)
        ELSE IF ~Verifies(r.k.ctx, t.verf, "window") THEN NoStep(s)
        ELSE [s |-> [k |-> [r.k EXCEPT !.ctx = Receive(r.k.ctx, t.verf.seq).ctx], opened |-> TRUE],
              out |-> None, err |-> FALSE]

\* GssServer::init
RpcInit(c, s, token) ==
    LET r == Krb5Accept(c, s.k, token)
    IN  IF r.err THEN NoStep(s)
        ELSE [s |-> [k |-> [r.k EXCEPT !.ctx = Sent(@)], opened |-> TRUE], err |-> FALSE,
              out |-> [token |-> r.out, verf |-> Sealed(r.k.ctx, "window")]]

IniResult(token, o) ==
    CASE conf.kind = "spnego" -> SpnegoInit(conf, ini, token)
      [] conf.kind = "iakerb" -> IakerbInit(conf, ini, token, o)
      [] token = None         -> Krb5Start(conf, ini)
      [] conf.kind = "krb5"   -> Krb5Reply(conf, ini, token)
      [] OTHER                -> InitRes(conf, ini, token)

AccResult(token) ==
    CASE conf.kind = "spnego" -> SpnegoAccept(conf, acc, token)
      [] conf.kind = "iakerb" -> IakerbAccept(conf, acc, token)
      [] conf.kind = "krb5"   -> LET r == Krb5Accept(conf, acc.k, token)
                                 IN  [s |-> [k |-> r.k, opened |-> r.k.st = "done"],
                                      out |-> r.out, err |-> r.err]
      [] OTHER                -> RpcInit(conf, acc, token)

\* One step of a side, and what the loop around it does with the outcome.
IniTakes(token, o) ==
    \E r \in {IniResult(token, o)} :
        /\ ini' = r.s
        /\ failed' = IF ~r.err THEN None
                     ELSE <<"ini", IF conf.kind = "iakerb" /\ token # None /\ token.ty = "proxy"
                                      /\ token.msg \in KdcErrors THEN token.msg ELSE o>>
        /\ wire' = IF r.err \/ r.out = None THEN None ELSE To("acc", r.out)
        /\ UNCHANGED acc /\ Quiet

AccGives(r, why) ==
    /\ acc' = r.s
    /\ failed' = IF r.err THEN <<"acc", why>> ELSE None
    /\ wire' = IF r.err \/ r.out = None THEN None ELSE To("ini", r.out)
    /\ UNCHANGED ini /\ Quiet

Start ==
    /\ Running /\ ini = NewIni(conf)
    /\ wire = None
    /\ IniTakes(None, "send")

\* o matters to IAKERB only, where a KDC's answer is known by its effect.
IniStep(o) ==
    /\ Running /\ wire # None /\ wire.to = "ini"
    /\ o # "done" => conf.kind = "iakerb" /\ ini.state \in {"as", "tgs"}
    /\ IniTakes(wire.token, o)

AccStep ==
    /\ Running /\ wire # None /\ wire.to = "acc"
    /\ \E r \in {AccResult(wire.token)} : AccGives(r, "token")

\* An empty token reaches the SPNEGO acceptor first.
AccHints ==
    /\ Running /\ conf.kind = "spnego" /\ acc = NewSpnegoAcceptor(conf)
    /\ acc' = SpnegoHints(conf, acc)
    /\ UNCHANGED <<ini, wire, failed>> /\ Quiet

AccKdc(reply) ==
    /\ Running /\ conf.kind = "iakerb" /\ acc.pending # None
    /\ \E r \in {KdcReply(acc, reply)} : AccGives(r, reply)

----------------------------------------------------------------------------
(* Protected messages *)

HasCtx == conf.kind # "rpc" /\ ini.opened /\ acc.opened /\ ini.k.ctx # None /\ acc.k.ctx # None
Ready == Running /\ wire = None /\ HasCtx
Mine(i) == IF i THEN ini.k.ctx ELSE acc.k.ctx
Established == UNCHANGED <<conf, wire, failed, rpc>>
SetCtx(i, ctx) ==
    IF i THEN ini' = [ini EXCEPT !.k.ctx = ctx] /\ UNCHANGED acc
         ELSE acc' = [acc EXCEPT !.k.ctx = ctx] /\ UNCHANGED ini

\* wrap or get_mic by the initiator (i) or the acceptor
Protect(i) ==
    /\ Ready
    /\ Cardinality({t \in sent : t.init = i}) < MaxMsgs[conf.kind]
    /\ sent' = sent \cup {Sealed(Mine(i), "m")}
    /\ SetCtx(i, Sent(Mine(i)))
    /\ Established /\ UNCHANGED <<delivered, last>>

\* What the status of number seq should be, from the numbers received so far.
Reference(ctx, seq) ==
    LET next == IF ctx.got = {} THEN ctx.ss.base ELSE Max(ctx.got) + 1
        late == IF ctx.ss.sequence THEN "unseq" ELSE "complete"
    IN  CASE ~ctx.ss.replay /\ ~ctx.ss.sequence -> "complete"
          [] seq >= next -> IF seq > next /\ ctx.ss.sequence THEN "gap" ELSE "complete"
          [] next - seq > Width -> IF ctx.ss.sequence THEN "unseq" ELSE "old"
          [] ctx.ss.replay /\ seq \in ctx.got -> "duplicate"
          [] OTHER -> late

\* unwrap or verify_mic of any message sent by the other side, again or not
Deliver(t) ==
    /\ Ready /\ delivered < MaxDeliver[conf.kind]
    /\ LET ctx == Mine(~t.init)
           r   == Receive(ctx, t.seq)
       IN  IF ~Verifies(ctx, t, "m")
           THEN failed' = <<"message", t.init>> /\ UNCHANGED <<ini, acc, last>>
           ELSE /\ last' = [got |-> r.status, want |-> Reference(ctx, t.seq), wide |-> ctx.wide]
                /\ SetCtx(~t.init, r.ctx)
                /\ UNCHANGED failed
    /\ delivered' = delivered + 1
    /\ UNCHANGED <<conf, wire, sent, rpc>>

----------------------------------------------------------------------------
(* RPCSEC_GSS calls on the established context.  The RPC layer looks at     *)
(* whether a token verifies and not at its number's status, so the numbers  *)
(* of the contexts are left alone here.                                     *)

RpcReady == Running /\ wire = None /\ conf.kind = "rpc" /\ ini.opened /\ acc.opened
RpcOnly == UNCHANGED <<conf, ini, acc, wire, failed, sent, delivered, last>>

\* call and destroy up to the reply
Call(destroy) ==
    /\ RpcReady /\ rpc.wait = None /\ rpc.seq < MaxCalls
    /\ \A x \in rpc.calls : ~x.destroy
    /\ LET x == [xid |-> rpc.xid + 1, seq |-> rpc.seq + 1, destroy |-> destroy]
       IN  rpc' = [rpc EXCEPT !.xid = @ + 1, !.seq = @ + 1, !.wait = x, !.calls = @ \cup {x}]
    /\ RpcOnly

\* The future of a call is dropped while it waits for the reply.
Cancel ==
    /\ RpcReady /\ rpc.wait # None
    /\ rpc' = [rpc EXCEPT !.wait = None]
    /\ RpcOnly

\* GssServer::handle, on a call's first or a repeated arrival
Refuse(x) == [xid |-> x.xid, seq |-> x.seq, ok |-> FALSE]
Answer(x) == [xid |-> x.xid, seq |-> x.seq, ok |-> TRUE]
Handled(r, x) ==
    IF ~r.est \/ ~InWindow(r.win, x.seq) THEN [r EXCEPT !.replies = Append(@, Refuse(x))]
    ELSE [r EXCEPT !.win = Advance(@, x.seq), !.est = ~x.destroy,
                   !.ran[x.seq] = IF x.destroy THEN @ ELSE @ + 1,
                   !.replies = Append(@, Answer(x))]

Handle(x) ==
    /\ RpcReady /\ delivered < MaxDeliver[conf.kind]
    /\ rpc' = Handled(rpc, x)
    /\ delivered' = delivered + 1
    /\ UNCHANGED <<conf, ini, acc, wire, failed, sent, last>>

\* exchange and send: whether a reply is the one awaited.
Fits(wait, y) == y.xid = wait.xid /\ y.ok /\ y.seq = wait.seq

Take ==
    /\ RpcReady /\ rpc.wait # None /\ rpc.replies # <<>>
    /\ LET y == Head(rpc.replies)
       IN  rpc' = [rpc EXCEPT !.wait = None, !.replies = Tail(@),
                       !.wrong = @ \/ (Fits(rpc.wait, y)
                                         /\ (y.seq # rpc.wait.seq
                                              \/ (~rpc.wait.destroy /\ rpc.ran[rpc.wait.seq] = 0)))]
    /\ RpcOnly

----------------------------------------------------------------------------
Concluded == wire = None /\ ini # NewIni(conf) /\ (conf.kind = "iakerb" => acc.pending = None)

\* Nothing more is under way: the applications stop.
Done ==
    /\ failed # None \/ Concluded
    /\ UNCHANGED vars

Next ==
    \/ Start
    \/ \E o \in {"send", "done", "fail"} : IniStep(o)
    \/ AccStep
    \/ AccHints
    \/ \E reply \in KdcErrors \cup {"reply", "other"} : AccKdc(reply)
    \/ \E i \in BOOLEAN : Protect(i)
    \/ \E t \in sent : Deliver(t)
    \/ \E destroy \in BOOLEAN : Call(destroy)
    \/ Cancel
    \/ \E x \in rpc.calls : Handle(x)
    \/ Take
    \/ Done

Spec == Init /\ [][Next]_vars

----------------------------------------------------------------------------
(* Properties *)

\* What the two lists come down to: the first mechanism the initiator can
\* start with and everything after it is offered, and the acceptor takes the
\* first it has.
Offer(c) ==
    LET able == {i \in 1..Len(c.itypes) : CanInit(c, c.itypes[i])}
    IN  IF able = {} THEN <<>> ELSE SubSeq(c.itypes, Min(able), Len(c.itypes))
Accepts(c, t) == IF t = "wrong" THEN "krb5" \in Range(c.atypes) ELSE t \in Range(c.atypes)
Outcome(c) ==
    LET good == {i \in 1..Len(Offer(c)) : Accepts(c, Offer(c)[i])}
    IN  IF good = {} THEN None ELSE Offer(c)[Min(good)]
Usable(c) == {s \in Range(c.ischemes) \cap Range(c.aschemes) : s \notin InitFails \cup MetaFails}
BindingsAgree(c) ==
    c.acb # None => (c.icb = c.acb \/ (c.icb = None /\ ~c.cbt))

\* Whether the two sides should come to a context.
Compatible(c) ==
    CASE c.kind = "spnego" ->
            /\ Outcome(c) # None
            /\ Outcome(c) \in KerbMechs => BindingsAgree(c)
            /\ Outcome(c) = "negoex" => c.ischemes # <<>> /\ Usable(c) # {}
            /\ Outcome(c) # "ntlm"
      [] c.kind = "iakerb" -> BindingsAgree(c) /\ (c.cred = "no realm" => c.arealm)
      [] OTHER -> BindingsAgree(c)

\* A compatible pair never fails by itself: no side calls the other's token,
\* MIC, checksum or message defective.  What remains is IAKERB's KDC.
NoFalseAlarm ==
    failed # None /\ Compatible(conf) =>
        /\ conf.kind = "iakerb"
        /\ \/ failed[2] \in KdcErrors \cup {"fail", "other"}
           \/ acc.count >= MaxHops

\* b sends the number a expects next.
InStep(a, b) == a.ss.replay \/ a.ss.sequence => b.send = a.ss.base + a.ss.next

\* When both sides have their context it is the same one: one mechanism, the
\* same key, and each expects the number the other will send next.
Agreement ==
    ini.opened /\ acc.opened /\ wire = None /\ sent = {} =>
        /\ conf.kind = "spnego" =>
              /\ ini.mech = acc.mech \/ {ini.mech, acc.mech} \subseteq KerbMechs
              /\ ini.mech = "negoex" =>
                    /\ ini.nx.mechs[1].s = acc.nx.mechs[1].s
                    /\ ini.nx.mechs[1].verified /\ acc.nx.mechs[1].verified
        /\ ini.k.ctx # None /\ acc.k.ctx # None =>
              /\ ini.k.ctx.sub = acc.k.ctx.sub
              /\ InStep(ini.k.ctx, acc.k.ctx) /\ InStep(acc.k.ctx, ini.k.ctx)

\* A side is never left waiting: when no token is under way both have their
\* context, and no token goes to a side that has stopped listening.
NobodyLeft ==
    Running => /\ Concluded => ini.opened /\ acc.opened
               /\ wire # None => ~(IF wire.to = "ini" THEN ini.opened ELSE acc.opened)

\* The status of a message tells exactly what became of it, as long as no
\* gap of one less than the window's width was met (see SeqAlwaysExact).
SeqExact == last # None /\ ~last.wide => last.got = last.want

SeqAlwaysExact == last # None => last.got = last.want

\* However calls are repeated or reordered, each is run at most once, and no
\* reply is taken for another call's, even after a call was given up.
AtMostOnce == ~rpc.wrong /\ \A q \in 1..MaxCalls : rpc.ran[q] <= 1

\* Establishment ends for both sides, and with the same mechanism, keys and
\* sequence numbers.
ContextsAgree == Agreement /\ NobodyLeft

============================================================================
