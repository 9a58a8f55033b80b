------------------------------ MODULE GssMechs ------------------------------
(***************************************************************************)
(* The GSS-API mechanisms as functions of one side's state and the token   *)
(* it was given: the krb5 mechanism (gssapi/krb5), SPNEGO over it and over *)
(* NegoEx (gssapi/spnego), and IAKERB (gssapi/iakerb.rs).  Keys, names and *)
(* the DER layout are left out: a checksum is what it covers, with the key *)
(* it was made under, and a field that the encoder drops is None.          *)
(*                                                                         *)
(* c is the configuration of the two sides (see Gss).                      *)
(***************************************************************************)
EXTENDS Negoex, SeqWindow

CONSTANTS BaseI, BaseA,     \* the sequence numbers the two sides draw
          MaxHops           \* IAKERB's MAX_HOPS

KerbMechs == {"krb5", "old", "wrong"}          \* is_kerb_mech

----------------------------------------------------------------------------
(* The krb5 mechanism *)

\* Krb5Context::partial; got and wide are history: what was received, and
\* whether a gap of exactly Width - 1 has been (see Gss.SeqExact).
NewCtx(c, initiate, send, sub, base, checked) ==
    [initiate |-> initiate, send |-> send, sub |-> sub, got |-> {}, wide |-> FALSE,
     ss |-> NewSeqState(base, checked /\ c.replay, checked /\ c.sequence)]

\* Krb5Initiator and Krb5Acceptor before their first step
NewKrb5(oid, conv) == [st |-> "new", oid |-> oid, conv |-> conv, ctx |-> None]

Kept(k) == [k |-> k, out |-> None, err |-> TRUE]

\* mk_req and mk_rep, each with the number its side drew
MkReq(c, k) == [ty |-> "req", oid |-> k.oid, seq |-> BaseI, mutual |-> c.mutual, cb |-> c.icb,
                cbt |-> c.cbt, fin |-> k.conv]
MkRep(req) == [ty |-> "rep", oid |-> req.oid, seq |-> BaseA]

\* first_step: the AP-REQ; without mutual authentication that is all.
FirstStep(c, k) ==
    [k |-> [k EXCEPT !.st = IF c.mutual THEN "wait" ELSE "done",
                     !.ctx = NewCtx(c, TRUE, BaseI, FALSE, IF c.mutual THEN 0 ELSE BaseI,
                                    ~c.mutual)],
     out |-> MkReq(c, k), err |-> FALSE]

\* mutual_auth
MutualAuth(c, k, token) ==
    IF token = None \/ token.ty # "rep" \/ token.oid # k.oid THEN Kept(k)
    ELSE [k |-> [k EXCEPT !.st = "done",
                          !.ctx = NewCtx(c, TRUE, k.ctx.send, TRUE, token.seq, TRUE)],
          out |-> None, err |-> FALSE]

\* Krb5Initiator::step
Krb5Init(c, k, token) ==
    CASE k.st = "done"               -> Kept(k)
      [] k.st = "new" /\ token # None -> Kept(k)
      [] k.st = "new"                -> FirstStep(c, k)
      [] k.st = "wait"               -> MutualAuth(c, k, token)

\* process_checksum: channel bindings and, under IAKERB, the Finished
\* checksum over the conversation, which a conversation requires.
ProcessChecksum(c, k, req) ==
    /\ c.acb # None /\ req.cb # None => req.cb = c.acb
    /\ c.acb # None /\ req.cbt => req.cb = c.acb
    /\ req.fin = k.conv

\* Krb5Acceptor::step
Krb5Accept(c, k, token) ==
    IF k.st = "done" \/ token.ty # "req" \/ token.oid \notin {"krb5", "iakerb"}
       \/ ~ProcessChecksum(c, k, token)
    THEN Kept(k)
    ELSE [k |-> [k EXCEPT !.st = "done",
                          !.ctx = NewCtx(c, FALSE, IF token.mutual THEN BaseA ELSE token.seq,
                                         token.mutual, token.seq, TRUE)],
          out |-> IF token.mutual THEN MkRep(token) ELSE None,
          err |-> FALSE]

\* Receiving number seq: the status and the context after it.
Counted(ctx, seq, r) ==
    [status |-> r.status,
     ctx |-> [ctx EXCEPT !.ss = r.state, !.got = @ \cup {seq},
                         !.wide = @ \/ seq - ctx.ss.base - ctx.ss.next = Width - 1]]
Receive(ctx, seq) == Counted(ctx, seq, CheckSeq(ctx.ss, seq))

\* get_mic and wrap number the token and sign it with the newest key;
\* verify_mic and unwrap take the acceptor's subkey only if it is flagged
\* and known, and check the direction.
Sealed(ctx, over) == [init |-> ctx.initiate, sub |-> ctx.sub, seq |-> ctx.send, over |-> over]
SentAgain(ctx) == ctx
Sent(ctx) == [ctx EXCEPT !.send = @ + 1]
Verifies(ctx, t, over) == t.init # ctx.initiate /\ (t.sub => ctx.sub) /\ t.over = over

----------------------------------------------------------------------------
(* SPNEGO *)

NoMic == [reqd |-> FALSE, sent |-> FALSE, rcvd |-> FALSE]

\* A NegTokenInit, and a NegTokenResp: an empty mechanism token is not sent.
NegTokenInit(types, token, mic) == [ty |-> "init", types |-> types, token |-> token, mic |-> mic]
NegTokenResp(state, mech, token, mic) ==
    [ty |-> "resp", state |-> state, mech |-> mech, token |-> token, mic |-> mic]

\* handle_mic: what it makes of the two sides' MICs over the mechanism list.
MicFailed == [err |-> TRUE]
MicsHandled(m, owed, ctx, types, state) ==
    [err |-> FALSE, mic |-> m, out |-> IF owed THEN Sealed(ctx, types) ELSE None,
     ctx |-> IF owed THEN Sent(ctx) ELSE ctx,
     state |-> IF m.sent /\ m.rcvd THEN "completed" ELSE IF m.reqd THEN "incomplete" ELSE state,
     both |-> m.sent /\ m.rcvd, owed |-> owed]
OweMic(m, ctx, types, state) ==
    MicsHandled([m EXCEPT !.sent = @ \/ m.reqd], m.reqd /\ ~m.sent, ctx, types, state)
HandleMic(mic, ctx, in, sendsTok, types, state) ==
    CASE in = None /\ mic.reqd /\ ~sendsTok -> MicFailed
      [] in = None -> OweMic(mic, ctx, types, state)
      [] mic.rcvd \/ ~Verifies(ctx, in, types) -> MicFailed
      [] OTHER -> OweMic([mic EXCEPT !.reqd = TRUE, !.rcvd = TRUE], Receive(ctx, in.seq).ctx,
                         types, state)

\* The inner mechanism's step: krb5, or NegoEx, which has no MIC.
Integ(s) == s.mech # "negoex"
InnerNegoex(s, r) ==
    [s |-> [s EXCEPT !.nx = r.nx, !.done = r.complete /\ ~r.err],
     out |-> IF r.token = <<>> THEN None ELSE r.token, err |-> r.err]
InnerKrb5(s, r) ==
    [s |-> [s EXCEPT !.k = r.k, !.done = r.k.st = "done" /\ ~r.err], out |-> r.out, err |-> r.err]

NoStep(s) == [s |-> s, out |-> None, err |-> TRUE]

\* SpnegoInitiator
NewSpnegoInitiator(c) ==
    [fresh |-> TRUE, types |-> c.itypes, mech |-> None, done |-> FALSE, ndone |-> FALSE,
     mic |-> NoMic, opened |-> FALSE, k |-> NewKrb5("krb5", <<>>),
     nx |-> NewNegoex(TRUE, c.ischemes, c.optimistic)]

CanInit(c, oid) ==
    \/ oid \in KerbMechs
    \/ oid = "negoex" /\ c.ischemes # <<>>

\* The first call: leading mechanisms that cannot be initiated are dropped.
InitNew(c, s) ==
    LET able == {i \in 1..Len(s.types) : CanInit(c, s.types[i])}
        kept == SubSeq(s.types, Min(able), Len(s.types))
    IN  IF able = {} THEN [err |-> TRUE]
        ELSE [err |-> FALSE, send |-> "init",
              s |-> [s EXCEPT !.fresh = FALSE, !.types = kept, !.mech = kept[1]]]

\* init_ctx_reselect: the acceptor chose another mechanism of the list.
InitReselect(c, s, r) ==
    IF \/ r.mech \notin Range(s.types)
       \/ r.state # "mic" /\ ~(r.state = "incomplete" /\ r.mech = "ntlm")
       \/ ~CanInit(c, r.mech)
    THEN [err |-> TRUE]
    ELSE [err |-> FALSE, send |-> "cont",
          s |-> [s EXCEPT !.done = FALSE, !.mic.reqd = r.state = "mic", !.mech = r.mech,
                          !.ndone = TRUE]]

InitContForgets(c, s, r) ==
    LET chosen == IF r.mech = None THEN s.mech ELSE r.mech
        same   == chosen = s.mech \/ {chosen, s.mech} \subseteq KerbMechs
        go(send) == [err |-> FALSE, send |-> send, s |-> [s EXCEPT !.ndone = TRUE]]
    IN  CASE r.state = "reject" /\ r.token = None -> [err |-> TRUE]
          [] ~s.ndone /\ ~same -> InitReselect(c, s, [r EXCEPT !.mech = s.mech])
          [] s.done = (r.token # None) -> [err |-> TRUE]
          [] OTHER -> go("none")

\* init_ctx_nego and the later replies: what there is left to send.
InitCont(c, s, r) ==
    LET chosen == IF r.mech = None THEN s.mech ELSE r.mech
        same   == chosen = s.mech \/ {chosen, s.mech} \subseteq KerbMechs
        go(send) == [err |-> FALSE, send |-> send, s |-> [s EXCEPT !.ndone = TRUE]]
    IN  CASE r.state = "reject" /\ r.token = None -> [err |-> TRUE]
          [] ~s.ndone /\ ~same -> InitReselect(c, s, r)
          [] s.done = (r.token # None) -> [err |-> TRUE]
          [] ~s.done \/ (s.ndone /\ s.mic.reqd /\ Integ(s)) -> go("cont")
          [] OTHER -> go("none")

InitInner(c, s, token) ==
    IF s.done THEN [s |-> s, out |-> None, err |-> FALSE]
    ELSE IF s.mech = "negoex"
         THEN InnerNegoex(s, NxInit(s.nx, IF token = None THEN <<>> ELSE token))
         ELSE InnerKrb5(s, Krb5Init(c, s.k, token))

\* What is sent, and with it in which state the negotiation stands.
InitSend(s, send, state, token, mic) ==
    [s |-> [s EXCEPT !.opened = send = "none" \/ state = "completed"], err |-> FALSE,
     out |-> CASE send = "init" -> NegTokenInit(s.types, token, mic)
               [] send = "cont" -> NegTokenResp(state, None, token, mic)
               [] OTHER -> None]

\* A reply that only completes the mechanism is not answered.
QuietReply(n, i) ==
    n.send = "cont" /\ ~n.s.done /\ i.s.done /\ i.out = None /\ ~(i.s.mic.reqd /\ Integ(i.s))

InitMics(s0, n, i, h) ==
    IF h.err THEN NoStep(s0)
    ELSE InitSend([i.s EXCEPT !.mic = h.mic, !.k.ctx = h.ctx],
                  IF h.both /\ n.send # "init" THEN (IF h.owed THEN "cont" ELSE "none")
                  ELSE IF QuietReply(n, i) THEN "none" ELSE n.send,
                  h.state, i.out, h.out)

InitStepped(s0, r, n, i) ==
    CASE i.err \/ (r # None /\ r.state = "reject") -> NoStep(s0)
      [] i.s.done /\ Integ(i.s) ->
            InitMics(s0, n, i, HandleMic(i.s.mic, i.s.k.ctx, IF r = None THEN None ELSE r.mic,
                                         i.out # None, i.s.types, "incomplete"))
      [] OTHER -> InitSend(i.s, IF QuietReply(n, i) THEN "none" ELSE n.send, "incomplete",
                           i.out, None)

InitNegotiated(c, s0, r, n) ==
    IF n.err THEN NoStep(s0)
    ELSE InitStepped(s0, r, n, InitInner(c, n.s, IF r = None THEN None ELSE r.token))

\* SpnegoInitiator::step; r is None on the first call.
SpnegoInit(c, s0, r) ==
    InitNegotiated(c, s0, r, IF s0.fresh THEN InitNew(c, s0) ELSE InitCont(c, s0, r))

\* SpnegoAcceptor; list is der_mech_types, what MICs are made over.
NewSpnegoAcceptor(c) ==
    [mech |-> None, list |-> <<>>, done |-> FALSE, mic |-> NoMic, opened |-> FALSE,
     k |-> NewKrb5("krb5", <<>>), nx |-> NewNegoex(FALSE, c.aschemes, FALSE)]

\* negotiate_mech: only the "wrong" OID is taken for krb5.
NegotiateMech(c, types) ==
    {i \in 1..Len(types) : (IF types[i] = "wrong" THEN "krb5" ELSE types[i]) \in Range(c.atypes)}

\* acc_ctx_new
AccNew(c, s, t) ==
    LET at == NegotiateMech(c, t.types)
    IN  IF t.ty # "init" \/ at = {} THEN [err |-> TRUE]
        ELSE LET i == Min(at)
             IN  [err |-> FALSE, state |-> IF i = 1 THEN "incomplete" ELSE "mic",
                  s |-> [s EXCEPT !.mech = t.types[i], !.list = t.types, !.mic.reqd = @ \/ i # 1]]

\* acc_ctx_cont
AccCont(s, t) ==
    IF t.ty # "resp" \/ (t.token = None /\ t.mic = None) \/ t.mech # None THEN [err |-> TRUE]
    ELSE [err |-> FALSE, state |-> "incomplete", s |-> s]

\* acc_ctx_vfy_oid and the inner mechanism; a token sent along with a
\* mechanism that was not chosen is left alone.
AccInner(c, s, state, token) ==
    IF state = "mic" \/ token = None THEN [s |-> s, out |-> None, err |-> FALSE]
    ELSE IF s.mech = "negoex" THEN InnerNegoex(s, NxAccept(s.nx, token))
    ELSE InnerKrb5(s, Krb5Accept(c, s.k, token))

AccSend(s, state, mech, token, mic) ==
    [s |-> [s EXCEPT !.opened = state = "completed"], err |-> FALSE,
     out |-> NegTokenResp(state, mech, token, mic)]

\* The mechanism is named in the first reply, unless that ends it all.
AccMics(s0, i, h) ==
    IF h.err THEN NoStep(s0)
    ELSE LET r == AccSend([i.s EXCEPT !.mic = h.mic, !.k.ctx = h.ctx], h.state,
                          IF s0.mech = None /\ ~h.both THEN i.s.mech ELSE None, i.out, h.out)
         IN  IF h.both /\ ~h.owed THEN [r EXCEPT !.out = None] ELSE r

AccStepped(s0, t, i, state) ==
    IF i.s.done /\ Integ(i.s)
      THEN AccMics(s0, i, HandleMic(i.s.mic, i.s.k.ctx, t.mic, i.out # None, i.s.list, state))
      ELSE AccSend(i.s, state, IF s0.mech = None THEN i.s.mech ELSE None, i.out, None)

AccCompleted(s0, t, n, i) ==
    IF i.err THEN NoStep(s0)
    ELSE AccStepped(s0, t, i,
                    IF /\ n.state # "mic" /\ t.token # None /\ i.s.done
                       /\ ~i.s.mic.reqd \/ ~Integ(i.s)
                    THEN "completed" ELSE n.state)

AccNegotiated(c, s0, t, n) ==
    IF n.err THEN NoStep(s0) ELSE AccCompleted(s0, t, n, AccInner(c, n.s, n.state, t.token))

\* SpnegoAcceptor::step
SpnegoAccept(c, s0, t) ==
    AccNegotiated(c, s0, t, IF s0.mech = None THEN AccNew(c, s0, t) ELSE AccCont(s0, t))

\* acc_ctx_hints: the answer to an empty first token names the acceptor's
\* own list, and leaves nothing else behind.
SpnegoHints(c, s) == [s EXCEPT !.list = c.atypes]

----------------------------------------------------------------------------
(* IAKERB: the acceptor carries the initiator's KDC messages.  An AS or TGS *)
(* exchange (AsExchange, TgsClient) is known by what its next step does     *)
(* with a reply: o is "send", "done" or "fail".                             *)

Proxy(realm, msg, n) == [ty |-> "proxy", realm |-> realm, msg |-> msg, n |-> n]
KdcErrors == {"not found", "no response"}       \* the proxy's own error codes

\* IakerbInitiator::new, iakerb_get_initial_state
NewIakerbInitiator(c) ==
    [state |-> IF c.cred = "no realm" THEN "realm" ELSE IF c.cred = "service" THEN "ap"
               ELSE IF c.cred = "tgt" THEN "tgs" ELSE "as",
     tgt |-> c.cred \in {"tgt", "service"}, conv |-> <<>>, opened |-> FALSE,
     k |-> NewKrb5("iakerb", <<>>)]

Emit(s, token) == [s |-> [s EXCEPT !.conv = Append(@, token)], out |-> token, err |-> FALSE]
Request(s, state) == Emit([s EXCEPT !.state = state], Proxy("R", state, Len(s.conv)))

\* The AP exchange, under the IAKERB mechanism and over the conversation
ApStepped(s, r) ==
    [s |-> [s EXCEPT !.state = "ap", !.k = r.k, !.opened = r.k.st = "done"],
     out |-> r.out, err |-> r.err]
ApStep(c, s, token) ==
    ApStepped(s, IF s.k.st = "new" THEN Krb5Init(c, [s.k EXCEPT !.conv = s.conv], None)
                                   ELSE Krb5Init(c, s.k, token))

\* iakerb_step
IakerbStep(c, s0, token, o) ==
    LET first == token = None
        s     == IF first THEN s0 ELSE [s0 EXCEPT !.conv = Append(@, token)]
    IN  CASE ~first /\ token.msg \in KdcErrors -> NoStep(s0)
          [] s.state = "realm" /\ first -> Emit(s, Proxy(None, None, 0))
          [] s.state = "realm" /\ token.realm = None -> NoStep(s0)
          [] s.state = "realm" -> Request(s, "as")
          [] s.state = "as" /\ (first \/ o = "send") -> Request(s, "as")
          [] s.state = "as" /\ o = "fail" /\ ~s.tgt -> NoStep(s0)
          [] s.state = "as" -> Request([s EXCEPT !.tgt = TRUE], "tgs")
          [] s.state = "tgs" /\ (first \/ o = "send") -> Request(s, "tgs")
          [] s.state = "tgs" /\ o = "fail" -> NoStep(s0)
          [] OTHER -> ApStep(c, s, None)

IakerbInit(c, s, token, o) ==
    IF s.state = "ap" THEN ApStep(c, s, token) ELSE IakerbStep(c, s, token, o)

\* IakerbAcceptor
NewIakerbAcceptor ==
    [conv |-> <<>>, count |-> 0, pending |-> None, opened |-> FALSE,
     k |-> NewKrb5("iakerb", <<>>), started |-> FALSE]

AccEmit(s, token) ==
    [s |-> [s EXCEPT !.conv = Append(@, token), !.count = @ + 1, !.pending = None],
     out |-> token, err |-> FALSE]

ProxyStepForgets(c, s0, token) ==
    CASE s0.started \/ s0.pending # None -> NoStep(s0)
      [] token.realm = None /\ token.msg = None ->
            AccEmit(s0, IF c.arealm THEN Proxy("R", None, 1) ELSE Proxy(None, "not found", 1))
      [] OTHER -> [s |-> [s0 EXCEPT !.pending = token.realm], out |-> None, err |-> FALSE]

\* iakerb_acceptor_step: realm discovery is answered, a request goes to a KDC.
ProxyStep(c, s0, token) ==
    LET s == [s0 EXCEPT !.conv = Append(@, token)]
    IN  CASE s0.started \/ s0.pending # None -> NoStep(s0)
          [] s0.count >= MaxHops -> NoStep(s0)
          [] token.realm = None /\ token.msg = None ->
                AccEmit(s, IF c.arealm THEN Proxy("R", None, 1) ELSE Proxy(None, "not found", 1))
          [] token.realm = None \/ token.msg = None -> NoStep(s0)
          [] OTHER -> [s |-> [s EXCEPT !.pending = token.realm], out |-> None, err |-> FALSE]

AccApStepped(s, r) ==
    [s |-> [s EXCEPT !.started = TRUE, !.k = r.k, !.opened = r.k.st = "done"],
     out |-> r.out, err |-> r.err]
IakerbAccept(c, s, token) ==
    CASE token.ty = "proxy" -> ProxyStep(c, s, token)
      [] s.pending # None   -> NoStep(s)
      [] OTHER -> AccApStepped(s, Krb5Accept(c, IF s.started THEN s.k
                                                ELSE [s.k EXCEPT !.conv = s.conv], token))

\* kdc_reply: the KDC's answer, or why there is none.
KdcReply(s, reply) ==
    IF reply = "other" THEN NoStep([s EXCEPT !.pending = None])
    ELSE AccEmit(s, Proxy(s.pending, reply, s.count))
============================================================================
