------------------------------ MODULE Negoex -------------------------------
(***************************************************************************)
(* NegoEx (gssapi/negoex.rs): the negotiation of one of several            *)
(* authentication schemes inside a SPNEGO mechanism token, as functions of *)
(* one side's state and the token it received.  A token is a sequence of   *)
(* messages; each carries a sequence number counted over both directions,  *)
(* and a Verify message a checksum over everything before it, here the     *)
(* transcript itself.  Conversation identifiers, extensions and the byte   *)
(* layout are left out.                                                    *)
(*                                                                         *)
(* The schemes' mechanisms are external (the NegoexMech trait): scheme s   *)
(* exchanges Legs[s] tokens, alternating from the initiator, and has its   *)
(* keys once KeyAt[s] of them were sent or received.                       *)
(***************************************************************************)
EXTENDS Integers, Sequences, FiniteSets, SequencesExt, FiniteSetsExt

CONSTANTS
    None,
    Legs, KeyAt,        \* scheme -> number of tokens
    InitFails,          \* schemes whose init_sec_context fails at once
    EarlyFails,         \* schemes whose accept_sec_context fails on an optimistic token
    MetaFails           \* schemes that refuse the peer's metadata

\* Negoex::new; the transcript is what sent and received tokens contained.
NewMech(s) == [s |-> s, n |-> 0, ctx |-> FALSE, complete |-> FALSE, key |-> FALSE,
               sent |-> FALSE, verified |-> FALSE]
NewNegoex(initiator, schemes, optimistic) ==
    [initiator |-> initiator, mechs |-> [i \in 1..Len(schemes) |-> NewMech(schemes[i])],
     step |-> 0, seqnum |-> 0, transcript |-> <<>>, optimistic |-> optimistic]

Failed(nx) == [nx |-> nx, token |-> <<>>, complete |-> FALSE, err |-> TRUE]

----------------------------------------------------------------------------
(* Messages *)

Msg(ty, s, body) == [ty |-> ty, s |-> s, body |-> body]
OfType(token, ty) == {k \in 1..Len(token) : token[k].ty = ty}
Has(token, ty) == OfType(token, ty) # {}
First(token, ty) == token[Min(OfType(token, ty))]

\* parse_token: the sequence numbers must continue the count.
Parses(nx, token) == \A k \in 1..Len(token) : token[k].seq = nx.seqnum + k - 1

\* put_header numbers the messages of an output token.
Numbered(nx, msgs) ==
    [k \in 1..Len(msgs) |-> [ty |-> msgs[k].ty, s |-> msgs[k].s, body |-> msgs[k].body,
                             seq |-> nx.seqnum + k - 1]]

Schemes(nx) == [i \in 1..Len(nx.mechs) |-> nx.mechs[i].s]
Locate(nx, s) == {i \in 1..Len(nx.mechs) : nx.mechs[i].s = s}
Select(nx, i) == [nx EXCEPT !.mechs = <<nx.mechs[i]>>]

Restart(m) == [m EXCEPT !.n = 0, !.ctx = FALSE, !.complete = FALSE, !.key = FALSE, !.sent = FALSE]

\* process_alerts: the peer could not verify yet; the checksum is owed again.
ProcessAlerts(nx, token) ==
    IF ~Has(token, "alert") THEN nx
    ELSE [nx EXCEPT !.mechs =
             [i \in DOMAIN @ |-> IF @[i].s = First(token, "alert").s
                                 THEN [@[i] EXCEPT !.sent = FALSE, !.key = FALSE] ELSE @[i]]]

\* exchange_meta_data drops the schemes that refuse what the peer sent.
ExchangeMeta(nx, token) ==
    [nx EXCEPT !.mechs = SelectSeq(@, LAMBDA m :
        m.s \in MetaFails => ~ \E k \in OfType(token, "meta") : token[k].s = m.s)]

----------------------------------------------------------------------------
(* The mechanism's own steps *)

\* The mechanism took in (or produces) tokens up to n.
MechAt(m, n) == [m EXCEPT !.n = n, !.ctx = TRUE, !.complete = n >= Legs[m.s],
                          !.key = n >= KeyAt[m.s]]

\* A mechanism that has seen n tokens answers with the next one, if any.
MechReply(m, n) ==
    IF n >= Legs[m.s] THEN [m |-> MechAt(m, n), out |-> <<>>]
    ELSE [m |-> MechAt(m, n + 1), out |-> <<n + 1>>]

\* mech_init: the first scheme whose mechanism takes the step; only the
\* scheme the peer answered for gets its challenge.
Challenged(nx, token, k) ==
    k = 1 /\ Has(token, "challenge") /\ First(token, "challenge").s = nx.mechs[1].s
Promoted(nx, k, r) ==
    [nx |-> [nx EXCEPT !.mechs = <<r.m>> \o SubSeq(@, k + 1, Len(@))], out |-> r.out]
StepFirst(nx, token, k) ==
    Promoted(nx, k, MechReply(nx.mechs[k], IF Challenged(nx, token, k)
                                             THEN First(token, "challenge").body
                                             ELSE nx.mechs[k].n))
Live(nx) == {i \in 1..Len(nx.mechs) : nx.mechs[i].s \notin InitFails}
MechInit(nx, token) ==
    CASE (nx.step = 1 /\ ~nx.optimistic) \/ nx.mechs[1].complete -> [nx |-> nx, out |-> <<>>]
      [] Live(nx) = {} -> [nx |-> [nx EXCEPT !.mechs = <<>>], out |-> <<>>]
      [] OTHER -> StepFirst(nx, token, Min(Live(nx)))

\* mech_accept: the token is for the first scheme, or chooses one.
Stepped(nx, r) == [nx |-> [nx EXCEPT !.mechs[1] = r.m], out |-> r.out, err |-> FALSE]
MechTakes(nx, n) ==
    IF nx.mechs[1].complete THEN [nx |-> nx, out |-> <<>>, err |-> FALSE]
    ELSE Stepped(nx, MechReply(nx.mechs[1], n))
MechChosen(nx, ap) ==
    CASE nx.step = 1 /\ (ap.s # nx.mechs[1].s \/ ap.s \in EarlyFails) ->
            [nx |-> nx, out |-> <<>>, err |-> FALSE]
      [] nx.step = 1 -> MechTakes(nx, ap.body)
      [] Locate(nx, ap.s) = {} -> [nx |-> nx, out |-> <<>>, err |-> TRUE]
      [] OTHER -> MechTakes(Select(nx, Min(Locate(nx, ap.s))), ap.body)
MechAccept(nx, token) ==
    IF Has(token, "ap") THEN MechChosen(nx, First(token, "ap"))
    ELSE [nx |-> nx, out |-> <<>>, err |-> nx.step # 1 /\ ~nx.mechs[1].complete]

----------------------------------------------------------------------------
(* The checksums over the transcript *)

Prefix(token) == SubSeq(token, 1, Min(OfType(token, "verify")) - 1)

VerifyWholeToken(nx, token) ==
    IF ~Has(token, "verify") \/ First(token, "verify").s # nx.mechs[1].s
    THEN [nx |-> nx, alert |-> FALSE, err |-> FALSE]
    ELSE [nx |-> [nx EXCEPT !.mechs[1].verified = TRUE], alert |-> FALSE,
          err |-> First(token, "verify").body # nx.transcript \o token]

\* verify_checksum: whether the peer's checksum covers what this side sent
\* and received, or cannot be verified yet.
Verify(nx, token) ==
    IF ~Has(token, "verify") \/ First(token, "verify").s # nx.mechs[1].s
    THEN [nx |-> nx, alert |-> FALSE, err |-> FALSE]
    ELSE IF ~nx.mechs[1].key THEN [nx |-> nx, alert |-> TRUE, err |-> FALSE]
    ELSE [nx |-> [nx EXCEPT !.mechs[1].verified = TRUE], alert |-> FALSE,
          err |-> First(token, "verify").body # nx.transcript \o Prefix(token)]

\* make_output_token with make_checksum
Hello(nx) ==
    IF nx.step # 1 THEN <<>>
    ELSE <<Msg("nego", None, Schemes(nx))>>
            \o [i \in 1..Len(nx.mechs) |-> Msg("meta", nx.mechs[i].s, 0)]
MechMsg(nx, out) ==
    IF out = <<>> THEN <<>>
    ELSE <<Msg(IF nx.initiator THEN "ap" ELSE "challenge", nx.mechs[1].s, out[1])>>
Warning(nx, alert) == IF alert THEN <<Msg("alert", nx.mechs[1].s, 0)>> ELSE <<>>
\* The checksum follows what it covers, once the key is there.
Checksummed(nx, plain) ==
    IF nx.mechs[1].sent \/ ~nx.mechs[1].key THEN plain
    ELSE Append(plain, [ty |-> "verify", s |-> nx.mechs[1].s, body |-> nx.transcript \o plain,
                        seq |-> nx.seqnum + Len(plain)])
Given(nx, m, token) ==
    [nx |-> [nx EXCEPT !.mechs[1].sent = m.sent \/ m.key,
                       !.seqnum = @ + Len(token),
                       !.transcript = @ \o token],
     token |-> token, complete |-> m.complete /\ m.verified,
     err |-> ~m.sent /\ ~m.key /\ m.complete]
Output(nx, out, alert) ==
    IF out = <<>> /\ nx.mechs[1].sent
    THEN [nx |-> nx, token |-> <<>>, err |-> FALSE,
          complete |-> nx.mechs[1].complete /\ nx.mechs[1].verified]
    ELSE Given(nx, nx.mechs[1],
               Checksummed(nx, Numbered(nx, Hello(nx) \o MechMsg(nx, out) \o Warning(nx, alert))))

Received(nx, token) == [nx EXCEPT !.transcript = @ \o token]

\* The last part of a step: verify, extend the transcript, answer.
Verified(nx, token, out, v) ==
    IF v.err THEN Failed(nx) ELSE Output(Received(v.nx, token), out, v.alert)
Finish(nx, token, out) == Verified(nx, token, out, Verify(nx, token))

----------------------------------------------------------------------------
(* Negoex::init and Negoex::accept *)

\* check_optimistic_result: the acceptor took the optimistic token, or the
\* mechanism starts over.
Optimistic(nx, token) ==
    IF nx.mechs = <<>> \/ ~nx.mechs[1].ctx THEN nx
    ELSE IF Has(token, "challenge") \/ Has(token, "verify") THEN Select(nx, 1)
    ELSE [nx EXCEPT !.mechs[1] = Restart(@)]

\* negoex_common_auth_schemes: the schemes both have, in the acceptor's order
Common(nx, theirs) ==
    LET both == SelectSeq(theirs, LAMBDA s : Locate(nx, s) # {})
    IN  [nx EXCEPT !.mechs = [i \in 1..Len(both) |-> nx.mechs[Min(Locate(nx, both[i]))]]]

NxBegin(nx, token) ==
    ProcessAlerts([nx EXCEPT !.step = @ + 1, !.seqnum = @ + Len(token)], token)

NxInitEnd(nx0, token, r) ==
    IF r.nx.mechs = <<>> THEN Failed(nx0)
    ELSE Finish(IF r.nx.step = 2 THEN Select(r.nx, 1) ELSE r.nx, token, r.out)
NxInitMech(nx0, token, nx) ==
    IF nx.mechs = <<>> THEN Failed(nx0) ELSE NxInitEnd(nx0, token, MechInit(nx, token))
NxInitBegun(nx0, token, nx) ==
    CASE ~Parses(nx0, token) \/ (nx.step = 2 /\ ~Has(token, "nego")) -> Failed(nx0)
      [] nx.step # 2 -> NxInitMech(nx0, token, nx)
      [] OTHER -> NxInitMech(nx0, token, Common(ExchangeMeta(Optimistic(nx, token), token),
                                                First(token, "nego").body))
NxInit(nx0, token) == NxInitBegun(nx0, token, NxBegin(nx0, token))

\* The schemes the initiator offered, of those this side has.
Offered(nx, token) ==
    [nx EXCEPT !.mechs = SelectSeq(@, LAMBDA m : m.s \in Range(First(token, "nego").body))]
NxAcceptEnd(nx0, token, r) ==
    IF r.err THEN Failed(nx0) ELSE Finish(r.nx, token, r.out)
NxAcceptMech(nx0, token, nx) ==
    IF nx.mechs = <<>> THEN Failed(nx0) ELSE NxAcceptEnd(nx0, token, MechAccept(nx, token))
NxAcceptBegun(nx0, token, nx) ==
    CASE ~Parses(nx0, token) \/ (nx.step = 1 /\ ~Has(token, "nego")) -> Failed(nx0)
      [] nx.step # 1 -> NxAcceptMech(nx0, token, nx)
      [] OTHER -> NxAcceptMech(nx0, token, ExchangeMeta(Offered(nx, token), token))
NxAccept(nx0, token) == NxAcceptBegun(nx0, token, NxBegin(nx0, token))
============================================================================
