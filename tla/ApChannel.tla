----------------------------- MODULE ApChannel -----------------------------
(***************************************************************************)
(* Two authentication contexts over a network that loses, duplicates,      *)
(* delays, reorders and reflects: the AP exchange, then KRB-SAFE, KRB-PRIV *)
(* and KRB-CRED messages both ways.  An implementation that numbers its    *)
(* messages in signed bytes may be the service.                            *)
(***************************************************************************)
EXTENDS ApContext, FiniteSets

CONSTANTS ApConfigs,    \* flags, options, addresses, numbers and message counts considered
          MaxReads,     \* messages a side is given
          MaxApClock

VARIABLES
    acfg,     \* the configuration
    actx,     \* the context of each side
    apc,      \* "new", "req", "open" or "dead", for each side
    wire,     \* every message ever made, in order
    given,    \* how many messages each side was given
    got,      \* what each side accepted: indices of wire
    clean,    \* each side was given only the peer's messages, in order and in time
    spurned,  \* the sides so treated that refused a message
    aclock

apVars == <<acfg, actx, apc, wire, given, got, clean, spurned, aclock>>

Sides == {"c", "s"}
Peer(p) == IF p = "c" THEN "s" ELSE "c"

ApInit ==
    /\ acfg \in ApConfigs
    /\ actx = [p \in Sides |-> ApNew(acfg.flags \cup (IF p = "s" THEN acfg.sflags ELSE {}),
                                     p, IF acfg.addrs THEN Peer(p) ELSE NoAp, acfg.etypes[p])]
    /\ apc = [p \in Sides |-> "new"]
    /\ wire = << >> /\ given = [p \in Sides |-> 0] /\ got = [p \in Sides |-> << >>]
    /\ clean = [p \in Sides |-> TRUE] /\ spurned = {} /\ aclock = 0

Ticket == [key |-> <<"session", acfg.tktetype>>, etype |-> acfg.tktetype, kvno |-> acfg.kvno,
           server |-> "s", client |-> "c", caddr |-> NoAp, transited |-> FALSE,
           start |-> 0, end |-> acfg.end, invalid |-> FALSE]

\* A number as the peer's encoder writes it.
Encoded(n) ==
    IF acfg.signed /\ \E k \in 1..3 : HighBit(n, k)
    THEN SignExtended(n, CHOOSE k \in 1..3 : HighBit(n, k)) ELSE n

\* The exchange itself is in order: a connection or one datagram each way.
ApRequest ==
    /\ apc["c"] = "new" /\ apc["s"] = "new"
    /\ \E r \in {ApMkReq(actx["c"], acfg, [tkt |-> Ticket, client |-> "c"], acfg.bc, 0, aclock)} :
         /\ actx' = [actx EXCEPT !["c"] = r.ctx]
         /\ apc' = [apc EXCEPT !["c"] = IF ~r.ok THEN "dead" ELSE IF acfg.mutual THEN "req" ELSE "open",
                               !["s"] = IF r.ok THEN "req" ELSE "dead"]
         /\ wire' = IF r.ok THEN <<r.out>> ELSE wire
    /\ UNCHANGED <<acfg, given, got, clean, spurned, aclock>>

ApService ==
    /\ apc["s"] = "req"
    /\ \E r \in {ApRdReq(actx["s"], wire[1], "s", acfg.kvnos, aclock)} :
       \E t \in {IF r.ok /\ acfg.mutual THEN ApMkRep(r.ctx, acfg.bs) ELSE r} :
         /\ actx' = [actx EXCEPT !["s"] = t.ctx]
         /\ apc' = [apc EXCEPT !["s"] = IF r.ok THEN "open" ELSE "dead",
                               !["c"] = IF r.ok THEN @ ELSE "dead"]
         /\ wire' = <<IF r.ok /\ acfg.mutual THEN [t.out EXCEPT !.seq = Encoded(@)] ELSE NoAp>>
    /\ UNCHANGED <<acfg, given, got, clean, spurned, aclock>>

ApReply ==
    /\ apc["c"] = "req" /\ apc["s"] = "open"
    /\ \E r \in {ApRdRep(actx["c"], wire[1])} :
         /\ actx' = [actx EXCEPT !["c"] = r.ctx]
         /\ apc' = [apc EXCEPT !["c"] = IF r.ok THEN "open" ELSE "dead"]
    /\ UNCHANGED <<acfg, wire, given, got, clean, spurned, aclock>>

\* init_ivector on both sides before the first message
ApIvector ==
    /\ acfg.chain /\ \A p \in Sides : apc[p] = "open" /\ actx[p].cst = NoNum
    /\ actx' = [p \in Sides |-> InitIvector(actx[p])]
    /\ UNCHANGED <<acfg, apc, wire, given, got, clean, spurned, aclock>>

Ready == /\ \A p \in Sides : apc[p] = "open"
         /\ acfg.chain => \A p \in Sides : actx[p].cst # NoNum

\* The messages of p on the wire; the first entry is the exchange's.
Made(p) == SelectSeq([i \in 1..Len(wire) |-> i],
                     LAMBDA i : i > 1 /\ wire[i].from = p)

ApSend(p, kind) ==
    /\ Ready /\ Len(Made(p)) < acfg.msgs
    /\ p \in acfg.senders
    /\ \E r \in {ApMake(actx[p], kind, Len(wire) + 1, Len(wire) + 1, aclock)} :
         /\ r.ok
         /\ actx' = [actx EXCEPT ![p] = r.ctx]
         /\ wire' = Append(wire, IF p = "s" /\ r.out.seq # NoNum
                                 THEN [r.out EXCEPT !.seq = Encoded(@)] ELSE r.out)
    /\ UNCHANGED <<acfg, apc, given, got, clean, spurned, aclock>>

\* p is given message i, whoever made it and however often it came.
ApDeliver(p, i) ==
    /\ Ready /\ i \in 2..Len(wire) /\ p \in acfg.readers /\ given[p] < MaxReads
    /\ LET m == wire[i]
           next == given[p] < Len(Made(Peer(p))) /\ Made(Peer(p))[given[p] + 1] = i
           still == clean[p] /\ next /\ (m.time # NoNum => InSkew(m.time, aclock))
       IN  /\ acfg.any \/ still
           /\ \E r \in {ApRead(actx[p], m.kind, m, aclock)} :
             /\ actx' = [actx EXCEPT ![p] = r.ctx]
             /\ got' = IF r.ok THEN [got EXCEPT ![p] = Append(@, i)] ELSE got
             /\ given' = [given EXCEPT ![p] = @ + 1]
             /\ clean' = [clean EXCEPT ![p] = still]
             /\ spurned' = IF still /\ ~r.ok THEN spurned \cup {p} ELSE spurned
    /\ UNCHANGED <<acfg, apc, wire, aclock>>

ApTick ==
    /\ "time" \in acfg.flags /\ aclock < MaxApClock
    /\ aclock' = aclock + 1
    /\ UNCHANGED <<acfg, actx, apc, wire, given, got, clean, spurned>>

ApNext ==
    \/ ApRequest \/ ApService \/ ApReply \/ ApIvector \/ ApTick
    \/ \E p \in Sides : \/ \E kind \in {"safe", "priv", "cred"} : kind \in acfg.kinds /\ ApSend(p, kind)
                        \/ \E i \in 2..Len(wire) : ApDeliver(p, i)

----------------------------------------------------------------------------
\* With sequence numbers, what a side has accepted is a beginning of what its
\* peer sent, in its order, whatever the network did; with timestamps alone,
\* no message is accepted twice and none that the side made itself
\* (check_seqnum, check_replay, the tags mk_safe and mk_priv record).  Without
\* mutual authentication the service counts from the client's number, and
\* only the replay cache tells its own messages from the client's.
InOrderOnce ==
    \A p \in Sides :
      LET theirs == Made(Peer(p)) IN
      /\ "seq" \in acfg.flags /\ (acfg.mutual \/ "time" \in acfg.flags) =>
           Len(got[p]) <= Len(theirs) /\ got[p] = SubSeq(theirs, 1, Len(got[p]))
      /\ "time" \in acfg.flags =>
           \A i \in DOMAIN got[p] : /\ wire[got[p][i]].from = Peer(p)
                                    /\ \A j \in DOMAIN got[p] : got[p][i] = got[p][j] => i = j

\* A side that was given its peer's messages in order and in time has refused
\* none: the keys and numbers agree after the exchange, through every boundary
\* of the number's bytes, and for a peer that counts in signed bytes.  A
\* client that did without mutual authentication has no number to expect.
NoneSpurned == "s" \notin spurned /\ (acfg.mutual => "c" \notin spurned)

\* The channel is exact: nothing out of order, repeated or reflected is
\* accepted, and nothing that came in order and in time is refused.
ChannelExact == InOrderOnce /\ NoneSpurned

=============================================================================
