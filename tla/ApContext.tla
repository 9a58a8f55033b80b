----------------------------- MODULE ApContext -----------------------------
(***************************************************************************)
(* The authentication context of the AP exchange and of KRB-SAFE, KRB-PRIV *)
(* and KRB-CRED messages (protocol/ap).  A message is a record: what it is *)
(* sealed with, what it carries, and an id that stands for its ciphertext  *)
(* or checksum, the tag of the replay cache.  Reading an operation's       *)
(* result: ok, the context after it, and what it returns.                  *)
(***************************************************************************)
EXTENDS Integers, Sequences

CONSTANTS ByteBits,   \* the width of a byte of a sequence number
          Skew        \* clockskew

ASSUME ApAssumption == ByteBits \in Nat \ {0} /\ Skew \in Nat

NoAp == "none"
NoNum == -1                \* a number or a time that is not there

\* Four bytes, as in the code's u32.
SeqMod == 2 ^ (4 * ByteBits)
Wrapped(n) == n % SeqMod

(* Sequence numbers: check_seqnum and its heuristics for a peer that counts *)
(* in signed bytes, which sends 0x80 as 0xFFFFFF80.                         *)

\* The high bit of n's k bytes is set and n has no more of them.
HighBit(n, k) == n \in 2 ^ (k * ByteBits - 1) .. 2 ^ (k * ByteBits) - 1
\* (n & 0xFF800000) == 0xFF800000
Negative(n) == n >= SeqMod - 2 ^ (3 * ByteBits - 1)
SignExtended(n, k) == SeqMod - 2 ^ (k * ByteBits) + n

\* chk_heimdal_seqnum
ChkHeimdalSeqnum(exp, in) == \E k \in 1..3 : HighBit(exp, k) /\ in = SignExtended(exp, k)

SeqOk(c) == [ok |-> TRUE, ctx |-> c]
SeqBad(c) == [ok |-> FALSE, ctx |-> c]

\* An expected zero that was reached by counting up through the negatives is
\* the first number of one more byte.
AfterNegatives(c, in) ==
    IF c.rseq = 0 /\ ~c.heim /\ in \in {2 ^ (k * ByteBits) : k \in 1..3}
    THEN SeqOk([c EXCEPT !.heim = TRUE, !.rseq = in])
    ELSE SeqBad(c)

\* check_seqnum without the heuristics
CheckSeqnumExact(c, in) == IF in = c.rseq THEN SeqOk(c) ELSE SeqBad(c)

CheckSeqnum(c, in) ==
    CASE c.sane -> IF in = c.rseq THEN SeqOk(c) ELSE SeqBad(c)
      [] ~c.sane /\ Negative(in) ->
           IF in = c.rseq /\ (Negative(c.rseq) \/ ~c.heim) THEN SeqOk(c)
           ELSE IF ChkHeimdalSeqnum(c.rseq, in) THEN SeqOk([c EXCEPT !.heim = TRUE])
           ELSE SeqBad(c)
      [] ~c.sane /\ ~Negative(in) ->
           IF in = c.rseq THEN SeqOk([c EXCEPT !.sane = \E k \in 1..3 : HighBit(in, k)])
           ELSE AfterNegatives(c, in)

----------------------------------------------------------------------------
\* AuthContext::new, with the flags and addresses its user sets; cst is the
\* KRB-PRIV cipher state, NoNum until init_ivector.
ApNew(flags, laddr, raddr, etypes) ==
    [flags |-> flags, laddr |-> laddr, raddr |-> raddr, etypes |-> etypes, key |-> NoAp,
     sendk |-> NoAp, recvk |-> NoAp, lseq |-> 0, rseq |-> 0, neg |-> 0, auth |-> NoAp,
     rc |-> {}, sane |-> FALSE, heim |-> FALSE, cst |-> NoNum]

Numbers(c) == c.flags \cap {"seq", "retseq"} # {}

\* gen_seq_number, once: draw is the random number, never zero.
DrawSeq(c, draw) == IF Numbers(c) /\ c.lseq = 0 THEN [c EXCEPT !.lseq = draw] ELSE c

\* validate_times and check_clockskew
TimesValid(t, now) == t.start <= now + Skew /\ now <= t.end + Skew
InSkew(time, now) == time \in now - Skew .. now + Skew

Refused(c) == [ok |-> FALSE, ctx |-> c, out |-> NoAp]
Done(c, out) == [ok |-> TRUE, ctx |-> c, out |-> out]

\* make_ap_authdata: the permitted enctypes up to the ticket's, none if that
\* is the first.
EtypeList(etypes, tkt) ==
    IF etypes[1] = tkt THEN << >>
    ELSE LET at == {i \in DOMAIN etypes : etypes[i] = tkt}
         IN  SubSeq(etypes, 1, IF at = {} THEN Len(etypes) ELSE CHOOSE i \in at : TRUE)

\* mk_req
ApMkReq(c, opts, cred, draw, id, now) ==
    IF (opts.negotiate /\ ~opts.mutual) \/ ~TimesValid(cred.tkt, now) THEN Refused(c)
    ELSE LET k == DrawSeq([c EXCEPT !.key = cred.tkt.key], draw)
             sub == IF opts.subkey /\ k.sendk = NoAp
                    THEN [k EXCEPT !.sendk = <<"sub", cred.tkt.etype>>,
                                   !.recvk = <<"sub", cred.tkt.etype>>]
                    ELSE k
             auth == [client |-> cred.client, time |-> now, id |-> id, subkey |-> sub.sendk,
                      seq |-> sub.lseq,
                      etypes |-> IF opts.negotiate THEN EtypeList(c.etypes, cred.tkt.etype)
                                 ELSE << >>]
         IN  Done([sub EXCEPT !.auth = auth],
                  [tkt |-> cred.tkt, auth |-> auth, mutual |-> opts.mutual])

\* negotiate_etype: the subkey's and the session key's enctypes must be
\* permitted; the most preferred of all offered is chosen.
Member(e, s) == \E i \in DOMAIN s : s[i] = e
NegotiateEtype(offered, mandatory, permitted) ==
    LET usable == {i \in DOMAIN permitted : Member(permitted[i], offered \o mandatory)}
    IN  IF usable = {} \/ \E i \in DOMAIN mandatory : ~Member(mandatory[i], permitted) THEN 0
        ELSE permitted[CHOOSE i \in usable : \A j \in usable : i <= j]

\* The ticket checks of rd_req: for us, with a key of ours, the client of the
\* authenticator, its address, no unchecked transited path, in its lifetime.
TicketGood(c, req, server, kvnos, now) ==
    /\ req.tkt.kvno \in kvnos /\ req.tkt.server = server
    /\ req.auth.client = req.tkt.client
    /\ c.raddr # NoAp /\ req.tkt.caddr # NoAp => req.tkt.caddr = c.raddr
    /\ ~req.tkt.transited
    /\ TimesValid(req.tkt, now) /\ InSkew(req.auth.time, now) /\ ~req.tkt.invalid

\* rd_req; without mutual authentication our number is made from the peer's.
ApRdReq(c, req, server, kvnos, now) ==
    LET mandatory == (IF req.auth.subkey = NoAp THEN << >> ELSE <<req.auth.subkey[2]>>)
                     \o <<req.tkt.etype>>
        neg == NegotiateEtype(req.auth.etypes, mandatory, c.etypes)
    IN  IF \/ ~TicketGood(c, req, server, kvnos, now)
           \/ "time" \in c.flags /\ req.auth.id \in c.rc
           \/ neg = 0
        THEN Refused(c)
        ELSE Done([c EXCEPT !.neg = neg, !.rseq = req.auth.seq, !.key = req.tkt.key,
                            !.recvk = req.auth.subkey, !.sendk = req.auth.subkey,
                            !.lseq = IF ~req.mutual /\ @ = 0 THEN req.auth.seq ELSE @,
                            !.auth = req.auth,
                            !.rc = IF "time" \in c.flags THEN @ \cup {req.auth.id} ELSE @],
                  req.tkt.client)

\* mk_rep, with a subkey of our own when USE_SUBKEY is set
ApMkRep(c, draw) ==
    LET d == DrawSeq(c, draw)
        k == IF "subkey" \in c.flags
             THEN [d EXCEPT !.sendk = <<"acc", c.neg>>, !.recvk = <<"acc", c.neg>>]
             ELSE d
    IN  Done(k, [key |-> c.key, time |-> c.auth.time, id |-> c.auth.id,
                 subkey |-> IF "subkey" \in c.flags THEN k.sendk ELSE c.auth.subkey,
                 seq |-> k.lseq])

\* rd_rep
ApRdRep(c, rep) ==
    IF rep.key # c.key \/ rep.id # c.auth.id THEN Refused(c)
    ELSE Done([c EXCEPT !.rseq = rep.seq,
                        !.recvk = IF rep.subkey = NoAp THEN @ ELSE rep.subkey,
                        !.sendk = IF rep.subkey = NoAp THEN @ ELSE rep.subkey,
                        !.neg = IF rep.subkey = NoAp THEN @ ELSE rep.subkey[2]],
              NoAp)

----------------------------------------------------------------------------
(* KRB-SAFE, KRB-PRIV and KRB-CRED *)

InitIvector(c) == [c EXCEPT !.cst = 0]

SendKey(c) == IF c.sendk # NoAp THEN c.sendk ELSE c.key
RecvKey(c) == IF c.recvk # NoAp THEN c.recvk ELSE c.key

\* mk_safe, mk_priv and mk_cred.  Our own message goes into the replay cache.
\* The clock goes into a message under DO_TIME or RET_TIME, and into every
\* KRB-CRED.  Only KRB-PRIV is chained.
ApMake(c, kind, body, id, now) ==
    LET msg == [kind |-> kind, id |-> id, body |-> body, key |-> SendKey(c),
                time |-> IF kind = "cred" \/ c.flags \cap {"time", "rettime"} # {} THEN now
                         ELSE NoNum,
                seq |-> IF Numbers(c) THEN c.lseq ELSE NoNum,
                from |-> c.laddr, to |-> c.raddr,
                iv |-> IF kind = "priv" THEN c.cst ELSE NoNum]
    IN  IF (c.laddr = NoAp /\ kind # "cred") \/ SendKey(c) = NoAp THEN Refused(c)
        ELSE Done([c EXCEPT !.rc = IF "time" \in c.flags THEN @ \cup {id} ELSE @,
                            !.lseq = IF Numbers(c) THEN Wrapped(@ + 1) ELSE @,
                            !.cst = IF kind = "priv" /\ @ # NoNum THEN id ELSE @],
                  msg)

\* check_addrs; KRB-CRED is not checked.
AddrsGood(c, m) ==
    /\ c.raddr # NoAp => m.from = c.raddr
    /\ m.to # NoAp /\ c.laddr # NoAp => m.to = c.laddr

\* Mutant of CheckReplay: a message that passes is not remembered.
CheckReplayForgets(c, m, now) ==
    IF "time" \notin c.flags \/ m.time = NoNum \/ InSkew(m.time, now) THEN SeqOk(c) ELSE SeqBad(c)

\* check_replay: the clock first, and the tag is kept even if a later check
\* refuses the message.
CheckReplay(c, m, now) ==
    IF "time" \notin c.flags THEN SeqOk(c)
    ELSE IF (m.time # NoNum /\ ~InSkew(m.time, now)) \/ m.id \in c.rc THEN SeqBad(c)
    ELSE SeqOk([c EXCEPT !.rc = @ \cup {m.id}])

\* The number of a message; KRB-CRED's nonce must be the expected one.
CheckNumber(c, m) ==
    LET in == IF m.seq = NoNum THEN 0 ELSE m.seq
        r == IF m.kind = "cred" THEN CheckSeqnumExact(c, in) ELSE CheckSeqnum(c, in)
    IN  IF "seq" \notin c.flags THEN SeqOk(c)
        ELSE [r EXCEPT !.ctx.rseq = IF r.ok THEN Wrapped(@ + 1) ELSE @]

\* The seal: KRB-CRED also tries the session key.  The cipher state follows
\* the ciphertext even when what it gives does not verify: this is the chaining
\* of the aes-sha1 enctypes (18 here); aes-sha2 checks the seal first.
Opens(c, m) ==
    /\ m.key = RecvKey(c) \/ (m.kind = "cred" /\ m.key = c.key)
    /\ m.kind = "priv" => m.iv = c.cst
Chained(c, m) == IF m.kind = "priv" /\ c.cst # NoNum THEN [c EXCEPT !.cst = m.id] ELSE c

\* rd_safe, rd_priv and rd_cred, by a caller that expects kind
ApRead(c0, kind, m, now) ==
    LET c == IF m.kind = kind THEN Chained(c0, m) ELSE c0
        r == CheckReplay(c, m, now)
        s == CheckNumber(r.ctx, m)
    IN  IF m.kind # kind \/ ~Opens(c0, m) \/ (kind # "cred" /\ ~AddrsGood(c, m)) THEN Refused(c)
        ELSE IF ~r.ok THEN Refused(c)
        ELSE IF ~s.ok THEN Refused(s.ctx)
        ELSE Done(s.ctx, m.body)
=============================================================================
