----------------------------- MODULE SeqWindow -----------------------------
(***************************************************************************)
(* The two receive windows of the GSS layer, as functions of their state:  *)
(* the per-message sequence state of a context (gssapi/seqstate.rs) and    *)
(* the call window of an RPCSEC_GSS server (rpc/gss.rs).  Both are bitmaps *)
(* in one machine word; the word's width, 64 and 32 in the code, is a      *)
(* parameter.  A shift by the whole width leaves a word as it is, which is *)
(* what the code's plain << does in a release build.                       *)
(***************************************************************************)
EXTENDS Integers

CONSTANT Width      \* bits of a window's word
ASSUME WidthAssumption == Width \in Nat \ {0}

Word == 2 ^ Width

\* x << n on a word, the amount taken modulo the width
Shl(x, n) == (x * 2 ^ (n % Width)) % Word
Bit(x, n) == (x \div 2 ^ n) % 2 = 1
SetBit(x, n) == IF Bit(x, n) THEN x ELSE x + 2 ^ n

----------------------------------------------------------------------------
(* SeqState *)

\* SeqState::new
NewSeqState(base, replay, sequence) ==
    [base |-> base, replay |-> replay, sequence |-> sequence, next |-> 0, recvmap |-> 0]

\* SeqState::check: what it reports and the state it leaves.
Checked(s, status, next, map) ==
    [status |-> status, state |-> [s EXCEPT !.next = next, !.recvmap = map]]

CheckNewOneShort(s, rel) ==
    LET offset == rel - s.next
    IN  Checked(s, IF offset > 0 /\ s.sequence THEN "gap" ELSE "complete", rel + 1,
                IF offset >= Width THEN 1 ELSE SetBit(Shl(s.recvmap, offset), 0))

CheckNew(s, rel) ==
    LET offset == rel - s.next
    IN  Checked(s, IF offset > 0 /\ s.sequence THEN "gap" ELSE "complete", rel + 1,
                IF offset >= Width THEN 1 ELSE SetBit(Shl(s.recvmap, offset + 1), 0))

CheckOld(s, rel) ==
    LET offset == s.next - rel
        seen   == s.replay /\ offset <= Width /\ Bit(s.recvmap, offset - 1)
    IN  CASE offset > Width -> Checked(s, IF s.sequence THEN "unseq" ELSE "old", s.next, s.recvmap)
          [] seen           -> Checked(s, "duplicate", s.next, s.recvmap)
          [] OTHER          -> Checked(s, IF s.sequence THEN "unseq" ELSE "complete", s.next,
                                       SetBit(s.recvmap, offset - 1))

CheckSeq(s, seq) ==
    IF ~s.replay /\ ~s.sequence THEN [status |-> "complete", state |-> s]
    ELSE LET rel == seq - s.base
         IN  IF rel >= s.next THEN CheckNew(s, rel) ELSE CheckOld(s, rel)

----------------------------------------------------------------------------
(* The RPCSEC_GSS server's window: checked before the call's MIC is, and    *)
(* advanced after it verified.                                              *)

InWindow(w, seq) ==
    seq <= w.last => w.last - seq < Width /\ ~Bit(w.mask, w.last - seq)

AdvanceLate(w, seq) ==
    IF seq > w.last
    THEN [last |-> seq,
          mask |-> SetBit(IF seq - w.last >= Width THEN 0 ELSE Shl(w.mask, seq - w.last), 0)]
    ELSE w
Advance(w, seq) ==
    IF seq > w.last
    THEN [last |-> seq,
          mask |-> SetBit(IF seq - w.last >= Width THEN 0 ELSE Shl(w.mask, seq - w.last), 0)]
    ELSE [w EXCEPT !.mask = SetBit(@, w.last - seq)]
============================================================================
