----------------------------- MODULE Iprop_proofs -----------------------------
(***************************************************************************)
(* For every size of the ring and every largest serial number: the         *)
(* primary's update log is a window of consecutive serial numbers whenever *)
(* its header is stable, whatever writers crash, fail, load or reset it,   *)
(* but for slot 0 after a reset that was cut off; and even then an answer  *)
(* brings the updates that follow, in order, or none.                      *)
(***************************************************************************)
EXTENDS Iprop, TLAPS

USE EntriesAssumption, MaxSnoAssumption

-----------------------------------------------------------------------------
(* Slots                                                                   *)

LEMMA Division ==
    ASSUME NEW a \in Int
    PROVE  \E p \in Int, r \in 0 .. Entries - 1 : a = Entries * p + r /\ a % Entries = r
<1>1. a % Entries \in 0 .. Entries - 1 /\ a \div Entries \in Int
      /\ a = Entries * (a \div Entries) + (a % Entries)
  OBVIOUS
<1>. QED  BY <1>1, Zenon

LEMMA SmallMultiple ==
    ASSUME NEW q \in Int, Entries * q < Entries, Entries * q > -Entries
    PROVE  q = 0
OBVIOUS

\* Serial numbers less than a ring apart have different slots; a ring apart
\* they have the same one, and the slot after is that of the next number.
LEMMA SlotRange == ASSUME NEW s \in Nat PROVE SlotOf(s) \in 0 .. Entries - 1
BY DEF SlotOf

LEMMA SlotsDiffer ==
    ASSUME NEW s \in Nat, NEW t \in Nat, s < t, t - s < Entries
    PROVE  SlotOf(s) # SlotOf(t)
<1>1. SUFFICES ASSUME (s - 1) % Entries = (t - 1) % Entries PROVE FALSE
  BY DEF SlotOf
<1>0. s - 1 \in Int /\ t - 1 \in Int
  OBVIOUS
<1>2. PICK p \in Int, r \in 0 .. Entries - 1 : s - 1 = Entries * p + r /\ (s - 1) % Entries = r
  BY <1>0, Division
<1>3. PICK q \in Int, u \in 0 .. Entries - 1 : t - 1 = Entries * q + u /\ (t - 1) % Entries = u
  BY <1>0, Division
<1>4. t - s = Entries * (q - p)
  BY <1>1, <1>2, <1>3
<1>5. q - p = 0
  BY <1>4, SmallMultiple
<1>. QED  BY <1>4, <1>5

LEMMA SlotAgain ==
    ASSUME NEW s \in Nat
    PROVE  SlotOf(s + Entries) = SlotOf(s) /\ SlotOf(s + 1) = s % Entries
<1>1. PICK p \in Int, r \in 0 .. Entries - 1 : s - 1 = Entries * p + r /\ (s - 1) % Entries = r
  BY Division
<1>2. PICK q \in Int, u \in 0 .. Entries - 1 :
         s + Entries - 1 = Entries * q + u /\ (s + Entries - 1) % Entries = u
  <2>1. s + Entries - 1 \in Int
    OBVIOUS
  <2>. QED  BY <2>1, Division
<1>3. Entries * (p + 1 - q) = u - r
  BY <1>1, <1>2
<1>4. p + 1 - q = 0
  BY <1>3, SmallMultiple
<1>5. u = r
  BY <1>3, <1>4
<1>. QED  BY <1>1, <1>2, <1>5 DEF SlotOf

\* A ring's length of consecutive numbers comes by slot 0.
LEMMA MultipleRest == ASSUME NEW q \in Int PROVE (Entries * q) % Entries = 0
<1>1. Entries * q \in Int
  OBVIOUS
<1>2. PICK p \in Int, r \in 0 .. Entries - 1 :
         Entries * q = Entries * p + r /\ (Entries * q) % Entries = r
  BY <1>1, Division
<1>3. Entries * (q - p) = r
  BY <1>2
<1>4. q - p = 0
  BY <1>3, SmallMultiple
<1>. QED  BY <1>2, <1>3, <1>4

LEMMA SlotZeroComes ==
    ASSUME NEW m \in Nat
    PROVE  \E i \in 1 .. Entries : SlotOf(m + i) = 0
<1>1. PICK p \in Int, r \in 0 .. Entries - 1 : m = Entries * p + r /\ m % Entries = r
  BY Division
<1>2. CASE r = 0
  <2>1. m + 1 - 1 = m
    OBVIOUS
  <2>. QED  BY <1>1, <1>2, <2>1 DEF SlotOf
<1>3. CASE r # 0
  <2>. DEFINE i == Entries - r + 1
  <2>1. i \in 1 .. Entries
    BY <1>3
  <2>2. m + i - 1 = Entries * (p + 1) /\ p + 1 \in Int
    BY <1>1
  <2>3. (m + i - 1) % Entries = 0
    BY <2>2, MultipleRest
  <2>4. SlotOf(m + i) = 0
    BY <2>3 DEF SlotOf
  <2>. HIDE DEF i
  <2>. QED  BY <2>1, <2>4, Zenon
<1>. QED  BY <1>2, <1>3

-----------------------------------------------------------------------------
(* Logs                                                                    *)

\* The shapes, with updates of a set U.
Positions == [sno : Nat, time : Nat]
Slots(U) == [sno : Nat, time : Nat, upd : U, commit : BOOLEAN]
Logs(U) ==
    [stable : BOOLEAN, num : Nat, first : Positions, last : Positions,
     slot : [0 .. Entries - 1 -> Slots(U)]]

\* Slot 0 holds the dummy entry of a reset that never wrote its header: c says
\* that one was cut off.  A number whose slot that is has a hole.
Tears(l, c) == c /\ l.slot[0].sno = 1
Hole(l, c, s) == Tears(l, c) /\ SlotOf(s) = 0

\* The window: every number after the lowest in its slot and committed.  Only
\* a full ring that is being written has lost its lowest entry.
Low(l) == l.last.sno - l.num + 1
Window(l, c) ==
    /\ l.last.sno <= MaxSno /\ l.num \in 1 .. Entries /\ Low(l) >= 1
    /\ Tears(l, c) => l.slot[0].upd = NoUpdate
    /\ \A s \in Nat : Low(l) < s /\ s <= l.last.sno =>
          Hole(l, c, s) \/ (l.slot[SlotOf(s)].sno = s /\ l.slot[SlotOf(s)].commit)
    /\ l.stable \/ Entries > 1 => Hole(l, c, l.last.sno) \/ CheckSno(l, l.last)
    /\ l.num < Entries => l.first.sno = Low(l)
    /\ l.stable \/ l.num < Entries =>
          Hole(l, c, Low(l)) \/ (l.first.sno = Low(l) /\ CheckSno(l, l.first))

Ring(l, c) == (\E U : NoUpdate \in U /\ l \in Logs(U)) /\ Window(l, c)

\* The dummy entry is written, in a log with updates U: nothing else changes.
LEMMA DummyWritten ==
    ASSUME NEW U, NoUpdate \in U, NEW l \in Logs(U), NEW p \in Positions
    PROVE  LET d == DummyCut(l, p)
               j == SlotOf(p.sno)
           IN  /\ d \in Logs(U) /\ j \in 0 .. Entries - 1
               /\ d.stable = l.stable /\ d.num = l.num /\ d.first = l.first /\ d.last = l.last
               /\ d.slot[j].sno = p.sno /\ d.slot[j].time = p.time /\ d.slot[j].upd = NoUpdate
               /\ \A i \in 0 .. Entries - 1 : i # j => d.slot[i] = l.slot[i]
<1>. DEFINE e == [sno |-> p.sno, time |-> p.time, upd |-> NoUpdate, commit |-> FALSE]
            j == SlotOf(p.sno)
            slots == [l.slot EXCEPT ![j] = e]
            d == [l EXCEPT !.slot = slots]
<1>1. j \in 0 .. Entries - 1
  BY SlotRange DEF Positions
<1>2. e \in Slots(U) /\ e.sno = p.sno /\ e.time = p.time /\ e.upd = NoUpdate
  BY DEF Slots, Positions
<1>3. l.slot \in [0 .. Entries - 1 -> Slots(U)]
  BY DEF Logs
<1>. HIDE DEF j, e
<1>4. /\ slots \in [0 .. Entries - 1 -> Slots(U)] /\ slots[j] = e
      /\ \A i \in 0 .. Entries - 1 : i # j => slots[i] = l.slot[i]
  BY <1>1, <1>2, <1>3
<1>5. DummyCut(l, p) = d
  BY DEF DummyCut, j, e
<1>. HIDE DEF slots
<1>6. d \in Logs(U)
  BY <1>4 DEF Logs
<1>7. d.stable = l.stable /\ d.num = l.num /\ d.first = l.first /\ d.last = l.last
      /\ d.slot = slots
  BY DEF Logs
<1>. QED  BY <1>1, <1>2, <1>4, <1>5, <1>6, <1>7 DEF j

\* The first serial number has slot 0.
LEMMA FirstSlot == SlotOf(1) = 0
<1>1. (Entries * 0) % Entries = 0 /\ Entries * 0 = 1 - 1
  BY MultipleRest
<1>. QED  BY <1>1 DEF SlotOf

\* A log that is reset is a window of one dummy entry, whatever it was.
LEMMA ResetRing ==
    ASSUME NEW U, NoUpdate \in U, NEW l \in Logs(U), NEW now \in Nat
    PROVE  Reset(l, now) \in Logs(U) /\ Window(Reset(l, now), FALSE)
<1>. DEFINE p == At(1, now)
            d == DummyCut(l, p)
            r == [d EXCEPT !.num = 1, !.first = p, !.last = p, !.stable = TRUE]
<1>1. p \in Positions /\ p.sno = 1 /\ p.time = now
  BY DEF Positions, At
<1>. HIDE DEF p
<1>2. d \in Logs(U) /\ d.slot[SlotOf(p.sno)].sno = p.sno /\ d.slot[SlotOf(p.sno)].time = p.time
  BY <1>1, DummyWritten
<1>. HIDE DEF d
<1>3. /\ r \in Logs(U) /\ r.stable /\ r.num = 1 /\ r.first = p /\ r.last = p /\ r.slot = d.slot
  BY <1>1, <1>2 DEF Logs
<1>4. Reset(l, now) = r
  <2>1. SetDummy(l, p) = [d EXCEPT !.num = 1, !.first = p, !.last = p]
    BY DEF SetDummy, d
  <2>2. Reset(l, now) = [SetDummy(l, p) EXCEPT !.stable = TRUE]
    BY DEF Reset, p
  <2>. QED  BY <1>2, <2>1, <2>2 DEF Logs
<1>. HIDE DEF r
<1>5. CheckSno(r, r.first) /\ CheckSno(r, r.last)
  BY <1>2, <1>3 DEF CheckSno
<1>6. Low(r) = 1
  BY <1>1, <1>3 DEF Low
<1>7. Window(r, FALSE)
  <2>1. ~Tears(r, FALSE)
    BY Zenon DEF Tears
  <2>2. \A s \in Nat : ~(Low(r) < s /\ s <= r.last.sno)
    BY <1>1, <1>3, <1>6
  <2>3. r.last.sno <= MaxSno /\ r.num \in 1 .. Entries /\ Low(r) >= 1 /\ r.first.sno = Low(r)
    BY <1>1, <1>3, <1>6
  <2>. QED  BY <1>5, <2>1, <2>2, <2>3 DEF Window
<1>. QED  BY <1>3, <1>4, <1>7

\* A reset that is cut off leaves a hole in slot 0 and nothing else.
LEMMA CutRing ==
    ASSUME NEW U, NoUpdate \in U, NEW l \in Logs(U), NEW c, Window(l, c), NEW now \in Nat
    PROVE  ResetCut(l, now) \in Logs(U) /\ Window(ResetCut(l, now), TRUE)
<1>. DEFINE p == At(1, now)
            d == DummyCut(l, p)
<1>1. p \in Positions /\ p.sno = 1
  BY DEF Positions, At
<1>. HIDE DEF p
<1>2. /\ d \in Logs(U) /\ d.stable = l.stable /\ d.num = l.num /\ d.first = l.first
      /\ d.last = l.last /\ d.slot[0].sno = 1 /\ d.slot[0].upd = NoUpdate
      /\ \A i \in 0 .. Entries - 1 : i # 0 => d.slot[i] = l.slot[i]
  BY <1>1, DummyWritten, FirstSlot
<1>3. ResetCut(l, now) = d
  BY DEF ResetCut, d, p
<1>. HIDE DEF d
<1>4. Tears(d, TRUE) /\ \A s : Hole(d, TRUE, s) <=> SlotOf(s) = 0
  BY <1>2 DEF Tears, Hole
<1>5. Low(d) = Low(l) /\ Low(d) \in Nat /\ l.last.sno \in Nat /\ l.first.sno \in Nat
      /\ l.num \in 1 .. Entries
  BY <1>2 DEF Low, Logs, Positions, Window
<1>6. \A s \in Nat : SlotOf(s) = 0 \/ d.slot[SlotOf(s)] = l.slot[SlotOf(s)]
  BY <1>2, SlotRange
<1>7. \A s : Hole(l, c, s) => SlotOf(s) = 0
  BY DEF Hole
<1>8. \A s \in Nat : Low(d) < s /\ s <= d.last.sno =>
          Hole(d, TRUE, s) \/ (d.slot[SlotOf(s)].sno = s /\ d.slot[SlotOf(s)].commit)
  BY <1>2, <1>4, <1>5, <1>6, <1>7 DEF Window
<1>9. d.stable \/ Entries > 1 => Hole(d, TRUE, d.last.sno) \/ CheckSno(d, d.last)
  BY <1>2, <1>4, <1>5, <1>6, <1>7 DEF Window, CheckSno
<1>10. d.stable \/ d.num < Entries =>
          Hole(d, TRUE, Low(d)) \/ (d.first.sno = Low(d) /\ CheckSno(d, d.first))
  <2>1. SUFFICES ASSUME d.stable \/ d.num < Entries, SlotOf(Low(d)) # 0
                 PROVE  d.first.sno = Low(d) /\ CheckSno(d, d.first)
    BY <1>4
  <2>2. l.first.sno = Low(l) /\ CheckSno(l, l.first)
    BY <1>2, <1>5, <1>7, <2>1 DEF Window
  <2>. QED  BY <1>2, <1>5, <1>6, <2>1, <2>2 DEF CheckSno
<1>11. d.last.sno <= MaxSno /\ d.num \in 1 .. Entries /\ Low(d) >= 1
       /\ (d.num < Entries => d.first.sno = Low(d)) /\ d.slot[0].upd = NoUpdate
  BY <1>2, <1>5 DEF Window
<1>12. Window(d, TRUE)
  BY <1>8, <1>9, <1>10, <1>11 DEF Window
<1>. QED  BY <1>2, <1>3, <1>12

LEMMA MoreUpdates ==
    ASSUME NEW U, NEW u, NEW l \in Logs(U)
    PROVE  l \in Logs(U \union {u})
<1>1. Slots(U) \subseteq Slots(U \union {u})
  BY DEF Slots
<1>2. l.slot \in [0 .. Entries - 1 -> Slots(U \union {u})]
  BY <1>1 DEF Logs
<1>. QED  BY <1>2 DEF Logs

\* The first half of store_update: the slot of the next number is written,
\* which is the lowest entry's at most when the ring is full.
LEMMA StoreBegun ==
    ASSUME NEW U, NEW l \in Logs(U), NEW c, Window(l, c), NEW t \in Nat, NEW u
    PROVE  LET n == l.last.sno + 1
               b == StoreBegin(l, At(n, t), u)
           IN  /\ b \in Logs(U \union {u}) /\ Window(b, c) /\ b.last = l.last /\ ~b.stable
               /\ b.slot[SlotOf(n)].sno = n /\ b.slot[SlotOf(n)].time = t
<1>. DEFINE n == l.last.sno + 1
            V == U \union {u}
            e == [sno |-> n, time |-> t, upd |-> u, commit |-> FALSE]
            j == SlotOf(n)
            slots == [l.slot EXCEPT ![j] = e]
            b == [l EXCEPT !.stable = FALSE, !.slot = slots]
<1>1. n \in Nat /\ n > 1 /\ l.first.sno \in Nat /\ l.last.sno \in Nat /\ l.num \in 1 .. Entries
      /\ Low(l) = n - l.num /\ Low(l) \in Nat
  BY DEF Logs, Positions, Window, Low
<1>. HIDE DEF n
<1>2. j \in 0 .. Entries - 1
  BY <1>1, SlotRange
<1>3. e \in Slots(V) /\ e.sno = n /\ e.time = t
  BY <1>1 DEF Slots
<1>4. l \in Logs(V) /\ l.slot \in [0 .. Entries - 1 -> Slots(V)]
  <2>1. l \in Logs(V)
    BY MoreUpdates
  <2>. HIDE DEF V
  <2>. QED  BY <2>1 DEF Logs
<1>. HIDE DEF j, e, V
<1>5. /\ slots \in [0 .. Entries - 1 -> Slots(V)] /\ slots[j] = e
      /\ \A i \in 0 .. Entries - 1 : i # j => slots[i] = l.slot[i]
  BY <1>2, <1>3, <1>4
<1>6. StoreBegin(l, At(n, t), u) = b
  BY DEF StoreBegin, At, j, e
<1>. HIDE DEF slots
<1>7. b \in Logs(V)
  BY <1>4, <1>5 DEF Logs
<1>8. ~b.stable /\ b.num = l.num /\ b.first = l.first /\ b.last = l.last /\ b.slot = slots
  BY <1>4 DEF Logs
<1>. HIDE DEF b
<1>9. \A s \in Nat : n - s < Entries /\ s < n =>
         SlotOf(s) # j /\ b.slot[SlotOf(s)] = l.slot[SlotOf(s)]
  <2>1. SUFFICES ASSUME NEW s \in Nat, n - s < Entries, s < n
                 PROVE  SlotOf(s) # j /\ b.slot[SlotOf(s)] = l.slot[SlotOf(s)]
    OBVIOUS
  <2>2. SlotOf(s) # j
    BY <1>1, <2>1, SlotsDiffer DEF j
  <2>. QED  BY <1>5, <1>8, <2>2, SlotRange
<1>10. /\ Tears(b, c) => Tears(l, c) /\ j # 0
       /\ Tears(l, c) /\ j # 0 => Tears(b, c)
       /\ j # 0 => b.slot[0] = l.slot[0]
  <2>1. 0 \in 0 .. Entries - 1
    OBVIOUS
  <2>2. j # 0 => b.slot[0] = l.slot[0]
    BY <1>5, <1>8, <2>1
  <2>3. j = 0 => b.slot[0].sno = n
    BY <1>3, <1>5, <1>8
  <2>. QED  BY <1>1, <2>2, <2>3 DEF Tears
<1>11. \A s \in Nat : n - s < Entries /\ s < n /\ Hole(l, c, s) => Hole(b, c, s)
  BY <1>9, <1>10 DEF Hole
<1>12. Low(b) = Low(l)
  BY <1>8 DEF Low
<1>13. Window(b, c)
  <2>1. \A s \in Nat : Low(b) < s /\ s <= b.last.sno =>
          Hole(b, c, s) \/ (b.slot[SlotOf(s)].sno = s /\ b.slot[SlotOf(s)].commit)
    <3>1. SUFFICES ASSUME NEW s \in Nat, Low(b) < s, s <= b.last.sno
                   PROVE  Hole(b, c, s) \/ (b.slot[SlotOf(s)].sno = s /\ b.slot[SlotOf(s)].commit)
      OBVIOUS
    <3>2. n - s < Entries /\ s < n /\ Low(l) < s /\ s <= l.last.sno
      BY <1>1, <1>8, <1>12, <3>1 DEF n
    <3>. QED  BY <1>9, <1>11, <3>2 DEF Window
  <2>2. Entries > 1 => Hole(b, c, b.last.sno) \/ CheckSno(b, b.last)
    <3>1. SUFFICES ASSUME Entries > 1 PROVE Hole(b, c, b.last.sno) \/ CheckSno(b, b.last)
      OBVIOUS
    <3>2. n - l.last.sno < Entries /\ l.last.sno < n
      BY <1>1, <3>1 DEF n
    <3>3. Hole(l, c, l.last.sno) \/ CheckSno(l, l.last)
      BY <3>1 DEF Window
    <3>. QED  BY <1>1, <1>8, <1>9, <1>11, <3>2, <3>3 DEF CheckSno
  <2>3. b.num < Entries => Hole(b, c, Low(b)) \/ (b.first.sno = Low(b) /\ CheckSno(b, b.first))
    <3>1. SUFFICES ASSUME l.num < Entries
                   PROVE  Hole(b, c, Low(b)) \/ (b.first.sno = Low(b) /\ CheckSno(b, b.first))
      BY <1>8
    <3>2. n - Low(l) < Entries /\ Low(l) < n
      BY <1>1, <3>1
    <3>3. Hole(l, c, Low(l)) \/ (l.first.sno = Low(l) /\ CheckSno(l, l.first))
      BY <3>1 DEF Window
    <3>. QED  BY <1>1, <1>8, <1>9, <1>11, <1>12, <3>2, <3>3 DEF CheckSno
  <2>4. /\ b.last.sno <= MaxSno /\ b.num \in 1 .. Entries /\ Low(b) >= 1
        /\ (b.num < Entries => b.first.sno = Low(b))
    BY <1>8, <1>12 DEF Window
  <2>5. Tears(b, c) => b.slot[0].upd = NoUpdate
    BY <1>10 DEF Window
  <2>. QED  BY <1>8, <2>1, <2>2, <2>3, <2>4, <2>5 DEF Window
<1>. QED  BY <1>3, <1>5, <1>6, <1>7, <1>8, <1>13 DEF n, V, j

\* The second half: the window grows by the entry, or moves on by one.
LEMMA StoreEnded ==
    ASSUME NEW U, NEW l \in Logs(U), NEW c, Window(l, c), NEW t \in Nat, l.last.sno < MaxSno,
           l.slot[SlotOf(l.last.sno + 1)].sno = l.last.sno + 1,
           l.slot[SlotOf(l.last.sno + 1)].time = t
    PROVE  LET r == StoreEnd(l, At(l.last.sno + 1, t))
           IN  r \in Logs(U) /\ Window(r, c)
<1>. DEFINE n == l.last.sno + 1
            p == At(n, t)
            j == SlotOf(n)
            e == [l.slot[j] EXCEPT !.commit = TRUE]
            slots == [l.slot EXCEPT ![j] = e]
            old == l.slot[n % Entries]
            num == IF l.num < Entries THEN l.num + 1 ELSE l.num
            first == IF l.num = 0 THEN p ELSE IF l.num < Entries THEN l.first
                     ELSE At(old.sno, old.time)
            r == [l EXCEPT !.slot = slots, !.last = p, !.num = num, !.first = first,
                           !.stable = TRUE]
            low == n - l.num
<1>1. n \in Nat /\ n > 1 /\ l.last.sno \in Nat /\ l.num \in 1 .. Entries /\ n <= MaxSno
      /\ Low(l) = low /\ low \in Nat /\ low >= 1 /\ l.first \in Positions
  BY DEF Logs, Positions, Window, Low
<1>2. j \in 0 .. Entries - 1 /\ n % Entries \in 0 .. Entries - 1 /\ n % Entries = SlotOf(n + 1)
  <2>. HIDE DEF n
  <2>1. n + 1 \in Nat
    BY <1>1
  <2>2. n % Entries = SlotOf(n + 1)
    BY <1>1, SlotAgain
  <2>3. SlotOf(n + 1) \in 0 .. Entries - 1 /\ SlotOf(n) \in 0 .. Entries - 1
    BY <1>1, <2>1, SlotRange
  <2>. QED  BY <2>2, <2>3
<1>3. l.slot \in [0 .. Entries - 1 -> Slots(U)]
  BY DEF Logs
<1>4. l.slot[j] \in Slots(U) /\ old \in Slots(U)
  BY <1>2, <1>3
<1>5. e \in Slots(U) /\ e.sno = n /\ e.time = t /\ e.commit /\ e.upd = l.slot[j].upd
  BY <1>4 DEF Slots
<1>6. p \in Positions /\ p.sno = n /\ p.time = t
  BY <1>1 DEF Positions, At
<1>17. \A s \in Nat : s < n => s <= l.last.sno
  BY <1>1
<1>18. l.slot[j].sno = n
  OBVIOUS
<1>. HIDE DEF n, p, low
<1>7. At(old.sno, old.time) \in Positions /\ At(old.sno, old.time).sno = old.sno
      /\ At(old.sno, old.time).time = old.time
  BY <1>4 DEF Positions, At, Slots
<1>. HIDE DEF j, e, old
<1>8. /\ slots \in [0 .. Entries - 1 -> Slots(U)] /\ slots[j] = e
      /\ \A i \in 0 .. Entries - 1 : i # j => slots[i] = l.slot[i]
  BY <1>2, <1>3, <1>5
<1>9. StoreEnd(l, At(n, t)) = r
  BY <1>6 DEF StoreEnd, j, e, old, p
<1>. HIDE DEF slots
<1>10. num \in Nat /\ first \in Positions
  BY <1>1, <1>6, <1>7
<1>. HIDE DEF num, first
<1>11. r \in Logs(U)
  BY <1>6, <1>8, <1>10 DEF Logs
<1>12. r.stable /\ r.num = num /\ r.first = first /\ r.last = p /\ r.slot = slots
  BY DEF Logs
<1>. HIDE DEF r
<1>13. \A i \in 0 .. Entries - 1 : r.slot[i].sno = l.slot[i].sno /\ r.slot[i].time = l.slot[i].time
                                  /\ r.slot[i].upd = l.slot[i].upd
  BY <1>5, <1>8, <1>12, <1>18 DEF j, n
<1>14. (Tears(r, c) <=> Tears(l, c)) /\ (\A s : Hole(r, c, s) <=> Hole(l, c, s))
  <2>1. 0 \in 0 .. Entries - 1
    OBVIOUS
  <2>2. r.slot[0].sno = l.slot[0].sno
    BY <1>13, <2>1
  <2>. QED  BY <2>2 DEF Tears, Hole
<1>15. \A s \in Nat : low < s /\ s <= n =>
          Hole(r, c, s) \/ (r.slot[SlotOf(s)].sno = s /\ r.slot[SlotOf(s)].commit)
  <2>1. SUFFICES ASSUME NEW s \in Nat, low < s, s <= n
                 PROVE  Hole(r, c, s) \/ (r.slot[SlotOf(s)].sno = s /\ r.slot[SlotOf(s)].commit)
    OBVIOUS
  <2>2. CASE s = n
    BY <1>5, <1>8, <1>12, <2>2 DEF j
  <2>3. CASE s # n
    <3>1. s < n /\ n - s < Entries /\ s <= l.last.sno
      BY <1>1, <1>17, <2>1, <2>3 DEF low
    <3>2. SlotOf(s) # j
      BY <1>1, <3>1, SlotsDiffer DEF j
    <3>3. r.slot[SlotOf(s)] = l.slot[SlotOf(s)]
      BY <1>8, <1>12, <3>2, SlotRange
    <3>. QED  BY <1>1, <1>14, <2>1, <3>1, <3>3 DEF Window
  <2>. QED  BY <2>2, <2>3
<1>16. CheckSno(r, r.last)
  BY <1>5, <1>6, <1>8, <1>12 DEF CheckSno, j
<1>19. Tears(r, c) => r.slot[0].upd = NoUpdate
  <2>1. 0 \in 0 .. Entries - 1
    OBVIOUS
  <2>. QED  BY <1>13, <1>14, <2>1 DEF Window
<1>20. CASE l.num < Entries
  <2>1. num = l.num + 1 /\ first = l.first
    BY <1>1, <1>20 DEF num, first
  <2>2. Low(r) = low
    BY <1>1, <1>6, <1>12, <2>1 DEF Low, low
  <2>3. r.first.sno = low
    BY <1>1, <1>12, <1>20, <2>1 DEF Window
  <2>4. Hole(r, c, low) \/ CheckSno(r, r.first)
    <3>1. Hole(l, c, low) \/ CheckSno(l, l.first)
      BY <1>1, <1>20 DEF Window
    <3>2. l.first = r.first /\ SlotOf(r.first.sno) \in 0 .. Entries - 1
      BY <1>1, <1>12, <2>1, <2>3, SlotRange
    <3>. QED  BY <1>13, <1>14, <3>1, <3>2 DEF CheckSno
  <2>5. Window(r, c)
    BY <1>1, <1>6, <1>12, <1>15, <1>16, <1>19, <1>20, <2>1, <2>2, <2>3, <2>4 DEF Window
  <2>. QED  BY <1>9, <1>11, <2>5 DEF n
<1>21. CASE l.num = Entries
  <2>1. num = l.num /\ first = At(old.sno, old.time)
    BY <1>1, <1>21 DEF num, first
  <2>2. n + 1 = (low + 1) + Entries /\ low + 1 \in Nat /\ low + 1 <= n
    BY <1>1, <1>21 DEF low
  <2>3. n % Entries = SlotOf(low + 1)
    BY <1>2, <2>2, SlotAgain
  <2>4. old = l.slot[SlotOf(low + 1)] /\ SlotOf(low + 1) \in 0 .. Entries - 1
    BY <1>2, <2>3 DEF old
  <2>5. Low(r) = low + 1
    BY <1>1, <1>6, <1>12, <1>21, <2>1 DEF Low, low
  <2>6. r.first.sno = r.slot[SlotOf(low + 1)].sno /\ r.first.time = r.slot[SlotOf(low + 1)].time
    BY <1>7, <1>12, <1>13, <2>1, <2>4
  <2>7. Hole(r, c, Low(r)) \/ (r.first.sno = Low(r) /\ CheckSno(r, r.first))
    <3>1. Hole(r, c, low + 1) \/ r.slot[SlotOf(low + 1)].sno = low + 1
      BY <1>1, <1>15, <2>2
    <3>. QED  BY <2>5, <2>6, <3>1 DEF CheckSno
  <2>8. \A s \in Nat : Low(r) < s /\ s <= r.last.sno =>
          Hole(r, c, s) \/ (r.slot[SlotOf(s)].sno = s /\ r.slot[SlotOf(s)].commit)
    BY <1>1, <1>6, <1>12, <1>15, <2>5
  <2>9. r.last.sno <= MaxSno /\ r.num \in 1 .. Entries /\ Low(r) >= 1 /\ ~(r.num < Entries)
    BY <1>1, <1>6, <1>12, <1>21, <2>1, <2>5
  <2>10. Window(r, c)
    BY <1>16, <1>19, <2>7, <2>8, <2>9 DEF Window
  <2>. QED  BY <1>9, <1>11, <2>10 DEF n
<1>. QED  BY <1>1, <1>20, <1>21

-----------------------------------------------------------------------------
(* The primary                                                             *)

\* A writer between the two halves has written the slot of the next number.
Storing ==
    writer.pc = "store" =>
        /\ plog.last.sno < MaxSno
        /\ plog.slot[SlotOf(plog.last.sno + 1)].sno = plog.last.sno + 1
        /\ plog.slot[SlotOf(plog.last.sno + 1)].time = clock

\* The shape of the writer, whatever its updates.
Writers(S, R, B) == [pc : {"idle", "log", "store"}, todo : S, reset : R, bulk : B]
WriterShape == \E S, R, B : writer \in Writers(S, R, B)

RingInv == clock \in Nat /\ Ring(plog, cut) /\ Storing

\* The log is reset while no writer is between the two halves.
LEMMA ResetKeeps ==
    ASSUME RingInv, ResetLog, writer'.pc # "store"
    PROVE  RingInv'
<1>1. PICK U : NoUpdate \in U /\ plog \in Logs(U)
  BY DEF RingInv, Ring
<1>2. clock + 1 \in Nat /\ clock' = clock + 1 /\ plog' = Reset(plog, clock + 1) /\ cut' = FALSE
  BY DEF RingInv, ResetLog
<1>3. plog' \in Logs(U) /\ Window(plog', cut')
  BY <1>1, <1>2, ResetRing
<1>4. Ring(plog', cut')
  BY <1>1, <1>3, Zenon DEF Ring
<1>. QED  BY <1>2, <1>4 DEF RingInv, Storing

LEMMA CutKeeps ==
    ASSUME RingInv, ResetCutOff, writer'.pc # "store"
    PROVE  RingInv'
<1>1. PICK U : NoUpdate \in U /\ plog \in Logs(U)
  BY DEF RingInv, Ring
<1>2. /\ clock + 1 \in Nat /\ clock' = clock + 1 /\ plog' = ResetCut(plog, clock + 1)
      /\ cut' = TRUE /\ Window(plog, cut)
  BY DEF RingInv, Ring, ResetCutOff
<1>3. plog' \in Logs(U) /\ Window(plog', cut')
  BY <1>1, <1>2, CutRing
<1>4. Ring(plog', cut')
  BY <1>1, <1>3, Zenon DEF Ring
<1>. QED  BY <1>2, <1>4 DEF RingInv, Storing

LEMMA BeginKeeps ==
    ASSUME RingInv, LogBegin
    PROVE  RingInv'
<1>. DEFINE u == Head(writer.todo)
            n == plog.last.sno + 1
<1>1. PICK U : NoUpdate \in U /\ plog \in Logs(U)
  BY DEF RingInv, Ring
<1>2. clock + 1 \in Nat /\ clock' = clock + 1 /\ Window(plog, cut) /\ cut' = cut
  BY DEF RingInv, LogBegin, Ring
<1>3. plog.last.sno < MaxSno
  <2>1. plog.last.sno \in Nat /\ plog.last.sno <= MaxSno /\ plog.last.sno # MaxSno
    BY <1>1, <1>2 DEF Logs, Positions, Window, LogBegin, Exhausted
  <2>. QED  BY <2>1
<1>4. plog' = StoreBegin(plog, At(n, clock + 1), u)
  BY DEF LogBegin
<1>. HIDE DEF u
<1>5. /\ plog' \in Logs(U \union {u}) /\ Window(plog', cut') /\ plog'.last = plog.last
      /\ plog'.slot[SlotOf(n)].sno = n /\ plog'.slot[SlotOf(n)].time = clock + 1
  BY <1>1, <1>2, <1>4, StoreBegun
<1>6. Ring(plog', cut')
  <2>1. NoUpdate \in U \union {u}
    BY <1>1
  <2>. QED  BY <1>5, <2>1, Zenon DEF Ring
<1>. QED  BY <1>2, <1>3, <1>5, <1>6 DEF RingInv, Storing

LEMMA EndKeeps ==
    ASSUME RingInv, WriterShape, LogEnd
    PROVE  RingInv'
<1>1. PICK U : NoUpdate \in U /\ plog \in Logs(U)
  BY DEF RingInv, Ring
<1>2. /\ clock \in Nat /\ clock' = clock /\ Window(plog, cut) /\ cut' = cut
      /\ plog.last.sno < MaxSno
      /\ plog.slot[SlotOf(plog.last.sno + 1)].sno = plog.last.sno + 1
      /\ plog.slot[SlotOf(plog.last.sno + 1)].time = clock
  BY DEF RingInv, Ring, Storing, LogEnd
<1>3. plog' = StoreEnd(plog, At(plog.last.sno + 1, clock))
  BY DEF LogEnd
<1>4. plog' \in Logs(U) /\ Window(plog', cut')
  BY <1>1, <1>2, <1>3, StoreEnded
<1>5. Ring(plog', cut')
  BY <1>1, <1>4, Zenon DEF Ring
<1>6. writer'.pc # "store"
  <2>1. CASE writer' = Idle
    BY <2>1 DEF Idle
  <2>2. CASE writer' = [writer EXCEPT !.pc = "log", !.todo = Tail(@)]
    BY <2>2 DEF WriterShape, Writers
  <2>. QED  BY <2>1, <2>2 DEF LogEnd, WriterDone
<1>. QED  BY <1>2, <1>5, <1>6 DEF RingInv, Storing

LEMMA QuietKeeps ==
    ASSUME RingInv, UNCHANGED <<plog, clock, cut>>, writer' = writer \/ writer'.pc # "store"
    PROVE  RingInv'
BY DEF RingInv, Storing

LEMMA GetUpdatesKeeps ==
    ASSUME RingInv, GetUpdates
    PROVE  RingInv'
<1>1. writer' = writer /\ writer.pc # "store"
  BY DEF GetUpdates, LogFree
<1>2. CASE UNCHANGED <<plog, clock, lost, cut>>
  BY <1>1, <1>2, QuietKeeps
<1>3. CASE ResetLog
  BY <1>1, <1>3, ResetKeeps
<1>. QED  BY <1>2, <1>3 DEF GetUpdates

\* A write of the database leaves the log to the steps that follow.
Written ==
    /\ UNCHANGED <<plog, clock, cut>>
    /\ \/ writer' = writer
       \/ \E ups, reset, bulk :
             writer' = [pc |-> "log", todo |-> ups, reset |-> reset, bulk |-> bulk]

LEMMA CommitWrites ==
    ASSUME NEW d, NEW p, NEW ups, NEW reset, NEW bulk, Commit(d, p, ups, reset, bulk)
    PROVE  Written
BY DEF Commit, Written

LEMMA WriteWrites ==
    ASSUME Write
    PROVE  Written
<1>1. ASSUME NEW k, NEW A, Put(k, A) PROVE Written
  BY <1>1, CommitWrites DEF Put, Modify
<1>2. ASSUME NEW k, Delete(k) PROVE Written
  BY <1>2, CommitWrites DEF Delete, Modify
<1>3. ASSUME NEW k, NEW new, Rename(k, new) PROVE Written
  BY <1>3, CommitWrites DEF Rename, Modify
<1>4. CASE ChangePolicy
  BY <1>4, CommitWrites DEF ChangePolicy, Modify
<1>5. CASE KlmdbPolicy
  BY <1>5 DEF KlmdbPolicy, Written
<1>6. ASSUME NEW k, KlmdbCreate(k) PROVE Written
  BY <1>6, CommitWrites DEF KlmdbCreate, Modify
<1>7. ASSUME NEW k, KlmdbDelete(k) PROVE Written
  BY <1>7, CommitWrites DEF KlmdbDelete, Modify
<1>8. ASSUME NEW k, NEW A, KlmdbUpdate(k, A) PROVE Written
  BY <1>8, CommitWrites DEF KlmdbUpdate, Modify
<1>9. ASSUME NEW k, NEW new, KlmdbRename(k, new) PROVE Written
  BY <1>9, CommitWrites DEF KlmdbRename, Modify
<1>10. ASSUME NEW S, NEW p, NEW after, LoadUpdate(S, p, after) PROVE Written
  BY <1>10, CommitWrites DEF LoadUpdate
<1>11. CASE Load
  BY <1>11 DEF Load, Written
<1>. QED  BY <1>1, <1>2, <1>3, <1>4, <1>5, <1>6, <1>7, <1>8, <1>9, <1>10, <1>11, Zenon DEF Write

\* What a step does to the log, the clock and the writer.
PrimaryStep ==
    \/ Written \/ MapLog \/ LogReset \/ LogWrap \/ LogBegin \/ LogEnd \/ LoadReset \/ LogFails
    \/ GetUpdates
    \/ ResetCutOff /\ (writer' = Idle \/ (writer' = writer /\ writer.pc = "idle"))
    \/ UNCHANGED <<plog, clock, cut>> /\ writer' = Idle

LEMMA PrimaryChanges ==
    ASSUME [Next]_vars
    PROVE  PrimaryStep
<1>1. ASSUME NEW t, TaskStep(t) \/ TaskFails(t) \/ \E d \in 0 .. 4 : KpropdLoad(t, d)
      PROVE  PrimaryStep
  BY <1>1 DEF TaskStep, DumpCurrent, DumpRead, DumpStamp, KpropSend, TaskFails, KpropdLoad, pvars,
              PrimaryStep, Written
<1>2. CASE Write \/ MapLog \/ WriterStep
  BY <1>2, WriteWrites DEF WriterStep, PrimaryStep
<1>3. CASE PollStep \/ ResyncTimeout \/ RemoveLock
  BY <1>3 DEF PollStep, Poll, HandleNil, HandleError, HandleFullResync, HandleOk, ReplayDb,
              ReplayLog, ReplayDone, ReplayFails, ResyncTimeout, RemoveLock, pvars, PrimaryStep,
              Written
<1>4. CASE WriterCutOff \/ LoadCutOff \/ ReaderCutOff
  BY <1>4 DEF WriterCutOff, LoadCutOff, ReaderCutOff, WriterDies, PrimaryStep
<1>5. CASE Fault
  BY <1>1, <1>4, <1>5 DEF Fault, KlmdbLogFails, WriterCrash, WriterDone, WriterDies, LoadCrash,
                    CallFails, KpropdCrash, pvars, PrimaryStep, Written
<1>6. CASE UNCHANGED vars
  BY <1>6 DEF vars, pvars, PrimaryStep, Written
<1>. QED  BY <1>1, <1>2, <1>3, <1>5, <1>6 DEF Next

LEMMA ShapeKeeps ==
    ASSUME WriterShape, PrimaryStep
    PROVE  WriterShape'
<1>1. PICK S, R, B : writer \in Writers(S, R, B)
  BY DEF WriterShape
<1>2. CASE writer' = writer
  BY <1>2 DEF WriterShape
<1>3. CASE writer' = Idle
  <2>1. Idle \in Writers({<< >>}, {FALSE}, {FALSE})
    BY DEF Idle, Writers
  <2>. QED  BY <1>3, <2>1, Zenon DEF WriterShape
<1>4. ASSUME NEW ups, NEW reset, NEW bulk,
             writer' = [pc |-> "log", todo |-> ups, reset |-> reset, bulk |-> bulk]
      PROVE  WriterShape'
  <2>1. writer' \in Writers({ups}, {reset}, {bulk})
    BY <1>4 DEF Writers
  <2>. QED  BY <2>1, Zenon DEF WriterShape
<1>5. CASE writer' = [writer EXCEPT !.reset = FALSE]
  <2>1. writer' \in Writers(S, R \union {FALSE}, B)
    BY <1>1, <1>5 DEF Writers
  <2>. QED  BY <2>1, Zenon DEF WriterShape
<1>6. CASE writer' = [writer EXCEPT !.pc = "store"]
  <2>1. writer' \in Writers(S, R, B)
    BY <1>1, <1>6 DEF Writers
  <2>. QED  BY <2>1, Zenon DEF WriterShape
<1>7. CASE writer' = [writer EXCEPT !.pc = "log", !.todo = Tail(@)]
  <2>1. writer' \in Writers(S \union {Tail(writer.todo)}, R, B)
    BY <1>1, <1>7 DEF Writers
  <2>. QED  BY <2>1, Zenon DEF WriterShape
<1>. QED  BY <1>2, <1>3, <1>4, <1>5, <1>6, <1>7
          DEF PrimaryStep, Written, MapLog, LogReset, LogWrap, LogBegin, LogEnd, LoadReset,
              LogFails, GetUpdates, WriterDone

LEMMA RingKeeps ==
    ASSUME WriterShape, RingInv, PrimaryStep
    PROVE  RingInv'
<1>1. CASE Written
  BY <1>1, QuietKeeps DEF Written
<1>2. CASE UNCHANGED <<plog, clock, cut>> /\ writer' = Idle
  BY <1>2, QuietKeeps DEF Idle
<1>3. CASE LogReset
  <2>1. writer'.pc # "store"
    BY <1>3 DEF LogReset, WriterDone, Idle, WriterShape, Writers
  <2>. QED  BY <1>3, <2>1, ResetKeeps DEF LogReset
<1>4. CASE LoadReset \/ LogFails \/ LogWrap \/ MapLog
  <2>1. writer'.pc # "store"
    BY <1>4 DEF LoadReset, LogFails, LogWrap, MapLog, WriterDone, Idle
  <2>. QED  BY <1>4, <2>1, ResetKeeps DEF LoadReset, LogFails, LogWrap, MapLog
<1>5. CASE ResetCutOff /\ (writer' = Idle \/ (writer' = writer /\ writer.pc = "idle"))
  BY <1>5, CutKeeps DEF Idle
<1>. QED  BY <1>1, <1>2, <1>3, <1>4, <1>5, BeginKeeps, EndKeeps, GetUpdatesKeeps DEF PrimaryStep

LEMMA RingStarts ==
    ASSUME Init
    PROVE  WriterShape /\ RingInv
<1>. DEFINE empty == [stable |-> FALSE, num |-> 0, first |-> At(0, 0), last |-> At(0, 0),
                      slot |-> [i \in 0 .. Entries - 1 |-> EmptySlot]]
<1>1. empty \in Logs({NoUpdate})
  BY DEF Logs, Positions, Slots, EmptySlot, At
<1>. HIDE DEF empty
<1>2. plog = Reset(empty, 1) /\ clock = 1 /\ writer = Idle /\ cut = FALSE
  BY DEF Init, NewLog, empty
<1>3. plog \in Logs({NoUpdate}) /\ Window(plog, cut)
  BY <1>1, <1>2, ResetRing
<1>4. Ring(plog, cut)
  <2>1. NoUpdate \in {NoUpdate}
    OBVIOUS
  <2>. QED  BY <1>3, <2>1, Zenon DEF Ring
<1>5. RingInv
  BY <1>2, <1>4 DEF RingInv, Storing, Idle
<1>6. Idle \in Writers({<< >>}, {FALSE}, {FALSE})
  BY DEF Idle, Writers
<1>. QED  BY <1>2, <1>5, <1>6, Zenon DEF WriterShape

\* What the window says of a stable log.
LEMMA WindowSound ==
    ASSUME RingInv
    PROVE  WindowKept
<1>1. PICK U : NoUpdate \in U /\ plog \in Logs(U)
  BY DEF RingInv, Ring
<1>2. /\ Window(plog, cut) /\ plog.first.sno \in Nat /\ plog.last.sno \in Nat
      /\ plog.num \in 1 .. Entries /\ Low(plog) \in Nat
  BY <1>1 DEF RingInv, Ring, Logs, Positions, Window, Low
<1>3. (Tears(plog, cut) <=> Torn) /\ (\A s : Hole(plog, cut, s) <=> Torn /\ SlotOf(s) = 0)
  BY DEF Tears, Hole, Torn
<1>. DEFINE low == plog.last.sno - plog.num + 1
<1>4. low = Low(plog) /\ low \in Nat /\ low >= 1
  BY <1>2 DEF Low, Window
<1>. HIDE DEF low
<1>5. SUFFICES ASSUME plog.stable
               PROVE  /\ \A s \in low .. plog.last.sno :
                           \/ Torn /\ SlotOf(s) = 0
                           \/ plog.slot[SlotOf(s)].sno = s /\ (s > low => plog.slot[SlotOf(s)].commit)
                      /\ Torn \/ (plog.first.sno = low /\ CheckSno(plog, plog.first)
                                   /\ CheckSno(plog, plog.last))
  BY <1>2, <1>4 DEF WindowKept, Window, low
<1>6. Hole(plog, cut, low) \/ (plog.first.sno = low /\ CheckSno(plog, plog.first))
  BY <1>2, <1>4, <1>5 DEF Window
<1>7. Hole(plog, cut, plog.last.sno) \/ CheckSno(plog, plog.last)
  BY <1>2, <1>5 DEF Window
<1>8. ASSUME NEW s \in low .. plog.last.sno
      PROVE  \/ Torn /\ SlotOf(s) = 0
             \/ plog.slot[SlotOf(s)].sno = s /\ (s > low => plog.slot[SlotOf(s)].commit)
  <2>1. s \in Nat /\ s <= plog.last.sno /\ (s = low \/ s > low)
    BY <1>2, <1>4
  <2>2. CASE s = low
    BY <1>3, <1>4, <1>6, <2>1, <2>2 DEF CheckSno
  <2>3. CASE s > low
    BY <1>2, <1>3, <1>4, <2>1, <2>3 DEF Window
  <2>. QED  BY <2>1, <2>2, <2>3
<1>. QED  BY <1>3, <1>6, <1>7, <1>8

\* An answer starts inside the window, or the dummy entry is in its range.
LEMMA AnswerSound ==
    ASSUME RingInv
    PROVE  AnswersExact
<1>1. PICK U : NoUpdate \in U /\ plog \in Logs(U)
  BY DEF RingInv, Ring
<1>2. /\ Window(plog, cut) /\ plog.first.sno \in Nat /\ plog.last.sno \in Nat
      /\ plog.num \in 1 .. Entries /\ Low(plog) \in Nat
      /\ Low(plog) = plog.last.sno - plog.num + 1
  BY <1>1 DEF RingInv, Ring, Logs, Positions, Window, Low
<1>. DEFINE from(i) == At(plog.slot[i].sno, plog.slot[i].time)
            updates(i) == GetEntries(plog, from(i)).updates
<1>3. SUFFICES ASSUME plog.stable, NEW i \in 0 .. Entries - 1, NEW k \in 1 .. Len(updates(i))
               PROVE  updates(i)[k].sno = from(i).sno + k /\ updates(i)[k].commit
  BY DEF AnswersExact
<1>. DEFINE m == from(i).sno
            ents == [x \in 1 .. (plog.last.sno - m) |-> plog.slot[(m + x - 1) % Entries]]
<1>4. m \in Nat
  <2>1. plog.slot[i] \in Slots(U)
    BY <1>1 DEF Logs
  <2>. QED  BY <2>1 DEF Slots, At
<1>5. /\ SnoStatus(plog, from(i)) = "ok" /\ updates(i) = ents
      /\ ~ \E x \in DOMAIN ents : ents[x].upd = NoUpdate
  <2>1. CASE updates(i) = << >>
    <3>1. Len(<< >>) = 0
      OBVIOUS
    <3>. QED  BY <1>3, <2>1, <3>1
  <2>2. CASE updates(i) # << >>
    BY <2>2 DEF GetEntries
  <2>. QED  BY <2>1, <2>2
<1>. HIDE DEF updates, from
<1>6. m <= plog.last.sno /\ m >= plog.first.sno
  <2>1. ~(m > plog.last.sno) /\ ~(m < plog.first.sno)
    BY <1>5 DEF SnoStatus
  <2>. QED  BY <1>2, <1>4, <2>1
<1>. HIDE DEF m
<1>7. k \in 1 .. (plog.last.sno - m)
  <2>1. Len(ents) = plog.last.sno - m
    <3>1. plog.last.sno - m \in Nat
      BY <1>2, <1>4, <1>6
    <3>2. DOMAIN ents = 1 .. (plog.last.sno - m)
      OBVIOUS
    <3>. QED  BY <3>1, <3>2
  <2>2. Len(updates(i)) = plog.last.sno - m
    BY <1>5, <2>1
  <2>. QED  BY <1>3, <2>2
<1>8. \A x \in 1 .. (plog.last.sno - m) :
         ents[x] = plog.slot[SlotOf(m + x)] /\ plog.slot[SlotOf(m + x)].upd # NoUpdate
  <2>1. DOMAIN ents = 1 .. (plog.last.sno - m)
    OBVIOUS
  <2>2. \A x \in 1 .. (plog.last.sno - m) : ents[x] = plog.slot[SlotOf(m + x)]
    BY <1>2, <1>4 DEF SlotOf
  <2>. HIDE DEF ents
  <2>. QED  BY <1>5, <2>1, <2>2
<1>9. \A x \in 1 .. (plog.last.sno - m) : ~Hole(plog, cut, m + x)
  BY <1>2, <1>8 DEF Hole, Window
<1>10. m >= Low(plog)
  <2>1. SUFFICES ASSUME m < Low(plog) PROVE FALSE
    BY <1>2, <1>4
  <2>2. plog.first.sno # Low(plog)
    BY <1>2, <1>4, <1>6, <2>1
  <2>3. plog.num = Entries /\ Tears(plog, cut)
    BY <1>2, <1>3, <2>2 DEF Window, Hole
  <2>4. PICK x \in 1 .. Entries : SlotOf(m + x) = 0
    BY <1>4, SlotZeroComes
  <2>5. x \in 1 .. (plog.last.sno - m)
    BY <1>2, <1>4, <2>1, <2>3
  <2>. QED  BY <1>9, <2>3, <2>4, <2>5 DEF Hole
<1>11. m + k \in Nat /\ Low(plog) < m + k /\ m + k <= plog.last.sno
  BY <1>2, <1>4, <1>7, <1>10
<1>12. plog.slot[SlotOf(m + k)].sno = m + k /\ plog.slot[SlotOf(m + k)].commit
  BY <1>2, <1>7, <1>9, <1>11 DEF Window
<1>. QED  BY <1>5, <1>7, <1>8, <1>12 DEF m

\* For every size of the ring and every largest serial number: whenever the
\* header is stable the primary's log is a window of consecutive, committed
\* numbers, whoever wrote, crashed, loaded or reset it, but for slot 0 after a
\* reset that died between its entry and its header (ulog.rs); and from any
\* entry an answer brings the updates that follow it, in order, or none.
THEOREM RingHolds == Spec => []RingConsecutive
<1>1. Init => WriterShape /\ RingInv
  BY RingStarts
<1>2. WriterShape /\ RingInv /\ [Next]_vars => (WriterShape /\ RingInv)'
  BY PrimaryChanges, ShapeKeeps, RingKeeps
<1>3. RingInv => RingConsecutive
  BY WindowSound, AnswerSound DEF RingConsecutive
<1>. QED  BY <1>1, <1>2, <1>3, PTL DEF Spec

=============================================================================
