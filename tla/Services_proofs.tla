-------------------------- MODULE Services_proofs --------------------------
(***************************************************************************)
(* Proofs about three of the services, which share no state:               *)
(*   - AuthorityTx, for every number of callers, connections, retries and  *)
(*     faults: with a server whose marker read settles a COMMIT under way, *)
(*     a transaction takes effect at most once (AppliedOnce), and no       *)
(*     connection of the pool is in a transaction (PoolClean);             *)
(*   - SendTo, for every realm, number of servers and passes: an exchange  *)
(*     that gives up before its deadline has lost no answer and left no    *)
(*     server that has taken the request over TCP;                         *)
(*   - Collection, for every number of processes, caches and calls: a      *)
(*     listing names no cache twice and leaves out none that was there     *)
(*     throughout (ListedOnce).                                            *)
(***************************************************************************)
EXTENDS AuthorityTx, SendTo, Collection, SequenceTheorems, TLAPS

-----------------------------------------------------------------------------
(* The transactions of the authority                                       *)


\* Where a caller is before any of its attempts can have committed, and where
\* it holds a connection.
Fresh == {"top", "get", "begin", "body", "commit", "restart", "reread"}
Holding == {"begin", "body", "commit", "resolve", "done", "restart", "fail", "reread"}
Places == Fresh \cup Holding \cup TxEnded \cup {"failed"}

TxTypeOK ==
  /\ txpc \in [Callers -> Places]
  /\ held \in [Callers -> Connections \cup {0}]
  /\ sess \in [Connections -> {"none", "idle", "open", "lost"}]
  /\ attempts \in [Callers -> Nat]
  /\ pool \subseteq Connections

\* An attempt is decided or undecided only for a caller past its COMMIT, and a
\* caller has one such attempt at most.
Sent(w) == {a \in undecided \cup committed : a[1] = w}

OneSent ==
  \A w \in Callers :
    /\ txpc[w] \in Fresh => Sent(w) = {}
    /\ \A a, b \in Sent(w) : a = b
    /\ txpc[w] \in {"done", "ok"} /\ w \notin Readers => Marked(w)

\* A connection has one owner: a caller, or the pool.
OneOwner ==
  /\ \A w \in Callers : txpc[w] \in Holding <=> held[w] # 0
  /\ \A w \in Callers : held[w] # 0 => held[w] \notin pool
  /\ \A v, w \in Callers : v # w /\ held[v] # 0 => held[v] # held[w]
  /\ \A c \in pool : sess[c] = "idle"
  /\ \A w \in Callers : txpc[w] = "done" => sess[held[w]] = "idle"
  /\ \A w \in Callers : held[w] # 0 => sess[held[w]] # "none"

USE DEF Fresh, Holding, Places, TxEnded
\* Every step of a caller or of the server keeps the types.
LEMMA TypeStep ==
  ASSUME TxTypeOK, OneOwner, TxNext
  PROVE  TxTypeOK'
PROOF
<1> USE TxAssumption
<1>1. ASSUME NEW w \in Callers, CallerStep(w) PROVE TxTypeOK'
  <2>1. CASE Top(w)
    BY <2>1 DEF Top, MarkerExists, Looks, End, TxFault, TxTypeOK, OneOwner
  <2>2. CASE GetConnection(w)
    BY <2>2 DEF GetConnection, Get, TxStep, TxFault, TxTypeOK, OneOwner
  <2>3. CASE BeginTx(w)
    BY <2>3 DEF BeginTx, TxStep, TxFault, TxTypeOK, OneOwner
  <2>4. CASE Body(w)
    BY <2>4 DEF Body, End, RetryOr, TxFault, TxTypeOK, OneOwner
  <2>5. CASE Commit(w)
    BY <2>5 DEF Commit, End, RetryOr, TxFault, Now, TxTypeOK, OneOwner
  <2>6. CASE ResolveAmbiguous(w)
    BY <2>6 DEF ResolveAmbiguous, MarkerExists, Looks, End, RetryOr, TxFault, Drop, TxTypeOK, OneOwner
  <2>7. CASE Succeed(w)
    BY <2>7 DEF Succeed, TxStep, Drop, TxTypeOK, OneOwner
  <2>8. CASE Restart(w)
    BY <2>8 DEF Restart, TxStep, Drop, TxTypeOK, OneOwner
  <2>9. CASE FailTx(w)
    BY <2>9 DEF FailTx, Rollback, End, TxFault, Drop, TxTypeOK, OneOwner
  <2>10. CASE Failed(w)
    BY <2>10 DEF Failed, MarkerExists, Looks, End, TxFault, TxTypeOK, OneOwner
  <2>11. CASE CommitRead(w)
    BY <2>11 DEF CommitRead, End, TxFault, TxTypeOK, OneOwner
  <2>12. CASE Reread(w)
    BY <2>12 DEF Reread, Rollback, End, TxFault, Drop, TxTypeOK, OneOwner
  <2>13. CASE Cancel(w)
    BY <2>13 DEF Cancel, End, TxFault, Drop, Now, TxTypeOK, OneOwner
  <2> QED BY <1>1, <2>1, <2>2, <2>3, <2>4, <2>5, <2>6, <2>7, <2>8, <2>9, <2>10, <2>11, <2>12, <2>13 DEF CallerStep
<1>2. ASSUME NEW a \in undecided, Decide(a) PROVE TxTypeOK'
  BY <1>2 DEF Decide, TxTypeOK, OneOwner
<1> QED BY <1>1, <1>2 DEF TxNext

\* A caller that may run its body again has no attempt that committed or may
\* still commit: the read of the marker found none and none was undecided.
LEMMA SentStep ==
  ASSUME TxTypeOK, OneSent, MarkerFinal, TxNext
  PROVE  OneSent'
PROOF
<1> USE TxAssumption
<1>1. ASSUME NEW w \in Callers, CallerStep(w) PROVE OneSent'
  <2>1. CASE Top(w)
    BY <2>1 DEF Top, MarkerExists, Looks, End, TxFault, TxTypeOK, OneSent, Sent, Marked
  <2>2. CASE GetConnection(w)
    BY <2>2 DEF GetConnection, Get, TxStep, TxFault, TxTypeOK, OneSent, Sent, Marked
  <2>3. CASE BeginTx(w)
    BY <2>3 DEF BeginTx, TxStep, TxFault, TxTypeOK, OneSent, Sent, Marked
  <2>4. CASE Body(w)
    BY <2>4 DEF Body, End, RetryOr, TxFault, TxTypeOK, OneSent, Sent, Marked
  <2>5. CASE Commit(w)
    <3>1. /\ txpc[w] = "commit" /\ w \notin Readers
          /\ txpc' \in [Callers -> Places]
          /\ txpc'[w] \notin {"ok", "commit"}
          /\ \A v \in Callers \ {w} : txpc'[v] = txpc[v]
      BY <2>5 DEF Commit, End, RetryOr, TxTypeOK
    <3>2. \/ /\ undecided' = undecided /\ committed' = committed
             /\ txpc'[w] # "done"
          \/ /\ txpc'[w] \in {"resolve", "fail"} /\ committed' = committed
             /\ undecided' = undecided \cup {Now(w)}
          \/ /\ txpc'[w] = "done" /\ undecided' = undecided
             /\ committed' = committed \cup {Now(w)}
      BY <2>5 DEF Commit, End, RetryOr, TxTypeOK
    <3>3. Sent(w) = {} /\ Now(w)[1] = w
      BY <3>1 DEF OneSent, Now
    <3>4. \A v \in Callers \ {w} : Sent(v)' = Sent(v) /\ (Marked(v) => Marked(v)')
      BY <3>2, <3>3 DEF Sent, Marked
    <3>5. CASE undecided' = undecided /\ committed' = committed /\ txpc'[w] # "done"
      <4>1. Sent(w)' = {}
        BY <3>3, <3>5 DEF Sent
      <4> QED BY <3>1, <3>4, <3>5, <4>1 DEF OneSent
    <3>6. CASE /\ txpc'[w] \in {"resolve", "fail", "done"}
               /\ undecided' \cup committed' = undecided \cup committed \cup {Now(w)}
               /\ txpc'[w] = "done" => Now(w) \in committed'
      <4>1. PICK n : n = Now(w)
        OBVIOUS
      <4>2. \A x \in undecided' \cup committed' : x[1] = w => x = n
        <5> SUFFICES ASSUME NEW x \in undecided' \cup committed', x[1] = w, x # n PROVE FALSE
          OBVIOUS
        <5>1. x \in undecided \cup committed
          BY <3>6, <4>1
        <5> QED BY <5>1, <3>3 DEF Sent
      <4>3. \A x, y \in Sent(w)' : x = y
        BY <4>2 DEF Sent
      <4>4. txpc'[w] = "done" => Marked(w)'
        BY <3>3, <3>6 DEF Marked
      <4>5. ASSUME NEW v \in Callers
            PROVE  /\ txpc'[v] \in Fresh => Sent(v)' = {}
                   /\ \A x, y \in Sent(v)' : x = y
                   /\ txpc'[v] \in {"done", "ok"} /\ v \notin Readers => Marked(v)'
        <5>1. CASE v = w
          BY <5>1, <3>1, <3>6, <4>3, <4>4
        <5>2. CASE v # w
          BY <5>2, <3>1, <3>4 DEF OneSent
        <5> QED BY <5>1, <5>2
      <4> QED BY <4>5 DEF OneSent
    <3> QED BY <3>2, <3>5, <3>6
  <2>6. CASE ResolveAmbiguous(w)
    BY <2>6 DEF ResolveAmbiguous, MarkerExists, Looks, End, RetryOr, TxFault, Drop, TxTypeOK, OneSent, Sent, Marked
  <2>7. CASE Succeed(w)
    BY <2>7 DEF Succeed, TxStep, Drop, TxTypeOK, OneSent, Sent, Marked
  <2>8. CASE Restart(w)
    BY <2>8 DEF Restart, TxStep, Drop, TxTypeOK, OneSent, Sent, Marked
  <2>9. CASE FailTx(w)
    BY <2>9 DEF FailTx, Rollback, End, TxFault, Drop, TxTypeOK, OneSent, Sent, Marked
  <2>10. CASE Failed(w)
    BY <2>10 DEF Failed, MarkerExists, Looks, End, TxFault, TxTypeOK, OneSent, Sent, Marked
  <2>11. CASE CommitRead(w)
    BY <2>11 DEF CommitRead, End, TxFault, TxTypeOK, OneSent, Sent, Marked
  <2>12. CASE Reread(w)
    BY <2>12 DEF Reread, Rollback, End, TxFault, Drop, TxTypeOK, OneSent, Sent, Marked
  <2>13. CASE Cancel(w)
    BY <2>13 DEF Cancel, End, TxFault, Drop, Now, TxTypeOK, OneSent, Sent, Marked
  <2> QED BY <1>1, <2>1, <2>2, <2>3, <2>4, <2>5, <2>6, <2>7, <2>8, <2>9, <2>10, <2>11, <2>12, <2>13 DEF CallerStep
<1>2. ASSUME NEW a \in undecided, Decide(a) PROVE OneSent'
  BY <1>2 DEF Decide, TxTypeOK, OneSent, Sent, Marked
<1> QED BY <1>1, <1>2 DEF TxNext

\* A connection is dropped or given back by the one caller that holds it, and
\* given back only when nothing is open on it.
LEMMA OwnerStep ==
  ASSUME TxTypeOK, OneOwner, TxNext
  PROVE  OneOwner'
PROOF
<1> USE TxAssumption
<1>1. ASSUME NEW w \in Callers, CallerStep(w) PROVE OneOwner'
  <2>1. CASE Top(w)
    BY <2>1 DEF Top, MarkerExists, Looks, End, TxFault, TxTypeOK, OneOwner
  <2>2. CASE GetConnection(w)
    BY <2>2 DEF GetConnection, Get, TxStep, TxFault, TxTypeOK, OneOwner
  <2>3. CASE BeginTx(w)
    BY <2>3 DEF BeginTx, TxStep, TxFault, TxTypeOK, OneOwner
  <2>4. CASE Body(w)
    BY <2>4 DEF Body, End, RetryOr, TxFault, TxTypeOK, OneOwner
  <2>5. CASE Commit(w)
    BY <2>5 DEF Commit, End, RetryOr, TxFault, Now, TxTypeOK, OneOwner
  <2>6. CASE ResolveAmbiguous(w)
    BY <2>6 DEF ResolveAmbiguous, MarkerExists, Looks, End, RetryOr, TxFault, Drop, TxTypeOK, OneOwner
  <2>7. CASE Succeed(w)
    BY <2>7 DEF Succeed, TxStep, Drop, TxTypeOK, OneOwner
  <2>8. CASE Restart(w)
    BY <2>8 DEF Restart, TxStep, Drop, TxTypeOK, OneOwner
  <2>9. CASE FailTx(w)
    BY <2>9 DEF FailTx, Rollback, End, TxFault, Drop, TxTypeOK, OneOwner
  <2>10. CASE Failed(w)
    BY <2>10 DEF Failed, MarkerExists, Looks, End, TxFault, TxTypeOK, OneOwner
  <2>11. CASE CommitRead(w)
    BY <2>11 DEF CommitRead, End, TxFault, TxTypeOK, OneOwner
  <2>12. CASE Reread(w)
    BY <2>12 DEF Reread, Rollback, End, TxFault, Drop, TxTypeOK, OneOwner
  <2>13. CASE Cancel(w)
    BY <2>13 DEF Cancel, End, TxFault, Drop, Now, TxTypeOK, OneOwner
  <2> QED BY <1>1, <2>1, <2>2, <2>3, <2>4, <2>5, <2>6, <2>7, <2>8, <2>9, <2>10, <2>11, <2>12, <2>13 DEF CallerStep
<1>2. ASSUME NEW a \in undecided, Decide(a) PROVE OneOwner'
  BY <1>2 DEF Decide, TxTypeOK, OneOwner
<1> QED BY <1>1, <1>2 DEF TxNext

\* A transaction of the authority takes effect at most once, however often its
\* body runs again, and once when run_tx reports success (Db::run_tx and
\* Db::resolve_ambiguous), for a server whose marker read settles a COMMIT.
THEOREM AppliedOnceHolds == MarkerFinal => (TxSpec => []AppliedOnce)
PROOF
<1> SUFFICES ASSUME MarkerFinal PROVE TxSpec => []AppliedOnce
  OBVIOUS
<1> DEFINE Inv == TxTypeOK /\ OneOwner /\ OneSent
<1>1. TxInit => Inv
  BY TxAssumption DEF TxInit, TxTypeOK, OneOwner, OneSent, Sent, Marked
<1>2. Inv /\ [TxNext]_txVars => Inv'
  <2> SUFFICES ASSUME Inv, [TxNext]_txVars PROVE Inv'
    OBVIOUS
  <2>1. CASE TxNext
    BY <2>1, TypeStep, SentStep, OwnerStep
  <2>2. CASE UNCHANGED txVars
    BY <2>2 DEF txVars, TxTypeOK, OneOwner, OneSent, Sent, Marked
  <2> QED BY <2>1, <2>2
<1>3. Inv => AppliedOnce
  BY DEF OneSent, Sent, Marked, AppliedOnce
<1> QED BY <1>1, <1>2, <1>3, PTL DEF TxSpec

\* No connection in the pool is in a transaction, wherever callers fail or are
\* dropped (Guarded and its Drop), for every server.
THEOREM PoolCleanHolds == TxSpec => []PoolClean
PROOF
<1> DEFINE Inv == TxTypeOK /\ OneOwner
<1>1. TxInit => Inv
  BY TxAssumption DEF TxInit, TxTypeOK, OneOwner
<1>2. Inv /\ [TxNext]_txVars => Inv'
  <2> SUFFICES ASSUME Inv, [TxNext]_txVars PROVE Inv'
    OBVIOUS
  <2>1. CASE TxNext
    BY <2>1, TypeStep, OwnerStep
  <2>2. CASE UNCHANGED txVars
    BY <2>2 DEF txVars, TxTypeOK, OneOwner
  <2> QED BY <2>1, <2>2
<1>3. Inv => PoolClean
  BY DEF OneOwner, PoolClean
<1> QED BY <1>1, <1>2, <1>3, PTL DEF TxSpec

-----------------------------------------------------------------------------
(* The search for a KDC                                                    *)

USE MaxPassAssumption

-----------------------------------------------------------------------------
(* The invariant                                                           *)

Pcs == {"ready", "deferred", "tail", "retx", "backoff"}
Active == {"recv", "conn", "read"}
TaskStates == Active \union {"sent", "gone"}
Codes == {"ok", "svc", "toobig"}
Results == {"none", "ok", "toobig", "unreach", "svcunavail", "unknown", "panic"}
GaveUp == {"unreach", "svcunavail"}

\* What a realm's servers and the lists of them are is left open.
IsSeq(s) == \E S : s \in Seq(S)
Loops(A) == {e \in [noUdp : BOOLEAN, pc : Pcs, wait : BOOLEAN, pass : 1 .. MaxPass, i : Nat, n : Nat,
                    ready : A, deferred : A] : e.pc = "retx" => e.i # 0}
Outs(A) == [res : Results, svc : BOOLEAN, last : A, used : A]

TypesS ==
    /\ dl \in BOOLEAN /\ task \in Seq(TaskStates) /\ IsSeq(live) /\ IsSeq(q)
    /\ \E A : ex \in Loops(A)
    /\ \E A : out \in Outs(A)
    /\ \A i \in DOMAIN q : q[i].id \in DOMAIN task /\ (q[i].kind = "reply" => q[i].code \in Codes)

\* A task at work has its connection in the list, and only those of TCP
\* connections connect and read.
Listed ==
    /\ \A id \in DOMAIN task : task[id] \in Active => \E i \in DOMAIN live : live[i].id = id
    /\ \A i \in DOMAIN live : /\ live[i].id \in DOMAIN task
                              /\ task[live[i].id] \in {"conn", "read"} => live[i].t # "udp"
            /\ DOMAIN live[i] = {"id", "s", "t", "est"}
          /\ DOMAIN live[i] = {"id", "s", "t", "est"}
                              /\ DOMAIN live[i] = {"id", "s", "t", "est"}

\* An answer that counts is in the queue.
Queued == good # {} => \E i \in DOMAIN q : q[i].kind = "reply" /\ Accepts(q[i])

\* Between the last window of a pass and what comes next, an answer is for the
\* windows of the next pass, and no TCP connection is waited for.
Between ==
    ex.pc \in {"tail", "backoff"} /\ ~ex.wait =>
        ~AnyTcp /\ (good # {} => ex.pass < MaxPass /\ live # << >>)

SendInv ==
    /\ TypesS /\ Listed
    /\ Running /\ ~dl => Queued /\ Between
    /\ NoAnswerLost /\ TcpWaitedFor

-----------------------------------------------------------------------------
(* Sequences                                                               *)

LEMMA EmptyIsSeq == IsSeq(<< >>) /\ DOMAIN << >> = {}
<1>1. << >> \in Seq({})
  OBVIOUS
<1>. QED  BY <1>1 DEF IsSeq

LEMMA AppendIsSeq ==
    ASSUME NEW s, IsSeq(s), NEW e
    PROVE  /\ IsSeq(Append(s, e)) /\ Append(s, e) # << >>
           /\ \A i \in DOMAIN Append(s, e) : (i \in DOMAIN s /\ Append(s, e)[i] = s[i])
                                               \/ Append(s, e)[i] = e
           /\ \A i \in DOMAIN s : i \in DOMAIN Append(s, e) /\ Append(s, e)[i] = s[i]
           /\ \E i \in DOMAIN Append(s, e) : Append(s, e)[i] = e
<1>1. PICK S : s \in Seq(S)
  BY DEF IsSeq
<1>. DEFINE T == S \union {e}
            t == Append(s, e)
<1>2. s \in Seq(T) /\ e \in T
  <2>1. S \subseteq T /\ e \in T
    OBVIOUS
  <2>. HIDE DEF T
  <2>. QED  BY <1>1, <2>1, SeqMonotonic
<1>. HIDE DEF T
<1>3. /\ t \in Seq(T) /\ Len(t) = Len(s) + 1 /\ t[Len(s) + 1] = e
      /\ \A i \in 1 .. Len(s) : t[i] = s[i]
  BY <1>2, AppendProperties
<1>4. Len(s) \in Nat /\ DOMAIN s = 1 .. Len(s) /\ DOMAIN t = 1 .. Len(s) + 1
  BY <1>2, <1>3, LenProperties
<1>5. t # << >>
  BY <1>4
<1>6. IsSeq(t)
  BY <1>3 DEF IsSeq
<1>. QED  BY <1>3, <1>4, <1>5, <1>6

LEMMA TailIsSeq ==
    ASSUME NEW s, IsSeq(s), s # << >>
    PROVE  /\ IsSeq(Tail(s)) /\ 1 \in DOMAIN s /\ Head(s) = s[1]
           /\ \A i \in DOMAIN Tail(s) : i + 1 \in DOMAIN s /\ Tail(s)[i] = s[i + 1]
           /\ \A i \in DOMAIN s : i = 1 \/ \E j \in DOMAIN Tail(s) : Tail(s)[j] = s[i]
<1>1. PICK S : s \in Seq(S)
  BY DEF IsSeq
<1>. DEFINE t == Tail(s)
<1>2. /\ t \in Seq(S) /\ Len(t) = Len(s) - 1 /\ \A i \in 1 .. Len(t) : t[i] = s[i + 1]
  BY <1>1, HeadTailProperties
<1>3. /\ Len(s) \in Nat \ {0} /\ DOMAIN s = 1 .. Len(s) /\ DOMAIN t = 1 .. Len(t)
  BY <1>1, <1>2, LenProperties, EmptySeq
<1>4. IsSeq(t)
  BY <1>2 DEF IsSeq
<1>5. Head(s) = s[1]
  OBVIOUS
<1>. HIDE DEF t
<1>6. ASSUME NEW i \in DOMAIN s, i # 1 PROVE \E j \in DOMAIN t : t[j] = s[i]
  <2>1. i - 1 \in 1 .. Len(t) /\ (i - 1) + 1 = i
    BY <1>2, <1>3, <1>6
  <2>2. i - 1 \in DOMAIN t /\ t[i - 1] = s[i]
    BY <1>2, <1>3, <2>1
  <2>. QED  BY <2>2
<1>. QED  BY <1>2, <1>3, <1>4, <1>5, <1>6 DEF t

\* kill takes out one connection, the one of that number if there is one.
LEMMA WithoutFacts ==
    ASSUME IsSeq(live), NEW id
    PROVE  /\ IsSeq(Without(id))
           /\ \A i \in DOMAIN Without(id) : \E j \in DOMAIN live : Without(id)[i] = live[j]
           /\ \A j \in DOMAIN live : live[j].id # id =>
                \E i \in DOMAIN Without(id) : Without(id)[i] = live[j]
<1>1. PICK S : live \in Seq(S)
  BY DEF IsSeq
<1>2. CASE \E i \in DOMAIN live : live[i].id = id
  <2>1. PICK k : k = CHOOSE i \in DOMAIN live : live[i].id = id
    OBVIOUS
  <2>2. k \in DOMAIN live /\ live[k].id = id
    BY <1>2, <2>1
  <2>3. PICK n \in Nat : n = Len(live) /\ DOMAIN live = 1 .. n /\ k \in 1 .. n
    BY <1>1, <2>2, LenProperties
  <2>4. \A j \in 1 .. n : live[j] \in S
    BY <1>1, <2>3, ElementOfSeq
  <2>. DEFINE b == SubSeq(live, 1, k - 1)
              c == SubSeq(live, k + 1, n)
              w == Without(id)
  <2>5. w = b \o c
    BY <1>2, <2>1, <2>3 DEF Without
  <2>6. /\ b \in Seq(S) /\ Len(b) = k - 1 /\ \A j \in 1 .. k - 1 : b[j] = live[j]
    <3>1. 1 \in Int /\ k - 1 \in Int /\ \A j \in 1 .. k - 1 : live[j] \in S
      BY <2>3, <2>4
    <3>2. /\ b \in Seq(S) /\ Len(b) = IF 1 <= k - 1 THEN (k - 1) - 1 + 1 ELSE 0
          /\ \A j \in 1 .. (k - 1) - 1 + 1 : b[j] = live[1 + j - 1]
      BY <3>1, SubSeqProperties
    <3>. HIDE DEF b
    <3>. QED  BY <2>3, <3>2
  <2>7. /\ c \in Seq(S) /\ Len(c) = n - k /\ \A j \in 1 .. n - k : c[j] = live[k + j]
    <3>1. k + 1 \in Int /\ n \in Int /\ \A j \in k + 1 .. n : live[j] \in S
      BY <2>3, <2>4
    <3>2. /\ c \in Seq(S) /\ Len(c) = IF k + 1 <= n THEN n - (k + 1) + 1 ELSE 0
          /\ \A j \in 1 .. n - (k + 1) + 1 : c[j] = live[(k + 1) + j - 1]
      BY <3>1, SubSeqProperties
    <3>. HIDE DEF c
    <3>3. k \in Int /\ n \in Int /\ k <= n
      BY <2>3
    <3>4. n - (k + 1) + 1 = n - k /\ (IF k + 1 <= n THEN n - k ELSE 0) = n - k
      BY <3>3
    <3>5. \A j \in 1 .. n - k : (k + 1) + j - 1 = k + j
      BY <3>3
    <3>6. Len(c) = n - k
      BY <3>2, <3>4
    <3>. QED  BY <3>2, <3>4, <3>5, <3>6
  <2>. HIDE DEF b, c, w
  <2>8. /\ w \in Seq(S) /\ Len(w) = (k - 1) + (n - k)
        /\ \A j \in 1 .. (k - 1) + (n - k) : w[j] = IF j <= k - 1 THEN b[j] ELSE c[j - (k - 1)]
    <3>1. /\ b \o c \in Seq(S) /\ Len(b \o c) = Len(b) + Len(c)
          /\ \A j \in 1 .. Len(b) + Len(c) :
               (b \o c)[j] = IF j <= Len(b) THEN b[j] ELSE c[j - Len(b)]
      BY <2>6, <2>7, ConcatProperties
    <3>2. /\ w \in Seq(S) /\ Len(w) = Len(b) + Len(c)
          /\ \A j \in 1 .. Len(b) + Len(c) : w[j] = IF j <= Len(b) THEN b[j] ELSE c[j - Len(b)]
      BY <2>5, <3>1
    <3>. QED  BY <2>6, <2>7, <3>2
  <2>9. DOMAIN w = 1 .. n - 1
    <3>1. (k - 1) + (n - k) = n - 1
      BY <2>3
    <3>2. DOMAIN w = 1 .. Len(w)
      BY <2>8, LenProperties
    <3>. QED  BY <2>8, <3>1, <3>2
  <2>10. ASSUME NEW i \in DOMAIN w PROVE \E j \in DOMAIN live : w[i] = live[j]
    <3>1. CASE i <= k - 1
      <4>1. i \in 1 .. k - 1 /\ i \in 1 .. n /\ i \in 1 .. (k - 1) + (n - k)
        BY <2>3, <2>9, <2>10, <3>1
      <4>2. w[i] = live[i]
        BY <2>6, <2>8, <3>1, <4>1
      <4>. QED  BY <2>3, <4>1, <4>2
    <3>2. CASE ~(i <= k - 1)
      <4>1. /\ i - (k - 1) \in 1 .. n - k /\ k + (i - (k - 1)) = i + 1 /\ i + 1 \in 1 .. n
            /\ i \in 1 .. (k - 1) + (n - k)
        BY <2>3, <2>9, <2>10, <3>2
      <4>2. w[i] = c[i - (k - 1)]
        BY <2>8, <3>2, <4>1
      <4>3. c[i - (k - 1)] = live[i + 1]
        BY <2>7, <4>1
      <4>. QED  BY <2>3, <4>1, <4>2, <4>3
    <3>. QED  BY <3>1, <3>2
  <2>11. ASSUME NEW j \in DOMAIN live, live[j].id # id PROVE \E i \in DOMAIN w : w[i] = live[j]
    <3>0. j # k
      BY <2>2, <2>11
    <3>1. CASE j < k
      <4>1. j \in 1 .. k - 1 /\ j \in 1 .. n - 1 /\ j <= k - 1 /\ j \in 1 .. (k - 1) + (n - k)
        BY <2>3, <2>11, <3>1
      <4>2. w[j] = live[j]
        BY <2>6, <2>8, <4>1
      <4>. QED  BY <2>9, <4>1, <4>2
    <3>2. CASE ~(j < k)
      <4>1. /\ j - 1 \in 1 .. n - 1 /\ ~(j - 1 <= k - 1) /\ (j - 1) - (k - 1) \in 1 .. n - k
            /\ k + ((j - 1) - (k - 1)) = j /\ j - 1 \in 1 .. (k - 1) + (n - k)
        BY <2>3, <2>11, <3>0, <3>2
      <4>2. w[j - 1] = c[(j - 1) - (k - 1)]
        BY <2>8, <4>1
      <4>3. c[(j - 1) - (k - 1)] = live[j]
        BY <2>7, <4>1
      <4>. QED  BY <2>9, <4>1, <4>2, <4>3
    <3>. QED  BY <3>1, <3>2
  <2>12. IsSeq(w)
    BY <2>8 DEF IsSeq
  <2>. QED  BY <2>10, <2>11, <2>12 DEF w
<1>3. CASE ~\E i \in DOMAIN live : live[i].id = id
  <2>1. Without(id) = live
    BY <1>3 DEF Without
  <2>. QED  BY <2>1
<1>. QED  BY <1>2, <1>3

\* A task changes its state.
LEMMA TaskBecomes ==
    ASSUME task \in Seq(TaskStates), NEW id \in DOMAIN task, NEW st \in TaskStates,
           task' = [task EXCEPT ![id] = st]
    PROVE  /\ task' \in Seq(TaskStates) /\ DOMAIN task' = DOMAIN task
           /\ task'[id] = st /\ \A j \in DOMAIN task : j # id => task'[j] = task[j]
<1>1. id \in 1 .. Len(task) /\ DOMAIN task = 1 .. Len(task)
  BY LenProperties
<1>2. task' \in Seq(TaskStates)
  BY <1>1, ExceptSeq
<1>. QED  BY <1>2

-----------------------------------------------------------------------------
(* The connections and the network                                         *)

\* A task at work sends an event.
LEMMA EventKeeps ==
    ASSUME SendInv, Running, NEW id \in DOMAIN task, task[id] \in Active,
           NEW kind, NEW code, kind = "reply" => code \in Codes,
           NEW st \in {"read", "sent"}, st = "read" => task[id] = "conn",
           task' = [task EXCEPT ![id] = st], Event(id, kind, code),
           \/ good' = good
           \/ kind = "reply" /\ code # "svc" /\ ~TooLate,
           UNCHANGED <<ex, live, out, dl>>
    PROVE  SendInv'
<1>. DEFINE e == [kind |-> kind, id |-> id, s |-> ServerOf(id), code |-> code]
<1>0. TypesS /\ Listed /\ (~dl => Queued /\ Between)
  BY DEF SendInv
<1>1. q' = Append(q, e) /\ e.kind = kind /\ e.id = id /\ e.code = code
  BY DEF Event
<1>. HIDE DEF e
<1>2. /\ IsSeq(q') /\ \A i \in DOMAIN q' : (i \in DOMAIN q /\ q'[i] = q[i]) \/ q'[i] = e
      /\ \A i \in DOMAIN q : i \in DOMAIN q' /\ q'[i] = q[i]
      /\ \E i \in DOMAIN q' : q'[i] = e
  <2>1. IsSeq(q)
    BY <1>0 DEF TypesS
  <2>2. PICK s : s = Append(q, e)
    OBVIOUS
  <2>3. /\ IsSeq(s) /\ \A i \in DOMAIN s : (i \in DOMAIN q /\ s[i] = q[i]) \/ s[i] = e
        /\ \A i \in DOMAIN q : i \in DOMAIN s /\ s[i] = q[i]
        /\ \E i \in DOMAIN s : s[i] = e
    BY <2>1, <2>2, AppendIsSeq
  <2>4. q' = s
    BY <1>1, <2>2
  <2>. QED  BY <2>3, <2>4
<1>3. /\ task' \in Seq(TaskStates) /\ DOMAIN task' = DOMAIN task
      /\ task'[id] = st /\ \A j \in DOMAIN task : j # id => task'[j] = task[j]
  <2>1. task \in Seq(TaskStates) /\ st \in TaskStates
    BY <1>0 DEF TypesS, TaskStates, Active
  <2>. QED  BY <2>1, TaskBecomes
<1>4. ex' = ex /\ live' = live /\ out' = out /\ dl' = dl
  OBVIOUS
<1>5. TypesS'
  <2>1. \A i \in DOMAIN q' : /\ q'[i].id \in DOMAIN task'
                             /\ q'[i].kind = "reply" => q'[i].code \in Codes
    BY <1>0, <1>1, <1>2, <1>3 DEF TypesS
  <2>2. (\E A : ex' \in Loops(A)) /\ (\E A : out' \in Outs(A)) /\ IsSeq(live') /\ dl' \in BOOLEAN
    BY <1>0, <1>4 DEF TypesS
  <2>. QED  BY <1>2, <1>3, <2>1, <2>2 DEF TypesS, IsSeq, Loops, Outs
<1>6. Listed'
  <2>1. ASSUME NEW j \in DOMAIN task', task'[j] \in Active
        PROVE  \E i \in DOMAIN live' : live'[i].id = j
    <3>1. j \in DOMAIN task /\ task[j] \in Active
      BY <1>3, <2>1
    <3>. QED  BY <1>0, <1>4, <3>1 DEF Listed
  <2>2. ASSUME NEW i \in DOMAIN live'
        PROVE  /\ live'[i].id \in DOMAIN task'
               /\ task'[live'[i].id] \in {"conn", "read"} => live'[i].t # "udp"
               /\ DOMAIN live'[i] = {"id", "s", "t", "est"}
    <3>1. /\ live[i].id \in DOMAIN task
          /\ task[live[i].id] \in {"conn", "read"} => live[i].t # "udp"
          /\ DOMAIN live[i] = {"id", "s", "t", "est"}
      BY <1>0, <1>4, <2>2 DEF Listed
    <3>2. task'[live[i].id] \in {"conn", "read"} => task[live[i].id] \in {"conn", "read"}
      BY <1>3, <3>1
    <3>. QED  BY <1>3, <1>4, <3>1, <3>2
  <2>. QED  BY <2>1, <2>2 DEF Listed
<1>7. ASSUME ~dl' PROVE Queued' /\ Between'
  <2>1. Queued /\ Between
    BY <1>0, <1>4, <1>7
  <2>2. ASSUME good' # {} PROVE \E i \in DOMAIN q' : q'[i].kind = "reply" /\ q'[i].code # "svc"
    <3>1. CASE good' = good
      <4>1. PICK i \in DOMAIN q : q[i].kind = "reply" /\ q[i].code # "svc"
        BY <2>1, <2>2, <3>1 DEF Queued, Accepts
      <4>. QED  BY <1>2, <4>1
    <3>2. CASE kind = "reply" /\ code # "svc"
      BY <1>1, <1>2, <3>2
    <3>. QED  BY <3>1, <3>2
  <2>3. AnyTcp' <=> AnyTcp
    BY <1>4 DEF AnyTcp
  <2>4. ASSUME ex.pc \in {"tail", "backoff"}, ~ex.wait
        PROVE  ~AnyTcp /\ (good' # {} => ex.pass < MaxPass /\ live # << >>)
    <3>1. ~AnyTcp /\ (good # {} => ex.pass < MaxPass /\ live # << >>)
      BY <2>1, <2>4 DEF Between
    <3>2. CASE ~TooLate
      <4>1. ex.pass # MaxPass /\ ex.pass \in 1 .. MaxPass
        BY <1>0, <2>4, <3>2 DEF TooLate, TypesS, Loops
      <4>2. live # << >>
        BY <1>0, EmptyIsSeq DEF Listed
      <4>. QED  BY <3>1, <4>1, <4>2
    <3>. QED  BY <3>1, <3>2
  <2>. QED  BY <1>4, <2>2, <2>3, <2>4 DEF Queued, Between, Accepts
<1>8. out'.res = "none"
  BY <1>4 DEF Running
<1>. QED  BY <1>5, <1>6, <1>7, <1>8 DEF SendInv, NoAnswerLost, TcpWaitedFor

LEMMA NetworkKeeps ==
    ASSUME SendInv, Network
    PROVE  SendInv'
<1>1. PICK id \in DOMAIN task :
        Establish(id) \/ Die(id) \/ \E code \in Codes : Reply(id, code)
  BY DEF Network, Codes
<1>2. CASE Establish(id)
  BY <1>2, EventKeeps DEF Establish, Active
<1>3. CASE Die(id)
  BY <1>3, EventKeeps DEF Die, Active
<1>4. ASSUME NEW code \in Codes, Reply(id, code) PROVE SendInv'
  BY <1>4, EventKeeps DEF Reply, Active
<1>. QED  BY <1>1, <1>2, <1>3, <1>4

-----------------------------------------------------------------------------
(* The loop                                                                *)

\* The loop goes on, or gives up, and the connections stay as they are.
LEMMA LoopMoves ==
    ASSUME SendInv, Running, UNCHANGED <<live, q, task, good, dl>>,
           \E A : ex' \in Loops(A), \E A : out' \in Outs(A),
           out'.res = "none" /\ ~dl /\ ex'.pc \in {"tail", "backoff"} /\ ~ex'.wait =>
               ~AnyTcp /\ (good # {} => ex'.pass < MaxPass /\ live # << >>),
           out'.res \in GaveUp /\ ~dl => good = {} /\ ~AnyTcp
    PROVE  SendInv'
<1>0. TypesS /\ Listed /\ (~dl => Queued /\ Between)
  BY DEF SendInv
<1>1. live' = live /\ q' = q /\ task' = task /\ good' = good /\ dl' = dl
  OBVIOUS
<1>2. TypesS'
  BY <1>0, <1>1 DEF TypesS, IsSeq, Loops, Outs
<1>3. Listed' /\ (AnyTcp' <=> AnyTcp)
  BY <1>0, <1>1 DEF Listed, AnyTcp
<1>4. Running' /\ ~dl' => Queued' /\ Between'
  BY <1>0, <1>1, <1>3 DEF Queued, Between, Running, Accepts
<1>5. NoAnswerLost'
  BY <1>1 DEF NoAnswerLost, GaveUp
<1>6. TcpWaitedFor'
  <2>1. ASSUME out'.res \in GaveUp, ~dl, NEW i \in DOMAIN live, live[i].est
        PROVE  task[live[i].id] # "read"
    <3>1. live[i].t = "udp"
      BY <2>1 DEF AnyTcp
    <3>. QED  BY <1>0, <2>1, <3>1 DEF Listed
  <2>. QED  BY <1>1, <2>1 DEF TcpWaitedFor, GaveUp
<1>. QED  BY <1>2, <1>3, <1>4, <1>5, <1>6 DEF SendInv

\* What the loop takes from the queue was no answer that counts.
LEMMA TakenFacts ==
    ASSUME TypesS, good' = good, DOMAIN task \subseteq DOMAIN task',
           \/ q' = q
           \/ q # << >> /\ q' = Tail(q) /\ ~(q[1].kind = "reply" /\ Accepts(q[1]))
    PROVE  /\ IsSeq(q') /\ (Queued => Queued')
           /\ \A i \in DOMAIN q' : /\ q'[i].id \in DOMAIN task'
                                   /\ q'[i].kind = "reply" => q'[i].code \in Codes
<1>0. /\ IsSeq(q)
      /\ \A i \in DOMAIN q : q[i].id \in DOMAIN task /\ (q[i].kind = "reply" => q[i].code \in Codes)
  BY DEF TypesS
<1>1. CASE q' = q
  BY <1>0, <1>1 DEF Queued, Accepts
<1>2. CASE q # << >> /\ q' = Tail(q) /\ ~(q[1].kind = "reply" /\ Accepts(q[1]))
  <2>1. PICK t : t = Tail(q)
    OBVIOUS
  <2>2. /\ IsSeq(t) /\ \A i \in DOMAIN t : i + 1 \in DOMAIN q /\ t[i] = q[i + 1]
        /\ \A i \in DOMAIN q : i = 1 \/ \E j \in DOMAIN t : t[j] = q[i]
    BY <1>0, <1>2, <2>1, TailIsSeq
  <2>3. q' = t
    BY <1>2, <2>1
  <2>4. ASSUME Queued, good # {} PROVE \E i \in DOMAIN t : t[i].kind = "reply" /\ t[i].code # "svc"
    <3>1. PICK i \in DOMAIN q : q[i].kind = "reply" /\ q[i].code # "svc"
      BY <2>4 DEF Queued, Accepts
    <3>2. i # 1
      BY <1>2, <3>1 DEF Accepts
    <3>3. PICK j \in DOMAIN t : t[j] = q[i]
      BY <2>2, <3>2
    <3>. QED  BY <3>1, <3>3
  <2>5. Queued => Queued'
    BY <2>3, <2>4 DEF Queued, Accepts
  <2>6. \A i \in DOMAIN t : t[i].id \in DOMAIN task' /\ (t[i].kind = "reply" => t[i].code \in Codes)
    BY <1>0, <2>2
  <2>. QED  BY <2>2, <2>3, <2>5, <2>6
<1>. QED  BY <1>1, <1>2

\* A connection is killed, and a window is open or the pass goes on.
LEMMA KillKeeps ==
    ASSUME SendInv, Running, NEW id \in DOMAIN task, live' = Without(id), task' = Aborted(id),
           \/ q' = q
           \/ q # << >> /\ q' = Tail(q) /\ ~(q[1].kind = "reply" /\ Accepts(q[1])),
           UNCHANGED <<good, dl>>, \E A : ex' \in Loops(A), \E A : out' \in Outs(A),
           out'.res = "none", dl \/ ex'.wait \/ ex'.pc \notin {"tail", "backoff"}
    PROVE  SendInv'
<1>0. TypesS /\ Listed /\ (~dl => Queued /\ Between)
  BY DEF SendInv
<1>1. good' = good /\ dl' = dl
  OBVIOUS
<1>2. /\ task' \in Seq(TaskStates) /\ DOMAIN task' = DOMAIN task
      /\ task'[id] = "gone" /\ \A j \in DOMAIN task : j # id => task'[j] = task[j]
  <2>1. task \in Seq(TaskStates) /\ "gone" \in TaskStates /\ task' = [task EXCEPT ![id] = "gone"]
    BY <1>0 DEF TypesS, TaskStates, Aborted
  <2>. QED  BY <2>1, TaskBecomes
<1>3. /\ IsSeq(live') /\ \A i \in DOMAIN live' : \E j \in DOMAIN live : live'[i] = live[j]
      /\ \A j \in DOMAIN live : live[j].id # id => \E i \in DOMAIN live' : live'[i] = live[j]
  <2>1. IsSeq(live)
    BY <1>0 DEF TypesS
  <2>2. PICK w : w = Without(id)
    OBVIOUS
  <2>3. /\ IsSeq(w) /\ \A i \in DOMAIN w : \E j \in DOMAIN live : w[i] = live[j]
        /\ \A j \in DOMAIN live : live[j].id # id => \E i \in DOMAIN w : w[i] = live[j]
    BY <2>1, <2>2, WithoutFacts
  <2>4. live' = w
    BY <2>2
  <2>. QED  BY <2>3, <2>4
<1>4. /\ IsSeq(q') /\ (Queued => Queued')
      /\ \A i \in DOMAIN q' : /\ q'[i].id \in DOMAIN task'
                              /\ q'[i].kind = "reply" => q'[i].code \in Codes
  BY <1>0, <1>1, <1>2, TakenFacts
<1>5. TypesS'
  BY <1>0, <1>1, <1>2, <1>3, <1>4 DEF TypesS, IsSeq, Loops, Outs
<1>6. Listed'
  <2>1. ASSUME NEW j \in DOMAIN task', task'[j] \in Active
        PROVE  \E i \in DOMAIN live' : live'[i].id = j
    <3>1. j \in DOMAIN task /\ j # id /\ task[j] \in Active
      BY <1>2, <2>1 DEF Active
    <3>2. PICK i \in DOMAIN live : live[i].id = j
      BY <1>0, <3>1 DEF Listed
    <3>. QED  BY <1>3, <3>1, <3>2
  <2>2. ASSUME NEW i \in DOMAIN live'
        PROVE  /\ live'[i].id \in DOMAIN task'
               /\ task'[live'[i].id] \in {"conn", "read"} => live'[i].t # "udp"
               /\ DOMAIN live'[i] = {"id", "s", "t", "est"}
    <3>1. PICK j \in DOMAIN live : live'[i] = live[j]
      BY <1>3, <2>2
    <3>2. /\ live[j].id \in DOMAIN task
          /\ task[live[j].id] \in {"conn", "read"} => live[j].t # "udp"
          /\ DOMAIN live[j] = {"id", "s", "t", "est"}
      BY <1>0 DEF Listed
    <3>3. task'[live[j].id] \in {"conn", "read"} => task[live[j].id] \in {"conn", "read"}
      BY <1>2, <3>2
    <3>. QED  BY <1>2, <3>1, <3>2, <3>3
  <2>. QED  BY <2>1, <2>2 DEF Listed
<1>7. ~dl' => Queued' /\ Between'
  BY <1>0, <1>1, <1>4 DEF Between
<1>. QED  BY <1>5, <1>6, <1>7 DEF SendInv, NoAnswerLost, TcpWaitedFor

LEMMA ContactKeeps ==
    ASSUME SendInv, NEW okay \in BOOLEAN, Contact(okay)
    PROVE  SendInv'
<1>0. TypesS /\ Listed /\ (Running /\ ~dl => Queued /\ Between)
  BY DEF SendInv
<1>. DEFINE c == Head(ex[ex.pc])
            id == Len(task) + 1
            kept == c.t # "udp" \/ okay
            st == IF ~kept THEN "gone" ELSE IF c.t = "udp" THEN "recv" ELSE "conn"
            e == [id |-> id, s |-> c.s, t |-> c.t, est |-> FALSE]
<1>1. /\ Running /\ ~ex.wait /\ ex.pc \in {"ready", "deferred"}
      /\ q' = q /\ out' = out /\ dl' = dl /\ good' = good
      /\ ex' = [[ex EXCEPT ![ex.pc] = Tail(@)] EXCEPT !.wait = ~dl]
  BY DEF Contact, Window
<1>2. /\ live' = (IF kept THEN Append(live, e) ELSE live) /\ task' = Append(task, st)
  BY DEF Contact, StartConn
<1>3. st \in TaskStates /\ e.id = id /\ e.t = c.t /\ DOMAIN e = {"id", "s", "t", "est"}
      /\ (st \in Active => kept) /\ (st \in {"conn", "read"} => c.t # "udp")
  BY DEF TaskStates, Active
<1>4. task \in Seq(TaskStates) /\ Len(task) \in Nat /\ DOMAIN task = 1 .. Len(task)
  BY <1>0, LenProperties DEF TypesS
<1>. HIDE DEF st, e, kept, c
<1>5. /\ task' \in Seq(TaskStates) /\ DOMAIN task' = 1 .. id
      /\ task'[id] = st /\ \A j \in DOMAIN task : task'[j] = task[j]
  <2>1. /\ Append(task, st) \in Seq(TaskStates) /\ Len(Append(task, st)) = Len(task) + 1
        /\ Append(task, st)[Len(task) + 1] = st
        /\ \A j \in 1 .. Len(task) : Append(task, st)[j] = task[j]
    BY <1>3, <1>4, AppendProperties
  <2>2. DOMAIN Append(task, st) = 1 .. Len(task) + 1
    BY <2>1, LenProperties
  <2>. QED  BY <1>2, <1>4, <2>1, <2>2
<1>. HIDE DEF id
<1>6. id \notin DOMAIN task /\ DOMAIN task' = DOMAIN task \union {id}
  BY <1>4, <1>5 DEF id
<1>7. /\ IsSeq(live')
      /\ \A i \in DOMAIN live' : (i \in DOMAIN live /\ live'[i] = live[i]) \/ (kept /\ live'[i] = e)
      /\ \A i \in DOMAIN live : i \in DOMAIN live' /\ live'[i] = live[i]
      /\ kept => \E i \in DOMAIN live' : live'[i] = e
  <2>1. IsSeq(live)
    BY <1>0 DEF TypesS
  <2>2. PICK w : w = Append(live, e)
    OBVIOUS
  <2>3. /\ IsSeq(w) /\ \A i \in DOMAIN w : (i \in DOMAIN live /\ w[i] = live[i]) \/ w[i] = e
        /\ \A i \in DOMAIN live : i \in DOMAIN w /\ w[i] = live[i]
        /\ \E i \in DOMAIN w : w[i] = e
    BY <2>1, <2>2, AppendIsSeq
  <2>4. CASE kept
    <3>1. live' = w
      BY <1>2, <2>2, <2>4
    <3>. QED  BY <2>3, <2>4, <3>1
  <2>5. CASE ~kept
    <3>1. live' = live
      BY <1>2, <2>5
    <3>. QED  BY <2>1, <2>5, <3>1
  <2>. QED  BY <2>4, <2>5
<1>8. \E A : ex' \in Loops(A)
  <2>1. PICK A : ex \in Loops(A)
    BY <1>0 DEF TypesS
  <2>2. PICK t : t = Tail(ex[ex.pc])
    OBVIOUS
  <2>3. PICK B : B = A \union {t}
    OBVIOUS
  <2>4. dl \in BOOLEAN /\ t \in B /\ ex.ready \in B /\ ex.deferred \in B
    BY <1>0, <2>1, <2>3 DEF TypesS, Loops
  <2>5. CASE ex.pc = "ready"
    <3>1. ex' = [ex EXCEPT !.ready = t, !.wait = ~dl]
      BY <1>1, <2>1, <2>2, <2>5 DEF Loops
    <3>2. ex' \in Loops(B)
      BY <2>1, <2>4, <2>5, <3>1 DEF Loops
    <3>. QED  BY <3>2
  <2>6. CASE ex.pc = "deferred"
    <3>1. ex' = [ex EXCEPT !.deferred = t, !.wait = ~dl]
      BY <1>1, <2>1, <2>2, <2>6 DEF Loops
    <3>2. ex' \in Loops(B)
      BY <2>1, <2>4, <2>6, <3>1 DEF Loops
    <3>. QED  BY <3>2
  <2>. QED  BY <1>1, <2>5, <2>6
<1>9. ~dl => ex'.wait
  <2>1. PICK A : ex \in Loops(A)
    BY <1>0 DEF TypesS
  <2>. QED  BY <1>1, <2>1 DEF Loops
<1>10. TypesS'
  <2>1. \A i \in DOMAIN q' : /\ q'[i].id \in DOMAIN task'
                             /\ q'[i].kind = "reply" => q'[i].code \in Codes
    BY <1>0, <1>1, <1>6 DEF TypesS
  <2>2. IsSeq(q') /\ dl' \in BOOLEAN /\ \E A : out' \in Outs(A)
    BY <1>0, <1>1 DEF TypesS
  <2>. QED  BY <1>5, <1>7, <1>8, <2>1, <2>2 DEF TypesS, IsSeq, Loops, Outs
<1>11. Listed'
  <2>1. ASSUME NEW j \in DOMAIN task', task'[j] \in Active
        PROVE  \E i \in DOMAIN live' : live'[i].id = j
    <3>1. CASE j = id
      BY <1>3, <1>5, <1>7, <2>1, <3>1
    <3>2. CASE j # id
      <4>1. j \in DOMAIN task /\ task[j] \in Active
        BY <1>5, <1>6, <2>1, <3>2
      <4>2. PICK i \in DOMAIN live : live[i].id = j
        BY <1>0, <4>1 DEF Listed
      <4>. QED  BY <1>7, <4>2
    <3>. QED  BY <3>1, <3>2
  <2>2. ASSUME NEW i \in DOMAIN live'
        PROVE  /\ live'[i].id \in DOMAIN task'
               /\ task'[live'[i].id] \in {"conn", "read"} => live'[i].t # "udp"
               /\ DOMAIN live'[i] = {"id", "s", "t", "est"}
    <3>1. CASE i \in DOMAIN live /\ live'[i] = live[i]
      <4>1. /\ live[i].id \in DOMAIN task
            /\ task[live[i].id] \in {"conn", "read"} => live[i].t # "udp"
            /\ DOMAIN live[i] = {"id", "s", "t", "est"}
          /\ DOMAIN live[i] = {"id", "s", "t", "est"}
        BY <1>0, <3>1 DEF Listed
      <4>. QED  BY <1>5, <1>6, <3>1, <4>1
    <3>2. CASE live'[i] = e
      BY <1>3, <1>5, <1>6, <3>2
    <3>. QED  BY <1>7, <3>1, <3>2
  <2>. QED  BY <2>1, <2>2 DEF Listed
<1>12. ~dl' => Queued' /\ Between'
  BY <1>0, <1>1, <1>9 DEF Queued, Between, Accepts
<1>13. out'.res = "none"
  BY <1>1 DEF Running
<1>. QED  BY <1>10, <1>11, <1>12, <1>13 DEF SendInv, NoAnswerLost, TcpWaitedFor

\* The loop's own steps
LEMMA StepKeeps ==
    ASSUME SendInv, NextList \/ NextPass \/ Backoff \/ Timeout
    PROVE  SendInv'
<1>0. TypesS /\ Listed /\ (Running /\ ~dl => Queued /\ Between) /\ dl \in BOOLEAN
  BY DEF SendInv, TypesS
<1>1. Running /\ UNCHANGED <<live, q, task, good, dl>>
  BY DEF NextList, NextPass, Backoff, Timeout
<1>2. PICK A : ex \in Loops(A)
  BY <1>0 DEF TypesS
<1>3. PICK B : out \in Outs(B)
  BY <1>0 DEF TypesS
<1>4. CASE NextList
  <2>1. out' = out /\ \E pc \in {"deferred", "tail"}, w \in BOOLEAN :
          /\ ex' = [ex EXCEPT !.pc = pc, !.wait = w]
          /\ pc = "tail" /\ ~dl => w
    <3>1. CASE ex' = [ex EXCEPT !.pc = "deferred"] /\ ~ex.wait
      <4>1. ex' = [ex EXCEPT !.pc = "deferred", !.wait = FALSE]
        BY <1>2, <3>1 DEF Loops
      <4>. QED  BY <1>4, <4>1 DEF NextList
    <3>2. CASE ex' = Window([ex EXCEPT !.pc = "tail"])
      <4>1. ex' = [ex EXCEPT !.pc = "tail", !.wait = ~dl]
        BY <1>2, <3>2 DEF Loops, Window
      <4>. QED  BY <1>0, <1>4, <4>1 DEF NextList
    <3>. QED  BY <1>4, <3>1, <3>2 DEF NextList
  <2>2. PICK pc \in {"deferred", "tail"}, w \in BOOLEAN :
          ex' = [ex EXCEPT !.pc = pc, !.wait = w] /\ (pc = "tail" /\ ~dl => w)
    BY <2>1
  <2>3. ex' \in Loops(A) /\ ex'.pc = pc /\ ex'.wait = w
    BY <1>2, <2>2 DEF Loops, Pcs
  <2>4. out'.res = "none" /\ out' \in Outs(B)
    BY <1>1, <1>3, <2>1 DEF Running
  <2>. QED  BY <1>1, <2>2, <2>3, <2>4, LoopMoves DEF GaveUp
<1>5. CASE NextPass
  <2>1. ~ex.wait /\ ex.pc \in {"tail", "backoff"}
    BY <1>5 DEF NextPass
  <2>2. ~dl => ~AnyTcp /\ (good # {} => ex.pass < MaxPass /\ live # << >>)
    BY <1>0, <1>1, <2>1 DEF Between
  <2>3. CASE ex.pass < MaxPass /\ live # << >>
    <3>1. /\ ex' = [ex EXCEPT !.pc = "retx", !.pass = @ + 1, !.i = 1, !.n = Len(live)]
          /\ out' = out
      BY <1>5, <2>3 DEF NextPass
    <3>2. Len(live) \in Nat
      BY <1>0, LenProperties DEF TypesS, IsSeq
    <3>3. ex.pass + 1 \in 1 .. MaxPass
      BY <1>2, <2>3 DEF Loops
    <3>4. ex' \in Loops(A) /\ ex'.pc = "retx"
      <4>1. PICK p \in 1 .. MaxPass, n \in Nat :
              ex' = [ex EXCEPT !.pc = "retx", !.pass = p, !.i = 1, !.n = n]
        BY <3>1, <3>2, <3>3
      <4>2. "retx" \in Pcs /\ 1 \in Nat /\ 1 # 0
        BY DEF Pcs
      <4>. QED  BY <1>2, <4>1, <4>2 DEF Loops
    <3>5. out'.res = "none" /\ out' \in Outs(B)
      BY <1>1, <1>3, <3>1 DEF Running
    <3>. QED  BY <1>1, <3>4, <3>5, LoopMoves DEF GaveUp
  <2>4. CASE ~(ex.pass < MaxPass /\ live # << >>)
    <3>1. Finish("unreach") /\ ex' = ex
      BY <1>5, <2>4 DEF NextPass
    <3>2. \E r \in GaveUp : \E u : out' = [out EXCEPT !.res = r, !.used = u]
      BY <3>1 DEF Finish, GaveUp
    <3>3. PICK r \in GaveUp : \E u : out' = [out EXCEPT !.res = r, !.used = u]
      BY <3>2
    <3>4. PICK u : out' = [out EXCEPT !.res = r, !.used = u]
      BY <3>3
    <3>5. PICK C : C = B \union {u}
      OBVIOUS
    <3>6. out' \in Outs(C) /\ out'.res \in GaveUp
      BY <1>3, <3>4, <3>5 DEF Outs, GaveUp, Results
    <3>7. ~dl => good = {} /\ ~AnyTcp
      BY <2>2, <2>4
    <3>. QED  BY <1>1, <1>2, <3>1, <3>6, <3>7, LoopMoves DEF GaveUp
  <2>. QED  BY <2>3, <2>4
<1>6. CASE Backoff
  <2>1. ex' = [ex EXCEPT !.pc = "backoff", !.wait = ~dl] /\ out' = out
    BY <1>2, <1>6 DEF Backoff, Window, Loops
  <2>2. ex' \in Loops(A) /\ ex'.wait = ~dl
    BY <1>0, <1>2, <2>1 DEF Loops, Pcs
  <2>3. out'.res = "none" /\ out' \in Outs(B)
    BY <1>1, <1>3, <2>1 DEF Running
  <2>. QED  BY <1>1, <2>2, <2>3, LoopMoves DEF GaveUp
<1>7. CASE Timeout
  <2>1. ex' = [ex EXCEPT !.wait = FALSE] /\ out' = out /\ q = << >> /\ (dl \/ ~AnyTcp)
    BY <1>7 DEF Timeout, Closes
  <2>2. ex' \in Loops(A)
    BY <1>2, <2>1 DEF Loops
  <2>3. out'.res = "none" /\ out' \in Outs(B)
    BY <1>1, <1>3, <2>1 DEF Running
  <2>4. ~dl => good = {}
    BY <1>0, <1>1, <2>1, EmptyIsSeq DEF Queued
  <2>. QED  BY <1>1, <2>1, <2>2, <2>3, <2>4, LoopMoves DEF GaveUp
<1>. QED  BY <1>4, <1>5, <1>6, <1>7

LEMMA RetransmitKeeps ==
    ASSUME SendInv, NEW okay \in BOOLEAN, Retransmit(okay)
    PROVE  SendInv'
<1>0. TypesS /\ Listed /\ (Running /\ ~dl => Queued /\ Between) /\ dl \in BOOLEAN
  BY DEF SendInv, TypesS
<1>1. Running /\ UNCHANGED <<q, good, dl>> /\ ex.pc = "retx" /\ ~ex.wait
  BY DEF Retransmit
<1>2. PICK A : ex \in Loops(A)
  BY <1>0 DEF TypesS
<1>3. PICK B : out \in Outs(B)
  BY <1>0 DEF TypesS
<1>. DEFINE next == [ex EXCEPT !.i = @ + 1]
<1>4. next \in Loops(A) /\ next.pc = "retx" /\ Window(next) \in Loops(A) /\ Window(next).pc = "retx"
  <2>1. ex.i + 1 \in Nat /\ ex.i + 1 # 0
    BY <1>2 DEF Loops
  <2>2. next \in Loops(A) /\ next.pc = "retx"
    BY <1>1, <1>2, <2>1 DEF Loops
  <2>. HIDE DEF next
  <2>. QED  BY <1>0, <2>2 DEF Loops, Window
<1>. HIDE DEF next
<1>5. CASE out' = [out EXCEPT !.res = "panic"] /\ UNCHANGED <<ex, live, task>>
  <2>1. out' \in Outs(B) /\ out'.res = "panic"
    BY <1>3, <1>5 DEF Outs, Results
  <2>. QED  BY <1>1, <1>2, <1>5, <2>1, LoopMoves DEF GaveUp
<1>6. CASE ex' \in {next, Window(next)} /\ UNCHANGED <<live, task, out>>
  <2>1. ex' \in Loops(A) /\ ex'.pc = "retx"
    BY <1>4, <1>6
  <2>2. out'.res = "none" /\ out' \in Outs(B)
    BY <1>1, <1>3, <1>6 DEF Running
  <2>. QED  BY <1>1, <1>6, <2>1, <2>2, LoopMoves DEF GaveUp
<1>7. CASE /\ ex.i <= Len(live) /\ ex' = next /\ live' = Without(live[ex.i].id)
           /\ task' = Aborted(live[ex.i].id) /\ UNCHANGED out /\ ex.i \in DOMAIN live
  <2>1. live[ex.i].id \in DOMAIN task
    BY <1>0, <1>7 DEF Listed
  <2>2. out'.res = "none" /\ out' \in Outs(B)
    BY <1>1, <1>3, <1>7 DEF Running
  <2>. QED  BY <1>1, <1>4, <1>7, <2>1, <2>2, KillKeeps
<1>8. ~(ex.i > Len(live)) => ex.i \in DOMAIN live
  <2>1. DOMAIN live = 1 .. Len(live) /\ Len(live) \in Nat
    BY <1>0, LenProperties DEF TypesS, IsSeq
  <2>2. ex.i \in Nat
    BY <1>2 DEF Loops
  <2>3. ex.i # 0
    BY <1>1, <1>2 DEF Loops
  <2>. QED  BY <2>1, <2>2, <2>3
<1>. QED  BY <1>5, <1>6, <1>7, <1>8 DEF Retransmit, next

\* An event is taken in a window.
LEMMA ConsumeKeeps ==
    ASSUME SendInv, Consume
    PROVE  SendInv'
<1>0. TypesS /\ Listed /\ (Running /\ ~dl => Queued /\ Between) /\ dl \in BOOLEAN
  BY DEF SendInv, TypesS
<1>1. Running /\ ex.wait /\ q # << >> /\ q' = Tail(q) /\ good' = good /\ dl' = dl
  BY DEF Consume
<1>2. PICK A : ex \in Loops(A)
  BY <1>0 DEF TypesS
<1>3. PICK B : out \in Outs(B)
  BY <1>0 DEF TypesS
<1>4. 1 \in DOMAIN q /\ Head(q) = q[1] /\ IsSeq(Tail(q))
      /\ \A i \in DOMAIN Tail(q) : i + 1 \in DOMAIN q /\ Tail(q)[i] = q[i + 1]
  BY <1>0, <1>1, TailIsSeq DEF TypesS
<1>5. PICK e : e = q[1]
  OBVIOUS
<1>6. e.id \in DOMAIN task /\ (e.kind = "reply" => e.code \in Codes)
  BY <1>0, <1>4, <1>5 DEF TypesS
<1>7. CASE /\ e.kind = "reply" /\ e.code # "svc" /\ ex' = [ex EXCEPT !.wait = FALSE]
           /\ out' = [out EXCEPT !.res = e.code, !.last = e.s, !.used = Append(@, e.s)]
           /\ live' = live /\ task' = task
  <2>1. e.code \in {"ok", "toobig"}
    BY <1>6, <1>7 DEF Codes
  <2>2. PICK r, l, u : out' = [out EXCEPT !.res = r, !.last = l, !.used = u] /\ r = e.code
    BY <1>7
  <2>3. PICK C : C = B \union {l, u}
    OBVIOUS
  <2>4. out' \in Outs(C) /\ out'.res \in {"ok", "toobig"}
    BY <1>3, <2>1, <2>2, <2>3 DEF Outs, Results
  <2>5. ex' \in Loops(A)
    BY <1>2, <1>7 DEF Loops
  <2>6. IsSeq(q') /\ \A i \in DOMAIN q' : i + 1 \in DOMAIN q /\ q'[i] = q[i + 1]
    BY <1>1, <1>4
  <2>7. \A i \in DOMAIN q' : /\ q'[i].id \in DOMAIN task'
                             /\ q'[i].kind = "reply" => q'[i].code \in Codes
    BY <1>0, <1>7, <2>6 DEF TypesS
  <2>8. task' \in Seq(TaskStates) /\ IsSeq(live') /\ dl' \in BOOLEAN
    BY <1>0, <1>1, <1>7 DEF TypesS
  <2>9. TypesS'
    BY <2>4, <2>5, <2>6, <2>7, <2>8 DEF TypesS, IsSeq, Loops, Outs
  <2>10. Listed'
    BY <1>0, <1>7 DEF Listed
  <2>. QED  BY <2>4, <2>9, <2>10 DEF SendInv, Running, NoAnswerLost, TcpWaitedFor
<1>8. ASSUME ~(e.kind = "reply" /\ Accepts(e)), ex' = Again, out' = out \/ \E l :
             out' = [out EXCEPT !.svc = TRUE, !.last = l]
      PROVE  /\ \E C : ex' \in Loops(C)
             /\ \E C : out' \in Outs(C)
             /\ out'.res = "none" /\ (dl \/ ex'.wait)
  <2>1. ex' \in Loops(A) /\ (dl \/ ex'.wait)
    BY <1>0, <1>2, <1>8 DEF Again, Loops
  <2>2. CASE out' = out
    BY <1>1, <1>3, <2>1, <2>2 DEF Running
  <2>3. CASE \E l : out' = [out EXCEPT !.svc = TRUE, !.last = l]
    <3>1. PICK l : out' = [out EXCEPT !.svc = TRUE, !.last = l]
      BY <2>3
    <3>2. PICK C : C = B \union {l}
      OBVIOUS
    <3>3. out' \in Outs(C) /\ out'.res = "none"
      BY <1>1, <1>3, <3>1, <3>2 DEF Outs, Running
    <3>. QED  BY <2>1, <3>3
  <2>. QED  BY <1>8, <2>2, <2>3
<1>9. CASE /\ ~(e.kind = "reply" /\ Accepts(e)) /\ ex' = Again
           /\ out' = out \/ \E l : out' = [out EXCEPT !.svc = TRUE, !.last = l]
           /\ live' = Without(e.id) /\ task' = Aborted(e.id)
  BY <1>1, <1>5, <1>6, <1>8, <1>9, KillKeeps
<1>10. CASE /\ ~(e.kind = "reply" /\ Accepts(e)) /\ ex' = Again /\ task' = task /\ out' = out
            /\ live' = [i \in DOMAIN live |->
                          IF live[i].id = e.id THEN [live[i] EXCEPT !.est = TRUE] ELSE live[i]]
  <2>1. (\E C : ex' \in Loops(C)) /\ (\E C : out' \in Outs(C)) /\ out'.res = "none" /\ (dl \/ ex'.wait)
    BY <1>8, <1>10
  <2>2. /\ IsSeq(q') /\ (Queued => Queued')
        /\ \A i \in DOMAIN q' : /\ q'[i].id \in DOMAIN task'
                                /\ q'[i].kind = "reply" => q'[i].code \in Codes
    BY <1>0, <1>1, <1>5, <1>10, TakenFacts
  <2>3. PICK n \in Nat : DOMAIN live = 1 .. n
    BY <1>0, LenProperties DEF TypesS, IsSeq
  <2>4. DOMAIN live' = 1 .. n
    BY <1>10, <2>3
  <2>5. IsSeq(live')
    <3>1. PICK S : S = {live'[i] : i \in 1 .. n}
      OBVIOUS
    <3>2. live' = [i \in 1 .. n |-> live'[i]] /\ \A i \in 1 .. n : live'[i] \in S
      BY <1>10, <2>3, <3>1
    <3>3. live' \in Seq(S)
      BY <3>2, IsASeq
    <3>. QED  BY <3>3 DEF IsSeq
  <2>6. ASSUME NEW i \in 1 .. n
        PROVE  /\ live'[i].id = live[i].id /\ live'[i].t = live[i].t
               /\ DOMAIN live'[i] = {"id", "s", "t", "est"}
    <3>1. DOMAIN live[i] = {"id", "s", "t", "est"}
      BY <1>0, <2>3 DEF Listed
    <3>2. PICK c : c = live[i]
      OBVIOUS
    <3>3. live'[i] = c \/ live'[i] = [c EXCEPT !.est = TRUE]
      BY <1>10, <2>3, <3>2
    <3>. QED  BY <3>1, <3>2, <3>3
  <2>7. TypesS'
    BY <1>0, <1>1, <1>10, <2>1, <2>2, <2>5 DEF TypesS, IsSeq, Loops, Outs
  <2>8. Listed'
    <3>1. ASSUME NEW j \in DOMAIN task, task[j] \in Active PROVE \E i \in 1 .. n : live'[i].id = j
      BY <1>0, <2>3, <2>6, <3>1 DEF Listed
    <3>2. ASSUME NEW i \in 1 .. n
          PROVE  live[i].id \in DOMAIN task /\ (task[live[i].id] \in {"conn", "read"} => live[i].t # "udp")
      BY <1>0, <2>3 DEF Listed
    <3>3. task' = task
      BY <1>10
    <3>. QED  BY <2>4, <2>6, <3>1, <3>2, <3>3 DEF Listed
  <2>9. ~dl' => Queued' /\ Between'
    BY <1>0, <1>1, <2>1, <2>2 DEF Between
  <2>. QED  BY <2>1, <2>7, <2>8, <2>9 DEF SendInv, NoAnswerLost, TcpWaitedFor
<1>. QED  BY <1>4, <1>5, <1>7, <1>9, <1>10 DEF Consume, Accepts

\* The exchange a list of servers starts.
LEMMA ExchangeIsLoop ==
    ASSUME NEW b \in BOOLEAN
    PROVE  (\E A : Exchange(b) \in Loops(A)) /\ Exchange(b).pc = "ready"
<1>1. PICK r, d : Exchange(b) = [noUdp |-> b, pc |-> "ready", wait |-> FALSE, pass |-> 1,
                                 i |-> 0, n |-> 0, ready |-> r, deferred |-> d]
  BY DEF Exchange
<1>2. Exchange(b) \in Loops({r, d}) /\ Exchange(b).pc = "ready"
  BY <1>1 DEF Loops, Pcs
<1>. QED  BY <1>2

\* A fresh exchange has nothing queued and no connection.
LEMMA FreshHolds ==
    ASSUME live = << >>, q = << >>, task = << >>, good = {}, dl = FALSE,
           \E A : ex \in Loops(A), ex.pc = "ready",
           \E A : out \in Outs(A), out.res \in {"none", "unknown"}
    PROVE  SendInv
<1>1. DOMAIN live = {} /\ DOMAIN q = {} /\ DOMAIN task = {} /\ IsSeq(live) /\ IsSeq(q)
  BY EmptyIsSeq
<1>2. task \in Seq(TaskStates)
  OBVIOUS
<1>3. TypesS
  BY <1>1, <1>2 DEF TypesS
<1>4. Listed
  BY <1>1 DEF Listed
<1>5. Queued /\ Between
  BY DEF Queued, Between
<1>. QED  BY <1>3, <1>4, <1>5 DEF SendInv, NoAnswerLost, TcpWaitedFor

LEMMA InitHolds == Init => SendInv
<1>. SUFFICES ASSUME Init PROVE SendInv
  OBVIOUS
<1>1. PICK r \in {"none", "unknown"} :
        out = [res |-> r, svc |-> FALSE, last |-> 0, used |-> << >>]
  BY DEF Init
<1>2. out \in Outs({0, << >>}) /\ out.res = r
  BY <1>1 DEF Outs, Results
<1>3. (\E A : ex \in Loops(A)) /\ ex.pc = "ready"
  BY ExchangeIsLoop DEF Init
<1>. QED  BY <1>1, <1>2, <1>3, FreshHolds DEF Init

LEMMA TcpOnlyKeeps ==
    ASSUME SendInv, TcpOnly
    PROVE  SendInv'
<1>1. PICK B : out \in Outs(B)
  BY DEF SendInv, TypesS
<1>2. PICK r \in {"none", "unknown"} : out' = [out EXCEPT !.res = r, !.svc = FALSE, !.last = 0]
  BY DEF TcpOnly
<1>3. PICK C : C = B \union {0}
  OBVIOUS
<1>4. out' \in Outs(C) /\ out'.res = r
  BY <1>1, <1>2, <1>3 DEF Outs, Results
<1>5. (\E A : ex' \in Loops(A)) /\ ex'.pc = "ready"
  BY ExchangeIsLoop DEF TcpOnly
<1>6. DOMAIN live' = {} /\ DOMAIN q' = {} /\ DOMAIN task' = {} /\ IsSeq(live') /\ IsSeq(q')
  BY EmptyIsSeq DEF TcpOnly
<1>7. task' \in Seq(TaskStates) /\ good' = {} /\ dl' = FALSE
  BY DEF TcpOnly
<1>8. TypesS'
  BY <1>4, <1>5, <1>6, <1>7 DEF TypesS, IsSeq, Loops, Outs
<1>9. Listed'
  BY <1>6 DEF Listed
<1>10. Queued' /\ Between'
  BY <1>5, <1>7 DEF Queued, Between
<1>. QED  BY <1>4, <1>7, <1>8, <1>9, <1>10 DEF SendInv, NoAnswerLost, TcpWaitedFor

LEMMA StepHolds == SendInv /\ [Next]_vars => SendInv'
<1>. SUFFICES ASSUME SendInv, [Next]_vars PROVE SendInv'
  OBVIOUS
<1>1. CASE Loop
  BY <1>1, ContactKeeps, RetransmitKeeps, StepKeeps, ConsumeKeeps, TcpOnlyKeeps DEF Loop
<1>2. CASE Network
  BY <1>2, NetworkKeeps
<1>3. CASE Deadline
  BY <1>3 DEF Deadline, SendInv, TypesS, IsSeq, Loops, Outs, Listed, NoAnswerLost, TcpWaitedFor
<1>4. CASE UNCHANGED vars
  BY <1>4 DEF vars, SendInv, TypesS, IsSeq, Loops, Outs, Listed, Running, Queued, Between, AnyTcp,
              Accepts, NoAnswerLost, TcpWaitedFor
<1>. QED  BY <1>1, <1>2, <1>3, <1>4 DEF Next

LEMMA InvHolds == Spec => []SendInv
<1>. QED  BY InitHolds, StepHolds, PTL DEF Spec

-----------------------------------------------------------------------------
(* The theorems                                                            *)

\* For every list of servers, number of passes and order of events: an
\* exchange reported as unreachable or unavailable before its deadline got no
\* acceptable reply in time, not even on a connection killed by a failed
\* retransmission (wait_window, kill, run).
THEOREM AnswersKept == Spec => []NoAnswerLost
<1>1. SendInv => NoAnswerLost
  BY DEF SendInv
<1>. QED  BY <1>1, InvHolds, PTL

\* Without a deadline, an exchange never gives up while a server that has
\* taken the request over TCP may still answer (any_tcp_connections).
THEOREM TcpAwaited == Spec => []TcpWaitedFor
<1>1. SendInv => TcpWaitedFor
  BY DEF SendInv
<1>. QED  BY <1>1, InvHolds, PTL

-----------------------------------------------------------------------------
(* Cache collections                                                       *)

IsCall(c) ==
  c = [do |-> c.do, at |-> c.at, name |-> c.name, keys |-> c.keys, out |-> c.out, cred |-> c.cred, server |-> c.server]
IsRing(r) == r = [name |-> r.name, princ |-> r.princ, offset |-> r.offset, creds |-> r.creds, timeout |-> r.timeout]

CShapes ==
  /\ call = [p \in CProcs |-> call[p]] /\ answer = [p \in CProcs |-> answer[p]]
  /\ \A p \in CProcs : IsCall(call[p])
  /\ cfaults \in Nat

\* A cache keeps its name, and the caches of a collection are found by theirs.
RingsOK ==
  /\ ring = [i \in 1..MaxSerial |-> ring[i]]
  /\ \A i \in 1..MaxSerial : IsRing(ring[i])
  /\ serial \in 0..MaxSerial
  /\ named \in [CNames -> 0..serial]
  /\ \A n \in CNames : named[n] # 0 => ring[named[n]].name = n

\* A request to the daemon that fills a cache is about a name.
NamesOK ==
  ccfg.kind = "kcm" =>
    /\ handle = [p \in CProcs |-> handle[p]]
    /\ primary \in CNames \cup {None}
    /\ \A p \in CProcs :
         /\ handle[p] = NoHandle \/ handle[p].name \in CNames
         /\ call[p].at \in {"INITIALIZE", "REPLACE"} => handle[p].name \in CNames

Early == {"primary", "adopt", "keys", "GET_CACHE_UUID_LIST"}
Middle == {"first", "GET_DEFAULT_CACHE", "EXISTS"}
Late == {"each", "GET_CACHE_BY_UUID"}

Distinct(K) == \A i, j \in K : ring[i].name = ring[j].name => i = j

\* A listing under way: the caches it has still to name have names of their own
\* that it has not listed, and whatever has been there from its beginning is
\* listed or will be.
Listing(c, st, f) ==
  /\ c.at \in Early \cup Middle \cup Late
  /\ st \subseteq Linked
  /\ c.at \in Early \cup Middle => c.out = << >>
  /\ c.at \notin Early => c.keys \subseteq 1..serial /\ Distinct(c.keys)
  /\ c.at \in Middle => st \subseteq c.keys
  /\ c.at \in Late =>
       /\ c.out \in Seq(Range(c.out)) /\ IsInjective(c.out)
       /\ \A i \in c.keys : ring[i].name \in Range(c.out) => ring[i].name = c.name
       /\ f = 0 => \A i \in st : \/ i \in c.keys /\ ring[i].name # c.name
                                 \/ ring[i].name \in Range(c.out)

ListOK(p) == call[p].do = "list" => Listing(call[p], stayed[p], cfaults)

AnswerOK(p) ==
  call[p].do # "list" /\ answer[p].of = "list" /\ answer[p].ok =>
    /\ IsInjective(answer[p].out)
    /\ stayed[p] \subseteq 1..serial
    /\ cfaults = 0 => \A i \in stayed[p] : ring[i].name \in Range(answer[p].out)

CInv == CShapes /\ RingsOK /\ NamesOK /\ \A p \in CProcs : ListOK(p) /\ AnswerOK(p)

\* What every step leaves of the caches there are.
Grown == serial \in 0..serial' /\ \A i \in 1..serial : ring'[i].name = ring[i].name

LEMMA NamedIs ==
  ASSUME RingsOK, NEW n \in CNames, named[n] # 0
  PROVE  named[n] \in 1..serial /\ ring[named[n]].name = n
<1>1. serial \in Nat /\ named[n] \in 0..serial /\ ring[named[n]].name = n
  <2>1. serial \in Nat
    BY CollectionAssumption DEF RingsOK
  <2>2. named \in [CNames -> 0..serial] /\ ring[named[n]].name = n
    BY DEF RingsOK
  <2> QED BY <2>1, <2>2
<1> QED BY <1>1

LEMMA LinkedIs ==
  ASSUME RingsOK
  PROVE  /\ Linked \subseteq 1..serial /\ Distinct(Linked)
         /\ \A i \in Linked : ring[i].name \in CNames /\ named[ring[i].name] = i
<1>1. ASSUME NEW i \in Linked
      PROVE  i \in 1..serial /\ ring[i].name \in CNames /\ named[ring[i].name] = i
  <2>1. PICK n \in CNames : i = named[n] /\ i # 0
    BY DEF Linked
  <2>2. i \in 1..serial /\ ring[i].name = n
    BY <2>1, NamedIs
  <2> QED BY <2>1, <2>2
<1> QED BY <1>1 DEF Distinct

LEMMA RingAdded ==
  ASSUME RingsOK, NEW n, NEW r, IsRing(r), r.name = n, serial < MaxSerial, serial' = serial + 1,
         named' = [named EXCEPT ![n] = serial + 1], ring' = [ring EXCEPT ![serial + 1] = r]
  PROVE  RingsOK' /\ Grown
<1>1. serial \in Nat /\ MaxSerial \in Nat /\ serial + 1 \in 1..MaxSerial
  BY CollectionAssumption DEF RingsOK
<1>2. /\ ring' = [i \in 1..MaxSerial |-> ring'[i]]
      /\ \A i \in 1..MaxSerial : ring'[i] = IF i = serial + 1 THEN r ELSE ring[i]
  BY <1>1 DEF RingsOK
<1>3. \A i \in 1..MaxSerial : IsRing(ring'[i])
  BY <1>2 DEF RingsOK
<1>4. /\ named' \in [CNames -> 0..serial']
      /\ \A m \in CNames : named'[m] = IF m = n THEN serial + 1 ELSE named[m]
  <2>1. named \in [CNames -> 0..serial] /\ 0..serial \subseteq 0..serial' /\ serial + 1 \in 0..serial'
    BY <1>1 DEF RingsOK
  <2> QED BY <2>1
<1>5. Grown
  BY <1>1, <1>2 DEF Grown
<1>6. ASSUME NEW m \in CNames, named'[m] # 0
      PROVE  ring'[named'[m]].name = m
  <2>1. CASE m = n
    BY <1>1, <1>2, <1>4, <2>1
  <2>2. CASE m # n
    <3>1. named'[m] = named[m] /\ named[m] \in 1..serial /\ ring[named[m]].name = m
      BY <1>1, <1>4, <1>6, <2>2, NamedIs
    <3> QED BY <1>5, <3>1 DEF Grown
  <2> QED BY <2>1, <2>2
<1> QED BY <1>1, <1>2, <1>3, <1>4, <1>5, <1>6 DEF RingsOK, IsRing

LEMMA RingEdited ==
  ASSUME RingsOK, NEW i, NEW r, ring' = [ring EXCEPT ![i] = r],
         i \in 1..MaxSerial => IsRing(r) /\ r.name = ring[i].name,
         named' \in [CNames -> 0..serial], \A n \in CNames : named'[n] \in {0, named[n]},
         serial' \in serial..MaxSerial
  PROVE  RingsOK' /\ Grown
<1>1. serial \in Nat /\ MaxSerial \in Nat /\ serial' \in Nat /\ serial <= serial'
  BY CollectionAssumption DEF RingsOK
<1>2. /\ ring' = [j \in 1..MaxSerial |-> ring'[j]]
      /\ \A j \in 1..MaxSerial : ring'[j] = IF j = i THEN r ELSE ring[j]
  BY <1>1 DEF RingsOK
<1>3. \A j \in 1..MaxSerial : IsRing(ring'[j]) /\ ring'[j].name = ring[j].name
  BY <1>2 DEF RingsOK
<1>4. named' \in [CNames -> 0..serial']
  BY <1>1
<1>5. Grown
  BY <1>1, <1>3 DEF Grown, RingsOK
<1>6. ASSUME NEW m \in CNames, named'[m] # 0
      PROVE  ring'[named'[m]].name = m
  <2>1. named'[m] = named[m] /\ named[m] # 0
    BY <1>6
  <2>2. named[m] \in 1..serial /\ ring[named[m]].name = m
    BY <2>1, NamedIs
  <2> QED BY <1>5, <2>1, <2>2 DEF Grown
<1> QED BY <1>1, <1>2, <1>3, <1>4, <1>5, <1>6 DEF RingsOK, IsRing

LEMMA RingsSame ==
  ASSUME RingsOK, UNCHANGED <<ring, serial>>, named' \in [CNames -> 0..serial],
         \A n \in CNames : named'[n] \in {0, named[n]}
  PROVE  RingsOK' /\ Grown
<1>1. serial \in Nat /\ serial \in 0..serial'
  BY DEF RingsOK
<1> QED BY <1>1 DEF RingsOK, Grown, IsRing

LEMMA RingsKept ==
  ASSUME RingsOK, UNCHANGED <<named, ring, serial>>
  PROVE  RingsOK' /\ Grown
<1>1. named' \in [CNames -> 0..serial] /\ \A n \in CNames : named'[n] \in {0, named[n]}
  BY DEF RingsOK
<1> QED BY <1>1, RingsSame

\* A step of a call: it goes on, or returns.
Goes(p) ==
  \/ \E c : /\ With(p, c) /\ IsCall(c) /\ c.do = call[p].do
            /\ c.at \in {"INITIALIZE", "REPLACE"} => call[p].at \in {"INITIALIZE", "REPLACE"}
            /\ answer' = answer
  \/ \E ok, got : Return(p, ok, got)

LEMMA WithGoes ==
  ASSUME NEW p, NEW c, With(p, c), IsCall(c), c.do = call[p].do, answer' = answer,
         c.at \in {"INITIALIZE", "REPLACE"} => call[p].at \in {"INITIALIZE", "REPLACE"}
  PROVE  Goes(p)
BY DEF Goes

LEMMA ReturnGoes ==
  ASSUME NEW p, NEW ok, NEW got, Return(p, ok, got)
  PROVE  Goes(p)
BY Zenon DEF Goes

LEMMA FailGoes ==
  ASSUME NEW p, Fail(p)
  PROVE  Goes(p)
BY ReturnGoes DEF Fail

\* The edits of a call.
Edited(o, c, at, x, y) ==
  \/ c = [o EXCEPT !.at = at] \/ c = [o EXCEPT !.at = at, !.name = x] \/ c = [o EXCEPT !.at = at, !.keys = x]
  \/ c = [o EXCEPT !.at = at, !.cred = x] \/ c = [o EXCEPT !.at = at, !.server = x]
  \/ c = [o EXCEPT !.at = at, !.out = x] \/ c = [o EXCEPT !.at = at, !.server = x, !.keys = y]

LEMMA CallSet ==
  ASSUME NEW o, IsCall(o), NEW c, NEW at, NEW x, NEW y, Edited(o, c, at, x, y)
  PROVE  IsCall(c) /\ c.do = o.do /\ c.at = at
<1>1. CASE c = [o EXCEPT !.at = at]
  BY <1>1 DEF IsCall
<1>2. CASE c = [o EXCEPT !.at = at, !.name = x]
  BY <1>2 DEF IsCall
<1>3. CASE c = [o EXCEPT !.at = at, !.keys = x]
  BY <1>3 DEF IsCall
<1>4. CASE c = [o EXCEPT !.at = at, !.cred = x]
  BY <1>4 DEF IsCall
<1>5. CASE c = [o EXCEPT !.at = at, !.server = x]
  BY <1>5 DEF IsCall
<1>6. CASE c = [o EXCEPT !.at = at, !.server = x, !.keys = y]
  BY <1>6 DEF IsCall
<1>7. CASE c = [o EXCEPT !.at = at, !.out = x]
  BY <1>7 DEF IsCall
<1> QED BY <1>1, <1>2, <1>3, <1>4, <1>5, <1>6, <1>7 DEF Edited

LEMMA TakesGoes ==
  ASSUME CShapes, NEW p \in CProcs, NEW x, NEW y, With(p, [call[p] EXCEPT !.keys = x, !.out = y]), answer' = answer
  PROVE  Goes(p)
<1>1. PICK o : o = call[p]
  OBVIOUS
<1>2. PICK c : c = [o EXCEPT !.keys = x, !.out = y]
  OBVIOUS
<1>3. IsCall(o) /\ With(p, c)
  BY <1>1, <1>2 DEF CShapes
<1>4. IsCall(c) /\ c.do = o.do /\ c.at = o.at
  BY <1>2, <1>3 DEF IsCall
<1> QED BY <1>1, <1>3, <1>4, WithGoes

LEMMA EditGoes ==
  ASSUME CShapes, NEW p \in CProcs, NEW c, NEW at, NEW x, NEW y, With(p, c), Edited(call[p], c, at, x, y),
         answer' = answer, at \notin {"INITIALIZE", "REPLACE"} \/ call[p].at = "REPLACE"
  PROVE  Goes(p)
<1>1. PICK o : o = call[p]
  OBVIOUS
<1>2. IsCall(o)
  BY <1>1 DEF CShapes
<1>3. Edited(o, c, at, x, y)
  BY <1>1
<1>4. IsCall(c) /\ c.do = o.do /\ c.at = at
  BY <1>2, <1>3, CallSet
<1> QED BY <1>1, <1>4, WithGoes

LEMMA NameGoes ==
  ASSUME CShapes, NEW p \in CProcs, NEW at, NEW x, With(p, [call[p] EXCEPT !.at = at, !.name = x]),
         answer' = answer, at \notin {"INITIALIZE", "REPLACE"} \/ call[p].at = "REPLACE"
  PROVE  Goes(p)
<1>1. PICK c : c = [call[p] EXCEPT !.at = at, !.name = x]
  OBVIOUS
<1>2. With(p, c) /\ Edited(call[p], c, at, x, x)
  BY <1>1, Zenon DEF Edited
<1> QED BY <1>2, EditGoes

LEMMA KeysGoes ==
  ASSUME CShapes, NEW p \in CProcs, NEW at, NEW x, With(p, [call[p] EXCEPT !.at = at, !.keys = x]),
         answer' = answer, at \notin {"INITIALIZE", "REPLACE"} \/ call[p].at = "REPLACE"
  PROVE  Goes(p)
<1>1. PICK c : c = [call[p] EXCEPT !.at = at, !.keys = x]
  OBVIOUS
<1>2. With(p, c) /\ Edited(call[p], c, at, x, x)
  BY <1>1, Zenon DEF Edited
<1> QED BY <1>2, EditGoes

LEMMA CredGoes ==
  ASSUME CShapes, NEW p \in CProcs, NEW at, NEW x, With(p, [call[p] EXCEPT !.at = at, !.cred = x]),
         answer' = answer, at \notin {"INITIALIZE", "REPLACE"} \/ call[p].at = "REPLACE"
  PROVE  Goes(p)
<1>1. PICK c : c = [call[p] EXCEPT !.at = at, !.cred = x]
  OBVIOUS
<1>2. With(p, c) /\ Edited(call[p], c, at, x, x)
  BY <1>1, Zenon DEF Edited
<1> QED BY <1>2, EditGoes

LEMMA ServerGoes ==
  ASSUME CShapes, NEW p \in CProcs, NEW at, NEW x, With(p, [call[p] EXCEPT !.at = at, !.server = x]),
         answer' = answer, at \notin {"INITIALIZE", "REPLACE"} \/ call[p].at = "REPLACE"
  PROVE  Goes(p)
<1>1. PICK c : c = [call[p] EXCEPT !.at = at, !.server = x]
  OBVIOUS
<1>2. With(p, c) /\ Edited(call[p], c, at, x, x)
  BY <1>1, Zenon DEF Edited
<1> QED BY <1>2, EditGoes

LEMMA OutGoes ==
  ASSUME CShapes, NEW p \in CProcs, NEW at, NEW x, With(p, [call[p] EXCEPT !.at = at, !.out = x]),
         answer' = answer, at \notin {"INITIALIZE", "REPLACE"} \/ call[p].at = "REPLACE"
  PROVE  Goes(p)
<1>1. PICK c : c = [call[p] EXCEPT !.at = at, !.out = x]
  OBVIOUS
<1>2. With(p, c) /\ Edited(call[p], c, at, x, x)
  BY <1>1, Zenon DEF Edited
<1> QED BY <1>2, EditGoes

LEMMA StoreGoes ==
  ASSUME CShapes, NEW p \in CProcs, NEW x, NEW y, answer' = answer,
         With(p, [call[p] EXCEPT !.at = "STORE", !.server = x, !.keys = y])
  PROVE  Goes(p)
<1>1. PICK c : c = [call[p] EXCEPT !.at = "STORE", !.server = x, !.keys = y]
  OBVIOUS
<1>2. With(p, c) /\ Edited(call[p], c, "STORE", x, y)
  BY <1>1, Zenon DEF Edited
<1> QED BY <1>2, EditGoes

LEMMA ToGoes ==
  ASSUME CShapes, NEW p \in CProcs, NEW at, To(p, at), answer' = answer,
         at \notin {"INITIALIZE", "REPLACE"} \/ call[p].at = "REPLACE"
  PROVE  Goes(p)
<1>1. PICK c : c = [call[p] EXCEPT !.at = at]
  OBVIOUS
<1>2. With(p, c)
  BY <1>1 DEF To, With
<1>3. Edited(call[p], c, at, at, at)
  BY <1>1, Zenon DEF Edited
<1> QED BY <1>2, <1>3, EditGoes

LEMMA KeyringAdds ==
  ASSUME RingsOK, NEW n, AddKeyring(n)
  PROVE  RingsOK' /\ Grown
<1>1. PICK r : r = [EmptyRing EXCEPT !.name = n]
  OBVIOUS
<1>2. IsRing(r) /\ r.name = n
  BY <1>1 DEF EmptyRing, IsRing
<1> QED BY <1>1, <1>2, RingAdded DEF AddKeyring

\* An edit of one cache that leaves its name.
LEMMA RingChanges ==
  ASSUME RingsOK, NEW i, NEW r, ring' = [ring EXCEPT ![i] = r],
         i \in 1..MaxSerial => IsRing(r) /\ r.name = ring[i].name,
         named' = named, serial' = serial \/ (serial < MaxSerial /\ serial' = serial + 1)
  PROVE  RingsOK' /\ Grown
<1>1. serial \in Nat /\ MaxSerial \in Nat /\ serial <= MaxSerial
  BY CollectionAssumption DEF RingsOK
<1>2. serial' \in serial..MaxSerial
  BY <1>1
<1>3. named' \in [CNames -> 0..serial] /\ \A n \in CNames : named'[n] \in {0, named[n]}
  BY DEF RingsOK
<1> QED BY <1>2, <1>3, RingEdited

LEMMA RingCleared ==
  ASSUME RingsOK, NEW i, ClearRing(i), named' = named, serial' = serial
  PROVE  RingsOK' /\ Grown
<1>1. PICK r : r = [EmptyRing EXCEPT !.name = ring[i].name, !.timeout = ring[i].timeout]
  OBVIOUS
<1>2. IsRing(r) /\ r.name = ring[i].name
  BY <1>1 DEF EmptyRing, IsRing
<1> QED BY <1>1, <1>2, RingChanges DEF ClearRing

\* The edits of one field.
LEMMA FieldSet ==
  ASSUME RingsOK, NEW i, NEW x, named' = named, serial' = serial \/ (serial < MaxSerial /\ serial' = serial + 1),
         \/ ring' = [ring EXCEPT ![i].princ = x] \/ ring' = [ring EXCEPT ![i].offset = x]
         \/ ring' = [ring EXCEPT ![i].timeout = x] \/ ring' = [ring EXCEPT ![i].creds = x]
  PROVE  RingsOK' /\ Grown
<1>1. ASSUME NEW r, ring' = [ring EXCEPT ![i] = r],
             \/ r = [ring[i] EXCEPT !.princ = x] \/ r = [ring[i] EXCEPT !.offset = x]
             \/ r = [ring[i] EXCEPT !.timeout = x] \/ r = [ring[i] EXCEPT !.creds = x]
      PROVE  RingsOK' /\ Grown
  <2>1. i \in 1..MaxSerial => IsRing(r) /\ r.name = ring[i].name
    <3>1. i \in 1..MaxSerial => IsRing(ring[i])
      BY DEF RingsOK
    <3>2. PICK o : o = ring[i]
      OBVIOUS
    <3>3. ASSUME IsRing(o)
          PROVE  IsRing(r) /\ r.name = o.name
      BY <1>1, <3>2, <3>3 DEF IsRing
    <3> QED BY <3>1, <3>2, <3>3
  <2> QED BY <1>1, <2>1, RingChanges
<1>2. \E r : /\ ring' = [ring EXCEPT ![i] = r]
             /\ \/ r = [ring[i] EXCEPT !.princ = x] \/ r = [ring[i] EXCEPT !.offset = x]
                \/ r = [ring[i] EXCEPT !.timeout = x] \/ r = [ring[i] EXCEPT !.creds = x]
  <2>1. CASE ring' = [ring EXCEPT ![i].princ = x]
    BY <2>1
  <2>2. CASE ring' = [ring EXCEPT ![i].offset = x]
    BY <2>2
  <2>3. CASE ring' = [ring EXCEPT ![i].timeout = x]
    BY <2>3
  <2>4. CASE ring' = [ring EXCEPT ![i].creds = x]
    BY <2>4
  <2> QED BY <2>1, <2>2, <2>3, <2>4
<1> QED BY <1>1, <1>2

LEMMA CredSet ==
  ASSUME RingsOK, NEW i, NEW s, NEW x, named' = named,
         serial' = serial \/ (serial < MaxSerial /\ serial' = serial + 1), ring' = [ring EXCEPT ![i].creds[s] = x]
  PROVE  RingsOK' /\ Grown
<1>1. PICK y : y = [ring[i].creds EXCEPT ![s] = x]
  OBVIOUS
<1>2. ring' = [ring EXCEPT ![i].creds = y]
  BY <1>1
<1> QED BY <1>2, FieldSet

LEMMA PrimaryGoes ==
  ASSUME CShapes, RingsOK, NEW p \in CProcs, NEW then,
         then \in {"search", "keys"}, GetPrimaryName(p, then) \/ AdoptFirst(p, then)
  PROVE  RingsOK' /\ Grown /\ Goes(p)
<1>1. UNCHANGED <<named, ring, serial>> /\ answer' = answer
  BY DEF GetPrimaryName, AdoptFirst
<1>2. CASE GetPrimaryName(p, then)
  <2>1. With(p, [call[p] EXCEPT !.at = "adopt"]) \/ With(p, [call[p] EXCEPT !.at = then, !.name = primary])
    BY <1>2 DEF GetPrimaryName
  <2>2. With(p, [call[p] EXCEPT !.at = "adopt"]) => To(p, "adopt")
    BY DEF To, With
  <2> QED BY <1>1, <2>1, <2>2, RingsKept, NameGoes, ToGoes
<1>3. CASE AdoptFirst(p, then)
  <2>1. With(p, [call[p] EXCEPT !.at = then, !.name = CFirst])
    BY <1>3 DEF AdoptFirst
  <2> QED BY <1>1, <2>1, RingsKept, NameGoes
<1> QED BY <1>2, <1>3

LEMMA KeyringResolveGoes ==
  ASSUME CShapes, RingsOK, NEW p \in CProcs, KeyringResolve(p)
  PROVE  RingsOK' /\ Grown /\ Goes(p) /\ call[p].do # "list"
<1>1. CASE call[p].do = "resolve" /\ (GetPrimaryName(p, "search") \/ AdoptFirst(p, "search"))
  BY <1>1, PrimaryGoes
<1>2. CASE Doing(p, "resolve", "search") /\ Return(p, TRUE, << >>) /\ UNCHANGED <<primary, named, ring, serial>>
  BY <1>2, RingsKept, ReturnGoes DEF Doing
<1> QED BY <1>1, <1>2 DEF KeyringResolve

LEMMA KeyringGenNewGoes ==
  ASSUME CShapes, RingsOK, NEW p \in CProcs, KeyringGenNew(p)
  PROVE  RingsOK' /\ Grown /\ Goes(p) /\ call[p].do # "list"
<1>0. call[p].do # "list"
  BY DEF KeyringGenNew, Doing
<1>1. ASSUME NEW n, With(p, [call[p] EXCEPT !.at = "add", !.name = n]), UNCHANGED <<primary, named, ring, serial, handle, answer>>
      PROVE  RingsOK' /\ Grown /\ Goes(p)
  BY <1>1, RingsKept, NameGoes
<1>2. ASSUME Fail(p), UNCHANGED <<primary, named, ring, serial, handle>>
      PROVE  RingsOK' /\ Grown /\ Goes(p)
  BY <1>2, RingsKept, FailGoes
<1>3. ASSUME AddKeyring(call[p].name), Return(p, TRUE, << >>)
      PROVE  RingsOK' /\ Grown /\ Goes(p)
  BY <1>3, KeyringAdds, ReturnGoes
<1> QED BY <1>0, <1>1, <1>2, <1>3 DEF KeyringGenNew

LEMMA FindOrCreateGoes ==
  ASSUME CShapes, RingsOK, NEW p \in CProcs, FindOrCreate(p)
  PROVE  RingsOK' /\ Grown /\ Goes(p) /\ call[p].do # "list"
<1>0. call[p].do # "list" /\ answer' = answer
  BY DEF FindOrCreate, Doing
<1>1. To(p, "princ") \/ To(p, "create")
  BY DEF FindOrCreate
<1>2. AddKeyring(handle[p].name) \/ UNCHANGED <<named, ring, serial>>
  BY DEF FindOrCreate
<1>3. RingsOK' /\ Grown
  BY <1>2, KeyringAdds, RingsKept
<1> QED BY <1>0, <1>1, <1>3, ToGoes

LEMMA KeyringInitializeGoes ==
  ASSUME CShapes, RingsOK, NEW p \in CProcs, KeyringInitialize(p)
  PROVE  RingsOK' /\ Grown /\ Goes(p) /\ call[p].do # "list"
<1>0. CASE FindOrCreate(p)
  BY <1>0, FindOrCreateGoes
<1> SUFFICES ASSUME ~FindOrCreate(p)
             PROVE  RingsOK' /\ Grown /\ Goes(p) /\ call[p].do # "list"
  BY <1>0
<1>1. call[p].do # "list"
  BY DEF KeyringInitialize, Doing
<1>2. Goes(p)
  <2>1. \/ To(p, "princ") /\ answer' = answer
        \/ Fail(p)
        \/ To(p, "offset") /\ answer' = answer
        \/ Return(p, TRUE, << >>)
    BY DEF KeyringInitialize
  <2> QED BY <2>1, ToGoes, FailGoes, ReturnGoes
<1>3. \/ ClearRing(handle[p].id) /\ named' = named /\ serial' = serial
      \/ UNCHANGED <<named, ring, serial>>
      \/ /\ named' = named /\ serial < MaxSerial /\ serial' = serial + 1
         /\ ring' = [ring EXCEPT ![handle[p].id].princ = serial + 1]
      \/ named' = named /\ serial' = serial /\ ring' = [ring EXCEPT ![handle[p].id].offset = TRUE]
  BY DEF KeyringInitialize
<1>4. RingsOK' /\ Grown
  BY <1>3, RingCleared, RingsKept, FieldSet
<1> QED BY <1>1, <1>2, <1>4

LEMMA ReadKeysGoes ==
  ASSUME CShapes, RingsOK, NEW p \in CProcs, NEW then, then \in {"ends", "each"}, ReadKeys(p, then)
  PROVE  RingsOK' /\ Grown /\ Goes(p)
<1>1. UNCHANGED <<named, ring, serial>>
  BY DEF ReadKeys
<1>2. \/ \E ks : With(p, [call[p] EXCEPT !.at = then, !.keys = ks]) /\ answer' = answer
      \/ Return(p, TRUE, << >>)
      \/ Fail(p)
  BY DEF ReadKeys
<1>3. ASSUME NEW ks, With(p, [call[p] EXCEPT !.at = then, !.keys = ks]), answer' = answer
      PROVE  Goes(p)
  BY <1>3, KeysGoes
<1> QED BY <1>1, <1>2, <1>3, RingsKept, ReturnGoes, FailGoes

LEMMA KeyringStoreGoes ==
  ASSUME CShapes, RingsOK, NEW p \in CProcs, KeyringStore(p)
  PROVE  RingsOK' /\ Grown /\ Goes(p) /\ call[p].do # "list"
<1>0. call[p].do # "list"
  BY DEF KeyringStore, Doing
<1>1. CASE ReadKeys(p, "ends")
  BY <1>0, <1>1, ReadKeysGoes
<1>2. CASE ~ReadKeys(p, "ends")
  <2>1. \/ UNCHANGED <<named, ring, serial>>
        \/ /\ named' = named /\ serial' = serial
           /\ \E s \in CServers, e \in CEnds : ring' = [ring EXCEPT ![handle[p].id].creds[s] = e]
        \/ /\ named' = named /\ serial' = serial
           /\ \E x : ring' = [ring EXCEPT ![handle[p].id].timeout = x]
    BY <1>2 DEF KeyringStore
  <2>2. RingsOK' /\ Grown
    BY <2>1, RingsKept, CredSet, FieldSet
  <2>3. \/ To(p, "add") /\ answer' = answer
        \/ Fail(p)
        \/ To(p, "keys") /\ answer' = answer
        \/ Return(p, TRUE, << >>)
        \/ \E x : With(p, [call[p] EXCEPT !.at = "timeout", !.cred = x]) /\ answer' = answer
    BY <1>2 DEF KeyringStore
  <2>4. ASSUME NEW x, With(p, [call[p] EXCEPT !.at = "timeout", !.cred = x]), answer' = answer
        PROVE  Goes(p)
    BY <2>4, CredGoes
  <2> QED BY <1>0, <2>2, <2>3, <2>4, ToGoes, FailGoes, ReturnGoes
<1> QED BY <1>1, <1>2

LEMMA KeyringCredsGoes ==
  ASSUME CShapes, RingsOK, NEW p \in CProcs, KeyringCreds(p)
  PROVE  RingsOK' /\ Grown /\ Goes(p) /\ call[p].do # "list"
<1>0. call[p].do # "list"
  BY DEF KeyringCreds, Doing
<1>1. CASE ReadKeys(p, "each")
  BY <1>0, <1>1, ReadKeysGoes
<1>2. CASE ~ReadKeys(p, "each")
  <2>1. UNCHANGED <<named, ring, serial>> /\ (Fail(p) \/ \E got : Return(p, TRUE, got))
    BY <1>2 DEF KeyringCreds
  <2> QED BY <1>0, <2>1, RingsKept, FailGoes, ReturnGoes
<1> QED BY <1>1, <1>2

LEMMA KeyringRemoveGoes ==
  ASSUME CShapes, RingsOK, NEW p \in CProcs, KeyringRemove(p)
  PROVE  RingsOK' /\ Grown /\ Goes(p) /\ call[p].do # "list"
<1>0. call[p].do # "list"
  BY DEF KeyringRemove, Doing
<1>1. CASE ReadKeys(p, "each")
  BY <1>0, <1>1, ReadKeysGoes
<1>2. CASE ~ReadKeys(p, "each")
  <2>1. \/ UNCHANGED <<named, ring, serial>>
        \/ named' = named /\ serial' = serial /\ ring' = [ring EXCEPT ![handle[p].id].creds[call[p].server] = 0]
    BY <1>2 DEF KeyringRemove
  <2>2. RingsOK' /\ Grown
    BY <2>1, RingsKept, CredSet
  <2>3. \/ Fail(p)
        \/ \E ok : Return(p, ok, << >>)
        \/ \E s : With(p, [call[p] EXCEPT !.at = "unlink", !.server = s]) /\ answer' = answer
    BY <1>2 DEF KeyringRemove
  <2>4. ASSUME NEW s, With(p, [call[p] EXCEPT !.at = "unlink", !.server = s]), answer' = answer
        PROVE  Goes(p)
    BY <2>4, ServerGoes
  <2> QED BY <1>0, <2>2, <2>3, <2>4, FailGoes, ReturnGoes
<1> QED BY <1>1, <1>2

LEMMA KeyringDestroyGoes ==
  ASSUME CShapes, RingsOK, NEW p \in CProcs, KeyringDestroy(p)
  PROVE  RingsOK' /\ Grown /\ Goes(p) /\ call[p].do # "list"
<1>0. call[p].do # "list"
  BY DEF KeyringDestroy, Doing
<1>1. ASSUME ClearRing(handle[p].id), UNCHANGED <<named, serial>>
      PROVE  RingsOK' /\ Grown
  BY <1>1, RingCleared
<1>2. ASSUME UNCHANGED <<named, ring, serial>>
      PROVE  RingsOK' /\ Grown
  BY <1>2, RingsKept
<1>3. ASSUME UNCHANGED <<ring, serial>>,
             named' = [n \in CNames |-> IF named[n] = handle[p].id THEN 0 ELSE named[n]]
      PROVE  RingsOK' /\ Grown
  <2>1. serial \in Nat /\ named \in [CNames -> 0..serial]
    BY DEF RingsOK
  <2>2. named' \in [CNames -> 0..serial] /\ \A n \in CNames : named'[n] \in {0, named[n]}
    BY <1>3, <2>1
  <2> QED BY <1>3, <2>2, RingsSame
<1>4. RingsOK' /\ Grown
  BY <1>1, <1>2, <1>3 DEF KeyringDestroy
<1>5. \/ To(p, "unlink") /\ answer' = answer
      \/ \E ok : Return(p, ok, << >>)
  BY DEF KeyringDestroy
<1> QED BY <1>0, <1>4, <1>5, ToGoes, ReturnGoes

LEMMA KeyringSwitchGoes ==
  ASSUME CShapes, RingsOK, NEW p \in CProcs, KeyringSwitchTo(p)
  PROVE  RingsOK' /\ Grown /\ Goes(p) /\ call[p].do # "list"
BY RingsKept, ReturnGoes DEF KeyringSwitchTo, Doing

LEMMA KeyringCollectionGoes ==
  ASSUME CShapes, RingsOK, NEW p \in CProcs, KeyringCollection(p)
  PROVE  RingsOK' /\ Grown /\ Goes(p)
<1>1. CASE GetPrimaryName(p, "keys") \/ AdoptFirst(p, "keys")
  BY <1>1, PrimaryGoes
<1>2. CASE ~(GetPrimaryName(p, "keys") \/ AdoptFirst(p, "keys"))
  <2>1. UNCHANGED <<named, ring, serial>>
    BY <1>2 DEF KeyringCollection
  <2>2. \/ With(p, [call[p] EXCEPT !.at = "first", !.keys = Linked]) /\ answer' = answer
        \/ \E u : With(p, [call[p] EXCEPT !.at = "each", !.out = u]) /\ answer' = answer
        \/ \E ks, u : With(p, [call[p] EXCEPT !.keys = ks, !.out = u]) /\ answer' = answer
        \/ \E u : Return(p, TRUE, u)
    BY <1>2 DEF KeyringCollection
  <2>3. ASSUME NEW u, With(p, [call[p] EXCEPT !.at = "each", !.out = u]), answer' = answer
        PROVE  Goes(p)
    BY <2>3, OutGoes
  <2>4. ASSUME NEW ks, NEW u, With(p, [call[p] EXCEPT !.keys = ks, !.out = u]), answer' = answer
        PROVE  Goes(p)
    BY <2>4, TakesGoes
  <2>5. ASSUME With(p, [call[p] EXCEPT !.at = "first", !.keys = Linked]), answer' = answer
        PROVE  Goes(p)
    BY <2>5, KeysGoes
  <2>6. ASSUME NEW u, Return(p, TRUE, u)
        PROVE  Goes(p)
    BY <2>6, ReturnGoes
  <2>7. Goes(p)
    BY <2>2, <2>3, <2>4, <2>5, <2>6
  <2> QED BY <2>1, <2>7, RingsKept
<1> QED BY <1>1, <1>2

LEMMA KeyringGoes ==
  ASSUME CShapes, RingsOK, NEW p \in CProcs, KeyringStep(p)
  PROVE  RingsOK' /\ Grown /\ Goes(p) /\ (call[p].do = "list" => KeyringCollection(p))
BY KeyringResolveGoes, KeyringGenNewGoes, KeyringInitializeGoes, KeyringStoreGoes, KeyringCredsGoes,
   KeyringRemoveGoes, KeyringDestroyGoes, KeyringSwitchGoes, KeyringCollectionGoes DEF KeyringStep

LEMMA FilledGrows ==
  ASSUME RingsOK, NEW n \in CNames, NEW cr, Filled(n, cr)
  PROVE  RingsOK' /\ Grown
<1>1. PICK r : r = [EmptyRing EXCEPT !.name = n, !.princ = serial + 1, !.creds = cr]
  OBVIOUS
<1>2. IsRing(r) /\ r.name = n
  BY <1>1 DEF EmptyRing, IsRing
<1>3. CASE named[n] = 0
  <2>1. /\ serial < MaxSerial /\ serial' = serial + 1
        /\ named' = [named EXCEPT ![n] = serial + 1] /\ ring' = [ring EXCEPT ![serial + 1] = r]
    BY <1>1, <1>3 DEF Filled
  <2> QED BY <1>2, <2>1, RingAdded
<1>4. CASE named[n] # 0
  <2>1. PICK i : i = named[n]
    OBVIOUS
  <2>2. /\ serial < MaxSerial /\ serial' = serial + 1
        /\ named' = [named EXCEPT ![n] = i] /\ ring' = [ring EXCEPT ![i] = r]
    BY <1>1, <1>4, <2>1 DEF Filled
  <2>3. named' = named
    BY <2>1, <2>2 DEF RingsOK
  <2>4. ring[i].name = n
    BY <1>4, <2>1 DEF RingsOK
  <2> QED BY <1>2, <2>2, <2>3, <2>4, RingChanges
<1> QED BY <1>3, <1>4

\* The requests that change what the daemon holds.
Changing ==
  {"INITIALIZE", "REPLACE", "GEN_NEW", "STORE", "REMOVE_CRED", "SET_KDC_OFFSET", "DESTROY", "SET_DEFAULT_CACHE"}

LEMMA DaemonQuiet ==
  ASSUME NEW p, DaemonDoes(p), call[p].at \notin Changing
  PROVE  UNCHANGED <<primary, named, ring, serial>>
BY DEF DaemonDoes, Changing

LEMMA DaemonGrows ==
  ASSUME RingsOK, NamesOK, ccfg.kind = "kcm", NEW p \in CProcs, DaemonDoes(p)
  PROVE  RingsOK' /\ Grown /\ primary' \in CNames \cup {None}
<1>0. PICK n, i : n = handle[p].name /\ i = CacheOf(p)
  OBVIOUS
<1>1. CASE call[p].at \notin Changing \/ ~Granted(p)
  <2>1. UNCHANGED <<primary, named, ring, serial>>
    BY <1>1, DaemonQuiet DEF DaemonDoes
  <2> QED BY <2>1, RingsKept DEF NamesOK
<1> SUFFICES ASSUME call[p].at \in Changing, Granted(p)
             PROVE  RingsOK' /\ Grown /\ primary' \in CNames \cup {None}
  BY <1>1
<1>2. n \in CNames \cup {None} /\ (call[p].at \in {"INITIALIZE", "REPLACE"} => n \in CNames)
  <2>1. NoHandle.name = None
    BY DEF NoHandle
  <2> QED BY <1>0, <2>1 DEF NamesOK
<1>3. CASE call[p].at \in {"INITIALIZE", "REPLACE"}
  <2>1. PICK cr : Filled(n, cr)
    BY <1>0, <1>3 DEF DaemonDoes
  <2>2. primary' = primary
    BY <2>1 DEF Filled
  <2> QED BY <1>2, <1>3, <2>1, <2>2, FilledGrows DEF NamesOK
<1>4. CASE call[p].at = "GEN_NEW"
  <2>1. /\ primary' = primary /\ serial < MaxSerial /\ serial' = serial + 1
        /\ \E m \in CNames : /\ named' = [named EXCEPT ![m] = serial + 1]
                             /\ ring' = [ring EXCEPT ![serial + 1] = [EmptyRing EXCEPT !.name = m]]
    BY <1>4 DEF DaemonDoes
  <2>2. PICK m \in CNames : /\ named' = [named EXCEPT ![m] = serial + 1]
                            /\ ring' = [ring EXCEPT ![serial + 1] = [EmptyRing EXCEPT !.name = m]]
    BY <2>1
  <2>3. AddKeyring(m)
    BY <2>1, <2>2 DEF AddKeyring
  <2> QED BY <2>1, <2>3, KeyringAdds DEF NamesOK
<1>5. CASE call[p].at = "STORE"
  <2>1. /\ UNCHANGED <<primary, named>> /\ serial < MaxSerial /\ serial' = serial + 1
        /\ ring' = [ring EXCEPT ![i].creds[call[p].server] = serial + 1]
    BY <1>0, <1>5 DEF DaemonDoes
  <2> QED BY <2>1, CredSet DEF NamesOK
<1>6. CASE call[p].at = "REMOVE_CRED"
  <2>1. /\ UNCHANGED <<primary, named, serial>>
        /\ ring' = [ring EXCEPT ![i].creds[call[p].server] = 0]
    BY <1>0, <1>6 DEF DaemonDoes
  <2> QED BY <2>1, CredSet DEF NamesOK
<1>7. CASE call[p].at = "SET_KDC_OFFSET"
  <2>1. UNCHANGED <<primary, named, serial>> /\ ring' = [ring EXCEPT ![i].offset = TRUE]
    BY <1>0, <1>7 DEF DaemonDoes
  <2> QED BY <2>1, FieldSet DEF NamesOK
<1>8. CASE call[p].at = "DESTROY"
  <2>1. UNCHANGED <<primary, ring, serial>> /\ named' = [named EXCEPT ![n] = 0]
    BY <1>0, <1>8 DEF DaemonDoes
  <2>2. serial \in Nat /\ named \in [CNames -> 0..serial]
    BY DEF RingsOK
  <2>3. named' \in [CNames -> 0..serial] /\ \A m \in CNames : named'[m] \in {0, named[m]}
    <3>1. 0 \in 0..serial
      BY <2>2
    <3>2. named' = [m \in CNames |-> IF m = n THEN 0 ELSE named[m]]
      BY <2>1, <2>2
    <3> QED BY <2>2, <3>1, <3>2
  <2> QED BY <2>1, <2>3, RingsSame DEF NamesOK
<1>9. CASE call[p].at = "SET_DEFAULT_CACHE"
  <2>1. UNCHANGED <<named, ring, serial>> /\ primary' = n
    BY <1>0, <1>9 DEF DaemonDoes
  <2> QED BY <1>2, <2>1, RingsKept
<1> QED BY <1>3, <1>4, <1>5, <1>6, <1>7, <1>8, <1>9 DEF Changing

LEMMA StoreRestGoes ==
  ASSUME CShapes, NEW p \in CProcs, StoreRest(p)
  PROVE  Goes(p)
<1>1. \/ Return(p, TRUE, << >>)
      \/ \E s, ks : With(p, [call[p] EXCEPT !.at = "STORE", !.server = s, !.keys = ks]) /\ answer' = answer
  BY DEF StoreRest
<1>2. ASSUME NEW s, NEW ks, With(p, [call[p] EXCEPT !.at = "STORE", !.server = s, !.keys = ks]), answer' = answer
      PROVE  Goes(p)
  BY <1>2, StoreGoes
<1>3. ASSUME Return(p, TRUE, << >>)
      PROVE  Goes(p)
  BY <1>3, ReturnGoes
<1> QED BY <1>1, <1>2, <1>3

LEMMA KcmCredsGoes ==
  ASSUME CShapes, NEW p \in CProcs, KcmCreds(p)
  PROVE  Goes(p)
<1>1. \/ \E got : Return(p, TRUE, got)
      \/ To(p, "GET_CRED_UUID_LIST") /\ answer' = answer
      \/ Fail(p)
      \/ \E ks : With(p, [call[p] EXCEPT !.at = "GET_CRED_BY_UUID", !.keys = ks]) /\ answer' = answer
      \/ \E u : GotCred(p, u)
  BY DEF KcmCreds
<1>2. ASSUME NEW u, GotCred(p, u)
      PROVE  Goes(p)
  <2>1. \/ \E ks, got : With(p, [call[p] EXCEPT !.keys = ks, !.out = got]) /\ answer' = answer
        \/ Fail(p)
    BY <1>2 DEF GotCred
  <2>2. ASSUME NEW ks, NEW got, With(p, [call[p] EXCEPT !.keys = ks, !.out = got]), answer' = answer
        PROVE  Goes(p)
    BY <2>2, TakesGoes
  <2> QED BY <2>1, <2>2, FailGoes
<1>3. ASSUME NEW ks, With(p, [call[p] EXCEPT !.at = "GET_CRED_BY_UUID", !.keys = ks]), answer' = answer
      PROVE  Goes(p)
  BY <1>3, KeysGoes
<1>4. ASSUME NEW got, Return(p, TRUE, got)
      PROVE  Goes(p)
  BY <1>4, ReturnGoes
<1>5. ASSUME To(p, "GET_CRED_UUID_LIST"), answer' = answer
      PROVE  Goes(p)
  BY <1>5, ToGoes
<1> QED BY <1>1, <1>2, <1>3, <1>4, <1>5, FailGoes

LEMMA KcmCollectionGoes ==
  ASSUME CShapes, NEW p \in CProcs, KcmCollection(p)
  PROVE  Goes(p)
<1>1. \/ \E ks : With(p, [call[p] EXCEPT !.at = "GET_DEFAULT_CACHE", !.keys = ks]) /\ answer' = answer
      \/ \E n : With(p, [call[p] EXCEPT !.at = "EXISTS", !.name = n]) /\ answer' = answer
      \/ \E u : With(p, [call[p] EXCEPT !.at = "GET_CACHE_BY_UUID", !.out = u]) /\ answer' = answer
      \/ \E ks, u : With(p, [call[p] EXCEPT !.keys = ks, !.out = u]) /\ answer' = answer
      \/ \E u : Return(p, TRUE, u)
  BY DEF KcmCollection
<1>2. ASSUME NEW ks, With(p, [call[p] EXCEPT !.at = "GET_DEFAULT_CACHE", !.keys = ks]), answer' = answer
      PROVE  Goes(p)
  BY <1>2, KeysGoes
<1>3. ASSUME NEW n, With(p, [call[p] EXCEPT !.at = "EXISTS", !.name = n]), answer' = answer
      PROVE  Goes(p)
  BY <1>3, NameGoes
<1>4. ASSUME NEW u, With(p, [call[p] EXCEPT !.at = "GET_CACHE_BY_UUID", !.out = u]), answer' = answer
      PROVE  Goes(p)
  BY <1>4, OutGoes
<1>5. ASSUME NEW ks, NEW u, With(p, [call[p] EXCEPT !.keys = ks, !.out = u]), answer' = answer
      PROVE  Goes(p)
  BY <1>5, TakesGoes
<1>6. ASSUME NEW u, Return(p, TRUE, u)
      PROVE  Goes(p)
  BY <1>6, ReturnGoes
<1> QED BY <1>1, <1>2, <1>3, <1>4, <1>5, <1>6

LEMMA KcmGoes ==
  ASSUME CShapes, NEW p \in CProcs, KcmGets(p)
  PROVE  Goes(p)
<1>1. CASE KcmCreds(p) \/ KcmCollection(p)
  BY <1>1, KcmCredsGoes, KcmCollectionGoes
<1>2. CASE KcmNamed(p) \/ KcmRetrieve(p) \/ KcmRemove(p) \/ KcmManage(p)
  <2>1. (\E ok : Return(p, ok, << >>)) \/ (To(p, "GET_CRED_LIST") /\ answer' = answer)
    BY <1>2 DEF KcmNamed, KcmRetrieve, KcmRemove, KcmManage
  <2> QED BY <2>1, ReturnGoes, ToGoes
<1>3. CASE KcmReplace(p)
  <2>1. Return(p, TRUE, << >>) \/ (call[p].at = "REPLACE" /\ To(p, "INITIALIZE") /\ answer' = answer)
    BY <1>3 DEF KcmReplace
  <2> QED BY <2>1, ReturnGoes, ToGoes
<1>4. CASE KcmInitialize(p) \/ KcmStore(p)
  <2>1. StoreRest(p) \/ Fail(p) \/ (To(p, "SET_KDC_OFFSET") /\ answer' = answer)
    BY <1>4 DEF KcmInitialize, KcmStore
  <2> QED BY <2>1, StoreRestGoes, FailGoes, ToGoes
<1>5. CASE KcmSetConfig(p)
  <2>1. \/ (To(p, "GET_PRINCIPAL") \/ To(p, "STORE")) /\ answer' = answer
        \/ Return(p, TRUE, << >>) \/ Fail(p)
    BY <1>5 DEF KcmSetConfig
  <2> QED BY <2>1, ReturnGoes, FailGoes, ToGoes
<1> QED BY <1>1, <1>2, <1>3, <1>4, <1>5 DEF KcmGets

LEMMA UnansweredGoes ==
  ASSUME CShapes, NEW p \in CProcs, KcmUnanswered(p)
  PROVE  Goes(p)
<1>1. \/ (To(p, "GET_PRINCIPAL") \/ To(p, "GET_CACHE_BY_UUID")) /\ answer' = answer
      \/ StoreRest(p) \/ Fail(p)
  BY DEF KcmUnanswered
<1> QED BY <1>1, StoreRestGoes, FailGoes, ToGoes

\* The calls begun.
Starts(p) ==
  \E c : /\ call[p].do = "idle" /\ With(p, c) /\ IsCall(c) /\ c.do # "idle"
         /\ c.do = "list" => c.at \in Early /\ c.out = << >>
         /\ c.at \in {"INITIALIZE", "REPLACE"} => handle[p] # NoHandle

LEMMA BeginStarts ==
  ASSUME NEW p, NEW do, NEW at, Begin(p, do, at), do # "idle", do = "list" => at \in Early,
         at \in {"INITIALIZE", "REPLACE"} => handle[p] # NoHandle
  PROVE  Starts(p)
<1>1. PICK c : c = [Idle EXCEPT !.do = do, !.at = at]
  OBVIOUS
<1>2. IsCall(c) /\ c.do = do /\ c.at = at /\ c.out = << >>
  BY <1>1 DEF Idle, IsCall
<1>3. call[p].do = "idle" /\ With(p, c)
  BY <1>1 DEF Begin, With
<1> QED BY <1>2, <1>3 DEF Starts

LEMMA KeyringBeginStarts ==
  ASSUME NEW p, KeyringBegin(p)
  PROVE  Starts(p)
<1>1. PICK do, at : /\ Begin(p, do, at) /\ do # "idle" /\ (do = "list" => at = "primary")
                    /\ at \notin {"INITIALIZE", "REPLACE"}
  BY DEF KeyringBegin
<1> QED BY <1>1, BeginStarts DEF Early

LEMMA KcmBeginStarts ==
  ASSUME NEW p, KcmBegin(p)
  PROVE  Starts(p)
<1>1. ASSUME NEW do, NEW at, Begin(p, do, at), do # "idle", do = "list" => at = "GET_CACHE_UUID_LIST",
             at \in {"INITIALIZE", "REPLACE"} => handle[p] # NoHandle
      PROVE  Starts(p)
  BY <1>1, BeginStarts DEF Early
<1>2. ASSUME handle[p] # NoHandle, call[p].do = "idle", NEW c, With(p, c), IsCall(c),
             c.do \in {"replace", "store", "remove", "config"}
      PROVE  Starts(p)
  BY <1>2 DEF Starts
<1>3. ASSUME handle[p] # NoHandle, call[p].do = "idle",
             With(p, [Idle EXCEPT !.do = "replace", !.at = "REPLACE", !.keys = CServers])
      PROVE  Starts(p)
  <2>1. PICK c : c = [Idle EXCEPT !.do = "replace", !.at = "REPLACE", !.keys = CServers]
    OBVIOUS
  <2>2. IsCall(c) /\ c.do = "replace"
    BY <2>1 DEF Idle, IsCall
  <2> QED BY <1>2, <1>3, <2>1, <2>2
<1>4. ASSUME handle[p] # NoHandle, call[p].do = "idle", NEW s, NEW b,
             b \in {<<"store", "STORE">>, <<"remove", "REMOVE_CRED">>, <<"config", "REMOVE_CRED">>},
             With(p, [Idle EXCEPT !.do = b[1], !.at = b[2], !.server = s])
      PROVE  Starts(p)
  <2>1. PICK do, at : do = b[1] /\ at = b[2] /\ do \in {"replace", "store", "remove", "config"}
    BY <1>4
  <2>2. PICK c : c = [Idle EXCEPT !.do = do, !.at = at, !.server = s]
    OBVIOUS
  <2>3. IsCall(c) /\ c.do = do
    BY <2>2 DEF Idle, IsCall
  <2>4. With(p, c)
    BY <1>4, <2>1, <2>2
  <2> QED BY <1>2, <1>4, <2>1, <2>3, <2>4
<1>5. CASE \/ Begin(p, "resolve", "GET_DEFAULT_CACHE") \/ Begin(p, "list", "GET_CACHE_UUID_LIST")
           \/ Begin(p, "new", "GEN_NEW")
           \/ /\ handle[p] # NoHandle
              /\ \/ Begin(p, "init", "INITIALIZE") \/ Begin(p, "destroy", "DESTROY")
                 \/ Begin(p, "switch", "SET_DEFAULT_CACHE") \/ Begin(p, "creds", "GET_CRED_LIST")
                 \/ Begin(p, "retrieve", "RETRIEVE")
  BY <1>1, <1>5
<1>6. CASE /\ handle[p] # NoHandle /\ call[p].do = "idle"
           /\ \/ With(p, [Idle EXCEPT !.do = "replace", !.at = "REPLACE", !.keys = CServers])
              \/ \E s \in CServers, b \in {<<"store", "STORE">>, <<"remove", "REMOVE_CRED">>,
                                           <<"config", "REMOVE_CRED">>} :
                   With(p, [Idle EXCEPT !.do = b[1], !.at = b[2], !.server = s])
  BY <1>3, <1>4, <1>6
<1> QED BY <1>5, <1>6 DEF KcmBegin

\* What a step of a process leaves of a listing, whichever process it is.
LEMMA ListingKept ==
  ASSUME RingsOK, RingsOK', Grown, NEW c, NEW st, NEW s2, NEW f, NEW f2, Listing(c, st, f), c.at \notin Early,
         s2 \subseteq st, s2 \subseteq Linked', f2 = 0 => f = 0
  PROVE  Listing(c, s2, f2)'
<1>0. serial \in Nat /\ serial' \in Nat /\ serial <= serial'
  BY CollectionAssumption DEF RingsOK, Grown
<1>1. Linked \subseteq 1..serial
  BY LinkedIs
<1>2. \A i \in c.keys \cup st : i \in 1..serial /\ ring'[i].name = ring[i].name
  BY <1>1 DEF Listing, Grown
<1>3. c.keys \subseteq 1..serial'
  BY <1>0, <1>2
<1>4. Distinct(c.keys)'
  BY <1>2 DEF Listing, Distinct
<1>5. c.at \in Late =>
        /\ \A i \in c.keys : ring'[i].name \in Range(c.out) => ring'[i].name = c.name
        /\ f2 = 0 => \A i \in s2 : \/ i \in c.keys /\ ring'[i].name # c.name
                                  \/ ring'[i].name \in Range(c.out)
  BY <1>2 DEF Listing
<1> QED BY <1>3, <1>4, <1>5 DEF Listing

LEMMA ListingEarly ==
  ASSUME NEW c, NEW s2, NEW f2, c.at \in Early, c.out = << >>, s2 \subseteq Linked'
  PROVE  Listing(c, s2, f2)'
BY DEF Listing, Early, Middle, Late

LEMMA AnswerKept ==
  ASSUME RingsOK, RingsOK', Grown, NEW p \in CProcs, AnswerOK(p), call[p].do # "list", answer'[p] = answer[p],
         stayed'[p] = stayed[p], cfaults' = 0 => cfaults = 0
  PROVE  AnswerOK(p)'
<1>1. serial \in Nat /\ serial' \in Nat /\ serial <= serial'
  BY CollectionAssumption DEF RingsOK, Grown
<1>2. CASE answer[p].of = "list" /\ answer[p].ok
  <2>1. /\ IsInjective(answer[p].out) /\ stayed[p] \subseteq 1..serial
        /\ cfaults = 0 => \A i \in stayed[p] : ring[i].name \in Range(answer[p].out)
    BY <1>2 DEF AnswerOK
  <2>2. \A i \in stayed[p] : i \in 1..serial' /\ ring'[i].name = ring[i].name
    BY <1>1, <2>1 DEF Grown
  <2> QED BY <2>1, <2>2 DEF AnswerOK
<1>3. CASE ~(answer[p].of = "list" /\ answer[p].ok)
  BY <1>3 DEF AnswerOK
<1> QED BY <1>2, <1>3

LEMMA OthersKept ==
  ASSUME CInv, RingsOK', Grown, NEW z \in CProcs, call'[z] = call[z], answer'[z] = answer[z],
         stayed'[z] = Watched(z), cfaults' = 0 => cfaults = 0
  PROVE  ListOK(z)' /\ AnswerOK(z)'
<1>0. RingsOK /\ ListOK(z) /\ AnswerOK(z)
  BY DEF CInv
<1>1. CASE call[z].do = "list"
  <2>1. stayed'[z] = stayed[z] \cap Linked'
    BY <1>1 DEF Watched
  <2>2. PICK c, st, s2, f, f2 : c = call[z] /\ st = stayed[z] /\ s2 = stayed'[z] /\ f = cfaults /\ f2 = cfaults'
    OBVIOUS
  <2>3. Listing(c, st, f) /\ s2 \subseteq st /\ s2 \subseteq Linked'
    BY <1>0, <1>1, <2>1, <2>2 DEF ListOK
  <2>4. Listing(c, s2, f2)'
    <3>1. CASE c.at \in Early
      BY <2>3, <3>1, ListingEarly DEF Listing
    <3>2. CASE c.at \notin Early
      BY <1>0, <2>2, <2>3, <3>2, ListingKept
    <3> QED BY <3>1, <3>2
  <2>5. ListOK(z)'
    BY <2>2, <2>4 DEF ListOK, Listing
  <2> QED BY <1>1, <2>5 DEF AnswerOK
<1>2. CASE call[z].do # "list"
  <2>1. stayed'[z] = stayed[z]
    BY <1>2 DEF Watched
  <2> QED BY <1>0, <1>2, <2>1, AnswerKept DEF ListOK
<1> QED BY <1>1, <1>2

LEMMA AppendOnce ==
  ASSUME NEW s, NEW e, s \in Seq(Range(s)), IsInjective(s), e \notin Range(s)
  PROVE  /\ Append(s, e) \in Seq(Range(Append(s, e))) /\ IsInjective(Append(s, e))
         /\ Range(Append(s, e)) = Range(s) \cup {e}
<1>1. PICK S, t : S = Range(s) \cup {e} /\ t = Append(s, e)
  OBVIOUS
<1>2. s \in Seq(S) /\ e \in S
  BY <1>1
<1>3. /\ t \in Seq(S) /\ Len(s) \in Nat /\ DOMAIN s = 1..Len(s) /\ DOMAIN t = 1..(Len(s) + 1)
      /\ \A k \in 1..Len(s) : t[k] = s[k]
      /\ t[Len(s) + 1] = e
  BY <1>1, <1>2, AppendProperties
<1>4. \A k \in DOMAIN t : (k \in DOMAIN s /\ t[k] = s[k]) \/ (k = Len(s) + 1 /\ t[k] = e)
  BY <1>3
<1>5. Range(t) = S
  <2>1. \A x \in S : \E k \in DOMAIN t : t[k] = x
    BY <1>1, <1>3 DEF Range
  <2>2. \A k \in DOMAIN t : t[k] \in S
    BY <1>1, <1>4 DEF Range
  <2> QED BY <2>1, <2>2 DEF Range
<1>6. IsInjective(t)
  BY <1>4 DEF IsInjective, Range
<1> QED BY <1>1, <1>3, <1>5, <1>6

LEMMA SingleOnce ==
  ASSUME NEW e
  PROVE  /\ <<e>> \in Seq(Range(<<e>>)) /\ IsInjective(<<e>>) /\ Range(<<e>>) = {e}
         /\ << >> \in Seq(Range(<< >>)) /\ IsInjective(<< >>) /\ Range(<< >>) = {}
<1>1. Range(<<e>>) = {e} /\ Range(<< >>) = {}
  BY DEF Range
<1>2. <<e>> \in Seq({e}) /\ << >> \in Seq({})
  OBVIOUS
<1>3. IsInjective(<<e>>) /\ IsInjective(<< >>)
  BY DEF IsInjective
<1> QED BY <1>1, <1>2, <1>3

\* A listing reads the keys of the collection.
LEMMA ListingGathers ==
  ASSUME RingsOK, NEW o, NEW c, NEW st, NEW f, NEW f2, Listing(o, st, f), o.at \in Early,
         c.at \in Middle, c.out = o.out, c.keys = Linked
  PROVE  Listing(c, st, f2)
<1>1. o.out = << >> /\ st \subseteq Linked
  BY DEF Listing
<1>2. c.at \notin Late
  BY DEF Middle, Late
<1> QED BY <1>1, <1>2, LinkedIs DEF Listing

\* It asks which cache is the primary.
LEMMA ListingAsks ==
  ASSUME NEW o, NEW c, NEW st, NEW f, NEW f2, Listing(o, st, f), o.at \in Middle,
         c.at \in Middle, c.out = o.out, c.keys = o.keys
  PROVE  Listing(c, st, f2)
<1>1. c.at \notin Late /\ o.at \notin Early
  BY DEF Middle, Late, Early
<1> QED BY <1>1 DEF Listing

\* It lists the primary, when it is there.
LEMMA ListingHeads ==
  ASSUME RingsOK, NEW o, NEW c, NEW st, NEW f, NEW f2, Listing(o, st, f), o.at \in Middle,
         c.at \in Late, c.keys = o.keys, c.name = o.name, c.out \in {<< >>, <<o.name>>},
         c.out = << >> => (f2 # 0 \/ o.name \notin CNames \/ named[o.name] = 0)
  PROVE  Listing(c, st, f2)
<1>1. c.at \notin Early /\ c.at \notin Middle /\ o.at \notin Early
  BY DEF Middle, Late, Early
<1>2. st \subseteq Linked /\ st \subseteq o.keys /\ o.keys \subseteq 1..serial /\ Distinct(o.keys)
  BY <1>1 DEF Listing
<1>3. c.out \in Seq(Range(c.out)) /\ IsInjective(c.out) /\ Range(c.out) \subseteq {o.name}
  BY SingleOnce
<1>4. ASSUME f2 = 0, NEW i \in st, ring[i].name = c.name
      PROVE  ring[i].name \in Range(c.out)
  <2>1. ring[i].name \in CNames /\ named[ring[i].name] = i /\ i \in 1..serial
    BY <1>2, LinkedIs
  <2>2. i # 0
    BY <2>1
  <2>3. c.out = <<o.name>>
    BY <1>4, <2>1, <2>2
  <2> QED BY <1>4, <2>3, SingleOnce
<1> QED BY <1>1, <1>2, <1>3, <1>4 DEF Listing

\* It names the next cache, unless that is gone or is the primary.
LEMMA ListingTakes ==
  ASSUME RingsOK, NEW o, NEW c, NEW st, NEW f, Listing(o, st, f), o.at \in Late, NEW i \in o.keys,
         c.at = o.at, c.name = o.name, c.keys = o.keys \ {i},
         c.out = IF i \in Linked /\ ring[i].name # o.name THEN Append(o.out, ring[i].name) ELSE o.out
  PROVE  Listing(c, st, f)
<1>1. c.at \notin Early /\ c.at \notin Middle
  BY DEF Middle, Late, Early
<1>2. /\ st \subseteq Linked /\ o.keys \subseteq 1..serial /\ Distinct(o.keys)
      /\ o.out \in Seq(Range(o.out)) /\ IsInjective(o.out)
      /\ \A j \in o.keys : ring[j].name \in Range(o.out) => ring[j].name = o.name
      /\ f = 0 => \A j \in st : (j \in o.keys /\ ring[j].name # o.name) \/ ring[j].name \in Range(o.out)
  BY <1>1 DEF Listing
<1>3. c.keys \subseteq 1..serial /\ Distinct(c.keys)
  BY <1>2 DEF Distinct
<1>4. CASE i \in Linked /\ ring[i].name # o.name
  <2>1. ring[i].name \notin Range(o.out)
    BY <1>2, <1>4
  <2>2. /\ c.out \in Seq(Range(c.out)) /\ IsInjective(c.out)
        /\ Range(c.out) = Range(o.out) \cup {ring[i].name}
    BY <1>2, <1>4, <2>1, AppendOnce
  <2>3. \A j \in c.keys : ring[j].name # ring[i].name
    BY <1>2 DEF Distinct
  <2> QED BY <1>1, <1>2, <1>3, <2>2, <2>3 DEF Listing
<1>5. CASE ~(i \in Linked /\ ring[i].name # o.name)
  <2>1. c.out = o.out /\ \A j \in st : ring[j].name # o.name => j # i
    BY <1>2, <1>5
  <2> QED BY <1>1, <1>2, <1>3, <2>1 DEF Listing
<1> QED BY <1>4, <1>5

LEMMA ListGoes ==
  ASSUME CInv, RingsOK', Grown, NEW p \in CProcs, call[p].do = "list", stayed'[p] = Watched(p),
         NEW c, With(p, c), c.do = "list", Listing(c, stayed[p], cfaults')
  PROVE  ListOK(p)' /\ AnswerOK(p)'
<1>0. RingsOK /\ call'[p] = c
  BY DEF CInv, CShapes, With
<1>1. stayed'[p] = stayed[p] \cap Linked'
  BY DEF Watched
<1>2. PICK st, s2, f : st = stayed[p] /\ s2 = stayed'[p] /\ f = cfaults'
  OBVIOUS
<1>3. Listing(c, st, f) /\ s2 \subseteq st /\ s2 \subseteq Linked'
  BY <1>1, <1>2
<1>4. Listing(c, s2, f)'
  <2>1. CASE c.at \in Early
    BY <1>3, <2>1, ListingEarly DEF Listing
  <2>2. CASE c.at \notin Early
    BY <1>0, <1>3, <2>2, ListingKept
  <2> QED BY <2>1, <2>2
<1>5. ListOK(p)'
  BY <1>0, <1>2, <1>4 DEF ListOK, Listing
<1> QED BY <1>0, <1>5 DEF AnswerOK

LEMMA ListReturns ==
  ASSUME CInv, RingsOK', Grown, NEW p \in CProcs, call[p].do = "list", stayed'[p] = Watched(p),
         Return(p, TRUE, call[p].out), call[p].at \in Late, call[p].keys = {}, cfaults' = cfaults
  PROVE  ListOK(p)' /\ AnswerOK(p)'
<1>0. RingsOK /\ CShapes /\ Listing(call[p], stayed[p], cfaults)
  BY DEF CInv, ListOK
<1>1. call'[p] = Idle /\ answer'[p] = [of |-> "list", ok |-> TRUE, out |-> call[p].out]
  BY <1>0 DEF CShapes, Return
<1>2. stayed'[p] = stayed[p] \cap Linked'
  BY DEF Watched
<1>3. /\ stayed[p] \subseteq Linked /\ IsInjective(call[p].out)
      /\ cfaults = 0 => \A i \in stayed[p] : ring[i].name \in Range(call[p].out)
  BY <1>0 DEF Listing
<1>4. \A i \in stayed'[p] : i \in stayed[p] /\ i \in 1..serial' /\ ring'[i].name = ring[i].name
  <2>1. Linked \subseteq 1..serial
    BY <1>0, LinkedIs
  <2>2. serial \in Nat /\ serial' \in Nat /\ serial <= serial'
    BY <1>0, CollectionAssumption DEF RingsOK, Grown
  <2>3. \A i \in stayed'[p] : i \in stayed[p] /\ i \in 1..serial
    BY <1>2, <1>3, <2>1
  <2>4. \A i \in 1..serial : i \in 1..serial' /\ ring'[i].name = ring[i].name
    BY <2>2 DEF Grown
  <2> QED BY <2>3, <2>4
<1>5. AnswerOK(p)'
  BY <1>1, <1>3, <1>4 DEF AnswerOK
<1>6. Idle.do # "list"
  BY DEF Idle
<1> QED BY <1>1, <1>5, <1>6 DEF ListOK

LEMMA ListFails ==
  ASSUME CShapes, NEW p \in CProcs, Fail(p)
  PROVE  ListOK(p)' /\ AnswerOK(p)'
<1>1. call'[p] = Idle /\ answer'[p] = [of |-> call[p].do, ok |-> FALSE, out |-> << >>]
  BY DEF CShapes, Return, Fail
<1>2. Idle.do # "list"
  BY DEF Idle
<1> QED BY <1>1, <1>2 DEF ListOK, AnswerOK

LEMMA ListingBegins ==
  ASSUME NEW o, NEW c, NEW st, NEW f, NEW f2, Listing(o, st, f), o.at \in Early, c.at \in Early, c.out = o.out
  PROVE  Listing(c, st, f2)
<1>1. c.at \notin Late /\ c.at \notin Middle
  BY DEF Middle, Late, Early
<1> QED BY <1>1 DEF Listing

LEMMA KeyringListed ==
  ASSUME CInv, RingsOK', Grown, NEW p \in CProcs, call[p].do = "list", stayed'[p] = Watched(p),
         KeyringCollection(p), cfaults' = cfaults
  PROVE  ListOK(p)' /\ AnswerOK(p)'
<1>0. PICK o, st, f : o = call[p] /\ st = stayed[p] /\ f = cfaults
  OBVIOUS
<1>1. RingsOK /\ IsCall(o) /\ o.do = "list" /\ Listing(o, st, f)
  BY <1>0 DEF CInv, CShapes, ListOK
<1>2. ASSUME NEW c, With(p, c), c.do = "list", Listing(c, st, f)
      PROVE  ListOK(p)' /\ AnswerOK(p)'
  BY <1>0, <1>2, ListGoes
<1>3. CASE GetPrimaryName(p, "keys") \/ AdoptFirst(p, "keys")
  <2>1. o.at \in {"primary", "adopt"}
    BY <1>0, <1>3 DEF GetPrimaryName, AdoptFirst
  <2>2. \/ With(p, [o EXCEPT !.at = "adopt"])
        \/ \E n : With(p, [o EXCEPT !.at = "keys", !.name = n])
    BY <1>0, <1>3 DEF GetPrimaryName, AdoptFirst
  <2>3. PICK c : /\ With(p, c)
                 /\ c = [o EXCEPT !.at = "adopt"] \/ \E n : c = [o EXCEPT !.at = "keys", !.name = n]
    BY <2>2
  <2>4. c.do = o.do /\ c.at \in {"adopt", "keys"} /\ c.out = o.out
    BY <1>1, <2>3 DEF IsCall
  <2> QED BY <1>1, <1>2, <2>1, <2>3, <2>4, ListingBegins DEF Early
<1>4. CASE Doing(p, "list", "keys") /\ With(p, [o EXCEPT !.at = "first", !.keys = Linked])
  <2>1. PICK c : With(p, c) /\ c = [o EXCEPT !.at = "first", !.keys = Linked]
    BY <1>4
  <2>2. c.do = o.do /\ c.at = "first" /\ c.out = o.out /\ c.keys = Linked
    BY <1>1, <2>1 DEF IsCall
  <2>3. o.at \in Early /\ c.at \in Middle
    BY <1>0, <1>4, <2>2 DEF Doing, Early, Middle
  <2> QED BY <1>1, <1>2, <2>1, <2>2, <2>3, ListingGathers
<1>5. CASE /\ Doing(p, "list", "first")
           /\ With(p, [o EXCEPT !.at = "each", !.out = IF named[o.name] = 0 THEN o.out ELSE <<o.name>>])
  <2>1. PICK u, c : /\ u = IF named[o.name] = 0 THEN o.out ELSE <<o.name>>
                    /\ With(p, c) /\ c = [o EXCEPT !.at = "each", !.out = u]
    BY <1>5
  <2>2. c.do = o.do /\ c.at = "each" /\ c.out = u /\ c.keys = o.keys /\ c.name = o.name
    BY <1>1, <2>1 DEF IsCall
  <2>3. o.at \in Middle /\ c.at \in Late
    BY <1>0, <1>5, <2>2 DEF Doing, Late, Middle
  <2>4. o.out = << >>
    BY <1>1, <2>3 DEF Listing
  <2>5. c.out \in {<< >>, <<o.name>>} /\ (c.out = << >> => named[o.name] = 0)
    BY <2>1, <2>2, <2>4
  <2> QED BY <1>1, <1>2, <2>1, <2>2, <2>3, <2>5, ListingHeads
<1>6. ASSUME Doing(p, "list", "each"), NEW i \in o.keys,
             With(p, [o EXCEPT !.keys = o.keys \ {i},
                               !.out = IF ListsKey(o, i) THEN Append(o.out, ring[i].name) ELSE o.out])
      PROVE  ListOK(p)' /\ AnswerOK(p)'
  <2>1. PICK u, c : /\ u = IF ListsKey(o, i) THEN Append(o.out, ring[i].name) ELSE o.out
                    /\ With(p, c) /\ c = [o EXCEPT !.keys = o.keys \ {i}, !.out = u]
    BY <1>6
  <2>2. c.do = o.do /\ c.at = o.at /\ c.out = u /\ c.keys = o.keys \ {i} /\ c.name = o.name
    BY <1>1, <2>1 DEF IsCall
  <2>3. o.at \in Late
    BY <1>0, <1>6 DEF Doing, Late
  <2>4. u = IF i \in Linked /\ ring[i].name # o.name THEN Append(o.out, ring[i].name) ELSE o.out
    BY <2>1 DEF ListsKey
  <2>5. Listing(c, st, f)
    BY <1>1, <2>2, <2>3, <2>4, ListingTakes
  <2> QED BY <1>1, <1>2, <2>1, <2>2, <2>5
<1>7. CASE Doing(p, "list", "each") /\ call[p].keys = {} /\ Return(p, TRUE, call[p].out)
  <2>1. call[p].at \in Late
    BY <1>7 DEF Doing, Late
  <2> QED BY <1>7, <2>1, ListReturns
<1>8. CASE \E i \in o.keys :
             With(p, [o EXCEPT !.keys = @ \ {i}, !.out = IF ListsKey(o, i) THEN Append(@, ring[i].name) ELSE @])
             /\ Doing(p, "list", "each")
  BY <1>6, <1>8
<1> QED BY <1>0, <1>3, <1>4, <1>5, <1>7, <1>8 DEF KeyringCollection

\* Of the answers of the daemon a listing takes only those to its own requests.
LEMMA KcmLists ==
  ASSUME NEW p, KcmGets(p), call[p].do = "list", call[p].at \in Early \cup Middle \cup Late
  PROVE  KcmCollection(p)
BY DEF KcmGets, KcmNamed, KcmCreds, KcmRetrieve, KcmReplace, KcmInitialize, KcmStore, KcmRemove, KcmSetConfig,
       KcmManage, Doing, Early, Middle, Late

LEMMA KcmListed ==
  ASSUME CInv, RingsOK', Grown, NEW p \in CProcs, call[p].do = "list", stayed'[p] = Watched(p),
         KcmCollection(p), cfaults' = cfaults
  PROVE  ListOK(p)' /\ AnswerOK(p)'
<1>0. PICK o, st, f : o = call[p] /\ st = stayed[p] /\ f = cfaults
  OBVIOUS
<1>1. RingsOK /\ IsCall(o) /\ o.do = "list" /\ Listing(o, st, f)
  BY <1>0 DEF CInv, CShapes, ListOK
<1>2. ASSUME NEW c, With(p, c), c.do = "list", Listing(c, st, f)
      PROVE  ListOK(p)' /\ AnswerOK(p)'
  BY <1>0, <1>2, ListGoes
<1>3. CASE o.at = "GET_CACHE_UUID_LIST" /\ With(p, [o EXCEPT !.at = "GET_DEFAULT_CACHE", !.keys = Linked])
  <2>1. PICK c : With(p, c) /\ c = [o EXCEPT !.at = "GET_DEFAULT_CACHE", !.keys = Linked]
    BY <1>3
  <2>2. c.do = o.do /\ c.at = "GET_DEFAULT_CACHE" /\ c.out = o.out /\ c.keys = Linked
    BY <1>1, <2>1 DEF IsCall
  <2>3. o.at \in Early /\ c.at \in Middle
    BY <1>3, <2>2 DEF Early, Middle
  <2> QED BY <1>1, <1>2, <2>1, <2>2, <2>3, ListingGathers
<1>4. CASE o.at = "GET_DEFAULT_CACHE" /\ With(p, [o EXCEPT !.at = "EXISTS", !.name = DefaultCache])
  <2>1. PICK n, c : n = DefaultCache /\ With(p, c) /\ c = [o EXCEPT !.at = "EXISTS", !.name = n]
    BY <1>4
  <2>2. c.do = o.do /\ c.at = "EXISTS" /\ c.out = o.out /\ c.keys = o.keys
    BY <1>1, <2>1 DEF IsCall
  <2>3. o.at \in Middle /\ c.at \in Middle
    BY <1>4, <2>2 DEF Middle
  <2> QED BY <1>1, <1>2, <2>1, <2>2, <2>3, ListingAsks
<1>5. CASE /\ o.at = "EXISTS"
           /\ With(p, [o EXCEPT !.at = "GET_CACHE_BY_UUID", !.out = IF Exists(o.name) THEN <<o.name>> ELSE o.out])
  <2>1. PICK u, c : /\ u = IF Exists(o.name) THEN <<o.name>> ELSE o.out
                    /\ With(p, c) /\ c = [o EXCEPT !.at = "GET_CACHE_BY_UUID", !.out = u]
    BY <1>5
  <2>2. c.do = o.do /\ c.at = "GET_CACHE_BY_UUID" /\ c.out = u /\ c.keys = o.keys /\ c.name = o.name
    BY <1>1, <2>1 DEF IsCall
  <2>3. o.at \in Middle /\ c.at \in Late
    BY <1>5, <2>2 DEF Late, Middle
  <2>4. o.out = << >>
    BY <1>1, <2>3 DEF Listing
  <2>5. c.out \in {<< >>, <<o.name>>} /\ (c.out = << >> => o.name \notin CNames \/ named[o.name] = 0)
    BY <2>1, <2>2, <2>4 DEF Exists
  <2> QED BY <1>1, <1>2, <2>1, <2>2, <2>3, <2>5, ListingHeads
<1>6. ASSUME o.at = "GET_CACHE_BY_UUID", NEW i \in o.keys,
             With(p, [o EXCEPT !.keys = o.keys \ {i},
                               !.out = IF NamesCache(o, i) THEN Append(o.out, ring[i].name) ELSE o.out])
      PROVE  ListOK(p)' /\ AnswerOK(p)'
  <2>1. PICK u, c : /\ u = IF NamesCache(o, i) THEN Append(o.out, ring[i].name) ELSE o.out
                    /\ With(p, c) /\ c = [o EXCEPT !.keys = o.keys \ {i}, !.out = u]
    BY <1>6
  <2>2. c.do = o.do /\ c.at = o.at /\ c.out = u /\ c.keys = o.keys \ {i} /\ c.name = o.name
    BY <1>1, <2>1 DEF IsCall
  <2>3. o.at \in Late
    BY <1>6 DEF Late
  <2>4. u = IF i \in Linked /\ ring[i].name # o.name THEN Append(o.out, ring[i].name) ELSE o.out
    BY <2>1 DEF NamesCache
  <2>5. Listing(c, st, f)
    BY <1>1, <2>2, <2>3, <2>4, ListingTakes
  <2> QED BY <1>1, <1>2, <2>1, <2>2, <2>5
<1>7. CASE call[p].at = "GET_CACHE_BY_UUID" /\ call[p].keys = {} /\ Return(p, TRUE, call[p].out)
  <2>1. call[p].at \in Late
    BY <1>7 DEF Late
  <2> QED BY <1>7, <2>1, ListReturns
<1>8. CASE \E i \in o.keys :
             With(p, [o EXCEPT !.keys = @ \ {i}, !.out = IF NamesCache(o, i) THEN Append(@, ring[i].name) ELSE @])
             /\ o.at = "GET_CACHE_BY_UUID"
  BY <1>6, <1>8
<1> QED BY <1>0, <1>3, <1>4, <1>5, <1>7, <1>8 DEF KcmCollection, Doing

\* A listing whose question about the default cache is not answered goes on
\* without it; any other that is not answered fails.
LEMMA UnansweredListed ==
  ASSUME CInv, RingsOK', Grown, NEW p \in CProcs, call[p].do = "list", stayed'[p] = Watched(p),
         KcmUnanswered(p)
  PROVE  ListOK(p)' /\ AnswerOK(p)'
<1>0. PICK o, st, f : o = call[p] /\ st = stayed[p] /\ f = cfaults
  OBVIOUS
<1>1. RingsOK /\ CShapes /\ IsCall(o) /\ o.do = "list" /\ Listing(o, st, f)
  BY <1>0 DEF CInv, CShapes, ListOK
<1>2. PICK f2 : f2 = cfaults' /\ f2 # 0
  BY <1>1 DEF KcmUnanswered, CShapes
<1>3. CASE o.at = "EXISTS"
  <2>1. To(p, "GET_CACHE_BY_UUID")
    BY <1>0, <1>1, <1>3 DEF KcmUnanswered, Doing
  <2>2. PICK c : With(p, c) /\ c = [o EXCEPT !.at = "GET_CACHE_BY_UUID"]
    BY <1>0, <2>1 DEF To, With
  <2>3. c.do = o.do /\ c.at = "GET_CACHE_BY_UUID" /\ c.out = o.out /\ c.keys = o.keys /\ c.name = o.name
    BY <1>1, <2>2 DEF IsCall
  <2>4. o.at \in Middle /\ c.at \in Late
    BY <1>3, <2>3 DEF Late, Middle
  <2>5. o.out = << >>
    BY <1>1, <2>4 DEF Listing
  <2>6. Listing(c, st, f2)
    BY <1>1, <1>2, <2>3, <2>4, <2>5, ListingHeads
  <2> QED BY <1>0, <1>1, <1>2, <2>2, <2>3, <2>6, ListGoes
<1>4. CASE o.at # "EXISTS"
  <2>1. o.at # "SET_KDC_OFFSET"
    BY <1>1 DEF Listing, Early, Middle, Late
  <2>2. Fail(p)
    BY <1>0, <1>1, <1>4, <2>1 DEF KcmUnanswered, Doing
  <2> QED BY <1>1, <2>2, ListFails
<1> QED BY <1>3, <1>4

\* What a step of one process leaves of the calls.
LEMMA CallStep ==
  ASSUME CShapes, NEW p \in CProcs, Goes(p) \/ (Starts(p) /\ answer' = answer), cfaults' \in Nat
  PROVE  /\ CShapes'
         /\ \A z \in CProcs : z # p => call'[z] = call[z] /\ answer'[z] = answer[z]
<1>1. IsCall(Idle)
  BY DEF IsCall, Idle
<1>2. PICK c : call' = [call EXCEPT ![p] = c] /\ IsCall(c)
  BY <1>1 DEF Goes, Starts, With, Return
<1>3. \/ answer' = answer \/ \E a : answer' = [answer EXCEPT ![p] = a]
  BY DEF Goes, Return
<1>4. /\ call' = [z \in CProcs |-> call'[z]] /\ \A z \in CProcs : IsCall(call'[z])
      /\ \A z \in CProcs : z # p => call'[z] = call[z]
  <2>1. call' = [z \in CProcs |-> IF z = p THEN c ELSE call[z]]
    BY <1>2 DEF CShapes
  <2> QED BY <1>2, <2>1 DEF CShapes
<1>5. /\ answer' = [z \in CProcs |-> answer'[z]]
      /\ \A z \in CProcs : z # p => answer'[z] = answer[z]
  BY <1>3 DEF CShapes
<1>6. \A z \in CProcs : IsCall(call[z])'
  BY <1>4 DEF IsCall
<1> QED BY <1>4, <1>5, <1>6 DEF CShapes

LEMMA OwnKept ==
  ASSUME CInv, RingsOK', Grown, NEW p \in CProcs, call[p].do # "list", Goes(p), stayed'[p] = Watched(p),
         cfaults' = 0 => cfaults = 0
  PROVE  ListOK(p)' /\ AnswerOK(p)'
<1>0. CShapes /\ RingsOK /\ AnswerOK(p)
  BY DEF CInv
<1>1. CASE \E c : With(p, c) /\ c.do = call[p].do /\ answer' = answer
  <2>1. call'[p].do # "list" /\ answer'[p] = answer[p]
    BY <1>0, <1>1 DEF CShapes, With
  <2>2. stayed'[p] = stayed[p]
    BY <2>1 DEF Watched
  <2>3. AnswerOK(p)'
    BY <1>0, <2>1, <2>2, AnswerKept
  <2> QED BY <2>1, <2>3 DEF ListOK
<1>2. CASE \E ok, got : Return(p, ok, got)
  <2>1. call'[p] = Idle /\ answer'[p].of = call[p].do
    BY <1>0, <1>2 DEF CShapes, Return
  <2>2. Idle.do # "list"
    BY DEF Idle
  <2> QED BY <2>1, <2>2 DEF ListOK, AnswerOK
<1> QED BY <1>1, <1>2 DEF Goes

LEMMA StartKept ==
  ASSUME CInv, RingsOK', Grown, NEW p \in CProcs, Starts(p), stayed'[p] = Watched(p), named' = named,
         answer' = answer, cfaults' = cfaults
  PROVE  ListOK(p)' /\ AnswerOK(p)'
<1>0. CShapes /\ RingsOK /\ AnswerOK(p)
  BY DEF CInv
<1>1. PICK c : /\ call[p].do = "idle" /\ With(p, c) /\ c.do # "idle"
               /\ c.do = "list" => c.at \in Early /\ c.out = << >>
  BY DEF Starts
<1>2. call'[p] = c
  BY <1>0, <1>1 DEF CShapes, With
<1>3. CASE c.do = "list"
  <2>1. stayed'[p] = Linked /\ Linked' = Linked
    BY <1>1, <1>2, <1>3 DEF Watched, Linked
  <2>2. PICK s2, f2 : s2 = stayed'[p] /\ f2 = cfaults'
    OBVIOUS
  <2>3. Listing(c, s2, f2)'
    BY <1>1, <1>3, <2>1, <2>2, ListingEarly
  <2>4. ListOK(p)'
    BY <1>2, <2>2, <2>3 DEF ListOK, Listing
  <2> QED BY <1>2, <1>3, <2>4 DEF AnswerOK
<1>4. CASE c.do # "list"
  <2>1. stayed'[p] = stayed[p]
    BY <1>1, <1>2, <1>4 DEF Watched
  <2>2. AnswerOK(p)'
    BY <1>0, <1>1, <2>1, AnswerKept
  <2> QED BY <1>2, <1>4, <2>2 DEF ListOK
<1> QED BY <1>3, <1>4

LEMMA StepKept ==
  ASSUME CInv, RingsOK', Grown, NamesOK', NEW p \in CProcs, Goes(p) \/ (Starts(p) /\ answer' = answer),
         cfaults' \in Nat, cfaults' = 0 => cfaults = 0, stayed' = [z \in CProcs |-> Watched(z)],
         ListOK(p)' /\ AnswerOK(p)'
  PROVE  CInv'
<1>1. CShapes' /\ \A z \in CProcs : z # p => call'[z] = call[z] /\ answer'[z] = answer[z]
  BY CallStep DEF CInv
<1>2. ASSUME NEW z \in CProcs, z # p
      PROVE  ListOK(z)' /\ AnswerOK(z)'
  BY <1>1, <1>2, OthersKept
<1> QED BY <1>1, <1>2 DEF CInv

LEMMA NamesKept ==
  ASSUME CShapes, NamesOK, NEW p \in CProcs, Goes(p) \/ (Starts(p) /\ answer' = answer), cfaults' \in Nat,
         ccfg' = ccfg, ccfg.kind = "kcm" => handle' = handle /\ primary' \in CNames \cup {None}
  PROVE  NamesOK'
<1> SUFFICES ASSUME ccfg.kind = "kcm"
             PROVE  NamesOK'
  BY DEF NamesOK
<1>1. \A z \in CProcs : z # p => call'[z] = call[z]
  BY CallStep
<1>2. call'[p].at \in {"INITIALIZE", "REPLACE"} => handle[p].name \in CNames
  <2>1. CASE \E c : /\ With(p, c)
                    /\ c.at \in {"INITIALIZE", "REPLACE"} => call[p].at \in {"INITIALIZE", "REPLACE"}
    <3>1. PICK c : /\ With(p, c)
                   /\ c.at \in {"INITIALIZE", "REPLACE"} => call[p].at \in {"INITIALIZE", "REPLACE"}
      BY <2>1
    <3>2. call'[p] = c
      BY <3>1 DEF CShapes, With
    <3> QED BY <3>1, <3>2 DEF NamesOK
  <2>2. CASE \E ok, got : Return(p, ok, got)
    <3>1. call'[p] = Idle
      BY <2>2 DEF CShapes, Return
    <3>2. Idle.at = ""
      BY DEF Idle
    <3> QED BY <3>1, <3>2
  <2>3. CASE Starts(p)
    BY <2>3 DEF CShapes, With, NamesOK, Starts
  <2> QED BY <2>1, <2>2, <2>3 DEF Goes
<1>3. \A z \in CProcs : call'[z].at \in {"INITIALIZE", "REPLACE"} => handle[z].name \in CNames
  BY <1>1, <1>2 DEF NamesOK
<1> QED BY <1>3 DEF NamesOK

\* The name the daemon gives.
LEMMA NamedKept ==
  ASSUME CShapes, RingsOK, RingsOK', NamesOK, ccfg.kind = "kcm", NEW p \in CProcs, KcmNamed(p), DaemonDoes(p),
         ccfg' = ccfg, primary' \in CNames \cup {None}
  PROVE  NamesOK'
<1>0. DefaultCache \in CNames
  BY CollectionAssumption DEF NamesOK, DefaultCache
<1>1. ASSUME call[p].at = "GEN_NEW"
      PROVE  ring'[serial'].name \in CNames
  <2>1. Granted(p)
    BY <1>1 DEF Granted
  <2>2. /\ serial < MaxSerial /\ serial' = serial + 1
        /\ \E m \in CNames : ring' = [ring EXCEPT ![serial + 1] = [EmptyRing EXCEPT !.name = m]]
    BY <1>1, <2>1 DEF DaemonDoes
  <2>3. PICK m, r : m \in CNames /\ ring' = [ring EXCEPT ![serial + 1] = r] /\ r = [EmptyRing EXCEPT !.name = m]
    BY <2>2
  <2>4. r.name = m
    BY <2>3 DEF EmptyRing
  <2>5. serial + 1 \in 1..MaxSerial
    BY <2>2, CollectionAssumption DEF RingsOK
  <2>6. ring'[serial + 1] = r
    BY <2>3, <2>5 DEF RingsOK
  <2> QED BY <2>2, <2>3, <2>4, <2>6
<1>2. PICK n \in CNames : handle' = [handle EXCEPT ![p] = [NoHandle EXCEPT !.name = n]]
  BY <1>0, <1>1 DEF KcmNamed
<1>3. PICK h : h = [NoHandle EXCEPT !.name = n]
  OBVIOUS
<1>4. h = [NoHandle EXCEPT !.name = n] /\ h.name = n
  BY <1>3 DEF NoHandle
<1>5. handle' = [z \in CProcs |-> IF z = p THEN h ELSE handle[z]]
  BY <1>2, <1>4 DEF NamesOK
<1>6. Return(p, TRUE, << >>)
  BY DEF KcmNamed
<1>7. call' = [z \in CProcs |-> IF z = p THEN Idle ELSE call[z]] /\ Idle.at = ""
  BY <1>6 DEF Return, CShapes, Idle
<1>8. \A z \in CProcs : handle'[z] = NoHandle \/ handle'[z].name \in CNames
  BY <1>4, <1>5 DEF NamesOK
<1>9. \A z \in CProcs : call'[z].at \in {"INITIALIZE", "REPLACE"} => handle'[z].name \in CNames
  BY <1>5, <1>7 DEF NamesOK
<1> QED BY <1>5, <1>8, <1>9 DEF NamesOK, NoHandle

LEMMA CInitOK == CInit => CInv
<1> SUFFICES ASSUME CInit
             PROVE  CInv
  OBVIOUS
<1>1. IsCall(Idle) /\ IsRing(EmptyRing) /\ Idle.do = "idle" /\ Idle.at = "" /\ NoAnswer.of = "idle"
  BY DEF IsCall, IsRing, Idle, EmptyRing, NoAnswer
<1>2. CShapes
  BY <1>1 DEF CInit, CShapes
<1>3. RingsOK
  <2>1. serial = 0 /\ serial \in 0..MaxSerial
    BY CollectionAssumption DEF CInit
  <2>2. named \in [CNames -> 0..serial] /\ \A n \in CNames : named[n] = 0
    BY <2>1 DEF CInit
  <2>3. ring = [i \in 1..MaxSerial |-> EmptyRing]
    BY DEF CInit
  <2> QED BY <1>1, <2>1, <2>2, <2>3 DEF RingsOK
<1>4. NamesOK
  BY <1>1 DEF CInit, NamesOK, NoHandle
<1>5. \A p \in CProcs : ListOK(p) /\ AnswerOK(p)
  BY <1>1 DEF CInit, ListOK, AnswerOK
<1> QED BY <1>2, <1>3, <1>4, <1>5 DEF CInv

LEMMA CNextOK == CInv /\ [CNext]_cVars => CInv'
<1> SUFFICES ASSUME CInv, [CNext]_cVars
             PROVE  CInv'
  OBVIOUS
<1>0. CShapes /\ RingsOK /\ NamesOK /\ cfaults \in Nat
  BY DEF CInv, CShapes
<1>1. CASE UNCHANGED cVars
  <2>1. UNCHANGED <<ccfg, primary, named, ring, serial, handle, call, answer, stayed, cfaults>>
    BY <1>1 DEF cVars
  <2>2. RingsOK' /\ Grown
    BY <1>0, <2>1, RingsKept
  <2>3. CShapes' /\ NamesOK'
    BY <1>0, <2>1 DEF CShapes, NamesOK, IsCall
  <2>4. ASSUME NEW p \in CProcs
        PROVE  ListOK(p)' /\ AnswerOK(p)'
    <3>1. ListOK(p) /\ AnswerOK(p)
      BY DEF CInv
    <3>2. AnswerOK(p)'
      BY <2>1, <3>1 DEF AnswerOK
    <3>3. ListOK(p)'
      BY <2>1, <3>1 DEF ListOK, Listing, Linked, Distinct
    <3> QED BY <3>2, <3>3
  <2> QED BY <2>2, <2>3, <2>4 DEF CInv
<1>2. CASE CNext
  <2>0. stayed' = [z \in CProcs |-> Watched(z)] /\ ccfg' = ccfg
    BY <1>2 DEF CNext
  <2>1. ASSUME NEW p \in CProcs, Starts(p), UNCHANGED <<primary, named, ring, serial, handle, conn, answer, cfaults>>
        PROVE  CInv'
    <3>1. RingsOK' /\ Grown
      BY <1>0, <2>1, RingsKept
    <3>2. NamesOK'
      <4>1. ccfg.kind = "kcm" => handle' = handle /\ primary' \in CNames \cup {None}
        BY <1>0, <2>1 DEF NamesOK
      <4> QED BY <1>0, <2>0, <2>1, <4>1, NamesKept
    <3>3. ListOK(p)' /\ AnswerOK(p)'
      BY <2>0, <2>1, <3>1, StartKept
    <3> QED BY <1>0, <2>0, <2>1, <3>1, <3>2, <3>3, StepKept
  <2>2. ASSUME NEW p \in CProcs, KeyringStep(p), ccfg.kind = "keyring", UNCHANGED <<conn, done, cfaults>>
        PROVE  CInv'
    <3>1. RingsOK' /\ Grown /\ Goes(p) /\ (call[p].do = "list" => KeyringCollection(p))
      BY <1>0, <2>2, KeyringGoes
    <3>2. NamesOK'
      BY <2>0, <2>2 DEF NamesOK
    <3>3. ListOK(p)' /\ AnswerOK(p)'
      BY <2>0, <2>2, <3>1, KeyringListed, OwnKept
    <3> QED BY <1>0, <2>0, <2>2, <3>1, <3>2, <3>3, StepKept
  <2>3. ASSUME NEW p \in CProcs, KcmCall(p), ccfg.kind = "kcm"
        PROVE  CInv'
    <3>1. DaemonDoes(p) /\ KcmGets(p) /\ cfaults' = cfaults
      BY <2>3 DEF KcmCall
    <3>2. RingsOK' /\ Grown /\ primary' \in CNames \cup {None}
      BY <1>0, <2>3, <3>1, DaemonGrows
    <3>3. Goes(p)
      BY <1>0, <3>1, KcmGoes
    <3>4. NamesOK'
      BY <1>0, <2>0, <2>3, <3>1, <3>2, <3>3, NamedKept, NamesKept DEF KcmGets
    <3>5. ListOK(p)' /\ AnswerOK(p)'
      <4>1. CASE call[p].do = "list"
        <5>1. call[p].at \in Early \cup Middle \cup Late
          BY <4>1 DEF CInv, ListOK, Listing
        <5> QED BY <2>0, <3>1, <3>2, <4>1, <5>1, KcmLists, KcmListed
      <4>2. CASE call[p].do # "list"
        BY <2>0, <3>1, <3>2, <3>3, <4>2, OwnKept
      <4> QED BY <4>1, <4>2
    <3> QED BY <1>0, <2>0, <3>1, <3>2, <3>3, <3>4, <3>5, StepKept
  <2>4. ASSUME NEW p \in CProcs, KcmUnanswered(p), ccfg.kind = "kcm"
        PROVE  CInv'
    <3>1. DaemonDoes(p) \/ UNCHANGED <<primary, named, ring, serial>>
      BY <2>4 DEF KcmUnanswered
    <3>2. RingsOK' /\ Grown /\ primary' \in CNames \cup {None}
      BY <1>0, <2>4, <3>1, DaemonGrows, RingsKept DEF NamesOK
    <3>3. Goes(p) /\ handle' = handle /\ cfaults' \in Nat /\ cfaults' # 0
      <4>1. Goes(p)
        BY <1>0, <2>4, UnansweredGoes
      <4>2. handle' = handle /\ cfaults' = cfaults + 1
        BY <2>4 DEF KcmUnanswered
      <4> QED BY <1>0, <4>1, <4>2
    <3>4. NamesOK'
      BY <1>0, <2>0, <2>4, <3>2, <3>3, NamesKept
    <3>5. ListOK(p)' /\ AnswerOK(p)'
      BY <2>0, <2>4, <3>2, <3>3, UnansweredListed, OwnKept
    <3> QED BY <2>0, <3>2, <3>3, <3>4, <3>5, StepKept
  <2>5. ASSUME NEW p \in CProcs, KcmIdleClosed(p)
        PROVE  CInv'
    <3>1. UNCHANGED <<primary, named, ring, serial, handle, call, answer, cfaults>>
      BY <2>5 DEF KcmIdleClosed
    <3>2. RingsOK' /\ Grown
      BY <1>0, <3>1, RingsKept
    <3>3. CShapes' /\ NamesOK'
      BY <1>0, <2>0, <3>1 DEF CShapes, NamesOK, IsCall
    <3>4. \A z \in CProcs : ListOK(z)' /\ AnswerOK(z)'
      BY <2>0, <3>1, <3>2, OthersKept
    <3> QED BY <3>2, <3>3, <3>4 DEF CInv
  <2> QED BY <1>2, <2>1, <2>2, <2>3, <2>4, <2>5, KeyringBeginStarts, KcmBeginStarts DEF CNext
<1> QED BY <1>1, <1>2

\* A listing of a collection of caches names no cache twice and leaves out none
\* that was there throughout, for any number of processes and caches and any
\* interleaving of their calls.
THEOREM CachesListed == CSpec => []ListedOnce
<1>1. CInv => ListedOnce
  <2> SUFFICES ASSUME CInv, NEW p \in CProcs, call[p].do = "idle", answer[p].of = "list", answer[p].ok
               PROVE  /\ IsInjective(answer[p].out)
                      /\ cfaults = 0 => {ring[i].name : i \in stayed[p]} \subseteq Range(answer[p].out)
    BY DEF ListedOnce
  <2>1. AnswerOK(p)
    BY DEF CInv
  <2> QED BY <2>1 DEF AnswerOK
<1> QED BY <1>1, CInitOK, CNextOK, PTL DEF CSpec
=============================================================================
