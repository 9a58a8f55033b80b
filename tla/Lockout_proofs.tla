---------------------------- MODULE Lockout_proofs ----------------------------
(***************************************************************************)
(* For every number of KDCs and requests and every threshold: a deleted    *)
(* name has no counters, and while one count goes on the principal locks   *)
(* after pw_max_fail wrong passwords and at most one more for each other   *)
(* request in flight.                                                      *)
(***************************************************************************)
EXTENDS Lockout, FiniteSetTheorems, SequenceTheorems, TLAPS

USE SetAssumption, PolicyAssumption, WidthAssumption, SettingAssumption

-----------------------------------------------------------------------------
(* Types                                                                   *)

State == [fail : Nat, last : Nat]
Rows == [active : BOOLEAN, at : Nat, until : Nat]
Labels == {"idle", "check", "mirrorCheck", "verify", "audit", "mirrorAudit", "apply",
           "mirrorApply"}
Requests ==
    [pc : Labels, kdc : Kdcs, stamp : Nat, unlock : Nat, good : BOOLEAN, clear : BOOLEAN,
     state : State]

Used == [admin : Nat, flips : Nat, crashes : Nat, rebuilds : Nat]

Types ==
    /\ set \in Setting
    /\ now \in Nat \ {0}
    /\ prin \in [live : BOOLEAN, unlock : Nat]
    /\ shared \in State
    /\ row \in Rows
    /\ up \in [Kdcs -> BOOLEAN]
    /\ rep \in [Kdcs -> [live : BOOLEAN, unlock : Nat, row : Rows]]
    /\ local \in [Kdcs -> State]
    /\ copy \in [Kdcs -> State \union {NoCopy}]
    /\ queue \in [Kdcs -> Seq([at : Nat, until : Nat])]
    /\ req \in [Workers -> Requests]
    /\ tried \in Nat
    /\ used \in Used

\* What a request becomes in a step of its own.
Becomes(w, r) == r \in Requests /\ req' = [req EXCEPT ![w] = r]

LEMMA IdleType == Idle \in Requests /\ Idle.pc = "idle" /\ Idle.unlock = 0 /\ ~Idle.clear
                  /\ Idle.state = NoState
<1>1. (CHOOSE k \in Kdcs : TRUE) \in Kdcs
  OBVIOUS
<1>. QED  BY <1>1 DEF Idle, Requests, Labels, State, NoState

LEMMA LocalStateType ==
    ASSUME Types, NEW k \in Kdcs
    PROVE  LocalState(k) \in State
<1>1. local[k] \in State /\ rep[k].row \in Rows
  BY DEF Types
<1>. QED  BY <1>1 DEF LocalState, State, Rows

LEMMA UpdatedType ==
    ASSUME Types, NEW w \in Workers, NEW s \in State
    PROVE  Updated(w, s) \in State
<1>1. req[w] \in Requests
  BY DEF Types
<1>2. RecordedSuccess(s, req[w].clear) \in State
  BY <1>1 DEF RecordedSuccess, State, Requests
<1>3. CountFailure(s, req[w].stamp, req[w].unlock) \in State
  BY <1>1 DEF CountFailure, State, Requests
<1>. QED  BY <1>2, <1>3 DEF Updated

-----------------------------------------------------------------------------
(* The steps of one request                                                *)

LEMMA StartBecomes ==
    ASSUME Types, NEW w \in Workers, NEW k \in Kdcs, Start(w, k)
    PROVE  \/ req' = req
           \/ \E r \in Requests :
                 /\ Becomes(w, r) /\ r.pc = "check" /\ r.kdc = k /\ r.stamp = now
                 /\ r.unlock = rep[k].unlock /\ ~r.clear /\ r.state = NoState
<1>. DEFINE r == [Idle EXCEPT !.pc = "check", !.kdc = k, !.stamp = now, !.unlock = rep[k].unlock]
<1>1. rep[k].unlock \in Nat /\ now \in Nat
  BY DEF Types
<1>2. r \in Requests /\ r.pc = "check" /\ r.kdc = k /\ r.stamp = now
      /\ r.unlock = rep[k].unlock /\ ~r.clear /\ r.state = NoState
  BY <1>1, IdleType DEF Requests, Labels
<1>. QED  BY <1>2 DEF Start, Becomes

LEMMA DoneBecomes ==
    ASSUME Types, NEW w \in Workers, Done(w)
    PROVE  Becomes(w, Idle)
BY IdleType DEF Done, Becomes

\* Only the label of a request changes.
Relabelled(w, r, label) ==
    /\ Becomes(w, r) /\ r.pc = label /\ r.kdc = req[w].kdc /\ r.stamp = req[w].stamp
    /\ r.unlock = req[w].unlock /\ r.good = req[w].good

LEMMA StepBecomes ==
    ASSUME Types, NEW w \in Workers, NEW label \in Labels, Step(w, label)
    PROVE  \E r \in Requests : /\ Relabelled(w, r, label)
                               /\ r.clear = req[w].clear /\ r.state = req[w].state
<1>. DEFINE r == [req[w] EXCEPT !.pc = label]
<1>1. req[w] \in Requests
  BY DEF Types
<1>2. r \in Requests /\ r.pc = label /\ r.kdc = req[w].kdc /\ r.stamp = req[w].stamp
      /\ r.unlock = req[w].unlock /\ r.good = req[w].good /\ r.clear = req[w].clear
      /\ r.state = req[w].state
  BY <1>1 DEF Requests
<1>3. req' = [req EXCEPT ![w] = r]
  BY DEF Step
<1>. QED  BY <1>2, <1>3 DEF Becomes, Relabelled

LEMMA ReadBecomes ==
    ASSUME Types, NEW w \in Workers, NEW label \in Labels, NEW s \in State,
           req' = [req EXCEPT ![w].pc = label, ![w].state = s]
    PROVE  \E r \in Requests : /\ Relabelled(w, r, label)
                               /\ r.clear = req[w].clear /\ r.state = s
<1>. DEFINE r == [req[w] EXCEPT !.pc = label, !.state = s]
<1>1. req[w] \in Requests
  BY DEF Types
<1>2. r \in Requests /\ r.pc = label /\ r.kdc = req[w].kdc /\ r.stamp = req[w].stamp
      /\ r.unlock = req[w].unlock /\ r.good = req[w].good /\ r.clear = req[w].clear
      /\ r.state = s
  BY <1>1 DEF Requests
<1>3. req' = [req EXCEPT ![w] = r]
  BY <1>1 DEF Types
<1>. QED  BY <1>2, <1>3 DEF Becomes, Relabelled

LEMMA VerifyBecomes ==
    ASSUME Types, NEW w \in Workers, NEW good \in BOOLEAN, Verify(w, good)
    PROVE  \E r \in Requests :
              /\ Becomes(w, r) /\ r.pc = "audit" /\ r.kdc = req[w].kdc
              /\ r.stamp = req[w].stamp /\ r.unlock = req[w].unlock
              /\ r.clear = req[w].clear /\ r.state = req[w].state
<1>. DEFINE r == [req[w] EXCEPT !.pc = "audit", !.good = good]
<1>1. req[w] \in Requests
  BY DEF Types
<1>2. r \in Requests /\ r.pc = "audit" /\ r.kdc = req[w].kdc /\ r.stamp = req[w].stamp
      /\ r.unlock = req[w].unlock /\ r.clear = req[w].clear /\ r.state = req[w].state
  BY <1>1 DEF Requests, Labels
<1>3. req' = [req EXCEPT ![w] = r]
  BY <1>1 DEF Types, Verify
<1>. QED  BY <1>2, <1>3 DEF Becomes

LEMMA AuditBecomes ==
    ASSUME Types, NEW w \in Workers, NEW s \in State, AfterAuditRead(w, s)
    PROVE  \/ Becomes(w, Idle)
           \/ /\ ~Refused(w, s)
              /\ \E r \in Requests :
                    /\ Relabelled(w, r, "apply") /\ r.state = req[w].state
                    /\ r.clear => r.good
<1>. DEFINE r == [req[w] EXCEPT !.pc = "apply", !.clear = req[w].good /\ s.fail # 0]
<1>1. req[w] \in Requests
  BY DEF Types
<1>2. r \in Requests /\ r.pc = "apply" /\ r.kdc = req[w].kdc /\ r.stamp = req[w].stamp
      /\ r.unlock = req[w].unlock /\ r.good = req[w].good /\ (r.clear => r.good)
      /\ r.state = req[w].state
  BY <1>1 DEF Requests, Labels
<1>3. CASE Done(w)
  BY <1>3, DoneBecomes
<1>4. CASE /\ ~Refused(w, s)
           /\ req' = [req EXCEPT ![w].pc = "apply", ![w].clear = req[w].good /\ s.fail # 0]
  <2>1. req' = [req EXCEPT ![w] = r]
    BY <1>1, <1>4 DEF Types
  <2>. QED  BY <1>2, <1>4, <2>1 DEF Becomes, Relabelled
<1>. QED  BY <1>3, <1>4 DEF AfterAuditRead

\* A request that becomes another one keeps the type.
LEMMA BecomesType ==
    ASSUME Types, NEW w \in Workers, NEW r, Becomes(w, r)
    PROVE  req' \in [Workers -> Requests]
BY DEF Types, Becomes

\* What check_lockout, audit_as and the mirroring do keeps the type.
LEMMA CheckType ==
    ASSUME Types, NEW w \in Workers, NEW s \in State, AfterCheck(w, s)
    PROVE  req' \in [Workers -> Requests]
<1>1. CASE Done(w)
  BY <1>1, DoneBecomes, BecomesType
<1>2. CASE Step(w, "verify")
  <2>1. PICK r \in Requests : Relabelled(w, r, "verify")
    BY <1>2, StepBecomes DEF Labels
  <2>. QED  BY <2>1, BecomesType DEF Relabelled
<1>. QED  BY <1>1, <1>2 DEF AfterCheck

LEMMA AuditType ==
    ASSUME Types, NEW w \in Workers, NEW s \in State, AfterAuditRead(w, s)
    PROVE  req' \in [Workers -> Requests]
<1>1. CASE Becomes(w, Idle)
  BY <1>1, BecomesType
<1>2. CASE \E r \in Requests : Relabelled(w, r, "apply")
  BY <1>2, BecomesType DEF Relabelled
<1>. QED  BY <1>1, <1>2, AuditBecomes

LEMMA ReadType ==
    ASSUME Types, NEW w \in Workers, NEW label \in Labels, ReadShared(w, label)
    PROVE  req' \in [Workers -> Requests]
<1>1. PICK r \in Requests : Relabelled(w, r, label)
  BY ReadBecomes DEF ReadShared, Types
<1>. QED  BY <1>1, BecomesType DEF Relabelled

\* The ghost count is a number.
LEMMA TriedType ==
    ASSUME Types, NEW w \in Workers
    PROVE  OneMore \in Nat /\ \A s : TriedAfter(w, s) \in Nat
BY DEF Types, OneMore, TriedAfter

LEMMA ReportType ==
    ASSUME Types, NEW w \in Workers, NEW s, Report(w, s)
    PROVE  queue' \in [Kdcs -> Seq([at : Nat, until : Nat])]
<1>1. req[w] \in Requests /\ set.duration \in Nat
  BY DEF Types, Setting
<1>2. ReportOf(w) \in [at : Nat, until : Nat] /\ req[w].kdc \in Kdcs
  BY <1>1 DEF ReportOf, Requests
<1>3. queue[req[w].kdc] \in Seq([at : Nat, until : Nat])
  BY <1>2 DEF Types
<1>4. Append(queue[req[w].kdc], ReportOf(w)) \in Seq([at : Nat, until : Nat])
  BY <1>2, <1>3
<1>. QED  BY <1>2, <1>4 DEF Types, Report

LEMMA RequestTypes ==
    ASSUME Types, NEW w \in Workers, Request(w)
    PROVE  Types'
<1>0. req[w] \in Requests /\ req[w].kdc \in Kdcs /\ set.kdcs \subseteq Kdcs
  BY DEF Types, Requests, Setting
<1>1. ASSUME NEW k \in set.kdcs, Start(w, k) PROVE Types'
  <2>1. req' \in [Workers -> Requests]
    BY <1>0, <1>1, StartBecomes, BecomesType DEF Types
  <2>. QED  BY <1>1, <2>1 DEF Start, Types, authority
<1>2. CASE Check(w)
  <2>1. req' \in [Workers -> Requests]
    BY <1>0, <1>2, LocalStateType, CheckType, ReadType DEF Check, Labels
  <2>. QED  BY <1>2, <2>1 DEF Check, Types, authority
<1>3. ASSUME NEW good \in BOOLEAN, Verify(w, good) PROVE Types'
  <2>1. req' \in [Workers -> Requests]
    BY <1>3, VerifyBecomes, BecomesType
  <2>. QED  BY <1>3, <2>1 DEF Verify, Types, authority
<1>4. CASE AuditRead(w)
  <2>1. req' \in [Workers -> Requests]
    BY <1>0, <1>4, LocalStateType, AuditType, ReadType DEF AuditRead, Labels
  <2>2. tried' \in Nat
    BY <1>4, TriedType DEF AuditRead, CountRefused, Types
  <2>. QED  BY <1>4, <2>1, <2>2 DEF AuditRead, Types, authority
<1>5. CASE Abandon(w)
  <2>1. req' \in [Workers -> Requests]
    BY <1>5, DoneBecomes, BecomesType DEF Abandon
  <2>. QED  BY <1>5, <2>1 DEF Abandon, Types, authority
<1>6. CASE ApplyShared(w)
  <2>1. Updated(w, shared) \in State /\ shared' \in State
    BY <1>6, UpdatedType DEF ApplyShared, Types
  <2>2. PICK r \in Requests : Relabelled(w, r, "mirrorApply")
    BY <1>6, <2>1, ReadBecomes DEF ApplyShared, Labels
  <2>3. req' \in [Workers -> Requests]
    BY <2>2, BecomesType DEF Relabelled
  <2>4. tried' \in Nat
    BY <1>6, TriedType DEF ApplyShared
  <2>. QED  BY <1>6, <2>1, <2>3, <2>4 DEF ApplyShared, Types
<1>7. CASE ApplyLocal(w)
  <2>1. local[req[w].kdc] \in State
    BY <1>0 DEF Types
  <2>2. Updated(w, local[req[w].kdc]) \in State
    BY <2>1, UpdatedType
  <2>3. local' \in [Kdcs -> State]
    BY <1>0, <1>7, <2>2 DEF ApplyLocal, Types
  <2>4. req' \in [Workers -> Requests] /\ tried' \in Nat
    BY <1>7, DoneBecomes, BecomesType, TriedType DEF ApplyLocal
  <2>5. queue' \in [Kdcs -> Seq([at : Nat, until : Nat])]
    BY <1>7, ReportType DEF ApplyLocal
  <2>. QED  BY <1>7, <2>3, <2>4, <2>5 DEF ApplyLocal, Types, authority
<1>8. CASE Mirror(w)
  <2>1. req[w].state \in State
    BY <1>0 DEF Requests
  <2>2. local' \in [Kdcs -> State]
    BY <1>0, <1>8, <2>1 DEF Mirror, Types
  <2>3. req' \in [Workers -> Requests]
    BY <1>8, <2>1, CheckType, AuditType, DoneBecomes, BecomesType DEF Mirror
  <2>4. queue' \in [Kdcs -> Seq([at : Nat, until : Nat])]
    BY <1>8, ReportType DEF Mirror, Types
  <2>. QED  BY <1>8, <2>2, <2>3, <2>4 DEF Mirror, Types, authority
<1>. QED  BY <1>1, <1>2, <1>3, <1>4, <1>5, <1>6, <1>7, <1>8 DEF Request

\* One more of a bound is used up.
LEMMA UsedMore ==
    ASSUME NEW u \in Used
    PROVE  /\ [u EXCEPT !.admin = @ + 1] \in Used
           /\ [u EXCEPT !.flips = @ + 1] \in Used
           /\ [u EXCEPT !.crashes = @ + 1] \in Used
           /\ [u EXCEPT !.rebuilds = @ + 1] \in Used
<1>1. u.admin + 1 \in Nat /\ u.flips + 1 \in Nat /\ u.crashes + 1 \in Nat /\ u.rebuilds + 1 \in Nat
  BY DEF Used
<1>2. [u EXCEPT !.admin = @ + 1] \in Used
  BY <1>1 DEF Used
<1>3. [u EXCEPT !.flips = @ + 1] \in Used
  BY <1>1 DEF Used
<1>4. [u EXCEPT !.crashes = @ + 1] \in Used
  BY <1>1 DEF Used
<1>5. [u EXCEPT !.rebuilds = @ + 1] \in Used
  BY <1>1 DEF Used
<1>. QED  BY <1>2, <1>3, <1>4, <1>5

LEMMA KdcTypes ==
    ASSUME Types, NEW k \in Kdcs, Kdc(k)
    PROVE  Types'
<1>1. CASE SendReport(k) \/ DropReport(k)
  <2>1. queue[k] \in Seq([at : Nat, until : Nat]) /\ queue[k] # <<>>
    BY <1>1 DEF SendReport, DropReport, Types
  <2>2. Head(queue[k]) \in [at : Nat, until : Nat]
        /\ Tail(queue[k]) \in Seq([at : Nat, until : Nat])
    BY <2>1, HeadTailProperties
  <2>3. row' \in Rows
    <3>1. CASE SendReport(k)
      BY <2>2, <3>1 DEF SendReport, Rows
    <3>2. CASE DropReport(k)
      BY <3>2 DEF DropReport, Types, authority
    <3>. QED  BY <1>1, <3>1, <3>2
  <2>4. queue' \in [Kdcs -> Seq([at : Nat, until : Nat])]
    BY <1>1, <2>2 DEF SendReport, DropReport, Types
  <2>. QED  BY <1>1, <2>3, <2>4 DEF SendReport, DropReport, Types, authority
<1>2. CASE Replicate(k)
  <2>1. [live |-> prin.live, unlock |-> prin.unlock, row |-> row]
           \in [live : BOOLEAN, unlock : Nat, row : Rows]
    BY DEF Types
  <2>2. rep' \in [Kdcs -> [live : BOOLEAN, unlock : Nat, row : Rows]]
    BY <1>2, <2>1 DEF Replicate, Types
  <2>. QED  BY <1>2, <2>2 DEF Replicate, Types, authority
<1>3. CASE BeginRebuildCommit(k)
  <2>1. copy' \in [Kdcs -> State \union {NoCopy}]
    BY <1>3 DEF BeginRebuildCommit, Types
  <2>2. used' \in Used
    BY <1>3, UsedMore DEF BeginRebuildCommit, Types
  <2>. QED  BY <1>3, <2>1, <2>2 DEF BeginRebuildCommit, Types, authority
<1>4. CASE EndRebuildCommit(k)
  <2>1. copy' \in [Kdcs -> State \union {NoCopy}]
    BY <1>4 DEF EndRebuildCommit, Types
  <2>2. copy[k] \in State
    BY <1>4 DEF EndRebuildCommit, Types
  <2>3. local' \in [Kdcs -> State]
    BY <1>4, <2>2 DEF EndRebuildCommit, Types
  <2>. QED  BY <1>4, <2>1, <2>3 DEF EndRebuildCommit, Types, authority
<1>5. CASE Crash(k)
  <2>1. copy' \in [Kdcs -> State \union {NoCopy}]
    BY <1>5 DEF Crash, Types
  <2>2. used' \in Used
    BY <1>5, UsedMore DEF Crash, Types
  <2>3. req' \in [Workers -> Requests]
    BY <1>5, IdleType DEF Crash, Types
  <2>4. queue' \in [Kdcs -> Seq([at : Nat, until : Nat])]
    <3>1. <<>> \in Seq([at : Nat, until : Nat])
      OBVIOUS
    <3>. QED  BY <1>5, <3>1 DEF Crash, Types
  <2>. QED  BY <1>5, <2>1, <2>2, <2>3, <2>4 DEF Crash, Types, authority
<1>6. CASE Flip(k)
  <2>1. up' \in [Kdcs -> BOOLEAN]
    BY <1>6 DEF Flip, Types
  <2>2. used' \in Used
    BY <1>6, UsedMore DEF Flip, Types
  <2>. QED  BY <1>6, <2>1, <2>2 DEF Flip, Types, authority
<1>. QED  BY <1>1, <1>2, <1>3, <1>4, <1>5, <1>6 DEF Kdc

LEMMA AdminTypes ==
    ASSUME Types, Unlock \/ Delete \/ Rename \/ Create \/ Tick
    PROVE  Types'
<1>1. CASE Tick
  BY <1>1 DEF Tick, Types, authority
<1>2. CASE Unlock \/ Delete \/ Rename \/ Create
  <2>1. used' \in Used
    BY <1>2, UsedMore DEF Unlock, Delete, Rename, Create, Administer, Types
  <2>2. prin' \in [live : BOOLEAN, unlock : Nat]
    <3>1. CASE Unlock
      BY <3>1 DEF Unlock, Types
    <3>2. CASE Delete \/ Rename \/ Create
      <4>1. prin' = [live |-> FALSE, unlock |-> 0] \/ prin' = [live |-> TRUE, unlock |-> 0]
        BY <3>2, Zenon DEF Delete, Rename, Create
      <4>2. \A b \in BOOLEAN : [live |-> b, unlock |-> 0] \in [live : BOOLEAN, unlock : Nat]
        OBVIOUS
      <4>. QED  BY <4>1, <4>2, Zenon
    <3>. QED  BY <1>2, <3>1, <3>2
  <2>3. shared' \in State
    <3>1. CASE Unlock
      BY <3>1 DEF Unlock, Types, State
    <3>2. CASE Delete \/ Rename \/ Create
      <4>1. shared' = NoState \/ shared' = shared
        BY <3>2, Zenon DEF Delete, Rename, Create
      <4>. QED  BY <4>1 DEF Types, State, NoState
    <3>. QED  BY <1>2, <3>1, <3>2
  <2>4. row' \in Rows
    BY <1>2 DEF Unlock, Delete, Rename, Create, Administer, Types, Rows
  <2>5. tried' \in Nat
    BY <1>2 DEF Unlock, Delete, Rename, Create, Types
  <2>6. UNCHANGED <<set, now, up, rep, local, copy, queue, req>>
    BY <1>2 DEF Unlock, Delete, Rename, Create, Administer
  <2>. QED  BY <2>1, <2>2, <2>3, <2>4, <2>5, <2>6 DEF Types
<1>. QED  BY <1>1, <1>2

LEMMA InitTypes ==
    ASSUME Init
    PROVE  Types
<1>1. set \in Setting
  BY DEF Init
<1>2. set.up \in BOOLEAN
  BY <1>1 DEF Setting
<1>3. NoState \in State /\ NoRow \in Rows
  BY DEF NoState, State, NoRow, Rows
<1>4. /\ now \in Nat \ {0} /\ prin \in [live : BOOLEAN, unlock : Nat] /\ tried \in Nat
      /\ used \in Used
  BY DEF Init, Used
<1>5. /\ shared \in State /\ row \in Rows /\ local \in [Kdcs -> State]
      /\ copy \in [Kdcs -> State \union {NoCopy}]
  BY <1>3 DEF Init
<1>6. rep \in [Kdcs -> [live : BOOLEAN, unlock : Nat, row : Rows]]
  BY <1>3 DEF Init
<1>7. /\ up \in [Kdcs -> BOOLEAN] /\ req \in [Workers -> Requests]
      /\ queue \in [Kdcs -> Seq([at : Nat, until : Nat])]
  BY <1>2, IdleType DEF Init
<1>. QED  BY <1>1, <1>4, <1>5, <1>6, <1>7 DEF Types

LEMMA NextTypes ==
    ASSUME Types, [Next]_vars
    PROVE  Types'
<1>0. set.workers \subseteq Workers /\ set.kdcs \subseteq Kdcs
  BY DEF Types, Setting
<1>1. CASE \E w \in set.workers : Request(w)
  BY <1>0, <1>1, RequestTypes
<1>2. CASE \E k \in set.kdcs : Kdc(k)
  BY <1>0, <1>2, KdcTypes
<1>3. CASE Unlock \/ Delete \/ Rename \/ Create \/ Tick
  BY <1>3, AdminTypes
<1>4. CASE UNCHANGED vars
  BY <1>4 DEF vars, authority, Types
<1>. QED  BY <1>1, <1>2, <1>3, <1>4 DEF Next

-----------------------------------------------------------------------------
(* One count                                                               *)

\* A state that has counted a failure knows when.
Stamped(s) == s.fail > 0 => s.last > 0

Mirrors == {"mirrorCheck", "mirrorAudit", "mirrorApply"}

ReqInv(r) ==
    /\ r.unlock = 0
    /\ r.pc # "idle" => r.stamp > 0 /\ r.kdc \in set.kdcs
    /\ r.clear => r.good /\ r.pc \in {"apply", "mirrorApply"}
    /\ ~set.up => r.pc \notin Mirrors
    /\ Stamped(r.state)

\* What does not change while one count goes on.
SteadyInv ==
    /\ prin.live /\ prin.unlock = 0
    /\ \A k \in Kdcs : /\ up[k] = set.up
                       /\ rep[k].live /\ rep[k].unlock = 0
                       /\ ~set.up => ~rep[k].row.active
                       /\ Stamped(local[k])
                       /\ copy[k] # NoCopy => copy[k] = local[k]
    /\ Stamped(shared)
    /\ \A w \in Workers : ReqInv(req[w]) /\ (w \notin set.workers => req[w].pc = "idle")

\* The failures counted so far.
KdcOf(c) == CHOOSE k \in c.kdcs : TRUE
FailsIn(c, sh, lo) == IF c.up THEN sh.fail ELSE lo[KdcOf(c)].fail
TheKdc == KdcOf(set)
Fails == FailsIn(set, shared, local)

\* A request that passed check_lockout and may still add a wrong password.
MayTry(r) ==
    \/ r.pc \in {"verify", "audit", "apply"}
    \/ r.pc \in {"mirrorCheck", "mirrorAudit"} /\ r.state.fail < MaxFail
TryingIn(q) == {w \in Workers : MayTry(q[w])}
Trying == TryingIn(req)

\* Below the threshold no more was tried than counted; above it nobody joins
\* the requests that may still try.
CountInv ==
    /\ Fails < MaxFail => tried <= Fails
    /\ tried + Cardinality(Trying) <= MaxFail + Cardinality(set.workers) - 1

LEMMA FailsType ==
    ASSUME NEW c \in Setting, NEW sh \in State, NEW lo \in [Kdcs -> State]
    PROVE  FailsIn(c, sh, lo) \in Nat /\ KdcOf(c) \in c.kdcs /\ KdcOf(c) \in Kdcs
<1>1. c.kdcs \subseteq Kdcs /\ c.kdcs # {} /\ c.up \in BOOLEAN
  BY DEF Setting
<1>2. KdcOf(c) \in c.kdcs
  BY <1>1 DEF KdcOf
<1>3. lo[KdcOf(c)] \in State
  BY <1>1, <1>2
<1>. QED  BY <1>1, <1>2, <1>3 DEF FailsIn, State

\* How many may still try.
LEMMA TryingFinite ==
    ASSUME NEW c \in Setting, NEW q, \A w \in Workers : w \notin c.workers => q[w].pc = "idle"
    PROVE  /\ TryingIn(q) \subseteq c.workers
           /\ IsFiniteSet(c.workers) /\ IsFiniteSet(TryingIn(q))
           /\ Cardinality(TryingIn(q)) \in Nat /\ Cardinality(c.workers) \in Nat
           /\ Cardinality(TryingIn(q)) <= Cardinality(c.workers)
<1>1. c.workers \subseteq Workers
  BY DEF Setting
<1>2. TryingIn(q) \subseteq c.workers
  BY DEF TryingIn, MayTry
<1>3. IsFiniteSet(c.workers)
  BY <1>1, FS_Subset
<1>4. IsFiniteSet(TryingIn(q)) /\ Cardinality(TryingIn(q)) <= Cardinality(c.workers)
  BY <1>2, <1>3, FS_Subset
<1>. QED  BY <1>2, <1>3, <1>4, FS_CardinalityType

\* The ways the count goes on: it is left alone and nobody new may try; one
\* passes the check below the threshold; a wrong password is counted; or the
\* count restarts.
LEMMA CountKeeps ==
    ASSUME Types, Types', SteadyInv, SteadyInv', UNCHANGED set, CountInv,
           NEW w \in set.workers,
           \/ Fails' = Fails /\ tried' = tried /\ Trying' \subseteq Trying
           \/ Fails' = Fails /\ tried' = tried /\ Fails < MaxFail
           \/ /\ Fails' >= MaxFail \/ Fails' >= Fails + 1
              /\ tried' <= tried + 1
              /\ w \in Trying /\ Trying' \subseteq Trying \ {w}
           \/ tried' <= 1 /\ tried' <= Fails' /\ w \notin Trying'
           \/ tried' = 0
    PROVE  CountInv'
<1>. DEFINE W == Cardinality(set.workers)
            N == Cardinality(Trying)
            M == Cardinality(Trying')
<1>0. Fails \in Nat /\ Fails' \in Nat /\ tried \in Nat /\ tried' \in Nat
  BY FailsType DEF Types, Fails
<1>1. /\ Trying \subseteq set.workers /\ IsFiniteSet(set.workers) /\ IsFiniteSet(Trying)
      /\ N \in Nat /\ W \in Nat /\ N <= W
  BY TryingFinite DEF Types, SteadyInv, Trying
<1>2. /\ Trying' \subseteq set.workers /\ IsFiniteSet(Trying') /\ M \in Nat /\ M <= W
  BY TryingFinite DEF Types, SteadyInv, Trying
<1>3. (Fails < MaxFail => tried <= Fails) /\ tried + N <= MaxFail + W - 1
  BY DEF CountInv
<1>4. Trying' \subseteq Trying => M <= N
  BY <1>1, FS_Subset
<1>5. w \in Trying /\ Trying' \subseteq Trying \ {w} => M <= N - 1
  <2>1. IsFiniteSet(Trying \ {w}) /\ (w \in Trying => Cardinality(Trying \ {w}) = N - 1)
    BY <1>1, FS_RemoveElement
  <2>. QED  BY <2>1, FS_Subset
<1>6. w \notin Trying' => M <= W - 1
  <2>1. IsFiniteSet(set.workers \ {w}) /\ Cardinality(set.workers \ {w}) = W - 1
    BY <1>1, FS_RemoveElement
  <2>. QED  BY <1>2, <2>1, FS_Subset
<1>7. \/ Fails' = Fails /\ tried' = tried /\ (M <= N \/ Fails < MaxFail)
      \/ /\ Fails' >= MaxFail \/ Fails' >= Fails + 1
         /\ tried' <= tried + 1 /\ M <= N - 1
      \/ tried' <= 1 /\ tried' <= Fails' /\ M <= W - 1
      \/ tried' = 0
  BY <1>4, <1>5, <1>6, Zenon
<1>9. (Fails' < MaxFail => tried' <= Fails') /\ tried' + M <= MaxFail + W - 1
  <2>. HIDE DEF W, N, M
  <2>1. PICK f \in Nat, g \in Nat, t \in Nat, u \in Nat, n \in Nat, m \in Nat, size \in Nat :
           f = Fails /\ g = Fails' /\ t = tried /\ u = tried' /\ n = N /\ m = M /\ size = W
    BY <1>0, <1>1, <1>2, Zenon
  <2>2. /\ n <= size /\ m <= size
        /\ f < MaxFail => t <= f
        /\ t + n <= MaxFail + size - 1
    BY <1>1, <1>2, <1>3, <2>1, Zenon
  <2>3. \/ g = f /\ u = t /\ (m <= n \/ f < MaxFail)
        \/ (g >= MaxFail \/ g >= f + 1) /\ u <= t + 1 /\ m <= n - 1
        \/ u <= 1 /\ u <= g /\ m <= size - 1
        \/ u = 0
    BY <1>7, <2>1, Zenon
  <2>4. (g < MaxFail => u <= g) /\ u + m <= MaxFail + size - 1
    BY <2>2, <2>3
  <2>. QED  BY <2>1, <2>4, Zenon
<1>8. Cardinality(set'.workers) = W /\ Cardinality(Trying)' = M
  OBVIOUS
<1>. QED  BY <1>8, <1>9 DEF CountInv

\* While one count goes on a request is refused where the threshold is
\* reached, and the counters it reads on its own KDC are the count.
LEMMA Counters ==
    ASSUME Types, SteadyInv, OneCount, NEW w \in set.workers, NEW s \in State, Stamped(s)
    PROVE  /\ w \in Workers
           /\ Refused(w, s) <=> s.fail >= MaxFail
           /\ req[w].pc # "idle" /\ ~up[req[w].kdc] =>
                 /\ ~set.up /\ req[w].kdc = TheKdc
                 /\ LocalState(TheKdc) = local[TheKdc]
           /\ req[w].pc # "idle" /\ up[req[w].kdc] => set.up
<1>1. w \in Workers /\ set.kdcs \subseteq Kdcs
  BY DEF Types, Setting
<1>2. req[w] \in Requests /\ ReqInv(req[w])
  BY <1>1 DEF Types, SteadyInv
<1>3. Refused(w, s) <=> s.fail >= MaxFail
  BY <1>2 DEF Refused, Locked, OneCount, ReqInv, Requests, State, Stamped
<1>4. ASSUME req[w].pc # "idle", ~up[req[w].kdc]
      PROVE  ~set.up /\ req[w].kdc = TheKdc /\ LocalState(TheKdc) = local[TheKdc]
  <2>1. req[w].kdc \in set.kdcs /\ req[w].kdc \in Kdcs /\ ~set.up
    BY <1>1, <1>2, <1>4 DEF ReqInv, SteadyInv
  <2>2. req[w].kdc = TheKdc
    BY <2>1 DEF OneCount, TheKdc, KdcOf
  <2>3. ~rep[TheKdc].row.active
    BY <2>1, <2>2 DEF SteadyInv
  <2>. QED  BY <2>1, <2>2, <2>3 DEF LocalState, RowActive
<1>5. req[w].pc # "idle" /\ up[req[w].kdc] => set.up
  BY <1>1, <1>2 DEF ReqInv, SteadyInv
<1>. QED  BY <1>1, <1>3, <1>4, <1>5

\* Who may still try after w has become r.
LEMMA TryingAfter ==
    ASSUME Types, NEW w \in Workers, NEW r, Becomes(w, r)
    PROVE  /\ MayTry(req[w]) => Trying' \subseteq Trying
           /\ ~MayTry(r) => Trying' \subseteq Trying \ {w} /\ w \notin Trying'
           /\ w \in Trying <=> MayTry(req[w])
<1>1. req'[w] = r /\ \A v \in Workers \ {w} : req'[v] = req[v]
  BY DEF Types, Becomes
<1>2. Trying' = {v \in Workers : MayTry(req'[v])}
  BY DEF Trying, TryingIn, MayTry
<1>3. Trying = {v \in Workers : MayTry(req[v])}
  BY DEF Trying, TryingIn
<1>. QED  BY <1>1, <1>2, <1>3

\* A step of one request that leaves the rest steady.
LEMMA SteadyRequest ==
    ASSUME Types, SteadyInv, NEW w \in set.workers, NEW r, Becomes(w, r), ReqInv(r),
           UNCHANGED <<set, prin, up, rep>>, Stamped(shared'),
           \A k \in Kdcs : Stamped(local'[k]) /\ (copy'[k] # NoCopy => copy'[k] = local'[k])
    PROVE  SteadyInv'
<1>1. w \in Workers
  BY DEF Types, Setting
<1>2. req'[w] = r /\ \A v \in Workers \ {w} : req'[v] = req[v]
  BY <1>1 DEF Types, Becomes
<1>3. \A v \in Workers : ReqInv(req'[v]) /\ (v \notin set.workers => req'[v].pc = "idle")
  BY <1>2 DEF SteadyInv
<1>4. \A v \in Workers : ReqInv(req[v])' <=> ReqInv(req'[v])
  BY DEF ReqInv, Stamped
<1>. QED  BY <1>3, <1>4 DEF SteadyInv, Stamped

LEMMA IdleInv == ReqInv(Idle) /\ ~MayTry(Idle)
BY IdleType DEF ReqInv, Mirrors, Stamped, NoState, MayTry

\* A request changes, the counters and what was tried do not.
LEMMA QuietStep ==
    ASSUME Types, Types', SteadyInv, CountInv, NEW w \in set.workers, NEW r, Becomes(w, r),
           ReqInv(r), UNCHANGED <<set, prin, up, rep, shared, tried>>,
           local' = local \/ set.up,
           \A k \in Kdcs : Stamped(local'[k]) /\ (copy'[k] # NoCopy => copy'[k] = local'[k]),
           ~MayTry(r) \/ MayTry(req[w]) \/ Fails < MaxFail
    PROVE  SteadyInv' /\ CountInv'
<1>1. w \in Workers
  BY DEF Types, Setting
<1>2. SteadyInv'
  BY SteadyRequest DEF SteadyInv
<1>3. Fails' = Fails
  BY DEF Fails, FailsIn
<1>4. Trying' \subseteq Trying \/ Fails < MaxFail
  BY <1>1, TryingAfter
<1>. QED  BY <1>2, <1>3, <1>4, CountKeeps

\* The counters are not touched, so they stay as they are.
LEMMA LocalSteady ==
    ASSUME SteadyInv, UNCHANGED <<local, copy>>
    PROVE  \A k \in Kdcs : Stamped(local'[k]) /\ (copy'[k] # NoCopy => copy'[k] = local'[k])
BY DEF SteadyInv

\* What the steps of request w rely on.
Facts(w) ==
    /\ w \in Workers /\ req[w] \in Requests /\ ReqInv(req[w])
    /\ set.up \in BOOLEAN /\ shared \in State /\ Stamped(shared)
    /\ TheKdc \in Kdcs /\ local[TheKdc] \in State /\ Stamped(local[TheKdc])
    /\ Fails = IF set.up THEN shared.fail ELSE local[TheKdc].fail

LEMMA FactsHold ==
    ASSUME Types, SteadyInv, NEW w \in set.workers
    PROVE  Facts(w)
<1>1. w \in Workers /\ set.up \in BOOLEAN
  BY DEF Types, Setting
<1>2. TheKdc \in Kdcs
  BY FailsType DEF Types, TheKdc
<1>. QED  BY <1>1, <1>2 DEF Types, SteadyInv, Fails, FailsIn, TheKdc, Facts

LEMMA CheckSteady ==
    ASSUME Types, Types', SteadyInv, OneCount, CountInv, NEW w \in set.workers, Check(w)
    PROVE  SteadyInv' /\ CountInv'
<1>0. Facts(w) /\ req[w].pc = "check"
  BY FactsHold DEF Check
<1>. USE DEF Facts
<1>1. UNCHANGED <<set, prin, up, rep, shared, tried, local, copy>>
  BY DEF Check, authority
<1>2. CASE ReadShared(w, "mirrorCheck")
  <2>1. PICK r \in Requests : /\ Relabelled(w, r, "mirrorCheck")
                              /\ r.clear = req[w].clear /\ r.state = shared
    <3>1. req' = [req EXCEPT ![w].pc = "mirrorCheck", ![w].state = shared]
      BY <1>2 DEF ReadShared
    <3>2. "mirrorCheck" \in Labels
      BY DEF Labels
    <3>. QED  BY <1>0, <3>1, <3>2, ReadBecomes
  <2>2. set.up
    BY <1>0, <1>2, Counters DEF ReadShared
  <2>3. ReqInv(r)
    BY <1>0, <2>1, <2>2 DEF ReqInv, Relabelled
  <2>4. ~MayTry(r) \/ Fails < MaxFail
    BY <1>0, <2>1, <2>2 DEF MayTry, Relabelled
  <2>. QED  BY <1>1, <2>1, <2>3, <2>4, LocalSteady, QuietStep DEF Relabelled
<1>3. CASE FallsBack(w) /\ AfterCheck(w, LocalState(req[w].kdc))
  <2>1. /\ ~set.up /\ AfterCheck(w, local[TheKdc])
        /\ Refused(w, local[TheKdc]) <=> local[TheKdc].fail >= MaxFail
    BY <1>0, <1>3, Counters DEF FallsBack
  <2>2. CASE Done(w)
    BY <1>0, <1>1, <2>2, DoneBecomes, IdleInv, LocalSteady, QuietStep
  <2>3. CASE Step(w, "verify") /\ ~Refused(w, local[TheKdc])
    <3>1. PICK r \in Requests : /\ Relabelled(w, r, "verify")
                                /\ r.clear = req[w].clear /\ r.state = req[w].state
      BY <1>0, <2>3, StepBecomes DEF Labels
    <3>2. ReqInv(r)
      BY <1>0, <3>1 DEF ReqInv, Relabelled, Mirrors
    <3>3. Fails < MaxFail
      BY <1>0, <2>1, <2>3 DEF State
    <3>. QED  BY <1>1, <3>1, <3>2, <3>3, LocalSteady, QuietStep DEF Relabelled
  <2>. QED  BY <2>1, <2>2, <2>3 DEF AfterCheck
<1>. QED  BY <1>2, <1>3 DEF Check

LEMMA AuditReadSteady ==
    ASSUME Types, Types', SteadyInv, OneCount, CountInv, NEW w \in set.workers, AuditRead(w)
    PROVE  SteadyInv' /\ CountInv'
<1>0. Facts(w) /\ req[w].pc = "audit" /\ MayTry(req[w])
  BY FactsHold DEF AuditRead, MayTry
<1>. USE DEF Facts
<1>1. UNCHANGED <<set, prin, up, rep, shared, local, copy>>
  BY DEF AuditRead, authority
<1>2. Fails' = Fails
  BY <1>1 DEF Fails, FailsIn
<1>3. OneMore <= tried + 1 /\ tried <= tried + 1
  BY DEF OneMore, Types
<1>4. ASSUME NEW s \in State, Stamped(s), s.fail = Fails, CountRefused(w, s), NEW r \in Requests,
             Becomes(w, r), ReqInv(r), Refused(w, s) => ~MayTry(r)
      PROVE  SteadyInv' /\ CountInv'
  <2>1. Refused(w, s) <=> Fails >= MaxFail
    BY <1>4, Counters
  <2>2. SteadyInv'
    BY <1>1, <1>4, LocalSteady, SteadyRequest DEF SteadyInv
  <2>3. CASE Refused(w, s)
    <3>1. w \in Trying /\ Trying' \subseteq Trying \ {w}
      BY <1>0, <1>4, <2>3, TryingAfter
    <3>2. tried' <= tried + 1
      BY <1>3, <1>4 DEF CountRefused
    <3>3. Fails' >= MaxFail
      BY <1>2, <2>1, <2>3
    <3>. QED  BY <1>1, <2>2, <3>1, <3>2, <3>3, CountKeeps
  <2>4. CASE ~Refused(w, s)
    <3>1. tried' = tried
      BY <1>4, <2>4 DEF CountRefused
    <3>2. Trying' \subseteq Trying
      BY <1>0, <1>4, TryingAfter
    <3>. QED  BY <1>1, <1>2, <2>2, <3>1, <3>2, CountKeeps
  <2>. QED  BY <2>3, <2>4
<1>5. CASE ReadShared(w, "mirrorAudit") /\ CountRefused(w, shared)
  <2>1. PICK r \in Requests : /\ Relabelled(w, r, "mirrorAudit")
                              /\ r.clear = req[w].clear /\ r.state = shared
    <3>1. req' = [req EXCEPT ![w].pc = "mirrorAudit", ![w].state = shared]
      BY <1>5 DEF ReadShared
    <3>2. "mirrorAudit" \in Labels
      BY DEF Labels
    <3>. QED  BY <1>0, <3>1, <3>2, ReadBecomes
  <2>2. set.up /\ (Refused(w, shared) <=> shared.fail >= MaxFail)
    BY <1>0, <1>5, Counters DEF ReadShared
  <2>3. ReqInv(r)
    BY <1>0, <2>1, <2>2 DEF ReqInv, Relabelled
  <2>4. Refused(w, shared) => ~MayTry(r)
    BY <1>0, <2>1, <2>2 DEF MayTry, Relabelled, State
  <2>. QED  BY <1>0, <1>4, <1>5, <2>1, <2>2, <2>3, <2>4 DEF Relabelled
<1>6. CASE /\ FallsBack(w)
           /\ AfterAuditRead(w, LocalState(req[w].kdc))
           /\ CountRefused(w, LocalState(req[w].kdc))
  <2>1. ~set.up /\ AfterAuditRead(w, local[TheKdc]) /\ CountRefused(w, local[TheKdc])
    BY <1>0, <1>6, Counters DEF FallsBack
  <2>2. CASE Becomes(w, Idle)
    BY <1>0, <1>4, <2>1, <2>2, IdleInv, IdleType
  <2>3. CASE /\ ~Refused(w, local[TheKdc])
             /\ \E r \in Requests : /\ Relabelled(w, r, "apply") /\ r.state = req[w].state
                                    /\ r.clear => r.good
    <3>1. PICK r \in Requests : /\ Relabelled(w, r, "apply") /\ r.state = req[w].state
                                /\ r.clear => r.good
      BY <2>3
    <3>2. ReqInv(r)
      BY <1>0, <3>1 DEF ReqInv, Relabelled, Mirrors
    <3>. QED  BY <1>0, <1>4, <2>1, <2>3, <3>1, <3>2 DEF Relabelled
  <2>. QED  BY <1>0, <2>1, <2>2, <2>3, AuditBecomes
<1>. QED  BY <1>5, <1>6 DEF AuditRead

\* What applying the outcome of w to the counters s does to the count.
LEMMA Outcome ==
    ASSUME Types, SteadyInv, OneCount, NEW w \in set.workers, req[w].pc = "apply",
           NEW s \in State, Stamped(s)
    PROVE  /\ Stamped(Updated(w, s)) /\ Updated(w, s) \in State
           /\ \/ Updated(w, s) = s /\ TriedAfter(w, s) = tried
              \/ TriedAfter(w, s) = 0
              \/ TriedAfter(w, s) = 1 /\ Updated(w, s).fail = 1
              \/ /\ TriedAfter(w, s) <= tried + 1
                 /\ Updated(w, s).fail >= MaxFail \/ Updated(w, s).fail >= s.fail + 1
<1>0. Facts(w)
  BY FactsHold
<1>. USE DEF Facts
<1>1. Updated(w, s) \in State
  BY <1>0, UpdatedType
<1>2. req[w].unlock = 0 /\ req[w].stamp > 0 /\ (req[w].clear => req[w].good)
      /\ req[w].stamp \in Nat /\ req[w].good \in BOOLEAN /\ req[w].clear \in BOOLEAN
  BY <1>0 DEF ReqInv, Requests
<1>3. CASE req[w].clear
  <2>1. TriedAfter(w, s) = 0
    BY <1>3 DEF TriedAfter
  <2>2. Updated(w, s) = [s EXCEPT !.fail = 0]
    BY <1>2, <1>3 DEF Updated, RecordedSuccess
  <2>3. Stamped(Updated(w, s))
    BY <2>2 DEF Stamped, State
  <2>. QED  BY <1>1, <2>1, <2>3
<1>4. CASE req[w].good /\ ~req[w].clear
  <2>1. TriedAfter(w, s) = tried
    BY <1>4 DEF TriedAfter, Wrong
  <2>2. Updated(w, s) = s
    BY <1>4 DEF Updated, RecordedSuccess
  <2>. QED  BY <1>1, <2>1, <2>2
<1>5. CASE ~req[w].good
  <2>1. Wrong(w) /\ ~req[w].clear
    BY <1>2, <1>5 DEF Wrong, SteadyInv
  <2>2. Updated(w, s) = CountFailure(s, req[w].stamp, 0)
    BY <1>2, <1>5 DEF Updated
  <2>3. Stamped(Updated(w, s))
    BY <1>2, <2>2 DEF Stamped, CountFailure
  <2>4. CASE IntervalOver(s, req[w].stamp)
    <3>1. TriedAfter(w, s) = 1
      BY <2>1, <2>4 DEF TriedAfter
    <3>2. Updated(w, s).fail = 1
      BY <2>2, <2>4 DEF CountFailure
    <3>. QED  BY <1>1, <2>3, <3>1, <3>2
  <2>5. CASE ~IntervalOver(s, req[w].stamp)
    <3>1. TriedAfter(w, s) <= tried + 1
      BY <2>1, <2>5 DEF TriedAfter, OneMore, Types
    <3>2. Updated(w, s).fail = IF s.fail = U32Max THEN U32Max ELSE s.fail + 1
      BY <2>2, <2>5 DEF CountFailure
    <3>3. Updated(w, s).fail >= MaxFail \/ Updated(w, s).fail >= s.fail + 1
      BY <3>2 DEF State
    <3>. QED  BY <1>1, <2>3, <3>1, <3>3
  <2>. QED  BY <2>4, <2>5
<1>. QED  BY <1>2, <1>3, <1>4, <1>5

\* Applying the outcome to the count leaves it in order.
LEMMA ApplySteady ==
    ASSUME Types, Types', SteadyInv, OneCount, CountInv, NEW w \in set.workers,
           req[w].pc = "apply", NEW s \in State, Stamped(s), s.fail = Fails, UNCHANGED set,
           NEW r \in Requests, Becomes(w, r), ~MayTry(r), SteadyInv',
           Fails' = Updated(w, s).fail, tried' = TriedAfter(w, s)
    PROVE  CountInv'
<1>0. w \in Workers /\ w \in Trying /\ Trying' \subseteq Trying \ {w} /\ w \notin Trying'
  BY FactsHold, TryingAfter DEF MayTry, Facts
<1>1. \/ Updated(w, s) = s /\ TriedAfter(w, s) = tried
      \/ TriedAfter(w, s) = 0
      \/ TriedAfter(w, s) = 1 /\ Updated(w, s).fail = 1
      \/ /\ TriedAfter(w, s) <= tried + 1
         /\ Updated(w, s).fail >= MaxFail \/ Updated(w, s).fail >= s.fail + 1
  BY Outcome
<1>2. CASE Updated(w, s) = s /\ TriedAfter(w, s) = tried
  <2>1. Fails' = Fails /\ tried' = tried /\ Trying' \subseteq Trying
    BY <1>0, <1>2
  <2>. QED  BY <2>1, CountKeeps
<1>3. CASE TriedAfter(w, s) = 0
  BY <1>3, CountKeeps
<1>4. CASE TriedAfter(w, s) = 1 /\ Updated(w, s).fail = 1
  <2>1. tried' <= 1 /\ tried' <= Fails'
    BY <1>4
  <2>. QED  BY <1>0, <2>1, CountKeeps
<1>5. CASE /\ TriedAfter(w, s) <= tried + 1
           /\ Updated(w, s).fail >= MaxFail \/ Updated(w, s).fail >= s.fail + 1
  <2>1. (Fails' >= MaxFail \/ Fails' >= Fails + 1) /\ tried' <= tried + 1
    BY <1>5
  <2>. QED  BY <1>0, <2>1, CountKeeps
<1>. QED  BY <1>1, <1>2, <1>3, <1>4, <1>5

LEMMA StartSteady ==
    ASSUME Types, Types', SteadyInv, OneCount, CountInv, NEW w \in set.workers,
           NEW k \in set.kdcs, Start(w, k)
    PROVE  SteadyInv' /\ CountInv'
<1>0. Facts(w) /\ k \in Kdcs /\ now \in Nat \ {0} /\ rep[k].unlock = 0
  BY FactsHold DEF Types, Setting, SteadyInv
<1>1. UNCHANGED <<set, prin, up, rep, shared, tried, local, copy>>
  BY DEF Start, authority
<1>2. CASE req' = req
  <2>1. SteadyInv'
    BY <1>1, <1>2 DEF SteadyInv, ReqInv, Stamped
  <2>2. Fails' = Fails /\ tried' = tried /\ Trying' \subseteq Trying
    BY <1>1, <1>2 DEF Fails, FailsIn, Trying, TryingIn, MayTry
  <2>. QED  BY <1>1, <2>1, <2>2, CountKeeps
<1>3. CASE \E r \in Requests :
              /\ Becomes(w, r) /\ r.pc = "check" /\ r.kdc = k /\ r.stamp = now
              /\ r.unlock = rep[k].unlock /\ ~r.clear /\ r.state = NoState
  <2>1. PICK r \in Requests :
           /\ Becomes(w, r) /\ r.pc = "check" /\ r.kdc = k /\ r.stamp = now
           /\ r.unlock = rep[k].unlock /\ ~r.clear /\ r.state = NoState
    BY <1>3
  <2>2. ReqInv(r) /\ ~MayTry(r)
    BY <1>0, <2>1 DEF ReqInv, MayTry, Mirrors, Stamped, NoState
  <2>. QED  BY <1>1, <2>1, <2>2, LocalSteady, QuietStep
<1>. QED  BY <1>0, <1>2, <1>3, StartBecomes DEF Facts

LEMMA VerifySteady ==
    ASSUME Types, Types', SteadyInv, OneCount, CountInv, NEW w \in set.workers,
           NEW good \in BOOLEAN, Verify(w, good)
    PROVE  SteadyInv' /\ CountInv'
<1>0. Facts(w) /\ req[w].pc = "verify" /\ MayTry(req[w])
  BY FactsHold DEF Verify, MayTry
<1>1. UNCHANGED <<set, prin, up, rep, shared, tried, local, copy>>
  BY DEF Verify, authority
<1>2. PICK r \in Requests :
         /\ Becomes(w, r) /\ r.pc = "audit" /\ r.kdc = req[w].kdc
         /\ r.stamp = req[w].stamp /\ r.unlock = req[w].unlock
         /\ r.clear = req[w].clear /\ r.state = req[w].state
  BY <1>0, VerifyBecomes DEF Facts
<1>3. ReqInv(r)
  BY <1>0, <1>2 DEF ReqInv, Mirrors, Facts
<1>. QED  BY <1>0, <1>1, <1>2, <1>3, LocalSteady, QuietStep

LEMMA AbandonSteady ==
    ASSUME Types, Types', SteadyInv, OneCount, CountInv, NEW w \in set.workers, Abandon(w)
    PROVE  SteadyInv' /\ CountInv'
<1>1. UNCHANGED <<set, prin, up, rep, shared, tried, local, copy>>
  BY DEF Abandon, authority
<1>2. Becomes(w, Idle)
  BY FactsHold, DoneBecomes DEF Abandon, Facts
<1>. QED  BY <1>1, <1>2, IdleInv, LocalSteady, QuietStep

LEMMA ApplySharedSteady ==
    ASSUME Types, Types', SteadyInv, OneCount, CountInv, NEW w \in set.workers, ApplyShared(w)
    PROVE  SteadyInv' /\ CountInv'
<1>0. Facts(w) /\ req[w].pc = "apply" /\ prin.live
  BY FactsHold DEF ApplyShared, SteadyInv
<1>. USE DEF Facts
<1>1. UNCHANGED <<set, prin, up, rep, local, copy>>
  BY DEF ApplyShared
<1>2. set.up
  BY <1>0, Counters DEF ApplyShared
<1>3. Stamped(Updated(w, shared)) /\ Updated(w, shared) \in State
  BY <1>0, Outcome
<1>4. shared' = Updated(w, shared) /\ tried' = TriedAfter(w, shared)
  BY <1>0 DEF ApplyShared
<1>5. PICK r \in Requests : /\ Relabelled(w, r, "mirrorApply")
                            /\ r.clear = req[w].clear /\ r.state = Updated(w, shared)
  <2>1. req' = [req EXCEPT ![w].pc = "mirrorApply", ![w].state = Updated(w, shared)]
    BY DEF ApplyShared
  <2>2. "mirrorApply" \in Labels
    BY DEF Labels
  <2>. QED  BY <1>0, <1>3, <2>1, <2>2, ReadBecomes
<1>6. ReqInv(r) /\ ~MayTry(r)
  BY <1>0, <1>2, <1>3, <1>5 DEF ReqInv, Relabelled, MayTry
<1>7. SteadyInv'
  BY <1>1, <1>3, <1>4, <1>5, <1>6, LocalSteady, SteadyRequest DEF Relabelled
<1>8. shared.fail = Fails /\ Fails' = Updated(w, shared).fail
  BY <1>0, <1>1, <1>2, <1>4 DEF Fails, FailsIn
<1>9. Becomes(w, r)
  BY <1>5 DEF Relabelled
<1>. QED  BY <1>0, <1>1, <1>4, <1>6, <1>7, <1>8, <1>9, ApplySteady

LEMMA ApplyLocalSteady ==
    ASSUME Types, Types', SteadyInv, OneCount, CountInv, NEW w \in set.workers, ApplyLocal(w)
    PROVE  SteadyInv' /\ CountInv'
<1>0. Facts(w) /\ req[w].pc = "apply"
  BY FactsHold DEF ApplyLocal
<1>. USE DEF Facts
<1>. DEFINE s == local[TheKdc]
<1>1. UNCHANGED <<set, prin, up, rep, shared, copy>>
  BY DEF ApplyLocal, authority
<1>2. ~set.up /\ req[w].kdc = TheKdc
  BY <1>0, Counters DEF ApplyLocal
<1>3. Stamped(Updated(w, s)) /\ Updated(w, s) \in State
  BY <1>0, Outcome
<1>4. /\ local' = [local EXCEPT ![TheKdc] = Updated(w, s)]
      /\ copy[TheKdc] = NoCopy /\ tried' = TriedAfter(w, s)
  BY <1>2 DEF ApplyLocal
<1>5. Becomes(w, Idle)
  BY <1>0, DoneBecomes DEF ApplyLocal
<1>6. /\ local'[TheKdc] = Updated(w, s)
      /\ \A k \in Kdcs \ {TheKdc} : local'[k] = local[k]
  BY <1>0, <1>4 DEF Types
<1>7. \A k \in Kdcs : Stamped(local'[k]) /\ (copy'[k] # NoCopy => copy'[k] = local'[k])
  BY <1>1, <1>3, <1>4, <1>6 DEF SteadyInv
<1>8. SteadyInv'
  BY <1>0, <1>1, <1>5, <1>7, IdleInv, SteadyRequest
<1>9. s.fail = Fails /\ Fails' = Updated(w, s).fail
  BY <1>0, <1>1, <1>2, <1>6 DEF Fails, FailsIn, TheKdc
<1>10. Idle \in Requests /\ ~MayTry(Idle)
  BY IdleType, IdleInv
<1>. QED  BY <1>0, <1>1, <1>4, <1>5, <1>8, <1>9, <1>10, ApplySteady

LEMMA MirrorSteady ==
    ASSUME Types, Types', SteadyInv, OneCount, CountInv, NEW w \in set.workers, Mirror(w)
    PROVE  SteadyInv' /\ CountInv'
<1>0. Facts(w) /\ req[w].pc \in Mirrors /\ req[w].state \in State /\ req[w].kdc \in Kdcs
  BY FactsHold DEF Mirror, Mirrors, Facts, Requests
<1>. USE DEF Facts
<1>1. UNCHANGED <<set, prin, up, rep, shared, tried, copy>>
  BY DEF Mirror, authority
<1>2. set.up /\ Stamped(req[w].state)
  BY <1>0 DEF ReqInv
<1>3. \A k \in Kdcs : Stamped(local'[k]) /\ (copy'[k] # NoCopy => copy'[k] = local'[k])
  <2>1. \/ local' = local
        \/ copy[req[w].kdc] = NoCopy /\ local' = [local EXCEPT ![req[w].kdc] = req[w].state]
    BY DEF Mirror
  <2>2. CASE local' = local
    BY <1>1, <2>2 DEF SteadyInv
  <2>3. CASE copy[req[w].kdc] = NoCopy /\ local' = [local EXCEPT ![req[w].kdc] = req[w].state]
    BY <1>0, <1>1, <1>2, <2>3 DEF SteadyInv, Types
  <2>. QED  BY <2>1, <2>2, <2>3
<1>4. Refused(w, req[w].state) <=> req[w].state.fail >= MaxFail
  BY <1>0, <1>2, Counters
<1>5. CASE Done(w)
  BY <1>0, <1>1, <1>2, <1>3, <1>5, DoneBecomes, IdleInv, QuietStep
<1>6. CASE req[w].pc = "mirrorCheck" /\ Step(w, "verify") /\ ~Refused(w, req[w].state)
  <2>1. PICK r \in Requests : /\ Relabelled(w, r, "verify")
                              /\ r.clear = req[w].clear /\ r.state = req[w].state
    BY <1>0, <1>6, StepBecomes DEF Labels
  <2>2. ReqInv(r)
    BY <1>0, <1>2, <1>6, <2>1 DEF ReqInv, Relabelled
  <2>3. MayTry(req[w])
    BY <1>0, <1>4, <1>6 DEF MayTry, State
  <2>4. Becomes(w, r)
    BY <2>1 DEF Relabelled
  <2>. QED  BY <1>1, <1>2, <1>3, <2>2, <2>3, <2>4, QuietStep
<1>7. CASE req[w].pc = "mirrorAudit" /\ AfterAuditRead(w, req[w].state)
  <2>1. CASE Becomes(w, Idle)
    BY <1>0, <1>1, <1>2, <1>3, <2>1, IdleInv, QuietStep
  <2>2. CASE /\ ~Refused(w, req[w].state)
             /\ \E r \in Requests : /\ Relabelled(w, r, "apply") /\ r.state = req[w].state
                                    /\ r.clear => r.good
    <3>1. PICK r \in Requests : /\ Relabelled(w, r, "apply") /\ r.state = req[w].state
                                /\ r.clear => r.good
      BY <2>2
    <3>2. ReqInv(r)
      BY <1>0, <1>2, <1>7, <3>1 DEF ReqInv, Relabelled
    <3>3. MayTry(req[w])
      BY <1>0, <1>4, <1>7, <2>2 DEF MayTry, State
    <3>4. Becomes(w, r)
      BY <3>1 DEF Relabelled
    <3>. QED  BY <1>1, <1>2, <1>3, <3>2, <3>3, <3>4, QuietStep
  <2>. QED  BY <1>0, <1>7, <2>1, <2>2, AuditBecomes
<1>. QED  BY <1>5, <1>6, <1>7 DEF Mirror, AfterCheck

LEMMA RequestSteady ==
    ASSUME Types, Types', SteadyInv, OneCount, CountInv, NEW w \in set.workers, Request(w)
    PROVE  SteadyInv' /\ CountInv'
BY StartSteady, CheckSteady, VerifySteady, AuditReadSteady, AbandonSteady, ApplySharedSteady,
   ApplyLocalSteady, MirrorSteady DEF Request

-----------------------------------------------------------------------------
(* The KDCs, the administrator and the clock                               *)

\* No request joins those that may try, and the counters are left alone.
LEMMA NobodyJoins ==
    ASSUME Types, Types', SteadyInv, SteadyInv', CountInv, UNCHANGED <<set, shared, local, tried>>,
           \A w \in Workers : req'[w] = req[w] \/ req'[w] = Idle
    PROVE  CountInv'
<1>1. PICK w \in set.workers : TRUE
  BY DEF Types, Setting
<1>2. Fails' = Fails
  BY DEF Fails, FailsIn
<1>3. Trying' = {v \in Workers : MayTry(req'[v])}
  BY DEF Trying, TryingIn, MayTry
<1>4. Trying' \subseteq Trying
  BY <1>3, IdleInv DEF Trying, TryingIn
<1>. QED  BY <1>1, <1>2, <1>4, CountKeeps

LEMMA KdcSteady ==
    ASSUME Types, Types', SteadyInv, OneCount, CountInv, NEW k \in set.kdcs, Kdc(k)
    PROVE  SteadyInv' /\ CountInv'
<1>0. k \in Kdcs /\ up[k] = set.up /\ set.flips = 0 /\ used.flips \in Nat
  BY DEF Types, Setting, SteadyInv, OneCount, Used
<1>1. CASE SendReport(k) \/ DropReport(k)
  <2>1. UNCHANGED <<set, prin, shared, up, rep, local, copy, req, tried>>
    BY <1>1 DEF SendReport, DropReport, authority
  <2>2. SteadyInv'
    BY <2>1 DEF SteadyInv, ReqInv, Stamped
  <2>. QED  BY <2>1, <2>2, NobodyJoins
<1>2. CASE Replicate(k)
  <2>1. UNCHANGED <<set, prin, shared, up, local, copy, req, tried>> /\ set.up
    BY <1>0, <1>2 DEF Replicate, authority
  <2>2. \A j \in Kdcs : rep'[j].live /\ rep'[j].unlock = 0
    BY <1>2 DEF Replicate, SteadyInv, Types
  <2>3. SteadyInv'
    BY <2>1, <2>2 DEF SteadyInv, ReqInv, Stamped
  <2>. QED  BY <2>1, <2>3, NobodyJoins
<1>3. CASE BeginRebuildCommit(k)
  <2>1. UNCHANGED <<set, prin, shared, up, rep, local, req, tried>>
    BY <1>3 DEF BeginRebuildCommit, authority
  <2>2. \A j \in Kdcs : copy'[j] # NoCopy => copy'[j] = local[j]
    BY <1>3 DEF BeginRebuildCommit, SteadyInv, Types
  <2>3. SteadyInv'
    BY <2>1, <2>2 DEF SteadyInv, ReqInv, Stamped
  <2>. QED  BY <2>1, <2>3, NobodyJoins
<1>4. CASE EndRebuildCommit(k)
  <2>1. local' = local
    BY <1>0, <1>4 DEF EndRebuildCommit, SteadyInv, Types
  <2>2. UNCHANGED <<set, prin, shared, up, rep, local, req, tried>>
    BY <1>4, <2>1 DEF EndRebuildCommit, authority
  <2>3. \A j \in Kdcs : copy'[j] # NoCopy => copy'[j] = local[j]
    BY <1>4 DEF EndRebuildCommit, SteadyInv, Types
  <2>4. SteadyInv'
    BY <2>2, <2>3 DEF SteadyInv, ReqInv, Stamped
  <2>. QED  BY <2>2, <2>4, NobodyJoins
<1>5. CASE Crash(k)
  <2>1. UNCHANGED <<set, prin, shared, up, rep, local, tried>>
    BY <1>5 DEF Crash, authority
  <2>2. \A j \in Kdcs : copy'[j] # NoCopy => copy'[j] = local[j]
    BY <1>5 DEF Crash, SteadyInv, Types
  <2>3. \A w \in Workers : req'[w] = req[w] \/ req'[w] = Idle
    BY <1>5 DEF Crash
  <2>4. \A w \in Workers : ReqInv(req'[w]) /\ (w \notin set.workers => req'[w].pc = "idle")
    BY <2>3, IdleInv, IdleType DEF SteadyInv
  <2>5. \A w \in Workers : ReqInv(req[w])' <=> ReqInv(req'[w])
    BY <2>1 DEF ReqInv, Stamped
  <2>6. SteadyInv'
    BY <2>1, <2>2, <2>4, <2>5 DEF SteadyInv, Stamped
  <2>. QED  BY <2>1, <2>3, <2>6, NobodyJoins
<1>6. CASE Flip(k)
  BY <1>0, <1>6 DEF Flip
<1>. QED  BY <1>1, <1>2, <1>3, <1>4, <1>5, <1>6 DEF Kdc

-----------------------------------------------------------------------------
(* Theorems                                                                *)

LEMMA DeletedStep ==
    ASSUME DeletedClean, [Next]_vars
    PROVE  DeletedClean'
<1>1. ASSUME NEW w, Request(w) PROVE DeletedClean'
  <2>1. prin' = prin
    BY <1>1 DEF Request, Start, Check, Verify, AuditRead, Abandon, ApplyShared, ApplyLocal, Mirror,
                authority
  <2>2. ~prin.live => shared' = shared
    BY <1>1 DEF Request, Start, Check, Verify, AuditRead, Abandon, ApplyShared, ApplyLocal, Mirror,
                authority
  <2>. QED  BY <2>1, <2>2 DEF DeletedClean
<1>2. ASSUME NEW k, Kdc(k) PROVE DeletedClean'
  BY <1>2 DEF Kdc, SendReport, DropReport, Replicate, BeginRebuildCommit, EndRebuildCommit, Crash,
              Flip, authority, DeletedClean
<1>3. CASE Unlock
  BY <1>3 DEF Unlock, DeletedClean
<1>4. CASE Delete \/ Rename
  BY <1>4, Zenon DEF Delete, Rename, DeletedClean
<1>5. CASE Create
  BY <1>5 DEF Create, DeletedClean
<1>6. CASE Tick \/ UNCHANGED vars
  BY <1>6 DEF Tick, vars, authority, DeletedClean
<1>. QED  BY <1>1, <1>2, <1>3, <1>4, <1>5, <1>6 DEF Next

\* For every number of KDCs and requests: a deleted name has no counters,
\* however late the audit of a login lands (CockroachStore::apply).
THEOREM CleanAfterDelete == Spec => []DeletedClean
<1>1. Init => DeletedClean
  BY DEF Init, DeletedClean
<1>2. DeletedClean /\ [Next]_vars => DeletedClean'
  BY DeletedStep
<1>. QED  BY <1>1, <1>2, PTL DEF Spec

IInv == Types /\ (OneCount => SteadyInv /\ CountInv)

LEMMA InitCount ==
    ASSUME Init
    PROVE  IInv
<1>1. Types
  BY InitTypes
<1>2. SteadyInv
  BY IdleInv, IdleType DEF Init, SteadyInv, NoState, NoRow, Stamped
<1>3. CountInv
  <2>1. Fails = 0 /\ tried = 0
    <3>1. KdcOf(set) \in Kdcs
      BY <1>1, FailsType DEF Types
    <3>. QED  BY <3>1 DEF Init, Fails, FailsIn, NoState
  <2>2. /\ Cardinality(Trying) \in Nat /\ Cardinality(set.workers) \in Nat
        /\ Cardinality(Trying) <= Cardinality(set.workers)
    BY <1>1, <1>2, TryingFinite DEF Types, SteadyInv, Trying
  <2>. QED  BY <2>1, <2>2 DEF CountInv
<1>. QED  BY <1>1, <1>2, <1>3 DEF IInv

LEMMA NextCount ==
    ASSUME IInv, [Next]_vars
    PROVE  IInv'
<1>1. Types /\ Types'
  BY NextTypes, Zenon DEF IInv
<1>2. set' = set
  BY DEF Next, Request, Start, Check, Verify, AuditRead, Abandon, ApplyShared, ApplyLocal, Mirror,
         Kdc, SendReport, DropReport, Replicate, BeginRebuildCommit, EndRebuildCommit, Crash, Flip,
         Unlock, Delete, Rename, Create, Administer, Tick, vars
<1>3. OneCount' <=> OneCount
  BY <1>2 DEF OneCount
<1>4. SUFFICES ASSUME OneCount, SteadyInv, CountInv PROVE SteadyInv' /\ CountInv'
  BY <1>1, <1>3 DEF IInv
<1>5. CASE \E w \in set.workers : Request(w)
  BY <1>1, <1>4, <1>5, RequestSteady
<1>6. CASE \E k \in set.kdcs : Kdc(k)
  BY <1>1, <1>4, <1>6, KdcSteady
<1>7. CASE Unlock \/ Delete \/ Rename \/ Create
  <2>1. used.admin \in Nat /\ set.admin = 0
    BY <1>1, <1>4 DEF Types, Used, OneCount
  <2>2. Administer
    BY <1>7 DEF Unlock, Delete, Rename, Create
  <2>. QED  BY <2>1, <2>2 DEF Administer
<1>8. CASE Tick \/ UNCHANGED vars
  <2>1. UNCHANGED <<set, prin, shared, up, rep, local, copy, req, tried>>
    BY <1>8 DEF Tick, vars, authority
  <2>2. SteadyInv'
    BY <1>4, <2>1 DEF SteadyInv, ReqInv, Stamped
  <2>. QED  BY <1>1, <1>4, <2>1, <2>2, NobodyJoins
<1>. QED  BY <1>5, <1>6, <1>7, <1>8 DEF Next

LEMMA CountBound ==
    ASSUME IInv
    PROVE  ThresholdHolds
<1>1. SUFFICES ASSUME OneCount, SteadyInv, CountInv, Types
               PROVE  Tries <= MaxFail + Cardinality(set.workers) - 1
  BY DEF IInv, ThresholdHolds
<1>2. OnTheWay \subseteq Trying
  <2>1. ASSUME NEW w \in OnTheWay PROVE MayTry(req[w])
    <3>1. w \in Workers /\ req[w] \in Requests /\ req[w].pc # "idle"
      BY <1>1, <2>1 DEF OnTheWay, Types
    <3>2. w \in set.workers /\ Stamped(req[w].state) /\ req[w].state \in State
      BY <1>1, <3>1 DEF SteadyInv, ReqInv, Requests
    <3>3. Refused(w, req[w].state) <=> req[w].state.fail >= MaxFail
      BY <1>1, <3>2, Counters
    <3>. QED  BY <2>1, <3>2, <3>3 DEF OnTheWay, MayTry, State
  <2>. QED  BY <2>1 DEF Trying, TryingIn, OnTheWay
<1>3. /\ IsFiniteSet(Trying) /\ Cardinality(Trying) \in Nat /\ Cardinality(set.workers) \in Nat
  BY <1>1, TryingFinite DEF Types, SteadyInv, Trying
<1>4. Cardinality(OnTheWay) <= Cardinality(Trying) /\ Cardinality(OnTheWay) \in Nat
  BY <1>2, <1>3, FS_Subset, FS_CardinalityType
<1>5. tried \in Nat /\ tried + Cardinality(Trying) <= MaxFail + Cardinality(set.workers) - 1
  BY <1>1 DEF Types, CountInv
<1>. QED  BY <1>3, <1>4, <1>5 DEF Tries

\* For every number of KDCs and requests and every threshold: while one count
\* goes on, no more wrong passwords are tried than pw_max_fail and one for
\* each other request in flight (check_lockout, audit_as, the stores' apply).
THEOREM Threshold == Spec => []ThresholdHolds
<1>1. Init => IInv
  BY InitCount
<1>2. IInv /\ [Next]_vars => IInv'
  BY NextCount
<1>3. IInv => ThresholdHolds
  BY CountBound
<1>. QED  BY <1>1, <1>2, <1>3, PTL DEF Spec

=============================================================================
