------------------------------- MODULE Ccache -------------------------------
(***************************************************************************)
(* Credential caches (src/ccache/): FILE caches, alone or as the tkt*      *)
(* files of a DIR collection with a primary file, shared by this client    *)
(* and one other program. The library takes no lock on a cache file:       *)
(* initialize truncates and then writes, store reads the header and then   *)
(* appends, remove_cred reads the file twice and then rewrites it, and any *)
(* step of the other program may come between.                             *)
(*                                                                         *)
(* A credential records the names it is filed under (c, s, sr) and, as     *)
(* ghost fields, the client and server name the KDC put in its ticket (tc, *)
(* ts). Enctypes, authorization data and config entries are left out.      *)
(***************************************************************************)
EXTENDS Naturals, Sequences, FiniteSets

CONSTANT Configs   \* settings, starting caches and bounds: maxTime (clock)
                   \* and maxOther (operations of the other program)

ASSUME CcacheBounds == \A c \in Configs : c.maxTime \in Nat /\ c.maxOther \in Nat

VARIABLES
  cfg,      \* settings of this run
  now,      \* clock
  files,    \* per cache name: the file
  primary,  \* the name in the collection's primary file, or "none"
  oth,      \* the other program: [pc, n, p, data]
  did       \* operations it has started

cvars == <<cfg, now, files, primary, oth, did>>

Names == {"tkt", "tktX"}
Realms == {"A", "M", "B"}
Tgs(r) == <<"krbtgt", r>>
IsTgs(n) == Len(n) = 2 /\ n[1] = "krbtgt"
Princ(n, r) == [n |-> n, r |-> r]
None == Princ(<<>>, "none")
NoCred == [c |-> None, s |-> <<>>, sr |-> "none", end |-> 0, skey |-> FALSE, sec |-> "none", okd |-> FALSE,
           tc |-> None, ts |-> <<>>]

(***************************************************************************)
(* A cache file: none; torn (truncated, nothing written yet); mess         *)
(* (records without a header); ok; junk (a header, then unreadable bytes). *)
(***************************************************************************)
NoFile == [st |-> "none", p |-> None, recs |-> <<>>]
Torn == [NoFile EXCEPT !.st = "torn"]
Opened(f) == f.st \in {"ok", "junk"}       \* read_all: header and principal parse
Principal(f) == f.p

\* write_all of a header for p by a program that truncated the file: what
\* is found after it are the bytes others wrote meanwhile. A file that was
\* replaced is not reached any more.
HeaderOver(f, p) ==
  CASE f.st = "torn" -> {[st |-> "ok", p |-> p, recs |-> <<>>]}
    [] f.st = "mess" -> {[st |-> "junk", p |-> p, recs |-> <<>>]}
    [] f.st = "none" -> {f}
    [] OTHER -> {f, [f EXCEPT !.p = p], [st |-> "junk", p |-> p, recs |-> <<>>]}

Appended(f, cred) ==
  CASE f.st = "ok" -> [f EXCEPT !.recs = Append(@, cred)]
    [] f.st \in {"torn", "mess"} -> [f EXCEPT !.st = "mess"]
    [] OTHER -> f

(***************************************************************************)
(* creds_match_request and retrieve_in: the first credential that matches. *)
(* m: c (None: any), s, sr ("any": the name only), skey, end (0: any), sec *)
(* ("any").                                                                *)
(***************************************************************************)
CredsMatch(m, cred) ==
  /\ m.c = None \/ m.c = cred.c
  /\ m.s = cred.s
  /\ m.sr = "any" \/ m.sr = cred.sr
  /\ m.skey = cred.skey
  /\ m.end <= cred.end
  /\ m.sec = "any" \/ m.sec = cred.sec

Retrieve(f, m) ==
  LET hit == {i \in DOMAIN f.recs : CredsMatch(m, f.recs[i])}
  IN IF f.st # "ok" THEN [k |-> "error", cred |-> NoCred]
     ELSE IF hit = {} THEN [k |-> "miss", cred |-> NoCred]
     ELSE [k |-> "hit", cred |-> f.recs[CHOOSE i \in hit : \A j \in hit : i <= j]]

(***************************************************************************)
(* Collections and selection. A DIR collection lists its primary first; a  *)
(* FILE default is a collection of one.                                    *)
(***************************************************************************)
Exists(n) == files[n].st # "none"

\* read_primary: a directory without a primary file has the cache "tkt".
ReadPrimary == IF primary # "none" THEN primary ELSE "tkt"

\* The caches that exist; the primary comes first.
Collection == {n \in (IF cfg.dir THEN Names ELSE {"tkt"}) : Exists(n)}

Default == IF cfg.dir THEN ReadPrimary ELSE "tkt"
PrimaryMade == IF cfg.dir /\ primary = "none" THEN "tkt" ELSE primary

\* The first cache of the collection that is one of these.
First(these) ==
  LET hit == Collection \cap these
  IN IF hit = {} THEN "none" ELSE IF Default \in hit THEN Default ELSE CHOOSE n \in hit : TRUE

CacheMatch(p) == First({n \in Names : Opened(files[n]) /\ Principal(files[n]) = p})

RealmChoose(sr) ==
  IF sr = "" THEN "none" ELSE First({n \in Names : Opened(files[n]) /\ Principal(files[n]).r = sr})

\* hostname: stops with an error at a cache without a principal.
HostnameChoose(host) ==
  IF host = "none" THEN "none"
  ELSE IF \E n \in Collection : ~Opened(files[n]) THEN "error"
  ELSE First({n \in Names : Principal(files[n]).r = host})

\* select_cache: k5identity decides alone when it names a client for the
\* server; then realm, then hostname, then the default cache.
SelectCache(sr) ==
  IF cfg.ident # None THEN (IF CacheMatch(cfg.ident) = "none" THEN "error" ELSE CacheMatch(cfg.ident))
  ELSE IF RealmChoose(sr) # "none" THEN RealmChoose(sr)
  ELSE IF HostnameChoose(cfg.host) # "none" THEN HostnameChoose(cfg.host)
  ELSE Default

(***************************************************************************)
(* The other program, using the same library.                              *)
(***************************************************************************)
OwnTgt(p) == [c |-> p, s |-> Tgs(p.r), sr |-> p.r, end |-> now + 1, skey |-> FALSE, sec |-> "none", okd |-> FALSE,
              tc |-> p, ts |-> Tgs(p.r)]

Idle == [pc |-> "idle", n |-> "none", p |-> None, data |-> NoFile]

Begin(op) == oth.pc = "idle" /\ did < cfg.maxOther /\ did' = did + 1 /\ oth' = op

OtherTruncate(n, p) ==
  /\ Begin([Idle EXCEPT !.pc = "header", !.n = n, !.p = p])
  /\ files' = [files EXCEPT ![n] = Torn]
  /\ UNCHANGED <<cfg, now, primary>>

OtherHeader ==
  /\ oth.pc = "header"
  /\ \E f \in HeaderOver(files[oth.n], oth.p) : files' = [files EXCEPT ![oth.n] = f]
  /\ oth' = [oth EXCEPT !.pc = "store"]
  /\ UNCHANGED <<cfg, now, primary, did>>

OtherStore ==
  /\ oth.pc = "store"
  /\ oth' = IF Opened(files[oth.n]) THEN [oth EXCEPT !.pc = "append"] ELSE Idle
  /\ UNCHANGED <<cfg, now, files, primary, did>>

OtherAppend ==
  /\ oth.pc = "append"
  /\ files' = [files EXCEPT ![oth.n] = Appended(files[oth.n], OwnTgt(oth.p))]
  /\ oth' = Idle
  /\ UNCHANGED <<cfg, now, primary, did>>

OtherDestroy(n) ==
  /\ Begin(Idle) /\ Exists(n)
  /\ files' = [files EXCEPT ![n] = NoFile]
  /\ UNCHANGED <<cfg, now, primary>>

OtherSwitch(n) ==
  /\ Begin(Idle) /\ cfg.dir
  /\ primary' = n
  /\ UNCHANGED <<cfg, now, files>>

\* remove_cred: the bytes of the first read are patched where the second
\* read found the record, and written over the file.
OtherRemoveRead(n) ==
  /\ Opened(files[n])
  /\ Begin([Idle EXCEPT !.pc = "scan", !.n = n, !.data = files[n]])
  /\ UNCHANGED <<cfg, now, files, primary>>

OtherRemoveScan(i) ==
  LET f == files[oth.n]
      old == oth.data
      same == /\ i <= Len(old.recs)
              /\ f.p = old.p
              /\ SubSeq(f.recs, 1, i) = SubSeq(old.recs, 1, i)
      cut == SubSeq(old.recs, 1, i - 1) \o SubSeq(old.recs, i + 1, Len(old.recs))
  IN /\ oth.pc = "scan"
     /\ oth' = IF f.st # "ok" \/ i \notin DOMAIN f.recs \/ i > Len(old.recs) THEN Idle   \* error or panic
               ELSE [oth EXCEPT !.pc = "cut", !.data = IF same /\ old.st = "ok" THEN [old EXCEPT !.recs = cut]
                                                       ELSE [old EXCEPT !.st = "junk", !.recs = <<>>]]
     /\ UNCHANGED <<cfg, now, files, primary, did>>

OtherRemoveTruncate ==
  /\ oth.pc = "cut"
  /\ files' = [files EXCEPT ![oth.n] = Torn]
  /\ oth' = [oth EXCEPT !.pc = "write"]
  /\ UNCHANGED <<cfg, now, primary, did>>

OtherRemoveWrite ==
  /\ oth.pc = "write"
  /\ files' = [files EXCEPT ![oth.n] = CASE @.st = "torn" -> oth.data
                                         [] @.st = "none" -> @
                                         [] OTHER -> [oth.data EXCEPT !.st = "junk", !.recs = <<>>]]
  /\ oth' = Idle
  /\ UNCHANGED <<cfg, now, primary, did>>

Tick ==
  /\ now < cfg.maxTime
  /\ now' = now + 1
  /\ UNCHANGED <<cfg, files, primary, oth, did>>

Other ==
  \/ \E n \in Names, p \in cfg.others : OtherTruncate(n, p)
  \/ OtherHeader
  \/ OtherStore
  \/ OtherAppend
  \/ \E n \in Names : OtherDestroy(n)
  \/ \E n \in Names : OtherSwitch(n)
  \/ \E n \in Names : OtherRemoveRead(n)
  \/ \E i \in 1..3 : OtherRemoveScan(i)
  \/ OtherRemoveTruncate
  \/ OtherRemoveWrite
  \/ Tick

CcInit ==
  /\ cfg \in Configs
  /\ now = 0
  /\ files = [n \in Names |-> cfg.files[n]]
  /\ primary \in (IF cfg.dir THEN {"none", "tkt", "tktX"} ELSE {"none"})
  /\ oth = Idle
  /\ did = 0
=============================================================================
