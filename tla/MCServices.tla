----------------------------- MODULE MCServices -----------------------------
(***************************************************************************)
(* What carries the protocols: the client's search for a KDC (SendTo), the *)
(* KDC daemon that answers (KdcDaemon), an authenticated channel between   *)
(* two principals (ApChannel), the propagation that uses one (Kprop), the  *)
(* transactions of the CockroachDB authority (AuthorityTx), and the        *)
(* collections of credential caches processes share (Collection).          *)
(* They share no state.  Each behaviour is one of them, chosen at the      *)
(* start; the others keep a fixed initial state.                           *)
(***************************************************************************)
EXTENDS SendTo, ApChannel, Kprop, KdcDaemon, Collection, AuthorityTx

VARIABLE sys

----------------------------------------------------------------------------
(* Realms with servers in the profile, in DNS URI or SRV records, or none. *)

Realm == [profile |-> << >>, dns |-> TRUE, useUri |-> TRUE, uri |-> << >>, srvUdp |-> << >>,
          srvTcp |-> << >>, https |-> TRUE, large |-> FALSE, deadline |-> FALSE]
NoServers == [Realm EXCEPT !.dns = FALSE]

MCRealms ==
  {[b EXCEPT !.deadline = TRUE] :
     b \in {[Realm EXCEPT !.profile = <<"host">>],
            [Realm EXCEPT !.profile = <<"host">>, !.large = TRUE],
            [Realm EXCEPT !.uri = <<"udp", "tcp">>],
            [Realm EXCEPT !.srvUdp = <<"udp", "udp">>, !.srvTcp = <<"tcp">>, !.useUri = FALSE],
            [Realm EXCEPT !.profile = <<"https", "unix">>]}}
  \cup {NoServers, [Realm EXCEPT !.profile = <<"host">>]}

----------------------------------------------------------------------------
(* Contexts by the flags, keys and addresses of the two sides, under a     *)
(* network that repeats, reorders and reflects; and every first number of  *)
(* an honest peer, of this code and of one that encodes numbers signed.    *)

Context == [flags |-> {"seq"}, sflags |-> {}, mutual |-> TRUE, negotiate |-> FALSE, subkey |-> FALSE,
            addrs |-> FALSE, chain |-> FALSE, kinds |-> {"safe"}, signed |-> FALSE, bc |-> 6,
            bs |-> 12, etypes |-> [p \in Sides |-> <<18, 17>>], tktetype |-> 17, kvno |-> 1,
            kvnos |-> {1}, end |-> 9, senders |-> {"c", "s"}, readers |-> {"s"}, any |-> TRUE,
            msgs |-> 2]
Hostile ==
  {Context,
   [Context EXCEPT !.kinds = {"priv"}, !.chain = TRUE, !.senders = {"c"}],
   [Context EXCEPT !.flags = {"time"}, !.kinds = {"priv"}, !.subkey = TRUE],
   [Context EXCEPT !.flags = {"time"}, !.kinds = {"priv"}, !.chain = TRUE, !.senders = {"c"}],
   [Context EXCEPT !.flags = {"time", "seq"}, !.mutual = FALSE, !.kinds = {"safe", "cred"}],
   [Context EXCEPT !.negotiate = TRUE, !.sflags = {"subkey"}, !.subkey = TRUE,
                   !.kinds = {"cred", "priv"}, !.addrs = TRUE],
   [Context EXCEPT !.kvno = 2],
   [Context EXCEPT !.etypes["s"] = <<18>>]}
Sweep == [Context EXCEPT !.bc = 90, !.any = FALSE, !.senders = {"s"}, !.readers = {"c"}, !.msgs = 3]
MCContexts == Hostile \cup {[Sweep EXCEPT !.signed = g, !.bs = n] : n \in 1..63, g \in BOOLEAN}

----------------------------------------------------------------------------
MCRecords == <<2, 1>>

MCPolicy == <<"p">>
MCAudit == <<"a">>
Kind(res, ev) == [res |-> res, ev |-> ev]
Daemon(db, mods, reqs) == [db |-> db, wait |-> FALSE, mods |-> mods, reqs |-> reqs,
                           kinds |-> {Kind("ticket", {"as_req"})}]
\* A request that is refused before the policy modules are asked, and one that
\* is two things to an audit module.
Kinds == {Kind("refused", {"as_req"}), Kind("ticket", {"u2u", "tgs_req"})}
Idle0 == Daemon("keytab", {}, {})
MCDaemons ==
  {Daemon("file", {"p"}, {"t1"}),
   Daemon("cockroach", {}, {"t1", "t2"}),
   Daemon("file", {}, {"u", "t1"}),
   [Daemon("turso", {"a"}, {"u"}) EXCEPT !.kinds = Kinds],
   Daemon("turso", {"p", "a"}, {})}
  \cup {[Daemon(db, {}, {}) EXCEPT !.wait = w] : db \in {"keytab", "klmdb", "kldap"}, w \in BOOLEAN}

----------------------------------------------------------------------------
(* Processes that make and list caches, write and list them, or replace    *)
(* and read one.                                                           *)

Caches == [kind |-> "keyring", replace |-> TRUE, credlist |-> FALSE, offset |-> FALSE,
           calls |-> [p \in CProcs |-> {}], most |-> [p \in CProcs |-> 0]]
Two(c, P, n, Q, k) == [c EXCEPT !.calls["p"] = P, !.most["p"] = n, !.calls["q"] = Q, !.most["q"] = k]
Kcm == [Caches EXCEPT !.kind = "kcm"]
Makers == {"resolve", "new", "init", "destroy", "switch"}
MCCollections ==
  {Caches,
   Two(Caches, {"list", "new"}, 1, Makers, 4),
   Two([Caches EXCEPT !.offset = TRUE], {"resolve", "init", "store"}, 3,
       {"resolve", "init", "store", "remove", "creds"}, 2),
   Two([Kcm EXCEPT !.offset = TRUE], {"list", "new"}, 1, Makers, 4),
   Two(Kcm, {"resolve", "replace", "init", "destroy"}, 3, {"resolve", "creds"}, 2),
   Two([Kcm EXCEPT !.credlist = TRUE], {"resolve", "replace"}, 2, {"resolve", "retrieve", "creds"}, 2),
   Two([Kcm EXCEPT !.replace = FALSE], {"resolve", "replace"}, 2, {"resolve", "store", "remove", "config"}, 2)}

----------------------------------------------------------------------------
SInit ==
  /\ sys \in {"sendto", "ap", "kprop", "daemon", "caches", "tx"}
  /\ Init /\ (sys # "sendto" => cfg = NoServers)
  /\ ApInit /\ (sys # "ap" => acfg = Context)
  /\ KInit
  /\ DInit /\ (sys # "daemon" => dcfg = Idle0)
  /\ CInit /\ (sys # "caches" => ccfg = Caches)
  /\ TxInit

SNext ==
  \/ sys = "sendto" /\ Next /\ UNCHANGED <<sys, apVars, kVars, dVars, cVars, txVars>>
  \/ sys = "ap" /\ ApNext /\ UNCHANGED <<sys, vars, kVars, dVars, cVars, txVars>>
  \/ sys = "kprop" /\ KNext /\ UNCHANGED <<sys, vars, apVars, dVars, cVars, txVars>>
  \/ sys = "daemon" /\ DNext /\ UNCHANGED <<sys, vars, apVars, kVars, cVars, txVars>>
  \/ sys = "caches" /\ CNext /\ UNCHANGED <<sys, vars, apVars, kVars, dVars, txVars>>
  \/ sys = "tx" /\ TxNext /\ UNCHANGED <<sys, vars, apVars, kVars, dVars, cVars>>

\* Of the behaviour that is studied, what its module assumes (SendTo's
\* Fairness and Kprop's KFairness); the other systems never step.
SFairness ==
  /\ WF_vars(sys = "sendto" /\ Loop) /\ WF_vars(sys = "sendto" /\ Deadline)
  /\ WF_kVars(sys = "kprop" /\ DumpStart("loop"))
  /\ \A p \in Pushers : /\ WF_kVars(sys = "kprop" /\ PushStep(p))
                        /\ WF_kVars(sys = "kprop" /\ PushKilled(p) /\ kfaults' = kfaults)
  /\ \A i \in KConns : WF_kVars(sys = "kprop" /\ HandlerStep(i))
  /\ \A h \in KHosts : WF_kVars(sys = "kprop" /\ KAccept(h))

SSpec == SInit /\ [][SNext]_<<sys, vars, apVars, kVars, dVars, cVars, txVars>> /\ SFairness

\* An exchange with a deadline ends, whatever its servers do (SendTo's
\* EndsByDeadline), and every replica that answers has the present database
\* again and again (Kprop's Refilled).
ExchangeEnds == sys = "sendto" => EndsByDeadline
ReplicasRefilled == sys = "kprop" => Refilled
=============================================================================
