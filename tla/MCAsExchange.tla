---------------------------- MODULE MCAsExchange ----------------------------
(* Settings for TLC: a base client and KDC, and the ways each run varies it. *)
EXTENDS AsExchange

Base == [fast |-> "off", armor |-> 1, home |-> "A", kgroups |-> {1}, kchal |-> 0, cgroups |-> {1, 2},
         kpk |-> FALSE, cpk |-> FALSE, kdh |-> 1, cdh |-> 1, fresh |-> FALSE, preauth |-> TRUE,
         big |-> FALSE, tcp |-> TRUE, identify |-> FALSE, picky |-> FALSE, pw |-> 1, pk0 |-> 1]

Fast(b, F) == {[b EXCEPT !.fast = f] : f \in F}

\* Optimistic challenges, PKINIT with a wrong group and freshness, a home
\* realm elsewhere, a stale replica, with and without FAST.
MCConfigs ==
  Fast(Base, {"off", "opp", "required"})
  \cup Fast([Base EXCEPT !.kchal = 1, !.pk0 = 2, !.pw = 2], {"opp", "required"})
  \cup Fast([Base EXCEPT !.kchal = 1, !.kgroups = {1, 2}, !.cgroups = {2}], {"off"})
  \cup Fast([Base EXCEPT !.kpk = TRUE, !.cpk = TRUE, !.kdh = 2, !.fresh = TRUE], {"off", "opp"})
  \cup {[Base EXCEPT !.kpk = TRUE, !.cpk = TRUE]}
  \cup Fast([Base EXCEPT !.home = "B", !.kgroups = {}], {"off", "required"})
  \cup {[Base EXCEPT !.home = "B", !.kgroups = {}, !.pw = 2], [Base EXCEPT !.pk0 = 2, !.pw = 2]}
  \cup Fast([Base EXCEPT !.kgroups = {}, !.picky = TRUE], {"off", "opp"})
  \cup {[Base EXCEPT !.preauth = FALSE, !.big = TRUE, !.tcp = t] : t \in BOOLEAN}
  \cup {[Base EXCEPT !.identify = TRUE], [Base EXCEPT !.pw = 2, !.kgroups = {}]}
=============================================================================
