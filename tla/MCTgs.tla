-------------------------------- MODULE MCTgs --------------------------------
(* Settings for TLC: what each scenario varies from a base of three realms. *)
EXTENDS Tgs

A == <<"a", "x">>
M == <<"x">>
B == <<"b", "x">>
MCRealms == {A, M, B}

u == [n |-> "u", r |-> A]     \* a user
f == [n |-> "f", r |-> A]     \* a front-end service
s == [n |-> "s", r |-> A]     \* a service
v == [n |-> "v", r |-> B]     \* a user of the other realm
w == [n |-> "w", r |-> B]     \* a service of the other realm
q == [n |-> "q", r |-> M]     \* a user of the middle realm

Plain == [st |-> "on", to |-> {}, from |-> {}]
HostsAt(r) == [u |-> A, f |-> A, s |-> A, v |-> B, w |-> B, q |-> M]
Chain == {<<A, M>>, <<M, A>>, <<M, B>>, <<B, M>>}
Direct == {<<A, B>>, <<B, A>>}
\* The hierarchy puts M between A and B; [capaths] may say it is not.
Hier == [p \in {} |-> <<>>]
Straight == [p \in {<<A, B>>, <<B, A>>} |-> <<>>]

Base == [trust |-> Direct, cap |-> Straight, walk |-> <<>>, hosts |-> [r \in Realms |-> HostsAt(r)],
         canon |-> TRUE, rbcd |-> TRUE, recheck |-> TRUE, reject |-> FALSE, notc |-> FALSE,
         life |-> 1, rlife |-> 2, ren |-> "yes",
         nofwd |-> {}, norenew |-> {}, nosvr |-> {}, t2a |-> {},
         pol |-> [p \in {u, f, s, v, w, q} |-> Plain],
         logins |-> {u}, users |-> {u}, fronts |-> {f}, names |-> {f, s}, kinds |-> {"normal"},
         edited |-> {}, pairs |-> {}, maxTime |-> 0, maxTix |-> 5, maxAdm |-> 1]

\* Referrals and renewals through a middle realm, on or off the path.
Cross ==
  {[Base EXCEPT !.trust = t, !.cap = m, !.names = {w}, !.kinds = {"normal", "renew"},
                !.edited = {u}, !.ren = n, !.reject = j, !.maxTime = 2, !.maxTix = 4] :
     t \in {Chain, Chain \cup Direct}, m \in {Straight, Hier}, n \in {"yes", "ok"},
     j \in BOOLEAN}
  \cup {[Base EXCEPT !.trust = Chain, !.cap = Hier, !.names = {w}, !.notc = TRUE]}

\* Constrained delegation in one realm.
Local ==
  {[Base EXCEPT !.logins = {u, f}, !.kinds = {"normal", "self", "proxy"}, !.names = {f, s},
                !.nofwd = n, !.t2a = t, !.rbcd = b, !.edited = {u}, !.pairs = {<<f, s>>}, !.maxAdm = 2] :
     n \in {{}, {u}}, t \in {{}, {f}}, b \in BOOLEAN}

\* S4U2Self for a user of another realm, and delegation into another realm.
CrossS4u ==
  {[Base EXCEPT !.trust = t, !.cap = Hier, !.logins = {f}, !.users = {v}, !.names = {s},
                !.kinds = {"self", "proxy", "normal"}, !.nofwd = n, !.pairs = {<<f, s>>}, !.maxTix = 6] :
     t \in {Chain, Direct}, n \in {{}, {v}}}
  \cup {[Base EXCEPT !.logins = {u, f}, !.names = {w}, !.kinds = {"self", "proxy", "normal"},
                     !.nofwd = n, !.edited = {u}, !.pairs = {<<f, w>>}, !.maxTix = 6,
                     !.pol = [@ EXCEPT ![w].from = {f}]] : n \in {{}, {u}}}

\* A user of any realm is delegated while the service comes to the target
\* realm by either of two ways, the longer one on or off the path.
TwoRoutes ==
  {[Base EXCEPT !.trust = Chain \cup Direct, !.cap = Hier, !.logins = {f, x}, !.names = {f, w},
                !.kinds = {"proxy", "normal"}, !.maxAdm = 0, !.maxTix = 8, !.reject = j,
                !.pol = [@ EXCEPT ![w].from = {f}]] : j \in BOOLEAN, x \in {q, v}}
  \cup
  {[Base EXCEPT !.trust = Chain \cup Direct, !.cap = m, !.logins = {f, u}, !.names = {f, w},
                !.kinds = {"proxy", "normal"}, !.maxAdm = 0, !.maxTix = 7, !.reject = j,
                !.pol = [@ EXCEPT ![w].from = {f}]] : j \in BOOLEAN, m \in {Straight, Hier}}

\* The evidence comes through a third realm, on or off the path.
FarEvidence ==
  {[Base EXCEPT !.trust = Chain, !.cap = m, !.logins = {f, v}, !.names = {f, s},
                !.kinds = {"proxy", "normal"}, !.maxAdm = 0, !.maxTix = 6, !.reject = j,
                !.pol = [@ EXCEPT ![f].to = {s}]] : j \in BOOLEAN, m \in {Straight, Hier}}

\* A forwarded TGT, and a service reached by user-to-user tickets only.
Others ==
  {[Base EXCEPT !.kinds = {"normal", "forward", "renew"}, !.nofwd = n, !.norenew = {s}, !.ren = "ok",
                !.maxTime = 1] :
     n \in {{}, {u}}}
  \cup {[Base EXCEPT !.kinds = {"normal", "u2u"}, !.logins = {u, s}, !.nosvr = {s}, !.ren = "no"]}
  \cup {[Base EXCEPT !.kinds = {"normal", "forward", "self"}, !.logins = {f}, !.fronts = {s}, !.nofwd = n, !.names = {s}] :
          n \in {{}, {u}}}

MCConfigs ==
  {[c EXCEPT !.walk = Walks(c.cap)] : c \in Cross \cup Local \cup CrossS4u \cup TwoRoutes \cup FarEvidence \cup Others}
=============================================================================
