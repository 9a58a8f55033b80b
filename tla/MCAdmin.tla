------------------------------ MODULE MCAdmin ------------------------------
(***************************************************************************)
(* Two threads, two principals, one policy.  The ACL: a full               *)
(* administrator, one whose new principals must keep a policy and an       *)
(* attribute, and every user's root instance, which may change that user's *)
(* password.                                                               *)
(***************************************************************************)
EXTENDS Admin, TLC

CONSTANTS w1, w2

MCWorkers == {w1, w2}
U == <<"u">>
V == <<"v">>
Adm == <<"adm">>
Op == <<"op">>
Root == <<"u", "root">>
MCNames == {U, V}
MCPolicies == {"p"}

All == {"add", "delete", "modify", "changepw", "setkey"}
MCAcl == <<[client |-> Adm, target |-> None, ops |-> All, restr |-> NoRestr],
           [client |-> Op, target |-> None, ops |-> {"add", "modify", "delete"},
            restr |-> [mask |-> {"attrs", "policy", "life"}, require |-> {"preauth"},
                       forbid |-> {"postdate"}, policy |-> "p", life |-> 1]],
           [client |-> <<"*", "root">>, target |-> <<"*1">>, ops |-> {"changepw"},
            restr |-> NoRestr]>>

Call(op, c, t) == Req(op, c, t, V)
Pol(h, m) == [history |-> h, minlife |-> m, minlen |-> 1]

SetPw(c, p) == [Call("chpass", c, U) EXCEPT !.pw = p]
SetAttrs(a) == [Call("modify", Adm, U) EXCEPT !.mask = {"attrs"}, !.attrs = a]
SetPol(h, m) == [Call("modpol", Adm, None) EXCEPT !.policy = "p", !.rec = Pol(h, m)]
RekeyHist == Call("rekey", Adm, <<"kadmin", "history">>)

\* Password changes while the policy's history and its key change.
Histories ==
    {SetPw(Adm, p) : p \in {"a", "b", "e", "word"}} \cup {SetPol(3, 0), SetPol(5, 0), RekeyHist}

\* Every way to change keys, by the principal, an administrator and the
\* principal's root instance, around lockdown_keys.
Keys ==
    {SetPw(Adm, "b"), SetAttrs({"lockdown"}), SetAttrs({}), Call("delete", Adm, U),
     Call("rename", Adm, U), Call("setstr", Adm, U),
     [Call("chrand", U, U) EXCEPT !.keep = TRUE, !.changepw = TRUE],
     [Call("kpasswd", U, U) EXCEPT !.pw = "c"],
     [SetPw(Root, "d") EXCEPT !.keep = TRUE],
     [Call("chpass", Root, V) EXCEPT !.pw = "b"],
     [Call("setkey", Adm, U) EXCEPT !.kvno = 2, !.keep = TRUE],
     [Call("purge", U, U) EXCEPT !.kvno = 2]}

\* Names added, moved and removed by the two administrators.
Entries ==
    {[Call("create", Op, V) EXCEPT !.pw = "a"],
     [Call("create", Adm, V) EXCEPT !.pw = "a", !.mask = {"policy"}, !.policy = "p"],
     [Call("modify", Op, V) EXCEPT !.mask = {"life"}, !.life = 2],
     [Call("modify", Op, V) EXCEPT !.mask = {"life"}, !.life = 0],
     [Call("create", Op, V) EXCEPT !.mask = {"life"}, !.life = -1],
     [Call("modify", Op, V) EXCEPT !.mask = {"attrs", "clrpolicy"}, !.attrs = {"postdate"}],
     Call("delete", Adm, V), Call("rename", Adm, U), Call("rename", Op, U),
     Call("alias", Adm, U), Call("alias", Op, U),
     [Call("delpol", Adm, None) EXCEPT !.policy = "p"],
     [Call("addpol", Adm, None) EXCEPT !.policy = "p", !.rec = Pol(3, 1)]}
\* u with its first password under p, and u after three changes under a
\* history of four.
Fresh ==
    [keys |-> <<[kvno |-> 1, key |-> "a"]>>, attrs |-> {}, policy |-> "p", life |-> 2,
     last |-> 0, ring |-> <<>>, next |-> 0, hkvno |-> 0, queue |-> <<>>,
     alias |-> FALSE, by |-> {Adm}]
Aged ==
    [Fresh EXCEPT !.keys = <<[kvno |-> 4, key |-> "d"]>>, !.hkvno = 2,
                  !.ring = <<"a", "b", "c">>, !.queue = <<"a", "b", "c">>]
Start(u, h, pol, calls_) ==
    [princs |-> [n \in MCNames |-> IF n = U THEN u ELSE None], hist |-> h,
     policies |-> [p \in MCPolicies |-> pol], load |-> calls_]
MCStarts == {Start(Aged, 2, Pol(4, 1), Histories), Start(Fresh, 0, Pol(3, 1), Keys),
             Start(Fresh, 0, Pol(3, 1), Entries)}

Symmetry == Permutations(MCWorkers)
MCStrength == [p \in {"a", "b", "c", "d", "e", "word"} |-> 1]
=============================================================================
