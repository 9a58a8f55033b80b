------------------------------- MODULE MCGss --------------------------------
(* Instances of Gss for TLC. *)
EXTENDS Gss

MCMaxMsgs == [krb5 |-> 5, spnego |-> 1, iakerb |-> 1, rpc |-> 0]
MCMaxDeliver == [krb5 |-> 5, spnego |-> 2, iakerb |-> 2, rpc |-> 6]

Base ==
    [kind |-> "krb5", mutual |-> FALSE, replay |-> TRUE, sequence |-> FALSE, icb |-> None,
     acb |-> None, cbt |-> FALSE, itypes |-> <<>>, atypes |-> <<>>, ischemes |-> <<>>,
     aschemes |-> <<>>, optimistic |-> FALSE, cred |-> "none", arealm |-> FALSE]

\* The window: every pair of options.
Plain == {[Base EXCEPT !.replay = r, !.sequence = q] : r, q \in BOOLEAN}

\* Channel bindings
Bound == {[Base EXCEPT !.kind = "spnego", !.itypes = <<"krb5">>, !.atypes = <<"krb5">>, !.icb = i, !.acb = a, !.cbt = b] :
              i \in {None, "x"}, a \in {None, "x", "y"}, b \in BOOLEAN}

\* SPNEGO: what the two sides list, with and without mutual authentication
ITypes == {<<"krb5">>, <<"wrong", "krb5">>, <<"ntlm", "krb5">>, <<"krb5", "ntlm">>,
           <<"negoex", "krb5">>, <<"krb5", "negoex">>, <<"negoex">>}
ATypes == {<<"krb5">>, <<"negoex">>, <<"ntlm", "krb5">>, <<"negoex", "krb5">>}
Nego ==
    {[Base EXCEPT !.kind = "spnego", !.mutual = m, !.itypes = i, !.atypes = a, !.sequence = TRUE,
                  !.ischemes = <<"a", "b">>, !.aschemes = <<"b", "d">>, !.optimistic = FALSE] :
         m \in BOOLEAN, i \in ITypes, a \in ATypes}

\* NegoEx: schemes in every order, optimistic or not
Orders == {<<"a">>, <<"b">>, <<"a", "b">>, <<"b", "a">>, <<"d", "a", "b">>, <<"f", "b">>, <<"e", "b">>,
           <<"g", "a">>, <<"f">>, <<"e", "g", "d">>}
Schemes2 ==
    {[Base EXCEPT !.kind = "spnego", !.itypes = <<"negoex">>, !.atypes = <<"negoex">>,
                  !.ischemes = i, !.aschemes = a, !.optimistic = o] :
         i \in Orders, a \in Orders, o \in BOOLEAN}

Iakerb ==
    {[Base EXCEPT !.kind = "iakerb", !.mutual = m, !.cred = d, !.arealm = r] :
         m \in BOOLEAN, d \in {"no realm", "none", "tgt", "service"}, r \in BOOLEAN}

Rpc == {[Base EXCEPT !.kind = "rpc", !.mutual = m] : m \in BOOLEAN}

MCConfigs == Plain \cup Bound \cup Nego \cup Schemes2 \cup Iakerb \cup Rpc

\* One context, in a window that a gap of its width less one is met in
WindowConfigs == {Base}

\* A list that begins with the old Kerberos OID
OldConfigs == {[Base EXCEPT !.kind = "spnego", !.itypes = <<"old", "krb5">>, !.atypes = <<"krb5">>]}

LegsAll == [s \in {"a", "b", "d", "e", "f", "g"} |->
                IF s \in {"a", "e", "f", "g"} THEN 2 ELSE IF s = "b" THEN 3 ELSE 1]
KeyAtAll == [s \in {"a", "b", "d", "e", "f", "g"} |-> IF s = "b" THEN 3 ELSE 1]
============================================================================
