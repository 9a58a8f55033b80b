------------------------------ MODULE MCLockout ------------------------------
(* Lockout with few KDCs and requests, for TLC.                            *)
EXTENDS Lockout, TLC

Symmetry == Permutations(Kdcs) \union Permutations(Workers)

Shared ==
    [kdcs |-> Kdcs, workers |-> Workers, interval |-> 0, duration |-> 0, up |-> TRUE,
     success |-> FALSE, time |-> 1, admin |-> 0, flips |-> 0, crashes |-> 1, rebuilds |-> 0]

\* One KDC of the two, cut off from CockroachDB, and its rebuilds
Alone ==
    {[Shared EXCEPT !.kdcs = {k}, !.up = FALSE, !.success = TRUE, !.time = 3, !.rebuilds = 2] :
        k \in Kdcs}

\* One request, the administrator, a count interval and a lockout duration
Administered ==
    {[Shared EXCEPT !.kdcs = {k}, !.workers = {w}, !.interval = 1, !.duration = 1, !.success = TRUE,
                    !.time = 3, !.admin = 3, !.flips = 1, !.crashes = 0] :
        k \in Kdcs, w \in Workers}

MCSettings == {Shared} \union Alone \union Administered

\* One request and an unlock; two requests; two requests and an unlock
Unlocked == {[Shared EXCEPT !.kdcs = {k}, !.workers = {w}, !.time = 3, !.admin = 1, !.crashes = 0] :
                k \in Kdcs, w \in Workers}
Held == {[Shared EXCEPT !.kdcs = {k}, !.time = 2, !.crashes = 0] : k \in Kdcs}
Late == {[Shared EXCEPT !.kdcs = {k}, !.time = 3, !.admin = 1, !.crashes = 0] : k \in Kdcs}

=============================================================================
