------------------------------- MODULE MCIprop -------------------------------
EXTENDS Iprop, TLC

CONSTANTS a1, a2, k1, k2, t1, t2

(* One resync at a time of each database, and two that overlap: two writes
   with one task, one with two. *)
FileAndKlmdb == {<<"file", {t1}>>, <<"file", {t1, t2}>>, <<"klmdb", {t1}>>}
Writes == <<2, 1>>
FileOne == {<<"file", {t1}>>}
KlmdbOne == {<<"klmdb", {t1}>>}

=============================================================================
