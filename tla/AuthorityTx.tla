---------------------------- MODULE AuthorityTx ----------------------------
(***************************************************************************)
(* The transactions of the CockroachDB authority (db.rs of the cockroach   *)
(* crate): the pool of connections, the client side of CockroachDB's retry *)
(* protocol, and the marker row by which a COMMIT of unknown outcome is    *)
(* recognised.  A step is one exchange with the server.                    *)
(*                                                                         *)
(* The bodies are opaque.  Each run of a body is an attempt with a number  *)
(* of its own; an attempt that commits leaves a marker of its caller.      *)
(***************************************************************************)
EXTENDS Integers, FiniteSets

CONSTANTS
  Callers,      \* the calls of run_tx and run_read
  Readers,      \* those of run_read
  Connections,  \* bound: connections the pool may hold (pool_size)
  MaxRetries,   \* Db::max_retries
  MarkerFinal,  \* a marker that is read settles a COMMIT still under way
  MaxTxFaults   \* bound: errors, other than retries, and dropped callers

ASSUME TxAssumption ==
  /\ Readers \subseteq Callers /\ MaxRetries \in Nat /\ MaxTxFaults \in Nat
  /\ MarkerFinal \in BOOLEAN /\ 0 \notin Connections

VARIABLES
  txpc,       \* where each caller is
  held,       \* the connection it holds (Guarded), 0 for none
  retries,    \* `attempt`: the retries counted
  attempts,   \* attempts begun, the last of which is the present one
  spare,      \* ambiguous_result: the attempt whose output is kept, 0 for none
  output,     \* the attempt whose output the caller got, 0 for none
  sess,       \* a connection: none, idle, in a transaction, or lost
  pool,       \* idle connections
  undecided,  \* attempts whose COMMIT was received and is not yet decided
  committed,  \* attempts that committed: their rows and their markers
  txfaults

txVars == <<txpc, held, retries, attempts, spare, output, sess, pool, undecided, committed, txfaults>>

----------------------------------------------------------------------------
TxEnded == {"ok", "err", "dropped"}
Now(w) == <<w, attempts[w]>>
Marked(w) == \E a \in committed : a[1] = w

TxStep(w, from, to) == txpc[w] = from /\ txpc' = [txpc EXCEPT ![w] = to]
TxFault == txfaults < MaxTxFaults /\ txfaults' = txfaults + 1

\* A mutant of Drop: every connection is recycled.
Drop_Recycled(w, clean) ==
  /\ held' = [held EXCEPT ![w] = 0]
  /\ pool' = IF held[w] # 0 THEN pool \cup {held[w]} ELSE pool
  /\ UNCHANGED sess

\* Drop for Guarded: a connection goes back to the pool only when its
\* transaction ended cleanly, and is closed otherwise, which aborts what is
\* open on it.
Drop(w, clean) ==
  /\ held' = [held EXCEPT ![w] = 0]
  /\ pool' = IF clean /\ held[w] # 0 THEN pool \cup {held[w]} ELSE pool
  /\ sess' = IF clean \/ held[w] = 0 THEN sess ELSE [sess EXCEPT ![held[w]] = "none"]

\* again: a retry is counted; past the limit it is a failure.
RetryOr(w, to) ==
  /\ retries' = [retries EXCEPT ![w] = @ + 1]
  /\ txpc' = [txpc EXCEPT ![w] = IF retries[w] + 1 > MaxRetries THEN "fail" ELSE to]

----------------------------------------------------------------------------
\* The server (external) decides a COMMIT it has received.
Decide(a) ==
  /\ undecided' = undecided \ {a}
  /\ committed' = committed \cup {a} \/ committed' = committed
  /\ UNCHANGED <<txpc, held, retries, attempts, spare, output, sess, pool, txfaults>>

\* A mutant of Looks: the marker is looked for under an id no attempt left.
Looks_Never(w) == FALSE

\* marker_exists looks for a marker under the id that all attempts share.
Looks(w) == Marked(w)

\* The read of the markers, on another connection: it waits for what the
\* server has still to decide when the server makes it wait.
MarkerExists(w, found, absent, failed) ==
  \/ /\ MarkerFinal => \A a \in undecided : a[1] # w
     /\ IF Looks(w) THEN found ELSE absent
     /\ UNCHANGED txfaults
  \/ TxFault /\ failed

End(w, as) == txpc' = [txpc EXCEPT ![w] = as]

\* The top of run_tx's loop: after an ambiguous COMMIT the marker is looked
\* for again before the body runs again.
Top(w) ==
  /\ txpc[w] = "top"
  /\ IF spare[w] = 0
     THEN End(w, "get") /\ UNCHANGED <<output, txfaults>>
     ELSE MarkerExists(w, End(w, "ok") /\ output' = [output EXCEPT ![w] = spare[w]],
                          End(w, "get") /\ UNCHANGED output,
                          End(w, "err") /\ UNCHANGED output)
  /\ UNCHANGED <<held, retries, attempts, spare, sess, pool, undecided, committed>>

\* Db::get: a pooled connection, or a new one while the pool is below its
\* size; a caller that waits too long gets an error.
Get(w) ==
  \/ /\ TxStep(w, "get", "begin")
     /\ \/ \E c \in pool : /\ pool' = pool \ {c}
                           /\ held' = [held EXCEPT ![w] = c]
                           /\ UNCHANGED sess
        \/ \E c \in Connections : /\ pool = {} /\ sess[c] = "none"
                                  /\ sess' = [sess EXCEPT ![c] = "idle"]
                                  /\ held' = [held EXCEPT ![w] = c]
                                  /\ UNCHANGED pool
     /\ UNCHANGED txfaults
  \/ TxStep(w, "get", "err") /\ TxFault /\ UNCHANGED <<held, sess, pool>>

GetConnection(w) == Get(w) /\ UNCHANGED <<retries, attempts, spare, output, undecided, committed>>

\* BEGIN, and for a write the savepoint.
BeginTx(w) ==
  /\ \/ /\ TxStep(w, "begin", "body")
        /\ sess' = [sess EXCEPT ![held[w]] = "open"]
        /\ UNCHANGED txfaults
     \/ /\ TxStep(w, "begin", "fail") /\ TxFault
        /\ UNCHANGED sess
  /\ UNCHANGED <<held, retries, attempts, spare, output, pool, undecided, committed>>

\* The body, the marker and RELEASE SAVEPOINT.  On a serialization failure a
\* write goes back to the savepoint, or starts over when that fails.
Body(w) ==
  /\ txpc[w] = "body"
  /\ attempts' = [attempts EXCEPT ![w] = @ + 1]
  /\ \/ End(w, "commit") /\ UNCHANGED <<retries, txfaults>>
     \/ w \notin Readers /\ RetryOr(w, "body") /\ UNCHANGED txfaults
     \/ w \notin Readers /\ RetryOr(w, "restart") /\ TxFault
     \/ w \in Readers /\ End(w, "reread") /\ UNCHANGED <<retries, txfaults>>
     \/ End(w, "fail") /\ TxFault /\ UNCHANGED retries
  /\ UNCHANGED <<held, spare, output, sess, pool, undecided, committed>>

\* COMMIT of a write: done, refused with a serialization failure, answered
\* with SQLSTATE 40003, or not answered.
Commit(w) ==
  /\ txpc[w] = "commit" /\ w \notin Readers
  /\ \/ /\ committed' = committed \cup {Now(w)}
        /\ sess' = [sess EXCEPT ![held[w]] = "idle"]
        /\ End(w, "done")
        /\ UNCHANGED <<retries, undecided, txfaults>>
     \/ /\ RetryOr(w, "restart")
        /\ UNCHANGED <<sess, undecided, committed, txfaults>>
     \/ /\ TxFault
        /\ undecided' = undecided \cup {Now(w)}
        /\ sess' = [sess EXCEPT ![held[w]] = "idle"]
        /\ End(w, "resolve")
        /\ UNCHANGED <<retries, committed>>
     \/ /\ TxFault
        /\ undecided' = undecided \cup {Now(w)} \/ UNCHANGED undecided
        /\ sess' = [sess EXCEPT ![held[w]] = "lost"]
        /\ End(w, "fail")
        /\ UNCHANGED <<retries, committed>>
  /\ UNCHANGED <<held, attempts, spare, output, pool>>

\* resolve_ambiguous: the marker proves the COMMIT, or the transaction runs
\* again under the same id with its output kept.
ResolveAmbiguous(w) ==
  /\ txpc[w] = "resolve"
  /\ MarkerExists(w,
       /\ End(w, "ok") /\ output' = [output EXCEPT ![w] = attempts[w]]
       /\ Drop(w, FALSE) /\ UNCHANGED <<retries, spare>>,
       /\ RetryOr(w, "top") /\ UNCHANGED output
       /\ IF retries[w] + 1 > MaxRetries
          THEN UNCHANGED <<spare, held, sess, pool>>
          ELSE spare' = [spare EXCEPT ![w] = attempts[w]] /\ Drop(w, FALSE),
       End(w, "fail") /\ UNCHANGED <<output, retries, spare, held, sess, pool>>)
  /\ UNCHANGED <<attempts, undecided, committed>>

\* Ok(v): the connection is clean.
Succeed(w) ==
  /\ TxStep(w, "done", "ok")
  /\ Drop(w, TRUE)
  /\ output' = [output EXCEPT ![w] = attempts[w]]
  /\ UNCHANGED <<retries, attempts, spare, undecided, committed, txfaults>>

\* Attempt::Restart: ROLLBACK, whatever its answer, and a new connection.
Restart(w) ==
  /\ TxStep(w, "restart", "top")
  /\ Drop(w, FALSE)
  /\ UNCHANGED <<retries, attempts, spare, output, undecided, committed, txfaults>>

\* Attempt::Fail: the connection is clean when ROLLBACK works.  A COMMIT that
\* was ambiguous in an earlier round may have happened after all.
Rollback(w, then) ==
  \/ /\ sess[held[w]] # "lost"
     /\ sess' = [sess EXCEPT ![held[w]] = "idle"]
     /\ pool' = pool \cup {held[w]}
     /\ held' = [held EXCEPT ![w] = 0]
     /\ End(w, then)
     /\ UNCHANGED txfaults
  \/ /\ IF sess[held[w]] = "lost" THEN UNCHANGED txfaults ELSE TxFault
     /\ Drop(w, FALSE)
     /\ End(w, then)

FailTx(w) ==
  /\ txpc[w] = "fail"
  /\ Rollback(w, IF w \in Readers \/ spare[w] = 0 THEN "err" ELSE "failed")
  /\ UNCHANGED <<retries, attempts, spare, output, undecided, committed>>

Failed(w) ==
  /\ txpc[w] = "failed"
  /\ MarkerExists(w, End(w, "ok") /\ output' = [output EXCEPT ![w] = spare[w]],
                     End(w, "err") /\ UNCHANGED output,
                     End(w, "err") /\ UNCHANGED output)
  /\ UNCHANGED <<held, retries, attempts, spare, sess, pool, undecided, committed>>

\* run_read: COMMIT, or ROLLBACK and, after a serialization failure, again.
CommitRead(w) ==
  /\ txpc[w] = "commit" /\ w \in Readers
  /\ \/ End(w, "done") /\ sess' = [sess EXCEPT ![held[w]] = "idle"] /\ UNCHANGED txfaults
     \/ End(w, "reread") /\ UNCHANGED <<sess, txfaults>>
     \/ End(w, "fail") /\ TxFault /\ UNCHANGED sess
  /\ UNCHANGED <<held, retries, attempts, spare, output, pool, undecided, committed>>

Reread(w) ==
  /\ txpc[w] = "reread"
  /\ retries' = [retries EXCEPT ![w] = @ + 1]
  /\ Rollback(w, IF retries[w] + 1 > MaxRetries THEN "err" ELSE "get")
  /\ UNCHANGED <<attempts, spare, output, undecided, committed>>

\* The caller's future is dropped at an await: nothing runs but Guarded's
\* drop.  A COMMIT that was sent may still be performed.
Cancel(w) ==
  /\ txpc[w] \notin TxEnded \cup {"done"} /\ TxFault
  /\ End(w, "dropped")
  /\ Drop(w, FALSE)
  /\ undecided' = undecided \/ (txpc[w] = "commit" /\ w \notin Readers /\ undecided' = undecided \cup {Now(w)})
  /\ UNCHANGED <<retries, attempts, spare, output, committed>>

----------------------------------------------------------------------------
TxInit ==
  /\ txpc = [w \in Callers |-> "top"]
  /\ held = [w \in Callers |-> 0]
  /\ retries = [w \in Callers |-> 0]
  /\ attempts = [w \in Callers |-> 0]
  /\ spare = [w \in Callers |-> 0]
  /\ output = [w \in Callers |-> 0]
  /\ sess = [c \in Connections |-> "none"]
  /\ pool = {}
  /\ undecided = {}
  /\ committed = {}
  /\ txfaults = 0

CallerStep(w) ==
  \/ Top(w) \/ GetConnection(w) \/ BeginTx(w) \/ Body(w) \/ Commit(w) \/ ResolveAmbiguous(w) \/ Succeed(w)
  \/ Restart(w) \/ FailTx(w) \/ Failed(w) \/ CommitRead(w) \/ Reread(w) \/ Cancel(w)

TxNext == (\E w \in Callers : CallerStep(w)) \/ (\E a \in undecided : Decide(a))

TxSpec == TxInit /\ [][TxNext]_txVars

----------------------------------------------------------------------------
\* A transaction takes effect at most once however often its body runs, and
\* once when run_tx says it did: with a server whose marker read settles a
\* COMMIT under way, an attempt runs again only when none has committed or
\* will.
AppliedOnce ==
  \A w \in Callers \ Readers :
    /\ \A a, b \in committed : a[1] = w /\ b[1] = w => a = b
    /\ txpc[w] = "ok" => Marked(w)

\* No connection in the pool is in a transaction: whatever fails, and wherever
\* a caller is dropped, the next caller's BEGIN and statements are its own.
PoolClean == \A c \in pool : sess[c] = "idle"

\* Attempt::Ambiguous: "retain the result in case the marker appears".  What
\* run_tx returns is the output of the attempt that committed.
OutputCommitted ==
  \A w \in Callers \ Readers : txpc[w] = "ok" => <<w, output[w]>> \in committed
=============================================================================
