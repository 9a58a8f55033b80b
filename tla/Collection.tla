----------------------------- MODULE Collection -----------------------------
(***************************************************************************)
(* Cache collections that processes share without a lock: the kernel       *)
(* keyrings of ccache/keyring.rs, and the KCM daemon's caches of           *)
(* ccache/kcm.rs, where each request is a step. A keyctl call that changes *)
(* a keyring, or whose answer a later one relies on, is a step; reading    *)
(* the keys of a list one by one is a single step after the list's.        *)
(* A process runs one library call at a time; what it remembers between    *)
(* two steps (a handle's serial numbers, a list it has read, the name of   *)
(* the primary) may be stale by the next.                                  *)
(*                                                                         *)
(* A cache holds a principal and at most one credential per server.  A     *)
(* keyring's credential is its end time; the daemon's is the number of the *)
(* store that put it there.  Keys that time out are left out: there is no  *)
(* clock, only the time-outs the code sets.                                *)
(***************************************************************************)
EXTENDS Integers, Sequences, FiniteSets, FiniteSetsExt
LOCAL INSTANCE SequencesExt

CONSTANTS
  CProcs,      \* the processes
  CNames,      \* the names a cache can have
  CFirst,      \* the name of the primary of a collection that has none
  CServers,    \* the servers credentials are for
  CEnds,       \* end times of credentials
  CConfigs,    \* which collection, what its daemon can do, and which calls each
               \* process makes, and how many at most
  MaxSerial,   \* bound: keyrings, principal keys and stores
  MaxCFaults   \* bound: requests of the daemon that fail

ASSUME CollectionAssumption ==
  /\ CFirst \in CNames /\ CEnds \subseteq Nat \ {0} /\ MaxSerial \in Nat
  /\ \A c \in CConfigs : c.kind \in {"keyring", "kcm"} /\ c.most \in [CProcs -> Nat]

VARIABLES
  ccfg,      \* the configuration
  primary,   \* the primary's name, or "" when none was ever set
  named,      \* by name, the serial (or UUID) of its cache, 0 for none
  ring,      \* by serial, what the cache holds
  serial,    \* serials given out
  handle,    \* by process, the cache it has open (KeyringCcache, KcmCcache)
  conn,      \* by process, whether its connection to the daemon is open
  call,      \* by process, the library call under way
  done,      \* by process, the calls it has made
  answer,    \* by process, what its last call returned
  stayed,    \* by process that lists, the caches that were always there
  cfaults

cVars == <<ccfg, primary, named, ring, serial, handle, conn, call, done, answer, stayed, cfaults>>

----------------------------------------------------------------------------
None == ""
NoHandle == [name |-> None, id |-> 0, princ |-> 0]
EmptyRing == [name |-> None, princ |-> 0, offset |-> FALSE,
              creds |-> [s \in CServers |-> 0], timeout |-> 0]
Idle == [do |-> "idle", at |-> "", name |-> None, keys |-> {}, out |-> << >>,
         cred |-> 0, server |-> None]
NoAnswer == [of |-> "idle", ok |-> TRUE, out |-> << >>]

Linked == {named[n] : n \in CNames} \ {0}

\* A process begins a library call.
Begin(p, do, at) ==
  /\ call[p].do = "idle" /\ do \in ccfg.calls[p] /\ done[p] < ccfg.most[p]
  /\ call' = [call EXCEPT ![p] = [Idle EXCEPT !.do = do, !.at = at]]
  /\ done' = [done EXCEPT ![p] = @ + 1]

To(p, at) == call' = [call EXCEPT ![p].at = at]
With(p, c) == call' = [call EXCEPT ![p] = c]
Doing(p, do, at) == call[p].do = do /\ call[p].at = at

Return(p, ok, out) ==
  /\ call' = [call EXCEPT ![p] = Idle]
  /\ answer' = [answer EXCEPT ![p] = [of |-> call[p].do, ok |-> ok, out |-> out]]

Fail(p) == Return(p, FALSE, << >>)

----------------------------------------------------------------------------
(* KEYRING.  A key or keyring that nothing links is gone: its serial names *)
(* nothing.  add_key updates a user or big_key key of the same description *)
(* in place; a keyring cannot be updated, so that a new one of the same    *)
(* name takes the old one's place.                                         *)

SetPrimaryName(n) == primary' = n

AddKeyring(n) ==
  /\ serial < MaxSerial
  /\ serial' = serial + 1
  /\ named' = [named EXCEPT ![n] = serial + 1]
  /\ ring' = [ring EXCEPT ![serial + 1] = [EmptyRing EXCEPT !.name = n]]

\* A handle finds the principal's key when it is made, and keeps its serial.
Make(n, i) == [name |-> n, id |-> i, princ |-> IF i = 0 THEN 0 ELSE ring[i].princ]

\* get_primary_name searches for the key and, when there is none, writes the
\* first name; the calls that use it go on at `then`.
GetPrimaryName(p, then) ==
  /\ call[p].at = "primary"
  /\ IF primary = None
     THEN With(p, [call[p] EXCEPT !.at = "adopt"])
     ELSE With(p, [call[p] EXCEPT !.at = then, !.name = primary])
  /\ UNCHANGED <<primary, named, ring, serial, handle, answer>>

AdoptFirst(p, then) ==
  /\ call[p].at = "adopt"
  /\ SetPrimaryName(CFirst)
  /\ With(p, [call[p] EXCEPT !.at = then, !.name = CFirst])
  /\ UNCHANGED <<named, ring, serial, handle, answer>>

KeyringResolve(p) ==
  \/ call[p].do = "resolve" /\ (GetPrimaryName(p, "search") \/ AdoptFirst(p, "search"))
  \/ /\ Doing(p, "resolve", "search")
     /\ handle' = [handle EXCEPT ![p] = Make(call[p].name, named[call[p].name])]
     /\ Return(p, TRUE, << >>)
     /\ UNCHANGED <<primary, named, ring, serial>>

\* A name nobody has, then a keyring of that name.
KeyringGenNew(p) ==
  \/ /\ Doing(p, "new", "search")
     /\ \E n \in CNames \ {CFirst} :
          /\ named[n] = 0
          /\ With(p, [call[p] EXCEPT !.at = "add", !.name = n])
     /\ UNCHANGED <<primary, named, ring, serial, handle, answer>>
  \/ /\ Doing(p, "new", "search") /\ \A n \in CNames \ {CFirst} : named[n] # 0
     /\ Fail(p)
     /\ UNCHANGED <<primary, named, ring, serial, handle>>
  \/ /\ Doing(p, "new", "add")
     /\ AddKeyring(call[p].name)
     /\ handle' = [handle EXCEPT ![p] = [name |-> call[p].name, id |-> serial + 1, princ |-> 0]]
     /\ Return(p, TRUE, << >>)
     /\ UNCHANGED primary

ClearRing(i) ==
  ring' = [ring EXCEPT ![i] = [EmptyRing EXCEPT !.name = ring[i].name, !.timeout = ring[i].timeout]]

\* find_or_create_keyring of the handle's name: a search, then a new keyring.
FindOrCreate(p) ==
  LET h == handle[p] IN
  \/ /\ Doing(p, "init", "clear") /\ h.id = 0
     /\ IF named[h.name] # 0
        THEN /\ handle' = [handle EXCEPT ![p].id = named[h.name], ![p].princ = 0]
             /\ To(p, "princ")
        ELSE To(p, "create") /\ UNCHANGED handle
     /\ UNCHANGED <<primary, named, ring, serial, answer>>
  \/ /\ Doing(p, "init", "create")
     /\ AddKeyring(h.name)
     /\ handle' = [handle EXCEPT ![p].id = serial + 1, ![p].princ = 0]
     /\ To(p, "princ")
     /\ UNCHANGED <<primary, answer>>

\* initialize: clear the keyring or find or create one, add the principal's
\* key and, when the caller set one, the KDC's time offset.
KeyringInitialize(p) ==
  LET h == handle[p] IN
  \/ /\ Doing(p, "init", "clear") /\ h.id # 0
     /\ IF h.id \in Linked THEN ClearRing(h.id) /\ To(p, "princ") /\ UNCHANGED answer
                           ELSE Fail(p) /\ UNCHANGED ring
     /\ handle' = [handle EXCEPT ![p].princ = IF h.id \in Linked THEN 0 ELSE @]
     /\ UNCHANGED <<primary, named, serial>>
  \/ FindOrCreate(p)
  \/ /\ Doing(p, "init", "princ") /\ h.id \in Linked
     /\ serial < MaxSerial \/ ring[h.id].princ # 0
     /\ IF ring[h.id].princ = 0
        THEN /\ ring' = [ring EXCEPT ![h.id].princ = serial + 1]
             /\ handle' = [handle EXCEPT ![p].princ = serial + 1]
             /\ serial' = serial + 1
        ELSE /\ handle' = [handle EXCEPT ![p].princ = ring[h.id].princ]
             /\ UNCHANGED <<ring, serial>>
     /\ IF ccfg.offset THEN To(p, "offset") /\ UNCHANGED answer ELSE Return(p, TRUE, << >>)
     /\ UNCHANGED <<primary, named>>
  \/ /\ Doing(p, "init", "offset") /\ h.id \in Linked
     /\ ring' = [ring EXCEPT ![h.id].offset = TRUE]
     /\ Return(p, TRUE, << >>)
     /\ UNCHANGED <<primary, named, serial, handle>>
  \/ /\ call[p].do = "init" /\ call[p].at \in {"princ", "offset"} /\ h.id \notin Linked
     /\ Fail(p)
     /\ UNCHANGED <<primary, named, ring, serial, handle>>

\* The keys of a cache keyring, the time offset's left out: credentials by
\* server, and the principal's by serial.
KeysOf(i) == {<<"cred", s>> : s \in {t \in CServers : ring[i].creds[t] # 0}}
             \cup ({<<"princ", ring[i].princ>>} \ {<<"princ", 0>>})

\* cred_keys reads the list, here, then each key that is not the principal's
\* as this handle remembers it, in the next step (Present).  A key unlinked
\* since is passed over; another principal's key does not read as a credential.
ReadKeys(p, then) ==
  LET h == handle[p] IN
  /\ call[p].at = "keys"
  /\ IF h.id \in Linked
     THEN With(p, [call[p] EXCEPT !.at = then, !.keys = KeysOf(h.id) \ {<<"princ", h.princ>>}])
          /\ UNCHANGED answer
     ELSE IF call[p].do = "store" THEN Return(p, TRUE, << >>) ELSE Fail(p)
  /\ UNCHANGED <<primary, named, ring, serial, handle>>

Present(p) == IF handle[p].id \in Linked THEN call[p].keys \cap KeysOf(handle[p].id) ELSE {}
Garbled(p) == \E k \in Present(p) : k[1] = "princ"
CredKeys(p) == {k[2] : k \in {j \in Present(p) : j[1] = "cred"}}

\* add_cred_key, then update_expiration: the list is read again, and the
\* keyring times out with the last credential in it.  set_config stores a
\* credential of the principal the handle remembers.
KeyringStore(p) ==
  LET h == handle[p] IN
  \/ /\ Doing(p, "store", "princ")
     /\ IF h.princ # 0 /\ h.id \in Linked /\ ring[h.id].princ = h.princ
        THEN To(p, "add") /\ UNCHANGED answer
        ELSE Fail(p)
     /\ UNCHANGED <<primary, named, ring, serial, handle>>
  \/ /\ Doing(p, "store", "add") /\ h.id \in Linked
     /\ \E s \in CServers, e \in CEnds : ring' = [ring EXCEPT ![h.id].creds[s] = e]
     /\ To(p, "keys")
     /\ UNCHANGED <<primary, named, serial, handle, answer>>
  \/ /\ Doing(p, "store", "add") /\ h.id \notin Linked
     /\ Fail(p)
     /\ UNCHANGED <<primary, named, ring, serial, handle>>
  \/ call[p].do = "store" /\ ReadKeys(p, "ends")
  \/ /\ Doing(p, "store", "ends")
     /\ IF Garbled(p) \/ CredKeys(p) = {}
        THEN Return(p, TRUE, << >>)
        ELSE /\ With(p, [call[p] EXCEPT !.at = "timeout",
                           !.cred = Max({ring[h.id].creds[s] : s \in CredKeys(p)})])
             /\ UNCHANGED answer
     /\ UNCHANGED <<primary, named, ring, serial, handle>>
  \/ /\ Doing(p, "store", "timeout")
     /\ ring' = IF h.id \in Linked THEN [ring EXCEPT ![h.id].timeout = call[p].cred] ELSE ring
     /\ Return(p, TRUE, << >>)
     /\ UNCHANGED <<primary, named, serial, handle>>

\* creds, retrieve and get_config: what cred_keys reads.
KeyringCreds(p) ==
  \/ call[p].do = "creds" /\ ReadKeys(p, "each")
  \/ /\ Doing(p, "creds", "each")
     /\ IF Garbled(p) THEN Fail(p) ELSE Return(p, TRUE, SetToSeq(CredKeys(p)))
     /\ UNCHANGED <<primary, named, ring, serial, handle>>

\* remove_cred unlinks every key that matches; one already unlinked is an error.
KeyringRemove(p) ==
  \/ call[p].do = "remove" /\ ReadKeys(p, "each")
  \/ /\ Doing(p, "remove", "each")
     /\ IF Garbled(p) THEN Fail(p)
        ELSE \E s \in CServers :
               IF s \in CredKeys(p)
               THEN With(p, [call[p] EXCEPT !.at = "unlink", !.server = s]) /\ UNCHANGED answer
               ELSE Return(p, TRUE, << >>)
     /\ UNCHANGED <<primary, named, ring, serial, handle>>
  \/ /\ Doing(p, "remove", "unlink")
     /\ LET i == handle[p].id
            there == i \in Linked /\ ring[i].creds[call[p].server] # 0 IN
          /\ ring' = IF there THEN [ring EXCEPT ![i].creds[call[p].server] = 0] ELSE ring
          /\ Return(p, there, << >>)
     /\ UNCHANGED <<primary, named, serial, handle>>

\* destroy clears and unlinks; the primary's name stays.
KeyringDestroy(p) ==
  LET h == handle[p] IN
  \/ /\ Doing(p, "destroy", "clear")
     /\ IF h.id \in Linked THEN ClearRing(h.id) ELSE UNCHANGED ring
     /\ IF h.id = 0 THEN Return(p, TRUE, << >>) ELSE To(p, "unlink") /\ UNCHANGED answer
     /\ handle' = [handle EXCEPT ![p] = IF h.id = 0 THEN NoHandle ELSE @]
     /\ UNCHANGED <<primary, named, serial>>
  \/ /\ Doing(p, "destroy", "unlink")
     /\ named' = [n \in CNames |-> IF named[n] = h.id THEN 0 ELSE named[n]]
     /\ Return(p, h.id \in Linked, << >>)
     /\ handle' = [handle EXCEPT ![p] = NoHandle]
     /\ UNCHANGED <<primary, ring, serial>>

\* switch_to names the handle's cache the primary, whether or not it exists.
KeyringSwitchTo(p) ==
  /\ Doing(p, "switch", "set")
  /\ SetPrimaryName(handle[p].name)
  /\ Return(p, TRUE, << >>)
  /\ UNCHANGED <<named, ring, serial, handle>>

\* A mutant of ListsKey: the primary is not left out.
ListsKey_Twice(c, i) == i \in Linked

\* A key of the collection is listed under its own name unless it is the
\* primary, which has been listed already.
ListsKey(c, i) == i \in Linked /\ ring[i].name # c.name

\* collection: the primary's name, the keys of the collection, the primary,
\* then each key in turn; one that is gone is passed over.
KeyringCollection(p) ==
  LET c == call[p] IN
  \/ c.do = "list" /\ (GetPrimaryName(p, "keys") \/ AdoptFirst(p, "keys"))
  \/ /\ Doing(p, "list", "keys")
     /\ With(p, [c EXCEPT !.at = "first", !.keys = Linked])
     /\ UNCHANGED <<primary, named, ring, serial, handle, answer>>
  \/ /\ Doing(p, "list", "first")
     /\ With(p, [c EXCEPT !.at = "each", !.out = IF named[c.name] = 0 THEN @ ELSE <<c.name>>])
     /\ UNCHANGED <<primary, named, ring, serial, handle, answer>>
  \/ /\ Doing(p, "list", "each") /\ c.keys # {}
     /\ \E i \in c.keys :
          With(p, [c EXCEPT !.keys = @ \ {i},
                            !.out = IF ListsKey(c, i) THEN Append(@, ring[i].name) ELSE @])
     /\ UNCHANGED <<primary, named, ring, serial, handle, answer>>
  \/ /\ Doing(p, "list", "each") /\ c.keys = {}
     /\ Return(p, TRUE, c.out)
     /\ UNCHANGED <<primary, named, ring, serial, handle>>

KeyringStep(p) ==
  \/ KeyringResolve(p) \/ KeyringGenNew(p) \/ KeyringInitialize(p) \/ KeyringStore(p)
  \/ KeyringCreds(p) \/ KeyringRemove(p) \/ KeyringDestroy(p) \/ KeyringSwitchTo(p)
  \/ KeyringCollection(p)

KeyringBegin(p) ==
  \/ Begin(p, "resolve", "primary") \/ Begin(p, "new", "search") \/ Begin(p, "list", "primary")
  \/ /\ handle[p] # NoHandle
     /\ \/ Begin(p, "init", "clear") \/ Begin(p, "destroy", "clear") \/ Begin(p, "switch", "set")
        \/ Begin(p, "store", "add") \/ Begin(p, "store", "princ")
        \/ Begin(p, "creds", "keys") \/ Begin(p, "remove", "keys")

----------------------------------------------------------------------------
(* KCM.  The step a call is at is the request it sends next.  The daemon   *)
(* (external) performs one request at a time; it names its caches by UUID  *)
(* and knows which it is asked for by name.                                *)

CacheOf(p) == named[handle[p].name]
Exists(n) == n \in CNames /\ named[n] # 0
DefaultCache == IF primary = None THEN CFirst ELSE primary

\* The daemon knows the request and has what it names.
Granted(p) ==
  LET c == call[p] IN
  CASE c.at = "REPLACE" -> ccfg.replace
    [] c.at = "GET_CRED_LIST" -> ccfg.credlist /\ CacheOf(p) # 0
    [] c.at \in {"STORE", "REMOVE_CRED", "GET_CRED_UUID_LIST", "GET_PRINCIPAL", "DESTROY",
                 "RETRIEVE", "SET_KDC_OFFSET"} -> CacheOf(p) # 0
    [] OTHER -> TRUE

Filled(n, creds) ==
  LET i == IF named[n] = 0 THEN serial + 1 ELSE named[n] IN
  /\ serial < MaxSerial
  /\ serial' = serial + 1
  /\ named' = [named EXCEPT ![n] = i]
  /\ ring' = [ring EXCEPT ![i] = [EmptyRing EXCEPT !.name = n, !.princ = serial + 1, !.creds = creds]]
  /\ UNCHANGED primary

\* What a request changes in the daemon.
DaemonDoes(p) ==
  LET c == call[p]
      n == handle[p].name
      i == CacheOf(p) IN
  IF ~Granted(p) THEN UNCHANGED <<primary, named, ring, serial>>
  ELSE CASE c.at = "INITIALIZE" -> Filled(n, [s \in CServers |-> 0])
         [] c.at = "REPLACE" -> Filled(n, [s \in CServers |-> serial + 1])
         [] c.at = "GEN_NEW" ->
              /\ serial < MaxSerial
              /\ serial' = serial + 1
              /\ \E m \in {k \in CNames : named[k] = 0} :
                   /\ named' = [named EXCEPT ![m] = serial + 1]
                   /\ ring' = [ring EXCEPT ![serial + 1] = [EmptyRing EXCEPT !.name = m]]
              /\ UNCHANGED primary
         [] c.at = "STORE" ->
              /\ serial < MaxSerial
              /\ serial' = serial + 1
              /\ ring' = [ring EXCEPT ![i].creds[c.server] = serial + 1]
              /\ UNCHANGED <<primary, named>>
         [] c.at = "REMOVE_CRED" ->
              ring' = [ring EXCEPT ![i].creds[c.server] = 0] /\ UNCHANGED <<primary, named, serial>>
         [] c.at = "SET_KDC_OFFSET" ->
              ring' = [ring EXCEPT ![i].offset = TRUE] /\ UNCHANGED <<primary, named, serial>>
         [] c.at = "DESTROY" ->
              named' = [named EXCEPT ![n] = 0] /\ UNCHANGED <<primary, ring, serial>>
         [] c.at = "SET_DEFAULT_CACHE" ->
              primary' = n /\ UNCHANGED <<named, ring, serial>>
         [] OTHER -> UNCHANGED <<primary, named, ring, serial>>

CredsOf(i) == {<<s, ring[i].creds[s]>> : s \in {t \in CServers : ring[i].creds[t] # 0}}

\* A mutant of GotCred: a missing credential is passed over.
GotCred_PassedOver(p, u) ==
  /\ With(p, [call[p] EXCEPT !.keys = @ \ {u},
               !.out = IF CacheOf(p) # 0 /\ u \in CredsOf(CacheOf(p)) THEN Append(@, u) ELSE @])
  /\ UNCHANGED answer

\* The credentials still to come, one request each: a missing one fails the
\* whole list.
GotCred(p, u) ==
  IF CacheOf(p) # 0 /\ u \in CredsOf(CacheOf(p))
  THEN With(p, [call[p] EXCEPT !.keys = @ \ {u}, !.out = Append(@, u)]) /\ UNCHANGED answer
  ELSE Fail(p)

\* creds: the whole list in one request or, when the daemon lacks it, a list
\* of UUIDs and one request each.
KcmCreds(p) ==
  LET c == call[p] IN
  \/ /\ c.at = "GET_CRED_LIST"
     /\ CASE Granted(p) -> Return(p, TRUE, SetToSeq(CredsOf(CacheOf(p))))
          [] ~Granted(p) /\ ~ccfg.credlist -> To(p, "GET_CRED_UUID_LIST") /\ UNCHANGED answer
          [] OTHER -> Fail(p)
  \/ /\ c.at = "GET_CRED_UUID_LIST"
     /\ IF Granted(p)
        THEN With(p, [c EXCEPT !.at = "GET_CRED_BY_UUID", !.keys = CredsOf(CacheOf(p))])
             /\ UNCHANGED answer
        ELSE Fail(p)
  \/ /\ c.at = "GET_CRED_BY_UUID" /\ c.keys # {}
     /\ GotCred(p, CHOOSE u \in c.keys : TRUE)
  \/ /\ c.at = "GET_CRED_BY_UUID" /\ c.keys = {}
     /\ Return(p, TRUE, c.out)

\* retrieve asks the daemon for the credential, and for the list when the
\* daemon does not know that request or chose a credential whose key type
\* the caller cannot use.
KcmRetrieve(p) ==
  /\ Doing(p, "retrieve", "RETRIEVE")
  /\ \/ Return(p, Granted(p), << >>)
     \/ To(p, "GET_CRED_LIST") /\ UNCHANGED answer

\* The credentials a replace has still to store.
StoreRest(p) ==
  IF call[p].keys = {} THEN Return(p, TRUE, << >>)
  ELSE /\ \E s \in call[p].keys :
            With(p, [call[p] EXCEPT !.at = "STORE", !.server = s, !.keys = @ \ {s}])
       /\ UNCHANGED answer

\* replace, which a daemon without REPLACE gets one step at a time.
KcmReplace(p) ==
  /\ call[p].at = "REPLACE"
  /\ IF Granted(p) THEN Return(p, TRUE, << >>) ELSE To(p, "INITIALIZE") /\ UNCHANGED answer

\* initialize, and the KDC's time offset when the caller set one.
KcmInitialize(p) ==
  \/ /\ call[p].at = "INITIALIZE"
     /\ IF ccfg.offset THEN To(p, "SET_KDC_OFFSET") /\ UNCHANGED answer ELSE StoreRest(p)
  \/ call[p].at = "SET_KDC_OFFSET" /\ StoreRest(p)

KcmStore(p) == call[p].at = "STORE" /\ IF Granted(p) THEN StoreRest(p) ELSE Fail(p)

KcmRemove(p) == Doing(p, "remove", "REMOVE_CRED") /\ Return(p, Granted(p), << >>)

\* set_config removes the old value, whether or not that works, and stores
\* the new one, if any, as a credential of the cache's principal.
KcmSetConfig(p) ==
  \/ /\ Doing(p, "config", "REMOVE_CRED")
     /\ (To(p, "GET_PRINCIPAL") /\ UNCHANGED answer) \/ Return(p, TRUE, << >>)
  \/ /\ Doing(p, "config", "GET_PRINCIPAL")
     /\ IF Granted(p) THEN To(p, "STORE") /\ UNCHANGED answer ELSE Fail(p)

\* destroy and switch_to.
KcmManage(p) == call[p].at \in {"DESTROY", "SET_DEFAULT_CACHE"} /\ Return(p, Granted(p), << >>)

\* A cache of the list is named unless it is the default, named already.
NamesCache(c, i) == i \in Linked /\ ring[i].name # c.name

\* collection: the list of UUIDs, the default's name, whether it exists,
\* then each UUID's name; one deleted since is passed over.
KcmCollection(p) ==
  LET c == call[p] IN
  \/ /\ c.at = "GET_CACHE_UUID_LIST"
     /\ With(p, [c EXCEPT !.at = "GET_DEFAULT_CACHE", !.keys = Linked])
     /\ UNCHANGED answer
  \/ /\ Doing(p, "list", "GET_DEFAULT_CACHE")
     /\ With(p, [c EXCEPT !.at = "EXISTS", !.name = DefaultCache])
     /\ UNCHANGED answer
  \/ /\ c.at = "EXISTS"
     /\ With(p, [c EXCEPT !.at = "GET_CACHE_BY_UUID", !.out = IF Exists(c.name) THEN <<c.name>> ELSE @])
     /\ UNCHANGED answer
  \/ /\ c.at = "GET_CACHE_BY_UUID" /\ c.keys # {}
     /\ \E i \in c.keys :
          With(p, [c EXCEPT !.keys = @ \ {i},
                            !.out = IF NamesCache(c, i) THEN Append(@, ring[i].name) ELSE @])
     /\ UNCHANGED answer
  \/ /\ c.at = "GET_CACHE_BY_UUID" /\ c.keys = {}
     /\ Return(p, TRUE, c.out)

\* resolve of an empty name, and gen_new: the daemon gives the name.
KcmNamed(p) ==
  /\ \/ /\ Doing(p, "resolve", "GET_DEFAULT_CACHE")
        /\ handle' = [handle EXCEPT ![p] = [NoHandle EXCEPT !.name = DefaultCache]]
     \/ /\ call[p].at = "GEN_NEW"
        /\ handle' = [handle EXCEPT ![p] = [NoHandle EXCEPT !.name = ring'[serial'].name]]
  /\ Return(p, TRUE, << >>)

KcmGets(p) ==
  \/ KcmNamed(p)
  \/ /\ \/ KcmCreds(p) \/ KcmRetrieve(p) \/ KcmReplace(p) \/ KcmInitialize(p) \/ KcmStore(p)
        \/ KcmRemove(p) \/ KcmSetConfig(p) \/ KcmManage(p) \/ KcmCollection(p)
     /\ UNCHANGED handle

\* KcmIo::call.  A connection the daemon has closed is opened again before
\* the request is sent; a request whose answer does not come is an error,
\* whether the daemon performed it or not.  Some errors are no failure of
\* the call: set_config and initialize go on, and a listing takes the
\* default cache for one that does not exist.
KcmCall(p) ==
  /\ call[p].do # "idle"
  /\ conn' = [conn EXCEPT ![p] = TRUE]
  /\ DaemonDoes(p)
  /\ KcmGets(p)
  /\ UNCHANGED cfaults

KcmUnanswered(p) ==
  /\ call[p].do # "idle" /\ cfaults < MaxCFaults
  /\ cfaults' = cfaults + 1
  /\ conn' = [conn EXCEPT ![p] = FALSE]
  /\ DaemonDoes(p) \/ UNCHANGED <<primary, named, ring, serial>>
  /\ CASE Doing(p, "config", "REMOVE_CRED") -> To(p, "GET_PRINCIPAL") /\ UNCHANGED answer
       [] call[p].at = "SET_KDC_OFFSET" -> StoreRest(p)
       [] call[p].at = "EXISTS" -> To(p, "GET_CACHE_BY_UUID") /\ UNCHANGED answer
       [] OTHER -> Fail(p)
  /\ UNCHANGED handle

\* The daemon closes a connection that is idle.
KcmIdleClosed(p) ==
  /\ conn[p] /\ call[p].do = "idle"
  /\ conn' = [conn EXCEPT ![p] = FALSE]
  /\ UNCHANGED <<primary, named, ring, serial, handle, call, answer, done, cfaults>>

KcmBegin(p) ==
  \/ Begin(p, "resolve", "GET_DEFAULT_CACHE") \/ Begin(p, "list", "GET_CACHE_UUID_LIST")
  \/ (\E n \in CNames : named[n] = 0) /\ Begin(p, "new", "GEN_NEW")
  \/ /\ handle[p] # NoHandle
     /\ \/ Begin(p, "init", "INITIALIZE") \/ Begin(p, "destroy", "DESTROY")
        \/ Begin(p, "switch", "SET_DEFAULT_CACHE") \/ Begin(p, "creds", "GET_CRED_LIST")
        \/ Begin(p, "retrieve", "RETRIEVE")
  \/ /\ handle[p] # NoHandle /\ call[p].do = "idle" /\ done[p] < ccfg.most[p]
     /\ done' = [done EXCEPT ![p] = @ + 1]
     /\ \/ /\ "replace" \in ccfg.calls[p]
           /\ With(p, [Idle EXCEPT !.do = "replace", !.at = "REPLACE", !.keys = CServers])
        \/ \E s \in CServers, b \in {<<"store", "STORE">>, <<"remove", "REMOVE_CRED">>,
                                     <<"config", "REMOVE_CRED">>} :
             /\ b[1] \in ccfg.calls[p]
             /\ With(p, [Idle EXCEPT !.do = b[1], !.at = b[2], !.server = s])

----------------------------------------------------------------------------
CInit ==
  /\ ccfg \in CConfigs
  /\ primary = None
  /\ named = [n \in CNames |-> 0]
  /\ ring = [i \in 1..MaxSerial |-> EmptyRing]
  /\ serial = 0
  /\ handle = [p \in CProcs |-> NoHandle]
  /\ conn = [p \in CProcs |-> FALSE]
  /\ call = [p \in CProcs |-> Idle]
  /\ done = [p \in CProcs |-> 0]
  /\ answer = [p \in CProcs |-> NoAnswer]
  /\ stayed = [p \in CProcs |-> {}]
  /\ cfaults = 0

\* What was there when a listing began and has been ever since.
Watched(p) ==
  CASE call[p].do = "idle" /\ call'[p].do = "list" -> Linked
    [] call[p].do = "list" -> stayed[p] \cap Linked'
    [] OTHER -> stayed[p]

CNext ==
  /\ \E p \in CProcs :
       \/ /\ KeyringBegin(p) /\ ccfg.kind = "keyring"
          /\ UNCHANGED <<primary, named, ring, serial, handle, conn, answer, cfaults>>
       \/ KeyringStep(p) /\ ccfg.kind = "keyring" /\ UNCHANGED <<conn, done, cfaults>>
       \/ /\ KcmBegin(p) /\ ccfg.kind = "kcm"
          /\ UNCHANGED <<primary, named, ring, serial, handle, conn, answer, cfaults>>
       \/ KcmCall(p) /\ ccfg.kind = "kcm" /\ UNCHANGED done
       \/ KcmUnanswered(p) /\ ccfg.kind = "kcm" /\ UNCHANGED done
       \/ KcmIdleClosed(p) /\ ccfg.kind = "kcm"
  /\ stayed' = [p \in CProcs |-> Watched(p)]
  /\ UNCHANGED ccfg

CSpec == CInit /\ [][CNext]_cVars

----------------------------------------------------------------------------
\* A listing of a collection (KeyringCcache::collection, KcmCcache::collection)
\* names no cache twice and names every cache that was there from its
\* beginning to its end, whatever other processes create, destroy, replace or
\* make the primary meanwhile (as long as the daemon answers: an unanswered
\* question about the default cache leaves it out).
ListedOnce ==
  \A p \in CProcs : call[p].do = "idle" /\ answer[p].of = "list" /\ answer[p].ok =>
    LET out == answer[p].out IN
    /\ IsInjective(out)
    /\ cfaults = 0 => {ring[i].name : i \in stayed[p]} \subseteq Range(out)

\* With a daemon that has REPLACE, the credentials KcmCcache::creds returns
\* are those of one replacement, all of them, or none: never a part, and never
\* of two, whether it reads them in one request or one by one.
WholeCache ==
  \A p \in CProcs : answer[p].of = "creds" /\ answer[p].ok /\ ccfg.kind = "kcm" /\ ccfg.replace =>
    LET out == Range(answer[p].out) IN
    out = {} \/ \E g \in 1..MaxSerial : out = {<<s, g>> : s \in CServers}

\* update_expiration: "expire the cache with its last credential".  A keyring
\* that no store is working on does not time out before a credential in it.
ExpiresWithLast ==
  (\A p \in CProcs : call[p].do # "store") =>
    \A i \in Linked, s \in CServers : ring[i].timeout # 0 => ring[i].timeout >= ring[i].creds[s]
=============================================================================
