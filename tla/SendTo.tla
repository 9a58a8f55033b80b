------------------------------- MODULE SendTo -------------------------------
(***************************************************************************)
(* Sending a request to a realm's KDCs: where they are found               *)
(* (src/locate), the connections of one exchange and its passes            *)
(* (src/transport/sendto) and the repetition over TCP after                *)
(* KRB_ERR_RESPONSE_TOO_BIG (src/transport/located.rs).                    *)
(*                                                                         *)
(* Time is what a window may do: it closes when no event waits, except     *)
(* while an established TCP connection holds it open; the deadline of      *)
(* request_timeout passes at any moment.                                   *)
(***************************************************************************)
EXTENDS Naturals, Sequences

CONSTANTS Configs,  \* profile, DNS answers, message size and timeout considered
          MaxPass   \* SendtoTiming::max_pass

ASSUME MaxPassAssumption == MaxPass \in Nat \ {0}

VARIABLES
  cfg,   \* settings of this run
  ex,    \* the exchange: where its loop stands and its pending connections
  live,  \* started connections, in order
  q,     \* events the connection tasks have sent
  task,  \* per connection id: its task
  sent,  \* per connection id: datagrams sent
  out,   \* the result, the server of the last reply, the servers recorded
  dl,    \* the request deadline has passed
  good   \* ghost: connections whose acceptable reply came while it counted

vars == <<cfg, ex, live, q, task, sent, out, dl, good>>

-----------------------------------------------------------------------------
(***************************************************************************)
(* Locating: entries are "host" (takes the requested transport), "udp",    *)
(* "tcp", "https" or "unix".                                               *)
(***************************************************************************)
Entries == {"host", "udp", "tcp", "https", "unix"}

\* locate_uri: entries of another transport than the requested one go.
LocateUri(noUdp) ==
  IF cfg.useUri THEN SelectSeq(cfg.uri, LAMBDA e : noUdp => e = "tcp") ELSE << >>

\* locate_srv_dns: _udp unless TCP is asked for, then _tcp.
LocateSrv(noUdp) == (IF noUdp THEN << >> ELSE cfg.srvUdp) \o cfg.srvTcp

\* locate_server: the profile's servers, else DNS.
Locate(noUdp) ==
  CASE cfg.profile # << >> -> cfg.profile
    [] cfg.profile = << >> /\ ~cfg.dns -> << >>
    [] OTHER -> IF LocateUri(noUdp) # << >> THEN LocateUri(noUdp) ELSE LocateSrv(noUdp)

\* strategy_for: UDP last for a message over the preference limit.
UdpLast(noUdp) == ~noUdp /\ cfg.large

\* Mutant: UDP is preferred in the repetition over TCP, too.
PreferredUdp(e, noUdp) == IF e \in {"udp", "host"} THEN <<"udp">> ELSE << >>

\* entry_transports: what an entry contacts at once and what it defers (a
\* host located without UDP is a TCP entry).
Preferred(e, noUdp) ==
  CASE e = "udp"   -> IF noUdp \/ UdpLast(noUdp) THEN << >> ELSE <<"udp">>
    [] e = "host"  -> IF noUdp THEN << >> ELSE IF UdpLast(noUdp) THEN <<"tcp">> ELSE <<"udp">>
    [] e = "https" -> IF cfg.https THEN <<"https">> ELSE << >>
    [] OTHER       -> IF UdpLast(noUdp) THEN <<"tcp">> ELSE << >>
Deferred(e, noUdp) ==
  CASE e = "udp"   -> IF UdpLast(noUdp) THEN <<"udp">> ELSE << >>
    [] e = "host"  -> IF noUdp THEN <<"tcp">> ELSE IF UdpLast(noUdp) THEN <<"udp">> ELSE <<"tcp">>
    [] e = "https" -> << >>
    [] OTHER       -> IF UdpLast(noUdp) THEN << >> ELSE <<"tcp">>

\* resolve: the connections of all entries, preferred or deferred.
Resolve(list, split) ==
  LET conns[n \in 0..Len(list)] ==
        IF n = 0 THEN << >>
        ELSE conns[n - 1] \o [i \in DOMAIN split[list[n]] |-> [s |-> n, t |-> split[list[n]][i]]]
  IN conns[Len(list)]

Exchange(noUdp) ==
  [noUdp |-> noUdp, pc |-> "ready", wait |-> FALSE, pass |-> 1, i |-> 0, n |-> 0,
   ready |-> Resolve(Locate(noUdp), [e \in Entries |-> Preferred(e, noUdp)]),
   deferred |-> Resolve(Locate(noUdp), [e \in Entries |-> Deferred(e, noUdp)])]

Init ==
  /\ cfg \in Configs
  /\ ex = Exchange(FALSE)
  /\ live = << >> /\ q = << >> /\ task = << >> /\ sent = << >>
  /\ out = [res |-> IF Locate(FALSE) = << >> THEN "unknown" ELSE "none",
            svc |-> FALSE, last |-> 0, used |-> << >>]
  /\ dl = FALSE
  /\ good = {}
-----------------------------------------------------------------------------
(***************************************************************************)
(* The loop of passes::run.                                                *)
(***************************************************************************)
Running == out.res = "none"

\* A window opened past the deadline closes at once.
Window(e) == [e EXCEPT !.wait = ~dl]

\* kill: the connection's position, if it still has one, goes.
Without(id) ==
  IF \E i \in DOMAIN live : live[i].id = id
  THEN LET i == CHOOSE i \in DOMAIN live : live[i].id = id
       IN  SubSeq(live, 1, i - 1) \o SubSeq(live, i + 1, Len(live))
  ELSE live
Aborted(id) == [task EXCEPT ![id] = "gone"]

\* start_conn: an UDP connection whose first datagram fails is not kept.
StartConn(c, okay) ==
  LET id == Len(task) + 1
      kept == c.t # "udp" \/ okay
  IN /\ live' = IF kept THEN Append(live, [id |-> id, s |-> c.s, t |-> c.t, est |-> FALSE]) ELSE live
     /\ task' = Append(task, IF ~kept THEN "gone" ELSE IF c.t = "udp" THEN "recv" ELSE "conn")
     /\ sent' = Append(sent, IF c.t = "udp" /\ okay THEN 1 ELSE 0)

\* Pass 1 contacts the ready, then the deferred connections, a window each.
Contact(okay) ==
  /\ Running /\ ~ex.wait /\ ex.pc \in {"ready", "deferred"}
  /\ ex[ex.pc] # << >>
  /\ StartConn(Head(ex[ex.pc]), okay)
  /\ ex' = Window([ex EXCEPT ![ex.pc] = Tail(@)])
  /\ UNCHANGED <<cfg, q, out, dl, good>>

NextList ==
  /\ Running /\ ~ex.wait
  /\ \/ ex.pc = "ready" /\ ex.ready = << >> /\ ex' = [ex EXCEPT !.pc = "deferred"]
     \/ ex.pc = "deferred" /\ ex.deferred = << >> /\ ex' = Window([ex EXCEPT !.pc = "tail"])
  /\ UNCHANGED <<cfg, live, q, task, sent, out, dl, good>>

\* sendto_kdc_track and LocatedTransport::exchange: the result, and the
\* server that replied last is recorded.
Finish(res) ==
  out' = [out EXCEPT !.res = IF res = "unreach" /\ out.svc THEN "svcunavail" ELSE res,
                     !.used = IF out.last = 0 THEN @ ELSE Append(@, out.last)]

\* The next pass, while there are passes and connections left.
NextPass ==
  /\ Running /\ ~ex.wait /\ ex.pc \in {"tail", "backoff"}
  /\ IF ex.pass < MaxPass /\ live # << >>
     THEN /\ ex' = [ex EXCEPT !.pc = "retx", !.pass = @ + 1, !.i = 1, !.n = Len(live)]
          /\ UNCHANGED out
     ELSE Finish("unreach") /\ UNCHANGED ex
  /\ UNCHANGED <<cfg, live, q, task, sent, dl, good>>

\* for i in 0..live.len(): live[i], with the length taken before the loop;
\* a failed send kills the connection and goes on.
Retransmit(okay) ==
  /\ Running /\ ~ex.wait /\ ex.pc = "retx" /\ ex.i <= ex.n
  /\ LET next == [ex EXCEPT !.i = @ + 1] IN
     CASE ex.i > Len(live) ->
            out' = [out EXCEPT !.res = "panic"] /\ UNCHANGED <<ex, live, task, sent>>
       [] ex.i <= Len(live) /\ live[ex.i].t # "udp" ->
            okay /\ ex' = next /\ UNCHANGED <<live, task, sent, out>>
       [] OTHER ->
            LET id == live[ex.i].id IN
            IF okay
            THEN ex' = Window(next) /\ sent' = [sent EXCEPT ![id] = @ + 1] /\ UNCHANGED <<live, task, out>>
            ELSE ex' = next /\ live' = Without(id) /\ task' = Aborted(id) /\ UNCHANGED <<sent, out>>
  /\ UNCHANGED <<cfg, q, dl, good>>

Backoff ==
  /\ Running /\ ~ex.wait /\ ex.pc = "retx" /\ ex.i > ex.n
  /\ ex' = Window([ex EXCEPT !.pc = "backoff"])
  /\ UNCHANGED <<cfg, live, q, task, sent, out, dl, good>>

\* any_tcp_connections.
AnyTcp == \E i \in DOMAIN live : live[i].t # "udp" /\ live[i].est

\* Mutant: the deadline does not bound the wait for an established connection.
ClosesNever == q = << >> /\ ~AnyTcp

\* When the wait of a window ends without an event.
Closes == q = << >> /\ (dl \/ ~AnyTcp)

Timeout ==
  /\ Running /\ ex.wait /\ Closes
  /\ ex' = [ex EXCEPT !.wait = FALSE]
  /\ UNCHANGED <<cfg, live, q, task, sent, out, dl, good>>

\* After an event the window starts over, unless the deadline has passed.
Again == [ex EXCEPT !.wait = ~dl]

\* Mutant: a reply of a connection killed meanwhile is dropped.
AcceptsLive(e) == e.code # "svc" /\ \E i \in DOMAIN live : live[i].id = e.id

\* check_for_svc_unavailable rejects only error 29.
Accepts(e) == e.code # "svc"

\* wait_window takes one event.
Consume ==
  /\ Running /\ ex.wait /\ q # << >>
  /\ q' = Tail(q)
  /\ LET e == Head(q) IN
     CASE e.kind = "reply" /\ Accepts(e) ->
            /\ out' = [out EXCEPT !.res = e.code, !.last = e.s, !.used = Append(@, e.s)]
            /\ ex' = [ex EXCEPT !.wait = FALSE]
            /\ UNCHANGED <<live, task>>
       [] e.kind = "reply" /\ ~Accepts(e) ->
            /\ out' = [out EXCEPT !.svc = TRUE, !.last = e.s]
            /\ ex' = Again /\ live' = Without(e.id) /\ task' = Aborted(e.id)
       [] e.kind = "dead" ->
            ex' = Again /\ live' = Without(e.id) /\ task' = Aborted(e.id) /\ UNCHANGED out
       [] OTHER ->
            /\ ex' = Again
            /\ live' = [i \in DOMAIN live |-> IF live[i].id = e.id THEN [live[i] EXCEPT !.est = TRUE] ELSE live[i]]
            /\ UNCHANGED <<task, out>>
  /\ UNCHANGED <<cfg, sent, dl, good>>

\* LocatedTransport::send_recv: once more without UDP.
TcpOnly ==
  /\ out.res = "toobig" /\ ~ex.noUdp
  /\ ex' = Exchange(TRUE)
  /\ out' = [out EXCEPT !.res = IF Locate(TRUE) = << >> THEN "unknown" ELSE "none",
                        !.svc = FALSE, !.last = 0]
  /\ live' = << >> /\ q' = << >> /\ task' = << >> /\ sent' = << >> /\ dl' = FALSE /\ good' = {}
  /\ UNCHANGED cfg
-----------------------------------------------------------------------------
(***************************************************************************)
(* The connection tasks and the network.                                   *)
(***************************************************************************)
ServerOf(id) ==
  LET c == CHOOSE i \in DOMAIN live : live[i].id = id IN live[c].s

Event(id, kind, code) ==
  q' = Append(q, [kind |-> kind, id |-> id, s |-> ServerOf(id), code |-> code])

\* A reply that arrives after the last window is too late for anyone.
TooLate == ex.pc \in {"tail", "backoff"} /\ ex.pass = MaxPass /\ ~ex.wait

Reply(id, code) ==
  /\ Running
  /\ \/ task[id] = "recv" /\ sent[id] > 0
     \/ task[id] = "read" /\ code # "toobig"
  /\ Event(id, "reply", code)
  /\ task' = [task EXCEPT ![id] = "sent"]
  /\ good' = IF code = "svc" \/ TooLate THEN good ELSE good \cup {id}
  /\ UNCHANGED <<cfg, ex, live, sent, out, dl>>

\* tcp_io, https_conn: connected and the request written.
Establish(id) ==
  /\ Running /\ task[id] = "conn"
  /\ Event(id, "est", "none")
  /\ task' = [task EXCEPT ![id] = "read"]
  /\ UNCHANGED <<cfg, ex, live, sent, out, dl, good>>

\* A refused connection, an early close, an ICMP error.
Die(id) ==
  /\ Running /\ task[id] \in {"recv", "conn", "read"}
  /\ Event(id, "dead", "none")
  /\ task' = [task EXCEPT ![id] = "sent"]
  /\ UNCHANGED <<cfg, ex, live, sent, out, dl, good>>

Deadline ==
  /\ Running /\ cfg.deadline /\ ~dl
  /\ dl' = TRUE
  /\ UNCHANGED <<cfg, ex, live, q, task, sent, out, good>>

Loop ==
  \/ \E okay \in BOOLEAN : Contact(okay) \/ Retransmit(okay)
  \/ NextList \/ NextPass \/ Backoff \/ Timeout \/ Consume \/ TcpOnly

Network ==
  \E id \in DOMAIN task :
    Establish(id) \/ Die(id) \/ \E code \in {"ok", "svc", "toobig"} : Reply(id, code)

Ended == ~Running /\ ~(out.res = "toobig" /\ ~ex.noUdp)

Next == Loop \/ Network \/ Deadline \/ (Ended /\ UNCHANGED vars)

\* The task of the exchange runs whenever it can, and the clock goes on;
\* nothing is assumed of the servers.
Fairness == WF_vars(Loop) /\ WF_vars(Deadline)

Spec == Init /\ [][Next]_vars /\ Fairness
-----------------------------------------------------------------------------
TypeOK ==
  /\ cfg \in Configs /\ dl \in BOOLEAN
  /\ ex.pc \in {"ready", "deferred", "tail", "retx", "backoff"} /\ ex.pass \in 1..MaxPass
  /\ \A i \in DOMAIN live : live[i].t \in {"udp", "tcp", "https"} /\ live[i].id \in DOMAIN task
  /\ \A i, j \in DOMAIN live : i < j => live[i].id < live[j].id
  /\ \A id \in DOMAIN task : task[id] \in {"recv", "conn", "read", "sent", "gone"} /\ sent[id] <= MaxPass
  /\ ex.noUdp => \A id \in DOMAIN sent : sent[id] = 0
  /\ out.res \in {"none", "ok", "toobig", "unreach", "svcunavail", "unknown", "panic"}

\* No answer in time is lost: while the deadline has not passed, an exchange
\* reported as unreachable or unavailable got no acceptable reply, whichever
\* connection it came on and however its retransmission fared (wait_window,
\* kill, run).
NoAnswerLost == out.res \in {"unreach", "svcunavail"} /\ ~dl => good = {}

\* A KDC that has taken the request over TCP is waited for: without a
\* deadline an exchange never gives up with an established connection open
\* (any_tcp_connections in wait_window).
TcpWaitedFor ==
  out.res \in {"unreach", "svcunavail"} /\ ~dl =>
    \A i \in DOMAIN live : live[i].est => task[live[i].id] # "read"

\* With request_timeout set, an exchange ends whatever the servers do.
EndsByDeadline == cfg.deadline => <>Ended

\* "passes 2..=max_pass: retransmit every live UDP connection" (passes.rs).
RetransmitsAll ==
  /\ out.res # "panic"
  /\ ex.pc = "backoff" => \A i \in DOMAIN live : live[i].t = "udp" => sent[live[i].id] = ex.pass
=============================================================================
