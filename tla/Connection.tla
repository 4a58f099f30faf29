----------------------------- MODULE Connection -----------------------------
(***************************************************************************)
(* How the client gets and keeps a connection to one authority             *)
(* (lisp/relay-core.el): the table of connections, blocking and            *)
(* asynchronous establishment with the hello handshake, the callers that   *)
(* wait for it, the sentinel, and the direct file-notify watches that are  *)
(* registered again on every new connection (with                          *)
(* lisp/relay-file-handler.el; all of them on one directory).              *)
(*                                                                         *)
(* Emacs is single threaded as in module RequestCore: while a blocking     *)
(* call waits, timers and event handlers run Lisp underneath it.           *)
(***************************************************************************)
EXTENDS Integers, Sequences

CONSTANTS
  Waiters,      \* callers of relay-connect-async
  MaxConns,     \* bound: processes started
  MaxWatches,   \* bound: direct watches added, for each use of the connection
  MaxDeaths,    \* bound: processes that die by themselves, likewise
  MaxRefusals   \* bound: processes that cannot be started or sent to

\* "async": the connection is used by relay-connect-async only.
\* "blocking": by blocking operations as well.  "nested": these also start while
\* another one waits.
Uses == {"async", "blocking", "nested"}

ASSUME ConnectionAssumption ==
  /\ MaxConns \in Nat /\ MaxRefusals \in Nat
  /\ MaxWatches \in [Uses -> Nat] /\ MaxDeaths \in [Uses -> Nat]

Conns == 1 .. MaxConns
None == 0

VARIABLES
  conn,      \* the relay-conn objects
  table,     \* relay--connections at the authority
  started,   \* processes started so far
  stack,     \* blocking calls Lisp is inside of, innermost first
  watches,   \* descriptors in relay--direct-watches
  added,     \* direct watches asked for; each has its descriptor
  asked,     \* callers of relay-connect-async
  told,      \* per caller: how often on-ready or on-error was scheduled
  deaths, refusals,
  use        \* how the session uses the connection; never changes

vars == <<conn, table, started, stack, watches, added, asked, told, deaths, refusals, use>>

\* hello: "sent"; its reply "ok", "bad" (wrong version) or "fail" (timeout,
\* transport) until it is handled; then "done", or "signalled" if an error came
\* before the waiters were told.  watch: the server process watches the directory
\* ("on") or not ("off"), has "refused" to, or has it "listed" without a watcher.
Unused == [proc |-> "none", mode |-> "sync", ready |-> FALSE, waiters |-> {},
           hello |-> "done", watch |-> "off"]
Opening(mode, ws) ==
  [Unused EXCEPT !.proc = "live", !.mode = mode, !.waiters = ws, !.hello = "sent"]

Live(c) == c # None /\ conn[c].proc = "live"
Frame(op, c, then, d) ==
  [op |-> op, conn |-> c, then |-> then, id |-> d, answer |-> "ok", reply |-> "none"]
Top == Head(stack)

\* The call is still waiting for its reply.
Blocked(f) == IF f.op = "connect" THEN conn[f.conn].hello = "sent" ELSE f.reply = "none"

\* Emacs waits for events and runs timers.
EventLoop == IF stack = <<>> THEN TRUE ELSE Blocked(Top)

\* Commands, and Lisp run by timers and event handlers.
LispRuns == stack = <<>> \/ (use = "nested" /\ EventLoop)

-----------------------------------------------------------------------------
\* Mutant: whatever is registered goes.
UnregisterAny(c) == None

\* The table after c has been removed, unless a newer connection replaced it.
Unregister(c) == IF table = c THEN None ELSE table

\* What the sentinel does to connection object k: a pending hello fails.
Closed(k) == [k EXCEPT !.proc = "gone", !.hello = IF @ = "sent" THEN "fail" ELSE @]

\* And to the blocking calls that wait on connection c.
Failed(c, frames) ==
  [i \in DOMAIN frames |->
     IF frames[i].op = "watch" /\ frames[i].conn = c /\ frames[i].reply = "none"
     THEN [frames[i] EXCEPT !.reply = "fail"] ELSE frames[i]]

\* Mutant: nobody hears of a failed handshake.
ToldNobody(ws) == told

Notified(ws) == [w \in Waiters |-> IF w \in ws THEN told[w] + 1 ELSE told[w]]

\* The "watch" request of handle_ctl: what it leaves, and the answer.  Without a
\* watcher the directory stays in the table, and only the first answer is an error.
Watched(v) ==
  CASE v = "off" -> {<<"on", "ok">>, <<"refused", "fail">>, <<"listed", "fail">>}
    [] v = "refused" -> {<<"on", "ok">>, <<"refused", "fail">>}
    [] OTHER -> {<<v, "ok">>}

\* Mutant: a new connection starts without watches.
NotRewatched(k) == {k}

\* relay--rewatch-direct-on-connect: nobody looks at the answer.
Rewatched(k) ==
  IF watches = {} THEN {k} ELSE {[k EXCEPT !.watch = o[1]] : o \in Watched(k.watch)}

-----------------------------------------------------------------------------
(* relay-connect-async *)

\* relay--connect-async-start
StartAsync(w) ==
  /\ started < MaxConns
  /\ started' = started + 1
  /\ table' = started'
  /\ conn' = [conn EXCEPT ![started'] = Opening("async", {w})]
  /\ UNCHANGED <<told, refusals>>

\* The process cannot be started, or the hello cannot be sent to it: then its
\* sentinel finds the hello in the pending table.
StartRefused(w) ==
  /\ refusals < MaxRefusals
  /\ refusals' = refusals + 1
  /\ told' = Notified({w})
  /\ \/ UNCHANGED <<started, conn, table>>
     \/ /\ started < MaxConns
        /\ started' = started + 1
        /\ conn' = [conn EXCEPT ![started'] = Closed(Opening("async", {w}))]
        /\ table' = None

ConnectAsync(w) ==
  /\ LispRuns
  /\ w \notin asked
  /\ asked' = asked \cup {w}
  /\ \/ /\ Live(table) /\ conn[table].ready
        /\ told' = Notified({w})
        /\ UNCHANGED <<conn, table, started, refusals, use>>
     \/ /\ Live(table) /\ ~conn[table].ready
        /\ conn' = [conn EXCEPT ![table].waiters = @ \cup {w}]
        /\ UNCHANGED <<told, table, started, refusals>>
     \/ ~Live(table) /\ (StartAsync(w) \/ StartRefused(w))
  /\ UNCHANGED <<stack, watches, added, deaths, use>>

\* Mutant: the reply of a blocking handshake is handled as well.
AnyHello(c) == conn[c].hello \in {"ok", "bad", "fail"}

\* The callback of an asynchronous hello is scheduled.
HelloQueued(c) == conn[c].mode = "async" /\ conn[c].hello \in {"ok", "bad", "fail"}

\* relay--connect-async-hello-done, called by the drain or by a timer of the
\* sentinel.  The waiters are taken from the object before anything else.
HelloDone(c) ==
  /\ EventLoop
  /\ HelloQueued(c)
  /\ ~\E i \in DOMAIN stack : stack[i].conn = c /\ Blocked(stack[i])
  /\ LET handled == [conn[c] EXCEPT !.waiters = {}, !.hello = "done"]
         ready == [handled EXCEPT !.ready = TRUE]
     IN
     \/ /\ conn[c].hello = "ok" /\ (Live(c) \/ watches = {})
        /\ \E k \in Rewatched(ready) : conn' = [conn EXCEPT ![c] = k]
        /\ told' = Notified(conn[c].waiters)
        /\ UNCHANGED <<table, stack>>
     \/ /\ conn[c].hello = "ok" /\ ~Live(c)      \* a request for a watch or for
        /\ conn' = [conn EXCEPT ![c] = [ready EXCEPT !.hello = "signalled"]]
        /\ UNCHANGED <<told, table, stack>>       \* a marked directory signals
     \/ /\ conn[c].hello # "ok"
        /\ table' = Unregister(c)
        /\ conn' = [conn EXCEPT ![c] = Closed(handled)]
        /\ stack' = Failed(c, stack)
        /\ told' = Notified(conn[c].waiters)
  /\ UNCHANGED <<started, watches, added, asked, deaths, refusals, use>>

\* Mutant: the hello has no timeout.
NoTimeout(c) == FALSE

\* relay-connect-timeout passes.
TimedOut(c) == conn[c].mode = "async" /\ conn[c].hello = "sent"

HelloTimeout(c) ==
  /\ EventLoop
  /\ TimedOut(c)
  /\ conn' = [conn EXCEPT ![c].hello = "fail"]
  /\ UNCHANGED <<table, started, stack, watches, added, asked, told, deaths, refusals, use>>

-----------------------------------------------------------------------------
(* Blocking operations *)

\* relay--connect up to the wait for the hello.
Connect(then, d) ==
  /\ started < MaxConns
  /\ started' = started + 1
  /\ table' = started'
  /\ conn' = [conn EXCEPT ![started'] = Opening("sync", {})]
  /\ stack' = <<Frame("connect", started', then, d)>> \o stack

\* relay--request of "watch" on a live connection: the server handles control
\* requests in the order they were sent.
SendWatch(c, k, d, rest) ==
  \E o \in Watched(k.watch) :
    /\ conn' = [conn EXCEPT ![c] = [k EXCEPT !.watch = o[1]]]
    /\ stack' = <<[Frame("watch", c, "done", d) EXCEPT !.answer = o[2]]>> \o rest

\* An operation calls relay--connection; a live connection serves it at once.
FileOperation ==
  /\ use # "async" /\ LispRuns /\ ~Live(table)
  /\ Connect("done", 0)
  /\ UNCHANGED <<watches, added, asked, told, deaths, refusals, use>>

\* relay--h-file-notify-add-watch
AddWatch ==
  /\ use # "async" /\ LispRuns /\ added < MaxWatches[use]
  /\ added' = added + 1
  /\ \/ /\ Live(table) /\ SendWatch(table, conn[table], added', stack)
        /\ UNCHANGED <<started, table>>
     \/ ~Live(table) /\ Connect("watch", added')
  /\ UNCHANGED <<watches, asked, told, deaths, refusals, use>>

\* relay--connect after the wait.
ConnectDone ==
  /\ stack # <<>> /\ Top.op = "connect"
  /\ LET c == Top.conn
         rest == Tail(stack)
         ready == [conn[c] EXCEPT !.ready = TRUE, !.hello = "done"]
     IN
     \/ /\ conn[c].hello = "ok" /\ Live(c)
        /\ \E k \in Rewatched(ready) :
             IF Top.then = "watch" THEN SendWatch(c, k, Top.id, rest)
             ELSE conn' = [conn EXCEPT ![c] = k] /\ stack' = rest
        /\ UNCHANGED table
     \/ /\ conn[c].hello = "ok" /\ ~Live(c)
        /\ conn' = [conn EXCEPT ![c] = ready]
        /\ stack' = rest
        /\ UNCHANGED table
     \/ /\ conn[c].hello # "ok"      \* refused, failed, or past the deadline
        /\ table' = Unregister(c)
        /\ conn' = [conn EXCEPT ![c] = [Closed(@) EXCEPT !.hello = "done"]]
        /\ stack' = Failed(c, rest)
  /\ UNCHANGED <<started, watches, added, asked, told, deaths, refusals, use>>

\* The descriptor is made once the server has agreed.
WatchDone ==
  /\ stack # <<>> /\ Top.op = "watch"
  /\ stack' = Tail(stack)
  /\ watches' = IF Top.reply = "ok" THEN watches \cup {Top.id} ELSE watches
  /\ UNCHANGED <<conn, table, started, added, asked, told, deaths, refusals, use>>

\* relay--h-file-notify-rm-watch.  A cached listing keeps the server's watch.
RemoveWatch ==
  \E d \in watches, cached \in BOOLEAN :
    /\ LispRuns
    /\ watches' = watches \ {d}
    /\ IF watches' = {} /\ Live(table) /\ ~cached
       THEN conn' = [conn EXCEPT ![table].watch = "off"] ELSE UNCHANGED conn
    /\ UNCHANGED <<table, started, stack, added, asked, told, deaths, refusals, use>>

-----------------------------------------------------------------------------
(* Replies and the end of a process *)

\* What a process wrote before it died is still read.
HelloReply(c) ==
  /\ conn[c].hello = "sent" /\ conn[c].proc \in {"live", "dead"}
  /\ \E r \in {"ok", "bad"} : conn' = [conn EXCEPT ![c].hello = r]
  /\ UNCHANGED <<table, started, stack, watches, added, asked, told, deaths, refusals, use>>

WatchReply ==
  \E i \in DOMAIN stack :
    /\ stack[i].op = "watch" /\ stack[i].reply = "none"
    /\ conn[stack[i].conn].proc \in {"live", "dead"}
    /\ stack' = [stack EXCEPT ![i].reply = stack[i].answer]
    /\ UNCHANGED <<conn, table, started, watches, added, asked, told, deaths, refusals, use>>

Die(c) ==
  /\ conn[c].proc = "live" /\ deaths < MaxDeaths[use]
  /\ deaths' = deaths + 1
  /\ conn' = [conn EXCEPT ![c].proc = "dead"]
  /\ UNCHANGED <<table, started, stack, watches, added, asked, told, refusals, use>>

\* relay--sentinel
Sentinel(c) ==
  /\ conn[c].proc = "dead"
  /\ conn' = [conn EXCEPT ![c] = Closed(@)]
  /\ stack' = Failed(c, stack)
  /\ table' = Unregister(c)
  /\ UNCHANGED <<started, watches, added, asked, told, deaths, refusals, use>>

-----------------------------------------------------------------------------
Init ==
  /\ conn = [c \in Conns |-> Unused]
  /\ table = None /\ started = 0 /\ stack = <<>>
  /\ watches = {} /\ added = 0
  /\ asked = {} /\ told = [w \in Waiters |-> 0]
  /\ deaths = 0 /\ refusals = 0 /\ use \in Uses

Next ==
  \/ \E w \in Waiters : ConnectAsync(w)
  \/ \E c \in Conns : \/ HelloDone(c) \/ HelloTimeout(c) \/ HelloReply(c)
                      \/ Die(c) \/ Sentinel(c)
  \/ FileOperation \/ AddWatch \/ ConnectDone \/ WatchDone \/ RemoveWatch \/ WatchReply

Spec == Init /\ [][Next]_vars

\* Emacs runs due timers and callbacks and notices dead processes, and a
\* blocking call has a deadline.  The server owes nothing.
FairSpec ==
  /\ Spec
  /\ \A c \in Conns : WF_vars(HelloDone(c)) /\ WF_vars(HelloTimeout(c)) /\ WF_vars(Sentinel(c))
  /\ WF_vars(ConnectDone) /\ WF_vars(WatchDone)

-----------------------------------------------------------------------------
(* Properties *)

\* Type invariant of the connection table and its objects; the handshake of a
\* blocking relay--connect is handled by nobody else.
TypeOK ==
  /\ conn \in [Conns -> [proc : {"none", "live", "dead", "gone"}, mode : {"sync", "async"},
                         ready : BOOLEAN, waiters : SUBSET Waiters,
                         hello : {"sent", "ok", "bad", "fail", "done", "signalled"},
                         watch : {"off", "on", "refused", "listed"}]]
  /\ table \in 0 .. started /\ started \in 0 .. MaxConns
  /\ \A i \in DOMAIN stack :
       stack[i] \in [op : {"connect", "watch"}, conn : Conns, then : {"watch", "done"},
                     id : 0 .. added, answer : {"ok", "fail"}, reply : {"none", "ok", "fail"}]
  /\ \A i \in DOMAIN stack : stack[i].op = "connect" => conn[stack[i].conn].hello # "done"
  /\ watches \subseteq 1 .. added
  /\ asked \subseteq Waiters /\ told \in [Waiters -> Nat]
  /\ deaths \in 0 .. MaxDeaths[use] /\ refusals \in 0 .. MaxRefusals /\ use \in Uses

\* relay--sentinel: "Never let its sentinel erase the newer connection."  A
\* live process is always the registered one: no connection is orphaned and
\* there are never two, whatever dies, times out or reconnects meanwhile.
LiveIsRegistered == \A c \in Conns : conn[c].proc = "live" => table = c

\* Connections that have w in their list.
Listing(w) == {c \in Conns : w \in conn[c].waiters}

\* w has joined a blocking relay--connect, which tells nobody.
Stranded(w) == \E c \in Listing(w) : conn[c].mode = "sync"

\* A process died between its hello and the callback of it.
Signalled == \E c \in Conns : conn[c].hello = "signalled"

\* relay--connect-async-hello-done: "completes the connection successfully and
\* calls all waiters' on-ready callbacks, or calls all waiters' on-error
\* callbacks".  In a session of any kind, every caller of relay-connect-async has
\* been told once, or is on the list of one handshake that is still to tell it;
\* except a caller that joined a blocking relay--connect, and the callers of a
\* process that died before its answer was handled, who may never be told.  It
\* says nothing once a process could not be started or sent to (refusals > 0):
\* then a caller can be told twice.
WaitersAccounted ==
  refusals = 0 =>
    \A w \in asked :
      \/ told[w] = 1 /\ Listing(w) = {}
      \/ told[w] = 0 /\ \E c \in Conns : Listing(w) = {c} /\ (Stranded(w) \/ conn[c].hello # "done")
      \/ told[w] = 0 /\ Listing(w) = {} /\ Signalled

\* Every caller of relay-connect-async is told, without help from the server and
\* although other callers block, unless it joined a blocking relay--connect or a
\* process died between its hello and the callback.
WaitersAreTold == \A w \in Waiters : w \in asked ~> told[w] > 0 \/ Stranded(w) \/ Signalled

\* Direct watches: "so it survives any number of reconnects".  Whenever a
\* connection is ready and a descriptor is registered, the server of that
\* connection watches the directory or has refused to, if no watch is removed
\* while another is being added (use = "nested").  That it has refused is not
\* noticed: the client ignores the answer.
WatchesSurvive ==
  use # "nested" /\ Live(table) /\ conn[table].ready /\ watches # {} => conn[table].watch # "off"
=============================================================================
