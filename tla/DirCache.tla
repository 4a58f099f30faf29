------------------------------ MODULE DirCache ------------------------------
(***************************************************************************)
(* The cache of directory listings and what keeps it true: the server's    *)
(* watch table (server/src/control.rs), the translation of OS events       *)
(* (main.rs), readdir and stat in the worker pool (fs_handlers.rs), and    *)
(* the client's fetch, rewarm, revalidation and event handling             *)
(* (lisp/relay-prefetch.el).                                               *)
(*                                                                         *)
(* One directory, of which one entry is followed, known to the client      *)
(* under its own path (Canon) and under symbolic links to it.  Requests    *)
(* reach the main loop in order; it handles watch and unwatch itself and   *)
(* hands the others to the workers.  Events are handled as they arrive,    *)
(* callbacks of replies are deferred.                                      *)
(***************************************************************************)
EXTENDS Integers, FiniteSets, SequencesExt

CONSTANTS
  Aliases,       \* paths of the directory
  Canon,         \* the one that is no symbolic link
  Marked,        \* those marked for listing prefetch
  MaxChanges,    \* bound: changes of the entry and of the directory
  MaxInputs      \* bound: connections made and commands of the user

ASSUME DirCacheAssumption ==
  /\ IsFiniteSet(Aliases) /\ Canon \in Aliases /\ Marked \subseteq Aliases
  /\ MaxChanges \in Nat /\ MaxInputs \in Nat

VARIABLES
  entry,    \* the entry: 0 if there is none, else the change that made it
  mtime,    \* of the directory: the change that last added or removed the entry
  exists,   \* the directory is there
  clock,    \* changes so far
  watcher,  \* the server has an OS watcher
  table,    \* aliases in the watch table's entry for Canon
  osWatch,  \* the OS watches the directory
  osQueue,  \* its events not yet passed on: "child" or "self"
  period,   \* per alias: the watch period it is in, 0 if not watched
  inbox,    \* requests on their way to the main loop
  jobs,     \* requests in the worker pool
  outbox,   \* the writer's queue and the pipe: events and replies
  due,      \* replies whose callback is scheduled
  blocked,  \* aliases for which a command waits
  epoch,    \* relay-conn-cache-epoch
  cache,    \* relay-conn-dircache, per alias
  kept,     \* relay--listing-prefetch-cache, per alias
  direct,   \* aliases with a direct file-notify watch
  periods,  \* watch periods so far
  inputs    \* connections made and commands so far

disk == <<entry, mtime, exists, clock>>
watching == <<watcher, table, osWatch, period, periods>>
wire == <<inbox, jobs, outbox, due>>
client == <<blocked, epoch, cache, kept, direct>>
vars == <<disk, watching, osQueue, wire, client, inputs>>

\* entry and key: what was listed, and the mtime that goes with it.  period: the
\* watch period the alias was in when the listing was begun.  how: "fetched", or
\* "kept" from an earlier connection.
Nothing == [entry |-> 0, key |-> 0, period |-> 0, how |-> "none"]
Cached(a) == cache[a].how # "none"

\* "listing" and "add" have a command waiting for the reply.  old: the kept
\* listing that a "stat" is to validate, as it was when the request was made.
Request(op, a, e) ==
  [op |-> op, alias |-> a, epoch |-> e, stage |-> "sent", entry |-> 0, key |-> 0, period |-> 0,
   ok |-> TRUE, old |-> IF op = "stat" THEN kept[a] ELSE Nothing]
Event(kind, a) == Request(kind, a, 0)

Send(reqs) == inbox' = inbox \o reqs

-----------------------------------------------------------------------------
(* The file system *)

Noticed(kinds) == osQueue' = IF osWatch THEN osQueue \o kinds ELSE osQueue

\* Adding or removing the entry changes the directory's mtime, writing to it
\* does not.
Change ==
  /\ exists /\ clock < MaxChanges
  /\ clock' = clock + 1
  /\ \/ entry' = (IF entry = 0 THEN clock' ELSE 0) /\ mtime' = clock'
     \/ entry # 0 /\ entry' = clock' /\ UNCHANGED mtime
  /\ Noticed(<<"child">>)
  /\ UNCHANGED <<exists, watching, wire, client, inputs>>

\* The last entries go first.  The OS forgets the watch of a directory that is
\* removed.
RemoveDir ==
  /\ exists /\ entry = 0 /\ clock < MaxChanges
  /\ exists' = FALSE /\ clock' = clock + 1
  /\ Noticed(<<"child", "self">>)
  /\ osWatch' = FALSE /\ period' = [a \in Aliases |-> 0]
  /\ UNCHANGED <<entry, mtime, watcher, table, periods, wire, client, inputs>>

MakeDir ==
  /\ ~exists /\ clock < MaxChanges
  /\ exists' = TRUE /\ clock' = clock + 1 /\ mtime' = clock'
  /\ UNCHANGED <<entry, watching, osQueue, wire, client, inputs>>

-----------------------------------------------------------------------------
(* The watcher callback of main.rs *)

\* One event for each alias of the directory, in the order they were watched.
ToAliases(kind) == [i \in DOMAIN table |-> Event(kind, table[i])]

PassOn ==
  /\ osQueue # <<>>
  /\ osQueue' = Tail(osQueue)
  /\ outbox' = outbox \o
       (CASE table # <<>> -> ToAliases(Head(osQueue))
          [] table = <<>> /\ Head(osQueue) = "child" -> <<Event("child", Canon)>>
          [] OTHER -> <<Event("parent", Canon)>>)
  /\ UNCHANGED <<disk, watching, inbox, jobs, due, client, inputs>>

\* The OS or the watcher has lost events.
Overflow ==
  /\ osQueue # <<>>
  /\ osQueue' = <<>>
  /\ outbox' = Append(outbox, Event("overflow", Canon))
  /\ UNCHANGED <<disk, watching, inbox, jobs, due, client, inputs>>

-----------------------------------------------------------------------------
(* handle_ctl.  Only file-notify-add-watch looks at the reply. *)

Registered(a) == \E i \in DOMAIN table : table[i] = a

\* Mutant: an alias is entered again each time it is watched.
WithAgain(a) == Append(table, a)

With(a) == IF Registered(a) THEN table ELSE Append(table, a)

Watched(a) ==
  /\ table' = With(a)
  /\ IF osWatch' /\ period[a] = 0
     THEN periods' = periods + 1 /\ period' = [period EXCEPT ![a] = periods']
     ELSE UNCHANGED <<period, periods>>

\* A link to a directory that is gone cannot be resolved.
Resolves(a) == exists \/ a = Canon

\* "watch": the OS is asked only for the first alias, and may refuse.
WatchOp(a, ok) ==
  \/ ok /\ Resolves(a) /\ table # <<>> /\ UNCHANGED osWatch /\ Watched(a)
  \/ ok /\ table = <<>> /\ watcher /\ exists /\ osWatch' = TRUE /\ Watched(a)
  \/ ~ok /\ Resolves(a) /\ table = <<>> /\ ~watcher /\ UNCHANGED osWatch /\ Watched(a)
  \/ /\ ~ok /\ (~Resolves(a) \/ (table = <<>> /\ watcher))
     /\ UNCHANGED <<table, osWatch, period, periods>>

Without(a) == RemoveFirst(table, a)

\* "unwatch": with the last alias the OS watch goes.
UnwatchOp(a) ==
  /\ table' = Without(a)
  /\ osWatch' = (osWatch /\ table' # <<>>)
  /\ period' = [period EXCEPT ![a] = 0]
  /\ UNCHANGED periods

\* The main loop takes the next request.
Take ==
  /\ inbox # <<>>
  /\ inbox' = Tail(inbox)
  /\ LET r == Head(inbox) IN
     \/ r.op = "watch" /\ (\E ok \in BOOLEAN : WatchOp(r.alias, ok)) /\ UNCHANGED <<jobs, outbox>>
     \/ \E ok \in BOOLEAN :
          /\ r.op = "add" /\ WatchOp(r.alias, ok)
          /\ outbox' = Append(outbox, [r EXCEPT !.stage = "replied", !.ok = ok])
          /\ UNCHANGED jobs
     \/ r.op = "unwatch" /\ UnwatchOp(r.alias) /\ UNCHANGED <<jobs, outbox>>
     \/ /\ r.op \in {"listing", "rewarm", "stat"} /\ jobs' = jobs \cup {r}
        /\ UNCHANGED <<table, osWatch, period, periods, outbox>>
  /\ UNCHANGED <<disk, watcher, osQueue, due, client, inputs>>

-----------------------------------------------------------------------------
(* readdir_stream and stat in the workers *)

NoMtime == -1

\* stat_value does not follow a symbolic link, whose own mtime stays, and gives
\* null for what does not exist.
MtimeOf(a) ==
  CASE a # Canon -> 0
    [] a = Canon /\ exists -> mtime
    [] OTHER -> NoMtime

\* Mutant: the directory's mtime is taken after its entries.
KeyLast(r) ==
  IF r.stage = "sent" THEN [r EXCEPT !.entry = entry] ELSE [r EXCEPT !.key = MtimeOf(r.alias)]

\* self_attrs is taken once the directory is open, before its entries are read.
SelfAttrsFirst(r) ==
  IF r.stage = "sent" THEN [r EXCEPT !.key = MtimeOf(r.alias)] ELSE [r EXCEPT !.entry = entry]

Answer(r, reply) ==
  /\ jobs' = jobs \ {r}
  /\ outbox' = Append(outbox, [reply EXCEPT !.stage = "replied"])

\* The entries are read and the reply is queued in one step: an event that comes
\* between can as well come before the reply's callback.
Work(r) ==
  /\ \/ /\ r.stage = "sent" /\ ~exists /\ r.op # "stat"
        /\ Answer(r, [r EXCEPT !.ok = FALSE])
     \/ /\ r.stage = "sent" /\ r.op = "stat"
        /\ Answer(r, [r EXCEPT !.key = MtimeOf(r.alias), !.period = period[r.alias]])
     \/ /\ r.stage = "sent" /\ exists /\ r.op # "stat"
        /\ jobs' = (jobs \ {r})
             \cup {[SelfAttrsFirst(r) EXCEPT !.stage = "open", !.period = period[r.alias]]}
        /\ UNCHANGED outbox
     \/ r.stage = "open" /\ Answer(r, SelfAttrsFirst(r))
  /\ UNCHANGED <<disk, watching, osQueue, inbox, due, client, inputs>>

-----------------------------------------------------------------------------
(* The client: commands *)

\* There is a connection and nothing waits.
Ready == inputs > 0 /\ blocked = {} /\ inputs < MaxInputs /\ inputs' = inputs + 1

\* relay--listing on a miss
Listing(a) ==
  /\ Ready /\ ~Cached(a)
  /\ blocked' = {a}
  /\ Send(<<Request("listing", a, epoch)>>)
  /\ UNCHANGED <<disk, watching, osQueue, jobs, outbox, due, epoch, cache, kept, direct>>

\* relay--h-file-notify-add-watch
AddWatch(a) ==
  /\ Ready /\ a \notin direct
  /\ blocked' = {a}
  /\ Send(<<Request("add", a, epoch)>>)
  /\ UNCHANGED <<disk, watching, osQueue, jobs, outbox, due, epoch, cache, kept, direct>>

\* relay--h-file-notify-rm-watch: a cached listing keeps the server's watch.
RemoveWatch(a) ==
  /\ Ready /\ a \in direct
  /\ direct' = direct \ {a}
  /\ IF Cached(a) THEN UNCHANGED inbox ELSE Send(<<Request("unwatch", a, epoch)>>)
  /\ UNCHANGED <<disk, watching, osQueue, jobs, outbox, due, blocked, epoch, cache, kept>>

\* relay-request-timeout: the command gives up.  A listing for nobody has no
\* effect, a watch has.  There is one request that a command waits for.
Waited(r) == r.op \in {"listing", "add"}

GivenUp(s) == RemoveFirstMatch(s, Waited)

TimeOut ==
  /\ blocked # {}
  /\ blocked' = {}
  /\ LET left == RemoveFirstMatch(inbox, LAMBDA r : r.op = "listing")
     IN inbox' = [i \in DOMAIN left |-> IF left[i].op = "add" THEN [left[i] EXCEPT !.op = "watch"]
                                        ELSE left[i]]
  /\ jobs' = {r \in jobs : ~Waited(r)}
  /\ outbox' = GivenUp(outbox) /\ due' = GivenUp(due)
  /\ UNCHANGED <<disk, watching, osQueue, epoch, cache, kept, direct, inputs>>

-----------------------------------------------------------------------------
(* Replies *)

\* Mutant: a reply is installed whatever has happened since.
AnyEpoch(r) == TRUE

SameEpoch(r) == r.epoch = epoch

\* relay--listing-populate, then the watch is asked for.
Populate(r) ==
  /\ cache' = [cache EXCEPT ![r.alias] = [entry |-> r.entry, key |-> r.key,
                                           period |-> r.period, how |-> "fetched"]]
  /\ kept' = IF r.alias \in Marked
             THEN [kept EXCEPT ![r.alias] = [@ EXCEPT !.entry = r.entry, !.key = r.key,
                                                      !.how = "kept"]]
             ELSE kept
  /\ Send(<<Request("watch", r.alias, epoch)>>)

\* The stat of relay--revalidate-marked-on-connect has been answered.
Revalidate(r) ==
  \/ /\ r.key = r.old.key
     /\ cache' = [cache EXCEPT ![r.alias] = [r.old EXCEPT !.period = r.period]]
     /\ Send(<<Request("watch", r.alias, epoch)>>)
     /\ UNCHANGED kept
  \/ /\ r.key # r.old.key
     /\ Send(<<Request("rewarm", r.alias, epoch)>>)
     /\ UNCHANGED <<cache, kept>>

Drop == UNCHANGED <<inbox, cache, kept>>

\* The drain calls the next callback.  relay--listing tries again if an event
\* came first, and signals an error if the directory cannot be read.
RunCallback ==
  /\ due # <<>>
  /\ due' = Tail(due)
  /\ LET r == Head(due) IN
     \/ /\ r.op = "listing" /\ r.ok /\ SameEpoch(r)
        /\ Populate(r) /\ blocked' = {}
     \/ /\ r.op = "listing" /\ r.ok /\ ~SameEpoch(r)
        /\ Send(<<Request("listing", r.alias, epoch)>>)
        /\ UNCHANGED <<cache, kept, blocked>>
     \/ r.op = "listing" /\ ~r.ok /\ Drop /\ blocked' = {}
     \/ /\ r.op = "rewarm" /\ UNCHANGED blocked
        /\ IF SameEpoch(r) /\ r.ok THEN Populate(r) ELSE Drop
     \/ /\ r.op = "stat" /\ UNCHANGED blocked
        /\ IF SameEpoch(r) THEN Revalidate(r) ELSE Drop
  /\ UNCHANGED <<disk, watching, osQueue, jobs, outbox, epoch, direct, inputs>>

-----------------------------------------------------------------------------
(* relay--dispatch and relay--handle-event *)

\* relay--listing-rewarm-async for each of them
Rewarm(paths, e) == [k \in DOMAIN paths |-> Request("rewarm", paths[k], e)]

\* An event of the parent directory names this one, which is evicted by prefix.
Evicted(kind, a) ==
  IF kind = "overflow" THEN [b \in Aliases |-> Nothing] ELSE [cache EXCEPT ![a] = Nothing]

Dispatch ==
  /\ outbox # <<>>
  /\ outbox' = Tail(outbox)
  /\ LET m == Head(outbox) IN
     \/ /\ m.stage = "replied" /\ m.op # "add"
        /\ due' = Append(due, m)
        /\ UNCHANGED <<inbox, blocked, epoch, cache, kept, direct>>
     \/ /\ m.op = "add"
        /\ blocked' = {}
        /\ direct' = IF m.ok THEN direct \cup {m.alias} ELSE direct
        /\ UNCHANGED <<inbox, due, epoch, cache, kept>>
     \/ /\ m.stage # "replied"
        /\ epoch' = epoch + 1
        /\ cache' = Evicted(m.op, m.alias)
        /\ kept' = IF m.op = "self" THEN [kept EXCEPT ![m.alias] = Nothing] ELSE kept
        /\ Send(CASE m.op = "overflow" -> Rewarm(SetToSeq(Marked), epoch')
                         [] m.op = "child" /\ m.alias \in Marked -> Rewarm(<<m.alias>>, epoch')
                         [] OTHER -> <<>>)
        /\ UNCHANGED <<due, blocked, direct>>
  /\ UNCHANGED <<disk, watching, osQueue, jobs, inputs>>

-----------------------------------------------------------------------------
(* A new connection: a new server process, revalidation and direct watches *)

OnConnect(e) ==
  LET Validate(a) == IF kept[a].how = "none" THEN "rewarm" ELSE "stat"
      marked == SetToSeq(Marked)
      again == SetToSeq(direct)
  IN [k \in DOMAIN marked |-> Request(Validate(marked[k]), marked[k], e)]
       \o [k \in DOMAIN again |-> Request("watch", again[k], e)]

Connect ==
  /\ inputs < MaxInputs
  /\ inputs' = inputs + 1
  /\ watcher' \in BOOLEAN
  /\ table' = <<>> /\ osWatch' = FALSE /\ osQueue' = <<>>
  /\ period' = [a \in Aliases |-> 0]
  /\ jobs' = {} /\ outbox' = <<>> /\ due' = <<>> /\ blocked' = {}
  /\ epoch' = 0 /\ cache' = [a \in Aliases |-> Nothing]
  /\ inbox' = OnConnect(0)
  /\ UNCHANGED <<disk, periods, kept, direct>>

-----------------------------------------------------------------------------
Init ==
  /\ entry = 0 /\ mtime = 0 /\ exists = TRUE /\ clock = 0
  /\ watcher = FALSE /\ table = <<>> /\ osWatch = FALSE /\ osQueue = <<>>
  /\ period = [a \in Aliases |-> 0] /\ periods = 0
  /\ inbox = <<>> /\ jobs = {} /\ outbox = <<>> /\ due = <<>>
  /\ blocked = {} /\ epoch = 0 /\ direct = {}
  /\ cache = [a \in Aliases |-> Nothing] /\ kept = [a \in Aliases |-> Nothing]
  /\ inputs = 0

Next ==
  \/ Change \/ RemoveDir \/ MakeDir \/ PassOn \/ Overflow \/ Take
  \/ \E r \in jobs : Work(r)
  \/ \E a \in Aliases : Listing(a) \/ AddWatch(a) \/ RemoveWatch(a)
  \/ TimeOut \/ RunCallback \/ Dispatch \/ Connect

Spec == Init /\ [][Next]_vars

\* The server's threads and the client's event loop run.
FairSpec ==
  /\ Spec
  /\ WF_vars(PassOn) /\ WF_vars(Take) /\ WF_vars(\E r \in jobs : Work(r))
  /\ WF_vars(RunCallback) /\ WF_vars(Dispatch)

-----------------------------------------------------------------------------
(* Properties *)

Listings == [entry : 0 .. MaxChanges, key : NoMtime .. MaxChanges, period : 0 .. periods,
             how : {"none", "fetched", "kept"}]

\* Type invariant of directory, watch table and caches; the OS is watching only
\* for aliases of the table, each of which is there once.
TypeOK ==
  /\ entry \in 0 .. clock /\ mtime \in 0 .. clock /\ clock \in 0 .. MaxChanges
  /\ exists \in BOOLEAN /\ watcher \in BOOLEAN /\ osWatch \in BOOLEAN
  /\ table \in Seq(Aliases) /\ IsInjective(table)
  /\ osWatch => table # <<>>
  /\ period \in [Aliases -> 0 .. periods] /\ \A a \in Aliases : period[a] # 0 => osWatch
  /\ osQueue \in Seq({"child", "self"})
  /\ cache \in [Aliases -> Listings] /\ kept \in [Aliases -> Listings]
  /\ blocked \subseteq Aliases /\ direct \subseteq Aliases /\ epoch \in Nat

\* The cached listing of a is not what a fresh one would be.  The attributes of
\* a listing kept from an earlier connection are not promised to be current.
Differs(a) ==
  CASE cache[a].how = "fetched" -> cache[a].entry # entry
    [] cache[a].how = "kept" -> (cache[a].entry = 0) # (entry = 0)
    [] OTHER -> FALSE

\* An event that evicts the listing of a is on its way.
Announced(a) ==
  \/ osQueue # <<>>
  \/ \E i \in DOMAIN outbox :
       outbox[i].op = "overflow" \/ (outbox[i].op \in {"child", "self"} /\ outbox[i].alias = a)

\* The alias has been watched since before its listing was made or validated.
Covered(a) == cache[a].period # 0 /\ cache[a].period = period[a]

\* "Every FS event wins over all older outstanding listing/revalidation replies":
\* a listing made while its directory was watched is never wrong without an
\* event on its way that evicts it, however replies, events, retries, watches
\* under other names and their removal interleave.  And an unchanged mtime is
\* "a reliable, much cheaper substitute for a full re-`readdir'": this is so of
\* a listing kept across a reconnect too, as far as its names go.
CoveredIsCurrent ==
  \A a \in Aliases : /\ Covered(a) /\ Differs(a)
                     /\ cache[a].how = "kept" => a = Canon
                     => Announced(a)

\* The same without the exception that CoveredIsCurrent makes for listings kept
\* of a symbolic link.
LinksAreRevalidated ==
  \A a \in Aliases : Covered(a) /\ Differs(a) /\ cache[a].how = "kept" => Announced(a)

\* "an invalidated mark shouldn't silently degrade to fetched only on next visit":
\* once changes end, the marked directory is cached again; if it is not removed
\* and no other alias has events of its own, which make older replies void.
StaysWarm ==
  [](exists /\ \A i \in DOMAIN table : table[i] = Canon) => <>[](inputs > 0 => Cached(Canon))
=============================================================================
