---------------------------- MODULE Coordinator ----------------------------
(***************************************************************************)
(* The coordinators of the tabs that share one database                    *)
(* (src/worker/coordinator.ts): they elect an owner through a browser      *)
(* lock, hear of it by broadcasts that race, route their page's requests   *)
(* to it, and settle the requests that an owner took with it when it went. *)
(*                                                                         *)
(* The owner's broker and engine are reduced to one step that serves a     *)
(* request (module Broker has their detail, and their own checks of        *)
(* transactions and releases).  A request with a `tx` stands for any       *)
(* statement, commit or rollback of a transaction begun under that epoch.  *)
(* Every request that runs publishes one revision, except init, begin and  *)
(* close.  The bounds on waiting requests are those of module Broker.      *)
(*                                                                         *)
(* Web Locks, BroadcastChannel and the exclusive file handle of OPFS are   *)
(* modelled from how the code uses them: a lock goes to its waiters in     *)
(* turn, a channel keeps the order of one sender, a broadcast reaches the  *)
(* Workers that are there, and a Worker that ends releases its locks at    *)
(* once and its file some time after.                                      *)
(***************************************************************************)
EXTENDS Naturals, FiniteSets, Sequences, SequencesExt

CONSTANTS
    Tabs,
    Workloads   \* what the pages may do, and what may go wrong

VARIABLES
    workload,   \* the workload of this behaviour, which never changes
    tab,        \* each coordinator's flags
    leader,     \* the announcement each one goes by
    pending,    \* the requests each one waits for, with the epoch they were sent to
    queries,    \* announcements heard, whose locks.query() found their owner in
                \* possession of the lock and has yet to say so
    group,      \* broadcasts under way, from each tab to each other
    routed,     \* requests under way to owners
    replies,    \* responses under way to tabs
    holder,     \* who holds the database's election lock
    waiters,    \* who waits for it, in turn
    owner,      \* how far each tab has come as an owner, and its epoch
    epochs,     \* how many owners there have been
    handle,     \* who holds the database file
    revision,   \* the revision of the database
    unannounced,\* has the owner an event to send
    told,       \* the newest revision each page has been told to read
    log,        \* every request: what it asks, its outcome, and the epochs it ran in
    refreshes

vars == <<tab, leader, pending, queries, group, routed, replies, holder, waiters,
          owner, epochs, handle, revision, unannounced, told, log, refreshes, workload>>

-----------------------------------------------------------------------------

Releases == workload.releases       \* what COORDINATION_COMPATIBILITY may be where a
                                    \* page loads its code
Kinds == workload.kinds             \* what pages ask for, apart from init
MaxRequests == workload.requests    \* bound: requests of each page, init included
MaxRefreshes == workload.refreshes  \* bound: refreshes that pages ask for
MayCrash == workload.mayCrash       \* the tabs whose Worker may be terminated
MayClose == workload.mayClose       \* the tabs whose page may close its client
Faults == workload.faults           \* an owner may meet a fatal engine error, or fail to
                                    \* open the database

NoTab == "none"

ASSUME CoordinatorAssumption ==
    /\ NoTab \notin Tabs
    /\ \A w \in Workloads :
         /\ w.kinds \subseteq {"write", "begin", "inTransaction"}
         /\ w.requests \in [Tabs -> Nat]
         /\ w.refreshes \in Nat
         /\ w.mayCrash \subseteq Tabs /\ w.mayClose \subseteq Tabs
         /\ w.faults \subseteq {"engine", "open"}

NoEpoch == 0
NoLeader == [epoch |-> NoEpoch, ready |-> FALSE, owner |-> NoTab, release |-> "none"]
NotOwner == [phase |-> "none", epoch |-> NoEpoch]
Request(kind, tx) == [kind |-> kind, tx |-> tx, outcome |-> "waiting", ran |-> <<>>]

Init ==
    /\ workload \in Workloads
    /\ tab = [t \in Tabs |-> [here |-> FALSE, joined |-> FALSE, closed |-> FALSE,
                              initialized |-> FALSE, refreshRequested |-> FALSE,
                              terminal |-> FALSE, release |-> "none"]]
    /\ leader = [t \in Tabs |-> NoLeader]
    /\ pending = [t \in Tabs |-> <<>>]
    /\ queries = [t \in Tabs |-> <<>>]
    /\ group = [s \in Tabs |-> [t \in Tabs |-> <<>>]]
    /\ routed = {}
    /\ replies = {}
    /\ holder = NoTab
    /\ waiters = <<>>
    /\ owner = [t \in Tabs |-> NotOwner]
    /\ epochs = 0
    /\ handle = NoTab
    /\ revision = 0
    /\ unannounced = FALSE
    /\ told = [t \in Tabs |-> 0]
    /\ log = [t \in Tabs |-> <<>>]
    /\ refreshes = 0

\* The Worker takes requests; it hears broadcasts until it is gone.
Listening(t) == tab[t].here /\ ~tab[t].closed
Serving(t) == Listening(t) /\ owner[t].phase = "serving"
\* `owner`: the broker of a tab, which stays when the tab has retired.
HasBroker(t) == owner[t].phase \in {"serving", "retiring", "retired"}
\* `releaseLeader`: the tab has been granted the lock, and may have lost it since.
WasElected(t) == owner[t].phase # "none"

\* group.postMessage: every other tab that is there will hear it.
Broadcast(channels, s, message) ==
    [channels EXCEPT ![s] =
        [t \in Tabs |-> IF t # s /\ tab[t].here THEN Append(@[t], message) ELSE @[t]]]

\* What a tab that has gone would have heard is lost.
Deafen(channels, t) == [s \in Tabs |-> [channels[s] EXCEPT ![t] = <<>>]]

-----------------------------------------------------------------------------
(* Requests of a page. *)

\* startCoordinator: a Worker is started by the init request of its page.
Start(t) ==
    /\ log[t] = <<>> /\ MaxRequests[t] > 0
    /\ \E release \in Releases :
         tab' = [tab EXCEPT ![t].here = TRUE, ![t].release = release]
    /\ log' = [log EXCEPT ![t] = <<Request("init", NoEpoch)>>]
    /\ pending' = [pending EXCEPT ![t] = <<NoEpoch>>]
    /\ UNCHANGED <<leader, queries, group, routed, replies, holder, waiters, owner,
                   epochs, handle, revision, unannounced, told, refreshes, workload>>

Drop(waiting, ids) == [n \in DOMAIN waiting \ ids |-> waiting[n]]
\* The log of a tab after its requests `ids` have ended with `outcome`.
Settled(entries, ids, outcome) ==
    [n \in DOMAIN entries |->
        IF n \in ids THEN [entries[n] EXCEPT !.outcome = outcome] ELSE entries[n]]

Dispatched(t) == {n \in DOMAIN pending[t] : pending[t][n] # NoEpoch}

\* A transaction of another owner is lost with it.
\* Mutant of IsLost: the owner that is there now is asked about it.
NeverLost(request, epoch) == FALSE
IsLost(request, epoch) == request.tx \notin {NoEpoch, epoch}

\* Mutant of MayDispatch: a request goes to every owner in turn.
MayDispatchAgain(waiting, n) == TRUE
MayDispatch(waiting, n) == waiting[n] = NoEpoch

\* dispatch() of the requests in `waiting` to the owner that `m` announces, if one
\* `may` be: those of a lost transaction fail, the others are sent.
Dispatch(t, waiting, entries, m, may) ==
    LET due == {n \in DOMAIN waiting : may /\ MayDispatch(waiting, n)}
        lost == {n \in due : IsLost(entries[n], m.epoch)}
        sent == due \ lost
    IN /\ pending' = [pending EXCEPT ![t] =
             [n \in DOMAIN waiting \ lost |-> IF n \in sent THEN m.epoch ELSE waiting[n]]]
       /\ routed' = routed \cup {[tab |-> t, n |-> n, epoch |-> m.epoch] : n \in sent}
       /\ log' = [log EXCEPT ![t] = Settled(entries, lost, "TRANSACTION_LOST")]

\* The transaction that a page's statement names: one that a begin gave it.
TransactionsOf(t) ==
    {log[t][n].ran[1] : n \in {i \in DOMAIN log[t] :
        log[t][i].kind = "begin" /\ log[t][i].outcome = "OK"}}

IsClosing(t) == \E n \in DOMAIN log[t] : log[t][n].kind = "close"
MayAsk(t) == Listening(t) /\ Len(log[t]) \in 1 .. MaxRequests[t] - 1 /\ ~IsClosing(t)

\* enqueue(): a request joins those that wait, and is sent if there is an owner.
Enqueue(t, request) ==
    LET n == Len(log[t]) + 1
    IN /\ Dispatch(t, [i \in DOMAIN pending[t] \cup {n} |->
                         IF i = n THEN NoEpoch ELSE pending[t][i]],
                   Append(log[t], request), leader[t], tab[t].joined /\ leader[t].ready)
       /\ UNCHANGED <<tab, leader, queries, group, replies, holder, waiters, owner,
                      epochs, handle, revision, unannounced, told, refreshes, workload>>

\* receive()
Submit(t, kind) ==
    /\ MayAsk(t) /\ tab[t].initialized /\ ~tab[t].terminal
    /\ \/ kind # "inTransaction" /\ Enqueue(t, Request(kind, NoEpoch))
       \/ /\ kind = "inTransaction"
          /\ \E tx \in TransactionsOf(t) : Enqueue(t, Request(kind, tx))

\* A tab beyond repair refuses everything.
SubmitRefused(t, kind) ==
    /\ MayAsk(t) /\ tab[t].initialized /\ tab[t].terminal
    /\ log' = [log EXCEPT ![t] =
                 Append(@, [Request(kind, NoEpoch) EXCEPT !.outcome = "TERMINAL"])]
    /\ UNCHANGED <<tab, leader, pending, queries, group, routed, replies, holder,
                   waiters, owner, epochs, handle, revision, unannounced, told,
                   refreshes, workload>>

\* The page asks for a refresh: a tab with a broker answers it, another asks around.
Refresh(t) ==
    /\ Listening(t) /\ tab[t].initialized
    /\ refreshes < MaxRefreshes
    /\ refreshes' = refreshes + 1
    /\ IF HasBroker(t)
       THEN /\ told' = [told EXCEPT ![t] = revision]
            /\ tab' = [tab EXCEPT ![t].refreshRequested = FALSE]
            /\ UNCHANGED group
       ELSE /\ tab' = [tab EXCEPT ![t].refreshRequested = TRUE]
            /\ group' = Broadcast(group, t, [kind |-> "discover"])
            /\ UNCHANGED told
    /\ UNCHANGED <<leader, pending, queries, routed, replies, holder, waiters, owner,
                   epochs, handle, revision, unannounced, log, workload>>

-----------------------------------------------------------------------------
(* announce(): a tab goes by a new announcement. *)

Mismatched(t, m) == m.release # tab[t].release

\* An owner of another release: what was sent is in doubt, and nothing more can be.
AnnounceMismatch(t, m) ==
    /\ tab' = [tab EXCEPT ![t].terminal = TRUE]
    /\ log' = [log EXCEPT ![t] =
                 Settled(Settled(@, Dispatched(t), "LEADER_CHANGED"),
                         DOMAIN pending[t] \ Dispatched(t), "TERMINAL")]
    /\ pending' = [pending EXCEPT ![t] = <<>>]
    /\ UNCHANGED <<leader, routed, told>>

\* Mutant of InDoubt: requests that the last owner was sent wait for the next.
NoneInDoubt(t, changed) == {}
\* The requests that went to an owner which is now replaced.
InDoubt(t, changed) == IF changed THEN Dispatched(t) ELSE {}

\* Mutant of MustRefresh: a page is left with what it read under the last owner.
KeepsRefresh(t, changed) == tab[t].refreshRequested
MustRefresh(t, changed) ==
    IF changed THEN tab[t].initialized ELSE tab[t].refreshRequested

AnnounceLeader(t, m) ==
    LET changed == leader[t].epoch # m.epoch
        refresh == MustRefresh(t, changed)
    IN /\ leader' = [leader EXCEPT ![t] = m]
       /\ Dispatch(t, Drop(pending[t], InDoubt(t, changed)),
                   Settled(log[t], InDoubt(t, changed), "LEADER_CHANGED"),
                   m, tab[t].joined /\ m.ready)
       /\ tab' = [tab EXCEPT ![t].refreshRequested = refresh /\ ~m.ready]
       /\ told' = IF m.ready /\ refresh /\ tab[t].initialized
                  THEN [told EXCEPT ![t] = revision] ELSE told

\* A tab that is closing takes no more notice.
Announce(t, m) ==
    IF tab[t].closed THEN UNCHANGED <<tab, leader, pending, routed, told, log>>
    ELSE IF Mismatched(t, m) THEN AnnounceMismatch(t, m) ELSE AnnounceLeader(t, m)

\* A failure that ends the epoch a tab goes by ends that tab's use of the database.
Terminate(t) ==
    /\ tab' = [tab EXCEPT ![t].terminal = TRUE]
    /\ log' = [log EXCEPT ![t] = Settled(@, DOMAIN pending[t], "TERMINAL")]
    /\ pending' = [pending EXCEPT ![t] = <<>>]

-----------------------------------------------------------------------------
(* onGroup() *)

Heard(s, t) == [group EXCEPT ![s][t] = Tail(@)]

\* A tab that has been elected, even if it owns nothing now, repeats the
\* announcement it goes by.
HearDiscover(s, t) ==
    /\ group[s][t] # <<>> /\ Head(group[s][t]).kind = "discover"
    /\ group' = IF WasElected(t) /\ leader[t] # NoLeader
                THEN Broadcast(Heard(s, t), t, [kind |-> "leader", leader |-> leader[t]])
                ELSE Heard(s, t)
    /\ UNCHANGED <<tab, leader, pending, queries, routed, replies, holder, waiters,
                   owner, epochs, handle, revision, unannounced, told, log,
                   refreshes, workload>>

\* Mutant of Confirmed: an announcement is believed whoever holds the lock.
Believed(m) == TRUE
Confirmed(m) == holder = m.owner

\* The browser is asked who holds the lock, and takes its picture at once: a later
\* one is a later hearing.
HearLeader(s, t) ==
    LET m == Head(group[s][t]).leader IN
    /\ group[s][t] # <<>> /\ Head(group[s][t]).kind = "leader"
    /\ group' = Heard(s, t)
    /\ queries' = IF Confirmed(m) THEN [queries EXCEPT ![t] = Append(@, m)] ELSE queries
    /\ UNCHANGED <<tab, leader, pending, routed, replies, holder, waiters, owner,
                   epochs, handle, revision, unannounced, told, log,
                   refreshes, workload>>

\* The picture arrives, whatever has happened to the lock since.  Pictures come in
\* the order they were asked for.
QueryAnswered(t) ==
    /\ queries[t] # <<>>
    /\ queries' = [queries EXCEPT ![t] = Tail(@)]
    /\ Announce(t, Head(queries[t]))
    /\ UNCHANGED <<group, replies, holder, waiters, owner, epochs, handle, revision,
                   unannounced, refreshes, workload>>

HearEvent(s, t) ==
    LET m == Head(group[s][t]) IN
    /\ group[s][t] # <<>> /\ m.kind = "event"
    /\ group' = Heard(s, t)
    /\ told' = IF m.epoch = leader[t].epoch /\ told[t] < m.revision
               THEN [told EXCEPT ![t] = m.revision] ELSE told
    /\ UNCHANGED <<tab, leader, pending, queries, routed, replies, holder, waiters,
                   owner, epochs, handle, revision, unannounced, log,
                   refreshes, workload>>

HearFailure(s, t) ==
    LET m == Head(group[s][t]) IN
    /\ group[s][t] # <<>> /\ m.kind = "failed"
    /\ group' = Heard(s, t)
    /\ IF m.epoch = leader[t].epoch THEN Terminate(t) ELSE UNCHANGED <<tab, log, pending>>
    /\ UNCHANGED <<leader, queries, routed, replies, holder, waiters, owner, epochs,
                   handle, revision, unannounced, told, refreshes, workload>>

-----------------------------------------------------------------------------
(* Election. *)

\* The client lock is granted: what waits is sent, and the tab stands for owner.
Join(t) ==
    /\ Listening(t) /\ ~tab[t].joined
    /\ tab' = [tab EXCEPT ![t].joined = TRUE]
    /\ Dispatch(t, pending[t], log[t], leader[t], leader[t].ready)
    /\ group' = Broadcast(group, t, [kind |-> "discover"])
    /\ waiters' = Append(waiters, t)
    /\ UNCHANGED <<leader, queries, replies, holder, owner, epochs, handle, revision,
                   unannounced, told, refreshes, workload>>

\* The lock is granted.  A tab beyond repair lets it go at once.
Elect(t) ==
    /\ holder = NoTab /\ waiters # <<>> /\ t = Head(waiters)
    /\ waiters' = Tail(waiters)
    /\ IF tab[t].terminal
       THEN UNCHANGED <<holder, owner>>
       ELSE holder' = t /\ owner' = [owner EXCEPT ![t].phase = "elected"]
    /\ UNCHANGED <<tab, leader, pending, queries, group, routed, replies, epochs, handle,
                   revision, unannounced, told, log, refreshes, workload>>

Announcement(t, epoch, ready) ==
    [epoch |-> epoch, ready |-> ready, owner |-> t, release |-> tab[t].release]

\* The new owner has asked the browser for its own name, and so has had every picture
\* of an earlier holder.  It announces its epoch, to its own tab too, and starts to open.
Begin(t) ==
    /\ Listening(t) /\ owner[t].phase = "elected"
    /\ queries[t] = <<>>
    /\ epochs' = epochs + 1
    /\ owner' = [owner EXCEPT ![t] = [phase |-> "opening", epoch |-> epochs']]
    /\ LET m == Announcement(t, epochs', FALSE)
       IN group' = Broadcast(group, t, [kind |-> "leader", leader |-> m]) /\ Announce(t, m)
    /\ UNCHANGED <<queries, replies, holder, waiters, handle, revision, unannounced,
                   refreshes, workload>>

\* The engine is open, and the owner ready.  STORAGE_LOCKED while another Worker
\* still has the file leaves it where it is, to try again.
Opened(t) ==
    /\ Listening(t) /\ owner[t].phase = "opening"
    /\ handle = NoTab
    /\ handle' = t
    /\ owner' = [owner EXCEPT ![t].phase = "serving"]
    /\ unannounced' = FALSE
    /\ LET m == Announcement(t, owner[t].epoch, TRUE)
       IN group' = Broadcast(group, t, [kind |-> "leader", leader |-> m]) /\ Announce(t, m)
    /\ UNCHANGED <<queries, replies, holder, waiters, epochs, revision,
                   refreshes, workload>>

\* The database cannot be opened, or its file was not let go in time.
OpenFails(t) ==
    /\ Listening(t) /\ owner[t].phase = "opening"
    /\ "open" \in Faults \/ handle # NoTab
    /\ owner' = [owner EXCEPT ![t].phase = "failed"]
    /\ holder' = NoTab
    /\ group' = Broadcast(group, t, [kind |-> "failed", epoch |-> owner[t].epoch])
    /\ Terminate(t)
    /\ UNCHANGED <<leader, queries, routed, replies, waiters, epochs, handle, revision,
                   unannounced, told, refreshes, workload>>

-----------------------------------------------------------------------------
(* The owner serves. *)

Publishes(kind) == kind \in {"write", "inTransaction"}

\* The next request of each tab to reach the owner `t`: a channel keeps their order.
Inbox(t) ==
    {r \in routed : /\ Serving(t) /\ r.epoch = owner[t].epoch
                    /\ \A q \in routed : q.tab = r.tab /\ q.epoch = r.epoch => r.n <= q.n}

\* The log once request `r` has run under its epoch, and the revision that leaves.
AfterRun(r) == [log EXCEPT ![r.tab][r.n].ran = Append(@, r.epoch)]
RevisionAfter(r) == IF Publishes(log[r.tab][r.n].kind) THEN revision + 1 ELSE revision

Answer(r, outcome) ==
    [tab |-> r.tab, n |-> r.n, epoch |-> r.epoch, outcome |-> outcome,
     revision |-> revision']

\* The broker runs a request and answers it.
Serve(t, r) ==
    /\ r \in Inbox(t)
    /\ log' = AfterRun(r)
    /\ revision' = RevisionAfter(r)
    /\ routed' = routed \ {r}
    /\ unannounced' = (unannounced \/ Publishes(log[r.tab][r.n].kind))
    /\ replies' = replies \cup {Answer(r, "OK")}
    /\ UNCHANGED <<tab, leader, pending, queries, group, holder, waiters, owner, epochs,
                   handle, told, refreshes, workload>>

\* The engine fails for good in the middle of a request, which may have run: its
\* client is answered, then retire() tells everyone who goes by this epoch, the
\* owner's own page at once.
Retire(t, r) ==
    /\ "engine" \in Faults
    /\ r \in Inbox(t)
    /\ \E ran \in BOOLEAN :
         /\ revision' = IF ran THEN RevisionAfter(r) ELSE revision
         /\ log' = [(IF ran THEN AfterRun(r) ELSE log) EXCEPT ![t] =
                      Settled(Settled(@, DOMAIN pending[t], "TERMINAL"),
                              {n \in DOMAIN pending[t] : <<t, n>> = <<r.tab, r.n>>},
                              "UNKNOWN")]
    /\ routed' = routed \ {r}
    /\ replies' = replies \cup {Answer(r, "UNKNOWN")}
    /\ group' = Broadcast(group, t, [kind |-> "failed", epoch |-> r.epoch])
    /\ tab' = [tab EXCEPT ![t].terminal = TRUE]
    /\ pending' = [pending EXCEPT ![t] = <<>>]
    /\ owner' = [owner EXCEPT ![t].phase = "retiring"]
    /\ UNCHANGED <<leader, queries, holder, waiters, epochs, handle, unannounced, told,
                   refreshes, workload>>


\* The failed engine is closed, and then the lock released.
Retired(t) ==
    /\ tab[t].here /\ owner[t].phase = "retiring"
    /\ owner' = [owner EXCEPT ![t].phase = "retired"]
    /\ handle' = NoTab
    /\ holder' = NoTab
    /\ UNCHANGED <<tab, leader, pending, queries, group, routed, replies, waiters,
                   epochs, revision, unannounced, told, log, refreshes, workload>>

\* The host's event reaches the owner's own page and every other tab.
Emit(t) ==
    /\ Serving(t) /\ unannounced
    /\ unannounced' = FALSE
    /\ group' = Broadcast(group, t, [kind |-> "event", epoch |-> owner[t].epoch,
                                     revision |-> revision])
    /\ told' = [told EXCEPT ![t] = revision]
    /\ UNCHANGED <<tab, leader, pending, queries, routed, replies, holder, waiters,
                   owner, epochs, handle, revision, log, refreshes, workload>>

-----------------------------------------------------------------------------
(* Answers, and the end of a tab. *)

SpeaksForOwner(t) == HasBroker(t) /\ leader[t] # NoLeader

\* shutdown(), up to the closing of the engine.  A tab with a broker tells the others
\* that the owner it goes by is not ready any more.
Shutdown(t) ==
    /\ tab' = [tab EXCEPT ![t].closed = TRUE]
    /\ group' = IF SpeaksForOwner(t)
                THEN Broadcast(group, t, [kind |-> "leader",
                                          leader |-> [leader[t] EXCEPT !.ready = FALSE]])
                ELSE group
    /\ waiters' = RemoveFirst(waiters, t)

\* The answers a tab still waits for are those of the owner it goes by.
IsCurrent(a) == a.epoch = leader[a.tab].epoch /\ a.n \in DOMAIN pending[a.tab]

\* inbox.onmessage and response(): the page has its answer, in the order of the owner's.
Respond(a) ==
    LET t == a.tab
        kind == log[t][a.n].kind
    IN /\ tab[t].here
       /\ \A b \in replies : b.tab = t /\ b.epoch = a.epoch => a.n <= b.n
       /\ replies' = replies \ {a}
       /\ \/ /\ ~IsCurrent(a)
             /\ UNCHANGED <<tab, pending, group, waiters, told, log>>
          \/ /\ IsCurrent(a) /\ kind # "close"
             /\ pending' = [pending EXCEPT ![t] = Drop(@, {a.n})]
             /\ log' = [log EXCEPT ![t][a.n].outcome = a.outcome]
             /\ tab' = [tab EXCEPT ![t].initialized =
                          @ \/ (kind = "init" /\ a.outcome = "OK")]
             /\ told' = IF kind = "init" /\ told[t] < a.revision
                        THEN [told EXCEPT ![t] = a.revision] ELSE told
             /\ UNCHANGED <<group, waiters>>
          \/ /\ IsCurrent(a) /\ kind = "close"
             /\ pending' = [pending EXCEPT ![t] = Drop(@, {a.n})]
             /\ Shutdown(t)
             /\ UNCHANGED <<told, log>>
       /\ UNCHANGED <<leader, queries, routed, holder, owner, epochs, handle, revision,
                      unannounced, refreshes, workload>>

\* close(): the page is done.  The owner is told if there is one to tell.
CloseByOwner(t) ==
    /\ t \in MayClose /\ MayAsk(t)
    /\ ~tab[t].terminal /\ leader[t].ready
    /\ Enqueue(t, Request("close", NoEpoch))

CloseAlone(t) ==
    /\ t \in MayClose /\ MayAsk(t)
    /\ tab[t].terminal \/ ~leader[t].ready
    /\ log' = [log EXCEPT ![t] = Append(@, Request("close", NoEpoch))]
    /\ Shutdown(t)
    /\ UNCHANGED <<leader, pending, queries, routed, replies, holder, owner, epochs,
                   handle, revision, unannounced, told, refreshes, workload>>

\* Mutant of FileLeftBy: the lock is released before the file.
AlwaysLeft(t) == TRUE
\* An engine that is still being retired is not shutdown's to wait for.
FileLeftBy(t) == owner[t].phase = "retiring"

\* The engine has let go of the file, and then the locks are released; the page is
\* answered and the Worker ends.
ShutdownEnds(t) ==
    /\ tab[t].here /\ tab[t].closed
    /\ tab' = [tab EXCEPT ![t].here = FALSE]
    /\ handle' = IF handle = t /\ ~FileLeftBy(t) THEN NoTab ELSE handle
    /\ holder' = IF holder = t THEN NoTab ELSE holder
    /\ log' = [log EXCEPT ![t] =
                 Settled(@, {n \in DOMAIN @ : @[n].kind = "close"}, "OK")]
    /\ pending' = [pending EXCEPT ![t] = <<>>]
    /\ group' = Deafen(group, t)
    /\ queries' = [queries EXCEPT ![t] = <<>>]
    /\ UNCHANGED <<leader, routed, replies, waiters, owner, epochs, revision, unannounced,
                   told, refreshes, workload>>

\* The Worker is terminated, wherever it is.
Crash(t) ==
    /\ t \in MayCrash /\ tab[t].here
    /\ tab' = [tab EXCEPT ![t].here = FALSE]
    /\ holder' = IF holder = t THEN NoTab ELSE holder
    /\ waiters' = RemoveFirst(waiters, t)
    /\ pending' = [pending EXCEPT ![t] = <<>>]
    /\ group' = Deafen(group, t)
    /\ queries' = [queries EXCEPT ![t] = <<>>]
    /\ UNCHANGED <<leader, routed, replies, owner, epochs, handle, revision, unannounced,
                   told, log, refreshes, workload>>

\* The browser closes the file of a Worker that has ended.
FileReleased ==
    /\ handle # NoTab /\ ~tab[handle].here
    /\ handle' = NoTab
    /\ UNCHANGED <<tab, leader, pending, queries, group, routed, replies, holder, waiters,
                   owner, epochs, revision, unannounced, told, log,
                   refreshes, workload>>

-----------------------------------------------------------------------------

Hear(s, t) == HearDiscover(s, t) \/ HearLeader(s, t) \/ HearEvent(s, t) \/ HearFailure(s, t)

\* What a Worker and its browser do by themselves.
Works(t) ==
    \/ Join(t) \/ Elect(t) \/ Begin(t) \/ Opened(t) \/ OpenFails(t) \/ Retired(t)
    \/ Emit(t) \/ QueryAnswered(t) \/ ShutdownEnds(t)
    \/ \E s \in Tabs : Hear(s, t)
    \/ \E r \in routed : Serve(t, r) \/ Retire(t, r)
    \/ \E a \in replies : a.tab = t /\ Respond(a)

Next ==
    \/ \E t \in Tabs :
         \/ Start(t)
         \/ \E kind \in Kinds : Submit(t, kind) \/ SubmitRefused(t, kind)
         \/ Refresh(t) \/ CloseByOwner(t) \/ CloseAlone(t)
         \/ Crash(t)
         \/ Works(t)
    \/ FileReleased

Spec == Init /\ [][Next]_vars

\* The browser delivers what is sent, grants a lock that is free, answers queries and
\* takes back files; an engine opens, serves and closes.
Fairness ==
    /\ WF_vars(FileReleased)
    /\ \A t \in Tabs :
         /\ WF_vars(Join(t)) /\ WF_vars(Elect(t)) /\ WF_vars(Begin(t))
         /\ WF_vars(Opened(t) \/ OpenFails(t)) /\ WF_vars(Retired(t)) /\ WF_vars(Emit(t))
         /\ WF_vars(QueryAnswered(t)) /\ WF_vars(ShutdownEnds(t))
         /\ \A s \in Tabs : WF_vars(Hear(s, t))
         /\ WF_vars(\E r \in routed : Serve(t, r) \/ Retire(t, r))
         /\ WF_vars(\E a \in replies : a.tab = t /\ Respond(a))

FairSpec == Spec /\ Fairness

-----------------------------------------------------------------------------
(* Properties. *)

Asked == UNION {{<<t, n>> : n \in DOMAIN log[t]} : t \in Tabs}
At(w) == log[w[1]][w[2]]

\* A request runs at most once, under all the owners it may meet, and never after its
\* page has been told that it is lost; a page that is told it ran can rely on it.
RunsAtMostOnce ==
    \A w \in Asked :
        /\ Len(At(w).ran) <= 1
        /\ At(w).outcome = "OK" => Len(At(w).ran) = 1 \/ At(w).kind = "close"
        /\ At(w).outcome = "TRANSACTION_LOST" => At(w).ran = <<>>

\* A request runs only under an owner of its own release, whoever owned the database
\* when its tab joined; a statement of a transaction only under the owner that began it.
RunsUnderItsOwner ==
    \A w \in Asked : \A i \in DOMAIN At(w).ran :
        /\ \E s \in Tabs :
             owner[s].epoch = At(w).ran[i] /\ tab[s].release = tab[w[1]].release
        /\ At(w).tx # NoEpoch => At(w).ran[i] = At(w).tx

\* However announcements race, a tab never goes back to an earlier owner.
NeverGoesBack ==
    [][\A t \in Tabs : leader'[t].epoch >= leader[t].epoch]_vars

\* The engine's file is open only under the election lock, unless its Worker was
\* terminated or shut down while retiring a failed engine: a page whose close() has
\* been acknowledged has left the file to the next owner.
FileWithinLock ==
    handle \notin {NoTab, holder} =>
        /\ ~tab[handle].here
        /\ \/ owner[handle].phase = "retiring"
           \/ ~\E n \in DOMAIN log[handle] :
                 log[handle][n].kind = "close" /\ log[handle][n].outcome = "OK"

\* Nothing is under way that could still tell a page of a change.
Quiet ==
    /\ \A s, t \in Tabs : group[s][t] = <<>>
    /\ \A t \in Tabs : queries[t] = <<>>
    /\ ~unannounced

\* Once everything sent has arrived, every page has been told to read what the owner
\* has published, through changes of owner and lost events.
PagesAreCurrent ==
    (Quiet /\ \E s \in Tabs : Serving(s))
        => \A t \in Tabs : Listening(t) /\ tab[t].initialized /\ ~tab[t].terminal
                               => told[t] = revision

\* An owner that serves goes by its own announcement, and knows itself to be ready:
\* nobody else may say that it is not.
OwnerIsReady ==
    \A t \in Tabs : Serving(t) => leader[t] = Announcement(t, owner[t].epoch, TRUE)

\* The most requests that the page of `t` makes in any workload.
LongestLog(t) == Max({w.requests[t] : w \in Workloads})

\* Every request is answered as long as its tab is there, whatever becomes of owners.
EveryRequestIsAnswered ==
    \A t \in Tabs : \A n \in 1 .. LongestLog(t) :
        (n \in DOMAIN log[t] /\ log[t][n].outcome = "waiting")
            ~> (~tab[t].here \/ (n \in DOMAIN log[t] /\ log[t][n].outcome # "waiting"))

=============================================================================
