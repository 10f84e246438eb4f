--------------------------- MODULE CurrencyProofs ---------------------------
(***************************************************************************)
(* Once everything sent has arrived, every page has been told to read what *)
(* the owner has published: Coordinator's PagesAreCurrent, for every set   *)
(* of tabs and every workload, on top of the invariant of                  *)
(* CoordinatorProofs.                                                      *)
(***************************************************************************)
EXTENDS CoordinatorProofs

-----------------------------------------------------------------------------
(* The inductive invariant, part by part. *)

\* A tab that takes requests and is not beyond repair.
InUse(t) == Listening(t) /\ ~tab[t].terminal

\* The newest owner says that it is ready.
IsReady(m) == m.epoch = epochs /\ m.ready

\* That is under way to `t`: sent by the owner `s`, or heard and with the browser.
Coming(s, t) ==
    \/ \E i \in DOMAIN group[s][t] :
         group[s][t][i].kind = "leader" /\ IsReady(group[s][t][i].leader)
    \/ \E i \in DOMAIN queries[t] : IsReady(queries[t][i])

\* The owner `s` has an event to send, or `t` has yet to hear it.
Announced(s, t) ==
    \/ unannounced
    \/ \E i \in DOMAIN group[s][t] :
         /\ group[s][t][i].kind = "event"
         /\ group[s][t][i].epoch = epochs /\ group[s][t][i].revision = revision

\* The newest owner's answer to the init of the page of `t`.
IsInitAnswer(a, t) ==
    a.tab = t /\ a.epoch = epochs /\ log[t][a.n].kind = "init"

\* Nothing that is sent or told is ahead of the database, and nothing is asked of an
\* owner or answered by it that is newer than the one the tab goes by.
BoundInv ==
    /\ \A t \in Tabs : /\ told[t] <= revision
                       /\ tab[t].initialized => leader[t].epoch # NoEpoch
    /\ \A s, t \in Tabs : \A i \in DOMAIN group[s][t] :
         group[s][t][i].kind = "event" => group[s][t][i].revision <= revision
    /\ \A r \in routed : r.epoch <= leader[r.tab].epoch
    /\ \A a \in replies : /\ a.revision <= revision
                          /\ a.epoch # NoEpoch /\ a.epoch <= leader[a.tab].epoch

\* While an owner opens the database it has answered nothing, and a page that goes by
\* it is current or will be refreshed when the owner is ready.
OpeningInv ==
    \A s \in Tabs : tab[s].here /\ owner[s].phase = "opening" =>
        /\ \A a \in replies : a.epoch # epochs
        /\ \A t \in Tabs : InUse(t) /\ leader[t].epoch = epochs /\ tab[t].initialized =>
             tab[t].refreshRequested \/ told[t] = revision

\* What becomes of the page of `t` under the owner `s`.  A tab that goes by an earlier
\* owner, or may yet do so, will hear that this one is ready.  A page that goes by this
\* one is current, or is about to be told: by an event, or by the refresh that waits for
\* the owner to be ready.  A page that is about to be initialized will be current too.
Follows(s, t) ==
    /\ leader[t].epoch \notin {NoEpoch, epochs} => Coming(s, t)
    /\ \A i \in DOMAIN queries[t] : queries[t][i].epoch # epochs => Coming(s, t)
    /\ leader[t].epoch = epochs /\ tab[t].initialized =>
         \/ told[t] = revision \/ Announced(s, t)
         \/ tab[t].refreshRequested /\ Coming(s, t)
    /\ \A a \in replies : IsInitAnswer(a, t) =>
         told[t] = revision \/ a.revision = revision \/ Announced(s, t)

ServingInv ==
    \A s, t \in Tabs : Serving(s) /\ InUse(t) => Follows(s, t)

CInv == IInv /\ BoundInv /\ OpeningInv /\ ServingInv

-----------------------------------------------------------------------------
(* Owners. *)

\* An owner that serves holds the lock, and its epoch is the newest.
LEMMA ServingIsNewest ==
    ASSUME IInv, NEW s \in Tabs, tab[s].here, owner[s].phase \in {"opening", "serving"}
    PROVE  /\ holder = s /\ owner[s].epoch = epochs /\ leader[s].epoch = epochs
           /\ epochs # NoEpoch
           /\ \A u \in Tabs : owner[u].epoch = epochs => u = s
<1>1. holder = s /\ owner[s].epoch = epochs /\ leader[s].epoch = epochs
  BY HolderIsNewest
<1>2. epochs # NoEpoch
  BY <1>1 DEF IInv, EpochInv
<1> QED
  BY <1>1, <1>2 DEF IInv, EpochInv

\* An owner comes to serve by opening the database, and to open it by being elected;
\* meanwhile there is no other.
LEMMA PhaseStep ==
    ASSUME IInv, Next, NEW s \in Tabs, tab'[s].here
    PROVE  /\ owner'[s].phase = "serving" =>
                Opened(s) \/ (tab[s].here /\ owner[s].phase = "serving" /\ epochs' = epochs)
           /\ owner'[s].phase = "opening" =>
                Begin(s) \/ (tab[s].here /\ owner[s].phase = "opening" /\ epochs' = epochs)
<1>1. owner \in [Tabs -> [phase : Phases, epoch : Nat]]
  BY DEF IInv, TypeOK
<1>2. ASSUME owner'[s].phase \in {"opening", "serving"}, ~Opened(s), ~Begin(s)
      PROVE  owner[s] = owner'[s]
  BY <1>2, OwnerEffect
<1>3. ASSUME owner'[s] = owner[s], owner[s].phase \in {"opening", "serving"}
      PROVE  tab[s].here /\ epochs' = epochs
  <2>1. tab[s].here
    <3>1. SUFFICES ASSUME ~tab[s].here PROVE FALSE
      OBVIOUS
    <3>2. Start(s)
      BY <3>1, GoneStep
    <3>3. log[s] = <<>>
      BY <3>2 DEF Start
    <3> QED
      BY <1>3, <3>3 DEF IInv, UnstartedInv
  <2>2. holder = s
    BY <1>3, <2>1, ServingIsNewest
  <2>3. ASSUME NEW u \in Tabs, Begin(u)
        PROVE  FALSE
    <3>1. holder = u /\ owner[u].phase = "elected"
      BY <2>3, BeginEffect
    <3> QED
      BY <1>3, <2>2, <3>1
  <2> QED
    BY <2>1, <2>3, EpochFrame
<1>4. Opened(s) => owner'[s].phase = "serving"
  BY <1>1 DEF Opened
<1>5. Begin(s) => owner'[s].phase = "opening"
  BY BeginEffect
<1> QED
  BY <1>2, <1>3, <1>4, <1>5

-----------------------------------------------------------------------------
(* Channels. *)

\* The announcements and events under way from `s` to `t` are still under way.
Stays(s, t) ==
    \A i \in DOMAIN group[s][t] : group[s][t][i].kind \in {"leader", "event"} =>
        \E j \in DOMAIN group'[s][t] : group'[s][t][j] = group[s][t][i]

\* A channel that is left alone, or gets one message more.
LEMMA AppendStays ==
    ASSUME TypeOK, NEW s \in Tabs, NEW t \in Tabs, NEW m \in Messages,
           group'[s][t] = group[s][t] \/ group'[s][t] = Append(group[s][t], m)
    PROVE  Stays(s, t)
<1>1. group[s][t] \in Seq(Messages)
  BY DEF TypeOK
<1>2. \A i \in DOMAIN group[s][t] :
        i \in DOMAIN group'[s][t] /\ group'[s][t][i] = group[s][t][i]
  BY <1>1
<1> QED
  BY <1>2 DEF Stays

\* A broadcast takes nothing away.
LEMMA PostStays ==
    ASSUME TypeOK, NEW u \in Tabs, NEW m \in Messages, group' = Broadcast(group, u, m),
           NEW s \in Tabs, NEW t \in Tabs
    PROVE  Stays(s, t)
<1>1. group \in [Tabs -> [Tabs -> Seq(Messages)]]
  BY DEF TypeOK
<1>2. group'[s][t] = IF s = u /\ t # u /\ tab[t].here THEN Append(group[s][t], m)
                     ELSE group[s][t]
  BY <1>1, BroadcastEffect
<1> QED
  BY <1>2, AppendStays

\* What is heard leaves its channel, and no other message does.
LEMMA HeardStays ==
    ASSUME IInv, NEW u \in Tabs, NEW v \in Tabs, group[u][v] # <<>>,
           NEW w \in Tabs, NEW m \in Messages,
           group' = Heard(u, v) \/ group' = Broadcast(Heard(u, v), w, m),
           NEW s \in Tabs, NEW t \in Tabs,
           <<s, t>> # <<u, v>> \/ Head(group[u][v]).kind \notin {"leader", "event"}
    PROVE  Stays(s, t)
<1>0. TypeOK
  BY DEF IInv
<1>1. group[s][t] \in Seq(Messages)
  BY DEF IInv, TypeOK
<1> DEFINE c == Heard(u, v)[s][t]
<1>2. /\ Heard(u, v) \in [Tabs -> [Tabs -> Seq(Messages)]]
      /\ c = IF s = u /\ t = v THEN Tail(group[s][t]) ELSE group[s][t]
  BY <1>0, HeardEffect
<1>3. c \in Seq(Messages)
  BY <1>2
<1>4. \A i \in DOMAIN group[s][t] : group[s][t][i].kind \in {"leader", "event"} =>
        \E j \in DOMAIN c : c[j] = group[s][t][i]
  <2>1. CASE s = u /\ t = v
    <3>1. c = Tail(group[s][t]) /\ group[s][t] # <<>>
      BY <1>2, <2>1
    <3>2. Head(group[s][t]) = group[s][t][1]
      BY <1>1, <3>1
    <3> SUFFICES ASSUME NEW i \in DOMAIN group[s][t], group[s][t][i].kind \in {"leader", "event"}
                 PROVE  \E j \in DOMAIN c : c[j] = group[s][t][i]
      OBVIOUS
    <3>3. i # 1
      BY <2>1, <3>2
    <3>4. i - 1 \in DOMAIN c /\ c[i - 1] = group[s][t][i]
      BY <1>1, <3>1, <3>3
    <3> QED
      BY <3>4
  <2>2. CASE ~(s = u /\ t = v)
    BY <1>2, <2>2
  <2> QED
    BY <2>1, <2>2
<1>5. group'[s][t] = c \/ group'[s][t] = Append(c, m)
  <2>1. CASE group' = Heard(u, v)
    BY <2>1
  <2>2. CASE group' = Broadcast(Heard(u, v), w, m)
    <3> DEFINE h == Heard(u, v)
    <3>1. h \in [Tabs -> [Tabs -> Seq(Messages)]] /\ h[s][t] = c
      BY <1>2
    <3>2. group' = Broadcast(h, w, m)
      BY <2>2
    <3> HIDE DEF h, c
    <3>3. \A a, b \in Tabs :
            Broadcast(h, w, m)[a][b] = IF a = w /\ b # w /\ tab[b].here THEN Append(h[a][b], m)
                                       ELSE h[a][b]
      BY <3>1, BroadcastEffect
    <3> QED
      BY <3>1, <3>2, <3>3
  <2> QED
    BY <2>1, <2>2
<1> HIDE DEF c
<1>6. \A j \in DOMAIN c : j \in DOMAIN group'[s][t] /\ group'[s][t][j] = c[j]
  BY <1>3, <1>5
<1> QED
  BY <1>4, <1>6 DEF Stays

\* What is under way to the others stays when a tab ends.
LEMMA DeafenStays ==
    ASSUME TypeOK, NEW u \in Tabs, group' = Deafen(group, u),
           NEW s \in Tabs, NEW t \in Tabs, t # u
    PROVE  Stays(s, t)
<1>1. group'[s][t] = group[s][t]
  BY DeafenEffect
<1> QED
  BY <1>1 DEF Stays

\* What is under way stays when a tab shuts down.
LEMMA ShutdownStays ==
    ASSUME IInv, NEW u \in Tabs, Shutdown(u), NEW s \in Tabs, NEW t \in Tabs
    PROVE  Stays(s, t)
<1> DEFINE x == [leader[u] EXCEPT !.ready = FALSE]
           m == [kind |-> "leader", leader |-> x]
<1>1. CASE group' = group
  BY <1>1 DEF Stays
<1>2. CASE leader[u] # NoLeader /\ group' = Broadcast(group, u, m)
  <2>1. x \in Announcements
    BY <1>2, LeaderIsTrue
  <2> HIDE DEF x
  <2>2. m \in Messages /\ TypeOK
    BY <2>1, MessageTypes DEF IInv
  <2> HIDE DEF m
  <2> QED
    BY <1>2, <2>2, PostStays
<1>3. group' = group \/ (leader[u] # NoLeader /\ group' = Broadcast(group, u, m))
  BY DEF Shutdown, SpeaksForOwner
<1> QED
  BY <1>1, <1>2, <1>3

-----------------------------------------------------------------------------
(* What disturbs a page. *)

\* announce() changes nothing of another tab; a tab that stays in use goes by what it
\* was told, and its page is refreshed as soon as the new owner is ready.
LEMMA AnnounceDetail ==
    ASSUME TypeOK, NEW t \in Tabs, NEW m \in Announcements, Announce(t, m)
    PROVE  /\ \A u \in Tabs : u # t =>
                tab'[u] = tab[u] /\ leader'[u] = leader[u] /\ told'[u] = told[u]
           /\ tab'[t].initialized = tab[t].initialized
           /\ tab'[t].here = tab[t].here /\ tab'[t].closed = tab[t].closed
           /\ ~tab'[t].terminal => ~tab[t].terminal
           /\ ~tab[t].closed /\ ~tab'[t].terminal =>
                /\ leader'[t] = m
                /\ tab'[t].refreshRequested =
                     (MustRefresh(t, leader[t].epoch # m.epoch) /\ ~m.ready)
                /\ told'[t] = IF /\ m.ready /\ MustRefresh(t, leader[t].epoch # m.epoch)
                                 /\ tab[t].initialized
                              THEN revision ELSE told[t]
           /\ told'[t] \in {told[t], revision}
<1>1. /\ tab \in [Tabs -> TabStates] /\ leader \in [Tabs -> Announcements]
      /\ told \in [Tabs -> Nat] /\ revision \in Nat
  BY DEF TypeOK
<1>2. CASE tab[t].closed
  BY <1>1, <1>2 DEF Announce
<1>3. CASE ~tab[t].closed /\ Mismatched(t, m)
  <2>1. tab' = [tab EXCEPT ![t].terminal = TRUE] /\ UNCHANGED <<leader, told>>
    BY <1>3 DEF Announce, AnnounceMismatch
  <2>2. /\ tab'[t].terminal /\ tab'[t].initialized = tab[t].initialized
        /\ tab'[t].here = tab[t].here /\ tab'[t].closed = tab[t].closed
        /\ \A u \in Tabs : u # t => tab'[u] = tab[u]
    BY <1>1, <2>1 DEF TabStates
  <2> QED
    BY <2>1, <2>2
<1>4. CASE ~tab[t].closed /\ ~Mismatched(t, m)
  <2> DEFINE must == MustRefresh(t, leader[t].epoch # m.epoch)
             flag == must /\ ~m.ready
  <2>1. /\ leader' = [leader EXCEPT ![t] = m]
        /\ tab' = [tab EXCEPT ![t].refreshRequested = flag]
        /\ told' = IF m.ready /\ must /\ tab[t].initialized
                   THEN [told EXCEPT ![t] = revision] ELSE told
    BY <1>4 DEF Announce, AnnounceLeader
  <2> HIDE DEF must, flag
  <2>2. /\ tab'[t].refreshRequested = flag /\ tab'[t].initialized = tab[t].initialized
        /\ tab'[t].terminal = tab[t].terminal
        /\ tab'[t].here = tab[t].here /\ tab'[t].closed = tab[t].closed
        /\ \A u \in Tabs : u # t => tab'[u] = tab[u]
    BY <1>1, <2>1 DEF TabStates
  <2>3. /\ leader'[t] = m /\ \A u \in Tabs : u # t => leader'[u] = leader[u]
        /\ told'[t] = IF m.ready /\ must /\ tab[t].initialized THEN revision ELSE told[t]
        /\ \A u \in Tabs : u # t => told'[u] = told[u]
    BY <1>1, <2>1
  <2> QED
    BY <2>2, <2>3 DEF must, flag
<1> QED
  BY <1>2, <1>3, <1>4

\* Nothing happens that the page of `t` has to do with.
Untouched(t) ==
    /\ tab'[t].initialized = tab[t].initialized
    /\ tab'[t].refreshRequested = tab[t].refreshRequested
    /\ (Listening(t)' => Listening(t)) /\ (InUse(t)' => InUse(t))
    /\ leader'[t] = leader[t] /\ told'[t] = told[t]
    /\ UNCHANGED <<revision, unannounced>> /\ replies' \subseteq replies
    /\ tab'[t].here => queries'[t] = queries[t] /\ \A s \in Tabs : Stays(s, t)

\* The steps of the newest owner.
OwnerActs ==
    \E u \in Tabs : \/ Begin(u) \/ Opened(u) \/ Emit(u)
                    \/ \E r \in routed : Serve(u, r) \/ Retire(u, r)

\* What its page asks, and what it hears.
Disturbed(t) ==
    \/ Start(t) \/ Refresh(t) \/ QueryAnswered(t)
    \/ \E s \in Tabs : HearLeader(s, t) \/ HearEvent(s, t)
    \/ \E a \in replies : a.tab = t /\ Respond(a)

\* A tab whose flags are as they were, or that goes or is beyond repair, while nothing
\* else of it changes.
LEMMA TabUntouched ==
    ASSUME NEW t \in Tabs,
           \/ tab'[t] = tab[t]
           \/ /\ tab'[t].initialized = tab[t].initialized
              /\ tab'[t].refreshRequested = tab[t].refreshRequested
              /\ tab'[t].here => tab[t].here
              /\ tab[t].closed => tab'[t].closed
              /\ tab[t].terminal => tab'[t].terminal,
           leader'[t] = leader[t], told'[t] = told[t],
           UNCHANGED <<revision, unannounced>>, replies' \subseteq replies,
           tab'[t].here => queries'[t] = queries[t] /\ \A s \in Tabs : Stays(s, t)
    PROVE  Untouched(t)
<1>1. (Listening(t)' => Listening(t)) /\ (InUse(t)' => InUse(t))
  BY DEF InUse, Listening
<1> QED
  BY <1>1 DEF Untouched

\* Every other step leaves a page alone.
LEMMA TouchStep ==
    ASSUME IInv, Next, NEW t \in Tabs
    PROVE  Untouched(t) \/ Disturbed(t) \/ OwnerActs
<1>1. TypeOK
  BY DEF IInv
<1>2. /\ tab \in [Tabs -> TabStates] /\ told \in [Tabs -> Nat]
      /\ queries \in [Tabs -> Seq(Announcements)]
  BY DEF IInv, TypeOK
<1>3. [kind |-> "discover"] \in Messages
  BY MessageTypes
<1>4. UNCHANGED group => \A s \in Tabs : Stays(s, t)
  BY DEF Stays
<1>5. ASSUME NEW u \in Tabs,
             \/ \E kind \in Kinds : Submit(u, kind) \/ SubmitRefused(u, kind)
             \/ CloseByOwner(u) \/ Elect(u) \/ Retired(u)
      PROVE  Untouched(t)
  <2>1. UNCHANGED <<tab, leader, told, revision, unannounced, replies, queries, group>>
    BY <1>5 DEF Submit, SubmitRefused, CloseByOwner, Enqueue, Elect, Retired
  <2> QED
    BY <1>4, <2>1, TabUntouched
<1>6. ASSUME NEW s \in Tabs, NEW u \in Tabs, HearDiscover(s, u)
      PROVE  Untouched(t)
  <2> DEFINE m == [kind |-> "leader", leader |-> leader[u]]
  <2>1. /\ UNCHANGED <<tab, leader, told, revision, unannounced, replies, queries>>
        /\ group[s][u] # <<>> /\ Head(group[s][u]).kind = "discover"
        /\ group' = Heard(s, u) \/ group' = Broadcast(Heard(s, u), u, m)
    BY <1>6 DEF HearDiscover
  <2>2. m \in Messages
    BY MessageTypes DEF IInv, TypeOK
  <2> HIDE DEF m
  <2>3. \A v \in Tabs : Stays(v, t)
    BY <2>1, <2>2, HeardStays
  <2> QED
    BY <2>1, <2>3, TabUntouched
<1>7. ASSUME NEW u \in Tabs, Join(u)
      PROVE  Untouched(t)
  <2>1. /\ UNCHANGED <<leader, told, revision, unannounced, replies, queries>>
        /\ tab' = [tab EXCEPT ![u].joined = TRUE]
        /\ group' = Broadcast(group, u, [kind |-> "discover"])
    BY <1>7 DEF Join
  <2>2. /\ tab'[t].initialized = tab[t].initialized
        /\ tab'[t].refreshRequested = tab[t].refreshRequested
        /\ tab'[t].here = tab[t].here /\ tab'[t].closed = tab[t].closed
        /\ tab'[t].terminal = tab[t].terminal
    BY <1>2, <2>1 DEF TabStates
  <2>3. \A v \in Tabs : Stays(v, t)
    BY <1>1, <1>3, <2>1, PostStays
  <2> QED
    BY <2>1, <2>2, <2>3, TabUntouched
<1>8. ASSUME NEW u \in Tabs, u # t, Start(u)
      PROVE  Untouched(t)
  <2>1. /\ UNCHANGED <<leader, told, revision, unannounced, replies, queries, group>>
        /\ \E x : tab' = [tab EXCEPT ![u].here = TRUE, ![u].release = x]
    BY <1>8 DEF Start
  <2>2. tab'[t] = tab[t]
    BY <1>2, <1>8, <2>1
  <2> QED
    BY <1>4, <2>1, <2>2, TabUntouched
<1>9. ASSUME NEW u \in Tabs, u # t, Refresh(u)
      PROVE  Untouched(t)
  <2>1. /\ UNCHANGED <<leader, revision, unannounced, replies, queries>>
        /\ told' = told \/ told' = [told EXCEPT ![u] = revision]
        /\ \E x : tab' = [tab EXCEPT ![u].refreshRequested = x]
        /\ group' = group \/ group' = Broadcast(group, u, [kind |-> "discover"])
    BY <1>9 DEF Refresh
  <2>2. tab'[t] = tab[t] /\ told'[t] = told[t]
    BY <1>2, <1>9, <2>1
  <2>3. \A v \in Tabs : Stays(v, t)
    BY <1>1, <1>3, <1>4, <2>1, PostStays
  <2> QED
    BY <2>1, <2>2, <2>3, TabUntouched
<1>10. ASSUME NEW u \in Tabs, Shutdown(u), UNCHANGED <<leader, told, revision, unannounced, queries>>,
              replies' \subseteq replies
       PROVE  Untouched(t)
  <2>1. tab' = [tab EXCEPT ![u].closed = TRUE]
    BY <1>10 DEF Shutdown
  <2>2. /\ tab'[t].initialized = tab[t].initialized
        /\ tab'[t].refreshRequested = tab[t].refreshRequested
        /\ tab'[t].here = tab[t].here /\ (tab[t].closed => tab'[t].closed)
        /\ tab'[t].terminal = tab[t].terminal
    BY <1>2, <2>1 DEF TabStates
  <2>3. \A v \in Tabs : Stays(v, t)
    BY <1>10, ShutdownStays
  <2> QED
    BY <1>10, <2>2, <2>3, TabUntouched
<1>11. ASSUME NEW u \in Tabs, CloseAlone(u)
       PROVE  Untouched(t)
  BY <1>10, <1>11 DEF CloseAlone
<1>12. ASSUME NEW u \in Tabs, Crash(u) \/ ShutdownEnds(u)
       PROVE  Untouched(t)
  <2>1. /\ UNCHANGED <<leader, told, revision, unannounced, replies>>
        /\ tab' = [tab EXCEPT ![u].here = FALSE]
        /\ queries' = [queries EXCEPT ![u] = <<>>] /\ group' = Deafen(group, u)
    BY <1>12 DEF Crash, ShutdownEnds
  <2>2. CASE t = u
    <3>1. /\ tab'[t].initialized = tab[t].initialized
          /\ tab'[t].refreshRequested = tab[t].refreshRequested
          /\ ~tab'[t].here /\ tab'[t].closed = tab[t].closed
          /\ tab'[t].terminal = tab[t].terminal
      BY <1>2, <2>1, <2>2 DEF TabStates
    <3> QED
      BY <2>1, <3>1, TabUntouched
  <2>3. CASE t # u
    <3>1. tab'[t] = tab[t] /\ queries'[t] = queries[t]
      BY <1>2, <2>1, <2>3
    <3>2. \A v \in Tabs : Stays(v, t)
      BY <1>1, <2>1, <2>3, DeafenStays
    <3> QED
      BY <2>1, <3>1, <3>2, TabUntouched
  <2> QED
    BY <2>2, <2>3
<1>13. ASSUME NEW u \in Tabs, tab' = tab \/ tab' = [tab EXCEPT ![u].terminal = TRUE],
              UNCHANGED <<leader, told, revision, unannounced, queries, replies>>,
              \A v \in Tabs : Stays(v, t)
       PROVE  Untouched(t)
  <2>1. /\ tab'[t].initialized = tab[t].initialized
        /\ tab'[t].refreshRequested = tab[t].refreshRequested
        /\ tab'[t].here = tab[t].here /\ tab'[t].closed = tab[t].closed
        /\ tab[t].terminal => tab'[t].terminal
    <3>1. CASE tab' = tab
      BY <3>1
    <3>2. CASE tab' = [tab EXCEPT ![u].terminal = TRUE]
      BY <1>2, <3>2 DEF TabStates
    <3> QED
      BY <1>13, <3>1, <3>2
  <2> QED
    BY <1>13, <2>1, TabUntouched
<1>14. ASSUME NEW u \in Tabs, OpenFails(u)
       PROVE  Untouched(t)
  <2> DEFINE m == [kind |-> "failed", epoch |-> owner[u].epoch]
  <2>1. /\ UNCHANGED <<leader, told, revision, unannounced, queries, replies>>
        /\ tab' = [tab EXCEPT ![u].terminal = TRUE] /\ group' = Broadcast(group, u, m)
    BY <1>14 DEF OpenFails, Terminate
  <2>2. m \in Messages
    BY MessageTypes DEF IInv, TypeOK
  <2> HIDE DEF m
  <2>3. \A v \in Tabs : Stays(v, t)
    BY <1>1, <2>1, <2>2, PostStays
  <2> QED
    BY <1>13, <2>1, <2>3
<1>15. ASSUME NEW s \in Tabs, NEW u \in Tabs, HearFailure(s, u)
       PROVE  Untouched(t)
  <2>1. /\ UNCHANGED <<leader, told, revision, unannounced, queries, replies>>
        /\ tab' = tab \/ tab' = [tab EXCEPT ![u].terminal = TRUE]
        /\ group[s][u] # <<>> /\ Head(group[s][u]).kind = "failed" /\ group' = Heard(s, u)
    BY <1>15 DEF HearFailure, Terminate
  <2>2. \A v \in Tabs : Stays(v, t)
    BY <1>3, <2>1, HeardStays
  <2> QED
    BY <1>13, <2>1, <2>2
<1>16. ASSUME NEW s \in Tabs, NEW u \in Tabs, u # t, HearLeader(s, u) \/ HearEvent(s, u)
       PROVE  Untouched(t)
  <2>1. /\ UNCHANGED <<tab, leader, revision, unannounced, replies>>
        /\ queries' = queries \/ \E q : queries' = [queries EXCEPT ![u] = q]
        /\ told' = told \/ \E x : told' = [told EXCEPT ![u] = x]
        /\ group[s][u] # <<>> /\ group' = Heard(s, u)
    BY <1>16 DEF HearLeader, HearEvent
  <2>2. queries'[t] = queries[t] /\ told'[t] = told[t]
    BY <1>2, <1>16, <2>1
  <2>3. \A v \in Tabs : Stays(v, t)
    BY <1>3, <1>16, <2>1, HeardStays
  <2> QED
    BY <2>1, <2>2, <2>3, TabUntouched
<1>17. ASSUME NEW u \in Tabs, u # t, QueryAnswered(u)
       PROVE  Untouched(t)
  <2>1. /\ UNCHANGED <<revision, unannounced, replies, group>>
        /\ queries' = [queries EXCEPT ![u] = Tail(queries[u])]
        /\ Announce(u, Head(queries[u])) /\ queries[u] # <<>>
    BY <1>17 DEF QueryAnswered
  <2>2. Head(queries[u]) \in Announcements
    BY <2>1, PictureIsTrue
  <2>3. tab'[t] = tab[t] /\ leader'[t] = leader[t] /\ told'[t] = told[t]
    BY <1>1, <1>17, <2>1, <2>2, AnnounceDetail
  <2>4. queries'[t] = queries[t]
    BY <1>2, <1>17, <2>1
  <2> QED
    BY <1>4, <2>1, <2>3, <2>4, TabUntouched
<1>18. ASSUME NEW a \in replies, a.tab # t, Respond(a)
       PROVE  Untouched(t)
  <2>1. a.tab \in Tabs
    BY <1>1 DEF TypeOK, Answers
  <2>2. UNCHANGED <<leader, revision, unannounced, queries>> /\ replies' \subseteq replies
    BY <1>18 DEF Respond
  <2>3. CASE Shutdown(a.tab) /\ UNCHANGED told
    BY <1>10, <2>1, <2>2, <2>3
  <2>4. CASE /\ UNCHANGED group /\ \E x : tab' = tab \/ tab' = [tab EXCEPT ![a.tab].initialized = x]
             /\ \E x : told' = told \/ told' = [told EXCEPT ![a.tab] = x]
    <3>1. tab'[t] = tab[t] /\ told'[t] = told[t]
      BY <1>2, <1>18, <2>1, <2>4
    <3> QED
      BY <1>4, <2>2, <2>4, <3>1, TabUntouched
  <2> QED
    BY <1>18, <2>3, <2>4 DEF Respond
<1>19. ASSUME FileReleased
       PROVE  Untouched(t)
  <2>1. UNCHANGED <<tab, leader, told, revision, unannounced, replies, queries, group>>
    BY <1>19 DEF FileReleased
  <2> QED
    BY <1>4, <2>1, TabUntouched
<1>20. ASSUME NEW u \in Tabs, \E s \in Tabs : Hear(s, u)
       PROVE  Untouched(t) \/ Disturbed(t)
  BY <1>6, <1>15, <1>16, <1>20 DEF Hear, Disturbed
<1>21. ASSUME NEW u \in Tabs, \/ Start(u) \/ Refresh(u) \/ QueryAnswered(u)
                              \/ \E a \in replies : a.tab = u /\ Respond(a)
       PROVE  Untouched(t) \/ Disturbed(t)
  BY <1>8, <1>9, <1>17, <1>18, <1>21 DEF Disturbed
<1>22. ASSUME NEW u \in Tabs, Works(u)
       PROVE  Untouched(t) \/ Disturbed(t) \/ OwnerActs
  BY <1>5, <1>7, <1>12, <1>14, <1>20, <1>21, <1>22 DEF Works, OwnerActs
<1> QED
  BY <1>5, <1>11, <1>12, <1>19, <1>21, <1>22 DEF Next

-----------------------------------------------------------------------------
(* Nothing is ahead of the database, or of the owner that a tab goes by. *)

\* Only a request that runs changes the database, and only one that is served, or
\* fails with its engine, is answered.
LEMMA DatabaseFrame ==
    ASSUME Next
    PROVE  \/ UNCHANGED revision /\ replies' \subseteq replies
           \/ \E t \in Tabs : \E r \in routed : Serve(t, r) \/ Retire(t, r)
<1>1. ASSUME NEW t \in Tabs,
             \/ \E kind \in Kinds : Submit(t, kind) \/ SubmitRefused(t, kind)
             \/ Start(t) \/ Refresh(t) \/ CloseByOwner(t) \/ CloseAlone(t) \/ Crash(t)
      PROVE  UNCHANGED <<revision, replies>>
  BY <1>1 DEF Start, Submit, SubmitRefused, Refresh, CloseByOwner, CloseAlone, Crash, Enqueue
<1>2. ASSUME NEW t \in Tabs,
             \/ Join(t) \/ Elect(t) \/ Begin(t) \/ Opened(t) \/ OpenFails(t) \/ Retired(t)
             \/ Emit(t) \/ QueryAnswered(t) \/ ShutdownEnds(t)
             \/ \E s \in Tabs : Hear(s, t)
      PROVE  UNCHANGED <<revision, replies>>
  BY <1>2 DEF Join, Elect, Begin, Opened, OpenFails, Retired, Emit, QueryAnswered,
              ShutdownEnds, Hear, HearDiscover, HearLeader, HearEvent, HearFailure
<1>3. ASSUME NEW q \in replies, Respond(q)
      PROVE  UNCHANGED revision /\ replies' \subseteq replies
  BY <1>3 DEF Respond
<1>4. ASSUME FileReleased
      PROVE  UNCHANGED <<revision, replies>>
  BY <1>4 DEF FileReleased
<1> QED
  BY <1>1, <1>2, <1>3, <1>4 DEF Next, Works

\* What an owner answers, and the revision that leaves.
LEMMA RunsFrame ==
    ASSUME IInv, NEW t \in Tabs, NEW r \in routed, Serve(t, r) \/ Retire(t, r)
    PROVE  /\ Serving(t) /\ r.epoch = owner[t].epoch
           /\ revision' \in Nat /\ revision <= revision'
           /\ \A a \in replies' \ replies :
                a.tab = r.tab /\ a.epoch = r.epoch /\ a.revision = revision'
           /\ UNCHANGED <<leader, told, queries, epochs>>
<1>1. revision \in Nat
  BY DEF IInv, TypeOK
<1>2. RevisionAfter(r) \in {revision, revision + 1}
  BY DEF RevisionAfter
<1>3. r \in Inbox(t) /\ revision' \in {revision, RevisionAfter(r)}
  BY DEF Serve, Retire
<1>4. \A o \in {"OK", "UNKNOWN"} :
        /\ Answer(r, o).tab = r.tab /\ Answer(r, o).epoch = r.epoch
        /\ Answer(r, o).revision = revision'
  BY DEF Answer
<1>5. \E o \in {"OK", "UNKNOWN"} : replies' = replies \cup {Answer(r, o)}
  BY DEF Serve, Retire
<1>6. UNCHANGED <<leader, told, queries, epochs>>
  BY DEF Serve, Retire
<1> QED
  BY <1>1, <1>2, <1>3, <1>4, <1>5, <1>6 DEF Inbox

\* Revisions only grow.
LEMMA RevisionGrows ==
    ASSUME IInv, Next
    PROVE  revision \in Nat /\ revision' \in Nat /\ revision <= revision'
<1>1. revision \in Nat
  BY DEF IInv, TypeOK
<1> QED
  BY <1>1, DatabaseFrame, RunsFrame

\* A channel after messages were heard and one was sent.
LEMMA PostNew ==
    ASSUME NEW t \in Tabs, NEW channels, Derived(channels), NEW m \in Messages,
           group' = channels \/ group' = Broadcast(channels, t, m),
           NEW u \in Tabs, NEW v \in Tabs, NEW i \in DOMAIN group'[u][v]
    PROVE  (\E j \in DOMAIN group[u][v] : group'[u][v][i] = group[u][v][j]) \/ group'[u][v][i] = m
<1>1. channels \in [Tabs -> [Tabs -> Seq(Messages)]]
  BY DEF Derived
<1>2. \A j \in DOMAIN channels[u][v] :
        \E k \in DOMAIN group[u][v] : channels[u][v][j] = group[u][v][k]
  BY DEF Derived
<1>3. CASE group' = channels
  BY <1>2, <1>3
<1>4. CASE group' = Broadcast(channels, t, m)
  <2>1. \A a, b \in Tabs :
          Broadcast(channels, t, m)[a][b] =
              IF a = t /\ b # t /\ tab[b].here THEN Append(channels[a][b], m)
              ELSE channels[a][b]
    BY <1>1, BroadcastEffect
  <2>2. group'[u][v] = channels[u][v] \/ group'[u][v] = Append(channels[u][v], m)
    BY <1>4, <2>1
  <2>3. channels[u][v] \in Seq(Messages)
    BY <1>1
  <2>4. (i \in DOMAIN channels[u][v] /\ group'[u][v][i] = channels[u][v][i]) \/ group'[u][v][i] = m
    BY <2>2, <2>3
  <2> QED
    BY <1>2, <2>4
<1> QED
  BY <1>3, <1>4

\* Events come from the owner that publishes a revision.
EventsMove ==
    \A u, v \in Tabs : \A i \in DOMAIN group'[u][v] : group'[u][v][i].kind = "event" =>
        \/ \E j \in DOMAIN group[u][v] : group'[u][v][i] = group[u][v][j]
        \/ group'[u][v][i].revision = revision

\* A step that sends one message, which is an event only if it is of this revision.
LEMMA PostEvents ==
    ASSUME NEW t \in Tabs, NEW channels, Derived(channels), NEW m \in Messages,
           group' = channels \/ group' = Broadcast(channels, t, m),
           m.kind = "event" => m.revision = revision
    PROVE  EventsMove
  BY PostNew DEF EventsMove

\* Every step moves events as EventsMove says.
LEMMA EventStep ==
    ASSUME IInv, Next
    PROVE  EventsMove
<1>1. TypeOK /\ Derived(group)
  BY GroupDerived DEF IInv
<1>2. /\ [kind |-> "discover"] \in Messages /\ [kind |-> "discover"].kind # "event"
      /\ epochs \in Nat /\ revision \in Nat
      /\ \A t \in Tabs : leader[t] \in Announcements /\ owner[t].epoch \in Nat
  BY MessageTypes DEF IInv, TypeOK
<1>3. UNCHANGED group => EventsMove
  BY DEF EventsMove
<1>4. ASSUME NEW t \in Tabs,
             \/ \E kind \in Kinds : Submit(t, kind) \/ SubmitRefused(t, kind)
             \/ CloseByOwner(t) \/ Elect(t) \/ Retired(t) \/ Start(t) \/ QueryAnswered(t)
             \/ \E r \in routed : Serve(t, r)
      PROVE  EventsMove
  <2>1. UNCHANGED group
    BY <1>4 DEF Submit, SubmitRefused, CloseByOwner, Enqueue, Elect, Retired, Start,
                QueryAnswered, Serve
  <2> QED
    BY <1>3, <2>1
<1>5. ASSUME NEW t \in Tabs, Refresh(t) \/ Join(t)
      PROVE  EventsMove
  <2>1. group' = group \/ group' = Broadcast(group, t, [kind |-> "discover"])
    BY <1>5 DEF Refresh, Join
  <2> QED
    BY <1>1, <1>2, <2>1, PostEvents
<1>6. ASSUME NEW s \in Tabs, NEW t \in Tabs, Hear(s, t)
      PROVE  EventsMove
  <2> DEFINE m == [kind |-> "leader", leader |-> leader[t]]
  <2>1. /\ group[s][t] # <<>>
        /\ group' = Heard(s, t) \/ group' = Broadcast(Heard(s, t), t, m)
    BY <1>6 DEF Hear, HearDiscover, HearLeader, HearEvent, HearFailure
  <2>2. m \in Messages /\ m.kind # "event"
    BY <1>2, MessageTypes
  <2> HIDE DEF m
  <2>3. Derived(Heard(s, t))
    BY <2>1, HeardDerived
  <2> QED
    BY <2>1, <2>2, <2>3, PostEvents
<1>7. ASSUME NEW t \in Tabs, NEW m \in Announcements,
             group' = Broadcast(group, t, [kind |-> "leader", leader |-> m])
      PROVE  EventsMove
  <2> DEFINE x == [kind |-> "leader", leader |-> m]
  <2>1. x \in Messages /\ x.kind # "event" /\ group' = Broadcast(group, t, x)
    BY <1>7, MessageTypes
  <2> HIDE DEF x
  <2> QED
    BY <1>1, <2>1, PostEvents
<1>8. ASSUME NEW t \in Tabs, Begin(t)
      PROVE  EventsMove
  <2>1. epochs' \in Nat
    BY <1>2, <1>8 DEF Begin
  <2>2. Announcement(t, epochs', FALSE) \in Announcements
    BY <1>1, <2>1, AnnouncementType
  <2> QED
    BY <1>7, <1>8, <2>2 DEF Begin
<1>9. ASSUME NEW t \in Tabs, Opened(t)
      PROVE  EventsMove
  <2>1. Announcement(t, owner[t].epoch, TRUE) \in Announcements
    BY <1>1, <1>2, AnnouncementType
  <2> QED
    BY <1>7, <1>9, <2>1 DEF Opened
<1>10. ASSUME NEW t \in Tabs, OpenFails(t) \/ \E r \in routed : Retire(t, r)
       PROVE  EventsMove
  <2>1. PICK e \in Nat : group' = Broadcast(group, t, [kind |-> "failed", epoch |-> e])
    BY <1>2, <1>10 DEF OpenFails, Retire, IInv, TypeOK, RoutedRequests
  <2> DEFINE m == [kind |-> "failed", epoch |-> e]
  <2>2. m \in Messages /\ m.kind # "event" /\ group' = Broadcast(group, t, m)
    BY <2>1, MessageTypes
  <2> HIDE DEF m
  <2> QED
    BY <1>1, <2>2, PostEvents
<1>11. ASSUME NEW t \in Tabs, Emit(t)
       PROVE  EventsMove
  <2> DEFINE m == [kind |-> "event", epoch |-> owner[t].epoch, revision |-> revision]
  <2>1. m \in Messages /\ m.revision = revision /\ group' = Broadcast(group, t, m)
    BY <1>2, <1>11, MessageTypes DEF Emit
  <2> HIDE DEF m
  <2> QED
    BY <1>1, <2>1, PostEvents
<1>12. ASSUME NEW t \in Tabs, Shutdown(t)
       PROVE  EventsMove
  <2> DEFINE x == [leader[t] EXCEPT !.ready = FALSE]
  <2>1. \/ group' = group
        \/ leader[t] # NoLeader /\ group' = Broadcast(group, t, [kind |-> "leader", leader |-> x])
    BY <1>12 DEF Shutdown, SpeaksForOwner
  <2>2. leader[t] # NoLeader => x \in Announcements
    BY LeaderIsTrue
  <2> HIDE DEF x
  <2> QED
    BY <1>3, <1>7, <2>1, <2>2
<1>13. ASSUME NEW t \in Tabs, CloseAlone(t)
       PROVE  EventsMove
  BY <1>12, <1>13 DEF CloseAlone
<1>14. ASSUME NEW t \in Tabs, ShutdownEnds(t) \/ Crash(t)
       PROVE  EventsMove
  <2>1. group' = Deafen(group, t)
    BY <1>14 DEF ShutdownEnds, Crash
  <2>2. \A u, v \in Tabs : group'[u][v] = IF v = t THEN <<>> ELSE group[u][v]
    BY <1>1, <2>1, DeafenEffect
  <2> QED
    BY <2>2 DEF EventsMove
<1>15. ASSUME NEW a \in replies, Respond(a)
       PROVE  EventsMove
  <2>1. a.tab \in Tabs
    BY DEF IInv, TypeOK, Answers
  <2>2. UNCHANGED group \/ Shutdown(a.tab)
    BY <1>15 DEF Respond
  <2> QED
    BY <1>3, <1>12, <2>1, <2>2
<1>16. ASSUME FileReleased
       PROVE  EventsMove
  BY <1>3, <1>16 DEF FileReleased
<1> QED
  BY <1>4, <1>5, <1>6, <1>8, <1>9, <1>10, <1>11, <1>13, <1>14, <1>15, <1>16 DEF Next, Works

\* A request is sent to the owner that its tab goes by.
LEMMA RoutedStep ==
    ASSUME IInv, BoundInv, Next
    PROVE  \A r \in routed' : r.epoch <= leader'[r.tab].epoch
<1>1. /\ routed \subseteq RoutedRequests
      /\ \A t \in Tabs : leader[t].epoch \in Nat
  BY EpochBound DEF IInv, TypeOK
<1>2. \A t \in Tabs : leader'[t].epoch \in Nat /\ leader[t].epoch <= leader'[t].epoch
  <2>1. \A t \in Tabs : leader'[t].epoch \in Nat
    BY TypeStep DEF TypeOK, Announcements
  <2> QED
    BY <1>1, <2>1, LeaderStep DEF LeadersMove
<1>3. \A r \in routed : r.epoch <= leader'[r.tab].epoch
  <2>1. \A r \in routed : r.tab \in Tabs /\ r.epoch \in Nat /\ r.epoch <= leader[r.tab].epoch
    BY <1>1 DEF RoutedRequests, BoundInv
  <2> QED
    BY <1>1, <1>2, <2>1
<1>4. ASSUME NEW t \in Tabs, NEW waiting, NEW entries, NEW m, NEW may,
             Dispatch(t, waiting, entries, m, may), leader'[t].epoch = m.epoch,
             NEW r \in routed' \ routed
      PROVE  r.tab = t /\ r.epoch = leader'[t].epoch
  BY <1>4 DEF Dispatch
<1>5. ASSUME NEW t \in Tabs, NEW m \in Announcements, Announce(t, m), NEW r \in routed' \ routed
      PROVE  r.tab = t /\ r.epoch = leader'[t].epoch
  <2>1. TypeOK
    BY DEF IInv
  <2>2. ~tab[t].closed /\ ~Mismatched(t, m)
    BY <1>5 DEF Announce, AnnounceMismatch
  <2>3. leader'[t] = m
    BY <1>5, <2>1, <2>2, AnnounceEffect DEF Mismatched
  <2> QED
    BY <1>4, <1>5, <2>2, <2>3 DEF Announce, AnnounceLeader
<1>6. ASSUME NEW r \in routed' \ routed
      PROVE  \E t \in Tabs : r.tab = t /\ r.epoch = leader'[t].epoch
  <2> DEFINE Goal == \E t \in Tabs : r.tab = t /\ r.epoch = leader'[t].epoch
  <2>1. ASSUME NEW t \in Tabs, \/ \E kind \in Kinds : Submit(t, kind)
                               \/ CloseByOwner(t) \/ Join(t)
        PROVE  Goal
    <3>1. UNCHANGED leader /\ \E waiting, entries, may :
            Dispatch(t, waiting, entries, leader[t], may)
      BY <2>1 DEF Submit, CloseByOwner, Enqueue, Join
    <3>2. PICK waiting, entries, may : Dispatch(t, waiting, entries, leader[t], may)
      BY <3>1
    <3>3. leader'[t].epoch = leader[t].epoch
      BY <3>1
    <3> QED
      BY <1>4, <1>6, <3>2, <3>3
  <2>2. ASSUME NEW t \in Tabs, Begin(t) \/ Opened(t) \/ QueryAnswered(t)
        PROVE  Goal
    <3>1. CASE Begin(t)
      <4>1. epochs' \in Nat /\ TypeOK
        BY <3>1 DEF Begin, IInv, TypeOK
      <4>2. Announcement(t, epochs', FALSE) \in Announcements
        BY <4>1, AnnouncementType
      <4> QED
        BY <1>5, <1>6, <3>1, <4>2 DEF Begin
    <3>2. CASE Opened(t)
      <4>1. owner[t].epoch \in Nat /\ TypeOK
        BY DEF IInv, TypeOK
      <4>2. Announcement(t, owner[t].epoch, TRUE) \in Announcements
        BY <4>1, AnnouncementType
      <4> QED
        BY <1>5, <1>6, <3>2, <4>2 DEF Opened
    <3>3. CASE QueryAnswered(t)
      <4>1. queries[t] # <<>> /\ Announce(t, Head(queries[t]))
        BY <3>3 DEF QueryAnswered
      <4>2. Head(queries[t]) \in Announcements
        BY <4>1, PictureIsTrue
      <4> QED
        BY <1>5, <1>6, <4>1, <4>2
    <3> QED
      BY <2>2, <3>1, <3>2, <3>3
  <2>3. ASSUME NEW t \in Tabs,
               \/ \E kind \in Kinds : SubmitRefused(t, kind)
               \/ Start(t) \/ Refresh(t) \/ CloseAlone(t) \/ Crash(t)
               \/ Elect(t) \/ OpenFails(t) \/ Retired(t) \/ Emit(t) \/ ShutdownEnds(t)
               \/ \E s \in Tabs : Hear(s, t)
               \/ \E q \in routed : Serve(t, q) \/ Retire(t, q)
               \/ \E q \in replies : Respond(q)
        PROVE  routed' \subseteq routed
    BY <2>3 DEF Start, SubmitRefused, Refresh, CloseAlone, Crash, Elect, OpenFails, Retired,
                Emit, ShutdownEnds, Hear, HearDiscover, HearLeader, HearEvent, HearFailure,
                Serve, Retire, Respond
  <2>4. ASSUME FileReleased
        PROVE  routed' \subseteq routed
    BY <2>4 DEF FileReleased
  <2> HIDE DEF Goal
  <2>5. Goal
    BY <1>6, <2>1, <2>2, <2>3, <2>4 DEF Next, Works
  <2> QED
    BY <2>5 DEF Goal
<1>7. \A r \in routed' \ routed : r.epoch <= leader'[r.tab].epoch
  BY <1>2, <1>6
<1> QED
  BY <1>3, <1>7

\* What an answer does to its tab: init initializes the page, and brings it to the
\* revision that it read.
LEMMA RespondDetail ==
    ASSUME IInv, NEW a \in replies, Respond(a)
    PROVE  LET t == a.tab
               isInit == IsCurrent(a) /\ log[t][a.n].kind = "init"
           IN /\ t \in Tabs /\ a.n \in DOMAIN log[t] /\ a.revision \in Nat
              /\ \A u \in Tabs : u # t => tab'[u] = tab[u] /\ told'[u] = told[u]
              /\ tab'[t].refreshRequested = tab[t].refreshRequested
              /\ tab'[t].here = tab[t].here /\ tab'[t].terminal = tab[t].terminal
              /\ tab[t].closed => tab'[t].closed
              /\ tab'[t].initialized => tab[t].initialized \/ isInit
              /\ tab[t].initialized => tab'[t].initialized
              /\ told'[t] = IF isInit /\ told[t] < a.revision THEN a.revision ELSE told[t]
              /\ replies' \subseteq replies
              /\ UNCHANGED <<leader, queries, owner, epochs, revision, unannounced>>
              /\ \A s, u \in Tabs : Stays(s, u)
<1> DEFINE t == a.tab
           isInit == IsCurrent(a) /\ log[t][a.n].kind = "init"
<1>1. /\ tab \in [Tabs -> TabStates] /\ told \in [Tabs -> Nat] /\ a.revision \in Nat
      /\ t \in Tabs /\ a.n \in DOMAIN log[t]
  BY DEF IInv, TypeOK, Answers, RequestInv
<1>2. /\ replies' \subseteq replies
      /\ UNCHANGED <<leader, queries, owner, epochs, revision, unannounced>>
  BY DEF Respond
<1>3. UNCHANGED group => \A s, u \in Tabs : Stays(s, u)
  BY DEF Stays
<1> DEFINE Goal ==
       /\ \A u \in Tabs : u # t => tab'[u] = tab[u] /\ told'[u] = told[u]
       /\ tab'[t].refreshRequested = tab[t].refreshRequested
       /\ tab'[t].here = tab[t].here /\ tab'[t].terminal = tab[t].terminal
       /\ tab[t].closed => tab'[t].closed
       /\ tab'[t].initialized => tab[t].initialized \/ isInit
       /\ tab[t].initialized => tab'[t].initialized
       /\ told'[t] = IF isInit /\ told[t] < a.revision THEN a.revision ELSE told[t]
       /\ \A s, u \in Tabs : Stays(s, u)
<1>4. ASSUME ~IsCurrent(a), UNCHANGED <<tab, group, told>>
      PROVE  Goal
  BY <1>3, <1>4
<1>5. ASSUME IsCurrent(a), log[t][a.n].kind # "close", UNCHANGED group,
             tab' = [tab EXCEPT ![t].initialized =
                       @ \/ (log[t][a.n].kind = "init" /\ a.outcome = "OK")],
             told' = IF log[t][a.n].kind = "init" /\ told[t] < a.revision
                     THEN [told EXCEPT ![t] = a.revision] ELSE told
      PROVE  Goal
  <2>1. /\ told'[t] = IF isInit /\ told[t] < a.revision THEN a.revision ELSE told[t]
        /\ \A u \in Tabs : u # t => told'[u] = told[u]
    BY <1>1, <1>5
  <2> DEFINE x == tab[t].initialized \/ (log[t][a.n].kind = "init" /\ a.outcome = "OK")
  <2>2. tab' = [tab EXCEPT ![t].initialized = x]
    BY <1>5
  <2>3. (x => tab[t].initialized \/ isInit) /\ (tab[t].initialized => x)
    BY <1>5
  <2> HIDE DEF x, isInit
  <2>4. /\ tab'[t].initialized = x /\ tab'[t].refreshRequested = tab[t].refreshRequested
        /\ tab'[t].here = tab[t].here /\ tab'[t].terminal = tab[t].terminal
        /\ tab'[t].closed = tab[t].closed
        /\ \A u \in Tabs : u # t => tab'[u] = tab[u]
    BY <1>1, <2>2 DEF TabStates
  <2> QED
    BY <1>3, <1>5, <2>1, <2>3, <2>4
<1>6. ASSUME IsCurrent(a), log[t][a.n].kind = "close", Shutdown(t), UNCHANGED told
      PROVE  Goal
  <2>1. tab' = [tab EXCEPT ![t].closed = TRUE]
    BY <1>6 DEF Shutdown
  <2>2. /\ tab'[t].initialized = tab[t].initialized
        /\ tab'[t].refreshRequested = tab[t].refreshRequested
        /\ tab'[t].here = tab[t].here /\ tab'[t].terminal = tab[t].terminal
        /\ tab'[t].closed
        /\ \A u \in Tabs : u # t => tab'[u] = tab[u]
    BY <1>1, <2>1 DEF TabStates
  <2>3. \A s, u \in Tabs : Stays(s, u)
    BY <1>1, <1>6, ShutdownStays
  <2>4. ~isInit
    BY <1>6
  <2> HIDE DEF isInit
  <2> QED
    BY <1>6, <2>2, <2>3, <2>4
<1> HIDE DEF Goal
<1>7. Goal
  BY <1>4, <1>5, <1>6 DEF Respond
<1> QED
  BY <1>1, <1>2, <1>7 DEF Goal

\* No page is told of a revision that there is not.
LEMMA ToldStep ==
    ASSUME IInv, BoundInv, Next, NEW t \in Tabs
    PROVE  told'[t] <= revision'
<1>1. told \in [Tabs -> Nat] /\ TypeOK
  BY DEF IInv, TypeOK
<1>2. told[t] \in Nat /\ told[t] <= revision
  BY <1>1 DEF BoundInv
<1>3. revision \in Nat /\ revision' \in Nat /\ revision <= revision'
  BY RevisionGrows
<1> SUFFICES \/ told'[t] \in {told[t], revision}
             \/ told'[t] \in Nat /\ told'[t] <= revision
  BY <1>2, <1>3
<1>4. CASE Untouched(t)
  BY <1>4 DEF Untouched
<1>5. CASE Start(t) \/ Refresh(t)
  BY <1>1, <1>5 DEF Start, Refresh
<1>6. ASSUME NEW u \in Tabs, NEW m \in Announcements, Announce(u, m)
      PROVE  told'[t] \in {told[t], revision}
  BY <1>1, <1>6, AnnounceDetail
<1>7. CASE QueryAnswered(t)
  BY <1>6, <1>7, PictureIsTrue DEF QueryAnswered
<1>8. ASSUME NEW s \in Tabs, HearLeader(s, t)
      PROVE  told'[t] = told[t]
  BY <1>8 DEF HearLeader
<1>9. ASSUME NEW s \in Tabs, HearEvent(s, t)
      PROVE  \/ told'[t] = told[t]
             \/ told'[t] \in Nat /\ told'[t] <= revision
  <2> DEFINE m == Head(group[s][t])
  <2>1. /\ group[s][t] # <<>> /\ m.kind = "event"
        /\ told' = told \/ told' = [told EXCEPT ![t] = m.revision]
    BY <1>9 DEF HearEvent
  <2>2. group[s][t] \in Seq(Messages)
    BY DEF IInv, TypeOK
  <2>3. m = group[s][t][1] /\ 1 \in DOMAIN group[s][t] /\ m \in Messages
    BY <2>1, <2>2
  <2>4. m.revision \in Nat /\ m.revision <= revision
    BY <2>1, <2>3, HeardTypes DEF BoundInv
  <2> HIDE DEF m
  <2> QED
    BY <1>1, <2>1, <2>4
<1>10. ASSUME NEW a \in replies, a.tab = t, Respond(a)
       PROVE  told'[t] = told[t] \/ (told'[t] \in Nat /\ told'[t] <= revision)
  <2>1. a.revision <= revision
    BY DEF BoundInv
  <2>2. a.revision \in Nat /\ told'[t] \in {told[t], a.revision}
    BY <1>10, RespondDetail
  <2> QED
    BY <2>1, <2>2
<1>11. CASE Disturbed(t)
  BY <1>5, <1>7, <1>8, <1>9, <1>10, <1>11 DEF Disturbed
<1>12. CASE OwnerActs
  <2>1. PICK u \in Tabs : \/ Begin(u) \/ Opened(u) \/ Emit(u)
                          \/ \E r \in routed : Serve(u, r) \/ Retire(u, r)
    BY <1>12 DEF OwnerActs
  <2>2. CASE Begin(u)
    <3>1. epochs' \in Nat
      BY <2>2 DEF Begin, IInv, TypeOK
    <3>2. Announcement(u, epochs', FALSE) \in Announcements
      BY <1>1, <3>1, AnnouncementType
    <3> QED
      BY <1>6, <2>2, <3>2 DEF Begin
  <2>3. CASE Opened(u)
    <3>1. owner[u].epoch \in Nat
      BY DEF IInv, TypeOK
    <3>2. Announcement(u, owner[u].epoch, TRUE) \in Announcements
      BY <1>1, <3>1, AnnouncementType
    <3> QED
      BY <1>6, <2>3, <3>2 DEF Opened
  <2>4. CASE Emit(u)
    BY <1>1, <2>4 DEF Emit
  <2>5. CASE \E r \in routed : Serve(u, r) \/ Retire(u, r)
    BY <2>5, RunsFrame
  <2> QED
    BY <2>1, <2>2, <2>3, <2>4, <2>5
<1> QED
  BY <1>4, <1>11, <1>12, TouchStep

\* Only an answer initializes a page.
LEMMA InitializedStep ==
    ASSUME IInv, Next, NEW t \in Tabs
    PROVE  \/ tab'[t].initialized = tab[t].initialized
           \/ \E a \in replies : a.tab = t /\ Respond(a)
<1>1. TypeOK
  BY DEF IInv
<1>2. tab \in [Tabs -> TabStates]
  BY DEF IInv, TypeOK
<1>3. ASSUME SameTabs
      PROVE  tab'[t].initialized = tab[t].initialized
  BY <1>3 DEF SameTabs
<1>4. CASE Untouched(t)
  BY <1>4 DEF Untouched
<1>5. CASE Disturbed(t)
  <2>1. CASE Start(t) \/ Refresh(t)
    BY <1>2, <2>1 DEF Start, Refresh, TabStates
  <2>2. CASE QueryAnswered(t)
    BY <1>1, <1>3, <2>2, PictureIsTrue, AnnounceEffect DEF QueryAnswered
  <2>3. ASSUME NEW s \in Tabs, HearLeader(s, t) \/ HearEvent(s, t)
        PROVE  UNCHANGED tab
    BY <2>3 DEF HearLeader, HearEvent
  <2> QED
    BY <1>5, <2>1, <2>2, <2>3 DEF Disturbed
<1>6. CASE OwnerActs
  <2>1. PICK u \in Tabs : \/ Begin(u) \/ Opened(u) \/ Emit(u)
                          \/ \E r \in routed : Serve(u, r) \/ Retire(u, r)
    BY <1>6 DEF OwnerActs
  <2>2. CASE Begin(u) \/ Opened(u)
    BY <1>3, <2>2, OwnAnnouncement
  <2>3. CASE Emit(u) \/ \E r \in routed : Serve(u, r)
    BY <2>3 DEF Emit, Serve
  <2>4. CASE \E r \in routed : Retire(u, r)
    <3>1. tab' = [tab EXCEPT ![u].terminal = TRUE]
      BY <2>4 DEF Retire
    <3> QED
      BY <1>1, <1>3, <3>1, TerminateEffect
  <2> QED
    BY <2>1, <2>2, <2>3, <2>4
<1> QED
  BY <1>4, <1>5, <1>6, TouchStep

\* Every step leaves revisions and epochs within their bounds.
LEMMA BoundStep ==
    ASSUME IInv, BoundInv, Next
    PROVE  BoundInv'
<1>1. revision \in Nat /\ revision' \in Nat /\ revision <= revision'
  BY RevisionGrows
<1>2. \A t \in Tabs : leader[t].epoch \in Nat
  BY EpochBound
<1>3. \A t \in Tabs : leader'[t].epoch \in Nat
  BY TypeStep DEF TypeOK, Announcements
<1>4. \A t \in Tabs : leader[t].epoch <= leader'[t].epoch
  BY <1>2, LeaderStep DEF LeadersMove
<1>5. ASSUME NEW t \in Tabs
      PROVE  tab'[t].initialized => leader'[t].epoch # NoEpoch
  <2>1. leader[t].epoch # NoEpoch => leader'[t].epoch # NoEpoch
    BY <1>2, <1>3, <1>4 DEF NoEpoch
  <2>2. CASE tab'[t].initialized = tab[t].initialized
    BY <2>1, <2>2 DEF BoundInv
  <2>3. ASSUME NEW a \in replies, a.tab = t, Respond(a)
        PROVE  tab'[t].initialized => leader'[t].epoch # NoEpoch
    <3>1. tab'[t].initialized => tab[t].initialized \/ IsCurrent(a)
      BY <2>3, RespondDetail
    <3>2. IsCurrent(a) => leader[t].epoch # NoEpoch
      BY <2>3 DEF IsCurrent, BoundInv
    <3> QED
      BY <2>1, <3>1, <3>2 DEF BoundInv
  <2> QED
    BY <2>2, <2>3, InitializedStep
<1>6. ASSUME NEW u \in Tabs, NEW v \in Tabs, NEW i \in DOMAIN group'[u][v],
             group'[u][v][i].kind = "event"
      PROVE  group'[u][v][i].revision <= revision'
  <2>1. CASE group'[u][v][i].revision = revision
    BY <1>1, <2>1
  <2>2. ASSUME NEW j \in DOMAIN group[u][v], group'[u][v][i] = group[u][v][j]
        PROVE  group'[u][v][i].revision <= revision'
    <3>1. group[u][v][j].revision <= revision
      BY <1>6, <2>2 DEF BoundInv
    <3>2. group[u][v] \in Seq(Messages)
      BY DEF IInv, TypeOK
    <3>3. group[u][v][j].revision \in Nat
      BY <1>6, <2>2, <3>2, HeardTypes
    <3> QED
      BY <1>1, <2>2, <3>1, <3>3
  <2> QED
    BY <1>6, <2>1, <2>2, EventStep DEF EventsMove
<1>7. ASSUME NEW a \in replies'
      PROVE  /\ a.revision <= revision'
             /\ a.epoch # NoEpoch /\ a.epoch <= leader'[a.tab].epoch
  <2>1. CASE a \in replies
    <3>1. a.tab \in Tabs /\ a.epoch \in Nat /\ a.revision \in Nat
      BY <2>1 DEF IInv, TypeOK, Answers
    <3>2. /\ a.revision <= revision /\ a.epoch # NoEpoch /\ a.epoch <= leader[a.tab].epoch
      BY <2>1 DEF BoundInv
    <3> QED
      BY <1>1, <1>2, <1>3, <1>4, <3>1, <3>2
  <2>2. CASE a \notin replies
    <3>1. PICK t \in Tabs, r \in routed : Serve(t, r) \/ Retire(t, r)
      BY <2>2, DatabaseFrame
    <3>2. a.tab = r.tab /\ a.epoch = r.epoch /\ a.revision = revision' /\ UNCHANGED leader
      BY <2>2, <3>1, RunsFrame
    <3>3. r.epoch # NoEpoch /\ r.epoch <= leader[r.tab].epoch
      BY DEF IInv, RequestInv, BoundInv
    <3> QED
      BY <1>1, <3>2, <3>3
  <2> QED
    BY <2>1, <2>2
<1>8. \A r \in routed' : r.epoch <= leader'[r.tab].epoch
  BY RoutedStep
<1>9. \A t \in Tabs : told'[t] <= revision'
  BY ToldStep
<1> QED
  BY <1>5, <1>6, <1>7, <1>8, <1>9 DEF BoundInv

-----------------------------------------------------------------------------
(* While the owner opens the database. *)

\* A new owner announces its epoch to its own tab, and then that it is ready.
LEMMA OwnDetail ==
    ASSUME IInv, NEW u \in Tabs, Begin(u) \/ Opened(u)
    PROVE  \E m \in Announcements :
             /\ Announce(u, m) /\ Listening(u)
             /\ m.epoch = owner'[u].epoch /\ (m.ready <=> Opened(u)) /\ m.owner = u
             /\ group' = Broadcast(group, u, [kind |-> "leader", leader |-> m])
             /\ UNCHANGED <<queries, replies, revision>>
<1>1. TypeOK
  BY DEF IInv
<1>2. epochs \in Nat /\ owner \in [Tabs -> [phase : Phases, epoch : Nat]]
  BY DEF IInv, TypeOK
<1>3. CASE Begin(u)
  <2> DEFINE m == Announcement(u, epochs', FALSE)
  <2>1. /\ Announce(u, m) /\ Listening(u) /\ epochs' = epochs + 1
        /\ owner[u].phase = "elected"
        /\ owner' = [owner EXCEPT ![u] = [phase |-> "opening", epoch |-> epochs']]
        /\ group' = Broadcast(group, u, [kind |-> "leader", leader |-> m])
        /\ UNCHANGED <<queries, replies, revision>>
    BY <1>3 DEF Begin
  <2>2. m \in Announcements /\ m.epoch = epochs' /\ ~m.ready /\ m.owner = u
    <3>1. epochs' \in Nat
      BY <1>2, <2>1
    <3> QED
      BY <1>1, <3>1, AnnouncementType
  <2> HIDE DEF m
  <2>3. ~Opened(u)
    BY <2>1 DEF Opened
  <2>4. owner'[u].epoch = epochs'
    BY <1>2, <2>1
  <2> QED
    BY <2>1, <2>2, <2>3, <2>4
<1>4. CASE Opened(u)
  <2> DEFINE m == Announcement(u, owner[u].epoch, TRUE)
  <2>1. /\ Announce(u, m) /\ Listening(u)
        /\ owner' = [owner EXCEPT ![u].phase = "serving"]
        /\ group' = Broadcast(group, u, [kind |-> "leader", leader |-> m])
        /\ UNCHANGED <<queries, replies, revision>>
    BY <1>4 DEF Opened
  <2>2. m \in Announcements /\ m.epoch = owner[u].epoch /\ m.ready /\ m.owner = u
    <3>1. owner[u].epoch \in Nat
      BY <1>2
    <3> QED
      BY <1>1, <3>1, AnnouncementType
  <2> HIDE DEF m
  <2>3. owner'[u].epoch = owner[u].epoch
    BY <1>2, <2>1
  <2> QED
    BY <1>4, <2>1, <2>2, <2>3
<1> QED
  BY <1>3, <1>4

\* A tab comes into use only when it is started.
LEMMA InUseStep ==
    ASSUME IInv, Next, NEW t \in Tabs, ~Start(t)
    PROVE  (Listening(t)' => Listening(t)) /\ (InUse(t)' => InUse(t))
<1>1. TypeOK
  BY DEF IInv
<1>2. tab \in [Tabs -> TabStates]
  BY DEF IInv, TypeOK
<1> DEFINE Goal == (Listening(t)' => Listening(t)) /\ (InUse(t)' => InUse(t))
<1>3. ASSUME tab'[t].here = tab[t].here, tab[t].closed => tab'[t].closed,
             tab[t].terminal => tab'[t].terminal
      PROVE  Goal
  BY <1>3 DEF InUse, Listening
<1>4. UNCHANGED tab => Goal
  BY DEF InUse, Listening
<1>5. CASE Untouched(t)
  BY <1>5 DEF Untouched
<1>6. CASE Disturbed(t)
  <2>1. CASE Refresh(t)
    <3>1. \E x : tab' = [tab EXCEPT ![t].refreshRequested = x]
      BY <2>1 DEF Refresh
    <3>2. /\ tab'[t].here = tab[t].here /\ tab'[t].closed = tab[t].closed
          /\ tab'[t].terminal = tab[t].terminal
      BY <1>2, <3>1 DEF TabStates
    <3> QED
      BY <1>3, <3>2
  <2>2. CASE QueryAnswered(t)
    <3>1. /\ tab'[t].here = tab[t].here /\ tab'[t].closed = tab[t].closed
          /\ ~tab'[t].terminal => ~tab[t].terminal
      BY <1>1, <2>2, PictureIsTrue, AnnounceDetail DEF QueryAnswered
    <3> QED
      BY <1>3, <3>1
  <2>3. ASSUME NEW s \in Tabs, HearLeader(s, t) \/ HearEvent(s, t)
        PROVE  Goal
    BY <1>4, <2>3 DEF HearLeader, HearEvent
  <2>4. ASSUME NEW a \in replies, a.tab = t, Respond(a)
        PROVE  Goal
    <3>1. /\ tab'[t].here = tab[t].here /\ (tab[t].closed => tab'[t].closed)
          /\ tab'[t].terminal = tab[t].terminal
      BY <2>4, RespondDetail
    <3> QED
      BY <1>3, <3>1
  <2> QED
    BY <1>6, <2>1, <2>2, <2>3, <2>4 DEF Disturbed
<1>7. CASE OwnerActs
  <2>1. PICK u \in Tabs : \/ Begin(u) \/ Opened(u) \/ Emit(u)
                          \/ \E r \in routed : Serve(u, r) \/ Retire(u, r)
    BY <1>7 DEF OwnerActs
  <2>2. CASE Begin(u) \/ Opened(u)
    <3>1. PICK m \in Announcements : Announce(u, m)
      BY <2>2, OwnDetail
    <3>2. /\ tab'[t].here = tab[t].here /\ tab'[t].closed = tab[t].closed
          /\ ~tab'[t].terminal => ~tab[t].terminal
      BY <1>1, <3>1, AnnounceDetail
    <3> QED
      BY <1>3, <3>2
  <2>3. CASE Emit(u) \/ \E r \in routed : Serve(u, r)
    BY <1>4, <2>3 DEF Emit, Serve
  <2>4. CASE \E r \in routed : Retire(u, r)
    <3>1. tab' = [tab EXCEPT ![u].terminal = TRUE]
      BY <2>4 DEF Retire
    <3>2. /\ tab'[t].here = tab[t].here /\ tab'[t].closed = tab[t].closed
          /\ tab[t].terminal => tab'[t].terminal
      BY <1>2, <3>1 DEF TabStates
    <3> QED
      BY <1>3, <3>2
  <2> QED
    BY <2>1, <2>2, <2>3, <2>4
<1> QED
  BY <1>5, <1>6, <1>7, TouchStep

\* A refresh brings the page up to date, or will when the owner is known to be ready.
LEMMA RefreshDetail ==
    ASSUME IInv, NEW t \in Tabs, Refresh(t)
    PROVE  /\ tab'[t].initialized = tab[t].initialized
           /\ told'[t] = revision \/ (told'[t] = told[t] /\ tab'[t].refreshRequested)
           /\ UNCHANGED <<leader, queries, replies, revision, unannounced, epochs>>
           /\ \A s \in Tabs : Stays(s, t)
<1>1. TypeOK
  BY DEF IInv
<1>2. tab \in [Tabs -> TabStates] /\ told \in [Tabs -> Nat]
  BY DEF IInv, TypeOK
<1>3. UNCHANGED <<leader, queries, replies, revision, unannounced, epochs>>
  BY DEF Refresh
<1>4. \/ /\ told' = [told EXCEPT ![t] = revision]
         /\ tab' = [tab EXCEPT ![t].refreshRequested = FALSE]
      \/ /\ told' = told
         /\ tab' = [tab EXCEPT ![t].refreshRequested = TRUE]
  BY DEF Refresh
<1>5. /\ tab'[t].initialized = tab[t].initialized
      /\ told'[t] = revision \/ (told'[t] = told[t] /\ tab'[t].refreshRequested)
  BY <1>2, <1>4 DEF TabStates
<1>6. group' = group \/ group' = Broadcast(group, t, [kind |-> "discover"])
  BY DEF Refresh
<1>7. group' = group => \A s \in Tabs : Stays(s, t)
  BY DEF Stays
<1>8. [kind |-> "discover"] \in Messages
  BY MessageTypes
<1>9. \A s \in Tabs : Stays(s, t)
  BY <1>1, <1>6, <1>7, <1>8, PostStays
<1> QED
  BY <1>3, <1>5, <1>9

\* A message is heard first, and those behind it stay.
LEMMA TailStays ==
    ASSUME IInv, NEW s \in Tabs, NEW t \in Tabs, group[s][t] # <<>>, group' = Heard(s, t)
    PROVE  /\ Head(group[s][t]) = group[s][t][1] /\ 1 \in DOMAIN group[s][t]
           /\ Head(group[s][t]) \in Messages
           /\ \A i \in DOMAIN group[s][t] : i # 1 =>
                \E j \in DOMAIN group'[s][t] : group'[s][t][j] = group[s][t][i]
<1>1. TypeOK
  BY DEF IInv
<1>2. group[s][t] \in Seq(Messages)
  BY DEF IInv, TypeOK
<1>3. group'[s][t] = Tail(group[s][t])
  BY <1>1, HeardEffect
<1>4. Head(group[s][t]) = group[s][t][1] /\ 1 \in DOMAIN group[s][t] /\ Head(group[s][t]) \in Messages
  BY <1>2
<1>5. \A i \in DOMAIN group[s][t] : i # 1 =>
        i - 1 \in DOMAIN group'[s][t] /\ group'[s][t][i - 1] = group[s][t][i]
  BY <1>2, <1>3
<1> QED
  BY <1>4, <1>5

\* An event tells the page of its revision, if it is the owner's that the tab goes by.
LEMMA EventDetail ==
    ASSUME IInv, BoundInv, NEW s \in Tabs, NEW t \in Tabs, HearEvent(s, t)
    PROVE  /\ UNCHANGED <<tab, leader, queries, replies, revision, unannounced, epochs>>
           /\ group[s][t] # <<>> /\ group' = Heard(s, t) /\ group[s][t][1].kind = "event"
           /\ \A u \in Tabs : u # s => Stays(u, t)
           /\ told[t] = revision => told'[t] = revision
           /\ group[s][t][1].epoch = leader[t].epoch /\ group[s][t][1].revision = revision =>
                told'[t] = revision
<1> DEFINE m == Head(group[s][t])
<1>1. /\ UNCHANGED <<tab, leader, queries, replies, revision, unannounced, epochs>>
      /\ group[s][t] # <<>> /\ group' = Heard(s, t) /\ m.kind = "event"
      /\ told' = IF m.epoch = leader[t].epoch /\ told[t] < m.revision
                 THEN [told EXCEPT ![t] = m.revision] ELSE told
  BY DEF HearEvent
<1>2. told \in [Tabs -> Nat] /\ revision \in Nat
  BY DEF IInv, TypeOK
<1>3. m = group[s][t][1] /\ 1 \in DOMAIN group[s][t] /\ m \in Messages
  BY <1>1, TailStays
<1>4. m.revision \in Nat /\ m.revision <= revision
  BY <1>1, <1>3, HeardTypes DEF BoundInv
<1>5. told[t] \in Nat /\ told[t] <= revision
  BY <1>2 DEF BoundInv
<1>6. [kind |-> "discover"] \in Messages
  BY MessageTypes
<1>7. \A u \in Tabs : u # s => Stays(u, t)
  BY <1>1, <1>6, HeardStays
<1> HIDE DEF m
<1>8. told'[t] = IF m.epoch = leader[t].epoch /\ told[t] < m.revision THEN m.revision ELSE told[t]
  BY <1>1, <1>2
<1>9. /\ told[t] = revision => told'[t] = revision
      /\ m.epoch = leader[t].epoch /\ m.revision = revision => told'[t] = revision
  BY <1>2, <1>4, <1>5, <1>8
<1> QED
  BY <1>1, <1>3, <1>7, <1>9

\* Nobody else acts as owner while one opens or serves the database.
LEMMA OnlyOwner ==
    ASSUME IInv, NEW s \in Tabs, tab[s].here, owner[s].phase \in {"opening", "serving"},
           OwnerActs
    PROVE  \/ owner[s].phase = "opening" /\ Opened(s)
           \/ /\ owner[s].phase = "serving"
              /\ Emit(s) \/ \E r \in routed : Serve(s, r) \/ Retire(s, r)
<1>1. PICK u \in Tabs : \/ Begin(u) \/ Opened(u) \/ Emit(u)
                        \/ \E r \in routed : Serve(u, r) \/ Retire(u, r)
  BY DEF OwnerActs
<1>2. holder = s
  BY ServingIsNewest
<1>3. ASSUME tab[u].here, owner[u].phase \in Kept
      PROVE  u = s
  BY <1>2, <1>3 DEF IInv, LockInv
<1>4. CASE Begin(u)
  BY <1>3, <1>4 DEF Begin, Listening, Kept
<1>5. CASE Opened(u)
  BY <1>3, <1>5 DEF Opened, Listening, Kept
<1>6. CASE Emit(u)
  BY <1>3, <1>6 DEF Emit, Serving, Listening, Kept
<1>7. CASE \E r \in routed : Serve(u, r) \/ Retire(u, r)
  <2>1. Serving(u)
    BY <1>7, RunsFrame
  <2> QED
    BY <1>3, <1>7, <2>1 DEF Serving, Listening, Kept
<1> QED
  BY <1>1, <1>4, <1>5, <1>6, <1>7

\* Every step leaves the pages of an owner that opens current, or to be refreshed.
LEMMA OpeningStep ==
    ASSUME IInv, BoundInv, OpeningInv, Next
    PROVE  OpeningInv'
<1> SUFFICES ASSUME NEW s \in Tabs, tab'[s].here, owner'[s].phase = "opening"
             PROVE  /\ \A a \in replies' : a.epoch # epochs'
                    /\ \A t \in Tabs : (InUse(t)' /\ leader'[t].epoch = epochs' /\ tab'[t].initialized) =>
                         tab'[t].refreshRequested \/ told'[t] = revision'
  BY DEF OpeningInv
<1>1. TypeOK
  BY DEF IInv
<1>2. epochs \in Nat /\ \A t \in Tabs : leader[t].epoch \in Nat /\ leader[t].epoch <= epochs
  BY EpochBound DEF IInv, TypeOK
<1>3. CASE Begin(s)
  <2>1. /\ epochs' = epochs + 1 /\ owner'[s].epoch = epochs + 1
        /\ \A u \in Tabs : u # s => leader'[u] = leader[u]
    BY <1>3, BeginEffect
  <2>2. PICK m \in Announcements : /\ Announce(s, m) /\ Listening(s)
                                   /\ m.epoch = owner'[s].epoch /\ (m.ready <=> Opened(s))
                                   /\ UNCHANGED replies
    BY <1>3, OwnDetail
  <2>3. ~m.ready /\ m.epoch = epochs + 1
    BY <1>3, <2>1, <2>2 DEF Begin, Opened
  <2>4. ASSUME NEW a \in replies'
        PROVE  a.epoch # epochs'
    <3>1. a \in replies
      BY <2>2
    <3>2. a.epoch \in Nat /\ a.tab \in Tabs /\ a.epoch <= leader[a.tab].epoch
      BY <3>1 DEF IInv, TypeOK, Answers, BoundInv
    <3> QED
      BY <1>2, <2>1, <3>2
  <2>5. ASSUME NEW t \in Tabs, InUse(t)', leader'[t].epoch = epochs', tab'[t].initialized
        PROVE  tab'[t].refreshRequested
    <3>1. t = s
      BY <1>2, <2>1, <2>5
    <3>2. ~tab[s].closed /\ ~tab'[s].terminal /\ leader[s].epoch # m.epoch
      BY <1>2, <2>2, <2>3, <2>5, <3>1 DEF InUse, Listening
    <3>3. /\ tab'[s].initialized = tab[s].initialized
          /\ tab'[s].refreshRequested =
               (MustRefresh(s, leader[s].epoch # m.epoch) /\ ~m.ready)
      BY <1>1, <2>2, <3>2, AnnounceDetail
    <3>4. MustRefresh(s, leader[s].epoch # m.epoch)
      BY <2>5, <3>1, <3>2, <3>3 DEF MustRefresh
    <3> QED
      BY <2>3, <3>1, <3>3, <3>4
  <2> QED
    BY <2>4, <2>5
<1>4. CASE tab[s].here /\ owner[s].phase = "opening" /\ epochs' = epochs
  <2>1. ~OwnerActs
    <3>1. ~Opened(s)
      <4>1. owner \in [Tabs -> [phase : Phases, epoch : Nat]]
        BY DEF IInv, TypeOK
      <4>2. Opened(s) => owner'[s].phase = "serving"
        BY <4>1 DEF Opened
      <4> QED
        BY <4>2
    <3> QED
      BY <1>4, <3>1, OnlyOwner
  <2>2. UNCHANGED revision /\ replies' \subseteq replies
    BY <2>1, DatabaseFrame DEF OwnerActs
  <2>3. \A a \in replies : a.epoch # epochs
    BY <1>4 DEF OpeningInv
  <2>4. epochs # NoEpoch /\ \A u \in Tabs : owner[u].epoch = epochs => u = s
    BY <1>4, ServingIsNewest
  <2>5. ASSUME NEW t \in Tabs, InUse(t)', leader'[t].epoch = epochs', tab'[t].initialized
        PROVE  tab'[t].refreshRequested \/ told'[t] = revision'
    <3>1. ~Start(t)
      <4>1. SUFFICES ASSUME Start(t) PROVE FALSE
        OBVIOUS
      <4>2. log[t] = <<>> /\ UNCHANGED leader
        BY <4>1 DEF Start
      <4>3. leader[t].epoch = NoEpoch
        BY <4>2 DEF IInv, UnstartedInv, NoLeader
      <4> QED
        BY <1>4, <2>4, <2>5, <4>2, <4>3
    <3>2. InUse(t)
      BY <2>5, <3>1, InUseStep
    <3>3. ASSUME leader[t].epoch = epochs, tab[t].initialized
          PROVE  tab[t].refreshRequested \/ told[t] = revision
      BY <1>4, <3>2, <3>3 DEF OpeningInv
    <3>4. CASE Untouched(t)
      BY <1>4, <2>2, <2>5, <3>3, <3>4 DEF Untouched
    <3>5. CASE Refresh(t)
      BY <1>4, <2>2, <2>5, <3>3, <3>5, RefreshDetail
    <3>6. CASE QueryAnswered(t)
      <4> DEFINE m == Head(queries[t])
      <4>1. queries[t] # <<>> /\ Announce(t, m)
        BY <3>6 DEF QueryAnswered
      <4>2. m \in Announcements /\ IsTrue(m)
        BY <4>1, PictureIsTrue
      <4> HIDE DEF m
      <4>3. ~tab[t].closed /\ ~tab'[t].terminal
        BY <2>5, <3>2 DEF InUse, Listening
      <4>4. /\ leader'[t] = m /\ tab'[t].initialized = tab[t].initialized
            /\ tab'[t].refreshRequested =
                 (MustRefresh(t, leader[t].epoch # m.epoch) /\ ~m.ready)
            /\ told'[t] = IF /\ m.ready /\ MustRefresh(t, leader[t].epoch # m.epoch)
                             /\ tab[t].initialized
                          THEN revision ELSE told[t]
        BY <1>1, <4>1, <4>2, <4>3, AnnounceDetail
      <4>5. ~m.ready
        BY <1>4, <2>4, <2>5, <4>2, <4>4 DEF IsTrue
      <4>6. CASE leader[t].epoch # m.epoch
        BY <2>5, <4>4, <4>5, <4>6 DEF MustRefresh
      <4>7. CASE leader[t].epoch = m.epoch
        BY <1>4, <2>2, <2>5, <3>3, <4>4, <4>5, <4>7 DEF MustRefresh
      <4> QED
        BY <4>6, <4>7
    <3>7. ASSUME NEW u \in Tabs, HearLeader(u, t)
          PROVE  tab'[t].refreshRequested \/ told'[t] = revision'
      <4>1. UNCHANGED <<tab, leader, told>>
        BY <3>7 DEF HearLeader
      <4> QED
        BY <1>4, <2>2, <2>5, <3>3, <4>1
    <3>8. ASSUME NEW u \in Tabs, HearEvent(u, t)
          PROVE  tab'[t].refreshRequested \/ told'[t] = revision'
      BY <1>4, <2>2, <2>5, <3>3, <3>8, EventDetail
    <3>9. ASSUME NEW a \in replies, a.tab = t, Respond(a)
          PROVE  tab'[t].refreshRequested \/ told'[t] = revision'
      <4>1. UNCHANGED leader
        BY <3>9 DEF Respond
      <4>2. ~IsCurrent(a)
        BY <1>4, <2>3, <2>5, <3>9, <4>1 DEF IsCurrent
      <4>3. /\ tab'[t].refreshRequested = tab[t].refreshRequested
            /\ tab'[t].initialized => tab[t].initialized
            /\ told'[t] = told[t]
        BY <3>9, <4>2, RespondDetail
      <4> QED
        BY <1>4, <2>2, <2>5, <3>3, <4>1, <4>3
    <3> QED
      BY <2>1, <3>1, <3>4, <3>5, <3>6, <3>7, <3>8, <3>9, TouchStep DEF Disturbed
  <2> QED
    BY <1>4, <2>2, <2>3, <2>5
<1> QED
  BY <1>3, <1>4, PhaseStep

-----------------------------------------------------------------------------
(* While the owner serves. *)

\* What is under way stays under way, if neither the channel nor the pictures move.
LEMMA ComingStays ==
    ASSUME NEW s \in Tabs, NEW t \in Tabs, Stays(s, t), queries'[t] = queries[t],
           epochs' = epochs, Coming(s, t)
    PROVE  Coming(s, t)'
  BY DEF Stays, Coming, IsReady

\* An event stays under way.
LEMMA AnnouncedStays ==
    ASSUME NEW s \in Tabs, NEW t \in Tabs, Stays(s, t), unannounced => unannounced',
           UNCHANGED <<epochs, revision>>, Announced(s, t)
    PROVE  Announced(s, t)'
  BY DEF Stays, Announced

\* What a request asks never changes.
LEMMA KindStep ==
    ASSUME IInv, Next, NEW t \in Tabs, NEW n \in DOMAIN log[t]
    PROVE  log'[t][n].kind = log[t][n].kind
  BY MovesStep DEF RequestsMove, AnswersMove

\* An answer of the newest owner is for a tab that goes by it.
LEMMA InitAnswerIsNewest ==
    ASSUME IInv, BoundInv, Next, epochs' = epochs,
           NEW a \in replies, NEW t \in Tabs, IsInitAnswer(a, t)'
    PROVE  IsInitAnswer(a, t) /\ leader[t].epoch = epochs
<1>1. a.tab = t /\ a.epoch = epochs /\ log'[t][a.n].kind = "init"
  BY DEF IsInitAnswer
<1>2. a.n \in DOMAIN log[t]
  BY <1>1 DEF IInv, RequestInv
<1>3. log[t][a.n].kind = "init"
  BY <1>1, <1>2, KindStep
<1>4. a.epoch <= leader[t].epoch /\ leader[t].epoch <= epochs
  BY <1>1, EpochBound DEF BoundInv
<1>5. epochs \in Nat /\ leader[t].epoch \in Nat
  BY EpochBound DEF IInv, TypeOK
<1> QED
  BY <1>1, <1>3, <1>4, <1>5 DEF IsInitAnswer

\* A page goes on following the owner when nothing is lost that it waits for, unless it
\* is told of the revision instead.
LEMMA FollowsOn ==
    ASSUME IInv, BoundInv, Next, NEW s \in Tabs, NEW t \in Tabs, Follows(s, t),
           epochs' = epochs, revision' = revision,
           Coming(s, t) => Coming(s, t)',
           leader'[t].epoch = leader[t].epoch,
           tab'[t].initialized => tab[t].initialized,
           told[t] = revision => told'[t] = revision,
           leader[t].epoch = epochs /\ Announced(s, t) => told'[t] = revision \/ Announced(s, t)',
           tab[t].refreshRequested => tab'[t].refreshRequested \/ told'[t] = revision,
           \A i \in DOMAIN queries'[t] : queries'[t][i].epoch # epochs =>
               \E j \in DOMAIN queries[t] : queries'[t][i] = queries[t][j],
           replies' \subseteq replies
    PROVE  Follows(s, t)'
<1>1. leader'[t].epoch \notin {NoEpoch, epochs'} => Coming(s, t)'
  BY DEF Follows
<1>2. \A i \in DOMAIN queries'[t] : queries'[t][i].epoch # epochs' => Coming(s, t)'
  BY DEF Follows
<1>3. leader'[t].epoch = epochs' /\ tab'[t].initialized =>
        \/ told'[t] = revision' \/ Announced(s, t)'
        \/ tab'[t].refreshRequested /\ Coming(s, t)'
  BY DEF Follows
<1>4. ASSUME NEW a \in replies', IsInitAnswer(a, t)'
      PROVE  told'[t] = revision' \/ a.revision = revision' \/ Announced(s, t)'
  <2>1. a \in replies
    OBVIOUS
  <2>2. IsInitAnswer(a, t) /\ leader[t].epoch = epochs
    BY <1>4, <2>1, InitAnswerIsNewest
  <2>3. told[t] = revision \/ a.revision = revision \/ Announced(s, t)
    BY <2>1, <2>2 DEF Follows
  <2> QED
    BY <2>2, <2>3
<1> QED
  BY <1>1, <1>2, <1>3, <1>4 DEF Follows

\* A page that nothing happens to, or that asks for a refresh.
LEMMA UntouchedFollows ==
    ASSUME IInv, BoundInv, Next, NEW s \in Tabs, NEW t \in Tabs, Follows(s, t),
           epochs' = epochs, tab'[t].here, Untouched(t) \/ Refresh(t)
    PROVE  Follows(s, t)'
<1>1. /\ Stays(s, t) /\ queries'[t] = queries[t] /\ leader'[t] = leader[t]
      /\ UNCHANGED <<revision, unannounced>> /\ replies' \subseteq replies
      /\ tab'[t].initialized = tab[t].initialized
      /\ \/ told'[t] = revision
         \/ /\ told'[t] = told[t]
            /\ tab[t].refreshRequested => tab'[t].refreshRequested
  <2>1. CASE Untouched(t)
    BY <2>1 DEF Untouched
  <2>2. CASE Refresh(t)
    BY <2>2, RefreshDetail
  <2> QED
    BY <2>1, <2>2
<1>2. (Coming(s, t) => Coming(s, t)') /\ (Announced(s, t) => Announced(s, t)')
  BY <1>1, ComingStays, AnnouncedStays
<1> QED
  BY <1>1, <1>2, FollowsOn

\* A tab that is started has heard nothing, and its page reads nothing yet.
LEMMA StartFollows ==
    ASSUME IInv, NEW s \in Tabs, NEW t \in Tabs, Start(t)
    PROVE  Follows(s, t)'
<1>1. log[t] = <<>> /\ UNCHANGED <<leader, queries, replies>>
  BY DEF Start
<1>2. ~tab[t].here /\ ~tab[t].initialized /\ leader[t].epoch = NoEpoch
  BY <1>1 DEF IInv, UnstartedInv, NoLeader
<1>3. queries[t] = <<>>
  BY <1>2 DEF IInv, UnstartedInv
<1>4. ~tab'[t].initialized
  <2>1. tab \in [Tabs -> TabStates]
    BY DEF IInv, TypeOK
  <2> QED
    BY <1>2, <2>1 DEF Start, TabStates
<1>5. ASSUME NEW a \in replies, a.tab = t
      PROVE  FALSE
  <2>1. a.n \in DOMAIN log[t]
    BY <1>5 DEF IInv, RequestInv
  <2> QED
    BY <1>1, <2>1
<1>6. \A a \in replies' : ~IsInitAnswer(a, t)'
  BY <1>1, <1>5 DEF IsInitAnswer
<1>7. leader'[t].epoch = NoEpoch /\ queries'[t] = <<>>
  BY <1>1, <1>2, <1>3
<1> QED
  BY <1>4, <1>6, <1>7 DEF Follows

\* An announcement that is heard is checked with the browser, which confirms the owner.
LEMMA HearLeaderFollows ==
    ASSUME IInv, BoundInv, Next, NEW s \in Tabs, NEW t \in Tabs, Serving(s), Follows(s, t),
           NEW u \in Tabs, HearLeader(u, t)
    PROVE  Follows(s, t)'
<1> DEFINE m == Head(group[u][t]).leader
<1>1. /\ group[u][t] # <<>> /\ Head(group[u][t]).kind = "leader" /\ group' = Heard(u, t)
      /\ queries' = IF holder = m.owner THEN [queries EXCEPT ![t] = Append(queries[t], m)]
                    ELSE queries
      /\ UNCHANGED <<tab, leader, replies, epochs, revision, unannounced, told>>
  BY DEF HearLeader, Confirmed
<1>2. /\ m \in Announcements /\ IsTrue(m)
      /\ \/ UNCHANGED queries
         \/ queries' = [queries EXCEPT ![t] = Append(queries[t], m)] /\ m.epoch = epochs
  BY HeardLeader
<1>3. /\ holder = s /\ \A v \in Tabs : owner[v].epoch = epochs => v = s
  BY ServingIsNewest DEF Serving, Listening
<1>4. IsReady(m) => queries' = [queries EXCEPT ![t] = Append(queries[t], m)]
  BY <1>1, <1>2, <1>3 DEF IsTrue, IsReady
<1>5. /\ Head(group[u][t]) = group[u][t][1]
      /\ \A i \in DOMAIN group[u][t] : i # 1 =>
           \E j \in DOMAIN group'[u][t] : group'[u][t][j] = group[u][t][i]
  BY <1>1, TailStays
<1>6. queries \in [Tabs -> Seq(Announcements)] /\ queries[t] \in Seq(Announcements)
  BY DEF IInv, TypeOK
<1>7. m = group[u][t][1].leader /\ group[u][t][1].kind = "leader"
  BY <1>1, <1>5
<1> HIDE DEF m
<1>8. /\ \A i \in DOMAIN queries[t] : i \in DOMAIN queries'[t] /\ queries'[t][i] = queries[t][i]
      /\ IsReady(m) => Len(queries[t]) + 1 \in DOMAIN queries'[t]
                         /\ queries'[t][Len(queries[t]) + 1] = m
      /\ \A i \in DOMAIN queries'[t] :
           (\E j \in DOMAIN queries[t] : queries'[t][i] = queries[t][j]) \/ queries'[t][i].epoch = epochs
  <2>1. CASE UNCHANGED queries
    <3>1. ~IsReady(m)
      BY <1>4, <1>6, <2>1
    <3> QED
      BY <2>1, <3>1
  <2>2. CASE queries' = [queries EXCEPT ![t] = Append(queries[t], m)] /\ m.epoch = epochs
    <3>1. queries'[t] = Append(queries[t], m)
      BY <1>6, <2>2
    <3> QED
      BY <1>2, <1>6, <2>2, <3>1
  <2> QED
    BY <1>2, <2>1, <2>2
<1>9. u # s => Stays(s, t)
  <2>1. [kind |-> "discover"] \in Messages
    BY MessageTypes
  <2> QED
    BY <1>1, <2>1, HeardStays
<1>10. \A i \in DOMAIN group[s][t] :
         \/ \E j \in DOMAIN group'[s][t] : group'[s][t][j] = group[s][t][i]
         \/ group[s][t][i].kind \notin {"leader", "event"}
         \/ u = s /\ i = 1
  BY <1>5, <1>9 DEF Stays
<1>11. ASSUME Coming(s, t)
       PROVE  Coming(s, t)'
  <2>1. IsReady(m) => \E i \in DOMAIN queries'[t] : queries'[t][i].epoch = epochs /\ queries'[t][i].ready
    BY <1>8 DEF IsReady
  <2>2. CASE \E i \in DOMAIN queries[t] : IsReady(queries[t][i])
    BY <1>1, <1>8, <2>2 DEF IsReady, Coming
  <2>3. ASSUME NEW i \in DOMAIN group[s][t], group[s][t][i].kind = "leader",
               IsReady(group[s][t][i].leader)
        PROVE  Coming(s, t)'
    <3>1. CASE u = s /\ i = 1
      <4>1. IsReady(m)
        BY <1>7, <2>3, <3>1
      <4> QED
        BY <1>1, <2>1, <4>1 DEF Coming, IsReady
    <3>2. CASE \E j \in DOMAIN group'[s][t] : group'[s][t][j] = group[s][t][i]
      BY <1>1, <2>3, <3>2 DEF Coming, IsReady
    <3> QED
      BY <1>10, <2>3, <3>1, <3>2
  <2> QED
    BY <1>11, <2>2, <2>3 DEF Coming
<1>12. ASSUME Announced(s, t)
       PROVE  Announced(s, t)'
  <2>1. CASE unannounced
    BY <1>1, <2>1 DEF Announced
  <2>2. ASSUME NEW i \in DOMAIN group[s][t], group[s][t][i].kind = "event",
               group[s][t][i].epoch = epochs, group[s][t][i].revision = revision
        PROVE  Announced(s, t)'
    <3>1. \E j \in DOMAIN group'[s][t] : group'[s][t][j] = group[s][t][i]
      BY <1>7, <1>10, <2>2
    <3> QED
      BY <1>1, <2>2, <3>1 DEF Announced
  <2> QED
    BY <1>12, <2>1, <2>2 DEF Announced
<1> QED
  BY <1>1, <1>8, <1>11, <1>12, FollowsOn

\* An event that is heard has told the page, if it is the last one.
LEMMA HearEventFollows ==
    ASSUME IInv, BoundInv, Next, NEW s \in Tabs, NEW t \in Tabs, Follows(s, t),
           NEW u \in Tabs, HearEvent(u, t)
    PROVE  Follows(s, t)'
<1>1. /\ UNCHANGED <<tab, leader, queries, replies, revision, unannounced, epochs>>
      /\ group[u][t] # <<>> /\ group' = Heard(u, t) /\ group[u][t][1].kind = "event"
      /\ u # s => Stays(s, t)
      /\ told[t] = revision => told'[t] = revision
      /\ group[u][t][1].epoch = leader[t].epoch /\ group[u][t][1].revision = revision =>
           told'[t] = revision
  BY EventDetail
<1>2. \A i \in DOMAIN group[u][t] : i # 1 =>
        \E j \in DOMAIN group'[u][t] : group'[u][t][j] = group[u][t][i]
  BY <1>1, TailStays
<1>3. \A i \in DOMAIN group[s][t] :
         \/ \E j \in DOMAIN group'[s][t] : group'[s][t][j] = group[s][t][i]
         \/ group[s][t][i].kind \notin {"leader", "event"}
         \/ u = s /\ i = 1
  BY <1>1, <1>2 DEF Stays
<1>4. ASSUME Coming(s, t)
      PROVE  Coming(s, t)'
  <2>1. CASE \E i \in DOMAIN queries[t] : IsReady(queries[t][i])
    BY <1>1, <2>1 DEF IsReady, Coming
  <2>2. ASSUME NEW i \in DOMAIN group[s][t], group[s][t][i].kind = "leader",
               IsReady(group[s][t][i].leader)
        PROVE  Coming(s, t)'
    <3>1. \E j \in DOMAIN group'[s][t] : group'[s][t][j] = group[s][t][i]
      BY <1>1, <1>3, <2>2
    <3> QED
      BY <1>1, <2>2, <3>1 DEF Coming, IsReady
  <2> QED
    BY <1>4, <2>1, <2>2 DEF Coming
<1>5. ASSUME Announced(s, t), leader[t].epoch = epochs
      PROVE  told'[t] = revision \/ Announced(s, t)'
  <2>1. CASE unannounced
    BY <1>1, <2>1 DEF Announced
  <2>2. ASSUME NEW i \in DOMAIN group[s][t], group[s][t][i].kind = "event",
               group[s][t][i].epoch = epochs, group[s][t][i].revision = revision
        PROVE  told'[t] = revision \/ Announced(s, t)'
    <3>1. CASE u = s /\ i = 1
      BY <1>1, <1>5, <2>2, <3>1
    <3>2. CASE \E j \in DOMAIN group'[s][t] : group'[s][t][j] = group[s][t][i]
      BY <1>1, <2>2, <3>2 DEF Announced
    <3> QED
      BY <1>3, <2>2, <3>1, <3>2
  <2> QED
    BY <1>5, <2>1, <2>2 DEF Announced
<1> QED
  BY <1>1, <1>4, <1>5, FollowsOn

\* The browser's picture arrives: a tab that comes to this owner, and hears that it is
\* ready, is refreshed; one that hears only that it is there will be.
LEMMA AnsweredFollows ==
    ASSUME IInv, BoundInv, Next, NEW s \in Tabs, NEW t \in Tabs, Follows(s, t),
           InUse(t), InUse(t)', QueryAnswered(t)
    PROVE  Follows(s, t)'
<1> DEFINE m == Head(queries[t])
<1>1. /\ queries[t] # <<>> /\ Announce(t, m)
      /\ UNCHANGED <<group, replies, epochs, revision, unannounced>>
  BY DEF QueryAnswered
<1>2. m \in Announcements
  BY <1>1, PictureIsTrue
<1>3. /\ m = queries[t][1] /\ 1 \in DOMAIN queries[t]
      /\ \A i \in DOMAIN queries'[t] :
           i + 1 \in DOMAIN queries[t] /\ queries'[t][i] = queries[t][i + 1] /\ i \in Nat
  BY AnsweredEffect
<1>4. \A i \in DOMAIN queries[t] : i # 1 =>
        \E j \in DOMAIN queries'[t] : queries'[t][j] = queries[t][i]
  <2>1. /\ queries \in [Tabs -> Seq(Announcements)]
        /\ queries' = [queries EXCEPT ![t] = Tail(queries[t])]
    BY DEF IInv, TypeOK, QueryAnswered
  <2>2. queries[t] \in Seq(Announcements) /\ queries'[t] = Tail(queries[t])
    BY <2>1
  <2>3. \A i \in DOMAIN queries[t] : i # 1 =>
          i - 1 \in DOMAIN queries'[t] /\ queries'[t][i - 1] = queries[t][i]
    BY <1>1, <2>2
  <2> QED
    BY <2>3
<1> HIDE DEF m
<1>5. TypeOK /\ ~tab[t].closed /\ ~tab'[t].terminal
  BY DEF IInv, InUse, Listening
<1>6. /\ leader'[t] = m /\ tab'[t].initialized = tab[t].initialized
      /\ tab'[t].refreshRequested = (MustRefresh(t, leader[t].epoch # m.epoch) /\ ~m.ready)
      /\ told'[t] = IF /\ m.ready /\ MustRefresh(t, leader[t].epoch # m.epoch)
                       /\ tab[t].initialized
                    THEN revision ELSE told[t]
  BY <1>1, <1>2, <1>5, AnnounceDetail
<1>7. Announced(s, t) => Announced(s, t)'
  BY <1>1 DEF Announced
<1>8. Coming(s, t) /\ ~IsReady(m) => Coming(s, t)'
  <2> SUFFICES ASSUME Coming(s, t), ~IsReady(m)
               PROVE  Coming(s, t)'
    OBVIOUS
  <2>1. CASE \E i \in DOMAIN queries[t] : IsReady(queries[t][i])
    <3>1. PICK i \in DOMAIN queries[t] : IsReady(queries[t][i])
      BY <2>1
    <3>2. i # 1
      BY <1>3, <3>1
    <3>3. PICK j \in DOMAIN queries'[t] : queries'[t][j] = queries[t][i]
      BY <1>4, <3>2
    <3> QED
      BY <1>1, <3>1, <3>3 DEF Coming, IsReady
  <2>2. CASE \E i \in DOMAIN group[s][t] :
               group[s][t][i].kind = "leader" /\ IsReady(group[s][t][i].leader)
    BY <1>1, <2>2 DEF Coming, IsReady
  <2> QED
    BY <2>1, <2>2 DEF Coming
<1>9. /\ epochs \in Nat /\ leader[t].epoch \in Nat /\ leader[t].epoch <= epochs
      /\ leader[t].epoch <= m.epoch /\ m.epoch \in Nat /\ m.epoch <= epochs
      /\ \A i \in DOMAIN queries[t] : m.epoch <= queries[t][i].epoch /\ queries[t][i].epoch \in Nat
                                        /\ queries[t][i].epoch <= epochs
  <2>1. \A i \in DOMAIN queries[t] : queries[t][i].epoch \in Nat /\ queries[t][i].epoch <= epochs
    BY EpochBound DEF IInv, AnnouncementInv
  <2>2. epochs \in Nat /\ leader[t].epoch \in Nat /\ leader[t].epoch <= epochs
    BY EpochBound DEF IInv, TypeOK
  <2>3. \A i \in DOMAIN queries[t] : i \in Nat /\ 1 <= i
    <3>1. queries[t] \in Seq(Announcements)
      BY DEF IInv, TypeOK
    <3> QED
      BY <3>1
  <2>4. /\ leader[t].epoch <= m.epoch
        /\ \A i \in DOMAIN queries[t] : m.epoch <= queries[t][i].epoch
    BY <1>3, <2>3 DEF IInv, OrderInv
  <2> QED
    BY <1>3, <2>1, <2>2, <2>4
<1>10. ASSUME m.epoch # epochs
       PROVE  Coming(s, t)'
  <2>1. Coming(s, t) /\ ~IsReady(m)
    BY <1>3, <1>10 DEF Follows, IsReady
  <2> QED
    BY <1>8, <2>1
<1>11. leader'[t].epoch \notin {NoEpoch, epochs'} => Coming(s, t)'
  BY <1>1, <1>6, <1>10
<1>12. ASSUME NEW i \in DOMAIN queries'[t], queries'[t][i].epoch # epochs'
       PROVE  Coming(s, t)'
  <2>1. i + 1 \in DOMAIN queries[t] /\ queries'[t][i] = queries[t][i + 1]
    BY <1>3
  <2>2. m.epoch # epochs
    BY <1>1, <1>9, <1>12, <2>1
  <2> QED
    BY <1>10, <2>2
<1>13. ASSUME leader'[t].epoch = epochs', tab'[t].initialized
       PROVE  \/ told'[t] = revision' \/ Announced(s, t)'
              \/ tab'[t].refreshRequested /\ Coming(s, t)'
  <2>1. m.epoch = epochs /\ tab[t].initialized
    BY <1>1, <1>6, <1>13
  <2>2. CASE leader[t].epoch # epochs
    <3>1. MustRefresh(t, leader[t].epoch # m.epoch)
      BY <2>1, <2>2 DEF MustRefresh
    <3>2. CASE m.ready
      BY <1>1, <1>6, <2>1, <3>1, <3>2
    <3>3. CASE ~m.ready
      <4>1. Coming(s, t)
        BY <2>1, <2>2 DEF BoundInv, Follows
      <4> QED
        BY <1>6, <1>8, <3>1, <3>3, <4>1 DEF IsReady
    <3> QED
      BY <3>2, <3>3
  <2>3. CASE leader[t].epoch = epochs
    <3>1. MustRefresh(t, leader[t].epoch # m.epoch) = tab[t].refreshRequested
      BY <2>1, <2>3 DEF MustRefresh
    <3>2. \/ told[t] = revision \/ Announced(s, t)
          \/ tab[t].refreshRequested /\ Coming(s, t)
      BY <2>1, <2>3 DEF Follows
    <3>3. CASE told[t] = revision \/ Announced(s, t)
      BY <1>1, <1>6, <1>7, <3>3
    <3>4. CASE tab[t].refreshRequested /\ Coming(s, t)
      <4>1. CASE m.ready
        BY <1>1, <1>6, <2>1, <3>1, <3>4, <4>1
      <4>2. CASE ~m.ready
        BY <1>6, <1>8, <3>1, <3>4, <4>2 DEF IsReady
      <4> QED
        BY <4>1, <4>2
    <3> QED
      BY <3>2, <3>3, <3>4
  <2> QED
    BY <2>2, <2>3
<1>14. ASSUME NEW a \in replies', IsInitAnswer(a, t)'
       PROVE  told'[t] = revision' \/ a.revision = revision' \/ Announced(s, t)'
  <2>1. a \in replies
    BY <1>1
  <2>2. IsInitAnswer(a, t)
    BY <1>1, <1>14, <2>1, InitAnswerIsNewest
  <2>3. told[t] = revision \/ a.revision = revision \/ Announced(s, t)
    BY <2>1, <2>2 DEF Follows
  <2> QED
    BY <1>1, <1>6, <1>7, <2>3
<1> QED
  BY <1>11, <1>12, <1>13, <1>14 DEF Follows

\* A page is initialized by the owner that its tab goes by, with what it reads then.
LEMMA RespondFollows ==
    ASSUME IInv, BoundInv, Next, NEW s \in Tabs, NEW t \in Tabs, Follows(s, t),
           NEW a \in replies, a.tab = t, Respond(a)
    PROVE  Follows(s, t)'
<1> DEFINE isInit == IsCurrent(a) /\ log[t][a.n].kind = "init"
<1>1. /\ tab'[t].refreshRequested = tab[t].refreshRequested
      /\ tab'[t].initialized => tab[t].initialized \/ isInit
      /\ told'[t] = IF isInit /\ told[t] < a.revision THEN a.revision ELSE told[t]
      /\ replies' \subseteq replies
      /\ UNCHANGED <<leader, queries, epochs, revision, unannounced>>
      /\ Stays(s, t) /\ a.revision \in Nat
  BY RespondDetail
<1>2. told[t] \in Nat /\ revision \in Nat /\ told[t] <= revision /\ a.revision <= revision
  BY DEF IInv, TypeOK, BoundInv
<1>3. (Coming(s, t) => Coming(s, t)') /\ (Announced(s, t) => Announced(s, t)')
  BY <1>1, ComingStays, AnnouncedStays
<1>4. isInit => a.epoch = leader[t].epoch /\ log[t][a.n].kind = "init"
  BY DEF IsCurrent
<1> HIDE DEF isInit
<1>5. told[t] = revision => told'[t] = revision
  BY <1>1, <1>2
<1>6. CASE ~isInit
  BY <1>1, <1>3, <1>5, <1>6, FollowsOn
<1>7. CASE isInit
  <2>1. leader'[t].epoch \notin {NoEpoch, epochs'} => Coming(s, t)'
    BY <1>1, <1>3 DEF Follows
  <2>2. \A i \in DOMAIN queries'[t] : queries'[t][i].epoch # epochs' => Coming(s, t)'
    BY <1>1, <1>3 DEF Follows
  <2>3. ASSUME leader[t].epoch = epochs
        PROVE  told'[t] = revision \/ Announced(s, t)'
    <3>1. IsInitAnswer(a, t)
      BY <1>4, <1>7, <2>3 DEF IsInitAnswer
    <3>2. told[t] = revision \/ a.revision = revision \/ Announced(s, t)
      BY <3>1 DEF Follows
    <3> QED
      BY <1>1, <1>2, <1>3, <1>5, <1>7, <3>2
  <2>4. ASSUME NEW b \in replies', IsInitAnswer(b, t)'
        PROVE  told'[t] = revision' \/ b.revision = revision' \/ Announced(s, t)'
    <3>1. leader[t].epoch = epochs
      BY <1>1, <2>4, InitAnswerIsNewest
    <3> QED
      BY <1>1, <2>3, <3>1
  <2> QED
    BY <1>1, <2>1, <2>2, <2>3, <2>4 DEF Follows
<1> QED
  BY <1>6, <1>7

\* A request that publishes a revision leaves the owner an event to send, and what init
\* is answered is the revision that it finds.
LEMMA ServeFollows ==
    ASSUME IInv, BoundInv, Next, NEW s \in Tabs, NEW t \in Tabs, Follows(s, t),
           NEW r \in routed, Serve(s, r)
    PROVE  Follows(s, t)'
<1>1. /\ UNCHANGED <<tab, leader, queries, group, told, epochs>>
      /\ revision' = RevisionAfter(r)
      /\ unannounced' = (unannounced \/ Publishes(log[r.tab][r.n].kind))
  BY DEF Serve
<1>2. \A a \in replies' \ replies : a.revision = revision'
  BY RunsFrame
<1>3. revision' = revision \/ unannounced'
  BY <1>1 DEF RevisionAfter
<1>4. Coming(s, t) => Coming(s, t)'
  BY <1>1 DEF Coming, IsReady
<1>5. Announced(s, t) => Announced(s, t)'
  BY <1>1, <1>3 DEF Announced
<1>6. revision' = revision \/ Announced(s, t)'
  BY <1>3 DEF Announced
<1>7. leader'[t].epoch \notin {NoEpoch, epochs'} => Coming(s, t)'
  BY <1>1, <1>4 DEF Follows
<1>8. \A i \in DOMAIN queries'[t] : queries'[t][i].epoch # epochs' => Coming(s, t)'
  BY <1>1, <1>4 DEF Follows
<1>9. leader'[t].epoch = epochs' /\ tab'[t].initialized =>
        \/ told'[t] = revision' \/ Announced(s, t)'
        \/ tab'[t].refreshRequested /\ Coming(s, t)'
  BY <1>1, <1>4, <1>5, <1>6 DEF Follows
<1>10. ASSUME NEW a \in replies', IsInitAnswer(a, t)'
       PROVE  told'[t] = revision' \/ a.revision = revision' \/ Announced(s, t)'
  <2>1. CASE a \in replies
    <3>1. IsInitAnswer(a, t)
      BY <1>1, <1>10, <2>1, InitAnswerIsNewest
    <3>2. told[t] = revision \/ a.revision = revision \/ Announced(s, t)
      BY <2>1, <3>1 DEF Follows
    <3> QED
      BY <1>1, <1>5, <1>6, <3>2
  <2>2. CASE a \notin replies
    BY <1>2, <2>2
  <2> QED
    BY <2>1, <2>2
<1> QED
  BY <1>7, <1>8, <1>9, <1>10 DEF Follows

\* A message that is sent to a tab that is there is under way to it.
LEMMA PostArrives ==
    ASSUME TypeOK, NEW s \in Tabs, NEW t \in Tabs, t # s, tab[t].here, NEW m \in Messages,
           group' = Broadcast(group, s, m)
    PROVE  \E i \in DOMAIN group'[s][t] : group'[s][t][i] = m
<1>1. group \in [Tabs -> [Tabs -> Seq(Messages)]]
  BY DEF TypeOK
<1>2. group'[s][t] = Append(group[s][t], m)
  BY <1>1, BroadcastEffect
<1>3. group[s][t] \in Seq(Messages)
  BY <1>1
<1>4. Len(group[s][t]) + 1 \in DOMAIN group'[s][t] /\ group'[s][t][Len(group[s][t]) + 1] = m
  BY <1>2, <1>3
<1> QED
  BY <1>4

\* The event reaches the owner's page at once, and is under way to the others.
LEMMA EmitFollows ==
    ASSUME IInv, BoundInv, Next, NEW s \in Tabs, NEW t \in Tabs, Follows(s, t),
           tab[t].here, Emit(s)
    PROVE  Follows(s, t)'
<1> DEFINE m == [kind |-> "event", epoch |-> owner[s].epoch, revision |-> revision]
<1>1. /\ UNCHANGED <<tab, leader, queries, replies, epochs, revision>>
      /\ Serving(s) /\ group' = Broadcast(group, s, m)
      /\ told' = [told EXCEPT ![s] = revision]
  BY DEF Emit
<1>2. owner[s].epoch = epochs
  BY <1>1, ServingIsNewest DEF Serving, Listening
<1>3. TypeOK
  BY DEF IInv
<1>4. /\ m \in Messages /\ m.kind = "event" /\ m.epoch = epochs /\ m.revision = revision
      /\ told \in [Tabs -> Nat]
  BY <1>2, MessageTypes DEF IInv, TypeOK
<1> HIDE DEF m
<1>5. Stays(s, t)
  BY <1>1, <1>3, <1>4, PostStays
<1>6. Coming(s, t) => Coming(s, t)'
  BY <1>1, <1>5, ComingStays
<1>7. told'[t] = revision \/ (told'[t] = told[t] /\ Announced(s, t)')
  <2>1. CASE t = s
    BY <1>1, <1>4, <2>1
  <2>2. CASE t # s
    <3>1. PICK i \in DOMAIN group'[s][t] : group'[s][t][i] = m
      BY <1>1, <1>3, <1>4, <2>2, PostArrives
    <3>2. told'[t] = told[t]
      BY <1>1, <1>4, <2>2
    <3> QED
      BY <1>1, <1>4, <3>1, <3>2 DEF Announced
  <2> QED
    BY <2>1, <2>2
<1> QED
  BY <1>1, <1>6, <1>7, FollowsOn

\* The owner is ready: whoever is there will hear it, and its own page knows.
LEMMA OpenedFollows ==
    ASSUME IInv, BoundInv, OpeningInv, Next, NEW s \in Tabs, NEW t \in Tabs,
           InUse(t)', Opened(s)
    PROVE  Follows(s, t)'
<1>1. /\ tab[s].here /\ owner[s].phase = "opening" /\ epochs' = epochs
      /\ owner' = [owner EXCEPT ![s].phase = "serving"]
      /\ owner \in [Tabs -> [phase : Phases, epoch : Nat]]
  BY DEF Opened, Listening, IInv, TypeOK
<1>2. PICK m \in Announcements :
        /\ Announce(s, m) /\ Listening(s)
        /\ m.epoch = owner'[s].epoch /\ m.ready /\ m.owner = s
        /\ group' = Broadcast(group, s, [kind |-> "leader", leader |-> m])
        /\ UNCHANGED <<queries, replies, revision>>
  BY OwnDetail
<1>3. leader[s].epoch = epochs /\ m.epoch = epochs
  BY <1>1, <1>2, ServingIsNewest
<1>4. TypeOK
  BY DEF IInv
<1>5. /\ \A a \in replies : a.epoch # epochs
      /\ InUse(t) /\ leader[t].epoch = epochs /\ tab[t].initialized =>
           tab[t].refreshRequested \/ told[t] = revision
  BY <1>1 DEF OpeningInv
<1>6. \A a \in replies' : ~IsInitAnswer(a, t)'
  BY <1>1, <1>2, <1>5 DEF IsInitAnswer
<1>7. CASE t # s
  <2>1. tab'[t] = tab[t] /\ leader'[t] = leader[t] /\ told'[t] = told[t]
    BY <1>2, <1>4, <1>7, AnnounceDetail
  <2>2. InUse(t) /\ tab[t].here
    BY <2>1 DEF InUse, Listening
  <2> DEFINE x == [kind |-> "leader", leader |-> m]
  <2>3. x \in Messages /\ x.kind = "leader" /\ x.leader = m /\ group' = Broadcast(group, s, x)
    BY <1>2, MessageTypes
  <2> HIDE DEF x
  <2>4. PICK i \in DOMAIN group'[s][t] : group'[s][t][i] = x
    BY <1>4, <1>7, <2>2, <2>3, PostArrives
  <2>5. Coming(s, t)'
    BY <1>1, <1>2, <1>3, <2>3, <2>4 DEF Coming, IsReady
  <2> QED
    BY <1>1, <1>2, <1>5, <1>6, <2>1, <2>2, <2>5 DEF Follows
<1>8. CASE t = s
  <2>1. ~tab[s].closed /\ ~tab'[s].terminal
    BY <1>2, <1>8 DEF InUse, Listening
  <2>2. /\ leader'[s] = m /\ tab'[s].initialized = tab[s].initialized
        /\ ~tab[s].terminal
        /\ told'[s] = IF /\ m.ready /\ MustRefresh(s, leader[s].epoch # m.epoch)
                         /\ tab[s].initialized
                      THEN revision ELSE told[s]
    BY <1>2, <1>4, <2>1, AnnounceDetail
  <2>3. InUse(s)
    BY <1>2, <2>2 DEF InUse
  <2>4. tab[s].initialized => told'[s] = revision
    <3>1. MustRefresh(s, leader[s].epoch # m.epoch) = tab[s].refreshRequested
      BY <1>3 DEF MustRefresh
    <3> QED
      BY <1>2, <1>3, <1>5, <1>8, <2>2, <2>3, <3>1
  <2>5. \A i \in DOMAIN queries[s] : queries[s][i].epoch = epochs
    <3>1. \A i \in DOMAIN queries[s] : /\ queries[s][i].epoch \in Nat
                                       /\ queries[s][i].epoch <= epochs
                                       /\ leader[s].epoch <= queries[s][i].epoch
      BY EpochBound DEF IInv, AnnouncementInv, OrderInv
    <3>2. epochs \in Nat
      BY DEF IInv, TypeOK
    <3> QED
      BY <1>3, <3>1, <3>2
  <2> QED
    BY <1>1, <1>2, <1>3, <1>6, <1>8, <2>2, <2>4, <2>5 DEF Follows
<1> QED
  BY <1>7, <1>8

\* Every step leaves the pages following the owner that serves.
LEMMA ServingStep ==
    ASSUME CInv, Next
    PROVE  ServingInv'
<1> SUFFICES ASSUME NEW s \in Tabs, NEW t \in Tabs, Serving(s)', InUse(t)'
             PROVE  Follows(s, t)'
  BY DEF ServingInv
<1>1. IInv /\ BoundInv /\ OpeningInv /\ ServingInv
  BY DEF CInv
<1>2. tab'[s].here /\ ~tab'[s].closed /\ owner'[s].phase = "serving" /\ tab'[t].here
  BY DEF Serving, InUse, Listening
<1>3. CASE Opened(s)
  BY <1>1, <1>3, OpenedFollows
<1>4. CASE tab[s].here /\ owner[s].phase = "serving" /\ epochs' = epochs
  <2>1. Serving(s)
    <3>1. ~Start(s)
      BY <1>1, <1>4 DEF Start, IInv, UnstartedInv
    <3>2. Listening(s)'
      BY DEF Serving
    <3> QED
      BY <1>1, <1>4, <3>1, <3>2, InUseStep DEF Serving
  <2>2. CASE Start(t)
    BY <1>1, <2>2, StartFollows
  <2>3. CASE ~Start(t)
    <3>1. InUse(t)
      BY <1>1, <2>3, InUseStep
    <3>2. Follows(s, t)
      BY <1>1, <2>1, <3>1 DEF ServingInv
    <3>3. CASE Untouched(t) \/ Refresh(t)
      BY <1>1, <1>2, <1>4, <3>2, <3>3, UntouchedFollows
    <3>4. CASE QueryAnswered(t)
      BY <1>1, <3>1, <3>2, <3>4, AnsweredFollows
    <3>5. ASSUME NEW u \in Tabs, HearLeader(u, t) \/ HearEvent(u, t)
          PROVE  Follows(s, t)'
      BY <1>1, <2>1, <3>2, <3>5, HearLeaderFollows, HearEventFollows
    <3>6. ASSUME NEW a \in replies, a.tab = t, Respond(a)
          PROVE  Follows(s, t)'
      BY <1>1, <3>2, <3>6, RespondFollows
    <3>7. CASE OwnerActs
      <4>1. ASSUME NEW r \in routed, Retire(s, r)
            PROVE  FALSE
        <5>1. owner' = [owner EXCEPT ![s].phase = "retiring"]
          BY <4>1 DEF Retire
        <5>2. owner \in [Tabs -> [phase : Phases, epoch : Nat]]
          BY <1>1 DEF IInv, TypeOK
        <5> QED
          BY <1>2, <5>1, <5>2
      <4>2. Emit(s) \/ \E r \in routed : Serve(s, r)
        BY <1>1, <1>4, <3>7, <4>1, OnlyOwner
      <4>3. CASE Emit(s)
        BY <1>1, <3>1, <3>2, <4>3, EmitFollows DEF InUse, Listening
      <4>4. CASE \E r \in routed : Serve(s, r)
        BY <1>1, <3>2, <4>4, ServeFollows
      <4> QED
        BY <4>2, <4>3, <4>4
    <3> QED
      BY <1>1, <2>3, <3>3, <3>4, <3>5, <3>6, <3>7, TouchStep DEF Disturbed
  <2> QED
    BY <2>2, <2>3
<1> QED
  BY <1>1, <1>2, <1>3, <1>4, PhaseStep

-----------------------------------------------------------------------------
(* The invariant, and what follows from it. *)

\* In the beginning nothing has been sent, told or answered.
LEMMA InitCInv ==
    Init => CInv
<1> SUFFICES ASSUME Init PROVE CInv
  OBVIOUS
<1>1. IInv
  BY InitInv
<1>2. BoundInv /\ OpeningInv /\ ServingInv
  <2>1. /\ \A t \in Tabs : /\ ~tab[t].initialized /\ told[t] = 0
                           /\ owner[t].phase = "none"
                           /\ \A s \in Tabs : group[s][t] = <<>>
        /\ revision = 0 /\ routed = {} /\ replies = {}
    BY DEF Init, NotOwner
  <2>2. BoundInv
    BY <2>1 DEF BoundInv
  <2>3. OpeningInv
    BY <2>1 DEF OpeningInv
  <2>4. ServingInv
    BY <2>1 DEF ServingInv, Serving
  <2> QED
    BY <2>2, <2>3, <2>4
<1> QED
  BY <1>1, <1>2 DEF CInv

\* Every step keeps the invariant.
LEMMA NextCInv ==
    CInv /\ [Next]_vars => CInv'
<1>1. ASSUME CInv, Next
      PROVE  CInv'
  <2>1. IInv'
    BY <1>1, NextInv DEF CInv
  <2>2. BoundInv' /\ OpeningInv' /\ ServingInv'
    BY <1>1, BoundStep, OpeningStep, ServingStep DEF CInv
  <2> QED
    BY <2>1, <2>2 DEF CInv
<1>2. ASSUME CInv, UNCHANGED vars
      PROVE  CInv'
  <2>1. IInv'
    BY <1>2, NextInv DEF CInv
  <2>2. BoundInv' /\ OpeningInv'
    BY <1>2 DEF CInv, vars, BoundInv, OpeningInv, InUse, Listening
  <2>3. ServingInv'
    BY <1>2 DEF CInv, vars, ServingInv, Follows, Serving, InUse, Listening, Coming, IsReady,
                Announced, IsInitAnswer
  <2> QED
    BY <2>1, <2>2, <2>3 DEF CInv
<1> QED
  BY <1>1, <1>2

\* The inductive invariant, for any number of tabs and any workload: how every page that
\* an owner serves is kept, or will be brought, up to the revision of the database.
THEOREM CurrencyInvariant == Spec => []CInv
<1> QED
  BY InitCInv, NextCInv, PTL DEF Spec

\* announce(), the owner's events and init's answers: once everything sent has arrived,
\* every page has been told to read what the owner has published, through changes of
\* owner, events that tabs did not hear, and tabs that start late.
THEOREM Currency == Spec => []PagesAreCurrent
<1>1. ASSUME CInv
      PROVE  PagesAreCurrent
  <2> SUFFICES ASSUME Quiet, NEW s \in Tabs, Serving(s), NEW t \in Tabs, Listening(t),
                      tab[t].initialized, ~tab[t].terminal
               PROVE  told[t] = revision
    BY DEF PagesAreCurrent
  <2>1. Follows(s, t)
    BY <1>1 DEF CInv, ServingInv, InUse
  <2>2. ~unannounced /\ group[s][t] = <<>> /\ queries[t] = <<>>
    BY DEF Quiet
  <2>3. ~Coming(s, t) /\ ~Announced(s, t)
    BY <2>2 DEF Coming, Announced
  <2>4. leader[t].epoch # NoEpoch
    BY <1>1 DEF CInv, BoundInv
  <2> QED
    BY <2>1, <2>3, <2>4 DEF Follows
<1> QED
  BY <1>1, CurrencyInvariant, PTL

=============================================================================
