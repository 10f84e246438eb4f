-------------------------- MODULE CoordinatorProofs --------------------------
(***************************************************************************)
(* Proofs about Coordinator for every set of tabs and every workload.      *)
(***************************************************************************)
EXTENDS Coordinator, SequenceTheorems, TLAPS

-----------------------------------------------------------------------------
(* Types. *)

ReleaseNames == {"none"} \cup UNION {w.releases : w \in Workloads}
Owners == Tabs \cup {NoTab}
Kept == {"elected", "opening", "serving", "retiring"}
Phases == Kept \cup {"none", "failed", "retired"}
Outcomes == {"waiting", "OK", "UNKNOWN", "TERMINAL", "LEADER_CHANGED", "TRANSACTION_LOST"}
EntryKinds == {"init", "write", "begin", "inTransaction", "close"}

TabStates ==
    [here : BOOLEAN, joined : BOOLEAN, closed : BOOLEAN, initialized : BOOLEAN,
     refreshRequested : BOOLEAN, terminal : BOOLEAN, release : ReleaseNames]
Announcements == [epoch : Nat, ready : BOOLEAN, owner : Owners, release : ReleaseNames]
Messages ==
    [kind : {"discover"}] \cup [kind : {"leader"}, leader : Announcements]
        \cup [kind : {"event"}, epoch : Nat, revision : Nat]
        \cup [kind : {"failed"}, epoch : Nat]
Entries == [kind : EntryKinds, tx : Nat, outcome : Outcomes, ran : Seq(Nat)]
RoutedRequests == [tab : Tabs, n : Nat, epoch : Nat]
Answers == [tab : Tabs, n : Nat, epoch : Nat, outcome : {"OK", "UNKNOWN"}, revision : Nat]

TypeOK ==
    /\ workload \in Workloads
    /\ tab \in [Tabs -> TabStates]
    /\ leader \in [Tabs -> Announcements]
    /\ DOMAIN pending = Tabs
    /\ \A t \in Tabs : /\ DOMAIN pending[t] \subseteq DOMAIN log[t]
                       /\ \A n \in DOMAIN pending[t] : pending[t][n] \in Nat
    /\ queries \in [Tabs -> Seq(Announcements)]
    /\ group \in [Tabs -> [Tabs -> Seq(Messages)]]
    /\ routed \subseteq RoutedRequests
    /\ replies \subseteq Answers
    /\ holder \in Owners
    /\ waiters \in Seq(Tabs)
    /\ owner \in [Tabs -> [phase : Phases, epoch : Nat]]
    /\ epochs \in Nat
    /\ handle \in Owners
    /\ revision \in Nat
    /\ unannounced \in BOOLEAN
    /\ told \in [Tabs -> Nat]
    /\ log \in [Tabs -> Seq(Entries)]
    /\ refreshes \in Nat

-----------------------------------------------------------------------------
(* The inductive invariant, part by part. *)

\* The election lock: its holder is there and has not let it go, the tab of an
\* engine that is open under it is its holder, and whoever waits for it has asked
\* once and may still be granted it.
LockInv ==
    /\ holder # NoTab => tab[holder].here /\ owner[holder].phase \in Kept
    /\ \A t \in Tabs : tab[t].here /\ owner[t].phase \in Kept => holder = t
    /\ \A t \in Tabs : owner[t].phase # "none" => tab[t].joined
    /\ handle # NoTab => /\ owner[handle].phase \notin {"none", "elected", "opening"}
                         /\ tab[handle].here => owner[handle].phase \in {"serving", "retiring"}
    /\ \A i \in DOMAIN waiters :
         /\ tab[waiters[i]].here /\ ~tab[waiters[i]].closed /\ tab[waiters[i]].joined
         /\ owner[waiters[i]].phase = "none"
    /\ \A i, j \in DOMAIN waiters : waiters[i] = waiters[j] => i = j

\* A tab of which nothing has been asked has not been started, and has left no trace.
UnstartedInv ==
    \A t \in Tabs :
        /\ log[t] = <<>> =>
             /\ ~tab[t].here /\ ~tab[t].joined /\ ~tab[t].initialized
             /\ owner[t].phase = "none"
             /\ leader[t] = NoLeader
        /\ ~tab[t].here => queries[t] = <<>> /\ \A s \in Tabs : group[s][t] = <<>>

\* A close that was acknowledged: its tab has gone, and has left the file.
Acknowledged(t) ==
    \E n \in DOMAIN log[t] : log[t][n].kind = "close" /\ log[t][n].outcome = "OK"
CloseInv ==
    \A t \in Tabs : Acknowledged(t) =>
        ~tab[t].here /\ (handle = t => owner[t].phase = "retiring")

\* An owner's epoch is its own, it is the newest while the owner has the lock, and
\* the owner itself goes by no earlier one.
EpochInv ==
    /\ \A t \in Tabs :
         /\ owner[t].phase \in {"none", "elected"} <=> owner[t].epoch = NoEpoch
         /\ owner[t].epoch <= epochs
         /\ owner[t].epoch <= leader[t].epoch
    /\ \A s, t \in Tabs : owner[s].epoch = owner[t].epoch /\ s # t => owner[s].epoch = NoEpoch
    /\ holder # NoTab /\ owner[holder].epoch # NoEpoch => owner[holder].epoch = epochs

\* An announcement, wherever it is, is one that its owner made.
IsTrue(m) ==
    /\ m.epoch # NoEpoch
    /\ m.owner \in Tabs
    /\ owner[m.owner].epoch = m.epoch
    /\ tab[m.owner].release = m.release
    /\ m.ready => owner[m.owner].phase # "opening"
AnnouncementInv ==
    /\ \A t \in Tabs :
         /\ leader[t] = NoLeader \/ (IsTrue(leader[t]) /\ leader[t].release = tab[t].release)
         /\ \A i \in DOMAIN queries[t] : IsTrue(queries[t][i])
    /\ \A s, t \in Tabs : \A i \in DOMAIN group[s][t] :
         group[s][t][i].kind = "leader" => IsTrue(group[s][t][i].leader)

\* The lock's pictures come in the order of the owners, and none of them is older
\* than the owner their tab goes by.
OrderInv ==
    \A t \in Tabs :
        /\ \A i \in DOMAIN queries[t] : leader[t].epoch <= queries[t][i].epoch
        /\ \A i, j \in DOMAIN queries[t] :
             i <= j => queries[t][i].epoch <= queries[t][j].epoch

\* A request is with one owner at most, and has not run while it is under way; one
\* that waits for its first owner has been nowhere.
OwnedBy(epoch, t) ==
    \E s \in Tabs : owner[s].epoch = epoch /\ tab[s].release = tab[t].release
RequestInv ==
    /\ \A t \in Tabs : \A n \in DOMAIN pending[t] :
         /\ log[t][n].outcome = "waiting"
         /\ pending[t][n] = NoEpoch =>
              /\ log[t][n].ran = <<>>
              /\ \A r \in routed : <<r.tab, r.n>> # <<t, n>>
    /\ \A r \in routed :
         /\ r.n \in DOMAIN log[r.tab]
         /\ log[r.tab][r.n].ran = <<>>
         /\ log[r.tab][r.n].outcome # "TRANSACTION_LOST"
         /\ log[r.tab][r.n].tx \in {NoEpoch, r.epoch}
         /\ r.epoch # NoEpoch /\ OwnedBy(r.epoch, r.tab)
    /\ \A r, q \in routed : r.tab = q.tab /\ r.n = q.n => r = q
    /\ \A a \in replies :
         /\ a.n \in DOMAIN log[a.tab]
         /\ a.outcome = "OK" => Len(log[a.tab][a.n].ran) = 1
    /\ \A t \in Tabs : \A n \in DOMAIN log[t] : \A i \in DOMAIN log[t][n].ran :
         log[t][n].ran[i] # NoEpoch

IInv ==
    /\ TypeOK /\ LockInv /\ UnstartedInv /\ CloseInv /\ EpochInv /\ AnnouncementInv
    /\ OrderInv /\ RequestInv /\ RunsAtMostOnce /\ RunsUnderItsOwner

-----------------------------------------------------------------------------
(* The operators of the model. *)

\* RemoveFirst, on the waiters of a lock: a tab that withdraws is not among them any
\* more, and nobody else is lost or doubled.
LEMMA Withdrawal ==
    ASSUME NEW S, NEW s \in Seq(S), NEW e,
           \A i, j \in DOMAIN s : s[i] = s[j] => i = j
    PROVE  /\ RemoveFirst(s, e) \in Seq(S)
           /\ \A i \in DOMAIN RemoveFirst(s, e) :
                /\ RemoveFirst(s, e)[i] # e
                /\ \E j \in DOMAIN s : RemoveFirst(s, e)[i] = s[j]
           /\ \A i, j \in DOMAIN RemoveFirst(s, e) :
                RemoveFirst(s, e)[i] = RemoveFirst(s, e)[j] => i = j
<1>1. CASE ~ \E i \in 1 .. Len(s) : s[i] = e
  BY <1>1 DEF RemoveFirst
<1>2. CASE \E i \in 1 .. Len(s) : s[i] = e
  <2>1. PICK i \in 1 .. Len(s) : s[i] = e
    BY <1>2
  <2>2. {j \in 1 .. Len(s) : s[j] = e} = {i}
    BY <2>1
  <2>3. SelectInSeq(s, LAMBDA v : v = e) = i
    BY <2>2 DEF SelectInSeq, Min
  <2> DEFINE a == SubSeq(s, 1, i - 1)
             b == SubSeq(s, i + 1, Len(s))
  <2>4. RemoveFirst(s, e) = a \o b
    BY <2>3, <1>2 DEF RemoveFirst, RemoveAt
  <2>5. a \in Seq(S) /\ Len(a) = i - 1 /\ \A j \in 1 .. (i - 1) : a[j] = s[j]
    OBVIOUS
  <2>6. b \in Seq(S) /\ Len(b) = Len(s) - i /\ \A j \in 1 .. (Len(s) - i) : b[j] = s[i + j]
    OBVIOUS
  <2> DEFINE r == a \o b
  <2> HIDE DEF a, b
  <2>7. r \in Seq(S) /\ Len(r) = Len(s) - 1
    <3>1. r \in Seq(S) /\ Len(r) = Len(a) + Len(b)
      BY <2>5, <2>6, ConcatProperties, Zenon
    <3> QED
      BY <3>1, <2>5, <2>6
  <2>8. \A j \in 1 .. (Len(s) - 1) : r[j] = IF j < i THEN s[j] ELSE s[j + 1]
    BY <2>5, <2>6, ConcatProperties
  <2> HIDE DEF r
  <2>9. DOMAIN r = 1 .. (Len(s) - 1) /\ DOMAIN s = 1 .. Len(s)
    BY <2>7
  <2>10. \A j \in DOMAIN r : r[j] # e /\ \E k \in DOMAIN s : r[j] = s[k]
    BY <2>1, <2>8, <2>9
  <2>11. \A j, k \in DOMAIN r : r[j] = r[k] => j = k
    BY <2>8, <2>9
  <2> QED
    BY <2>4, <2>7, <2>10, <2>11 DEF r
<1> QED
  BY <1>1, <1>2

\* Settled changes outcomes, and nothing else of a log.
LEMMA SettledEffect ==
    ASSUME NEW entries \in Seq(Entries), NEW ids, NEW outcome \in Outcomes
    PROVE  /\ Settled(entries, ids, outcome) \in Seq(Entries)
           /\ DOMAIN Settled(entries, ids, outcome) = DOMAIN entries
           /\ Len(Settled(entries, ids, outcome)) = Len(entries)
           /\ \A n \in DOMAIN entries :
                LET e == Settled(entries, ids, outcome)[n] IN
                /\ e.kind = entries[n].kind /\ e.tx = entries[n].tx
                /\ e.ran = entries[n].ran
                /\ e.outcome = IF n \in ids THEN outcome ELSE entries[n].outcome
<1> DEFINE s == Settled(entries, ids, outcome)
<1>1. Len(entries) \in Nat /\ DOMAIN entries = 1 .. Len(entries)
  OBVIOUS
<1>2. ASSUME NEW n \in DOMAIN entries
      PROVE  /\ s[n] \in Entries
             /\ s[n].kind = entries[n].kind /\ s[n].tx = entries[n].tx
             /\ s[n].ran = entries[n].ran
             /\ s[n].outcome = IF n \in ids THEN outcome ELSE entries[n].outcome
  <2>1. entries[n] \in Entries
    BY <1>1
  <2>2. s[n] = IF n \in ids THEN [entries[n] EXCEPT !.outcome = outcome] ELSE entries[n]
    BY DEF Settled
  <2> QED
    BY <2>1, <2>2 DEF Entries
<1>3. s \in [1 .. Len(entries) -> Entries]
  BY <1>1, <1>2 DEF Settled
<1>4. s \in Seq(Entries) /\ Len(s) = Len(entries)
  BY <1>1, <1>3
<1> QED
  BY <1>1, <1>2, <1>4 DEF Settled

\* A message that Broadcast posts is heard by the others that are there, after all
\* that its sender has sent before.
LEMMA BroadcastEffect ==
    ASSUME NEW channels \in [Tabs -> [Tabs -> Seq(Messages)]], NEW u \in Tabs,
           NEW message \in Messages
    PROVE  /\ Broadcast(channels, u, message) \in [Tabs -> [Tabs -> Seq(Messages)]]
           /\ \A s, t \in Tabs :
                Broadcast(channels, u, message)[s][t] =
                    IF s = u /\ t # u /\ tab[t].here THEN Append(channels[s][t], message)
                    ELSE channels[s][t]
  BY DEF Broadcast

\* A message that was heard leaves its channel.
LEMMA HeardEffect ==
    ASSUME TypeOK, NEW u \in Tabs, NEW v \in Tabs, group[u][v] # <<>>
    PROVE  /\ Heard(u, v) \in [Tabs -> [Tabs -> Seq(Messages)]]
           /\ Head(group[u][v]) \in Messages
           /\ \A s, t \in Tabs :
                Heard(u, v)[s][t] = IF s = u /\ t = v THEN Tail(group[s][t]) ELSE group[s][t]
<1>1. group[u][v] \in Seq(Messages) /\ group \in [Tabs -> [Tabs -> Seq(Messages)]]
  BY DEF TypeOK
<1>2. Tail(group[u][v]) \in Seq(Messages) /\ Head(group[u][v]) \in Messages
  BY <1>1
<1> QED
  BY <1>1, <1>2 DEF Heard

\* A tab that has gone hears nothing more.
LEMMA DeafenEffect ==
    ASSUME TypeOK, NEW u \in Tabs
    PROVE  /\ Deafen(group, u) \in [Tabs -> [Tabs -> Seq(Messages)]]
           /\ \A s, t \in Tabs :
                Deafen(group, u)[s][t] = IF t = u THEN <<>> ELSE group[s][t]
<1>1. group \in [Tabs -> [Tabs -> Seq(Messages)]]
  BY DEF TypeOK
<1>2. <<>> \in Seq(Messages)
  OBVIOUS
<1>3. \A s \in Tabs : [group[s] EXCEPT ![u] = <<>>] \in [Tabs -> Seq(Messages)]
  BY <1>1, <1>2
<1> QED
  BY <1>1, <1>3 DEF Deafen

-----------------------------------------------------------------------------
(* How requests move. *)

\* `entries` and `waiting` are what becomes of a tab's log and of the requests it waits
\* for when some of these end without an answer and new ones join.
Unanswered == {"UNKNOWN", "TERMINAL", "LEADER_CHANGED"}
Succeeds(t, entries, waiting) ==
    /\ entries \in Seq(Entries)
    /\ DOMAIN log[t] \subseteq DOMAIN entries
    /\ DOMAIN waiting \subseteq DOMAIN entries
    /\ \A n \in DOMAIN log[t] :
         /\ entries[n].kind = log[t][n].kind /\ entries[n].tx = log[t][n].tx
         /\ entries[n].ran = log[t][n].ran
         /\ entries[n].outcome \in {log[t][n].outcome} \cup Unanswered
    /\ \A n \in DOMAIN entries \ DOMAIN log[t] :
         entries[n].ran = <<>> /\ entries[n].outcome \in {"waiting", "TERMINAL"}
    /\ \A n \in DOMAIN waiting :
         /\ waiting[n] \in Nat
         /\ entries[n].outcome = "waiting"
         /\ \/ n \in DOMAIN pending[t] /\ waiting[n] = pending[t][n]
            \/ n \notin DOMAIN log[t] /\ waiting[n] = NoEpoch

\* Request `n` of tab `t` has yet to be sent to an owner.
IsUnsent(t, n) ==
    (n \in DOMAIN pending[t] /\ pending[t][n] = NoEpoch) \/ n \notin DOMAIN log[t]

\* What every step but those of an owner that serves and of its answers does to requests.
RequestsMove ==
    /\ log' \in [Tabs -> Seq(Entries)]
    /\ DOMAIN pending' = Tabs
    /\ routed \subseteq routed' /\ routed' \subseteq RoutedRequests
    /\ \A t \in Tabs :
         /\ DOMAIN log[t] \subseteq DOMAIN log'[t]
         /\ DOMAIN pending'[t] \subseteq DOMAIN log'[t]
         /\ \A n \in DOMAIN log[t] :
              /\ log'[t][n].kind = log[t][n].kind /\ log'[t][n].tx = log[t][n].tx
              /\ log'[t][n].ran = log[t][n].ran
              /\ \/ log'[t][n].outcome \in {log[t][n].outcome} \cup Unanswered
                 \/ log'[t][n].outcome = "TRANSACTION_LOST" /\ IsUnsent(t, n)
         /\ \A n \in DOMAIN log'[t] \ DOMAIN log[t] :
              /\ log'[t][n].ran = <<>>
              /\ log'[t][n].outcome \in {"waiting", "TERMINAL", "TRANSACTION_LOST"}
         /\ \A n \in DOMAIN pending'[t] :
              /\ pending'[t][n] \in Nat
              /\ log'[t][n].outcome = "waiting"
              /\ n \in DOMAIN pending[t] \/ n \notin DOMAIN log[t]
              /\ pending'[t][n] = NoEpoch =>
                   IsUnsent(t, n) /\ \A r \in routed' \ routed : <<r.tab, r.n>> # <<t, n>>
    /\ \A r \in routed' \ routed :
         /\ r.n \in DOMAIN pending'[r.tab]
         /\ IsUnsent(r.tab, r.n)
         /\ log'[r.tab][r.n].tx \in {NoEpoch, r.epoch}
         /\ r.epoch # NoEpoch /\ OwnedBy(r.epoch, r.tab) /\ log[r.tab] # <<>>
    /\ \A r, q \in routed' \ routed : r.tab = q.tab /\ r.n = q.n => r = q

\* Requests of one tab end or join, and nothing is sent.
LEMMA UnsentMove ==
    ASSUME TypeOK, NEW t \in Tabs, NEW entries, NEW waiting, Succeeds(t, entries, waiting),
           log' = [log EXCEPT ![t] = entries], routed' = routed,
           \/ pending' = [pending EXCEPT ![t] = waiting]
           \/ pending' = pending /\ waiting = pending[t],
           \A s \in Tabs : \A n \in DOMAIN pending[s] : log[s][n].outcome = "waiting"
    PROVE  RequestsMove
<1>1. log \in [Tabs -> Seq(Entries)] /\ DOMAIN pending = Tabs /\ routed \subseteq RoutedRequests
  BY DEF TypeOK
<1>2. \A s \in Tabs : /\ log'[s] = IF s = t THEN entries ELSE log[s]
                      /\ pending'[s] = IF s = t THEN waiting ELSE pending[s]
  BY <1>1
<1>3. log' \in [Tabs -> Seq(Entries)] /\ DOMAIN pending' = Tabs
  BY <1>1 DEF Succeeds
<1>4. \A s \in Tabs : /\ DOMAIN pending[s] \subseteq DOMAIN log[s]
                      /\ \A n \in DOMAIN pending[s] : pending[s][n] \in Nat
  BY DEF TypeOK
<1> QED
  BY <1>1, <1>2, <1>3, <1>4 DEF RequestsMove, Succeeds, IsUnsent

\* Dispatch: what is due is sent to the owner, or has lost its transaction.
LEMMA DispatchMove ==
    ASSUME TypeOK, NEW t \in Tabs, NEW entries, NEW waiting, NEW m, NEW may \in BOOLEAN,
           Succeeds(t, entries, waiting), m.epoch \in Nat,
           may => m.epoch # NoEpoch /\ OwnedBy(m.epoch, t) /\ log[t] # <<>>,
           Dispatch(t, waiting, entries, m, may),
           \A s \in Tabs : \A n \in DOMAIN pending[s] : log[s][n].outcome = "waiting"
    PROVE  RequestsMove
<1> DEFINE due == {n \in DOMAIN waiting : may /\ MayDispatch(waiting, n)}
           lost == {n \in due : IsLost(entries[n], m.epoch)}
           sent == due \ lost
           new == {[tab |-> t, n |-> n, epoch |-> m.epoch] : n \in sent}
           kept == [n \in DOMAIN waiting \ lost |-> IF n \in sent THEN m.epoch ELSE waiting[n]]
           after == Settled(entries, lost, "TRANSACTION_LOST")
<1>1. log \in [Tabs -> Seq(Entries)] /\ DOMAIN pending = Tabs /\ routed \subseteq RoutedRequests
  BY DEF TypeOK
<1>2. \A s \in Tabs : /\ DOMAIN pending[s] \subseteq DOMAIN log[s]
                      /\ \A n \in DOMAIN pending[s] : pending[s][n] \in Nat
  BY DEF TypeOK
<1>3. /\ pending' = [pending EXCEPT ![t] = kept]
      /\ routed' = routed \cup new
      /\ log' = [log EXCEPT ![t] = after]
  BY DEF Dispatch
<1>4. \A n \in due : n \in DOMAIN waiting /\ waiting[n] = NoEpoch /\ may
  BY DEF MayDispatch
<1>5. \A n \in sent : entries[n].tx \in {NoEpoch, m.epoch}
  BY DEF IsLost
<1>6. /\ after \in Seq(Entries) /\ DOMAIN after = DOMAIN entries
      /\ \A n \in DOMAIN entries :
           /\ after[n].kind = entries[n].kind /\ after[n].tx = entries[n].tx
           /\ after[n].ran = entries[n].ran
           /\ after[n].outcome = IF n \in lost THEN "TRANSACTION_LOST" ELSE entries[n].outcome
  <2>1. entries \in Seq(Entries) /\ "TRANSACTION_LOST" \in Outcomes
    BY DEF Succeeds, Outcomes
  <2> QED
    BY <2>1, SettledEffect
<1>7. /\ DOMAIN kept = DOMAIN waiting \ lost
      /\ \A n \in DOMAIN kept : kept[n] = IF n \in sent THEN m.epoch ELSE waiting[n]
  OBVIOUS
<1>8. \A n \in lost : n \in due
  OBVIOUS
<1>9. \A n \in sent : n \in due /\ n \in DOMAIN kept
  BY <1>4
<1>10. \A r \in new : r \in RoutedRequests /\ r.tab = t /\ r.epoch = m.epoch /\ r.n \in sent
  <2>1. \A n \in sent : n \in Nat
    BY <1>1, <1>4 DEF Succeeds
  <2> QED
    BY <2>1 DEF RoutedRequests
<1>11. \A r, q \in new : r.n = q.n => r = q
  OBVIOUS
<1> HIDE DEF due, lost, sent, new, kept, after
<1>12. \A s \in Tabs : /\ log'[s] = IF s = t THEN after ELSE log[s]
                       /\ pending'[s] = IF s = t THEN kept ELSE pending[s]
  BY <1>1, <1>3
<1>13. log' \in [Tabs -> Seq(Entries)] /\ DOMAIN pending' = Tabs
  BY <1>1, <1>3, <1>6
<1>14. \A n \in due : IsUnsent(t, n)
  BY <1>4 DEF IsUnsent, Succeeds
<1>15. routed \subseteq routed' /\ routed' \subseteq RoutedRequests
  BY <1>1, <1>3, <1>10
<1>16. ASSUME NEW s \in Tabs, s # t
       PROVE  /\ log'[s] = log[s] /\ pending'[s] = pending[s]
              /\ \A r \in routed' \ routed : r.tab # s
  BY <1>3, <1>10, <1>12, <1>16
<1>17. /\ DOMAIN log[t] \subseteq DOMAIN log'[t]
       /\ DOMAIN pending'[t] \subseteq DOMAIN log'[t]
       /\ \A n \in DOMAIN log[t] :
              /\ log'[t][n].kind = log[t][n].kind /\ log'[t][n].tx = log[t][n].tx
              /\ log'[t][n].ran = log[t][n].ran
              /\ \/ log'[t][n].outcome \in {log[t][n].outcome} \cup Unanswered
                 \/ log'[t][n].outcome = "TRANSACTION_LOST" /\ IsUnsent(t, n)
       /\ \A n \in DOMAIN log'[t] \ DOMAIN log[t] :
              /\ log'[t][n].ran = <<>>
              /\ log'[t][n].outcome \in {"waiting", "TERMINAL", "TRANSACTION_LOST"}
  BY <1>6, <1>7, <1>8, <1>12, <1>14 DEF Succeeds
<1>18. ASSUME NEW n \in DOMAIN pending'[t]
       PROVE  /\ pending'[t][n] \in Nat
              /\ log'[t][n].outcome = "waiting"
              /\ n \in DOMAIN pending[t] \/ n \notin DOMAIN log[t]
              /\ pending'[t][n] = NoEpoch =>
                   IsUnsent(t, n) /\ \A r \in routed' \ routed : <<r.tab, r.n>> # <<t, n>>
  BY <1>3, <1>4, <1>6, <1>7, <1>9, <1>10, <1>12 DEF Succeeds, IsUnsent
<1>19. ASSUME NEW r \in routed' \ routed
       PROVE  /\ r.tab = t
              /\ r.n \in DOMAIN pending'[r.tab]
              /\ IsUnsent(r.tab, r.n)
              /\ log'[r.tab][r.n].tx \in {NoEpoch, r.epoch}
              /\ r.epoch # NoEpoch /\ OwnedBy(r.epoch, r.tab) /\ log[r.tab] # <<>>
  <2>1. r.tab = t /\ r.epoch = m.epoch /\ r.n \in sent
    BY <1>3, <1>10
  <2>2. r.n \in due /\ r.n \in DOMAIN kept /\ r.n \in DOMAIN entries
    BY <2>1, <1>4, <1>9 DEF Succeeds
  <2>3. may
    BY <2>2, <1>4
  <2>4. log'[t][r.n].tx = entries[r.n].tx
    BY <2>2, <1>6, <1>12
  <2> QED
    BY <2>1, <2>2, <2>3, <2>4, <1>5, <1>12, <1>14
<1>20. \A r, q \in routed' \ routed : r.tab = q.tab /\ r.n = q.n => r = q
  BY <1>3, <1>11
<1> QED
  BY <1>2, <1>13, <1>15, <1>16, <1>17, <1>18, <1>19, <1>20 DEF RequestsMove, IsUnsent

\* The owner that a tab goes by, once it is ready, is one of the tab's own release.
LEMMA ReadyLeader ==
    ASSUME IInv, NEW t \in Tabs
    PROVE  /\ leader[t].epoch \in Nat /\ leader[t].ready \in BOOLEAN
           /\ (tab[t].joined /\ leader[t].ready) \in BOOLEAN
           /\ leader[t].ready =>
                leader[t].epoch # NoEpoch /\ OwnedBy(leader[t].epoch, t) /\ log[t] # <<>>
<1>1. leader[t] \in Announcements /\ tab[t] \in TabStates
  BY DEF IInv, TypeOK
<1>2. leader[t] = NoLeader \/ (IsTrue(leader[t]) /\ leader[t].release = tab[t].release)
  BY DEF IInv, AnnouncementInv
<1>3. log[t] = <<>> => leader[t] = NoLeader
  BY DEF IInv, UnstartedInv
<1> QED
  BY <1>1, <1>2, <1>3 DEF Announcements, TabStates, IsTrue, OwnedBy, NoLeader

\* What is known of the requests of one tab.
LEMMA TabRequests ==
    ASSUME IInv, NEW t \in Tabs
    PROVE  /\ log[t] \in Seq(Entries) /\ Len(log[t]) \in Nat
           /\ DOMAIN log[t] = 1 .. Len(log[t])
           /\ DOMAIN pending[t] \subseteq DOMAIN log[t]
           /\ \A n \in DOMAIN pending[t] : pending[t][n] \in Nat
           /\ \A s \in Tabs : \A n \in DOMAIN pending[s] : log[s][n].outcome = "waiting"
<1>1. log[t] \in Seq(Entries)
  BY DEF IInv, TypeOK
<1>2. Len(log[t]) \in Nat /\ DOMAIN log[t] = 1 .. Len(log[t])
  BY <1>1
<1> QED
  BY <1>1, <1>2 DEF IInv, TypeOK, RequestInv

\* Nothing happens to any request.
LEMMA StillMove ==
    ASSUME IInv, UNCHANGED <<log, pending, routed>>
    PROVE  RequestsMove
<1>1. /\ log \in [Tabs -> Seq(Entries)] /\ DOMAIN pending = Tabs
      /\ routed \subseteq RoutedRequests
  BY DEF IInv, TypeOK
<1>2. \A t \in Tabs : /\ DOMAIN pending[t] \subseteq DOMAIN log[t]
                      /\ \A n \in DOMAIN pending[t] : /\ pending[t][n] \in Nat
                                                     /\ log[t][n].outcome = "waiting"
  BY DEF IInv, TypeOK, RequestInv
<1> QED
  BY <1>1, <1>2 DEF RequestsMove, IsUnsent

\* A request joins those that wait.
LEMMA EnqueueMove ==
    ASSUME IInv, NEW t \in Tabs, NEW request \in Entries,
           request.ran = <<>>, request.outcome = "waiting",
           Enqueue(t, request)
    PROVE  RequestsMove
<1> DEFINE k == Len(log[t]) + 1
           waiting == [i \in DOMAIN pending[t] \cup {k} |->
                         IF i = k THEN NoEpoch ELSE pending[t][i]]
           entries == Append(log[t], request)
           may == tab[t].joined /\ leader[t].ready
<1>1. Dispatch(t, waiting, entries, leader[t], may)
  BY DEF Enqueue
<1>2. entries \in Seq(Entries) /\ DOMAIN entries = 1 .. k
  BY TabRequests
<1>3. /\ \A n \in DOMAIN log[t] : entries[n] = log[t][n]
      /\ entries[k] = request /\ k \notin DOMAIN log[t]
      /\ DOMAIN log[t] \subseteq DOMAIN entries
      /\ DOMAIN entries \ DOMAIN log[t] = {k}
  BY <1>2, TabRequests
<1>4. Succeeds(t, entries, waiting)
  <2>1. /\ DOMAIN waiting = DOMAIN pending[t] \cup {k}
        /\ \A n \in DOMAIN waiting : waiting[n] = IF n = k THEN NoEpoch ELSE pending[t][n]
    OBVIOUS
  <2> HIDE DEF entries, waiting, k
  <2> QED
    BY <1>2, <1>3, <2>1, TabRequests DEF Succeeds, NoEpoch
<1> HIDE DEF entries, waiting, may
<1>5. /\ may \in BOOLEAN
      /\ may => leader[t].epoch # NoEpoch /\ OwnedBy(leader[t].epoch, t) /\ log[t] # <<>>
  BY ReadyLeader DEF may
<1>6. leader[t].epoch \in Nat /\ TypeOK
  BY ReadyLeader DEF IInv
<1> QED
  BY <1>1, <1>4, <1>5, <1>6, TabRequests, DispatchMove

\* A tab ends the requests it waits for without an answer.
LEMMA GiveUp ==
    ASSUME IInv, NEW t \in Tabs, NEW ids, NEW o1 \in Unanswered, NEW o2 \in Unanswered,
           NEW others
    PROVE  /\ Succeeds(t, Settled(log[t], ids, o1), <<>>)
           /\ Succeeds(t, Settled(Settled(log[t], ids, o1), others, o2), <<>>)
<1>1. o1 \in Outcomes /\ o2 \in Outcomes
  BY DEF Unanswered, Outcomes
<1>2. log[t] \in Seq(Entries)
  BY TabRequests
<1> DEFINE e == Settled(log[t], ids, o1)
           f == Settled(e, others, o2)
<1>3. /\ e \in Seq(Entries) /\ DOMAIN e = DOMAIN log[t]
      /\ \A n \in DOMAIN log[t] :
           /\ e[n].kind = log[t][n].kind /\ e[n].tx = log[t][n].tx /\ e[n].ran = log[t][n].ran
           /\ e[n].outcome = IF n \in ids THEN o1 ELSE log[t][n].outcome
  BY <1>1, <1>2, SettledEffect
<1> HIDE DEF e
<1>4. /\ f \in Seq(Entries) /\ DOMAIN f = DOMAIN e
      /\ \A n \in DOMAIN e :
           /\ f[n].kind = e[n].kind /\ f[n].tx = e[n].tx /\ f[n].ran = e[n].ran
           /\ f[n].outcome = IF n \in others THEN o2 ELSE e[n].outcome
  BY <1>1, <1>3, SettledEffect
<1> HIDE DEF f
<1>5. Succeeds(t, e, <<>>)
  BY <1>3 DEF Succeeds
<1>6. Succeeds(t, f, <<>>)
  BY <1>3, <1>4 DEF Succeeds
<1> QED
  BY <1>5, <1>6 DEF e, f

\* announce(): requests in doubt end, and the others go to an owner that is ready.
LEMMA AnnounceMove ==
    ASSUME IInv, NEW t \in Tabs, NEW m \in Announcements,
           m.epoch # NoEpoch, log[t] # <<>>,
           m.ready /\ m.release = tab[t].release => OwnedBy(m.epoch, t),
           Announce(t, m)
    PROVE  RequestsMove
<1>1. CASE tab[t].closed
  <2>1. UNCHANGED <<log, pending, routed>>
    BY <1>1 DEF Announce
  <2> QED
    BY <2>1, StillMove
<1>2. CASE ~tab[t].closed /\ Mismatched(t, m)
  <2> DEFINE e == Settled(Settled(log[t], Dispatched(t), "LEADER_CHANGED"),
                          DOMAIN pending[t] \ Dispatched(t), "TERMINAL")
  <2>1. /\ log' = [log EXCEPT ![t] = e] /\ pending' = [pending EXCEPT ![t] = <<>>]
        /\ routed' = routed
    BY <1>2 DEF Announce, AnnounceMismatch
  <2>2. Succeeds(t, e, <<>>)
    BY GiveUp DEF Unanswered
  <2> HIDE DEF e
  <2> QED
    BY <2>1, <2>2, TabRequests, UnsentMove DEF IInv
<1>3. CASE ~tab[t].closed /\ ~Mismatched(t, m)
  <2> DEFINE ids == InDoubt(t, leader[t].epoch # m.epoch)
             waiting == Drop(pending[t], ids)
             entries == Settled(log[t], ids, "LEADER_CHANGED")
             may == tab[t].joined /\ m.ready
  <2>1. Dispatch(t, waiting, entries, m, may)
    BY <1>3 DEF Announce, AnnounceLeader
  <2>2. /\ entries \in Seq(Entries) /\ DOMAIN entries = DOMAIN log[t]
        /\ \A n \in DOMAIN log[t] :
             /\ entries[n].kind = log[t][n].kind /\ entries[n].tx = log[t][n].tx
             /\ entries[n].ran = log[t][n].ran
             /\ entries[n].outcome = IF n \in ids THEN "LEADER_CHANGED" ELSE log[t][n].outcome
    <3>1. "LEADER_CHANGED" \in Outcomes
      BY DEF Outcomes
    <3> QED
      BY <3>1, TabRequests, SettledEffect
  <2>3. /\ DOMAIN waiting = DOMAIN pending[t] \ ids
        /\ \A n \in DOMAIN waiting : waiting[n] = pending[t][n]
    BY DEF Drop
  <2> HIDE DEF ids, waiting, entries
  <2>4. Succeeds(t, entries, waiting)
    BY <2>2, <2>3, TabRequests DEF Succeeds, Unanswered
  <2>5. may \in BOOLEAN /\ m.epoch \in Nat
    <3>1. tab[t] \in TabStates
      BY DEF IInv, TypeOK
    <3> QED
      BY <3>1 DEF Announcements, TabStates
  <2>6. may => m.epoch # NoEpoch /\ OwnedBy(m.epoch, t) /\ log[t] # <<>>
    BY <1>3 DEF Mismatched
  <2> HIDE DEF may
  <2>7. TypeOK
    BY DEF IInv
  <2> QED
    BY <2>1, <2>4, <2>5, <2>6, <2>7, TabRequests, DispatchMove
<1> QED
  BY <1>1, <1>2, <1>3

\* A failure ends whatever the tab waits for.
LEMMA TerminateMove ==
    ASSUME IInv, NEW t \in Tabs, Terminate(t), routed' = routed
    PROVE  RequestsMove
<1> DEFINE e == Settled(log[t], DOMAIN pending[t], "TERMINAL")
<1>1. log' = [log EXCEPT ![t] = e] /\ pending' = [pending EXCEPT ![t] = <<>>]
  BY DEF Terminate
<1>2. Succeeds(t, e, <<>>)
  BY GiveUp DEF Unanswered
<1> HIDE DEF e
<1> QED
  BY <1>1, <1>2, TabRequests, UnsentMove DEF IInv

\* What a page asks for, and the transactions it may name.
LEMMA RequestTypes ==
    ASSUME IInv, NEW t \in Tabs
    PROVE  /\ \A kind \in Kinds : kind \in EntryKinds
           /\ \A kind \in EntryKinds, tx \in Nat :
                /\ Request(kind, tx) \in Entries
                /\ Request(kind, tx).kind = kind /\ Request(kind, tx).tx = tx
                /\ Request(kind, tx).ran = <<>> /\ Request(kind, tx).outcome = "waiting"
           /\ TransactionsOf(t) \subseteq Nat
<1>1. Kinds \subseteq {"write", "begin", "inTransaction"}
  BY CoordinatorAssumption DEF IInv, TypeOK, Kinds
<1>2. <<>> \in Seq(Nat)
  OBVIOUS
<1>3. ASSUME NEW kind \in EntryKinds, NEW tx \in Nat
      PROVE  /\ Request(kind, tx) \in Entries
             /\ Request(kind, tx).kind = kind /\ Request(kind, tx).tx = tx
             /\ Request(kind, tx).ran = <<>> /\ Request(kind, tx).outcome = "waiting"
  BY <1>2 DEF Request, Entries, Outcomes
<1>4. ASSUME NEW n \in DOMAIN log[t], log[t][n].kind = "begin", log[t][n].outcome = "OK"
      PROVE  log[t][n].ran[1] \in Nat
  <2>1. log[t][n] \in Entries
    BY TabRequests
  <2>2. Len(log[t][n].ran) = 1
    <3>1. <<t, n>> \in Asked /\ At(<<t, n>>) = log[t][n]
      BY DEF Asked, At
    <3> QED
      BY <3>1, <1>4 DEF IInv, RunsAtMostOnce
  <2>3. log[t][n].ran \in Seq(Nat)
    BY <2>1 DEF Entries
  <2> QED
    BY <2>2, <2>3
<1> QED
  BY <1>1, <1>3, <1>4 DEF TransactionsOf, EntryKinds

\* An announcement in a tab's queue of pictures is one of its owner.
LEMMA PictureIsTrue ==
    ASSUME IInv, NEW t \in Tabs, queries[t] # <<>>
    PROVE  /\ Head(queries[t]) \in Announcements
           /\ IsTrue(Head(queries[t]))
           /\ Head(queries[t]).release = tab[t].release => OwnedBy(Head(queries[t]).epoch, t)
           /\ log[t] # <<>>
<1>1. queries[t] \in Seq(Announcements)
  BY DEF IInv, TypeOK
<1>2. Head(queries[t]) = queries[t][1] /\ 1 \in DOMAIN queries[t]
  BY <1>1
<1>3. IsTrue(queries[t][1])
  BY <1>2 DEF IInv, AnnouncementInv
<1>4. log[t] # <<>>
  BY DEF IInv, UnstartedInv
<1> QED
  BY <1>1, <1>2, <1>3, <1>4 DEF IsTrue, OwnedBy

\* What a page asks for moves requests: it starts its Worker, asks, closes.
LEMMA AskingMoves ==
    ASSUME IInv, NEW t \in Tabs,
           \/ Start(t) \/ CloseByOwner(t) \/ CloseAlone(t)
           \/ \E kind \in Kinds : Submit(t, kind) \/ SubmitRefused(t, kind)
    PROVE  RequestsMove /\ UNCHANGED replies
<1>1. CASE Start(t)
  <2> DEFINE e == <<Request("init", NoEpoch)>>
             w == <<NoEpoch>>
  <2>1. /\ log[t] = <<>> /\ log' = [log EXCEPT ![t] = e] /\ pending' = [pending EXCEPT ![t] = w]
        /\ UNCHANGED <<routed, replies>>
    BY <1>1 DEF Start
  <2>2. /\ Request("init", NoEpoch) \in Entries /\ Request("init", NoEpoch).ran = <<>>
        /\ Request("init", NoEpoch).outcome = "waiting"
    BY RequestTypes DEF EntryKinds, NoEpoch
  <2>3. e \in Seq(Entries) /\ DOMAIN e = {1} /\ e[1] = Request("init", NoEpoch)
    BY <2>2
  <2>4. DOMAIN w = {1} /\ w[1] = NoEpoch /\ NoEpoch \in Nat
    BY DEF NoEpoch
  <2>5. DOMAIN log[t] = {}
    BY <2>1
  <2> HIDE DEF e, w
  <2>6. Succeeds(t, e, w)
    BY <2>2, <2>3, <2>4, <2>5 DEF Succeeds
  <2> QED
    BY <2>1, <2>6, TabRequests, UnsentMove DEF IInv
<1>2. CASE CloseByOwner(t)
  <2>1. /\ Request("close", NoEpoch) \in Entries /\ Request("close", NoEpoch).ran = <<>>
        /\ Request("close", NoEpoch).outcome = "waiting"
    BY RequestTypes DEF EntryKinds, NoEpoch
  <2>2. Enqueue(t, Request("close", NoEpoch))
    BY <1>2 DEF CloseByOwner
  <2> QED
    BY <2>1, <2>2, EnqueueMove DEF Enqueue
<1>3. CASE CloseAlone(t)
  <2> DEFINE q == Request("close", NoEpoch)
             e == Append(log[t], q)
  <2>1. q \in Entries /\ q.ran = <<>> /\ q.outcome = "waiting"
    BY RequestTypes DEF EntryKinds, NoEpoch
  <2> HIDE DEF q
  <2>2. log' = [log EXCEPT ![t] = e] /\ UNCHANGED <<pending, routed, replies>>
    BY <1>3 DEF CloseAlone, q
  <2>3. /\ e \in Seq(Entries) /\ DOMAIN log[t] \subseteq DOMAIN e
        /\ \A n \in DOMAIN log[t] : e[n] = log[t][n]
        /\ \A n \in DOMAIN e \ DOMAIN log[t] : e[n] = q
    BY <2>1, TabRequests
  <2> HIDE DEF e
  <2>4. Succeeds(t, e, pending[t])
    BY <2>1, <2>3, TabRequests DEF Succeeds
  <2> QED
    BY <2>2, <2>4, TabRequests, UnsentMove DEF IInv
<1>4. ASSUME NEW kind \in Kinds, Submit(t, kind)
      PROVE  RequestsMove /\ UNCHANGED replies
  <2>1. PICK tx \in Nat : Enqueue(t, Request(kind, tx))
    BY <1>4, RequestTypes DEF Submit, NoEpoch
  <2>2. /\ Request(kind, tx) \in Entries /\ Request(kind, tx).ran = <<>>
        /\ Request(kind, tx).outcome = "waiting"
    BY RequestTypes
  <2> QED
    BY <2>1, <2>2, EnqueueMove DEF Enqueue
<1>5. ASSUME NEW kind \in Kinds, SubmitRefused(t, kind)
      PROVE  RequestsMove /\ UNCHANGED replies
  <2> DEFINE q == [Request(kind, NoEpoch) EXCEPT !.outcome = "TERMINAL"]
             e == Append(log[t], q)
  <2>1. q \in Entries /\ q.ran = <<>> /\ q.outcome = "TERMINAL"
    <3>1. Request(kind, NoEpoch) \in Entries /\ Request(kind, NoEpoch).ran = <<>>
      BY RequestTypes DEF NoEpoch
    <3> QED
      BY <3>1 DEF Entries, Outcomes
  <2> HIDE DEF q
  <2>2. log' = [log EXCEPT ![t] = e] /\ UNCHANGED <<pending, routed, replies>>
    BY <1>5 DEF SubmitRefused, q
  <2>3. /\ e \in Seq(Entries) /\ DOMAIN log[t] \subseteq DOMAIN e
        /\ \A n \in DOMAIN log[t] : e[n] = log[t][n]
        /\ \A n \in DOMAIN e \ DOMAIN log[t] : e[n] = q
    BY <2>1, TabRequests
  <2> HIDE DEF e
  <2>4. Succeeds(t, e, pending[t])
    BY <2>1, <2>3, TabRequests DEF Succeeds
  <2> QED
    BY <2>2, <2>4, TabRequests, UnsentMove DEF IInv
<1> QED
  BY <1>1, <1>2, <1>3, <1>4, <1>5

\* So does what a Worker does, but for the owner's answers and the end of a tab.
LEMMA WorkingMoves ==
    ASSUME IInv, NEW t \in Tabs,
           \/ Join(t) \/ Begin(t) \/ Opened(t) \/ OpenFails(t) \/ QueryAnswered(t) \/ Crash(t)
           \/ \E s \in Tabs : HearFailure(s, t)
    PROVE  RequestsMove /\ UNCHANGED replies
<1>1. CASE Join(t)
  <2>1. Dispatch(t, pending[t], log[t], leader[t], leader[t].ready) /\ UNCHANGED replies
    BY <1>1 DEF Join
  <2>2. Succeeds(t, log[t], pending[t])
    BY TabRequests DEF Succeeds
  <2>3. TypeOK
    BY DEF IInv
  <2> QED
    BY <2>1, <2>2, <2>3, TabRequests, ReadyLeader, DispatchMove
<1>2. CASE Begin(t)
  <2> DEFINE m == Announcement(t, epochs', FALSE)
  <2>3. log[t] # <<>>
    BY <1>2 DEF Begin, Listening, IInv, UnstartedInv
  <2>1. m \in Announcements /\ m.epoch # NoEpoch /\ ~m.ready
    BY <1>2 DEF Begin, Announcement, Announcements, IInv, TypeOK, TabStates, Owners, NoEpoch
  <2>2. Announce(t, m) /\ UNCHANGED replies
    BY <1>2 DEF Begin
  <2> HIDE DEF m
  <2> QED
    BY <2>1, <2>2, <2>3, AnnounceMove
<1>3. CASE Opened(t)
  <2> DEFINE m == Announcement(t, owner[t].epoch, TRUE)
  <2>1. owner[t].epoch # NoEpoch
    BY <1>3 DEF Opened, IInv, EpochInv
  <2>2. m \in Announcements /\ m.epoch = owner[t].epoch
    BY DEF Announcement, Announcements, IInv, TypeOK, TabStates, Owners
  <2>3. OwnedBy(owner[t].epoch, t) /\ log[t] # <<>>
    BY <1>3 DEF OwnedBy, Opened, Listening, IInv, UnstartedInv
  <2>4. Announce(t, m) /\ UNCHANGED replies
    BY <1>3 DEF Opened
  <2> HIDE DEF m
  <2> QED
    BY <2>1, <2>2, <2>3, <2>4, AnnounceMove
<1>4. CASE OpenFails(t)
  <2>1. Terminate(t) /\ UNCHANGED <<routed, replies>>
    BY <1>4 DEF OpenFails
  <2> QED
    BY <2>1, TerminateMove
<1>5. CASE QueryAnswered(t)
  <2>1. queries[t] # <<>> /\ Announce(t, Head(queries[t])) /\ UNCHANGED replies
    BY <1>5 DEF QueryAnswered
  <2>2. Head(queries[t]).epoch # NoEpoch
    BY <2>1, PictureIsTrue DEF IsTrue
  <2> QED
    BY <2>1, <2>2, PictureIsTrue, AnnounceMove
<1>6. CASE Crash(t)
  <2>1. pending' = [pending EXCEPT ![t] = <<>>] /\ UNCHANGED <<log, routed, replies>>
    BY <1>6 DEF Crash
  <2>2. log' = [log EXCEPT ![t] = log[t]]
    BY <2>1 DEF IInv, TypeOK
  <2>3. Succeeds(t, log[t], <<>>)
    BY TabRequests DEF Succeeds
  <2> QED
    BY <2>1, <2>2, <2>3, TabRequests, UnsentMove DEF IInv
<1>7. ASSUME NEW s \in Tabs, HearFailure(s, t)
      PROVE  RequestsMove /\ UNCHANGED replies
  <2>1. UNCHANGED <<routed, replies>> /\ (Terminate(t) \/ UNCHANGED <<tab, log, pending>>)
    BY <1>7 DEF HearFailure
  <2> QED
    BY <2>1, TerminateMove, StillMove
<1> QED
  BY <1>1, <1>2, <1>3, <1>4, <1>5, <1>6, <1>7

-----------------------------------------------------------------------------
(* Types are preserved. *)

\* What a tab keeps through every announcement and every failure.
SameTabs ==
    /\ tab' \in [Tabs -> TabStates]
    /\ \A t \in Tabs :
         /\ tab'[t].here = tab[t].here /\ tab'[t].joined = tab[t].joined
         /\ tab'[t].closed = tab[t].closed /\ tab'[t].initialized = tab[t].initialized
         /\ tab'[t].release = tab[t].release

\* No flag changes.
LEMMA StillTabs ==
    ASSUME TypeOK, UNCHANGED tab
    PROVE  SameTabs
  BY DEF TypeOK, SameTabs

\* A tab beyond repair keeps its other flags.
LEMMA TerminateEffect ==
    ASSUME TypeOK, NEW t \in Tabs, tab' = [tab EXCEPT ![t].terminal = TRUE]
    PROVE  SameTabs
<1> DEFINE x == [tab[t] EXCEPT !.terminal = TRUE]
<1>1. tab \in [Tabs -> TabStates]
  BY DEF TypeOK
<1>2. tab[t] \in TabStates /\ tab' = [tab EXCEPT ![t] = x]
  BY <1>1
<1>3. /\ x \in TabStates /\ x.here = tab[t].here /\ x.joined = tab[t].joined
      /\ x.closed = tab[t].closed /\ x.initialized = tab[t].initialized
      /\ x.release = tab[t].release
  BY <1>2 DEF TabStates
<1> HIDE DEF x
<1> QED
  BY <1>1, <1>2, <1>3 DEF SameTabs

\* A change to one of the flags of a tab.
LEMMA FlagEffect ==
    ASSUME TypeOK, NEW t \in Tabs, NEW x \in BOOLEAN,
           \/ tab' = [tab EXCEPT ![t].refreshRequested = x]
           \/ tab' = [tab EXCEPT ![t].joined = x]
           \/ tab' = [tab EXCEPT ![t].initialized = x]
           \/ tab' = [tab EXCEPT ![t].here = x]
    PROVE  /\ tab' \in [Tabs -> TabStates]
           /\ \A s \in Tabs : tab'[s].release = tab[s].release
           /\ \A s \in Tabs : s # t => tab'[s] = tab[s]
<1>1. tab \in [Tabs -> TabStates] /\ tab[t] \in TabStates
  BY DEF TypeOK
<1>2. PICK y : /\ tab' = [tab EXCEPT ![t] = y]
               /\ \/ y = [tab[t] EXCEPT !.refreshRequested = x]
                  \/ y = [tab[t] EXCEPT !.joined = x]
                  \/ y = [tab[t] EXCEPT !.initialized = x]
                  \/ y = [tab[t] EXCEPT !.here = x]
  OBVIOUS
<1>3. y \in TabStates /\ y.release = tab[t].release
  BY <1>1, <1>2 DEF TabStates
<1> QED
  BY <1>1, <1>2, <1>3

\* An answer to init is all that changes a tab's `initialized`.
LEMMA InitializedEffect ==
    ASSUME TypeOK, NEW t \in Tabs, NEW x \in BOOLEAN,
           tab' = [tab EXCEPT ![t].initialized = x]
    PROVE  /\ tab' \in [Tabs -> TabStates]
           /\ \A s \in Tabs : s # t => tab'[s] = tab[s]
           /\ \A s \in Tabs :
                /\ tab'[s].here = tab[s].here /\ tab'[s].joined = tab[s].joined
                /\ tab'[s].closed = tab[s].closed /\ tab'[s].release = tab[s].release
                /\ tab'[s].terminal = tab[s].terminal
                /\ tab'[s].refreshRequested = tab[s].refreshRequested
<1>1. tab \in [Tabs -> TabStates] /\ tab[t] \in TabStates
  BY DEF TypeOK
<1> DEFINE y == [tab[t] EXCEPT !.initialized = x]
<1>2. tab' = [tab EXCEPT ![t] = y]
  BY <1>1
<1>3. /\ y \in TabStates /\ y.here = tab[t].here /\ y.joined = tab[t].joined
      /\ y.closed = tab[t].closed /\ y.release = tab[t].release
      /\ y.terminal = tab[t].terminal /\ y.refreshRequested = tab[t].refreshRequested
  BY <1>1 DEF TabStates
<1> HIDE DEF y
<1> QED
  BY <1>1, <1>2, <1>3

\* An announcement that a tab goes by is of the tab's release.
LEMMA AnnounceEffect ==
    ASSUME TypeOK, NEW t \in Tabs, NEW m \in Announcements, Announce(t, m)
    PROVE  /\ SameTabs
           /\ leader' \in [Tabs -> Announcements]
           /\ told' \in [Tabs -> Nat]
           /\ \A s \in Tabs : s # t => leader'[s] = leader[s]
           /\ leader'[t] = leader[t] \/ (leader'[t] = m /\ m.release = tab[t].release)
           /\ ~tab[t].closed /\ m.release = tab[t].release => leader'[t] = m
<1>1. /\ tab \in [Tabs -> TabStates] /\ leader \in [Tabs -> Announcements]
      /\ told \in [Tabs -> Nat] /\ revision \in Nat
  BY DEF TypeOK
<1>2. CASE tab[t].closed
  BY <1>1, <1>2, StillTabs DEF Announce
<1>3. CASE ~tab[t].closed /\ Mismatched(t, m)
  <2>1. tab' = [tab EXCEPT ![t].terminal = TRUE] /\ UNCHANGED <<leader, told>>
    BY <1>3 DEF Announce, AnnounceMismatch
  <2> QED
    BY <1>1, <1>3, <2>1, TerminateEffect DEF Mismatched
<1>4. CASE ~tab[t].closed /\ ~Mismatched(t, m)
  <2> DEFINE changed == leader[t].epoch # m.epoch
             flag == MustRefresh(t, changed) /\ ~m.ready
  <2>1. /\ leader' = [leader EXCEPT ![t] = m]
        /\ tab' = [tab EXCEPT ![t].refreshRequested = flag]
        /\ told' = told \/ told' = [told EXCEPT ![t] = revision]
    BY <1>4 DEF Announce, AnnounceLeader
  <2>2. flag \in BOOLEAN
    BY <1>1 DEF MustRefresh, TabStates, Announcements
  <2> HIDE DEF flag
  <2>3. SameTabs
    <3> DEFINE x == [tab[t] EXCEPT !.refreshRequested = flag]
    <3>1. tab[t] \in TabStates /\ tab' = [tab EXCEPT ![t] = x]
      BY <1>1, <2>1
    <3>2. /\ x \in TabStates /\ x.here = tab[t].here /\ x.joined = tab[t].joined
          /\ x.closed = tab[t].closed /\ x.initialized = tab[t].initialized
          /\ x.release = tab[t].release
      BY <2>2, <3>1 DEF TabStates
    <3> HIDE DEF x
    <3> QED
      BY <1>1, <3>1, <3>2 DEF SameTabs
  <2> QED
    BY <1>1, <1>4, <2>1, <2>3 DEF Mismatched
<1> QED
  BY <1>2, <1>3, <1>4

\* The messages that tabs send.
LEMMA MessageTypes ==
    /\ [kind |-> "discover"] \in Messages
    /\ \A m \in Announcements : [kind |-> "leader", leader |-> m] \in Messages
    /\ \A e \in Nat : [kind |-> "failed", epoch |-> e] \in Messages
    /\ \A e, r \in Nat : [kind |-> "event", epoch |-> e, revision |-> r] \in Messages
  BY DEF Messages

\* What the parts of a broadcast are.
LEMMA HeardTypes ==
    ASSUME NEW m \in Messages
    PROVE  /\ m.kind = "leader" => m.leader \in Announcements
           /\ m.kind = "event" => m.epoch \in Nat /\ m.revision \in Nat
           /\ m.kind = "failed" => m.epoch \in Nat
  BY DEF Messages

\* The announcement of an owner.
LEMMA AnnouncementType ==
    ASSUME TypeOK, NEW t \in Tabs, NEW e \in Nat, NEW ready \in BOOLEAN
    PROVE  /\ Announcement(t, e, ready) \in Announcements
           /\ Announcement(t, e, ready).epoch = e
           /\ Announcement(t, e, ready).ready = ready
           /\ Announcement(t, e, ready).owner = t
           /\ Announcement(t, e, ready).release = tab[t].release
  BY DEF TypeOK, Announcement, Announcements, TabStates, Owners

\* The end of a tab, up to the closing of its engine.
LEMMA ShutdownEffect ==
    ASSUME IInv, NEW t \in Tabs, Shutdown(t)
    PROVE  /\ tab' \in [Tabs -> TabStates]
           /\ \A s \in Tabs :
                /\ tab'[s].here = tab[s].here /\ tab'[s].joined = tab[s].joined
                /\ tab'[s].initialized = tab[s].initialized /\ tab'[s].release = tab[s].release
                /\ s # t => tab'[s] = tab[s]
           /\ tab'[t].closed
           /\ group' \in [Tabs -> [Tabs -> Seq(Messages)]]
           /\ \A u, v \in Tabs :
                \/ group'[u][v] = group[u][v]
                \/ /\ u = t /\ v # t /\ tab[v].here /\ leader[t] # NoLeader
                   /\ group'[u][v] = Append(group[u][v], [kind |-> "leader",
                                            leader |-> [leader[t] EXCEPT !.ready = FALSE]])
           /\ waiters' \in Seq(Tabs)
           /\ \A i \in DOMAIN waiters' :
                waiters'[i] # t /\ \E j \in DOMAIN waiters : waiters'[i] = waiters[j]
           /\ \A i, j \in DOMAIN waiters' : waiters'[i] = waiters'[j] => i = j
<1>1. /\ tab \in [Tabs -> TabStates] /\ leader[t] \in Announcements /\ waiters \in Seq(Tabs)
      /\ group \in [Tabs -> [Tabs -> Seq(Messages)]]
  BY DEF IInv, TypeOK
<1>2. /\ tab' \in [Tabs -> TabStates]
      /\ \A s \in Tabs :
           /\ tab'[s].here = tab[s].here /\ tab'[s].joined = tab[s].joined
           /\ tab'[s].initialized = tab[s].initialized /\ tab'[s].release = tab[s].release
           /\ s # t => tab'[s] = tab[s]
      /\ tab'[t].closed
  BY <1>1 DEF Shutdown, TabStates
<1> DEFINE m == [kind |-> "leader", leader |-> [leader[t] EXCEPT !.ready = FALSE]]
<1>3. m \in Messages
  <2>1. [leader[t] EXCEPT !.ready = FALSE] \in Announcements
    BY <1>1 DEF Announcements
  <2> QED
    BY <2>1, MessageTypes
<1>4. group' = group \/ (leader[t] # NoLeader /\ group' = Broadcast(group, t, m))
  BY DEF Shutdown, SpeaksForOwner
<1> HIDE DEF m
<1>5. /\ group' \in [Tabs -> [Tabs -> Seq(Messages)]]
      /\ \A u, v \in Tabs :
           \/ group'[u][v] = group[u][v]
           \/ /\ u = t /\ v # t /\ tab[v].here /\ leader[t] # NoLeader
              /\ group'[u][v] = Append(group[u][v], m)
  <2>1. CASE group' = group
    BY <1>1, <2>1
  <2>2. CASE leader[t] # NoLeader /\ group' = Broadcast(group, t, m)
    <3>1. /\ Broadcast(group, t, m) \in [Tabs -> [Tabs -> Seq(Messages)]]
          /\ \A u, v \in Tabs :
               Broadcast(group, t, m)[u][v] =
                   IF u = t /\ v # t /\ tab[v].here THEN Append(group[u][v], m)
                   ELSE group[u][v]
      BY <1>1, <1>3, BroadcastEffect
    <3> QED
      BY <2>2, <3>1
  <2> QED
    BY <1>4, <2>1, <2>2
<1>6. \A i, j \in DOMAIN waiters : waiters[i] = waiters[j] => i = j
  BY DEF IInv, LockInv
<1>7. waiters' = RemoveFirst(waiters, t)
  BY DEF Shutdown
<1>8. /\ waiters' \in Seq(Tabs)
      /\ \A i \in DOMAIN waiters' :
           waiters'[i] # t /\ \E j \in DOMAIN waiters : waiters'[i] = waiters[j]
      /\ \A i, j \in DOMAIN waiters' : waiters'[i] = waiters'[j] => i = j
  BY <1>1, <1>6, <1>7, Withdrawal
<1> QED
  BY <1>2, <1>5, <1>8 DEF m

\* What becomes of the tabs and of the owners in a step: an epoch is given once, a
\* release is chosen when the tab starts, and an owner opens once.
OwnersPersist ==
    /\ tab' \in [Tabs -> TabStates]
    /\ owner' \in [Tabs -> [phase : Phases, epoch : Nat]]
    /\ \A t \in Tabs :
         /\ owner[t].epoch # NoEpoch =>
              /\ owner'[t].epoch = owner[t].epoch
              /\ owner[t].phase # "opening" => owner'[t].phase # "opening"
         /\ log[t] # <<>> => tab'[t].release = tab[t].release

\* Owners persist: no step takes an epoch, or a release that counts, from a tab.
LEMMA PersistStep ==
    ASSUME IInv, Next
    PROVE  OwnersPersist
<1>1. tab \in [Tabs -> TabStates] /\ owner \in [Tabs -> [phase : Phases, epoch : Nat]]
  BY DEF IInv, TypeOK
<1>2. TypeOK
  BY DEF IInv
<1>3. /\ epochs \in Nat
      /\ \A t \in Tabs : owner[t].phase \in {"none", "elected"} <=> owner[t].epoch = NoEpoch
  BY DEF IInv, TypeOK, EpochInv
<1>4. ASSUME UNCHANGED owner, SameTabs
      PROVE  OwnersPersist
  BY <1>1, <1>4 DEF OwnersPersist, SameTabs
<1>5. ASSUME NEW t \in Tabs,
             \/ \E kind \in Kinds : Submit(t, kind) \/ SubmitRefused(t, kind)
             \/ CloseByOwner(t) \/ Emit(t)
             \/ \E s \in Tabs : HearDiscover(s, t) \/ HearLeader(s, t) \/ HearEvent(s, t)
             \/ \E r \in routed : Serve(t, r)
      PROVE  OwnersPersist
  <2>1. UNCHANGED <<owner, tab>>
    BY <1>5 DEF Submit, SubmitRefused, CloseByOwner, Enqueue, Emit, HearDiscover, HearLeader,
                HearEvent, Serve
  <2> QED
    BY <1>2, <1>4, <2>1, StillTabs
<1>6. ASSUME NEW t \in Tabs, Start(t)
      PROVE  OwnersPersist
  <2>1. PICK release \in Releases :
          tab' = [tab EXCEPT ![t].here = TRUE, ![t].release = release]
    BY <1>6 DEF Start
  <2>2. release \in ReleaseNames
    BY <2>1 DEF Releases, ReleaseNames, IInv, TypeOK
  <2>3. tab' \in [Tabs -> TabStates] /\ \A s \in Tabs : s # t => tab'[s] = tab[s]
    BY <1>1, <2>1, <2>2 DEF TabStates
  <2>4. log[t] = <<>> /\ UNCHANGED owner
    BY <1>6 DEF Start
  <2> QED
    BY <1>1, <2>3, <2>4 DEF OwnersPersist
<1>7. ASSUME NEW t \in Tabs, QueryAnswered(t)
      PROVE  OwnersPersist
  BY <1>2, <1>4, <1>7, PictureIsTrue, AnnounceEffect DEF QueryAnswered
<1>8. ASSUME NEW t \in Tabs, Refresh(t) \/ Join(t)
      PROVE  OwnersPersist
  <2>1. UNCHANGED owner
    BY <1>8 DEF Refresh, Join
  <2>2. /\ tab' \in [Tabs -> TabStates]
        /\ \A s \in Tabs : tab'[s].release = tab[s].release
    <3>1. PICK x \in BOOLEAN : \/ tab' = [tab EXCEPT ![t].refreshRequested = x]
                              \/ tab' = [tab EXCEPT ![t].joined = x]
      BY <1>8 DEF Refresh, Join
    <3> QED
      BY <1>2, <3>1, FlagEffect
  <2> QED
    BY <1>1, <2>1, <2>2 DEF OwnersPersist
<1>9. ASSUME NEW t \in Tabs, NEW s \in Tabs, HearFailure(s, t)
      PROVE  OwnersPersist
  BY <1>2, <1>4, <1>9, StillTabs, TerminateEffect DEF HearFailure, Terminate
<1>10. ASSUME NEW t \in Tabs, Elect(t) \/ Retired(t)
       PROVE  OwnersPersist
  <2>1. UNCHANGED tab
    BY <1>10 DEF Elect, Retired
  <2>2. \/ UNCHANGED owner
        \/ Elect(t) /\ owner' = [owner EXCEPT ![t].phase = "elected"]
        \/ owner' = [owner EXCEPT ![t].phase = "retired"]
    BY <1>10 DEF Elect, Retired
  <2>3. Elect(t) => owner[t].epoch = NoEpoch
    <3> SUFFICES ASSUME Elect(t) PROVE owner[t].phase = "none"
      BY <1>3
    <3>1. waiters \in Seq(Tabs) /\ waiters # <<>> /\ t = Head(waiters)
      BY DEF Elect, IInv, TypeOK
    <3>2. 1 \in DOMAIN waiters /\ t = waiters[1]
      BY <3>1
    <3> QED
      BY <3>2 DEF IInv, LockInv
  <2> QED
    BY <1>1, <2>1, <2>2, <2>3 DEF OwnersPersist, Phases, Kept
<1>11. ASSUME NEW t \in Tabs, Begin(t)
       PROVE  OwnersPersist
  <2>1. /\ owner' = [owner EXCEPT ![t] = [phase |-> "opening", epoch |-> epochs']]
        /\ epochs' = epochs + 1 /\ owner[t].phase = "elected"
        /\ Announce(t, Announcement(t, epochs', FALSE))
    BY <1>11 DEF Begin
  <2>2. SameTabs
    <3> DEFINE m == Announcement(t, epochs', FALSE)
    <3>1. m \in Announcements
      <4>1. epochs' \in Nat
        BY <1>3, <2>1
      <4> QED
        BY <1>2, <4>1, AnnouncementType
    <3> HIDE DEF m
    <3>2. Announce(t, m)
      BY <2>1 DEF m
    <3> QED
      BY <1>2, <3>1, <3>2, AnnounceEffect
  <2>3. owner' \in [Tabs -> [phase : Phases, epoch : Nat]]
    BY <1>1, <1>3, <2>1 DEF Phases, Kept
  <2>4. owner[t].epoch = NoEpoch /\ \A s \in Tabs : s # t => owner'[s] = owner[s]
    BY <1>1, <1>3, <2>1
  <2> QED
    BY <2>2, <2>3, <2>4 DEF OwnersPersist, SameTabs
<1>12. ASSUME NEW t \in Tabs, Opened(t)
       PROVE  OwnersPersist
  <2>1. /\ owner' = [owner EXCEPT ![t].phase = "serving"]
        /\ Announce(t, Announcement(t, owner[t].epoch, TRUE))
    BY <1>12 DEF Opened
  <2>2. SameTabs
    BY <1>1, <1>2, <2>1, AnnouncementType, AnnounceEffect
  <2> QED
    BY <1>1, <2>1, <2>2 DEF OwnersPersist, SameTabs, Phases, Kept
<1>13. ASSUME NEW t \in Tabs, OpenFails(t) \/ \E r \in routed : Retire(t, r)
       PROVE  OwnersPersist
  <2>1. /\ tab' = [tab EXCEPT ![t].terminal = TRUE]
        /\ \/ owner' = [owner EXCEPT ![t].phase = "failed"]
           \/ owner' = [owner EXCEPT ![t].phase = "retiring"]
    BY <1>13 DEF OpenFails, Terminate, Retire
  <2>2. SameTabs
    BY <1>2, <2>1, TerminateEffect
  <2> QED
    BY <1>1, <2>1, <2>2 DEF OwnersPersist, SameTabs, Phases, Kept
<1>14. ASSUME NEW t \in Tabs, ShutdownEnds(t) \/ Crash(t)
       PROVE  OwnersPersist
  <2>1. tab' = [tab EXCEPT ![t].here = FALSE] /\ UNCHANGED owner
    BY <1>14 DEF ShutdownEnds, Crash
  <2> QED
    BY <1>1, <2>1 DEF OwnersPersist, TabStates
<1>15. ASSUME NEW t \in Tabs, CloseAlone(t)
       PROVE  OwnersPersist
  BY <1>1, <1>15, ShutdownEffect DEF CloseAlone, OwnersPersist
<1>16. ASSUME NEW a \in replies, Respond(a)
       PROVE  OwnersPersist
  <2>1. a.tab \in Tabs /\ UNCHANGED owner
    BY <1>16 DEF Respond, IInv, TypeOK, Answers
  <2>2. CASE Shutdown(a.tab)
    BY <1>1, <2>1, <2>2, ShutdownEffect DEF OwnersPersist
  <2>3. CASE ~Shutdown(a.tab)
    <3>1. \/ UNCHANGED tab
          \/ \E x \in BOOLEAN : tab' = [tab EXCEPT ![a.tab].initialized = x]
      <4>1. tab[a.tab].initialized \in BOOLEAN
        BY <1>1, <2>1 DEF TabStates
      <4> QED
        BY <1>16, <2>3, <4>1 DEF Respond
    <3>2. tab' \in [Tabs -> TabStates] /\ \A s \in Tabs : tab'[s].release = tab[s].release
      BY <1>1, <1>2, <2>1, <3>1, FlagEffect
    <3> QED
      BY <1>1, <2>1, <3>2 DEF OwnersPersist
  <2> QED
    BY <2>2, <2>3
<1>17. ASSUME FileReleased
       PROVE  OwnersPersist
  BY <1>2, <1>4, <1>17, StillTabs DEF FileReleased
<1> QED
  BY <1>5, <1>6, <1>7, <1>8, <1>9, <1>10, <1>11, <1>12, <1>13, <1>14, <1>15, <1>16, <1>17
     DEF Next, Works, Hear

-----------------------------------------------------------------------------
(* Requests run at most once, and under an owner of their release. *)

\* The two properties, request by request.
RanWell(t, n) ==
    /\ Len(log[t][n].ran) <= 1
    /\ log[t][n].outcome = "OK" => Len(log[t][n].ran) = 1 \/ log[t][n].kind = "close"
    /\ log[t][n].outcome = "TRANSACTION_LOST" => log[t][n].ran = <<>>
    /\ \A i \in DOMAIN log[t][n].ran :
         /\ OwnedBy(log[t][n].ran[i], t)
         /\ log[t][n].tx # NoEpoch => log[t][n].ran[i] = log[t][n].tx

\* RunsAtMostOnce and RunsUnderItsOwner, one request at a time.
LEMMA RequestByRequest ==
    /\ (RunsAtMostOnce /\ RunsUnderItsOwner)
         <=> \A t \in Tabs : \A n \in DOMAIN log[t] : RanWell(t, n)
    /\ (RunsAtMostOnce /\ RunsUnderItsOwner)'
         <=> \A t \in Tabs : \A n \in DOMAIN log'[t] : RanWell(t, n)'
<1>1. (\A w \in Asked : RanWell(w[1], w[2]))
        <=> \A t \in Tabs : \A n \in DOMAIN log[t] : RanWell(t, n)
  <2>1. ASSUME NEW w \in Asked
        PROVE  \E t \in Tabs : \E n \in DOMAIN log[t] : w[1] = t /\ w[2] = n
    BY DEF Asked
  <2>2. ASSUME NEW t \in Tabs, NEW n \in DOMAIN log[t]
        PROVE  \E w \in Asked : w[1] = t /\ w[2] = n
    <3>1. <<t, n>> \in Asked
      BY DEF Asked
    <3> QED
      BY <3>1
  <2> QED
    BY <2>1, <2>2
<1>2. (\A w \in Asked : RanWell(w[1], w[2]))'
        <=> \A t \in Tabs : \A n \in DOMAIN log'[t] : RanWell(t, n)'
  <2>1. ASSUME NEW w \in Asked'
        PROVE  \E t \in Tabs : \E n \in DOMAIN log'[t] : w[1] = t /\ w[2] = n
    BY DEF Asked
  <2>2. ASSUME NEW t \in Tabs, NEW n \in DOMAIN log'[t]
        PROVE  \E w \in Asked' : w[1] = t /\ w[2] = n
    <3>1. <<t, n>> \in Asked'
      BY DEF Asked
    <3> QED
      BY <3>1
  <2> QED
    BY <2>1, <2>2
<1>3. (RunsAtMostOnce /\ RunsUnderItsOwner) <=> \A w \in Asked : RanWell(w[1], w[2])
  BY Zenon DEF RunsAtMostOnce, RunsUnderItsOwner, RanWell, At, OwnedBy
<1>4. (RunsAtMostOnce /\ RunsUnderItsOwner)' <=> (\A w \in Asked : RanWell(w[1], w[2]))'
  BY Zenon DEF RunsAtMostOnce, RunsUnderItsOwner, RanWell, At, OwnedBy
<1> QED
  BY <1>1, <1>2, <1>3, <1>4

\* An owner stays an owner of its release.
LEMMA OwnedPersists ==
    ASSUME IInv, OwnersPersist, NEW e, NEW t \in Tabs, e # NoEpoch, log[t] # <<>>,
           OwnedBy(e, t)
    PROVE  OwnedBy(e, t)'
<1>1. PICK s \in Tabs : owner[s].epoch = e /\ tab[s].release = tab[t].release
  BY DEF OwnedBy
<1>2. owner[s].phase # "none"
  BY <1>1 DEF IInv, EpochInv
<1>3. log[s] # <<>>
  BY <1>2 DEF IInv, UnstartedInv
<1> QED
  BY <1>1, <1>3 DEF OwnersPersist, OwnedBy

\* What a request has run under stays an owner of its release.
LEMMA RunPersists ==
    ASSUME IInv, OwnersPersist, NEW t \in Tabs, NEW n \in DOMAIN log[t],
           NEW i \in DOMAIN log[t][n].ran
    PROVE  \E s \in Tabs : /\ owner'[s].epoch = log[t][n].ran[i]
                           /\ tab'[s].release = tab'[t].release
<1> DEFINE e == log[t][n].ran[i]
<1>1. RanWell(t, n)
  BY RequestByRequest DEF IInv
<1>2. e # NoEpoch /\ OwnedBy(e, t) /\ log[t] # <<>>
  BY <1>1 DEF RanWell, IInv, RequestInv
<1>3. PICK s \in Tabs : owner[s].epoch = e /\ tab[s].release = tab[t].release
  BY <1>2 DEF OwnedBy
<1>4. owner[s].phase # "none"
  BY <1>2, <1>3 DEF IInv, EpochInv
<1>5. log[s] # <<>>
  BY <1>4 DEF IInv, UnstartedInv
<1>6. owner'[s].epoch = e /\ tab'[s].release = tab'[t].release
  BY <1>2, <1>3, <1>5 DEF OwnersPersist
<1> QED
  BY <1>6

\* Requests that move keep the invariant: what is sent has been nowhere before.
LEMMA MoveKeeps ==
    ASSUME IInv, OwnersPersist, RequestsMove, UNCHANGED replies
    PROVE  RequestInv' /\ (RunsAtMostOnce /\ RunsUnderItsOwner)'
<1>1. \A t \in Tabs : \A n \in DOMAIN log[t] : RanWell(t, n)
  BY RequestByRequest DEF IInv
<1>2. RequestInv
  BY DEF IInv
<1>3. \A t \in Tabs : DOMAIN pending[t] \subseteq DOMAIN log[t]
  BY DEF IInv, TypeOK
<1>4. routed \subseteq RoutedRequests /\ routed' \subseteq RoutedRequests /\ replies \subseteq Answers
  BY DEF IInv, TypeOK, RequestsMove
<1>5. \A r \in routed : r.tab \in Tabs /\ ~IsUnsent(r.tab, r.n)
  BY <1>2, <1>4 DEF RequestInv, IsUnsent, RoutedRequests
<1>6. \A t \in Tabs : \A n \in DOMAIN log[t] : log[t] # <<>>
  OBVIOUS
<1>7. ASSUME NEW t \in Tabs, NEW n \in DOMAIN log'[t], IsUnsent(t, n)
      PROVE  log'[t][n].ran = <<>>
  BY <1>2, <1>3, <1>7 DEF RequestInv, RequestsMove, IsUnsent
<1>8. ASSUME NEW t \in Tabs, NEW n \in DOMAIN pending'[t]
      PROVE  /\ log'[t][n].outcome = "waiting"
             /\ pending'[t][n] = NoEpoch =>
                  log'[t][n].ran = <<>> /\ \A r \in routed' : <<r.tab, r.n>> # <<t, n>>
  <2>1. n \in DOMAIN log'[t] /\ log'[t][n].outcome = "waiting"
    BY DEF RequestsMove
  <2>2. ASSUME pending'[t][n] = NoEpoch
        PROVE  IsUnsent(t, n) /\ \A r \in routed' \ routed : <<r.tab, r.n>> # <<t, n>>
    BY <2>2 DEF RequestsMove
  <2> QED
    BY <1>5, <1>7, <2>1, <2>2
<1>9. ASSUME NEW r \in routed'
      PROVE  /\ r.n \in DOMAIN log'[r.tab]
             /\ log'[r.tab][r.n].ran = <<>>
             /\ log'[r.tab][r.n].outcome # "TRANSACTION_LOST"
             /\ log'[r.tab][r.n].tx \in {NoEpoch, r.epoch}
             /\ r.epoch # NoEpoch /\ OwnedBy(r.epoch, r.tab)'
  <2>1. r.tab \in Tabs
    BY <1>4 DEF RoutedRequests
  <2>2. CASE r \in routed
    <3>1. r.n \in DOMAIN log[r.tab] /\ r.epoch # NoEpoch /\ OwnedBy(r.epoch, r.tab)
      BY <1>2, <2>2 DEF RequestInv
    <3>2. OwnedBy(r.epoch, r.tab)'
      BY <2>1, <3>1, <1>6, OwnedPersists
    <3>3. log[r.tab][r.n].outcome # "TRANSACTION_LOST"
      BY <1>2, <2>2 DEF RequestInv
    <3>4. log'[r.tab][r.n].outcome # "TRANSACTION_LOST"
      BY <1>5, <2>1, <2>2, <3>1, <3>3 DEF RequestsMove, Unanswered
    <3> QED
      BY <1>2, <2>1, <2>2, <3>1, <3>2, <3>4 DEF RequestInv, RequestsMove
  <2>3. CASE r \notin routed
    <3>1. /\ r.n \in DOMAIN pending'[r.tab] /\ IsUnsent(r.tab, r.n)
          /\ log'[r.tab][r.n].tx \in {NoEpoch, r.epoch}
          /\ r.epoch # NoEpoch /\ OwnedBy(r.epoch, r.tab) /\ log[r.tab] # <<>>
      BY <2>3 DEF RequestsMove
    <3>2. OwnedBy(r.epoch, r.tab)'
      BY <2>1, <3>1, OwnedPersists
    <3>3. r.n \in DOMAIN log'[r.tab] /\ log'[r.tab][r.n].outcome = "waiting"
      BY <2>1, <3>1 DEF RequestsMove
    <3> QED
      BY <1>7, <2>1, <3>1, <3>2, <3>3
  <2> QED
    BY <2>2, <2>3
<1>10. \A r, q \in routed' : r.tab = q.tab /\ r.n = q.n => r = q
  <2>1. \A r \in routed' \ routed : IsUnsent(r.tab, r.n)
    BY DEF RequestsMove
  <2>2. \A r, q \in routed' \ routed : r.tab = q.tab /\ r.n = q.n => r = q
    BY DEF RequestsMove
  <2>3. \A r, q \in routed : r.tab = q.tab /\ r.n = q.n => r = q
    BY <1>2 DEF RequestInv
  <2> QED
    BY <1>5, <2>1, <2>2, <2>3
<1>11. \A a \in replies' : /\ a.n \in DOMAIN log'[a.tab]
                           /\ a.outcome = "OK" => Len(log'[a.tab][a.n].ran) = 1
  <2>1. \A a \in replies : a.tab \in Tabs
    BY <1>4 DEF Answers
  <2> QED
    BY <1>2, <2>1 DEF RequestInv, RequestsMove
<1>12. ASSUME NEW t \in Tabs, NEW n \in DOMAIN log'[t]
       PROVE  /\ \A i \in DOMAIN log'[t][n].ran : log'[t][n].ran[i] # NoEpoch
              /\ RanWell(t, n)'
  <2>1. CASE n \in DOMAIN log[t]
    <3>1. /\ log'[t][n].kind = log[t][n].kind /\ log'[t][n].tx = log[t][n].tx
          /\ log'[t][n].ran = log[t][n].ran
      BY <2>1 DEF RequestsMove
    <3>2. RanWell(t, n)
      BY <1>1, <2>1
    <3>3. \A i \in DOMAIN log[t][n].ran : log[t][n].ran[i] # NoEpoch
      BY <1>2, <2>1 DEF RequestInv
    <3>5. ASSUME NEW i \in DOMAIN log[t][n].ran
          PROVE  \E s \in Tabs : owner'[s].epoch = log[t][n].ran[i]
                                 /\ tab'[s].release = tab'[t].release
      BY <2>1, <3>5, RunPersists
    <3>6. \/ log'[t][n].outcome \in {log[t][n].outcome} \cup Unanswered
          \/ log'[t][n].outcome = "TRANSACTION_LOST" /\ log'[t][n].ran = <<>>
      <4>1. \/ log'[t][n].outcome \in {log[t][n].outcome} \cup Unanswered
            \/ log'[t][n].outcome = "TRANSACTION_LOST" /\ IsUnsent(t, n)
        BY <2>1 DEF RequestsMove
      <4> QED
        BY <4>1, <1>7
    <3> QED
      BY <3>1, <3>2, <3>3, <3>5, <3>6 DEF RanWell, OwnedBy, Unanswered
  <2>2. CASE n \notin DOMAIN log[t]
    <3>1. /\ log'[t][n].ran = <<>>
          /\ log'[t][n].outcome \in {"waiting", "TERMINAL", "TRANSACTION_LOST"}
      BY <2>2 DEF RequestsMove
    <3> QED
      BY <3>1 DEF RanWell
  <2> QED
    BY <2>1, <2>2
<1>13. RequestInv'
  BY <1>8, <1>9, <1>10, <1>11, <1>12 DEF RequestInv
<1>14. (RunsAtMostOnce /\ RunsUnderItsOwner)'
  BY <1>12, RequestByRequest
<1> QED
  BY <1>13, <1>14

\* What an owner that serves, an answer and the end of a tab do to requests: those that
\* run were under way, and those that are said to have run did.
AnswersMove ==
    /\ log' \in [Tabs -> Seq(Entries)]
    /\ DOMAIN pending' = Tabs
    /\ routed' \subseteq routed
    /\ replies' \subseteq Answers
    /\ \A t \in Tabs :
         /\ DOMAIN log'[t] = DOMAIN log[t]
         /\ \A n \in DOMAIN pending'[t] :
              /\ n \in DOMAIN pending[t] /\ pending'[t][n] = pending[t][n]
              /\ log'[t][n].outcome = "waiting"
         /\ \A n \in DOMAIN log[t] :
              /\ log'[t][n].kind = log[t][n].kind /\ log'[t][n].tx = log[t][n].tx
              /\ \/ log'[t][n].ran = log[t][n].ran
                 \/ \E r \in routed \ routed' :
                      r.tab = t /\ r.n = n /\ log'[t][n].ran = <<r.epoch>>
              /\ \/ log'[t][n].outcome \in {log[t][n].outcome} \cup Unanswered
                 \/ /\ log'[t][n].outcome = "OK"
                    /\ IF log[t][n].kind = "close" THEN ShutdownEnds(t)
                       ELSE Len(log[t][n].ran) = 1
    /\ \A a \in replies' :
         \/ a \in replies
         \/ /\ a.n \in DOMAIN log[a.tab]
            /\ a.outcome = "OK" => Len(log'[a.tab][a.n].ran) = 1

\* What the owner's steps and answers do to requests keeps their invariant.
LEMMA AnswerKeeps ==
    ASSUME IInv, OwnersPersist, AnswersMove
    PROVE  RequestInv' /\ (RunsAtMostOnce /\ RunsUnderItsOwner)'
<1>1. \A t \in Tabs : \A n \in DOMAIN log[t] : RanWell(t, n)
  BY RequestByRequest DEF IInv
<1>2. RequestInv
  BY DEF IInv
<1>3. \A t \in Tabs : DOMAIN pending[t] \subseteq DOMAIN log[t]
  BY DEF IInv, TypeOK
<1>4. /\ \A r \in routed : r.tab \in Tabs
      /\ \A a \in replies : a.tab \in Tabs
      /\ \A a \in replies' : a.tab \in Tabs
  BY DEF IInv, TypeOK, AnswersMove, RoutedRequests, Answers
<1>5. \A t \in Tabs : \A n \in DOMAIN log[t] : log[t] # <<>>
  OBVIOUS
<1>6. ASSUME NEW t \in Tabs, NEW n \in DOMAIN log[t]
      PROVE  \/ log'[t][n].ran = log[t][n].ran
             \/ \E r \in routed \ routed' :
                  r.tab = t /\ r.n = n /\ log'[t][n].ran = <<r.epoch>>
  BY DEF AnswersMove
<1>7. ASSUME NEW t \in Tabs, NEW n \in DOMAIN pending'[t]
      PROVE  /\ log'[t][n].outcome = "waiting"
             /\ pending'[t][n] = NoEpoch =>
                  log'[t][n].ran = <<>> /\ \A r \in routed' : <<r.tab, r.n>> # <<t, n>>
  <2>1. /\ n \in DOMAIN pending[t] /\ pending'[t][n] = pending[t][n]
        /\ log'[t][n].outcome = "waiting" /\ routed' \subseteq routed
    BY DEF AnswersMove
  <2>2. pending[t][n] = NoEpoch =>
          log[t][n].ran = <<>> /\ \A r \in routed : <<r.tab, r.n>> # <<t, n>>
    BY <1>2, <2>1 DEF RequestInv
  <2>3. n \in DOMAIN log[t]
    BY <1>3, <2>1
  <2> QED
    BY <1>6, <2>1, <2>2, <2>3
<1>8. ASSUME NEW r \in routed'
      PROVE  /\ r.n \in DOMAIN log'[r.tab]
             /\ log'[r.tab][r.n].ran = <<>>
             /\ log'[r.tab][r.n].outcome # "TRANSACTION_LOST"
             /\ log'[r.tab][r.n].tx \in {NoEpoch, r.epoch}
             /\ r.epoch # NoEpoch /\ OwnedBy(r.epoch, r.tab)'
  <2>1. r \in routed /\ r.tab \in Tabs
    BY <1>4 DEF AnswersMove
  <2>2. /\ r.n \in DOMAIN log[r.tab] /\ log[r.tab][r.n].ran = <<>>
        /\ log[r.tab][r.n].outcome # "TRANSACTION_LOST"
        /\ log[r.tab][r.n].tx \in {NoEpoch, r.epoch}
        /\ r.epoch # NoEpoch /\ OwnedBy(r.epoch, r.tab)
    BY <1>2, <2>1 DEF RequestInv
  <2>3. OwnedBy(r.epoch, r.tab)'
    BY <2>1, <2>2, <1>5, OwnedPersists
  <2>4. log'[r.tab][r.n].ran = <<>>
    <3>1. \A q \in routed \ routed' : ~(q.tab = r.tab /\ q.n = r.n)
      BY <1>2, <2>1 DEF RequestInv
    <3> QED
      BY <1>6, <2>1, <2>2, <3>1
  <2>5. /\ DOMAIN log'[r.tab] = DOMAIN log[r.tab]
        /\ log'[r.tab][r.n].tx = log[r.tab][r.n].tx
        /\ log'[r.tab][r.n].outcome \in {log[r.tab][r.n].outcome, "OK"} \cup Unanswered
    BY <2>1, <2>2 DEF AnswersMove
  <2> QED
    BY <2>2, <2>3, <2>4, <2>5 DEF Unanswered
<1>9. \A r, q \in routed' : r.tab = q.tab /\ r.n = q.n => r = q
  BY <1>2 DEF RequestInv, AnswersMove
<1>10. ASSUME NEW a \in replies'
       PROVE  /\ a.n \in DOMAIN log'[a.tab]
              /\ a.outcome = "OK" => Len(log'[a.tab][a.n].ran) = 1
  <2>1. DOMAIN log'[a.tab] = DOMAIN log[a.tab]
    BY <1>4 DEF AnswersMove
  <2>2. CASE a \in replies
    <3>1. a.n \in DOMAIN log[a.tab] /\ (a.outcome = "OK" => Len(log[a.tab][a.n].ran) = 1)
      BY <1>2, <2>2 DEF RequestInv
    <3>2. CASE log'[a.tab][a.n].ran = log[a.tab][a.n].ran
      BY <2>1, <3>1, <3>2
    <3>3. ASSUME NEW r \in routed, log'[a.tab][a.n].ran = <<r.epoch>>
          PROVE  Len(log'[a.tab][a.n].ran) = 1
      BY <3>3
    <3> QED
      BY <1>4, <1>6, <2>1, <3>1, <3>2, <3>3
  <2>3. CASE a \notin replies
    BY <2>1, <2>3 DEF AnswersMove
  <2> QED
    BY <2>2, <2>3
<1>11. ASSUME NEW t \in Tabs, NEW n \in DOMAIN log'[t]
       PROVE  /\ \A i \in DOMAIN log'[t][n].ran : log'[t][n].ran[i] # NoEpoch
              /\ RanWell(t, n)'
  <2>1. n \in DOMAIN log[t]
    BY DEF AnswersMove
  <2>2. RanWell(t, n) /\ \A i \in DOMAIN log[t][n].ran : log[t][n].ran[i] # NoEpoch
    BY <1>1, <1>2, <2>1 DEF RequestInv
  <2>3. log'[t][n].kind = log[t][n].kind /\ log'[t][n].tx = log[t][n].tx
    BY <2>1 DEF AnswersMove
  <2>4. \/ log'[t][n].outcome \in {log[t][n].outcome} \cup Unanswered
        \/ /\ log'[t][n].outcome = "OK"
           /\ Len(log[t][n].ran) = 1 \/ log[t][n].kind = "close"
    BY <2>1 DEF AnswersMove
  <2>5. CASE log'[t][n].ran = log[t][n].ran
    <3>1. ASSUME NEW i \in DOMAIN log[t][n].ran
          PROVE  \E s \in Tabs : owner'[s].epoch = log[t][n].ran[i]
                                 /\ tab'[s].release = tab'[t].release
      BY <2>1, <3>1, RunPersists
    <3> QED
      BY <2>2, <2>3, <2>4, <2>5, <3>1 DEF RanWell, OwnedBy, Unanswered
  <2>6. ASSUME NEW r \in routed \ routed', r.tab = t, r.n = n, log'[t][n].ran = <<r.epoch>>
        PROVE  /\ \A i \in DOMAIN log'[t][n].ran : log'[t][n].ran[i] # NoEpoch
               /\ RanWell(t, n)'
    <3>1. /\ r.epoch # NoEpoch /\ OwnedBy(r.epoch, t)
          /\ log[t][n].tx \in {NoEpoch, r.epoch} /\ log[t][n].outcome # "TRANSACTION_LOST"
      BY <1>2, <2>6 DEF RequestInv
    <3>2. OwnedBy(r.epoch, t)'
      BY <1>5, <2>1, <3>1, OwnedPersists
    <3>3. \E s \in Tabs : owner'[s].epoch = r.epoch /\ tab'[s].release = tab'[t].release
      BY <3>2 DEF OwnedBy
    <3>4. /\ Len(log'[t][n].ran) = 1 /\ DOMAIN log'[t][n].ran = {1}
          /\ log'[t][n].ran[1] = r.epoch
      BY <2>6
    <3> QED
      BY <2>3, <2>4, <3>1, <3>3, <3>4 DEF RanWell, OwnedBy, Unanswered
  <2> QED
    BY <1>6, <2>1, <2>5, <2>6
<1>12. RequestInv'
  BY <1>7, <1>8, <1>9, <1>10, <1>11 DEF RequestInv
<1>13. (RunsAtMostOnce /\ RunsUnderItsOwner)'
  BY <1>11, RequestByRequest
<1> QED
  BY <1>12, <1>13

\* `after` is the log once request `r` has run, under the owner it was sent to.
HasRun(r, after) ==
    /\ after \in [Tabs -> Seq(Entries)]
    /\ \A t \in Tabs :
         /\ DOMAIN after[t] = DOMAIN log[t]
         /\ \A n \in DOMAIN log[t] :
              /\ after[t][n].kind = log[t][n].kind /\ after[t][n].tx = log[t][n].tx
              /\ after[t][n].outcome = log[t][n].outcome
              /\ after[t][n].ran = IF t = r.tab /\ n = r.n THEN <<r.epoch>> ELSE log[t][n].ran

\* AfterRun: the owner runs one request, and no other request is touched.
LEMMA RunEffect ==
    ASSUME IInv, NEW r \in routed
    PROVE  r.tab \in Tabs /\ r.n \in DOMAIN log[r.tab] /\ HasRun(r, AfterRun(r))
<1>1. r.tab \in Tabs /\ r.epoch \in Nat /\ log \in [Tabs -> Seq(Entries)]
  BY DEF IInv, TypeOK, RoutedRequests
<1>2. r.n \in DOMAIN log[r.tab] /\ log[r.tab][r.n].ran = <<>>
  BY DEF IInv, RequestInv
<1> DEFINE x == [log[r.tab][r.n] EXCEPT !.ran = <<r.epoch>>]
           e == [log[r.tab] EXCEPT ![r.n] = x]
<1>3. /\ x \in Entries /\ x.kind = log[r.tab][r.n].kind /\ x.tx = log[r.tab][r.n].tx
      /\ x.outcome = log[r.tab][r.n].outcome /\ x.ran = <<r.epoch>>
  <2>1. log[r.tab][r.n] \in Entries
    BY <1>1, <1>2, TabRequests
  <2>2. <<r.epoch>> \in Seq(Nat)
    BY <1>1
  <2> QED
    BY <2>1, <2>2 DEF Entries
<1>4. Append(log[r.tab][r.n].ran, r.epoch) = <<r.epoch>>
  BY <1>1, <1>2
<1>5. AfterRun(r) = [log EXCEPT ![r.tab] = e]
  BY <1>1, <1>2, <1>4 DEF AfterRun
<1> HIDE DEF x
<1>6. /\ e \in Seq(Entries) /\ DOMAIN e = DOMAIN log[r.tab]
      /\ \A n \in DOMAIN log[r.tab] : e[n] = IF n = r.n THEN x ELSE log[r.tab][n]
  BY <1>1, <1>2, <1>3, TabRequests
<1> HIDE DEF e
<1>7. /\ AfterRun(r) \in [Tabs -> Seq(Entries)]
      /\ \A t \in Tabs : AfterRun(r)[t] = IF t = r.tab THEN e ELSE log[t]
  BY <1>1, <1>5, <1>6
<1> QED
  BY <1>1, <1>2, <1>3, <1>6, <1>7 DEF HasRun

\* Answer makes an answer.
LEMMA AnswerType ==
    ASSUME IInv, NEW r \in routed, NEW outcome \in {"OK", "UNKNOWN"},
           revision' \in Nat
    PROVE  /\ Answer(r, outcome) \in Answers
           /\ Answer(r, outcome).tab = r.tab /\ Answer(r, outcome).n = r.n
           /\ Answer(r, outcome).outcome = outcome
  BY DEF IInv, TypeOK, Answer, Answers, RoutedRequests

\* RevisionAfter gives a revision.
LEMMA RevisionType ==
    ASSUME IInv, NEW r \in routed
    PROVE  RevisionAfter(r) \in Nat
  BY DEF IInv, TypeOK, RevisionAfter

\* Serve: the request that ran leaves its channel, and is answered.
LEMMA ServeMoves ==
    ASSUME IInv, NEW t \in Tabs, NEW r \in routed, Serve(t, r)
    PROVE  AnswersMove
<1>1. /\ log' = AfterRun(r) /\ routed' = routed \ {r} /\ UNCHANGED pending
      /\ replies' = replies \cup {Answer(r, "OK")} /\ revision' = RevisionAfter(r)
  BY DEF Serve
<1>0. r.tab \in Tabs /\ r.n \in DOMAIN log[r.tab] /\ HasRun(r, log')
  BY <1>1, RunEffect
<1>2. /\ Answer(r, "OK") \in Answers
      /\ Answer(r, "OK").tab = r.tab /\ Answer(r, "OK").n = r.n
  BY <1>1, AnswerType, RevisionType
<1>3. replies' \subseteq Answers
  BY <1>1, <1>2 DEF IInv, TypeOK
<1>4. Len(log'[r.tab][r.n].ran) = 1
  <2>1. log'[r.tab][r.n].ran = <<r.epoch>>
    BY <1>0 DEF HasRun
  <2> QED
    BY <2>1
<1>5. \A a \in replies' :
        \/ a \in replies
        \/ a.n \in DOMAIN log[a.tab] /\ (a.outcome = "OK" => Len(log'[a.tab][a.n].ran) = 1)
  BY <1>0, <1>1, <1>2, <1>4
<1>6. /\ DOMAIN pending = Tabs
      /\ \A s \in Tabs : \A n \in DOMAIN pending[s] :
           n \in DOMAIN log[s] /\ log[s][n].outcome = "waiting"
  BY DEF IInv, TypeOK, RequestInv
<1>7. ASSUME NEW s \in Tabs
      PROVE  /\ DOMAIN log'[s] = DOMAIN log[s]
             /\ \A n \in DOMAIN pending'[s] :
                  /\ n \in DOMAIN pending[s] /\ pending'[s][n] = pending[s][n]
                  /\ log'[s][n].outcome = "waiting"
  BY <1>0, <1>1, <1>6 DEF HasRun
<1>8. ASSUME NEW s \in Tabs, NEW n \in DOMAIN log[s]
      PROVE  /\ log'[s][n].kind = log[s][n].kind /\ log'[s][n].tx = log[s][n].tx
             /\ \/ log'[s][n].ran = log[s][n].ran
                \/ \E q \in routed \ routed' :
                     q.tab = s /\ q.n = n /\ log'[s][n].ran = <<q.epoch>>
             /\ log'[s][n].outcome = log[s][n].outcome
  BY <1>0, <1>1 DEF HasRun
<1> QED
  BY <1>0, <1>1, <1>3, <1>5, <1>6, <1>7, <1>8 DEF AnswersMove, HasRun

\* Retire: the request in hand may have run, and those of the owner's own tab end.
LEMMA RetireMoves ==
    ASSUME IInv, NEW t \in Tabs, NEW r \in routed, Retire(t, r)
    PROVE  AnswersMove
<1>0. r.tab \in Tabs /\ r.n \in DOMAIN log[r.tab] /\ HasRun(r, AfterRun(r))
  BY RunEffect
<1>1. PICK ran \in BOOLEAN :
        /\ revision' = IF ran THEN RevisionAfter(r) ELSE revision
        /\ log' = [(IF ran THEN AfterRun(r) ELSE log) EXCEPT ![t] =
                     Settled(Settled(@, DOMAIN pending[t], "TERMINAL"),
                             {n \in DOMAIN pending[t] : <<t, n>> = <<r.tab, r.n>>},
                             "UNKNOWN")]
  BY DEF Retire
<1>2. /\ routed' = routed \ {r} /\ pending' = [pending EXCEPT ![t] = <<>>]
      /\ replies' = replies \cup {Answer(r, "UNKNOWN")}
  BY DEF Retire
<1> DEFINE before == IF ran THEN AfterRun(r) ELSE log
           e == Settled(before[t], DOMAIN pending[t], "TERMINAL")
           f == Settled(e, {n \in DOMAIN pending[t] : <<t, n>> = <<r.tab, r.n>>}, "UNKNOWN")
<1>3. /\ before \in [Tabs -> Seq(Entries)]
      /\ \A s \in Tabs :
           /\ DOMAIN before[s] = DOMAIN log[s]
           /\ \A n \in DOMAIN log[s] :
                /\ before[s][n].kind = log[s][n].kind
                /\ before[s][n].tx = log[s][n].tx
                /\ before[s][n].outcome = log[s][n].outcome
                /\ \/ before[s][n].ran = log[s][n].ran
                   \/ s = r.tab /\ n = r.n /\ before[s][n].ran = <<r.epoch>>
  <2>1. CASE ran
    BY <1>0, <2>1 DEF HasRun
  <2>2. CASE ~ran
    BY <2>2 DEF IInv, TypeOK
  <2> QED
    BY <2>1, <2>2
<1>4. log' = [before EXCEPT ![t] = f]
  BY <1>1
<1> HIDE DEF before
<1>5. /\ e \in Seq(Entries) /\ DOMAIN e = DOMAIN log[t]
      /\ \A n \in DOMAIN log[t] :
           /\ e[n].kind = before[t][n].kind /\ e[n].tx = before[t][n].tx
           /\ e[n].ran = before[t][n].ran
           /\ e[n].outcome \in {before[t][n].outcome, "TERMINAL"}
  <2>1. before[t] \in Seq(Entries) /\ "TERMINAL" \in Outcomes
    BY <1>3 DEF Outcomes
  <2> QED
    BY <1>3, <2>1, SettledEffect
<1> HIDE DEF e
<1>6. /\ f \in Seq(Entries) /\ DOMAIN f = DOMAIN log[t]
      /\ \A n \in DOMAIN log[t] :
           /\ f[n].kind = before[t][n].kind /\ f[n].tx = before[t][n].tx
           /\ f[n].ran = before[t][n].ran
           /\ f[n].outcome \in {before[t][n].outcome, "TERMINAL", "UNKNOWN"}
  <2>1. "UNKNOWN" \in Outcomes
    BY DEF Outcomes
  <2> QED
    BY <1>5, <2>1, SettledEffect
<1> HIDE DEF f
<1>7. /\ log' \in [Tabs -> Seq(Entries)]
      /\ \A s \in Tabs : log'[s] = IF s = t THEN f ELSE before[s]
  BY <1>3, <1>4, <1>6
<1>8. /\ DOMAIN pending = Tabs /\ DOMAIN pending' = Tabs
      /\ \A s \in Tabs : pending'[s] = IF s = t THEN <<>> ELSE pending[s]
  BY <1>2 DEF IInv, TypeOK
<1>15. \A s \in Tabs : \A n \in DOMAIN pending[s] :
         n \in DOMAIN log[s] /\ log[s][n].outcome = "waiting"
  BY DEF IInv, TypeOK, RequestInv
<1>9. revision' \in Nat
  BY <1>1, RevisionType DEF IInv, TypeOK
<1>10. /\ Answer(r, "UNKNOWN") \in Answers /\ Answer(r, "UNKNOWN").outcome = "UNKNOWN"
       /\ Answer(r, "UNKNOWN").tab = r.tab /\ Answer(r, "UNKNOWN").n = r.n
  BY <1>9, AnswerType
<1>11. replies' \subseteq Answers
  BY <1>2, <1>10 DEF IInv, TypeOK
<1>12. \A a \in replies' :
         \/ a \in replies
         \/ a.n \in DOMAIN log[a.tab] /\ (a.outcome = "OK" => Len(log'[a.tab][a.n].ran) = 1)
  BY <1>0, <1>2, <1>10
<1>13. ASSUME NEW s \in Tabs, NEW n \in DOMAIN log[s]
       PROVE  /\ log'[s][n].kind = log[s][n].kind /\ log'[s][n].tx = log[s][n].tx
              /\ \/ log'[s][n].ran = log[s][n].ran
                 \/ \E q \in routed \ routed' :
                      q.tab = s /\ q.n = n /\ log'[s][n].ran = <<q.epoch>>
              /\ log'[s][n].outcome \in {log[s][n].outcome} \cup Unanswered
  <2>1. r \in routed \ routed'
    BY <1>2
  <2>2. /\ log'[s][n].kind = before[s][n].kind /\ log'[s][n].tx = before[s][n].tx
        /\ log'[s][n].ran = before[s][n].ran
        /\ log'[s][n].outcome \in {before[s][n].outcome, "TERMINAL", "UNKNOWN"}
    BY <1>6, <1>7
  <2>3. /\ before[s][n].kind = log[s][n].kind /\ before[s][n].tx = log[s][n].tx
        /\ before[s][n].outcome = log[s][n].outcome
        /\ \/ before[s][n].ran = log[s][n].ran
           \/ s = r.tab /\ n = r.n /\ before[s][n].ran = <<r.epoch>>
    BY <1>3
  <2>4. \/ log'[s][n].ran = log[s][n].ran
        \/ \E q \in routed \ routed' :
             q.tab = s /\ q.n = n /\ log'[s][n].ran = <<q.epoch>>
    BY <2>1, <2>2, <2>3
  <2> QED
    BY <2>2, <2>3, <2>4 DEF Unanswered
<1>14. ASSUME NEW s \in Tabs
       PROVE  /\ DOMAIN log'[s] = DOMAIN log[s]
              /\ \A n \in DOMAIN pending'[s] :
                   /\ n \in DOMAIN pending[s] /\ pending'[s][n] = pending[s][n]
                   /\ log'[s][n].outcome = "waiting"
  <2>1. CASE s = t
    BY <1>6, <1>7, <1>8, <2>1
  <2>2. CASE s # t
    BY <1>3, <1>7, <1>8, <1>15, <2>2
  <2> QED
    BY <2>1, <2>2
<1> QED
  BY <1>2, <1>7, <1>8, <1>11, <1>12, <1>13, <1>14 DEF AnswersMove

\* Respond: an answer settles the request it is for, or nothing.
LEMMA RespondMoves ==
    ASSUME IInv, NEW a \in replies, Respond(a)
    PROVE  AnswersMove
<1> DEFINE u == a.tab
<1>1. /\ u \in Tabs /\ a \in Answers /\ a.n \in DOMAIN log[u]
      /\ a.outcome = "OK" => Len(log[u][a.n].ran) = 1
  BY DEF IInv, TypeOK, RequestInv, Answers
<1> HIDE DEF u
<1>2. replies' = replies \ {a} /\ routed' = routed
  BY DEF Respond
<1>3. /\ log \in [Tabs -> Seq(Entries)] /\ DOMAIN pending = Tabs /\ replies \subseteq Answers
      /\ \A s \in Tabs : \A n \in DOMAIN pending[s] :
           n \in DOMAIN log[s] /\ log[s][n].outcome = "waiting"
  BY DEF IInv, TypeOK, RequestInv
<1>4. CASE UNCHANGED <<pending, log>>
  BY <1>2, <1>3, <1>4 DEF AnswersMove
<1>5. ASSUME pending' = [pending EXCEPT ![u] = Drop(pending[u], {a.n})],
             \/ log' = log
             \/ log[u][a.n].kind # "close" /\ log' = [log EXCEPT ![u][a.n].outcome = a.outcome]
      PROVE  AnswersMove
  <2> DEFINE w == Drop(pending[u], {a.n})
             x == [log[u][a.n] EXCEPT !.outcome = a.outcome]
             e == [log[u] EXCEPT ![a.n] = x]
  <2>1. DOMAIN w = DOMAIN pending[u] \ {a.n} /\ \A n \in DOMAIN w : w[n] = pending[u][n]
    BY DEF Drop
  <2>2. /\ x \in Entries /\ x.kind = log[u][a.n].kind /\ x.tx = log[u][a.n].tx
        /\ x.ran = log[u][a.n].ran /\ x.outcome = a.outcome
        /\ a.outcome \in {"OK", "UNKNOWN"}
    <3>1. log[u][a.n] \in Entries
      BY <1>1, <1>3
    <3> QED
      BY <1>1, <3>1 DEF Entries, Answers, Outcomes
  <2>3. log' = log \/ (log[u][a.n].kind # "close" /\ log' = [log EXCEPT ![u] = e])
    BY <1>1, <1>3, <1>5
  <2>4. /\ e \in Seq(Entries) /\ DOMAIN e = DOMAIN log[u]
        /\ \A n \in DOMAIN log[u] : e[n] = IF n = a.n THEN x ELSE log[u][n]
    <3>1. log[u] \in Seq(Entries)
      BY <1>1, <1>3
    <3> HIDE DEF x
    <3> QED
      BY <1>1, <2>2, <3>1
  <2> HIDE DEF w, x, e
  <2>5. /\ DOMAIN pending' = Tabs
        /\ \A s \in Tabs : pending'[s] = IF s = u THEN w ELSE pending[s]
    BY <1>1, <1>3, <1>5 DEF w
  <2>6. /\ log' \in [Tabs -> Seq(Entries)]
        /\ \A s \in Tabs :
             log'[s] = log[s] \/ (s = u /\ log'[s] = e /\ log[u][a.n].kind # "close")
    BY <1>1, <1>3, <2>3, <2>4
  <2>7. ASSUME NEW s \in Tabs, NEW n \in DOMAIN log[s]
        PROVE  /\ log'[s][n].kind = log[s][n].kind /\ log'[s][n].tx = log[s][n].tx
               /\ log'[s][n].ran = log[s][n].ran
               /\ \/ log'[s][n].outcome = log[s][n].outcome
                  \/ /\ s = u /\ n = a.n /\ log[s][n].kind # "close"
                     /\ log'[s][n].outcome = "UNKNOWN"
                        \/ (log'[s][n].outcome = "OK" /\ Len(log[s][n].ran) = 1)
    BY <1>1, <2>2, <2>4, <2>6
  <2>8. ASSUME NEW s \in Tabs, NEW n \in DOMAIN pending'[s]
        PROVE  /\ n \in DOMAIN pending[s] /\ pending'[s][n] = pending[s][n]
               /\ log'[s][n].outcome = "waiting"
    <3>1. n \in DOMAIN pending[s] /\ pending'[s][n] = pending[s][n] /\ (s = u => n # a.n)
      BY <2>1, <2>5
    <3>2. n \in DOMAIN log[s] /\ log[s][n].outcome = "waiting"
      BY <1>3, <3>1
    <3>3. log'[s][n].outcome = log[s][n].outcome
      BY <2>7, <3>1, <3>2
    <3> QED
      BY <3>1, <3>2, <3>3
  <2>9. \A s \in Tabs : DOMAIN log'[s] = DOMAIN log[s]
    BY <2>4, <2>6
  <2> QED
    BY <1>2, <1>3, <2>5, <2>6, <2>7, <2>8, <2>9 DEF AnswersMove, Unanswered
<1>6. \/ UNCHANGED <<pending, log>>
      \/ /\ pending' = [pending EXCEPT ![u] = Drop(pending[u], {a.n})]
         /\ \/ log' = log
            \/ log[u][a.n].kind # "close" /\ log' = [log EXCEPT ![u][a.n].outcome = a.outcome]
  BY DEF Respond, u
<1> QED
  BY <1>4, <1>5, <1>6

\* ShutdownEnds: the close is acknowledged, and what the tab waited for is dropped.
LEMMA ShutdownEndsMoves ==
    ASSUME IInv, NEW t \in Tabs, ShutdownEnds(t)
    PROVE  AnswersMove
<1> DEFINE ids == {n \in DOMAIN log[t] : log[t][n].kind = "close"}
           e == Settled(log[t], ids, "OK")
<1>1. /\ log' = [log EXCEPT ![t] = e] /\ pending' = [pending EXCEPT ![t] = <<>>]
      /\ UNCHANGED <<routed, replies>>
  BY DEF ShutdownEnds
<1>2. /\ log \in [Tabs -> Seq(Entries)] /\ DOMAIN pending = Tabs /\ replies \subseteq Answers
      /\ \A s \in Tabs : \A n \in DOMAIN pending[s] :
           n \in DOMAIN log[s] /\ log[s][n].outcome = "waiting"
  BY DEF IInv, TypeOK, RequestInv
<1>3. /\ e \in Seq(Entries) /\ DOMAIN e = DOMAIN log[t]
      /\ \A n \in DOMAIN log[t] :
           /\ e[n].kind = log[t][n].kind /\ e[n].tx = log[t][n].tx
           /\ e[n].ran = log[t][n].ran
           /\ e[n].outcome = IF log[t][n].kind = "close" THEN "OK" ELSE log[t][n].outcome
  <2>1. log[t] \in Seq(Entries) /\ "OK" \in Outcomes
    BY <1>2 DEF Outcomes
  <2> QED
    BY <2>1, SettledEffect
<1> HIDE DEF e
<1>4. \A s \in Tabs : /\ log'[s] = IF s = t THEN e ELSE log[s]
                      /\ pending'[s] = IF s = t THEN <<>> ELSE pending[s]
  BY <1>1, <1>2
<1>5. log' \in [Tabs -> Seq(Entries)] /\ DOMAIN pending' = Tabs
  BY <1>1, <1>2, <1>3
<1>6. ASSUME NEW s \in Tabs, NEW n \in DOMAIN log[s]
      PROVE  /\ log'[s][n].kind = log[s][n].kind /\ log'[s][n].tx = log[s][n].tx
             /\ log'[s][n].ran = log[s][n].ran
             /\ \/ log'[s][n].outcome = log[s][n].outcome
                \/ log'[s][n].outcome = "OK" /\ log[s][n].kind = "close" /\ s = t
  BY <1>3, <1>4
<1>7. ASSUME NEW s \in Tabs
      PROVE  /\ DOMAIN log'[s] = DOMAIN log[s]
             /\ \A n \in DOMAIN pending'[s] :
                  /\ n \in DOMAIN pending[s] /\ pending'[s][n] = pending[s][n]
                  /\ log'[s][n].outcome = "waiting"
  <2>1. CASE s = t
    BY <1>3, <1>4, <2>1
  <2>2. CASE s # t
    BY <1>2, <1>4, <2>2
  <2> QED
    BY <2>1, <2>2
<1> QED
  BY <1>1, <1>2, <1>5, <1>6, <1>7 DEF AnswersMove

\* Every step is one of the two.
LEMMA MovesStep ==
    ASSUME IInv, Next
    PROVE  (RequestsMove /\ UNCHANGED replies) \/ AnswersMove
<1> DEFINE Goal == (RequestsMove /\ UNCHANGED replies) \/ AnswersMove
<1>1. ASSUME NEW t \in Tabs,
             \/ Start(t) \/ CloseByOwner(t) \/ CloseAlone(t)
             \/ \E kind \in Kinds : Submit(t, kind) \/ SubmitRefused(t, kind)
      PROVE  Goal
  BY <1>1, AskingMoves
<1>2. ASSUME NEW t \in Tabs,
             \/ Join(t) \/ Begin(t) \/ Opened(t) \/ OpenFails(t) \/ QueryAnswered(t) \/ Crash(t)
             \/ \E s \in Tabs : HearFailure(s, t)
      PROVE  Goal
  BY <1>2, WorkingMoves
<1>3. ASSUME NEW t \in Tabs,
             \/ Refresh(t) \/ Elect(t) \/ Retired(t) \/ Emit(t)
             \/ \E s \in Tabs : HearDiscover(s, t) \/ HearLeader(s, t) \/ HearEvent(s, t)
      PROVE  Goal
  <2>1. UNCHANGED <<log, pending, routed, replies>>
    BY <1>3 DEF Refresh, Elect, Retired, Emit, HearDiscover, HearLeader, HearEvent
  <2> QED
    BY <2>1, StillMove
<1>4. ASSUME NEW t \in Tabs, NEW r \in routed, Serve(t, r) \/ Retire(t, r)
      PROVE  Goal
  BY <1>4, ServeMoves, RetireMoves
<1>5. ASSUME NEW a \in replies, Respond(a)
      PROVE  Goal
  BY <1>5, RespondMoves
<1>6. ASSUME NEW t \in Tabs, ShutdownEnds(t)
      PROVE  Goal
  BY <1>6, ShutdownEndsMoves
<1>7. ASSUME FileReleased
      PROVE  Goal
  <2>1. UNCHANGED <<log, pending, routed, replies>>
    BY <1>7 DEF FileReleased
  <2> QED
    BY <2>1, StillMove
<1> HIDE DEF Goal
<1>8. Goal
  BY <1>1, <1>2, <1>3, <1>4, <1>5, <1>6, <1>7 DEF Next, Works, Hear
<1> QED
  BY <1>8 DEF Goal

\* Every step keeps what is known of requests.
LEMMA RequestStep ==
    ASSUME IInv, Next
    PROVE  RequestInv' /\ (RunsAtMostOnce /\ RunsUnderItsOwner)'
  BY MovesStep, PersistStep, MoveKeeps, AnswerKeeps

-----------------------------------------------------------------------------
(* Announcements are true, wherever they are. *)

\* IsTrue, in the state that a step leads to.
NowTrue(m) ==
    /\ m.epoch # NoEpoch
    /\ m.owner \in Tabs
    /\ owner'[m.owner].epoch = m.epoch
    /\ tab'[m.owner].release = m.release
    /\ m.ready => owner'[m.owner].phase # "opening"

\* What an owner has announced stays true.
LEMMA TruePersists ==
    ASSUME IInv, OwnersPersist, NEW m, IsTrue(m)
    PROVE  NowTrue(m)
<1>1. m.owner \in Tabs /\ owner[m.owner].epoch # NoEpoch /\ owner[m.owner].epoch = m.epoch
  BY DEF IsTrue
<1>2. owner[m.owner].phase # "none"
  BY <1>1 DEF IInv, EpochInv
<1>3. log[m.owner] # <<>>
  BY <1>1, <1>2 DEF IInv, UnstartedInv
<1>4. /\ owner'[m.owner].epoch = owner[m.owner].epoch
      /\ owner[m.owner].phase # "opening" => owner'[m.owner].phase # "opening"
      /\ tab'[m.owner].release = tab[m.owner].release
  BY <1>1, <1>3 DEF OwnersPersist
<1> QED
  BY <1>1, <1>4 DEF IsTrue, NowTrue

\* `channels` hold nothing that is not under way already.
Derived(channels) ==
    /\ channels \in [Tabs -> [Tabs -> Seq(Messages)]]
    /\ \A u, v \in Tabs :
         /\ \A i \in DOMAIN channels[u][v] :
              \E j \in DOMAIN group[u][v] : channels[u][v][i] = group[u][v][j]
         /\ ~tab[v].here => channels[u][v] = <<>>

\* What a step does to the channels.
GroupMoves ==
    /\ group' \in [Tabs -> [Tabs -> Seq(Messages)]]
    /\ \A u, v \in Tabs :
         /\ \A i \in DOMAIN group'[u][v] :
              \/ \E j \in DOMAIN group[u][v] : group'[u][v][i] = group[u][v][j]
              \/ group'[u][v][i].kind = "leader" => NowTrue(group'[u][v][i].leader)
         /\ ~tab'[v].here => group'[u][v] = <<>>

\* What is under way, before anything is heard or sent.
LEMMA GroupDerived ==
    ASSUME IInv
    PROVE  Derived(group)
  BY DEF IInv, TypeOK, UnstartedInv, Derived

\* What is under way, once one message has been heard.
LEMMA HeardDerived ==
    ASSUME IInv, NEW u \in Tabs, NEW v \in Tabs, group[u][v] # <<>>
    PROVE  Derived(Heard(u, v)) /\ Head(group[u][v]) \in Messages
<1>0. TypeOK /\ Derived(group)
  BY GroupDerived DEF IInv
<1>1. TypeOK /\ Derived(group) /\ group[u][v] \in Seq(Messages)
  BY <1>0 DEF Derived
<1>2. /\ Heard(u, v) \in [Tabs -> [Tabs -> Seq(Messages)]]
      /\ Head(group[u][v]) \in Messages
      /\ \A s, t \in Tabs :
           Heard(u, v)[s][t] = IF s = u /\ t = v THEN Tail(group[s][t]) ELSE group[s][t]
  BY <1>1, HeardEffect
<1>3. \A i \in DOMAIN Tail(group[u][v]) :
        i + 1 \in DOMAIN group[u][v] /\ Tail(group[u][v])[i] = group[u][v][i + 1]
  BY <1>1
<1>4. tab[v].here
  BY <1>1 DEF Derived
<1>5. ASSUME NEW s \in Tabs, NEW t \in Tabs
      PROVE  /\ \A i \in DOMAIN Heard(u, v)[s][t] :
                  \E j \in DOMAIN group[s][t] : Heard(u, v)[s][t][i] = group[s][t][j]
             /\ ~tab[t].here => Heard(u, v)[s][t] = <<>>
  <2>1. CASE s = u /\ t = v
    <3>1. Heard(u, v)[s][t] = Tail(group[u][v])
      BY <1>2, <2>1
    <3> QED
      BY <1>3, <1>4, <2>1, <3>1
  <2>2. CASE ~(s = u /\ t = v)
    <3>1. Heard(u, v)[s][t] = group[s][t]
      BY <1>2, <2>2
    <3> QED
      BY <1>1, <3>1 DEF Derived
  <2> QED
    BY <2>1, <2>2
<1> QED
  BY <1>2, <1>5 DEF Derived

\* Channels that are derived, with or without one message more.
LEMMA PostMoves ==
    ASSUME NEW t \in Tabs, NEW channels, Derived(channels), NEW m \in Messages,
           group' = channels \/ group' = Broadcast(channels, t, m),
           m.kind = "leader" => NowTrue(m.leader),
           \A v \in Tabs : tab'[v].here = tab[v].here
    PROVE  GroupMoves
<1>1. channels \in [Tabs -> [Tabs -> Seq(Messages)]]
  BY DEF Derived
<1>2. CASE group' = channels
  BY <1>2 DEF Derived, GroupMoves
<1>3. CASE group' = Broadcast(channels, t, m)
  <2>1. /\ Broadcast(channels, t, m) \in [Tabs -> [Tabs -> Seq(Messages)]]
        /\ \A u, v \in Tabs :
             Broadcast(channels, t, m)[u][v] =
                 IF u = t /\ v # t /\ tab[v].here THEN Append(channels[u][v], m)
                 ELSE channels[u][v]
    BY <1>1, BroadcastEffect
  <2>2. ASSUME NEW u \in Tabs, NEW v \in Tabs
        PROVE  /\ \A i \in DOMAIN group'[u][v] :
                    \/ \E j \in DOMAIN group[u][v] : group'[u][v][i] = group[u][v][j]
                    \/ group'[u][v][i] = m
               /\ ~tab'[v].here => group'[u][v] = <<>>
    <3>1. CASE u = t /\ v # t /\ tab[v].here
      <4>1. group'[u][v] = Append(channels[u][v], m) /\ channels[u][v] \in Seq(Messages)
        BY <1>1, <1>3, <2>1, <3>1
      <4>2. \A i \in DOMAIN group'[u][v] :
              \/ i \in DOMAIN channels[u][v] /\ group'[u][v][i] = channels[u][v][i]
              \/ group'[u][v][i] = m
        BY <4>1
      <4>3. \A i \in DOMAIN channels[u][v] :
              \E j \in DOMAIN group[u][v] : channels[u][v][i] = group[u][v][j]
        BY DEF Derived
      <4>4. tab'[v].here
        BY <3>1
      <4>5. ASSUME NEW i \in DOMAIN group'[u][v]
            PROVE  \/ \E j \in DOMAIN group[u][v] : group'[u][v][i] = group[u][v][j]
                   \/ group'[u][v][i] = m
        BY <4>2, <4>3
      <4> QED
        BY <4>4, <4>5
    <3>2. CASE ~(u = t /\ v # t /\ tab[v].here)
      <4>1. group'[u][v] = channels[u][v]
        BY <1>3, <2>1, <3>2
      <4>2. /\ \A i \in DOMAIN channels[u][v] :
                 \E j \in DOMAIN group[u][v] : channels[u][v][i] = group[u][v][j]
            /\ ~tab[v].here => channels[u][v] = <<>>
        BY DEF Derived
      <4>3. tab'[v].here = tab[v].here
        OBVIOUS
      <4> QED
        BY <4>1, <4>2, <4>3
    <3> QED
      BY <3>1, <3>2
  <2> QED
    BY <1>3, <2>1, <2>2 DEF GroupMoves
<1> QED
  BY <1>2, <1>3

\* The announcement that a tab goes by.
LEMMA LeaderIsTrue ==
    ASSUME IInv, NEW t \in Tabs, leader[t] # NoLeader
    PROVE  /\ IsTrue(leader[t])
           /\ [leader[t] EXCEPT !.ready = FALSE] \in Announcements
           /\ IsTrue([leader[t] EXCEPT !.ready = FALSE])
<1>1. leader[t] \in Announcements
  BY DEF IInv, TypeOK
<1>2. IsTrue(leader[t])
  BY DEF IInv, AnnouncementInv
<1> DEFINE m == [leader[t] EXCEPT !.ready = FALSE]
<1>3. /\ m \in Announcements /\ m.epoch = leader[t].epoch /\ m.owner = leader[t].owner
      /\ m.release = leader[t].release /\ ~m.ready
  BY <1>1 DEF Announcements
<1> HIDE DEF m
<1>4. IsTrue(m)
  BY <1>2, <1>3 DEF IsTrue
<1> QED
  BY <1>2, <1>3, <1>4 DEF m

\* Nothing is broadcast and nothing heard.
LEMMA StillGroup ==
    ASSUME IInv, UNCHANGED group, \A v \in Tabs : tab'[v].here \/ tab'[v].here = tab[v].here
    PROVE  GroupMoves
<1>1. Derived(group)
  BY GroupDerived
<1> QED
  BY <1>1 DEF Derived, GroupMoves

\* A tab that ends hears nothing more.
LEMMA DeafenMoves ==
    ASSUME IInv, NEW t \in Tabs, group' = Deafen(group, t),
           tab' = [tab EXCEPT ![t].here = FALSE]
    PROVE  GroupMoves
<1>1. TypeOK /\ Derived(group) /\ tab \in [Tabs -> TabStates]
  BY GroupDerived DEF IInv, TypeOK
<1>2. /\ group' \in [Tabs -> [Tabs -> Seq(Messages)]]
      /\ \A u, v \in Tabs : group'[u][v] = IF v = t THEN <<>> ELSE group[u][v]
  BY <1>1, DeafenEffect
<1>3. \A v \in Tabs : v # t => tab'[v] = tab[v]
  BY <1>1
<1>4. ASSUME NEW u \in Tabs, NEW v \in Tabs
      PROVE  /\ \A i \in DOMAIN group'[u][v] :
                  \E j \in DOMAIN group[u][v] : group'[u][v][i] = group[u][v][j]
             /\ ~tab'[v].here => group'[u][v] = <<>>
  <2>1. CASE v = t
    BY <1>2, <2>1
  <2>2. CASE v # t
    <3>1. group'[u][v] = group[u][v] /\ tab'[v] = tab[v]
      BY <1>2, <1>3, <2>2
    <3> QED
      BY <1>1, <3>1 DEF Derived
  <2> QED
    BY <2>1, <2>2
<1> QED
  BY <1>2, <1>4 DEF GroupMoves

\* Shutdown says that the owner it goes by is not ready.
LEMMA ShutdownMoves ==
    ASSUME IInv, OwnersPersist, NEW t \in Tabs, Shutdown(t)
    PROVE  GroupMoves
<1> DEFINE x == [leader[t] EXCEPT !.ready = FALSE]
           m == [kind |-> "leader", leader |-> x]
<1>1. \A v \in Tabs : tab'[v].here = tab[v].here
  BY ShutdownEffect
<1>2. CASE group' = group
  BY <1>1, <1>2, StillGroup
<1>3. CASE leader[t] # NoLeader /\ group' = Broadcast(group, t, m)
  <2>1. x \in Announcements /\ IsTrue(x)
    BY <1>3, LeaderIsTrue
  <2> HIDE DEF x
  <2>2. m \in Messages /\ m.leader = x
    BY <2>1, MessageTypes
  <2>3. NowTrue(x)
    BY <2>1, TruePersists
  <2> HIDE DEF m
  <2>4. Derived(group)
    BY GroupDerived
  <2> QED
    BY <1>1, <1>3, <2>2, <2>3, <2>4, PostMoves
<1>4. group' = group \/ (leader[t] # NoLeader /\ group' = Broadcast(group, t, m))
  BY DEF Shutdown, SpeaksForOwner
<1> QED
  BY <1>2, <1>3, <1>4

\* Every step moves broadcasts as GroupMoves says.
LEMMA GroupStep ==
    ASSUME IInv, Next
    PROVE  GroupMoves
<1>1. OwnersPersist /\ TypeOK /\ Derived(group)
  BY PersistStep, GroupDerived DEF IInv
<1>2. tab \in [Tabs -> TabStates]
  BY DEF IInv, TypeOK
<1>3. [kind |-> "discover"] \in Messages /\ [kind |-> "discover"].kind # "leader"
  BY MessageTypes
<1>4. ASSUME NEW t \in Tabs,
             \/ \E kind \in Kinds : Submit(t, kind) \/ SubmitRefused(t, kind)
             \/ CloseByOwner(t) \/ Elect(t) \/ Retired(t)
             \/ \E r \in routed : Serve(t, r)
      PROVE  GroupMoves
  <2>1. UNCHANGED <<group, tab>>
    BY <1>4 DEF Submit, SubmitRefused, CloseByOwner, Enqueue, Elect, Retired, Serve
  <2> QED
    BY <2>1, StillGroup
<1>5. ASSUME NEW t \in Tabs, Start(t)
      PROVE  GroupMoves
  <2>1. UNCHANGED group /\ \A v \in Tabs : tab'[v].here \/ tab'[v] = tab[v]
    BY <1>2, <1>5 DEF Start, TabStates
  <2> QED
    BY <2>1, StillGroup
<1>6. ASSUME NEW t \in Tabs, QueryAnswered(t)
      PROVE  GroupMoves
  <2>1. UNCHANGED group /\ SameTabs
    BY <1>1, <1>6, PictureIsTrue, AnnounceEffect DEF QueryAnswered
  <2> QED
    BY <2>1, StillGroup DEF SameTabs
<1>7. ASSUME NEW t \in Tabs, Refresh(t) \/ Join(t)
      PROVE  GroupMoves
  <2>1. group' = group \/ group' = Broadcast(group, t, [kind |-> "discover"])
    BY <1>7 DEF Refresh, Join
  <2>2. PICK x \in BOOLEAN : \/ tab' = [tab EXCEPT ![t].refreshRequested = x]
                            \/ tab' = [tab EXCEPT ![t].joined = x]
    BY <1>7 DEF Refresh, Join
  <2>3. \A v \in Tabs : tab'[v].here = tab[v].here
    BY <1>2, <2>2 DEF TabStates
  <2> QED
    BY <1>1, <1>3, <2>1, <2>3, PostMoves
<1>8. ASSUME NEW s \in Tabs, NEW t \in Tabs, HearDiscover(s, t)
      PROVE  GroupMoves
  <2>1. Derived(Heard(s, t)) /\ \A v \in Tabs : tab'[v].here = tab[v].here
    BY <1>8, HeardDerived DEF HearDiscover
  <2>2. CASE group' = Heard(s, t)
    BY <1>3, <2>1, <2>2, PostMoves
  <2>3. CASE group' # Heard(s, t)
    <3> DEFINE m == [kind |-> "leader", leader |-> leader[t]]
    <3>1. leader[t] # NoLeader /\ group' = Broadcast(Heard(s, t), t, m)
      BY <1>8, <2>3 DEF HearDiscover
    <3>2. m \in Messages /\ m.leader = leader[t]
      BY MessageTypes DEF IInv, TypeOK
    <3>3. NowTrue(leader[t])
      BY <1>1, <3>1, LeaderIsTrue, TruePersists
    <3> HIDE DEF m
    <3> QED
      BY <2>1, <3>1, <3>2, <3>3, PostMoves
  <2> QED
    BY <2>2, <2>3
<1>9. ASSUME NEW s \in Tabs, NEW t \in Tabs,
             HearLeader(s, t) \/ HearEvent(s, t) \/ HearFailure(s, t)
      PROVE  GroupMoves
  <2>1. group[s][t] # <<>> /\ group' = Heard(s, t)
    BY <1>9 DEF HearLeader, HearEvent, HearFailure
  <2>2. SameTabs
    BY <1>1, <1>9, StillTabs, TerminateEffect DEF HearLeader, HearEvent, HearFailure, Terminate
  <2>3. \A v \in Tabs : tab'[v].here = tab[v].here
    BY <2>2 DEF SameTabs
  <2> QED
    BY <1>3, <2>1, <2>3, HeardDerived, PostMoves
<1>10. ASSUME NEW t \in Tabs, Begin(t)
       PROVE  GroupMoves
  <2> DEFINE x == Announcement(t, epochs', FALSE)
             m == [kind |-> "leader", leader |-> x]
  <2>1. epochs' \in Nat /\ epochs' # NoEpoch
    BY <1>10 DEF Begin, IInv, TypeOK, NoEpoch
  <2>2. /\ x \in Announcements /\ x.epoch = epochs' /\ x.owner = t /\ ~x.ready
        /\ x.release = tab[t].release
    BY <1>1, <2>1, AnnouncementType
  <2>3. Announce(t, x) /\ group' = Broadcast(group, t, m) /\ owner'[t].epoch = epochs'
    BY <1>10 DEF Begin, IInv, TypeOK
  <2> HIDE DEF x
  <2>4. SameTabs
    BY <1>1, <2>2, <2>3, AnnounceEffect
  <2>5. m \in Messages /\ m.leader = x
    BY <2>2, MessageTypes
  <2>6. NowTrue(x)
    BY <2>1, <2>2, <2>3, <2>4 DEF NowTrue, SameTabs
  <2> HIDE DEF m
  <2> QED
    BY <1>1, <2>3, <2>4, <2>5, <2>6, PostMoves DEF SameTabs
<1>11. ASSUME NEW t \in Tabs, Opened(t)
       PROVE  GroupMoves
  <2> DEFINE x == Announcement(t, owner[t].epoch, TRUE)
             m == [kind |-> "leader", leader |-> x]
  <2>1. owner[t].epoch \in Nat /\ owner[t].epoch # NoEpoch
    BY <1>11 DEF Opened, IInv, TypeOK, EpochInv
  <2>2. /\ x \in Announcements /\ x.epoch = owner[t].epoch /\ x.owner = t
        /\ x.release = tab[t].release
    BY DEF Announcement, Announcements, IInv, TypeOK, TabStates, Owners
  <2>3. /\ Announce(t, x) /\ group' = Broadcast(group, t, m)
        /\ owner'[t].epoch = owner[t].epoch /\ owner'[t].phase = "serving"
    BY <1>11 DEF Opened, IInv, TypeOK
  <2> HIDE DEF x
  <2>4. SameTabs
    BY <1>1, <2>2, <2>3, AnnounceEffect
  <2>5. m \in Messages /\ m.leader = x
    BY <2>2, MessageTypes
  <2>6. NowTrue(x)
    BY <2>1, <2>2, <2>3, <2>4 DEF NowTrue, SameTabs
  <2> HIDE DEF m
  <2> QED
    BY <1>1, <2>3, <2>4, <2>5, <2>6, PostMoves DEF SameTabs
<1>12. ASSUME NEW t \in Tabs, OpenFails(t) \/ \E r \in routed : Retire(t, r)
       PROVE  GroupMoves
  <2>1. PICK e \in Nat : group' = Broadcast(group, t, [kind |-> "failed", epoch |-> e])
    BY <1>12 DEF OpenFails, Retire, IInv, TypeOK, RoutedRequests
  <2>2. SameTabs
    BY <1>1, <1>12, TerminateEffect DEF OpenFails, Terminate, Retire
  <2> DEFINE m == [kind |-> "failed", epoch |-> e]
  <2>3. m \in Messages /\ m.kind # "leader"
    BY MessageTypes
  <2> HIDE DEF m
  <2>4. \A v \in Tabs : tab'[v].here = tab[v].here
    BY <2>2 DEF SameTabs
  <2>5. group' = Broadcast(group, t, m)
    BY <2>1 DEF m
  <2> QED
    BY <1>1, <2>3, <2>4, <2>5, PostMoves
<1>13. ASSUME NEW t \in Tabs, Emit(t)
       PROVE  GroupMoves
  <2> DEFINE m == [kind |-> "event", epoch |-> owner[t].epoch, revision |-> revision]
  <2>1. m \in Messages /\ m.kind # "leader"
    BY MessageTypes DEF IInv, TypeOK
  <2>2. group' = Broadcast(group, t, m) /\ \A v \in Tabs : tab'[v].here = tab[v].here
    BY <1>13 DEF Emit
  <2> HIDE DEF m
  <2> QED
    BY <1>1, <2>1, <2>2, PostMoves
<1>14. ASSUME NEW t \in Tabs, ShutdownEnds(t) \/ Crash(t)
       PROVE  GroupMoves
  BY <1>14, DeafenMoves DEF ShutdownEnds, Crash
<1>15. ASSUME NEW t \in Tabs, CloseAlone(t)
       PROVE  GroupMoves
  BY <1>1, <1>15, ShutdownMoves DEF CloseAlone
<1>16. ASSUME NEW a \in replies, Respond(a)
       PROVE  GroupMoves
  <2>1. a.tab \in Tabs
    BY DEF IInv, TypeOK, Answers
  <2>2. CASE Shutdown(a.tab)
    BY <1>1, <2>1, <2>2, ShutdownMoves
  <2>3. CASE ~Shutdown(a.tab)
    <3>1. /\ UNCHANGED group
          /\ \/ UNCHANGED tab
             \/ \E x \in BOOLEAN : tab' = [tab EXCEPT ![a.tab].initialized = x]
      <4>1. tab[a.tab].initialized \in BOOLEAN
        BY <1>2, <2>1 DEF TabStates
      <4> QED
        BY <1>16, <2>3, <4>1 DEF Respond
    <3>2. \A v \in Tabs : tab'[v].here = tab[v].here
      BY <1>1, <2>1, <3>1, InitializedEffect
    <3> QED
      BY <3>1, <3>2, StillGroup
  <2> QED
    BY <2>2, <2>3
<1>17. ASSUME FileReleased
       PROVE  GroupMoves
  BY <1>17, StillGroup DEF FileReleased
<1> QED
  BY <1>4, <1>5, <1>6, <1>7, <1>8, <1>9, <1>10, <1>11, <1>12, <1>13, <1>14, <1>15, <1>16, <1>17
     DEF Next, Works, Hear

\* The types of what tabs, owners, channels and requests leave of the state.
RestOK ==
    /\ workload \in Workloads
    /\ leader \in [Tabs -> Announcements]
    /\ queries \in [Tabs -> Seq(Announcements)]
    /\ holder \in Owners /\ waiters \in Seq(Tabs)
    /\ epochs \in Nat /\ handle \in Owners /\ revision \in Nat
    /\ unannounced \in BOOLEAN /\ told \in [Tabs -> Nat] /\ refreshes \in Nat

\* Every step keeps the types of the lock, the file, the leaders and the pages.
LEMMA RestStep ==
    ASSUME IInv, Next
    PROVE  RestOK'
<1>1. TypeOK /\ RestOK
  BY DEF IInv, TypeOK, RestOK
<1>2. \A t \in Tabs : t \in Owners
  BY DEF Owners
<1>3. NoTab \in Owners
  BY DEF Owners
<1>4. ASSUME NEW t \in Tabs,
             \/ \E kind \in Kinds : Submit(t, kind) \/ SubmitRefused(t, kind)
             \/ CloseByOwner(t) \/ Start(t)
             \/ \E s \in Tabs : HearDiscover(s, t) \/ HearFailure(s, t)
      PROVE  RestOK'
  <2>1. UNCHANGED <<leader, queries, holder, waiters, epochs, handle, revision, unannounced,
                    told, refreshes, workload>>
    BY <1>4 DEF Submit, SubmitRefused, CloseByOwner, Enqueue, Start, HearDiscover, HearFailure
  <2> QED
    BY <1>1, <2>1 DEF RestOK
<1>5. ASSUME NEW t \in Tabs, Refresh(t)
      PROVE  RestOK'
  <2>1. told' \in [Tabs -> Nat] /\ refreshes' \in Nat
    BY <1>1, <1>5 DEF Refresh, RestOK
  <2> QED
    BY <1>1, <1>5, <2>1 DEF Refresh, RestOK
<1>6. ASSUME NEW t \in Tabs, CloseAlone(t)
      PROVE  RestOK'
  BY <1>1, <1>6, ShutdownEffect DEF CloseAlone, RestOK
<1>7. ASSUME NEW t \in Tabs, Crash(t)
      PROVE  RestOK'
  <2>1. waiters' = RemoveFirst(waiters, t) /\ queries' = [queries EXCEPT ![t] = <<>>]
    BY <1>7 DEF Crash
  <2>2. \A i, j \in DOMAIN waiters : waiters[i] = waiters[j] => i = j
    BY DEF IInv, LockInv
  <2>3. waiters' \in Seq(Tabs)
    BY <1>1, <2>1, <2>2, Withdrawal DEF RestOK
  <2>4. queries' \in [Tabs -> Seq(Announcements)]
    BY <1>1, <2>1 DEF RestOK
  <2> QED
    BY <1>1, <1>3, <1>7, <2>3, <2>4 DEF Crash, RestOK
<1>8. ASSUME NEW t \in Tabs, Join(t) \/ Elect(t)
      PROVE  RestOK'
  <2>1. waiters' = Append(waiters, t) \/ (waiters # <<>> /\ waiters' = Tail(waiters))
    BY <1>8 DEF Join, Elect
  <2>2. waiters' \in Seq(Tabs)
    <3>1. waiters \in Seq(Tabs)
      BY <1>1 DEF RestOK
    <3>2. Append(waiters, t) \in Seq(Tabs)
      BY <3>1
    <3>3. waiters # <<>> => Tail(waiters) \in Seq(Tabs)
      BY <3>1
    <3> QED
      BY <2>1, <3>2, <3>3
  <2>3. holder' \in Owners
    BY <1>1, <1>2, <1>8 DEF Join, Elect, RestOK
  <2> QED
    BY <1>1, <1>8, <2>2, <2>3 DEF Join, Elect, RestOK
<1>9. ASSUME NEW t \in Tabs, Begin(t)
      PROVE  RestOK'
  <2> DEFINE x == Announcement(t, epochs', FALSE)
  <2>0. epochs' = epochs + 1 /\ Announce(t, x)
    BY <1>9 DEF Begin
  <2>1. epochs' \in Nat
    BY <1>1, <2>0 DEF RestOK
  <2>2. x \in Announcements
    BY <1>1, <2>1, AnnouncementType
  <2> HIDE DEF x
  <2>3. leader' \in [Tabs -> Announcements] /\ told' \in [Tabs -> Nat]
    BY <1>1, <2>0, <2>2, AnnounceEffect
  <2> QED
    BY <1>1, <1>9, <2>1, <2>3 DEF Begin, RestOK
<1>10. ASSUME NEW t \in Tabs, Opened(t)
       PROVE  RestOK'
  <2> DEFINE x == Announcement(t, owner[t].epoch, TRUE)
  <2>1. Announce(t, x)
    BY <1>10 DEF Opened
  <2>2. x \in Announcements
    BY <1>1 DEF Announcement, Announcements, TypeOK, TabStates, Owners
  <2> HIDE DEF x
  <2>3. leader' \in [Tabs -> Announcements] /\ told' \in [Tabs -> Nat]
    BY <1>1, <2>1, <2>2, AnnounceEffect
  <2> QED
    BY <1>1, <1>2, <1>10, <2>3 DEF Opened, RestOK
<1>11. ASSUME NEW t \in Tabs, QueryAnswered(t)
       PROVE  RestOK'
  <2>1. queries[t] # <<>> /\ Announce(t, Head(queries[t]))
    BY <1>11 DEF QueryAnswered
  <2>2. Head(queries[t]) \in Announcements
    BY <2>1, PictureIsTrue
  <2>3. leader' \in [Tabs -> Announcements] /\ told' \in [Tabs -> Nat]
    BY <1>1, <2>1, <2>2, AnnounceEffect
  <2>4. queries' \in [Tabs -> Seq(Announcements)]
    BY <1>1, <1>11, <2>1 DEF QueryAnswered, RestOK
  <2> QED
    BY <1>1, <1>11, <2>3, <2>4 DEF QueryAnswered, RestOK
<1>12. ASSUME NEW t \in Tabs, OpenFails(t) \/ Retired(t)
       PROVE  RestOK'
  BY <1>1, <1>3, <1>12 DEF OpenFails, Retired, RestOK
<1>13. ASSUME NEW t \in Tabs, Emit(t)
       PROVE  RestOK'
  BY <1>1, <1>13 DEF Emit, RestOK
<1>14. ASSUME NEW t \in Tabs, ShutdownEnds(t)
       PROVE  RestOK'
  BY <1>1, <1>3, <1>14 DEF ShutdownEnds, RestOK
<1>15. ASSUME NEW s \in Tabs, NEW t \in Tabs, HearLeader(s, t)
       PROVE  RestOK'
  <2>1. group[s][t] # <<>> /\ Head(group[s][t]).kind = "leader"
    BY <1>15 DEF HearLeader
  <2>2. Head(group[s][t]).leader \in Announcements
    BY <2>1, HeardDerived, HeardTypes
  <2>3. queries' \in [Tabs -> Seq(Announcements)]
    BY <1>1, <1>15, <2>2 DEF HearLeader, RestOK
  <2> QED
    BY <1>1, <1>15, <2>3 DEF HearLeader, RestOK
<1>16. ASSUME NEW s \in Tabs, NEW t \in Tabs, HearEvent(s, t)
       PROVE  RestOK'
  <2>1. group[s][t] # <<>> /\ Head(group[s][t]).kind = "event"
    BY <1>16 DEF HearEvent
  <2>2. Head(group[s][t]).revision \in Nat
    BY <2>1, HeardDerived, HeardTypes
  <2>3. told' \in [Tabs -> Nat]
    BY <1>1, <1>16, <2>2 DEF HearEvent, RestOK
  <2> QED
    BY <1>1, <1>16, <2>3 DEF HearEvent, RestOK
<1>17. ASSUME NEW t \in Tabs, NEW r \in routed, Serve(t, r) \/ Retire(t, r)
       PROVE  RestOK'
  <2>1. revision' \in Nat
    BY <1>1, <1>17, RevisionType DEF Serve, Retire, RestOK
  <2>2. unannounced' \in BOOLEAN
    BY <1>1, <1>17 DEF Serve, Retire, RestOK, Publishes
  <2> QED
    BY <1>1, <1>17, <2>1, <2>2 DEF Serve, Retire, RestOK
<1>18. ASSUME NEW a \in replies, Respond(a)
       PROVE  RestOK'
  <2>1. a.tab \in Tabs /\ a.revision \in Nat
    BY DEF IInv, TypeOK, Answers
  <2>2. UNCHANGED <<leader, queries, holder, epochs, handle, revision, unannounced,
                    refreshes, workload>>
    BY <1>18 DEF Respond
  <2>3. \/ UNCHANGED waiters
        \/ Shutdown(a.tab)
    BY <1>18 DEF Respond
  <2>4. waiters' \in Seq(Tabs)
    BY <1>1, <2>1, <2>3, ShutdownEffect DEF RestOK
  <2>5. told' = told \/ told' = [told EXCEPT ![a.tab] = a.revision]
    BY <1>18 DEF Respond
  <2>6. told' \in [Tabs -> Nat]
    BY <1>1, <2>1, <2>5 DEF RestOK
  <2> QED
    BY <1>1, <2>2, <2>4, <2>6 DEF RestOK
<1>19. ASSUME FileReleased
       PROVE  RestOK'
  BY <1>1, <1>3, <1>19 DEF FileReleased, RestOK
<1> QED
  BY <1>4, <1>5, <1>6, <1>7, <1>8, <1>9, <1>10, <1>11, <1>12, <1>13, <1>14, <1>15, <1>16, <1>17,
     <1>18, <1>19 DEF Next, Works, Hear

\* Every step keeps the types.
LEMMA TypeStep ==
    ASSUME IInv, Next
    PROVE  TypeOK'
<1>1. RestOK'
  BY RestStep
<1>2. /\ tab' \in [Tabs -> TabStates]
      /\ owner' \in [Tabs -> [phase : Phases, epoch : Nat]]
  BY PersistStep DEF OwnersPersist
<1>3. group' \in [Tabs -> [Tabs -> Seq(Messages)]]
  BY GroupStep DEF GroupMoves
<1>4. /\ log' \in [Tabs -> Seq(Entries)] /\ DOMAIN pending' = Tabs
      /\ routed' \subseteq RoutedRequests /\ replies' \subseteq Answers
      /\ \A t \in Tabs : /\ DOMAIN pending'[t] \subseteq DOMAIN log'[t]
                         /\ \A n \in DOMAIN pending'[t] : pending'[t][n] \in Nat
  <2>1. CASE RequestsMove /\ UNCHANGED replies
    BY <2>1 DEF RequestsMove, IInv, TypeOK
  <2>2. CASE AnswersMove
    <3>1. /\ routed \subseteq RoutedRequests
          /\ \A t \in Tabs : /\ DOMAIN pending[t] \subseteq DOMAIN log[t]
                             /\ \A n \in DOMAIN pending[t] : pending[t][n] \in Nat
      BY DEF IInv, TypeOK
    <3> QED
      BY <2>2, <3>1 DEF AnswersMove
  <2> QED
    BY <2>1, <2>2, MovesStep
<1> QED
  BY <1>1, <1>2, <1>3, <1>4 DEF RestOK, TypeOK

-----------------------------------------------------------------------------
(* No tab goes back to an earlier owner. *)

\* Every announcement is of an epoch that has been.
LEMMA EpochBound ==
    ASSUME IInv
    PROVE  /\ \A m : IsTrue(m) => m.epoch \in Nat /\ m.epoch <= epochs
           /\ \A t \in Tabs : leader[t].epoch \in Nat /\ leader[t].epoch <= epochs
<1>1. /\ epochs \in Nat
      /\ \A t \in Tabs : owner[t].epoch \in Nat /\ owner[t].epoch <= epochs
  BY DEF IInv, TypeOK, EpochInv
<1>2. ASSUME NEW m, IsTrue(m)
      PROVE  m.epoch \in Nat /\ m.epoch <= epochs
  BY <1>1, <1>2 DEF IsTrue
<1>3. ASSUME NEW t \in Tabs
      PROVE  leader[t].epoch \in Nat /\ leader[t].epoch <= epochs
  <2>1. leader[t] = NoLeader \/ IsTrue(leader[t])
    BY DEF IInv, AnnouncementInv
  <2>2. NoLeader.epoch = 0
    BY DEF NoLeader, NoEpoch
  <2> QED
    BY <1>1, <1>2, <2>1, <2>2
<1> QED
  BY <1>2, <1>3

\* The epoch of an owner that still has the lock is the newest.
LEMMA HolderIsNewest ==
    ASSUME IInv, NEW t \in Tabs, tab[t].here, owner[t].phase \in {"opening", "serving", "retiring"}
    PROVE  holder = t /\ owner[t].epoch = epochs /\ leader[t].epoch = epochs
<1>1. holder = t
  BY DEF IInv, LockInv, Kept
<1>2. t # NoTab
  BY CoordinatorAssumption
<1>3. owner[t].epoch = epochs
  BY <1>1, <1>2 DEF IInv, EpochInv
<1>4. owner[t].epoch \in Nat /\ owner[t].epoch <= leader[t].epoch
  BY DEF IInv, TypeOK, EpochInv
<1> QED
  BY <1>1, <1>3, <1>4, EpochBound

\* The announcement that a tab goes by after a step.
LeadersMove ==
    \A t \in Tabs :
        \/ leader'[t] = leader[t]
        \/ /\ NowTrue(leader'[t]) /\ leader'[t].release = tab[t].release
           /\ log[t] # <<>>
           /\ leader[t].epoch <= leader'[t].epoch

\* Every step moves the owners that tabs go by as LeadersMove says.
LEMMA LeaderStep ==
    ASSUME IInv, Next
    PROVE  LeadersMove
<1>1. TypeOK /\ OwnersPersist
  BY PersistStep DEF IInv
<1>2. ASSUME UNCHANGED leader
      PROVE  LeadersMove
  BY <1>2 DEF LeadersMove
<1>3. ASSUME NEW t \in Tabs, NEW m \in Announcements, Announce(t, m),
             NowTrue(m), leader[t].epoch <= m.epoch, tab[t].here
      PROVE  LeadersMove
  <2>1. /\ \A s \in Tabs : s # t => leader'[s] = leader[s]
        /\ leader'[t] = leader[t] \/ (leader'[t] = m /\ m.release = tab[t].release)
    BY <1>1, <1>3, AnnounceEffect
  <2>2. log[t] # <<>>
    BY <1>3 DEF IInv, UnstartedInv
  <2> QED
    BY <1>3, <2>1, <2>2 DEF LeadersMove
<1>4. ASSUME NEW t \in Tabs, Begin(t)
      PROVE  LeadersMove
  <2> DEFINE x == Announcement(t, epochs', FALSE)
  <2>1. epochs' = epochs + 1 /\ Announce(t, x) /\ owner'[t].epoch = epochs' /\ tab[t].here
    BY <1>4 DEF Begin, IInv, TypeOK, Listening
  <2>2. epochs' \in Nat /\ epochs' # NoEpoch /\ leader[t].epoch <= epochs'
    BY <1>1, <2>1, EpochBound DEF TypeOK, NoEpoch
  <2>3. /\ x \in Announcements /\ x.epoch = epochs' /\ x.owner = t /\ ~x.ready
        /\ x.release = tab[t].release
    BY <1>1, <2>2, AnnouncementType
  <2> HIDE DEF x
  <2>4. SameTabs
    BY <1>1, <2>1, <2>3, AnnounceEffect
  <2>5. NowTrue(x)
    BY <2>1, <2>2, <2>3, <2>4 DEF NowTrue, SameTabs
  <2>6. leader[t].epoch <= x.epoch
    BY <2>2, <2>3
  <2> QED
    BY <1>3, <2>1, <2>3, <2>5, <2>6
<1>5. ASSUME NEW t \in Tabs, Opened(t)
      PROVE  LeadersMove
  <2> DEFINE x == Announcement(t, owner[t].epoch, TRUE)
  <2>1. /\ Announce(t, x) /\ tab[t].here /\ owner[t].phase = "opening"
        /\ owner'[t].epoch = owner[t].epoch /\ owner'[t].phase = "serving"
    BY <1>5 DEF Opened, IInv, TypeOK, Listening
  <2>2. owner[t].epoch = epochs /\ owner[t].epoch # NoEpoch /\ leader[t].epoch <= epochs
    BY <2>1, HolderIsNewest, EpochBound DEF IInv, EpochInv
  <2>3. /\ x \in Announcements /\ x.epoch = owner[t].epoch /\ x.owner = t
        /\ x.release = tab[t].release
    BY <1>1 DEF Announcement, Announcements, TypeOK, TabStates, Owners
  <2> HIDE DEF x
  <2>4. SameTabs
    BY <1>1, <2>1, <2>3, AnnounceEffect
  <2>5. NowTrue(x)
    BY <2>1, <2>2, <2>3, <2>4 DEF NowTrue, SameTabs
  <2>6. leader[t].epoch <= x.epoch
    BY <2>2, <2>3
  <2> QED
    BY <1>3, <2>1, <2>3, <2>5, <2>6
<1>6. ASSUME NEW t \in Tabs, QueryAnswered(t)
      PROVE  LeadersMove
  <2> DEFINE x == Head(queries[t])
  <2>1. queries[t] # <<>> /\ Announce(t, x)
    BY <1>6 DEF QueryAnswered
  <2>2. x \in Announcements /\ IsTrue(x)
    BY <2>1, PictureIsTrue
  <2>3. leader[t].epoch <= x.epoch
    <3>1. x = queries[t][1] /\ 1 \in DOMAIN queries[t]
      BY <2>1 DEF IInv, TypeOK
    <3> QED
      BY <3>1 DEF IInv, OrderInv
  <2>4. tab[t].here
    BY <2>1 DEF IInv, UnstartedInv
  <2> HIDE DEF x
  <2>5. NowTrue(x)
    BY <1>1, <2>2, TruePersists
  <2> QED
    BY <1>3, <2>1, <2>2, <2>3, <2>4, <2>5
<1>7. ASSUME NEW t \in Tabs,
             \/ \E kind \in Kinds : Submit(t, kind) \/ SubmitRefused(t, kind)
             \/ Start(t) \/ Refresh(t) \/ CloseByOwner(t) \/ CloseAlone(t) \/ Crash(t)
      PROVE  UNCHANGED leader
  BY <1>7 DEF Start, Submit, SubmitRefused, Refresh, CloseByOwner, CloseAlone, Crash, Enqueue
<1>8. ASSUME NEW t \in Tabs,
             \/ Join(t) \/ Elect(t) \/ OpenFails(t) \/ Retired(t) \/ Emit(t) \/ ShutdownEnds(t)
             \/ \E s \in Tabs : Hear(s, t)
             \/ \E r \in routed : Serve(t, r) \/ Retire(t, r)
             \/ \E q \in replies : Respond(q)
      PROVE  UNCHANGED leader
  BY <1>8 DEF Join, Elect, OpenFails, Retired, Emit, ShutdownEnds, Hear, HearDiscover,
              HearLeader, HearEvent, HearFailure, Serve, Retire, Respond
<1>9. ASSUME FileReleased
      PROVE  UNCHANGED leader
  BY <1>9 DEF FileReleased
<1> QED
  BY <1>2, <1>4, <1>5, <1>6, <1>7, <1>8, <1>9 DEF Next, Works

\* The pictures that a tab has been sent, after a step.
QueriesMove ==
    \A t \in Tabs :
        /\ \A i \in DOMAIN queries'[t] :
             \/ \E j \in DOMAIN queries[t] : queries'[t][i] = queries[t][j]
             \/ IsTrue(queries'[t][i])
        /\ ~tab'[t].here => queries'[t] = <<>>

\* What a tab hears of an owner is true, and if it asks the browser it is the newest.
LEMMA HeardLeader ==
    ASSUME IInv, NEW s \in Tabs, NEW t \in Tabs, HearLeader(s, t)
    PROVE  LET m == Head(group[s][t]).leader IN
           /\ m \in Announcements /\ IsTrue(m) /\ tab[t].here
           /\ UNCHANGED <<leader, tab>>
           /\ \/ UNCHANGED queries
              \/ queries' = [queries EXCEPT ![t] = Append(queries[t], m)] /\ m.epoch = epochs
<1> DEFINE m == Head(group[s][t]).leader
<1>1. /\ group[s][t] # <<>> /\ Head(group[s][t]).kind = "leader" /\ UNCHANGED <<leader, tab>>
      /\ queries' = IF holder = m.owner THEN [queries EXCEPT ![t] = Append(queries[t], m)]
                    ELSE queries
  BY DEF HearLeader, Confirmed
<1>2. m \in Announcements
  BY <1>1, HeardDerived, HeardTypes
<1>3. group[s][t] \in Seq(Messages)
  BY DEF IInv, TypeOK
<1>4. Head(group[s][t]) = group[s][t][1] /\ 1 \in DOMAIN group[s][t]
  BY <1>1, <1>3
<1>5. IsTrue(m)
  BY <1>1, <1>4 DEF IInv, AnnouncementInv
<1>6. tab[t].here
  BY <1>1 DEF IInv, UnstartedInv
<1>7. holder = m.owner => m.epoch = epochs
  <2>1. m.owner # NoTab
    BY <1>5, CoordinatorAssumption DEF IsTrue
  <2> QED
    BY <1>5, <2>1 DEF IsTrue, IInv, EpochInv
<1> HIDE DEF m
<1>8. /\ m \in Announcements /\ IsTrue(m) /\ tab[t].here
      /\ UNCHANGED <<leader, tab>>
      /\ \/ UNCHANGED queries
         \/ queries' = [queries EXCEPT ![t] = Append(queries[t], m)] /\ m.epoch = epochs
  BY <1>1, <1>2, <1>5, <1>6, <1>7
<1> QED
  BY <1>8 DEF m

\* A picture that arrives leaves the queue.
LEMMA AnsweredEffect ==
    ASSUME IInv, NEW t \in Tabs, QueryAnswered(t)
    PROVE  /\ queries[t] # <<>> /\ Head(queries[t]) = queries[t][1] /\ 1 \in DOMAIN queries[t]
           /\ \A s \in Tabs : s # t => queries'[s] = queries[s]
           /\ \A i \in DOMAIN queries'[t] :
                i + 1 \in DOMAIN queries[t] /\ queries'[t][i] = queries[t][i + 1] /\ i \in Nat
<1>1. /\ queries \in [Tabs -> Seq(Announcements)] /\ queries[t] # <<>>
      /\ queries' = [queries EXCEPT ![t] = Tail(queries[t])]
  BY DEF QueryAnswered, IInv, TypeOK
<1>2. queries[t] \in Seq(Announcements) /\ queries'[t] = Tail(queries[t])
  BY <1>1
<1>3. /\ Head(queries[t]) = queries[t][1] /\ 1 \in DOMAIN queries[t]
      /\ \A i \in DOMAIN Tail(queries[t]) :
           i + 1 \in DOMAIN queries[t] /\ Tail(queries[t])[i] = queries[t][i + 1] /\ i \in Nat
  BY <1>1, <1>2
<1> QED
  BY <1>1, <1>2, <1>3

\* An owner's own announcement leaves its tab where it is.
LEMMA OwnAnnouncement ==
    ASSUME IInv, NEW t \in Tabs, Begin(t) \/ Opened(t)
    PROVE  SameTabs
<1>1. TypeOK
  BY DEF IInv
<1>2. CASE Begin(t)
  <2> DEFINE x == Announcement(t, epochs', FALSE)
  <2>1. epochs' = epochs + 1 /\ Announce(t, x)
    BY <1>2 DEF Begin
  <2>2. epochs' \in Nat
    BY <1>1, <2>1 DEF TypeOK
  <2>3. x \in Announcements
    BY <1>1, <2>2, AnnouncementType
  <2> HIDE DEF x
  <2> QED
    BY <1>1, <2>1, <2>3, AnnounceEffect
<1>3. CASE Opened(t)
  <2> DEFINE x == Announcement(t, owner[t].epoch, TRUE)
  <2>1. Announce(t, x)
    BY <1>3 DEF Opened
  <2>2. x \in Announcements
    BY <1>1 DEF Announcement, Announcements, TypeOK, TabStates, Owners
  <2> HIDE DEF x
  <2> QED
    BY <1>1, <2>1, <2>2, AnnounceEffect
<1> QED
  BY <1>2, <1>3

\* Every step moves the lock's pictures as QueriesMove says.
LEMMA QueriesStep ==
    ASSUME IInv, Next
    PROVE  QueriesMove
<1>0. tab \in [Tabs -> TabStates]
  BY DEF IInv, TypeOK
<1>1. /\ TypeOK /\ tab \in [Tabs -> TabStates] /\ queries \in [Tabs -> Seq(Announcements)]
      /\ \A t \in Tabs : ~tab[t].here => queries[t] = <<>>
  BY DEF IInv, TypeOK, UnstartedInv
<1>2. ASSUME UNCHANGED queries, \A t \in Tabs : tab'[t].here \/ tab'[t].here = tab[t].here
      PROVE  QueriesMove
  BY <1>1, <1>2 DEF QueriesMove
<1>3. ASSUME NEW s \in Tabs, NEW t \in Tabs, HearLeader(s, t)
      PROVE  QueriesMove
  <2> DEFINE m == Head(group[s][t]).leader
  <2>1. /\ m \in Announcements /\ IsTrue(m) /\ tab[t].here /\ UNCHANGED tab
        /\ \/ UNCHANGED queries
           \/ queries' = [queries EXCEPT ![t] = Append(queries[t], m)]
    BY <1>3, HeardLeader
  <2> HIDE DEF m
  <2>2. CASE UNCHANGED queries
    BY <1>2, <2>1, <2>2
  <2>3. CASE queries' = [queries EXCEPT ![t] = Append(queries[t], m)]
    <3>1. /\ queries'[t] = Append(queries[t], m) /\ queries[t] \in Seq(Announcements)
          /\ \A u \in Tabs : u # t => queries'[u] = queries[u]
      BY <1>1, <2>3
    <3>2. \A i \in DOMAIN queries'[t] :
            \/ i \in DOMAIN queries[t] /\ queries'[t][i] = queries[t][i]
            \/ queries'[t][i] = m
      BY <2>1, <3>1
    <3> QED
      BY <1>1, <2>1, <3>1, <3>2 DEF QueriesMove
  <2> QED
    BY <2>1, <2>2, <2>3
<1>4. ASSUME NEW t \in Tabs, QueryAnswered(t)
      PROVE  QueriesMove
  <2>1. SameTabs
    BY <1>1, <1>4, PictureIsTrue, AnnounceEffect DEF QueryAnswered
  <2>2. /\ queries[t] # <<>> /\ \A s \in Tabs : s # t => queries'[s] = queries[s]
        /\ \A i \in DOMAIN queries'[t] :
             \E j \in DOMAIN queries[t] : queries'[t][i] = queries[t][j]
    BY <1>4, AnsweredEffect
  <2> QED
    BY <1>1, <2>1, <2>2 DEF QueriesMove, SameTabs
<1>5. ASSUME NEW t \in Tabs, ShutdownEnds(t) \/ Crash(t)
      PROVE  QueriesMove
  <2>1. /\ queries'[t] = <<>>
        /\ \A s \in Tabs : s # t => queries'[s] = queries[s] /\ tab'[s] = tab[s]
    BY <1>1, <1>5 DEF ShutdownEnds, Crash
  <2> QED
    BY <1>1, <2>1 DEF QueriesMove
<1>6. ASSUME NEW t \in Tabs,
             \/ \E kind \in Kinds : Submit(t, kind) \/ SubmitRefused(t, kind)
             \/ CloseByOwner(t) \/ Elect(t) \/ Retired(t) \/ Emit(t)
             \/ \E s \in Tabs : HearDiscover(s, t) \/ HearEvent(s, t)
             \/ \E r \in routed : Serve(t, r)
      PROVE  QueriesMove
  <2>1. UNCHANGED <<queries, tab>>
    BY <1>6 DEF Submit, SubmitRefused, CloseByOwner, Enqueue, Elect, Retired, Emit,
                HearDiscover, HearEvent, Serve
  <2> QED
    BY <1>2, <2>1
<1>7. ASSUME NEW t \in Tabs, Start(t)
      PROVE  QueriesMove
  <2>1. UNCHANGED queries /\ \A v \in Tabs : tab'[v].here \/ tab'[v] = tab[v]
    BY <1>1, <1>7 DEF Start, TabStates
  <2> QED
    BY <1>2, <2>1
<1>8. ASSUME NEW t \in Tabs, Refresh(t) \/ Join(t)
      PROVE  QueriesMove
  <2>1. UNCHANGED queries
    BY <1>8 DEF Refresh, Join
  <2>2. PICK x \in BOOLEAN : \/ tab' = [tab EXCEPT ![t].refreshRequested = x]
                            \/ tab' = [tab EXCEPT ![t].joined = x]
    BY <1>8 DEF Refresh, Join
  <2>3. \A v \in Tabs : tab'[v].here = tab[v].here
    BY <1>0, <2>2 DEF TabStates
  <2> QED
    BY <1>2, <2>1, <2>3
<1>9. ASSUME NEW t \in Tabs, Begin(t) \/ Opened(t)
      PROVE  QueriesMove
  <2>1. UNCHANGED queries
    BY <1>9 DEF Begin, Opened
  <2>3. SameTabs
    BY <1>9, OwnAnnouncement
  <2> QED
    BY <1>2, <2>1, <2>3 DEF SameTabs
<1>10. ASSUME NEW t \in Tabs, \/ OpenFails(t) \/ \E r \in routed : Retire(t, r)
                              \/ \E s \in Tabs : HearFailure(s, t)
       PROVE  QueriesMove
  <2>1. UNCHANGED queries
    BY <1>10 DEF OpenFails, Retire, HearFailure
  <2>2. SameTabs
    BY <1>1, <1>10, TerminateEffect, StillTabs DEF OpenFails, Terminate, Retire, HearFailure
  <2> QED
    BY <1>2, <2>1, <2>2 DEF SameTabs
<1>11. ASSUME NEW t \in Tabs, CloseAlone(t)
       PROVE  QueriesMove
  BY <1>2, <1>11, ShutdownEffect DEF CloseAlone
<1>12. ASSUME NEW a \in replies, Respond(a)
       PROVE  QueriesMove
  <2>1. a.tab \in Tabs /\ UNCHANGED queries
    BY <1>12 DEF IInv, TypeOK, Answers, Respond
  <2>2. CASE Shutdown(a.tab)
    BY <1>2, <2>1, <2>2, ShutdownEffect
  <2>3. CASE ~Shutdown(a.tab)
    <3>1. \/ UNCHANGED tab
          \/ \E x \in BOOLEAN : tab' = [tab EXCEPT ![a.tab].initialized = x]
      <4>1. tab[a.tab].initialized \in BOOLEAN
        BY <1>1, <2>1 DEF TabStates
      <4> QED
        BY <1>12, <2>3, <4>1 DEF Respond
    <3>2. \A v \in Tabs : tab'[v].here = tab[v].here
      BY <1>1, <2>1, <3>1, InitializedEffect
    <3> QED
      BY <1>2, <2>1, <3>2
  <2> QED
    BY <2>2, <2>3
<1>13. ASSUME FileReleased
       PROVE  QueriesMove
  BY <1>2, <1>13 DEF FileReleased
<1> QED
  BY <1>3, <1>4, <1>5, <1>6, <1>7, <1>8, <1>9, <1>10, <1>11, <1>12, <1>13 DEF Next, Works, Hear

\* Every step leaves announcements true.
LEMMA AnnouncementStep ==
    ASSUME IInv, Next
    PROVE  AnnouncementInv'
<1>1. OwnersPersist /\ LeadersMove /\ QueriesMove /\ GroupMoves
  BY PersistStep, LeaderStep, QueriesStep, GroupStep
<1>2. ASSUME NEW t \in Tabs
      PROVE  \/ leader'[t] = NoLeader
             \/ NowTrue(leader'[t]) /\ leader'[t].release = tab'[t].release
  <2>1. CASE leader'[t] = leader[t]
    <3>1. CASE leader[t] = NoLeader
      BY <2>1, <3>1
    <3>2. CASE leader[t] # NoLeader
      <4>1. IsTrue(leader[t]) /\ leader[t].release = tab[t].release
        BY <3>2 DEF IInv, AnnouncementInv
      <4>2. log[t] # <<>>
        BY <3>2 DEF IInv, UnstartedInv
      <4>3. tab'[t].release = tab[t].release
        BY <1>1, <4>2 DEF OwnersPersist
      <4>4. NowTrue(leader[t])
        BY <1>1, <4>1, TruePersists
      <4> QED
        BY <2>1, <4>1, <4>3, <4>4
    <3> QED
      BY <3>1, <3>2
  <2>2. CASE leader'[t] # leader[t]
    <3>1. NowTrue(leader'[t]) /\ leader'[t].release = tab[t].release /\ log[t] # <<>>
      BY <1>1, <2>2 DEF LeadersMove
    <3>2. tab'[t].release = tab[t].release
      BY <1>1, <3>1 DEF OwnersPersist
    <3> QED
      BY <3>1, <3>2
  <2> QED
    BY <2>1, <2>2
<1>3. ASSUME NEW t \in Tabs, NEW i \in DOMAIN queries'[t]
      PROVE  NowTrue(queries'[t][i])
  <2>1. \/ \E j \in DOMAIN queries[t] : queries'[t][i] = queries[t][j]
        \/ IsTrue(queries'[t][i])
    BY <1>1, <1>3 DEF QueriesMove
  <2>2. \A j \in DOMAIN queries[t] : IsTrue(queries[t][j])
    BY DEF IInv, AnnouncementInv
  <2>3. PICK m : m = queries'[t][i] /\ IsTrue(m)
    BY <2>1, <2>2
  <2>4. NowTrue(m)
    BY <1>1, <2>3, TruePersists
  <2> QED
    BY <2>3, <2>4
<1>4. ASSUME NEW u \in Tabs, NEW v \in Tabs, NEW i \in DOMAIN group'[u][v],
             group'[u][v][i].kind = "leader"
      PROVE  NowTrue(group'[u][v][i].leader)
  <2>1. CASE \E j \in DOMAIN group[u][v] : group'[u][v][i] = group[u][v][j]
    <3>1. PICK m : m = group'[u][v][i] /\ \E j \in DOMAIN group[u][v] : m = group[u][v][j]
      BY <2>1
    <3>2. IsTrue(m.leader)
      BY <1>4, <3>1 DEF IInv, AnnouncementInv
    <3>3. NowTrue(m.leader)
      BY <1>1, <3>2, TruePersists
    <3> QED
      BY <3>1, <3>3
  <2>2. CASE ~\E j \in DOMAIN group[u][v] : group'[u][v][i] = group[u][v][j]
    BY <1>1, <1>4, <2>2 DEF GroupMoves
  <2> QED
    BY <2>1, <2>2
<1>5. \A t \in Tabs :
        \/ leader'[t] = NoLeader
        \/ IsTrue(leader[t])' /\ leader'[t].release = tab'[t].release
  BY <1>2 DEF NowTrue, IsTrue
<1>6. \A t \in Tabs : \A i \in DOMAIN queries'[t] : IsTrue(queries[t][i])'
  BY <1>3 DEF NowTrue, IsTrue
<1>7. \A u, v \in Tabs : \A i \in DOMAIN group'[u][v] :
        group'[u][v][i].kind = "leader" => IsTrue(group[u][v][i].leader)'
  BY <1>4 DEF NowTrue, IsTrue
<1> QED
  BY <1>5, <1>6, <1>7 DEF AnnouncementInv

\* Every step leaves the lock's pictures in the order of the owners.
LEMMA OrderStep ==
    ASSUME IInv, Next
    PROVE  OrderInv'
<1>1. /\ OrderInv /\ queries \in [Tabs -> Seq(Announcements)] /\ epochs \in Nat
      /\ leader \in [Tabs -> Announcements]
  BY DEF IInv, TypeOK
<1>2. \A t \in Tabs : \A i \in DOMAIN queries[t] :
        queries[t][i].epoch \in Nat /\ queries[t][i].epoch <= epochs
  BY EpochBound DEF IInv, AnnouncementInv
<1>3. \A t \in Tabs : leader[t].epoch \in Nat /\ leader[t].epoch <= epochs
  BY EpochBound
<1>4. ASSUME UNCHANGED <<leader, queries>>
      PROVE  OrderInv'
  BY <1>1, <1>4 DEF OrderInv
<1>5. ASSUME NEW t \in Tabs, ShutdownEnds(t) \/ Crash(t)
      PROVE  OrderInv'
  <2>1. /\ UNCHANGED leader /\ queries'[t] = <<>>
        /\ \A s \in Tabs : s # t => queries'[s] = queries[s]
    BY <1>1, <1>5 DEF ShutdownEnds, Crash
  <2>2. DOMAIN queries'[t] = {}
    BY <2>1
  <2> QED
    BY <1>1, <2>1, <2>2 DEF OrderInv
<1>6. ASSUME NEW s \in Tabs, NEW t \in Tabs, HearLeader(s, t)
      PROVE  OrderInv'
  <2> DEFINE m == Head(group[s][t]).leader
  <2>1. /\ UNCHANGED leader
        /\ \/ UNCHANGED queries
           \/ queries' = [queries EXCEPT ![t] = Append(queries[t], m)] /\ m.epoch = epochs
    BY <1>6, HeardLeader
  <2> HIDE DEF m
  <2>2. CASE UNCHANGED queries
    BY <1>4, <2>1, <2>2
  <2>3. CASE queries' = [queries EXCEPT ![t] = Append(queries[t], m)] /\ m.epoch = epochs
    <3>1. /\ queries'[t] = Append(queries[t], m) /\ queries[t] \in Seq(Announcements)
          /\ \A u \in Tabs : u # t => queries'[u] = queries[u]
      BY <1>1, <2>3
    <3>2. \A i \in DOMAIN queries'[t] :
            \/ i \in DOMAIN queries[t] /\ queries'[t][i] = queries[t][i]
            \/ i \notin DOMAIN queries[t] /\ queries'[t][i] = m
      BY <3>1
    <3>3. \A i, j \in DOMAIN queries'[t] : i <= j /\ j \in DOMAIN queries[t] => i \in DOMAIN queries[t]
      BY <3>1
    <3>4. \A i \in DOMAIN queries'[t] : leader[t].epoch <= queries'[t][i].epoch
      BY <1>1, <1>3, <2>3, <3>2 DEF OrderInv
    <3>5. \A i, j \in DOMAIN queries'[t] : i <= j => queries'[t][i].epoch <= queries'[t][j].epoch
      BY <1>1, <1>2, <2>3, <3>2, <3>3 DEF OrderInv
    <3> QED
      BY <1>1, <2>1, <3>1, <3>4, <3>5 DEF OrderInv
  <2> QED
    BY <2>1, <2>2, <2>3
<1>7. ASSUME NEW t \in Tabs, QueryAnswered(t)
      PROVE  OrderInv'
  <2>1. /\ queries[t] # <<>> /\ Head(queries[t]) = queries[t][1] /\ 1 \in DOMAIN queries[t]
        /\ \A s \in Tabs : s # t => queries'[s] = queries[s]
        /\ \A i \in DOMAIN queries'[t] :
             i + 1 \in DOMAIN queries[t] /\ queries'[t][i] = queries[t][i + 1] /\ i \in Nat
    BY <1>7, AnsweredEffect
  <2>2. /\ \A s \in Tabs : s # t => leader'[s] = leader[s]
        /\ leader'[t] = leader[t] \/ leader'[t] = queries[t][1]
    <3>1. Announce(t, queries[t][1]) /\ queries[t][1] \in Announcements /\ TypeOK
      BY <1>7, <2>1, PictureIsTrue DEF QueryAnswered, IInv
    <3> QED
      BY <3>1, AnnounceEffect
  <2>3. \A i \in DOMAIN queries'[t] : leader'[t].epoch <= queries'[t][i].epoch
    BY <1>1, <1>2, <2>1, <2>2 DEF OrderInv
  <2>4. \A i, j \in DOMAIN queries'[t] : i <= j => queries'[t][i].epoch <= queries'[t][j].epoch
    BY <1>1, <2>1 DEF OrderInv
  <2> QED
    BY <1>1, <2>1, <2>2, <2>3, <2>4 DEF OrderInv
<1>8. ASSUME NEW t \in Tabs, Begin(t)
      PROVE  OrderInv'
  <2> DEFINE x == Announcement(t, epochs', FALSE)
  <2>1. UNCHANGED queries /\ queries[t] = <<>> /\ epochs' = epochs + 1 /\ Announce(t, x)
    BY <1>8 DEF Begin
  <2>2. x \in Announcements /\ TypeOK
    <3>1. epochs' \in Nat /\ TypeOK
      BY <1>1, <2>1 DEF IInv
    <3> QED
      BY <3>1, AnnouncementType
  <2> HIDE DEF x
  <2>3. \A s \in Tabs : s # t => leader'[s] = leader[s]
    BY <2>1, <2>2, AnnounceEffect
  <2>4. DOMAIN queries[t] = {}
    BY <2>1
  <2> QED
    BY <1>1, <2>1, <2>3, <2>4 DEF OrderInv
<1>9. ASSUME NEW t \in Tabs, Opened(t)
      PROVE  OrderInv'
  <2> DEFINE x == Announcement(t, owner[t].epoch, TRUE)
  <2>1. UNCHANGED queries /\ Announce(t, x) /\ tab[t].here /\ owner[t].phase = "opening"
    BY <1>9 DEF Opened, Listening
  <2>2. x \in Announcements /\ TypeOK /\ x.epoch = owner[t].epoch
    BY DEF Announcement, Announcements, IInv, TypeOK, TabStates, Owners
  <2> HIDE DEF x
  <2>3. /\ \A s \in Tabs : s # t => leader'[s] = leader[s]
        /\ leader'[t] = leader[t] \/ leader'[t] = x
    BY <2>1, <2>2, AnnounceEffect
  <2>4. leader'[t].epoch = leader[t].epoch
    BY <2>1, <2>2, <2>3, HolderIsNewest
  <2> QED
    BY <1>1, <2>1, <2>3, <2>4 DEF OrderInv
<1>10. ASSUME NEW t \in Tabs,
             \/ \E kind \in Kinds : Submit(t, kind) \/ SubmitRefused(t, kind)
             \/ Start(t) \/ Refresh(t) \/ CloseByOwner(t) \/ CloseAlone(t)
       PROVE  UNCHANGED <<leader, queries>>
  BY <1>10 DEF Start, Submit, SubmitRefused, Refresh, CloseByOwner, CloseAlone, Enqueue
<1>11. ASSUME NEW t \in Tabs,
             \/ Join(t) \/ Elect(t) \/ OpenFails(t) \/ Retired(t) \/ Emit(t)
             \/ \E s \in Tabs : HearDiscover(s, t) \/ HearEvent(s, t) \/ HearFailure(s, t)
             \/ \E r \in routed : Serve(t, r) \/ Retire(t, r)
             \/ \E q \in replies : Respond(q)
       PROVE  UNCHANGED <<leader, queries>>
  BY <1>11 DEF Join, Elect, OpenFails, Retired, Emit, HearDiscover,
              HearEvent, HearFailure, Serve, Retire, Respond
<1>12. ASSUME FileReleased
       PROVE  UNCHANGED <<leader, queries>>
  BY <1>12 DEF FileReleased
<1> QED
  BY <1>4, <1>5, <1>6, <1>7, <1>8, <1>9, <1>10, <1>11, <1>12 DEF Next, Works, Hear

\* The owners after a step, one by one.
LEMMA OwnerEffect ==
    ASSUME IInv, Next
    PROVE  \/ UNCHANGED owner
           \/ \E t \in Tabs :
                /\ \A s \in Tabs : s # t => owner'[s] = owner[s]
                /\ \/ Elect(t) /\ owner[t].phase = "none" /\ owner'[t].phase = "elected"
                      /\ owner'[t].epoch = owner[t].epoch /\ holder' = t
                   \/ Begin(t) /\ owner'[t].phase = "opening" /\ owner'[t].epoch = epochs + 1
                   \/ Opened(t) /\ owner'[t].phase = "serving"
                      /\ owner'[t].epoch = owner[t].epoch
                   \/ OpenFails(t) /\ owner'[t].phase = "failed"
                      /\ owner'[t].epoch = owner[t].epoch
                   \/ (\E r \in routed : Retire(t, r)) /\ owner'[t].phase = "retiring"
                      /\ owner'[t].epoch = owner[t].epoch
                   \/ Retired(t) /\ owner'[t].phase = "retired"
                      /\ owner'[t].epoch = owner[t].epoch
<1> DEFINE Goal(t) ==
       /\ \A s \in Tabs : s # t => owner'[s] = owner[s]
       /\ \/ Elect(t) /\ owner[t].phase = "none" /\ owner'[t].phase = "elected"
             /\ owner'[t].epoch = owner[t].epoch /\ holder' = t
          \/ Begin(t) /\ owner'[t].phase = "opening" /\ owner'[t].epoch = epochs + 1
          \/ Opened(t) /\ owner'[t].phase = "serving" /\ owner'[t].epoch = owner[t].epoch
          \/ OpenFails(t) /\ owner'[t].phase = "failed" /\ owner'[t].epoch = owner[t].epoch
          \/ (\E r \in routed : Retire(t, r)) /\ owner'[t].phase = "retiring"
             /\ owner'[t].epoch = owner[t].epoch
          \/ Retired(t) /\ owner'[t].phase = "retired" /\ owner'[t].epoch = owner[t].epoch
<1>1. owner \in [Tabs -> [phase : Phases, epoch : Nat]]
  BY DEF IInv, TypeOK
<1>2. ASSUME NEW t \in Tabs, Elect(t)
      PROVE  UNCHANGED owner \/ Goal(t)
  <2>1. /\ waiters # <<>> /\ t = Head(waiters)
        /\ UNCHANGED owner \/ (holder' = t /\ owner' = [owner EXCEPT ![t].phase = "elected"])
    BY <1>2 DEF Elect
  <2>2. t = waiters[1] /\ 1 \in DOMAIN waiters
    BY <2>1 DEF IInv, TypeOK
  <2>3. owner[t].phase = "none"
    BY <2>2 DEF IInv, LockInv
  <2> QED
    BY <1>1, <1>2, <2>1, <2>3
<1>3. ASSUME NEW t \in Tabs, Begin(t)
      PROVE  Goal(t)
  <2>1. owner' = [owner EXCEPT ![t] = [phase |-> "opening", epoch |-> epochs']] /\ epochs' = epochs + 1
    BY <1>3 DEF Begin
  <2> QED
    BY <1>1, <1>3, <2>1
<1>4. ASSUME NEW t \in Tabs, Opened(t)
      PROVE  Goal(t)
  <2>1. owner' = [owner EXCEPT ![t].phase = "serving"]
    BY <1>4 DEF Opened
  <2> QED
    BY <1>1, <1>4, <2>1
<1>5. ASSUME NEW t \in Tabs, OpenFails(t)
      PROVE  Goal(t)
  <2>1. owner' = [owner EXCEPT ![t].phase = "failed"]
    BY <1>5 DEF OpenFails
  <2> QED
    BY <1>1, <1>5, <2>1
<1>6. ASSUME NEW t \in Tabs, NEW r \in routed, Retire(t, r)
      PROVE  Goal(t)
  <2>1. owner' = [owner EXCEPT ![t].phase = "retiring"]
    BY <1>6 DEF Retire
  <2> QED
    BY <1>1, <1>6, <2>1
<1>7. ASSUME NEW t \in Tabs, Retired(t)
      PROVE  Goal(t)
  <2>1. owner' = [owner EXCEPT ![t].phase = "retired"]
    BY <1>7 DEF Retired
  <2> QED
    BY <1>1, <1>7, <2>1
<1>8. ASSUME NEW t \in Tabs,
             \/ \E kind \in Kinds : Submit(t, kind) \/ SubmitRefused(t, kind)
             \/ Start(t) \/ Refresh(t) \/ CloseByOwner(t) \/ CloseAlone(t) \/ Crash(t)
      PROVE  UNCHANGED owner
  BY <1>8 DEF Start, Submit, SubmitRefused, Refresh, CloseByOwner, CloseAlone, Crash, Enqueue
<1>9. ASSUME NEW t \in Tabs,
             \/ Join(t) \/ Emit(t) \/ QueryAnswered(t) \/ ShutdownEnds(t)
             \/ \E s \in Tabs : Hear(s, t)
             \/ \E r \in routed : Serve(t, r)
             \/ \E q \in replies : Respond(q)
      PROVE  UNCHANGED owner
  BY <1>9 DEF Join, Emit, QueryAnswered, ShutdownEnds, Hear, HearDiscover, HearLeader,
              HearEvent, HearFailure, Serve, Respond
<1>10. ASSUME FileReleased
       PROVE  UNCHANGED owner
  BY <1>10 DEF FileReleased
<1> HIDE DEF Goal
<1>11. UNCHANGED owner \/ \E t \in Tabs : Goal(t)
  BY <1>2, <1>3, <1>4, <1>5, <1>6, <1>7, <1>8, <1>9, <1>10 DEF Next, Works
<1> QED
  BY <1>11 DEF Goal

\* Only Begin gives an epoch, and only Elect the lock.
LEMMA EpochFrame ==
    ASSUME Next
    PROVE  /\ UNCHANGED epochs \/ \E t \in Tabs : Begin(t)
           /\ holder' \in {holder, NoTab} \/ \E t \in Tabs : Elect(t) /\ holder' = t
<1> DEFINE Goal ==
       /\ UNCHANGED epochs \/ \E t \in Tabs : Begin(t)
       /\ holder' \in {holder, NoTab} \/ \E t \in Tabs : Elect(t) /\ holder' = t
<1>1. ASSUME NEW t \in Tabs,
             \/ \E kind \in Kinds : Submit(t, kind) \/ SubmitRefused(t, kind)
             \/ Start(t) \/ Refresh(t) \/ CloseByOwner(t) \/ CloseAlone(t) \/ Crash(t)
      PROVE  UNCHANGED epochs /\ holder' \in {holder, NoTab}
  BY <1>1 DEF Start, Submit, SubmitRefused, Refresh, CloseByOwner, CloseAlone, Crash, Enqueue
<1>2. ASSUME NEW t \in Tabs,
             \/ Join(t) \/ Opened(t) \/ OpenFails(t) \/ Retired(t)
             \/ Emit(t) \/ QueryAnswered(t) \/ ShutdownEnds(t)
             \/ \E s \in Tabs : Hear(s, t)
             \/ \E r \in routed : Serve(t, r) \/ Retire(t, r)
             \/ \E q \in replies : Respond(q)
      PROVE  UNCHANGED epochs /\ holder' \in {holder, NoTab}
  BY <1>2 DEF Join, Opened, OpenFails, Retired, Emit, QueryAnswered, ShutdownEnds, Hear,
              HearDiscover, HearLeader, HearEvent, HearFailure, Serve, Retire, Respond
<1>3. ASSUME NEW t \in Tabs, Elect(t)
      PROVE  Goal
  BY <1>3 DEF Elect
<1>4. ASSUME NEW t \in Tabs, Begin(t)
      PROVE  Goal
  BY <1>4 DEF Begin
<1>5. ASSUME FileReleased
      PROVE  Goal
  BY <1>5 DEF FileReleased
<1>6. UNCHANGED epochs /\ holder' \in {holder, NoTab} => Goal
  OBVIOUS
<1> HIDE DEF Goal
<1>7. Goal
  BY <1>1, <1>2, <1>3, <1>4, <1>5, <1>6 DEF Next, Works
<1> QED
  BY <1>7 DEF Goal

\* A new owner goes by its own announcement.
LEMMA BeginEffect ==
    ASSUME IInv, NEW t \in Tabs, Begin(t)
    PROVE  /\ epochs' = epochs + 1 /\ owner[t].phase = "elected" /\ tab[t].here
           /\ holder = t /\ UNCHANGED holder
           /\ owner'[t].epoch = epochs + 1 /\ leader'[t].epoch = epochs + 1
           /\ owner'[t].phase = "opening"
           /\ \A s \in Tabs : s # t => owner'[s] = owner[s] /\ leader'[s] = leader[s]
<1> DEFINE x == Announcement(t, epochs', FALSE)
<1>1. /\ epochs' = epochs + 1 /\ Announce(t, x) /\ Listening(t) /\ owner[t].phase = "elected"
      /\ owner' = [owner EXCEPT ![t] = [phase |-> "opening", epoch |-> epochs']]
      /\ UNCHANGED holder
  BY DEF Begin
<1>2. TypeOK /\ epochs \in Nat /\ owner \in [Tabs -> [phase : Phases, epoch : Nat]]
  BY DEF IInv, TypeOK
<1>3. epochs' \in Nat
  BY <1>1, <1>2
<1>4. x \in Announcements /\ x.epoch = epochs' /\ x.release = tab[t].release
  BY <1>2, <1>3, AnnouncementType
<1> HIDE DEF x
<1>5. leader'[t] = x /\ \A s \in Tabs : s # t => leader'[s] = leader[s]
  BY <1>1, <1>2, <1>4, AnnounceEffect DEF Listening
<1>6. holder = t
  BY <1>1 DEF Listening, IInv, LockInv, Kept
<1> QED
  BY <1>1, <1>2, <1>4, <1>5, <1>6 DEF Listening

\* Every step leaves an owner's epoch its own, and the newest with the lock's holder.
LEMMA EpochStep ==
    ASSUME IInv, Next
    PROVE  EpochInv'
<1>1. /\ epochs \in Nat
      /\ \A t \in Tabs : owner[t].epoch \in Nat /\ leader[t].epoch \in Nat
  BY EpochBound DEF IInv, TypeOK
<1>2. EpochInv
  BY DEF IInv
<1>3. NoEpoch = 0 /\ NoTab \notin Tabs
  BY CoordinatorAssumption DEF NoEpoch
<1>4. TypeOK'
  BY TypeStep
<1>5. \A t \in Tabs : leader'[t].epoch \in Nat
  BY <1>4 DEF TypeOK, Announcements
<1>6. holder \in Owners /\ holder' \in Owners
  BY <1>4 DEF IInv, TypeOK
<1>7. ASSUME NEW t \in Tabs, Begin(t)
      PROVE  EpochInv'
  <2>1. /\ epochs' = epochs + 1 /\ holder = t /\ UNCHANGED holder
        /\ owner'[t].epoch = epochs + 1 /\ leader'[t].epoch = epochs + 1
        /\ owner'[t].phase = "opening"
        /\ \A s \in Tabs : s # t => owner'[s] = owner[s] /\ leader'[s] = leader[s]
    BY <1>7, BeginEffect
  <2>2. \A s \in Tabs :
          /\ owner'[s].phase \in {"none", "elected"} <=> owner'[s].epoch = NoEpoch
          /\ owner'[s].epoch <= epochs'
          /\ owner'[s].epoch <= leader'[s].epoch
    BY <1>1, <1>2, <1>3, <2>1 DEF EpochInv
  <2>3. \A s, u \in Tabs :
          owner'[s].epoch = owner'[u].epoch /\ s # u => owner'[s].epoch = NoEpoch
    BY <1>1, <1>2, <1>3, <2>1 DEF EpochInv
  <2>4. owner'[holder'].epoch = epochs'
    BY <2>1
  <2> QED
    BY <2>2, <2>3, <2>4 DEF EpochInv
<1>8. ASSUME ~\E t \in Tabs : Begin(t)
      PROVE  EpochInv'
  <2>1. UNCHANGED epochs
    BY <1>8, EpochFrame
  <2>2. \A s \in Tabs : owner'[s].epoch = owner[s].epoch
    BY <1>8, OwnerEffect
  <2>3. ASSUME NEW s \in Tabs
        PROVE  owner'[s].phase \in {"none", "elected"} <=> owner[s].phase \in {"none", "elected"}
    <3>1. CASE UNCHANGED owner
      BY <3>1
    <3>2. CASE ~UNCHANGED owner
      <4>1. ASSUME NEW t \in Tabs, Opened(t) \/ OpenFails(t)
            PROVE  owner[t].phase = "opening"
        BY <4>1 DEF Opened, OpenFails
      <4>2. ASSUME NEW t \in Tabs, NEW r \in routed, Retire(t, r)
            PROVE  owner[t].phase = "serving"
        BY <4>2 DEF Retire, Inbox, Serving
      <4>3. ASSUME NEW t \in Tabs, Retired(t)
            PROVE  owner[t].phase = "retiring"
        BY <4>3 DEF Retired
      <4>4. PICK t \in Tabs :
               /\ \A u \in Tabs : u # t => owner'[u] = owner[u]
               /\ \/ owner[t].phase = "none" /\ owner'[t].phase = "elected"
                  \/ /\ owner[t].phase \in {"opening", "serving", "retiring"}
                     /\ owner'[t].phase \in {"serving", "failed", "retiring", "retired"}
        BY <1>8, <3>2, <4>1, <4>2, <4>3, OwnerEffect
      <4> QED
        BY <4>4
    <3> QED
      BY <3>1, <3>2
  <2>4. \A s \in Tabs : owner'[s].epoch <= leader'[s].epoch
    <3>1. \A s \in Tabs : leader'[s] = leader[s] \/ leader[s].epoch <= leader'[s].epoch
      BY LeaderStep DEF LeadersMove
    <3> QED
      BY <1>1, <1>2, <1>5, <2>2, <3>1 DEF EpochInv
  <2>5. holder' # NoTab /\ owner'[holder'].epoch # NoEpoch => owner'[holder'].epoch = epochs'
    <3>1. CASE holder' \in {holder, NoTab}
      BY <1>2, <1>3, <1>6, <2>1, <2>2, <3>1 DEF EpochInv, Owners
    <3>2. ASSUME NEW t \in Tabs, Elect(t), holder' = t
          PROVE  owner'[holder'].epoch = NoEpoch \/ holder' = holder
      <4>1. waiters # <<>> /\ t = Head(waiters)
        BY <3>2 DEF Elect
      <4>2. t = waiters[1] /\ 1 \in DOMAIN waiters
        BY <4>1 DEF IInv, TypeOK
      <4>3. owner[t].phase = "none"
        BY <4>2 DEF IInv, LockInv
      <4> QED
        BY <1>2, <2>2, <3>2, <4>3 DEF EpochInv
    <3> QED
      BY <3>1, <3>2, EpochFrame
  <2> QED
    BY <1>2, <2>1, <2>2, <2>3, <2>4, <2>5 DEF EpochInv
<1> QED
  BY <1>7, <1>8

-----------------------------------------------------------------------------
(* The lock and the file. *)

\* A tab that is not there stays as it is until it is started.
LEMMA GoneStep ==
    ASSUME IInv, Next, NEW t \in Tabs, ~tab[t].here
    PROVE  \/ Start(t)
           \/ /\ ~tab'[t].here /\ tab'[t].joined = tab[t].joined
              /\ tab'[t].initialized = tab[t].initialized
              /\ owner'[t] = owner[t]
<1> DEFINE Same == /\ tab'[t].here = tab[t].here /\ tab'[t].joined = tab[t].joined
                   /\ tab'[t].initialized = tab[t].initialized
<1>1. TypeOK
  BY DEF IInv
<1>2. tab \in [Tabs -> TabStates]
  BY DEF IInv, TypeOK
<1>3. SameTabs => Same
  BY DEF SameTabs
<1>4. tab'[t] = tab[t] => Same
  OBVIOUS
<1>5. ASSUME NEW u \in Tabs,
             \/ \E kind \in Kinds : Submit(u, kind) \/ SubmitRefused(u, kind)
             \/ CloseByOwner(u) \/ Elect(u) \/ Retired(u) \/ Emit(u)
             \/ \E s \in Tabs : HearDiscover(s, u) \/ HearLeader(s, u) \/ HearEvent(s, u)
             \/ \E r \in routed : Serve(u, r)
      PROVE  Same
  BY <1>5 DEF Submit, SubmitRefused, CloseByOwner, Enqueue, Elect, Retired, Emit,
              HearDiscover, HearLeader, HearEvent, Serve
<1>6. ASSUME NEW u \in Tabs, \/ OpenFails(u) \/ \E r \in routed : Retire(u, r)
                             \/ \E s \in Tabs : HearFailure(s, u)
      PROVE  Same
  <2>1. SameTabs
    BY <1>1, <1>6, TerminateEffect, StillTabs DEF OpenFails, Terminate, Retire, HearFailure
  <2> QED
    BY <1>3, <2>1
<1>7. ASSUME NEW u \in Tabs, Begin(u) \/ Opened(u)
      PROVE  Same
  BY <1>3, <1>7, OwnAnnouncement
<1>8. ASSUME NEW u \in Tabs, QueryAnswered(u)
      PROVE  Same
  BY <1>1, <1>3, <1>8, PictureIsTrue, AnnounceEffect DEF QueryAnswered
<1>9. ASSUME NEW u \in Tabs, Start(u), u # t
      PROVE  Same
  <2>1. tab'[t] = tab[t]
    BY <1>2, <1>9 DEF Start
  <2> QED
    BY <1>4, <2>1
<1>10. ASSUME NEW u \in Tabs, \/ Refresh(u) \/ Join(u) \/ ShutdownEnds(u) \/ Crash(u)
       PROVE  Same
  <2>1. tab[u].here
    BY <1>10 DEF Refresh, Join, Listening, ShutdownEnds, Crash
  <2>2. u # t
    BY <2>1
  <2>3. tab'[t] = tab[t]
    BY <1>2, <1>10, <2>2 DEF Refresh, Join, ShutdownEnds, Crash
  <2> QED
    BY <1>4, <2>3
<1>11. ASSUME NEW u \in Tabs, CloseAlone(u)
       PROVE  Same
  <2>1. u # t /\ Shutdown(u)
    BY <1>11 DEF CloseAlone, MayAsk, Listening
  <2> QED
    BY <1>4, <2>1, ShutdownEffect
<1>12. ASSUME NEW a \in replies, Respond(a)
       PROVE  Same
  <2>1. a.tab \in Tabs /\ a.tab # t
    BY <1>12 DEF IInv, TypeOK, Answers, Respond
  <2>2. CASE Shutdown(a.tab)
    BY <1>4, <2>1, <2>2, ShutdownEffect
  <2>3. CASE ~Shutdown(a.tab)
    <3>1. \/ UNCHANGED tab
          \/ \E x \in BOOLEAN : tab' = [tab EXCEPT ![a.tab].initialized = x]
      <4>1. tab[a.tab].initialized \in BOOLEAN
        BY <1>2, <2>1 DEF TabStates
      <4> QED
        BY <1>12, <2>3, <4>1 DEF Respond
    <3>2. tab'[t] = tab[t]
      BY <1>1, <2>1, <3>1, InitializedEffect
    <3> QED
      BY <1>4, <3>2
  <2> QED
    BY <2>2, <2>3
<1>13. ASSUME FileReleased
       PROVE  Same
  BY <1>13 DEF FileReleased
<1> HIDE DEF Same
<1>14. Start(t) \/ Same
  BY <1>5, <1>6, <1>7, <1>8, <1>9, <1>10, <1>11, <1>12, <1>13 DEF Next, Works, Hear
<1>15. owner'[t] = owner[t]
  <2>1. CASE UNCHANGED owner
    BY <2>1
  <2>2. ASSUME NEW u \in Tabs, Elect(u)
        PROVE  u # t
    <3>1. waiters # <<>> /\ u = Head(waiters)
      BY <2>2 DEF Elect
    <3>2. u = waiters[1] /\ 1 \in DOMAIN waiters
      BY <3>1 DEF IInv, TypeOK
    <3>3. tab[u].here
      BY <3>2 DEF IInv, LockInv
    <3> QED
      BY <3>3
  <2>3. ASSUME NEW u \in Tabs, \/ Begin(u) \/ Opened(u) \/ OpenFails(u) \/ Retired(u)
                               \/ \E r \in routed : Retire(u, r)
        PROVE  u # t
    BY <2>3 DEF Begin, Opened, OpenFails, Retired, Retire, Inbox, Serving, Listening
  <2> QED
    BY <2>1, <2>2, <2>3, OwnerEffect
<1> QED
  BY <1>14, <1>15 DEF Same

\* A log never gets shorter, and a tab's first request is its init.
LEMMA LogGrows ==
    ASSUME IInv, Next, NEW t \in Tabs
    PROVE  DOMAIN log[t] \subseteq DOMAIN log'[t] /\ (log[t] # <<>> => log'[t] # <<>>)
<1>1. DOMAIN log[t] \subseteq DOMAIN log'[t]
  BY MovesStep DEF RequestsMove, AnswersMove
<1>2. log[t] # <<>> => 1 \in DOMAIN log[t]
  BY TabRequests
<1> QED
  BY <1>1, <1>2

\* Every step leaves tabs that were not started without a trace.
LEMMA UnstartedStep ==
    ASSUME IInv, Next
    PROVE  UnstartedInv'
<1>1. ASSUME NEW t \in Tabs, log'[t] = <<>>
      PROVE  /\ ~tab'[t].here /\ ~tab'[t].joined /\ ~tab'[t].initialized
             /\ owner'[t].phase = "none"
             /\ leader'[t] = NoLeader
  <2>1. log[t] = <<>>
    BY <1>1, LogGrows
  <2>2. /\ ~tab[t].here /\ ~tab[t].joined /\ ~tab[t].initialized
        /\ owner[t].phase = "none" /\ leader[t] = NoLeader
    BY <2>1 DEF IInv, UnstartedInv
  <2>3. ~Start(t)
    <3> SUFFICES ASSUME Start(t) PROVE log'[t] # <<>>
      BY <1>1
    <3>1. log' = [log EXCEPT ![t] = <<Request("init", NoEpoch)>>] /\ log \in [Tabs -> Seq(Entries)]
      BY DEF Start, IInv, TypeOK
    <3> QED
      BY <3>1
  <2>4. /\ ~tab'[t].here /\ tab'[t].joined = tab[t].joined
        /\ tab'[t].initialized = tab[t].initialized /\ owner'[t] = owner[t]
    BY <2>2, <2>3, GoneStep
  <2>5. leader'[t] = leader[t]
    BY <2>1, LeaderStep DEF LeadersMove
  <2> QED
    BY <2>2, <2>4, <2>5
<1>2. ASSUME NEW t \in Tabs, ~tab'[t].here
      PROVE  queries'[t] = <<>> /\ \A s \in Tabs : group'[s][t] = <<>>
  BY <1>2, QueriesStep, GroupStep DEF QueriesMove, GroupMoves
<1> QED
  BY <1>1, <1>2 DEF UnstartedInv

\* An acknowledged close is one that ShutdownEnds acknowledged.
LEMMA AcknowledgedStep ==
    ASSUME IInv, Next, NEW t \in Tabs, Acknowledged(t)'
    PROVE  Acknowledged(t) \/ ShutdownEnds(t)
<1>1. PICK n \in DOMAIN log'[t] : log'[t][n].kind = "close" /\ log'[t][n].outcome = "OK"
  BY DEF Acknowledged
<1>2. CASE RequestsMove
  <2>1. n \in DOMAIN log[t]
    BY <1>1, <1>2 DEF RequestsMove
  <2>2. log[t][n].kind = "close" /\ log[t][n].outcome = "OK"
    BY <1>1, <1>2, <2>1 DEF RequestsMove, Unanswered
  <2> QED
    BY <2>1, <2>2 DEF Acknowledged
<1>3. CASE AnswersMove
  <2>1. n \in DOMAIN log[t] /\ log[t][n].kind = "close"
    BY <1>1, <1>3 DEF AnswersMove
  <2>2. log[t][n].outcome = "OK" \/ ShutdownEnds(t)
    BY <1>1, <1>3, <2>1 DEF AnswersMove, Unanswered
  <2> QED
    BY <2>1, <2>2 DEF Acknowledged
<1> QED
  BY <1>2, <1>3, MovesStep

\* Only Opened takes the file.
LEMMA HandleFrame ==
    ASSUME Next
    PROVE  handle' \in {handle, NoTab} \/ \E t \in Tabs : Opened(t) /\ handle' = t
<1> DEFINE Goal == handle' \in {handle, NoTab} \/ \E t \in Tabs : Opened(t) /\ handle' = t
<1>1. ASSUME NEW t \in Tabs,
             \/ \E kind \in Kinds : Submit(t, kind) \/ SubmitRefused(t, kind)
             \/ Start(t) \/ Refresh(t) \/ CloseByOwner(t) \/ CloseAlone(t) \/ Crash(t)
      PROVE  handle' \in {handle, NoTab}
  BY <1>1 DEF Start, Submit, SubmitRefused, Refresh, CloseByOwner, CloseAlone, Crash, Enqueue
<1>2. ASSUME NEW t \in Tabs,
             \/ Join(t) \/ Elect(t) \/ Begin(t) \/ OpenFails(t) \/ Retired(t)
             \/ Emit(t) \/ QueryAnswered(t) \/ ShutdownEnds(t)
             \/ \E s \in Tabs : Hear(s, t)
             \/ \E r \in routed : Serve(t, r) \/ Retire(t, r)
             \/ \E q \in replies : Respond(q)
      PROVE  handle' \in {handle, NoTab}
  BY <1>2 DEF Join, Elect, Begin, OpenFails, Retired, Emit, QueryAnswered, ShutdownEnds, Hear,
              HearDiscover, HearLeader, HearEvent, HearFailure, Serve, Retire, Respond
<1>3. ASSUME NEW t \in Tabs, Opened(t)
      PROVE  handle' = t
  BY <1>3 DEF Opened
<1>4. ASSUME FileReleased
      PROVE  handle' \in {handle, NoTab}
  BY <1>4 DEF FileReleased
<1> QED
  BY <1>1, <1>2, <1>3, <1>4 DEF Next, Works

\* Every step leaves a tab whose close was acknowledged out of the file.
LEMMA CloseStep ==
    ASSUME IInv, Next
    PROVE  CloseInv'
<1>1. NoTab \notin Tabs
  BY CoordinatorAssumption
<1>2. ASSUME NEW t \in Tabs, Acknowledged(t)'
      PROVE  ~tab'[t].here /\ (handle' = t => owner'[t].phase = "retiring")
  <2>1. CASE Acknowledged(t)
    <3>1. ~tab[t].here /\ (handle = t => owner[t].phase = "retiring")
      BY <2>1 DEF IInv, CloseInv
    <3>2. log[t] # <<>>
      BY <2>1 DEF Acknowledged
    <3>3. ~tab'[t].here /\ owner'[t] = owner[t]
      BY <3>1, <3>2, GoneStep DEF Start
    <3>4. handle' = t => handle = t
      BY <1>1, <3>1, HandleFrame DEF Opened, Listening
    <3> QED
      BY <3>1, <3>3, <3>4
  <2>2. CASE ShutdownEnds(t)
    <3>1. /\ tab' = [tab EXCEPT ![t].here = FALSE] /\ UNCHANGED owner
          /\ handle' = IF handle = t /\ owner[t].phase # "retiring" THEN NoTab ELSE handle
      BY <2>2 DEF ShutdownEnds, FileLeftBy
    <3>2. ~tab'[t].here
      BY <3>1 DEF IInv, TypeOK, TabStates
    <3> QED
      BY <1>1, <3>1, <3>2
  <2> QED
    BY <1>2, <2>1, <2>2, AcknowledgedStep
<1> QED
  BY <1>2 DEF CloseInv

\* The lock's own conditions, where the tabs that count for it are as they were.
LEMMA LockStays ==
    ASSUME IInv, UNCHANGED <<owner, holder, handle, waiters>>,
           \A t \in Tabs : /\ tab'[t].here = tab[t].here /\ tab'[t].closed = tab[t].closed
                           /\ tab'[t].joined = tab[t].joined
    PROVE  LockInv'
<1>1. LockInv /\ holder \in Tabs \cup {NoTab} /\ handle \in Tabs \cup {NoTab}
      /\ \A i \in DOMAIN waiters : waiters[i] \in Tabs
  BY DEF IInv, TypeOK, Owners
<1> QED
  BY <1>1 DEF LockInv

\* An owner's next phase: it keeps the lock, or it lets it go, and the file with it.
LEMMA LockPhase ==
    ASSUME IInv, NEW t \in Tabs, SameTabs, UNCHANGED waiters,
           \A u \in Tabs : u # t => owner'[u] = owner[u],
           owner[t].phase # "none", owner'[t].phase # "none",
           \/ owner[t].phase \in Kept /\ owner'[t].phase \in Kept /\ UNCHANGED holder
           \/ owner'[t].phase \notin Kept /\ holder = t /\ holder' = NoTab,
           \/ handle' = NoTab
           \/ handle' = handle /\ handle # t
           \/ handle' = t /\ owner'[t].phase \in {"serving", "retiring"}
    PROVE  LockInv'
<1>1. LockInv /\ holder \in Tabs \cup {NoTab} /\ handle \in Tabs \cup {NoTab}
      /\ \A i \in DOMAIN waiters : waiters[i] \in Tabs
  BY DEF IInv, TypeOK, Owners
<1>2. NoTab \notin Tabs
  BY CoordinatorAssumption
<1>3. \A u \in Tabs : /\ tab'[u].here = tab[u].here /\ tab'[u].closed = tab[u].closed
                      /\ tab'[u].joined = tab[u].joined
  BY DEF SameTabs
<1>4. \A i \in DOMAIN waiters : waiters[i] # t
  BY <1>1 DEF LockInv
<1>5. /\ holder' # NoTab => tab'[holder'].here /\ owner'[holder'].phase \in Kept
      /\ \A u \in Tabs : tab'[u].here /\ owner'[u].phase \in Kept => holder' = u
  BY <1>1, <1>2, <1>3 DEF LockInv
<1>6. handle' # NoTab =>
        /\ owner'[handle'].phase \notin {"none", "elected", "opening"}
        /\ tab'[handle'].here => owner'[handle'].phase \in {"serving", "retiring"}
  BY <1>1, <1>3 DEF LockInv
<1>7. \A u \in Tabs : owner'[u].phase # "none" => tab'[u].joined
  BY <1>1, <1>3 DEF LockInv
<1>8. \A i \in DOMAIN waiters' :
        /\ tab'[waiters'[i]].here /\ ~tab'[waiters'[i]].closed /\ tab'[waiters'[i]].joined
        /\ owner'[waiters'[i]].phase = "none"
  BY <1>1, <1>3, <1>4 DEF LockInv
<1>9. \A i, j \in DOMAIN waiters' : waiters'[i] = waiters'[j] => i = j
  BY <1>1 DEF LockInv
<1> QED
  BY <1>5, <1>6, <1>7, <1>8, <1>9 DEF LockInv

\* A tab closes or ends: it is no longer among the waiters, and if it has gone it has
\* let go of the lock.
LEMMA LockLeft ==
    ASSUME IInv, NEW t \in Tabs, UNCHANGED owner,
           \A u \in Tabs : u # t => tab'[u] = tab[u],
           tab'[t].joined = tab[t].joined,
           \/ tab'[t].here = tab[t].here /\ UNCHANGED holder
           \/ ~tab'[t].here /\ holder' = IF holder = t THEN NoTab ELSE holder,
           handle' \in {handle, NoTab},
           \/ waiters' = RemoveFirst(waiters, t)
           \/ UNCHANGED waiters /\ tab[t].closed
    PROVE  LockInv'
<1>1. LockInv /\ holder \in Tabs \cup {NoTab} /\ handle \in Tabs \cup {NoTab}
      /\ waiters \in Seq(Tabs)
  BY DEF IInv, TypeOK, Owners
<1>2. NoTab \notin Tabs
  BY CoordinatorAssumption
<1>3. /\ \A i \in DOMAIN waiters' : waiters'[i] # t /\ \E j \in DOMAIN waiters : waiters'[i] = waiters[j]
      /\ \A i, j \in DOMAIN waiters' : waiters'[i] = waiters'[j] => i = j
  <2>1. \A i, j \in DOMAIN waiters : waiters[i] = waiters[j] => i = j
    BY <1>1 DEF LockInv
  <2>2. CASE waiters' = RemoveFirst(waiters, t)
    BY <1>1, <2>1, <2>2, Withdrawal
  <2>3. CASE UNCHANGED waiters /\ tab[t].closed
    BY <1>1, <2>1, <2>3 DEF LockInv
  <2> QED
    BY <2>2, <2>3
<1>4. /\ holder' # NoTab => tab'[holder'].here /\ owner'[holder'].phase \in Kept
      /\ \A u \in Tabs : tab'[u].here /\ owner'[u].phase \in Kept => holder' = u
  BY <1>1, <1>2 DEF LockInv
<1>5. handle' # NoTab =>
        /\ owner'[handle'].phase \notin {"none", "elected", "opening"}
        /\ tab'[handle'].here => owner'[handle'].phase \in {"serving", "retiring"}
  BY <1>1 DEF LockInv
<1>6. \A u \in Tabs : owner'[u].phase # "none" => tab'[u].joined
  BY <1>1 DEF LockInv
<1>7. \A i \in DOMAIN waiters' :
        /\ tab'[waiters'[i]].here /\ ~tab'[waiters'[i]].closed /\ tab'[waiters'[i]].joined
        /\ owner'[waiters'[i]].phase = "none"
  <2>1. \A j \in DOMAIN waiters :
          /\ waiters[j] \in Tabs
          /\ tab[waiters[j]].here /\ ~tab[waiters[j]].closed /\ tab[waiters[j]].joined
          /\ owner[waiters[j]].phase = "none"
    BY <1>1 DEF LockInv
  <2> QED
    BY <1>3, <2>1
<1> QED
  BY <1>3, <1>4, <1>5, <1>6, <1>7 DEF LockInv

\* Every step keeps the lock, its waiters and the file together.
LEMMA LockStep ==
    ASSUME IInv, Next
    PROVE  LockInv'
<1>1. TypeOK /\ LockInv
  BY DEF IInv
<1>2. /\ tab \in [Tabs -> TabStates] /\ holder \in Tabs \cup {NoTab}
      /\ handle \in Tabs \cup {NoTab} /\ waiters \in Seq(Tabs)
      /\ owner \in [Tabs -> [phase : Phases, epoch : Nat]]
  BY DEF IInv, TypeOK, Owners
<1>3. NoTab \notin Tabs
  BY CoordinatorAssumption
<1>4. \A i \in DOMAIN waiters : waiters[i] \in Tabs
  BY <1>2
<1>5. ASSUME SameTabs, UNCHANGED <<owner, holder, handle, waiters>>
      PROVE  LockInv'
  BY <1>5, LockStays DEF SameTabs
<1>6. ASSUME NEW t \in Tabs,
             \/ \E kind \in Kinds : Submit(t, kind) \/ SubmitRefused(t, kind)
             \/ CloseByOwner(t) \/ Emit(t)
             \/ \E s \in Tabs : HearDiscover(s, t) \/ HearLeader(s, t) \/ HearEvent(s, t)
             \/ \E r \in routed : Serve(t, r)
      PROVE  LockInv'
  <2>1. UNCHANGED <<tab, owner, holder, handle, waiters>>
    BY <1>6 DEF Submit, SubmitRefused, CloseByOwner, Enqueue, Emit,
                HearDiscover, HearLeader, HearEvent, Serve
  <2> QED
    BY <1>1, <1>5, <2>1, StillTabs
<1>7. ASSUME NEW t \in Tabs, QueryAnswered(t)
      PROVE  LockInv'
  <2>1. SameTabs
    BY <1>1, <1>7, PictureIsTrue, AnnounceEffect DEF QueryAnswered
  <2> QED
    BY <1>5, <1>7, <2>1 DEF QueryAnswered
<1>8. ASSUME NEW s \in Tabs, NEW t \in Tabs, HearFailure(s, t)
      PROVE  LockInv'
  <2>1. SameTabs
    BY <1>1, <1>8, TerminateEffect, StillTabs DEF Terminate, HearFailure
  <2> QED
    BY <1>5, <1>8, <2>1 DEF HearFailure
<1>9. ASSUME NEW t \in Tabs, Refresh(t)
      PROVE  LockInv'
  <2>1. UNCHANGED <<owner, holder, handle, waiters>>
    BY <1>9 DEF Refresh
  <2>2. PICK x \in BOOLEAN : tab' = [tab EXCEPT ![t].refreshRequested = x]
    BY <1>9 DEF Refresh
  <2>3. \A u \in Tabs : /\ tab'[u].here = tab[u].here /\ tab'[u].closed = tab[u].closed
                        /\ tab'[u].joined = tab[u].joined
    BY <1>2, <2>2 DEF TabStates
  <2> QED
    BY <2>1, <2>3, LockStays
<1>10. ASSUME NEW t \in Tabs, Start(t)
       PROVE  LockInv'
  <2>1. UNCHANGED <<owner, holder, handle, waiters>> /\ log[t] = <<>>
    BY <1>10 DEF Start
  <2>2. PICK release : tab' = [tab EXCEPT ![t].here = TRUE, ![t].release = release]
    BY <1>10 DEF Start
  <2>3. /\ \A u \in Tabs : u # t => tab'[u] = tab[u]
        /\ tab'[t].joined = tab[t].joined /\ tab'[t].closed = tab[t].closed
    BY <1>2, <2>2 DEF TabStates
  <2>4. owner[t].phase = "none" /\ ~tab[t].here
    BY <2>1 DEF IInv, UnstartedInv
  <2> QED
    BY <1>1, <1>2, <1>3, <1>4, <2>1, <2>3, <2>4 DEF LockInv, Kept
<1>11. ASSUME NEW t \in Tabs, Join(t)
       PROVE  LockInv'
  <2>1. /\ UNCHANGED <<owner, holder, handle>> /\ waiters' = Append(waiters, t)
        /\ tab[t].here /\ ~tab[t].closed /\ ~tab[t].joined
        /\ tab' = [tab EXCEPT ![t].joined = TRUE]
    BY <1>11 DEF Join, Listening
  <2>2. /\ \A u \in Tabs : u # t => tab'[u] = tab[u]
        /\ tab'[t].here = tab[t].here /\ tab'[t].closed = tab[t].closed /\ tab'[t].joined
    BY <1>2, <2>1 DEF TabStates
  <2>3. owner[t].phase = "none" /\ \A i \in DOMAIN waiters : waiters[i] # t
    BY <1>1, <2>1 DEF LockInv
  <2>4. /\ \A i \in DOMAIN waiters' :
             \/ i \in DOMAIN waiters /\ waiters'[i] = waiters[i]
             \/ i = Len(waiters) + 1 /\ waiters'[i] = t
    BY <1>2, <2>1
  <2>5. \A i \in DOMAIN waiters' :
          /\ tab'[waiters'[i]].here /\ ~tab'[waiters'[i]].closed /\ tab'[waiters'[i]].joined
          /\ owner'[waiters'[i]].phase = "none"
    BY <1>1, <1>4, <2>1, <2>2, <2>3, <2>4 DEF LockInv
  <2>6. \A i, j \in DOMAIN waiters' : waiters'[i] = waiters'[j] => i = j
    BY <1>1, <2>3, <2>4 DEF LockInv
  <2> QED
    BY <1>1, <1>2, <2>1, <2>2, <2>3, <2>5, <2>6 DEF LockInv
<1>12. ASSUME NEW t \in Tabs, Elect(t)
       PROVE  LockInv'
  <2>1. /\ holder = NoTab /\ waiters # <<>> /\ t = Head(waiters) /\ waiters' = Tail(waiters)
        /\ UNCHANGED <<tab, handle>>
        /\ \/ UNCHANGED <<holder, owner>>
           \/ holder' = t /\ owner' = [owner EXCEPT ![t].phase = "elected"]
    BY <1>12 DEF Elect
  <2>2. /\ 1 \in DOMAIN waiters /\ t = waiters[1]
        /\ \A i \in DOMAIN waiters' :
             i + 1 \in DOMAIN waiters /\ waiters'[i] = waiters[i + 1] /\ i \in Nat /\ i + 1 # 1
    BY <1>2, <2>1
  <2>3. /\ tab[t].here /\ tab[t].joined /\ owner[t].phase = "none"
        /\ \A i \in DOMAIN waiters' : waiters'[i] # t
    BY <1>1, <2>2 DEF LockInv
  <2>4. /\ \A u \in Tabs : u # t => owner'[u] = owner[u]
        /\ (UNCHANGED holder /\ owner'[t] = owner[t]) \/ (holder' = t /\ owner'[t].phase = "elected")
    BY <1>2, <2>1
  <2>5. \A i \in DOMAIN waiters' :
          /\ tab'[waiters'[i]].here /\ ~tab'[waiters'[i]].closed /\ tab'[waiters'[i]].joined
          /\ owner'[waiters'[i]].phase = "none"
    <3>1. \A i \in DOMAIN waiters' : waiters[i + 1] \in Tabs
      BY <1>4, <2>2
    <3> QED
      BY <1>1, <2>1, <2>2, <2>3, <2>4, <3>1 DEF LockInv
  <2>6. \A i, j \in DOMAIN waiters' : waiters'[i] = waiters'[j] => i = j
    BY <1>1, <2>2 DEF LockInv
  <2>7. /\ holder' # NoTab => tab'[holder'].here /\ owner'[holder'].phase \in Kept
        /\ \A u \in Tabs : tab'[u].here /\ owner'[u].phase \in Kept => holder' = u
    BY <1>1, <1>3, <2>1, <2>3, <2>4 DEF LockInv, Kept
  <2>8. /\ \A u \in Tabs : owner'[u].phase # "none" => tab'[u].joined
        /\ handle' # NoTab =>
             /\ owner'[handle'].phase \notin {"none", "elected", "opening"}
             /\ tab'[handle'].here => owner'[handle'].phase \in {"serving", "retiring"}
    BY <1>1, <1>2, <2>1, <2>3, <2>4 DEF LockInv
  <2> QED
    BY <2>5, <2>6, <2>7, <2>8 DEF LockInv
<1>13. ASSUME NEW t \in Tabs, Begin(t)
       PROVE  LockInv'
  <2>1. /\ owner[t].phase = "elected" /\ owner'[t].phase = "opening" /\ UNCHANGED holder
        /\ \A u \in Tabs : u # t => owner'[u] = owner[u]
    BY <1>13, BeginEffect
  <2>2. UNCHANGED <<waiters, handle>>
    BY <1>13 DEF Begin
  <2>3. SameTabs
    BY <1>13, OwnAnnouncement
  <2>4. handle # t
    BY <1>1, <1>3, <2>1 DEF LockInv
  <2> QED
    BY <2>1, <2>2, <2>3, <2>4, LockPhase DEF Kept
<1>14. ASSUME NEW t \in Tabs, Opened(t)
       PROVE  LockInv'
  <2>1. /\ owner[t].phase = "opening" /\ owner' = [owner EXCEPT ![t].phase = "serving"]
        /\ UNCHANGED <<holder, waiters>> /\ handle' = t
    BY <1>14 DEF Opened
  <2>2. owner'[t].phase = "serving" /\ \A u \in Tabs : u # t => owner'[u] = owner[u]
    BY <1>2, <2>1
  <2>3. SameTabs
    BY <1>14, OwnAnnouncement
  <2> QED
    BY <2>1, <2>2, <2>3, LockPhase DEF Kept
<1>15. ASSUME NEW t \in Tabs, OpenFails(t)
       PROVE  LockInv'
  <2>1. /\ owner[t].phase = "opening" /\ owner' = [owner EXCEPT ![t].phase = "failed"]
        /\ UNCHANGED <<handle, waiters>> /\ holder' = NoTab /\ tab[t].here
        /\ tab' = [tab EXCEPT ![t].terminal = TRUE]
    BY <1>15 DEF OpenFails, Terminate, Listening
  <2>2. owner'[t].phase = "failed" /\ \A u \in Tabs : u # t => owner'[u] = owner[u]
    BY <1>2, <2>1
  <2>3. SameTabs
    BY <1>1, <2>1, TerminateEffect
  <2>4. holder = t /\ handle # t
    BY <1>1, <1>3, <2>1 DEF LockInv, Kept
  <2> QED
    BY <2>1, <2>2, <2>3, <2>4, LockPhase DEF Kept
<1>16. ASSUME NEW t \in Tabs, NEW r \in routed, Retire(t, r)
       PROVE  LockInv'
  <2>1. /\ owner[t].phase = "serving" /\ owner' = [owner EXCEPT ![t].phase = "retiring"]
        /\ UNCHANGED <<holder, handle, waiters>>
        /\ tab' = [tab EXCEPT ![t].terminal = TRUE]
    BY <1>16 DEF Retire, Inbox, Serving
  <2>2. owner'[t].phase = "retiring" /\ \A u \in Tabs : u # t => owner'[u] = owner[u]
    BY <1>2, <2>1
  <2>3. SameTabs
    BY <1>1, <2>1, TerminateEffect
  <2> QED
    BY <2>1, <2>2, <2>3, LockPhase DEF Kept
<1>17. ASSUME NEW t \in Tabs, Retired(t)
       PROVE  LockInv'
  <2>1. /\ owner[t].phase = "retiring" /\ owner' = [owner EXCEPT ![t].phase = "retired"]
        /\ UNCHANGED <<tab, waiters>> /\ holder' = NoTab /\ handle' = NoTab /\ tab[t].here
    BY <1>17 DEF Retired
  <2>2. owner'[t].phase = "retired" /\ \A u \in Tabs : u # t => owner'[u] = owner[u]
    BY <1>2, <2>1
  <2>3. SameTabs
    BY <1>1, <2>1, StillTabs
  <2>4. holder = t
    BY <1>1, <2>1 DEF LockInv, Kept
  <2> QED
    BY <2>1, <2>2, <2>3, <2>4, LockPhase DEF Kept
<1>18. ASSUME NEW t \in Tabs, Shutdown(t), UNCHANGED <<owner, holder, handle>>
       PROVE  LockInv'
  <2>1. waiters' = RemoveFirst(waiters, t)
    BY <1>18 DEF Shutdown
  <2>2. /\ tab'[t].here = tab[t].here /\ tab'[t].joined = tab[t].joined
        /\ \A u \in Tabs : u # t => tab'[u] = tab[u]
    BY <1>18, ShutdownEffect
  <2> QED
    BY <1>18, <2>1, <2>2, LockLeft
<1>19. ASSUME NEW t \in Tabs, CloseAlone(t)
       PROVE  LockInv'
  BY <1>18, <1>19 DEF CloseAlone
<1>20. ASSUME NEW a \in replies, Respond(a)
       PROVE  LockInv'
  <2>1. a.tab \in Tabs
    BY <1>1 DEF TypeOK, Answers
  <2>2. UNCHANGED <<owner, holder, handle>>
    BY <1>20 DEF Respond
  <2>3. CASE Shutdown(a.tab)
    BY <1>18, <2>1, <2>2, <2>3
  <2>4. CASE UNCHANGED <<tab, waiters>>
    BY <1>1, <1>5, <2>2, <2>4, StillTabs
  <2>5. ASSUME NEW x \in BOOLEAN, tab' = [tab EXCEPT ![a.tab].initialized = x], UNCHANGED waiters
        PROVE  LockInv'
    <3>1. \A u \in Tabs : /\ tab'[u].here = tab[u].here /\ tab'[u].closed = tab[u].closed
                          /\ tab'[u].joined = tab[u].joined
      BY <1>1, <2>1, <2>5, InitializedEffect
    <3> QED
      BY <2>2, <2>5, <3>1, LockStays
  <2>6. \/ UNCHANGED <<tab, waiters>>
        \/ Shutdown(a.tab)
        \/ /\ tab' = [tab EXCEPT ![a.tab].initialized =
                        @ \/ (log[a.tab][a.n].kind = "init" /\ a.outcome = "OK")]
           /\ UNCHANGED waiters
    BY <1>20 DEF Respond
  <2>7. tab[a.tab].initialized \in BOOLEAN
    BY <1>2, <2>1 DEF TabStates
  <2>8. ASSUME tab' = [tab EXCEPT ![a.tab].initialized =
                         @ \/ (log[a.tab][a.n].kind = "init" /\ a.outcome = "OK")],
               UNCHANGED waiters
        PROVE  LockInv'
    <3> DEFINE x == tab[a.tab].initialized
                      \/ (log[a.tab][a.n].kind = "init" /\ a.outcome = "OK")
    <3>1. x \in BOOLEAN
      BY <2>7
    <3>2. tab' = [tab EXCEPT ![a.tab].initialized = x]
      BY <2>8
    <3> HIDE DEF x
    <3> QED
      BY <2>5, <2>8, <3>1, <3>2
  <2> QED
    BY <2>3, <2>4, <2>6, <2>8
<1>21. ASSUME NEW t \in Tabs, ShutdownEnds(t)
       PROVE  LockInv'
  <2>1. /\ tab[t].closed /\ tab' = [tab EXCEPT ![t].here = FALSE]
        /\ holder' = IF holder = t THEN NoTab ELSE holder
        /\ handle' \in {handle, NoTab}
        /\ UNCHANGED <<owner, waiters>>
    BY <1>21 DEF ShutdownEnds
  <2>2. /\ ~tab'[t].here /\ tab'[t].joined = tab[t].joined
        /\ \A u \in Tabs : u # t => tab'[u] = tab[u]
    BY <1>2, <2>1 DEF TabStates
  <2> QED
    BY <2>1, <2>2, LockLeft
<1>22. ASSUME NEW t \in Tabs, Crash(t)
       PROVE  LockInv'
  <2>1. /\ tab' = [tab EXCEPT ![t].here = FALSE]
        /\ holder' = IF holder = t THEN NoTab ELSE holder
        /\ waiters' = RemoveFirst(waiters, t)
        /\ UNCHANGED <<owner, handle>>
    BY <1>22 DEF Crash
  <2>2. /\ ~tab'[t].here /\ tab'[t].joined = tab[t].joined
        /\ \A u \in Tabs : u # t => tab'[u] = tab[u]
    BY <1>2, <2>1 DEF TabStates
  <2> QED
    BY <2>1, <2>2, LockLeft
<1>23. ASSUME FileReleased
       PROVE  LockInv'
  <2>1. UNCHANGED <<tab, owner, holder, waiters>> /\ handle' = NoTab
    BY <1>23 DEF FileReleased
  <2> QED
    BY <1>1, <2>1 DEF LockInv
<1> QED
  BY <1>6, <1>7, <1>8, <1>9, <1>10, <1>11, <1>12, <1>13, <1>14, <1>15, <1>16, <1>17, <1>19,
     <1>20, <1>21, <1>22, <1>23 DEF Next, Works, Hear

-----------------------------------------------------------------------------
(* The invariant, and what follows from it. *)

\* In the beginning nobody is there and nothing has been asked.
LEMMA InitInv ==
    Init => IInv
<1> SUFFICES ASSUME Init PROVE IInv
  OBVIOUS
<1> USE DEF Init
<1>1. NoTab \notin Tabs
  BY CoordinatorAssumption
<1>2. TypeOK
  <2>1. "none" \in ReleaseNames /\ NoTab \in Owners /\ "none" \in Phases /\ NoEpoch \in Nat
    <3>1. "none" \in ReleaseNames
      BY Zenon DEF ReleaseNames
    <3> QED
      BY <3>1 DEF Owners, Phases, NoEpoch
  <2>2. NoLeader \in Announcements /\ NotOwner \in [phase : Phases, epoch : Nat]
    BY <2>1 DEF Announcements, NoLeader, NotOwner
  <2>3. tab \in [Tabs -> TabStates]
    BY <2>1 DEF TabStates
  <2>4. leader \in [Tabs -> Announcements] /\ owner \in [Tabs -> [phase : Phases, epoch : Nat]]
    BY <2>2
  <2>5. queries \in [Tabs -> Seq(Announcements)] /\ log \in [Tabs -> Seq(Entries)]
        /\ waiters \in Seq(Tabs) /\ group \in [Tabs -> [Tabs -> Seq(Messages)]]
    OBVIOUS
  <2>6. holder \in Owners /\ handle \in Owners /\ told \in [Tabs -> Nat]
    BY <2>1
  <2>7. /\ DOMAIN pending = Tabs
        /\ \A t \in Tabs : /\ DOMAIN pending[t] \subseteq DOMAIN log[t]
                           /\ \A n \in DOMAIN pending[t] : pending[t][n] \in Nat
    OBVIOUS
  <2>8. /\ workload \in Workloads /\ routed \subseteq RoutedRequests /\ replies \subseteq Answers
        /\ epochs \in Nat /\ revision \in Nat /\ unannounced \in BOOLEAN /\ refreshes \in Nat
    OBVIOUS
  <2> HIDE DEF Init
  <2> QED
    BY <2>3, <2>4, <2>5, <2>6, <2>7, <2>8 DEF TypeOK
<1>3. LockInv
  BY DEF LockInv, NotOwner, Kept
<1>4. UnstartedInv
  BY DEF UnstartedInv, NotOwner
<1>5. CloseInv
  BY DEF CloseInv, Acknowledged
<1>6. EpochInv
  BY DEF EpochInv, NotOwner, NoLeader, NoEpoch
<1>7. AnnouncementInv
  BY DEF AnnouncementInv
<1>8. OrderInv
  BY DEF OrderInv
<1>9. RequestInv
  BY DEF RequestInv
<1>10. RunsAtMostOnce /\ RunsUnderItsOwner
  BY DEF RunsAtMostOnce, RunsUnderItsOwner, Asked
<1> QED
  BY <1>2, <1>3, <1>4, <1>5, <1>6, <1>7, <1>8, <1>9, <1>10 DEF IInv

\* Every step keeps the invariant.
LEMMA NextInv ==
    IInv /\ [Next]_vars => IInv'
<1>1. ASSUME IInv, Next
      PROVE  IInv'
  <2>1. TypeOK' /\ LockInv' /\ UnstartedInv' /\ CloseInv'
    BY <1>1, TypeStep, LockStep, UnstartedStep, CloseStep
  <2>2. EpochInv' /\ AnnouncementInv' /\ OrderInv'
    BY <1>1, EpochStep, AnnouncementStep, OrderStep
  <2>3. RequestInv' /\ (RunsAtMostOnce /\ RunsUnderItsOwner)'
    BY <1>1, RequestStep
  <2> QED
    BY <2>1, <2>2, <2>3 DEF IInv
<1>2. ASSUME IInv, UNCHANGED vars
      PROVE  IInv'
  <2>1. TypeOK' /\ LockInv' /\ UnstartedInv' /\ CloseInv'
    BY <1>2 DEF IInv, vars, TypeOK, LockInv, UnstartedInv, CloseInv, Acknowledged
  <2>2. EpochInv' /\ AnnouncementInv' /\ OrderInv'
    BY <1>2 DEF IInv, vars, EpochInv, AnnouncementInv, OrderInv, IsTrue
  <2>3. RequestInv'
    BY <1>2 DEF IInv, vars, RequestInv, OwnedBy
  <2>4. (RunsAtMostOnce /\ RunsUnderItsOwner)'
    BY <1>2 DEF IInv, vars, RunsAtMostOnce, RunsUnderItsOwner, Asked, At
  <2> QED
    BY <2>1, <2>2, <2>3, <2>4 DEF IInv
<1> QED
  BY <1>1, <1>2

\* The inductive invariant, for any number of tabs and any workload: what the lock, the
\* file, announcements, pictures and requests under way have to do with each other.
THEOREM Invariance == Spec => []IInv
<1> QED
  BY InitInv, NextInv, PTL DEF Spec

\* The state keeps its types: among them, that a tab waits only for requests that its
\* page has made, and that an owner is one of the tabs or nobody.
THEOREM TypeCorrect == Spec => []TypeOK
<1>1. IInv => TypeOK
  BY DEF IInv
<1> QED
  BY <1>1, Invariance, PTL

\* dispatch(), announce() and the answers of owners: no request runs twice, however
\* owners change, and none runs after its page was told that it is lost.
THEOREM AtMostOnce == Spec => []RunsAtMostOnce
<1>1. IInv => RunsAtMostOnce
  BY DEF IInv
<1> QED
  BY <1>1, Invariance, PTL

\* isMismatched and dispatch(): a request runs only under an owner of its own release, and
\* a statement of a transaction only under the owner that began it.
THEOREM UnderItsOwner == Spec => []RunsUnderItsOwner
<1>1. IInv => RunsUnderItsOwner
  BY DEF IInv
<1> QED
  BY <1>1, Invariance, PTL

\* open(), retire() and shutdown(): the file is open only under the election lock, but for
\* a Worker that was terminated, or shut down while it retired a failed engine.
THEOREM FileUnderLock == Spec => []FileWithinLock
<1>1. ASSUME IInv
      PROVE  FileWithinLock
  <2> SUFFICES ASSUME handle # NoTab, handle # holder
               PROVE  ~tab[handle].here /\ (owner[handle].phase = "retiring" \/ ~Acknowledged(handle))
    BY DEF FileWithinLock, Acknowledged
  <2>1. handle \in Tabs
    BY <1>1 DEF IInv, TypeOK, Owners
  <2>2. ~tab[handle].here
    BY <1>1, <2>1 DEF IInv, LockInv, Kept
  <2>3. Acknowledged(handle) => owner[handle].phase = "retiring"
    BY <1>1, <2>1 DEF IInv, CloseInv
  <2> QED
    BY <2>2, <2>3
<1> QED
  BY <1>1, Invariance, PTL

\* announce(): a tab never goes back to an earlier owner, in whatever order the pictures
\* of the lock and the broadcasts of owners reach it.
THEOREM NeverBack == Spec => NeverGoesBack
<1>1. ASSUME IInv, [Next]_vars
      PROVE  [\A t \in Tabs : leader'[t].epoch >= leader[t].epoch]_vars
  <2>1. CASE Next
    <3>1. LeadersMove
      BY <1>1, <2>1, LeaderStep
    <3>2. \A t \in Tabs : leader[t].epoch \in Nat /\ leader'[t].epoch \in Nat
      BY <1>1, <2>1, TypeStep DEF IInv, TypeOK, Announcements
    <3> QED
      BY <3>1, <3>2 DEF LeadersMove
  <2>2. CASE UNCHANGED vars
    BY <2>2
  <2> QED
    BY <1>1, <2>1, <2>2
<1> QED
  BY <1>1, Invariance, PTL DEF Spec, NeverGoesBack

=============================================================================
