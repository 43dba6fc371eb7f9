----------------------------- MODULE DiskEvents -----------------------------
(***************************************************************************)
(* Disk snapshots and growth alerts of one device: uploads that may be     *)
(* repeated or come out of order, the alerts they raise in the same        *)
(* transaction, acknowledgement, the retention batches that remove old     *)
(* rows, and the two readers of the panel, which page through alerts and   *)
(* look at the latest snapshots while all that goes on.  The readers write *)
(* nothing, so they are looked at one at a time.                           *)
(*                                                                         *)
(* Who may upload is the business of HubDevices.                           *)
(***************************************************************************)
EXTENDS Integers, Sequences, FiniteSets, FiniteSetsExt, Functions

CONSTANTS
  Root,        \* directories that are scanned
  Content,     \* what a scan can find: [complete, depth, bytes: path -> size]; paths
               \* are numbered in their order
  MaxTime,     \* the clock stops here
  Skew,        \* how far a scan may be dated ahead of the hub's clock
  Retention,   \* age at which a row expires
  Batch,       \* rows a retention batch removes from a table at most
  Threshold,   \* growth that raises an alert
  Page,        \* alerts on a page
  MaxId        \* alerts that are raised at most

ASSUME BoundsAssumption ==
  /\ {MaxTime, Retention, Batch, Threshold, Page, MaxId} \subseteq Nat \ {0}
  /\ Skew \in Nat
  /\ \A c \in Content :
       /\ c.complete \in BOOLEAN /\ c.depth \in 0..5
       /\ IsFiniteSet(DOMAIN c.bytes) /\ DOMAIN c.bytes \subseteq Nat
       /\ \A p \in DOMAIN c.bytes : c.bytes[p] \in Nat

VARIABLES
  now,     \* the hub's clock
  snaps,   \* disk_snapshots: [root, at, content]
  events,  \* disk_events: [id, root, path, delta, from, to, ack], ack 0 if open
  lastId,  \* the AUTOINCREMENT counter of disk_events
  reader,  \* a walk through the pages of alerts
  view,    \* a disk request between and after its two queries
  swept,   \* history: has a sweep ended and nothing expired or come late since
  scan     \* history: what the scan of a root at a time found, once accepted

vars == <<now, snaps, events, lastId, reader, view, swept, scan>>

-----------------------------------------------------------------------------
Time == 1..MaxTime
\* No scan has this depth.
NoScan == [complete |-> FALSE, depth |-> -1, bytes |-> <<>>]
NoSnap == [root |-> "none", at |-> 0, content |-> NoScan]
NoWalk == [before |-> 0, shown |-> <<>>, start |-> {}, done |-> TRUE]
NoView == [pc |-> "idle", pair |-> <<>>, reference |-> NoSnap, candidates |-> {}]
Ids(E) == {e.id : e \in E}

\* The newest first.
Latest(S) == IF S = {} THEN NoSnap ELSE CHOOSE s \in S : \A u \in S : u.at <= s.at
OfRoot(S, root) == {s \in S : s.root = root}
Before(S, at) == {s \in S : s.at < at}

(***************************************************************************)
(* Compare and GrowthAlerts.                                               *)
(***************************************************************************)
SizeIn(c, path) == IF path \in DOMAIN c.bytes THEN c.bytes[path] ELSE 0

Comparable(old, new) == old.complete /\ new.complete /\ old.depth = new.depth

Compare(old, new) ==
  {[path |-> p, delta |-> SizeIn(new, p) - SizeIn(old, p)] :
     p \in DOMAIN old.bytes \union DOMAIN new.bytes}

GrowthAlerts(old, new) ==
  IF old.at < new.at /\ Comparable(old.content, new.content)
  THEN {c \in Compare(old.content, new.content) : c.delta >= Threshold}
  ELSE {}

\* The order in which alerts are inserted: largest growth first.
Above(a, b) == a.delta > b.delta \/ (a.delta = b.delta /\ a.path < b.path)
Rank(a, alerts) == 1 + Cardinality({b \in alerts : Above(b, a)})

-----------------------------------------------------------------------------
Snap == [root: Root, at: Time, content: Content]
Event == [id: Nat \ {0}, root: Root, path: Nat, delta: Int, from: Time, to: Time, ack: Nat]

TypeOK ==
  /\ now \in Time
  /\ snaps \subseteq Snap
  /\ \A s, u \in snaps : s.root = u.root /\ s.at = u.at => s = u
  /\ events \subseteq Event
  /\ \A e, f \in events : e.id = f.id => e = f
  /\ lastId \in 0..MaxId /\ \A e \in events : e.id <= lastId /\ e.ack <= now
  /\ reader \in [before: Nat, shown: Seq(Event), start: SUBSET Event, done: BOOLEAN]
  /\ view \in [pc: {"idle", "latest", "shown"}, pair: Seq(Snap),
               reference: Snap \union {NoSnap}, candidates: SUBSET Snap]
  /\ swept \in BOOLEAN
  /\ scan \in [Root \X Time -> Content \union {NoScan}]

Init ==
  /\ now = 1
  /\ snaps = {} /\ events = {} /\ lastId = 0
  /\ reader = NoWalk
  /\ view = NoView
  /\ swept = FALSE
  /\ scan = [k \in Root \X Time |-> NoScan]

\* What was dated before this has expired.
Cutoff == now - Retention

Tick ==
  /\ now < MaxTime
  /\ now' = now + 1 /\ swept' = FALSE
  /\ UNCHANGED <<snaps, events, lastId, reader, view, scan>>

-----------------------------------------------------------------------------
(***************************************************************************)
(* Uploads.                                                                *)
(***************************************************************************)

\* (Faulty variant: the schema's UNIQUE constraint is missing.)
NewEventsAgain(prev, snap) ==
  LET fresh == GrowthAlerts(prev, snap)
  IN {[id |-> lastId + Rank(a, fresh), root |-> snap.root, path |-> a.path,
       delta |-> a.delta, from |-> prev.at, to |-> snap.at, ack |-> 0] : a \in fresh}

\* The rows of alerts, numbered on from the counter; a path that already has
\* an alert for this scan is left as it is (ON CONFLICT DO NOTHING).
NewEvents(prev, snap) ==
  LET known == {e.path : e \in {f \in events : f.root = snap.root /\ f.to = snap.at}}
      fresh == {a \in GrowthAlerts(prev, snap) : a.path \notin known}
  IN {[id |-> lastId + Rank(a, fresh), root |-> snap.root, path |-> a.path,
       delta |-> a.delta, from |-> prev.at, to |-> snap.at, ack |-> 0] : a \in fresh}

\* (Faulty variant: a retry overwrites, as SaveDisk does.)
SaveDiskOverwriting(snap) ==
  LET previous == Latest(OfRoot(snaps, snap.root))
      isNew == \A s \in OfRoot(snaps, snap.root) : s.at # snap.at
      raised == IF isNew /\ previous.at < snap.at THEN NewEvents(previous, snap) ELSE {}
  IN /\ snaps' = {s \in snaps : s.root # snap.root \/ s.at # snap.at} \union {snap}
     /\ events' = events \union raised
     /\ lastId' = lastId + Cardinality(raised)

\* SaveDiskEvents: the snapshot and its alerts, in one transaction.
SaveDiskEvents(snap) ==
  LET previous == Latest(OfRoot(snaps, snap.root))
      isNew == \A s \in OfRoot(snaps, snap.root) : s.at # snap.at
      raised == IF isNew /\ previous.at < snap.at THEN NewEvents(previous, snap) ELSE {}
  IN /\ snaps' = IF isNew THEN snaps \union {snap} ELSE snaps
     /\ events' = events \union raised
     /\ lastId' = lastId + Cardinality(raised)

\* A scan is reported, again, late, or twice with different findings; the
\* findings under which a scan was first accepted are those of its retries
\* once it is no longer kept.
Upload(root, at, c) ==
  LET snap == [root |-> root, at |-> at, content |-> c] IN
  /\ at <= now + Skew
  /\ \/ scan[<<root, at>>] \in {NoScan, c}
     \/ \E s \in snaps : s.root = root /\ s.at = at
  /\ SaveDiskEvents(snap)
  /\ lastId' <= MaxId
  /\ scan' = [scan EXCEPT ![<<root, at>>] = IF @ = NoScan THEN c ELSE @]
  /\ swept' = (swept /\ at >= Cutoff)
  /\ UNCHANGED <<now, reader, view>>

\* (Faulty variant: the last acknowledgement counts.)
AcknowledgeAgain(id) ==
  /\ id \in Ids(events)
  /\ events' = {IF e.id = id THEN [e EXCEPT !.ack = now] ELSE e : e \in events}
  /\ UNCHANGED <<now, snaps, lastId, reader, view, swept, scan>>

\* COALESCE(ack_ns, now): the first acknowledgement counts.
Acknowledge(id) ==
  /\ id \in Ids(events)
  /\ events' = {IF e.id = id /\ e.ack = 0 THEN [e EXCEPT !.ack = now] ELSE e : e \in events}
  /\ UNCHANGED <<now, snaps, lastId, reader, view, swept, scan>>

-----------------------------------------------------------------------------
(***************************************************************************)
(* Retention.  At most Batch rows of a table go, the oldest first.         *)
(***************************************************************************)
\* The sets of expired rows that a batch may take from S, whose rows are
\* dated by date: no row that stays is older than one that goes.
Removable(S, date) ==
  LET expired == {x \in S : date[x] < Cutoff} IN
  {D \in SUBSET expired :
     /\ Cardinality(D) = Min({Batch, Cardinality(expired)})
     /\ \A x \in D, y \in expired \ D : date[x] <= date[y]}

\* (Faulty variant: the snapshots are not asked about.)
ExhaustedOfAlerts(gone, dropped) == Cardinality(dropped) < Batch

\* A sweep goes on until a batch found less than its size in each table.
Exhausted(gone, dropped) == Cardinality(gone) < Batch /\ Cardinality(dropped) < Batch

\* (Faulty variant: without AUTOINCREMENT the numbers of removed rows return.)
CleanupForgetsIds ==
  /\ \E D \in Removable(snaps, [s \in snaps |-> s.at]) : snaps' = snaps \ D
  /\ \E D \in Removable(events, [e \in events |-> e.to]) : events' = events \ D
  /\ lastId' = Max(Ids(events') \union {0})
  /\ UNCHANGED <<now, reader, view, swept, scan>>

\* One batch of a sweep, which ends with it if nothing is left; else, unless it
\* fails or the 30 seconds are over, the next batch follows after others had a turn.
CleanupBatch ==
  /\ \E gone \in Removable(snaps, [s \in snaps |-> s.at]),
        dropped \in Removable(events, [e \in events |-> e.to]) :
       /\ snaps' = snaps \ gone /\ events' = events \ dropped
       /\ swept' = Exhausted(gone, dropped)
  /\ UNCHANGED <<now, lastId, reader, view, scan>>

-----------------------------------------------------------------------------
(***************************************************************************)
(* A walk through the alerts, page by page: handleEvents and the cursor    *)
(* the panel sends back.                                                   *)
(***************************************************************************)
\* ORDER BY id DESC.
Descending(S) ==
  CHOOSE s \in [1..Cardinality(S) -> S] : \A i, j \in DOMAIN s : i < j => s[i].id > s[j].id

Newest(S, n) ==
  LET ranked == Descending(S)
  IN SubSeq(ranked, 1, Min({n, Len(ranked)}))

\* (Faulty variant: the cursor is the first row of the next page.)
PageSkipping(before) ==
  LET found == Newest({e \in events : e.id < before}, Page + 1)
      page == SubSeq(found, 1, Min({Page, Len(found)}))
  IN [page |-> page, next |-> IF Len(found) > Page THEN found[Page + 1].id ELSE 0]

\* One query: a row more than the page tells whether there is a next one.
PageBefore(before) ==
  LET found == Newest({e \in events : e.id < before}, Page + 1)
      page == SubSeq(found, 1, Min({Page, Len(found)}))
  IN [page |-> page, next |-> IF Len(found) > Page THEN page[Page].id ELSE 0]

Turn(before, shown, start) ==
  LET p == PageBefore(before) IN
  reader' = [before |-> p.next, shown |-> shown \o p.page, start |-> start,
             done |-> p.next = 0]

OpenEvents ==
  /\ reader = NoWalk /\ view = NoView
  /\ Turn(MaxId + 1, <<>>, events)
  /\ UNCHANGED <<now, snaps, events, lastId, view, swept, scan>>

NextPage ==
  /\ ~reader.done
  /\ Turn(reader.before, reader.shown, reader.start)
  /\ UNCHANGED <<now, snaps, events, lastId, view, swept, scan>>

-----------------------------------------------------------------------------
(***************************************************************************)
(* handleDisk: two queries with other transactions in between.             *)
(***************************************************************************)

\* DiskSnapshots: the latest two of the root of the latest, whichever root
\* that is when two were scanned at the same time.
DiskSnapshots ==
  LET newest == {s \in snaps : \A u \in snaps : u.at <= s.at}
      pair(current) ==
        LET earlier == Before(OfRoot(snaps, current.root), current.at)
        IN IF earlier = {} THEN <<current>> ELSE <<current, Latest(earlier)>>
  IN IF snaps = {} THEN {<<>>} ELSE {pair(s) : s \in newest}

Candidates(current, among) ==
  {s \in among : s.root = current.root /\ s.content.complete
                 /\ s.content.depth = current.content.depth}

\* (Faulty variant: at_ns < ? is left out of the query.)
AnyCompleteReference(current) == Latest(Candidates(current, snaps))

\* CompleteDiskReference: an older complete scan of the same scope.
CompleteDiskReference(current) ==
  Latest(Candidates(current, Before(snaps, current.at)))

ReadLatest ==
  /\ reader = NoWalk /\ view = NoView
  /\ \E pair \in DiskSnapshots :
       LET partial == pair # <<>> /\ ~pair[1].content.complete IN
       view' = [NoView EXCEPT
         !.pc = IF partial THEN "latest" ELSE "shown", !.pair = pair,
         !.candidates = IF partial THEN Candidates(pair[1], Before(snaps, pair[1].at)) ELSE {}]
  /\ UNCHANGED <<now, snaps, events, lastId, reader, swept, scan>>

\* candidates: what was there for both queries.
ReadReference ==
  /\ view.pc = "latest"
  /\ view' = [view EXCEPT !.pc = "shown",
                          !.reference = CompleteDiskReference(view.pair[1]),
                          !.candidates = @ \intersect snaps]
  /\ UNCHANGED <<now, snaps, events, lastId, reader, swept, scan>>

\* The administrator looks elsewhere.
Leave ==
  /\ reader.done /\ view.pc # "latest"
  /\ reader' = NoWalk /\ view' = NoView
  /\ UNCHANGED <<now, snaps, events, lastId, swept, scan>>

-----------------------------------------------------------------------------
Next ==
  \/ Tick
  \/ \E root \in Root, at \in Time, c \in Content : Upload(root, at, c)
  \/ \E id \in 1..MaxId : Acknowledge(id)
  \/ CleanupBatch
  \/ OpenEvents \/ NextPage
  \/ ReadLatest \/ ReadReference
  \/ Leave

Spec == Init /\ [][Next]_vars

-----------------------------------------------------------------------------
(***************************************************************************)
(* Properties.                                                             *)
(***************************************************************************)

\* Every alert states a growth that two complete scans of the same depth
\* really show, whatever was repeated, reordered or cleaned up since
\* (SaveDiskEvents: "Equal timestamps are immutable retries").
AlertsAreReal ==
  \A e \in events :
    LET old == scan[<<e.root, e.from>>]
        new == scan[<<e.root, e.to>>]
    IN /\ e.from < e.to /\ Comparable(old, new)
       /\ e.delta = SizeIn(new, e.path) - SizeIn(old, e.path)
       /\ e.delta >= Threshold

\* A directory is not reported twice for the same scan, even when the scan is
\* uploaded again after its first copy was cleaned up.
OneAlertPerScan ==
  \A e, f \in events : e.root = f.root /\ e.path = f.path /\ e.to = f.to => e.id = f.id

\* An alert never changes once emitted, but for the first acknowledgement
\* (events.go: out-of-order uploads "cannot change previously emitted events").
AlertsImmutable ==
  [][\A e \in events, f \in events' :
       e.id = f.id => f = e \/ (e.ack = 0 /\ f = [e EXCEPT !.ack = now])]_vars

\* The id a page showed still means the same alert when its button is pressed.
ShownIdsStable ==
  \A i \in DOMAIN reader.shown : \A e \in events :
    LET s == reader.shown[i] IN
    e.id = s.id => <<e.root, e.path, e.to>> = <<s.root, s.path, s.to>>

\* A walk through the pages shows each alert at most once, newest first, and
\* misses none that existed when it began and still exists, although alerts
\* are raised and removed between the pages.
WalkIsExact ==
  /\ \A i, j \in DOMAIN reader.shown : i < j => reader.shown[i].id > reader.shown[j].id
  /\ reader.done => Ids(reader.start) \intersect Ids(events) \subseteq Ids(Range(reader.shown))

\* A sweep that ends leaves no row that had expired, in either table, although each
\* batch is limited and uploads come in between; only a late upload brings an old
\* row back.
SweepIsThorough ==
  swept => /\ \A s \in snaps : s.at >= Cutoff
           /\ \A e \in events : e.to >= Cutoff

\* The reference shown beside a partial scan is a complete scan of the same
\* scope that came before it, and no nearer one was there all the while, although
\* scans are stored and removed between the two queries of handleDisk.
ReferenceIsNearest ==
  view.pc = "shown" /\ view.pair # <<>> =>
    LET current == view.pair[1] IN
    /\ view.reference # NoSnap =>
         /\ ~current.content.complete /\ view.reference.at < current.at
         /\ Candidates(current, {view.reference}) # {}
    /\ \A s \in view.candidates : s.at <= view.reference.at
=============================================================================
