----------------------- MODULE QuotaRefreshLeaseProofs -----------------------
(***************************************************************************)
(* Proofs about QuotaRefreshLease for any number of processes,             *)
(* reservations, sessions, mishaps and reboots.                            *)
(***************************************************************************)
EXTENDS QuotaRefreshLease, TLAPS

(***************************************************************************)
(* Types.                                                                  *)
(***************************************************************************)
Unmarked == {"acquired", "authorized", "open"}
Listing == {"working", "settling", "reclaiming"}
InSession == {"opened", "written"} \cup Listing
Pcs == {"idle", "closing"} \cup Unmarked \cup InSession
NoHeld == [s \in {} |-> None]

Evidences == [marker : {m \in Markers : m.version \in {4, 5}}, activity : Activities \cup {None}]

Tasks ==
  [pc : Pcs, session : Sessions \cup {None}, handoff : BOOLEAN, seen : Evidences \cup {None},
   held : HeldLists, spawned : SUBSET Slots, poisoned : BOOLEAN]

FilesTyped ==
  /\ lock \in Leases \cup {None}
  /\ marker \in Markers \cup {None}
  /\ activity \in Activities \cup {None}
  /\ receipt \in Evidences \cup {None}
  /\ papers \subseteq Commands

GroupsTyped == group \in [Commands -> {"none", "born", "waiting", "told", "cleared", "running"}]

\* A process dies at most once for a mishap or a reboot.
LivesTyped ==
  /\ life \in [Procs -> Nat]
  /\ boot \in 0..MaxBoots
  /\ count \in [sessions : 0..MaxSessions, mishaps : 0..MaxMishaps]
  /\ \A p \in Procs : life[p] <= count.mishaps + boot

Typed == FilesTyped /\ GroupsTyped /\ LivesTyped /\ proc \in [Procs -> Tasks]

(***************************************************************************)
(* The inductive invariant.                                                *)
(***************************************************************************)
\* The lock names the process between acquisition and release, or one that is dead.
Owned ==
  /\ \A p \in Procs : proc[p].pc # "idle" <=> lock # None /\ lock.owner = Myself(p)
  /\ lock # None => lock.owner.life <= life[lock.owner.p]

\* A group that exists started on this boot, behind the marker of its session.
Fenced(c) ==
  group[c] # "none" =>
    /\ marker # None /\ marker.session = c[1] /\ marker.version # 0 /\ marker.boot = boot
    /\ Tracked => Reserved(c, "preparing") \/ Reserved(c, "registered")

\* What the holder of the lock relies on at each point.
Unused(p) == proc[p].held = NoHeld /\ proc[p].spawned = {} /\ ~proc[p].poisoned

Marked(p) ==
  /\ proc[p].session \in Sessions
  /\ lock.session = proc[p].session
  /\ marker # None /\ marker.session = proc[p].session /\ marker.boot = boot

\* The groups that exist are among the spawned reservations.
Spawns(p) ==
  /\ \A s \in proc[p].spawned : s \in DOMAIN proc[p].held /\ proc[p].held[s].phase # "ready"
  /\ \A c \in Commands : group[c] # "none" => c[2] \in proc[p].spawned

\* The activity file lists what the session holds.
Listed(p) ==
  /\ marker.version # 0
  /\ Tracked => activity = ActivityOf(proc[p].session, proc[p].held)

Relies(p) ==
  /\ proc[p].pc = "idle" => proc[p] = Idle
  /\ proc[p].pc \in Unmarked \cup {"opened", "written"} => Unused(p)
  /\ proc[p].pc = "authorized" => receipt = proc[p].seen
  /\ proc[p].pc \in InSession => Marked(p) /\ Spawns(p)
  /\ proc[p].pc = "written" => marker.version # 0
  /\ proc[p].pc \in Listing /\ ~proc[p].poisoned => Listed(p)
  /\ proc[p].pc = "reclaiming" => \A c \in Commands : group[c] = "none"

LeaseInv ==
  /\ Typed
  /\ Owned
  /\ \A c \in Commands : Fenced(c)
  /\ \A p \in Procs : Relies(p)

(***************************************************************************)
(* The list of reservations.                                               *)
(***************************************************************************)
LEMMA HeldIsList ==
  ASSUME NEW h \in HeldLists
  PROVE  /\ DOMAIN h \subseteq Slots
         /\ h \in [DOMAIN h -> Reservations]
BY DEF HeldLists

\* A function from slots to reservations is a held list.
LEMMA ListIsHeld ==
  ASSUME NEW D \in SUBSET Slots, NEW h \in [D -> Reservations]
  PROVE  h \in HeldLists
BY DEF HeldLists

\* The empty list is a held list.
LEMMA NoHeldList == NoHeld \in HeldLists
<1>1. NoHeld \in [{} -> Reservations]
  BY DEF NoHeld
<1> QED  BY <1>1, ListIsHeld

\* A held list with one more reservation.
LEMMA WithList ==
  ASSUME NEW h \in HeldLists, NEW s \in Slots, NEW r \in Reservations
  PROVE  With(h, s, r) \in HeldLists
<1>1. With(h, s, r) \in [DOMAIN h \cup {s} -> Reservations]
  BY HeldIsList DEF With
<1>2. DOMAIN h \cup {s} \in SUBSET Slots
  BY HeldIsList
<1> QED  BY <1>1, <1>2, ListIsHeld

\* A held list with one reservation retired.
LEMMA WithoutList ==
  ASSUME NEW h \in HeldLists, NEW s \in Slots
  PROVE  Without(h, s) \in HeldLists
<1>1. Without(h, s) \in [DOMAIN h \ {s} -> Reservations]
  BY HeldIsList DEF Without
<1>2. DOMAIN h \ {s} \in SUBSET Slots
  BY HeldIsList
<1> QED  BY <1>1, <1>2, ListIsHeld

\* A held list with one reservation changed.
LEMMA ExceptList ==
  ASSUME NEW h \in HeldLists, NEW s \in DOMAIN h, NEW r \in Reservations
  PROVE  [h EXCEPT ![s] = r] \in HeldLists
<1>1. [h EXCEPT ![s] = r] \in [DOMAIN h -> Reservations]
  BY HeldIsList
<1>2. DOMAIN h \in SUBSET Slots
  BY HeldIsList
<1> QED  BY <1>1, <1>2, ListIsHeld

\* None is no lease, marker or activity.
LEMMA NoneIsNoValue == None \notin Leases /\ None \notin Markers /\ None \notin Activities
BY NoneAssumption

\* Every living process can own the lock.
LEMMA MyselfOwner ==
  ASSUME Typed, NEW p \in Procs PROVE Myself(p) \in Owners
<1>1. life[p] \in 0..(MaxMishaps + MaxBoots)
  BY LeaseAssumption DEF Typed, LivesTyped
<1> QED  BY <1>1 DEF Owners, Myself

(***************************************************************************)
(* Steps of the holder of the lock.                                        *)
(***************************************************************************)
\* Whoever is past the acquisition is the only one there.
LEMMA HolderIsAlone ==
  ASSUME LeaseInv, NEW p \in Procs, proc[p].pc # "idle"
  PROVE  /\ lock # None /\ lock \in Leases /\ lock.owner = Myself(p)
         /\ \A q \in Procs \ {p} : proc[q].pc = "idle"
<1>1. lock # None /\ lock.owner = Myself(p)
  BY DEF LeaseInv, Owned
<1>2. lock \in Leases
  BY <1>1 DEF LeaseInv, Typed, FilesTyped
<1>3. \A q \in Procs \ {p} : Myself(q) # Myself(p)
  BY DEF Myself
<1>4. \A q \in Procs \ {p} : proc[q].pc = "idle"
  BY <1>1, <1>3 DEF LeaseInv, Owned
<1> QED  BY <1>1, <1>2, <1>4

\* What a step of the holder has to show: the rest of the invariant follows.
Inside(p) ==
  /\ Typed'
  /\ life' = life
  /\ \A q \in Procs \ {p} : proc'[q] = proc[q]
  /\ \/ lock' # None /\ lock'.owner = lock.owner /\ proc'[p].pc # "idle"
     \/ lock' = None /\ proc'[p] = Idle
  /\ \A c \in Commands : Fenced(c)'
  /\ Relies(p)'

\* A step of the lock holder that keeps what it and the fence rely on keeps the invariant.
LEMMA InsideSuffices ==
  ASSUME LeaseInv, NEW p \in Procs, proc[p].pc # "idle", Inside(p)
  PROVE  LeaseInv'
<1>1. lock # None /\ lock.owner = Myself(p) /\ \A q \in Procs \ {p} : proc[q].pc = "idle"
  BY HolderIsAlone
<1>2. \A q \in Procs : Myself(q)' = Myself(q)
  BY DEF Inside, Myself
<1>3. Owned'
  <2>1. \A q \in Procs \ {p} : Myself(q) # Myself(p)
    BY DEF Myself
  <2>2. CASE lock' # None /\ lock'.owner = lock.owner /\ proc'[p].pc # "idle"
    BY <1>1, <1>2, <2>1, <2>2 DEF Owned, Inside, LeaseInv
  <2>3. CASE lock' = None /\ proc'[p] = Idle
    BY <1>1, <2>3 DEF Owned, Inside, Idle
  <2> QED  BY <2>2, <2>3 DEF Inside
<1>4. ASSUME NEW q \in Procs \ {p} PROVE Relies(q)'
  <2>1. proc'[q] = proc[q] /\ proc[q].pc = "idle" /\ Relies(q)
    BY <1>1 DEF Inside, LeaseInv
  <2> QED  BY <2>1 DEF Relies, Unmarked, InSession, Listing
<1> QED  BY <1>3, <1>4 DEF LeaseInv, Inside

\* A step of one process leaves the others where they are.
LEMMA MoveTyped ==
  ASSUME Typed, NEW p \in Procs, NEW t \in Tasks, proc' = [proc EXCEPT ![p] = t]
  PROVE  /\ proc' \in [Procs -> Tasks]
         /\ proc'[p] = t
         /\ \A q \in Procs \ {p} : proc'[q] = proc[q]
BY DEF Typed

\* The idle task is a task.
LEMMA IdleTask == Idle \in Tasks
BY NoHeldList DEF Idle, Tasks, NoHeld, Pcs

\* Every step that only forgets groups keeps the fence.
LEMMA FenceKept ==
  ASSUME LeaseInv, UNCHANGED <<marker, activity, boot>>,
         \A c \in Commands : group'[c] # "none" => group[c] # "none"
  PROVE  \A c \in Commands : Fenced(c)'
BY DEF LeaseInv, Fenced, Tracked, Reserved, ActivityMatches

\* The fence without a marker: there is no group.
LEMMA NoMarkerNoGroup ==
  ASSUME LeaseInv, marker = None
  PROVE  \A c \in Commands : group[c] = "none"
BY DEF LeaseInv, Fenced

\* Evidence that the marker of somebody else may go: no group of any session is left.
LEMMA ListedIsBlocked ==
  ASSUME NEW session \in Sessions, NEW held \in HeldLists, NEW s \in DOMAIN held,
         group[<<session, s>>] # "none", held[s].phase # "ready"
  PROVE  Blocked(session, held)
<1>1. held[s] \in Reservations
  BY HeldIsList
<1>2. Unknown(<<session, s>>, held[s]) \/ Present(<<session, s>>, held[s])
  BY <1>1 DEF Unknown, Present, Reservations
<1> QED  BY <1>2 DEF Blocked

\* Where recovery is allowed, no command group is left: the fence is not lifted early.
LEMMA RecoverableIsClear ==
  ASSUME LeaseInv, marker # None, Recoverable
  PROVE  \A c \in Commands : group[c] = "none"
<1> SUFFICES ASSUME NEW c \in Commands, group[c] # "none" PROVE FALSE
  OBVIOUS
<1>1. /\ marker.session = c[1] /\ marker.boot = boot
      /\ Tracked => Reserved(c, "preparing") \/ Reserved(c, "registered")
  BY DEF LeaseInv, Fenced
<1>2. Tracked /\ activity # None /\ ~Blocked(marker.session, activity.held)
  BY <1>1 DEF Recoverable, Readable, Tracked, ActivityMatches
<1>3. c[2] \in DOMAIN activity.held /\ activity.held[c[2]].phase # "ready"
  BY <1>1, <1>2 DEF Reserved
<1>4. c[1] \in Sessions /\ c = <<marker.session, c[2]>>
  BY <1>1 DEF Commands
<1>5. activity.held \in HeldLists
  BY <1>2 DEF LeaseInv, Typed, FilesTyped, Activities
<1> QED  BY <1>1, <1>2, <1>3, <1>4, <1>5, ListedIsBlocked

(***************************************************************************)
(* acquireResourceQuotaRefreshLease                                        *)
(***************************************************************************)
LEMMA MishapTyped ==
  ASSUME Typed, Mishap PROVE count' \in [sessions : 0..MaxSessions, mishaps : 0..MaxMishaps]
                             /\ count'.mishaps = count.mishaps + 1
<1>1. count.mishaps + 1 \in 0..MaxMishaps
  BY LeaseAssumption DEF Typed, LivesTyped, Mishap
<1> QED  BY <1>1 DEF Typed, LivesTyped, Mishap

\* Lives and boots stay within their bounds.
LEMMA ClockKept ==
  ASSUME Typed, UNCHANGED <<life, boot>>, count' = count \/ Mishap
  PROVE  LivesTyped'
<1>1. CASE count' = count
  BY <1>1 DEF Typed, LivesTyped
<1>2. CASE Mishap
  BY <1>2, MishapTyped, LeaseAssumption DEF Typed, LivesTyped
<1> QED  BY <1>1, <1>2

\* The step moves the holder to t within the lease, the clock goes on.
LEMMA Moved ==
  ASSUME LeaseInv, NEW p \in Procs, NEW t \in Tasks, proc[p].pc # "idle", t.pc # "idle",
         proc' = [proc EXCEPT ![p] = t], UNCHANGED <<lock, life, boot>>,
         count' = count \/ Mishap, FilesTyped', GroupsTyped',
         \A c \in Commands : Fenced(c)', Relies(p)'
  PROVE  LeaseInv'
<1>1. Typed
  BY DEF LeaseInv
<1>2. LivesTyped'
  BY <1>1, ClockKept
<1>3. /\ proc' \in [Procs -> Tasks] /\ proc'[p] = t
      /\ \A q \in Procs \ {p} : proc'[q] = proc[q]
  BY <1>1, MoveTyped
<1>4. lock # None
  BY HolderIsAlone
<1>5. Inside(p)
  BY <1>2, <1>3, <1>4 DEF Inside, Typed
<1> QED  BY <1>5, InsideSuffices

\* The lock is given back.
LEMMA ReleaseStep ==
  ASSUME LeaseInv, NEW p \in Procs, proc[p].pc # "idle", Release(p),
         UNCHANGED <<files, group, life, boot>>, count' = count \/ Mishap
  PROVE  LeaseInv'
<1>1. Typed /\ UNCHANGED <<marker, activity, receipt, papers>>
  BY DEF LeaseInv, files
<1>2. LivesTyped'
  BY <1>1, ClockKept
<1>3. /\ proc' \in [Procs -> Tasks] /\ proc'[p] = Idle
      /\ \A q \in Procs \ {p} : proc'[q] = proc[q]
  BY <1>1, MoveTyped, IdleTask DEF Release
<1>4. lock' = None
  BY DEF Release
<1>5. \A c \in Commands : Fenced(c)'
  BY <1>1, FenceKept
<1>6. FilesTyped' /\ GroupsTyped'
  BY <1>1, <1>4 DEF Typed, FilesTyped, GroupsTyped
<1>7. Relies(p)'
  BY <1>3 DEF Relies, Idle, Unmarked, InSession, Listing
<1>8. Inside(p)
  BY <1>2, <1>3, <1>4, <1>5, <1>6, <1>7 DEF Inside, Typed
<1> QED  BY <1>8, InsideSuffices

\* A free or stale lock is taken: its holder becomes the only process inside.
LEMMA AcquireStep ==
  ASSUME LeaseInv, NEW p \in Procs, Acquire(p)
  PROVE  LeaseInv'
<1> DEFINE t == [Idle EXCEPT !.pc = "acquired"]
<1>1. /\ proc[p].pc = "idle" /\ (lock # None => ~Lives(lock.owner))
      /\ lock' = [owner |-> Myself(p), session |-> None]
      /\ UNCHANGED <<marker, activity, receipt, papers, group, life, boot, count>>
  BY DEF Acquire, files
<1>2. Typed /\ proc[p] = Idle
  BY <1>1 DEF LeaseInv, Relies
<1>3. t \in Tasks /\ t.pc = "acquired" /\ t.held = NoHeld /\ t.spawned = {} /\ ~t.poisoned
  BY IdleTask DEF Tasks, Idle, Pcs, Unmarked, NoHeld
<1>4. proc' = [proc EXCEPT ![p] = t]
  BY <1>2 DEF Acquire, Goes, Typed
<1>5. /\ proc' \in [Procs -> Tasks] /\ proc'[p] = t
      /\ \A q \in Procs \ {p} : proc'[q] = proc[q]
  BY <1>2, <1>3, <1>4, MoveTyped
<1>6. lock' \in Leases /\ lock' # None /\ lock'.owner = Myself(p)
  BY <1>1, <1>2, MyselfOwner, NoneIsNoValue DEF Leases
<1>7. Typed'
  <2>1. LivesTyped'
    BY <1>1, <1>2, ClockKept
  <2> QED  BY <1>1, <1>2, <1>5, <1>6, <2>1 DEF Typed, FilesTyped, GroupsTyped
<1>8. \A q \in Procs : proc[q].pc = "idle"
  <2> SUFFICES ASSUME NEW q \in Procs, proc[q].pc # "idle" PROVE FALSE
    OBVIOUS
  <2>1. lock # None /\ lock.owner = Myself(q)
    BY HolderIsAlone
  <2> QED  BY <2>1, <1>1 DEF Lives, Myself
<1>9. Owned'
  <2>1. \A q \in Procs : Myself(q)' = Myself(q)
    BY <1>1 DEF Myself
  <2>2. \A q \in Procs \ {p} : Myself(q) # Myself(p)
    BY DEF Myself
  <2>3. lock'.owner.life <= life'[lock'.owner.p]
    BY <1>1, <1>2, <1>6 DEF Myself, Typed, LivesTyped
  <2>4. proc'[p].pc # "idle" /\ \A q \in Procs \ {p} : proc'[q].pc = "idle"
    BY <1>3, <1>5, <1>8
  <2> QED  BY <1>6, <2>1, <2>2, <2>3, <2>4 DEF Owned
<1>10. \A c \in Commands : Fenced(c)'
  BY <1>1, FenceKept
<1>11. ASSUME NEW q \in Procs PROVE Relies(q)'
  <2>1. CASE q = p
    BY <2>1, <1>3, <1>5 DEF Relies, Unused, Unmarked, InSession, Listing
  <2>2. CASE q # p
    BY <2>2, <1>5, <1>8 DEF Relies, LeaseInv, Unmarked, InSession, Listing
  <2> QED  BY <2>1, <2>2
<1> QED  BY <1>7, <1>9, <1>10, <1>11 DEF LeaseInv

\* There is no marker to recover.
LEMMA FindsNothingStep ==
  ASSUME LeaseInv, NEW p \in Procs, FindsNothing(p)
  PROVE  LeaseInv'
<1> DEFINE t == [proc[p] EXCEPT !.pc = "open"]
<1>1. /\ proc[p].pc = "acquired"
      /\ UNCHANGED <<lock, marker, activity, receipt, papers, group, life, boot, count>>
  BY DEF FindsNothing, files
<1>2. Typed /\ Unused(p)
  BY <1>1 DEF LeaseInv, Relies, Unmarked
<1>3. /\ t \in Tasks /\ t.pc = "open"
      /\ t.held = proc[p].held /\ t.spawned = proc[p].spawned /\ t.poisoned = proc[p].poisoned
  BY <1>2 DEF Typed, Tasks, Pcs, Unmarked
<1>4. proc' = [proc EXCEPT ![p] = t]
  BY <1>2 DEF FindsNothing, Goes, Typed
<1>5. proc'[p] = t
  BY <1>2, <1>3, <1>4, MoveTyped
<1>6. Relies(p)'
  BY <1>2, <1>3, <1>5 DEF Relies, Unused, Unmarked, InSession, Listing
<1>7. \A c \in Commands : Fenced(c)'
  BY <1>1, FenceKept
<1>8. FilesTyped' /\ GroupsTyped'
  BY <1>1, <1>2 DEF Typed, FilesTyped, GroupsTyped
<1> HIDE DEF t
<1> QED  BY <1>1, <1>3, <1>4, <1>6, <1>7, <1>8, Moved

\* The evidence of the recovery is recorded before anything is removed.
LEMMA AuthorizeStep ==
  ASSUME LeaseInv, NEW p \in Procs, Authorize(p)
  PROVE  LeaseInv'
<1> DEFINE t == [proc[p] EXCEPT !.pc = "authorized", !.seen = Evidence]
<1>1. /\ proc[p].pc = "acquired" /\ marker # None /\ Recoverable
      /\ receipt' = Evidence
      /\ UNCHANGED <<lock, marker, activity, papers, group, life, boot, count>>
  BY DEF Authorize
<1>2. Typed /\ Unused(p)
  BY <1>1 DEF LeaseInv, Relies, Unmarked
<1>3. Evidence \in Evidences
  BY <1>1, <1>2 DEF Evidence, Evidences, Recoverable, Readable, Typed, FilesTyped
<1>4. /\ t \in Tasks /\ t.pc = "authorized" /\ t.seen = Evidence
      /\ t.held = proc[p].held /\ t.spawned = proc[p].spawned /\ t.poisoned = proc[p].poisoned
  BY <1>2, <1>3 DEF Typed, Tasks, Pcs, Unmarked
<1>5. proc' = [proc EXCEPT ![p] = t]
  BY <1>2 DEF Authorize, Typed
<1>6. proc'[p] = t
  BY <1>2, <1>4, <1>5, MoveTyped
<1>7. Relies(p)'
  BY <1>1, <1>2, <1>4, <1>6 DEF Relies, Unused, Unmarked, InSession, Listing
<1>8. \A c \in Commands : Fenced(c)'
  BY <1>1, FenceKept
<1>9. FilesTyped' /\ GroupsTyped'
  BY <1>1, <1>2, <1>3 DEF Typed, FilesTyped, GroupsTyped
<1> HIDE DEF t
<1> QED  BY <1>1, <1>4, <1>5, <1>7, <1>8, <1>9, Moved

\* The marker is removed if everything still reads the same, or the lock is given back.
LEMMA UnfenceStep ==
  ASSUME LeaseInv, NEW p \in Procs, Unfence(p)
  PROVE  LeaseInv'
<1>1. /\ proc[p].pc = "authorized"
      /\ UNCHANGED <<activity, receipt, papers, group, life, boot, count>>
  BY DEF Unfence
<1>2. CASE Confirmed(p)
  <2> DEFINE t == [Idle EXCEPT !.pc = "open"]
  <2>1. marker' = None /\ proc' = [proc EXCEPT ![p] = t] /\ lock' = lock
    BY <1>2 DEF Unfence
  <2>2. t \in Tasks /\ t.pc = "open" /\ t.held = NoHeld /\ t.spawned = {} /\ ~t.poisoned
    BY IdleTask DEF Tasks, Idle, Pcs, Unmarked, NoHeld
  <2>3. Typed
    BY DEF LeaseInv
  <2>4. proc'[p] = t
    BY <2>1, <2>2, <2>3, MoveTyped
  <2>5. Relies(p)'
    BY <2>2, <2>4 DEF Relies, Unused, Unmarked, InSession, Listing
  <2>6. \A c \in Commands : group[c] = "none"
    BY <1>2, RecoverableIsClear DEF Confirmed
  <2>7. \A c \in Commands : Fenced(c)'
    BY <1>1, <2>6 DEF Fenced
  <2>8. FilesTyped' /\ GroupsTyped'
    BY <1>1, <2>1, <2>3 DEF Typed, FilesTyped, GroupsTyped
  <2> HIDE DEF t
  <2> QED  BY <1>1, <2>1, <2>2, <2>5, <2>7, <2>8, Moved
<1>3. CASE ~Confirmed(p)
  <2>1. Release(p) /\ UNCHANGED <<files, group, life, boot, count>>
    BY <1>1, <1>3 DEF Unfence, files
  <2> QED  BY <1>1, <2>1, ReleaseStep
<1> QED  BY <1>2, <1>3

(***************************************************************************)
(* markPending                                                             *)
(***************************************************************************)
LEMMA MarkOpenStep ==
  ASSUME LeaseInv, NEW p \in Procs, NEW handoff \in BOOLEAN, MarkOpen(p, handoff)
  PROVE  LeaseInv'
<1> DEFINE n == count.sessions + 1
           t == [proc[p] EXCEPT !.pc = "opened", !.session = n, !.handoff = handoff]
<1>1. /\ proc[p].pc = "open" /\ marker = None /\ count.sessions < MaxSessions
      /\ count' = [count EXCEPT !.sessions = n]
      /\ marker' = [session |-> n, version |-> 0, owner |-> Myself(p), boot |-> boot]
      /\ lock' = [lock EXCEPT !.session = n]
      /\ UNCHANGED <<activity, receipt, papers, group, life, boot>>
  BY DEF MarkOpen
<1>2. Typed /\ Unused(p)
  BY <1>1 DEF LeaseInv, Relies, Unmarked
<1>3. n \in Sessions /\ n \in 0..MaxSessions
  BY <1>1, <1>2, LeaseAssumption DEF Typed, LivesTyped, Sessions
<1> HIDE DEF n
<1>4. /\ t \in Tasks /\ t.pc = "opened" /\ t.session = n
      /\ t.held = proc[p].held /\ t.spawned = proc[p].spawned /\ t.poisoned = proc[p].poisoned
  BY <1>2, <1>3 DEF Typed, Tasks, Pcs, InSession
<1>5. proc' = [proc EXCEPT ![p] = t]
  BY <1>2 DEF MarkOpen, Typed, n
<1>6. proc'[p] = t /\ proc' \in [Procs -> Tasks] /\ \A q \in Procs \ {p} : proc'[q] = proc[q]
  BY <1>2, <1>4, <1>5, MoveTyped
<1>7. lock' \in Leases /\ lock'.owner = lock.owner /\ lock'.session = n
  BY <1>1, <1>3, HolderIsAlone DEF Leases
<1>8. marker' \in Markers
  <2>1. Myself(p) \in Owners /\ boot \in 0..MaxBoots
    BY <1>2, MyselfOwner DEF Typed, LivesTyped
  <2> QED  BY <1>1, <1>3, <2>1 DEF Markers
<1>9. lock' # None /\ marker' # None
  BY <1>7, <1>8, NoneIsNoValue
<1>10. Typed'
  <2>1. count' \in [sessions : 0..MaxSessions, mishaps : 0..MaxMishaps] /\ count'.mishaps = count.mishaps
    BY <1>1, <1>2, <1>3 DEF Typed, LivesTyped
  <2>2. LivesTyped'
    BY <1>1, <1>2, <2>1 DEF Typed, LivesTyped
  <2> QED  BY <1>1, <1>2, <1>6, <1>7, <1>8, <2>2 DEF Typed, FilesTyped, GroupsTyped
<1>11. \A c \in Commands : group'[c] = "none"
  BY <1>1, NoMarkerNoGroup
<1>12. \A c \in Commands : Fenced(c)'
  BY <1>11 DEF Fenced
<1>13. Relies(p)'
  <2>1. Marked(p)'
    BY <1>1, <1>3, <1>4, <1>6, <1>7, <1>9 DEF Marked
  <2>2. Unused(p)'
    BY <1>2, <1>4, <1>6 DEF Unused
  <2>3. Spawns(p)'
    BY <2>2, <1>11 DEF Spawns, Unused
  <2> QED  BY <1>4, <1>6, <2>1, <2>2, <2>3 DEF Relies, Unmarked, InSession, Listing
<1>14. Inside(p)
  BY <1>1, <1>4, <1>6, <1>7, <1>9, <1>10, <1>12, <1>13 DEF Inside
<1> QED  BY <1>1, <1>14, InsideSuffices

\* The marker is written before any command is spawned.
LEMMA MarkWriteStep ==
  ASSUME LeaseInv, NEW p \in Procs, NEW version \in {1, 4, 5}, MarkWrite(p, version)
  PROVE  LeaseInv'
<1> DEFINE t == [proc[p] EXCEPT !.pc = IF version = 1 THEN "working" ELSE "written"]
<1>1. /\ proc[p].pc = "opened"
      /\ marker' = [marker EXCEPT !.version = version]
      /\ UNCHANGED <<lock, activity, receipt, papers, group, life, boot, count>>
  BY DEF MarkWrite
<1>2. Typed /\ Unused(p) /\ Marked(p) /\ Spawns(p)
  BY <1>1 DEF LeaseInv, Relies, InSession
<1>3. /\ t \in Tasks /\ t.pc \in {"working", "written"} /\ (t.pc = "working" <=> version = 1)
      /\ t.held = proc[p].held /\ t.spawned = proc[p].spawned /\ t.poisoned = proc[p].poisoned
      /\ t.session = proc[p].session
  BY <1>2 DEF Typed, Tasks, Pcs, InSession, Listing
<1>4. proc' = [proc EXCEPT ![p] = t]
  BY <1>2 DEF MarkWrite, Goes, Typed
<1>5. proc'[p] = t
  BY <1>2, <1>3, <1>4, MoveTyped
<1>6. /\ marker' \in Markers /\ marker' # None /\ marker'.version = version
      /\ marker'.session = marker.session /\ marker'.boot = marker.boot
  BY <1>1, <1>2, NoneIsNoValue DEF Markers, Marked, Typed, FilesTyped
<1>7. \A c \in Commands : group'[c] = "none"
  BY <1>1, <1>2 DEF Spawns, Unused
<1>8. \A c \in Commands : Fenced(c)'
  BY <1>7 DEF Fenced
<1> HIDE DEF t
<1>9. Relies(p)'
  <2>1. Marked(p)'
    BY <1>1, <1>2, <1>3, <1>5, <1>6 DEF Marked
  <2>2. Unused(p)' /\ Spawns(p)'
    BY <1>2, <1>3, <1>5, <1>7 DEF Unused, Spawns
  <2>3. t.pc = "working" => Listed(p)'
    BY <1>3, <1>6 DEF Listed, Tracked
  <2> QED  BY <1>3, <1>5, <1>6, <2>1, <2>2, <2>3 DEF Relies, Unmarked, InSession, Listing
<1>10. FilesTyped' /\ GroupsTyped'
  BY <1>1, <1>2, <1>6 DEF Typed, FilesTyped, GroupsTyped
<1> QED  BY <1>1, <1>3, <1>4, <1>8, <1>9, <1>10, Moved

\* The activity is written behind the marker.
LEMMA MarkActivityStep ==
  ASSUME LeaseInv, NEW p \in Procs, MarkActivity(p)
  PROVE  LeaseInv'
<1> DEFINE t == [proc[p] EXCEPT !.pc = "working"]
<1>1. /\ proc[p].pc = "written"
      /\ activity' = ActivityOf(proc[p].session, proc[p].held)
      /\ UNCHANGED <<lock, marker, receipt, papers, group, life, boot, count>>
  BY DEF MarkActivity
<1>2. Typed /\ Unused(p) /\ Marked(p) /\ Spawns(p) /\ marker.version # 0
  BY <1>1 DEF LeaseInv, Relies, InSession
<1>3. /\ t \in Tasks /\ t.pc = "working"
      /\ t.held = proc[p].held /\ t.spawned = proc[p].spawned /\ t.session = proc[p].session
  BY <1>2 DEF Typed, Tasks, Pcs, InSession, Listing
<1>4. proc' = [proc EXCEPT ![p] = t]
  BY <1>2 DEF MarkActivity, Goes, Typed
<1>5. proc'[p] = t
  BY <1>2, <1>3, <1>4, MoveTyped
<1>6. \A c \in Commands : group'[c] = "none"
  BY <1>1, <1>2 DEF Spawns, Unused
<1>7. \A c \in Commands : Fenced(c)'
  BY <1>6 DEF Fenced
<1> HIDE DEF t
<1>8. Relies(p)'
  <2>1. Marked(p)' /\ Spawns(p)' /\ Listed(p)'
    BY <1>1, <1>2, <1>3, <1>5 DEF Marked, Spawns, Listed, Tracked
  <2> QED  BY <1>3, <1>5, <2>1 DEF Relies, Unmarked, InSession, Listing
<1>9. activity' \in Activities
  BY <1>1, <1>2 DEF Activities, ActivityOf, Marked, Typed, Tasks
<1>10. FilesTyped' /\ GroupsTyped'
  BY <1>1, <1>2, <1>9 DEF Typed, FilesTyped, GroupsTyped
<1> QED  BY <1>1, <1>3, <1>4, <1>7, <1>8, <1>10, Moved

\* A poisoned session stays in place: only the process knows.
LEMMA PoisonedStep ==
  ASSUME LeaseInv, NEW p \in Procs, proc[p].pc \in InSession,
         proc' = [proc EXCEPT ![p] = [proc[p] EXCEPT !.pc = "working", !.poisoned = TRUE]],
         UNCHANGED <<lock, files, group, life, boot>>, count' = count \/ Mishap
  PROVE  LeaseInv'
<1> DEFINE t == [proc[p] EXCEPT !.pc = "working", !.poisoned = TRUE]
<1>1. UNCHANGED <<marker, activity, receipt, papers>> /\ proc[p].pc # "idle"
  BY DEF files, InSession, Listing
<1>2. Typed /\ Marked(p) /\ Spawns(p)
  BY DEF LeaseInv, Relies
<1>3. /\ t \in Tasks /\ t.pc = "working" /\ t.poisoned
      /\ t.held = proc[p].held /\ t.spawned = proc[p].spawned /\ t.session = proc[p].session
  BY <1>2 DEF Typed, Tasks, Pcs, InSession, Listing
<1>4. proc' = [proc EXCEPT ![p] = t]
  OBVIOUS
<1>5. proc'[p] = t
  BY <1>2, <1>3, <1>4, MoveTyped
<1> HIDE DEF t
<1>6. Relies(p)'
  <2>1. Marked(p)' /\ Spawns(p)'
    BY <1>1, <1>2, <1>3, <1>5 DEF Marked, Spawns
  <2> QED  BY <1>3, <1>5, <2>1 DEF Relies, Unmarked, InSession, Listing
<1>7. \A c \in Commands : Fenced(c)'
  BY <1>1, FenceKept
<1>8. FilesTyped' /\ GroupsTyped'
  BY <1>1, <1>2 DEF Typed, FilesTyped, GroupsTyped
<1> QED  BY <1>1, <1>3, <1>4, <1>6, <1>7, <1>8, Moved

\* A failed write poisons the session: the marker stays.
LEMMA PoisonStep ==
  ASSUME LeaseInv, NEW p \in Procs, Poison(p)
  PROVE  LeaseInv'
<1>1. /\ proc[p].pc \in InSession /\ Mishap /\ UNCHANGED <<lock, files, group, life, boot>>
      /\ proc' = [proc EXCEPT ![p].pc = "working", ![p].poisoned = TRUE]
  BY DEF Poison, InSession, Listing
<1>2. proc' = [proc EXCEPT ![p] = [proc[p] EXCEPT !.pc = "working", !.poisoned = TRUE]]
  BY <1>1 DEF LeaseInv, Typed
<1> QED  BY <1>1, <1>2, PoisonedStep

\* PrepareUntracked and SpawnedTooLate.
LEMMA PoisonedAtWork ==
  ASSUME LeaseInv, NEW p \in Procs, Working(p), proc' = [proc EXCEPT ![p].poisoned = TRUE],
         UNCHANGED <<lock, files, group, life, boot, count>>
  PROVE  LeaseInv'
<1>1. proc[p] \in Tasks /\ proc[p].pc = "working"
  BY DEF LeaseInv, Typed, Working
<1>2. [proc[p] EXCEPT !.poisoned = TRUE] = [proc[p] EXCEPT !.pc = "working", !.poisoned = TRUE]
  BY <1>1 DEF Tasks
<1>3. proc' = [proc EXCEPT ![p] = [proc[p] EXCEPT !.pc = "working", !.poisoned = TRUE]]
  BY <1>2 DEF LeaseInv, Typed
<1> QED  BY <1>1, <1>3, PoisonedStep DEF InSession, Listing

(***************************************************************************)
(* The lifecycle of one command.                                           *)
(***************************************************************************)
\* The holder writes list h and works on: every group that still exists is of a
\* reservation in spawned, which h does not call ready.
LEMMA RepublishStep ==
  ASSUME LeaseInv, NEW p \in Procs, proc[p].pc \in Listing, ~proc[p].poisoned,
         NEW h \in HeldLists, NEW sp \in SUBSET Slots, WriteReservations(p, h),
         proc' = [proc EXCEPT ![p] = [proc[p] EXCEPT !.pc = "working", !.held = h, !.spawned = sp]],
         UNCHANGED <<lock, marker, receipt, papers, life, boot, count>>, GroupsTyped',
         \A s \in sp : s \in DOMAIN h /\ h[s].phase # "ready",
         \A c \in Commands : group'[c] # "none" => group[c] # "none" /\ c[2] \in sp
  PROVE  LeaseInv'
<1> DEFINE t == [proc[p] EXCEPT !.pc = "working", !.held = h, !.spawned = sp]
<1>1. proc[p].pc # "idle" /\ proc[p].pc \in InSession
  BY DEF Listing, InSession
<1>2. Typed /\ Marked(p) /\ Listed(p)
  BY <1>1 DEF LeaseInv, Relies
<1>3. /\ t \in Tasks /\ t.pc = "working" /\ ~t.poisoned
      /\ t.held = h /\ t.spawned = sp /\ t.session = proc[p].session
  BY <1>2 DEF Typed, Tasks, Pcs, InSession, Listing
<1>4. proc' = [proc EXCEPT ![p] = t]
  OBVIOUS
<1>5. proc'[p] = t
  BY <1>2, <1>3, <1>4, MoveTyped
<1> HIDE DEF t
<1>6. /\ Tracked => activity' = ActivityOf(proc[p].session, h)
      /\ ~Tracked => activity' = activity
      /\ Tracked' = Tracked
  BY DEF WriteReservations, Tracked
<1>7. Relies(p)'
  <2>1. Marked(p)' /\ Spawns(p)' /\ Listed(p)'
    BY <1>2, <1>3, <1>5, <1>6 DEF Marked, Spawns, Listed
  <2> QED  BY <1>3, <1>5, <2>1 DEF Relies, Unmarked, InSession, Listing
<1>8. activity' \in Activities \cup {None}
  <2>1. ActivityOf(proc[p].session, h) \in Activities
    BY <1>2 DEF Activities, ActivityOf, Marked
  <2> QED  BY <1>2, <1>6, <2>1 DEF Typed, FilesTyped
<1>9. ASSUME NEW c \in Commands, group'[c] # "none" PROVE Fenced(c)'
  <2>1. /\ marker # None /\ marker.session = c[1] /\ marker.version # 0 /\ marker.boot = boot
        /\ marker.session = proc[p].session
    BY <1>2, <1>9 DEF LeaseInv, Fenced, Marked
  <2>2. ASSUME Tracked PROVE (Reserved(c, "preparing") \/ Reserved(c, "registered"))'
    <3>1. /\ activity'.session = proc[p].session /\ activity'.held = h
          /\ activity' \in Activities
      BY <1>2, <1>6, <2>2 DEF ActivityOf, Activities, Marked
    <3>2. activity' # None /\ c[2] \in DOMAIN h /\ h[c[2]].phase \in {"preparing", "registered"}
      BY <1>9, <3>1, HeldIsList, NoneIsNoValue DEF Reservations
    <3> QED  BY <2>1, <3>1, <3>2 DEF Reserved, ActivityMatches
  <2> QED  BY <1>6, <2>1, <2>2 DEF Fenced
<1>10. \A c \in Commands : Fenced(c)'
  BY <1>9 DEF Fenced
<1>11. FilesTyped'
  BY <1>2, <1>8 DEF Typed, FilesTyped
<1> QED  BY <1>1, <1>3, <1>4, <1>7, <1>10, <1>11, Moved

\* A changed list is on disk before the session goes on with it.
LEMMA PublishStep ==
  ASSUME LeaseInv, NEW p \in Procs, Working(p), NEW h \in HeldLists,
         Publish(p, h), papers' = papers,
         \A s \in proc[p].spawned : s \in DOMAIN h /\ h[s].phase # "ready"
  PROVE  LeaseInv'
<1>1. /\ WriteReservations(p, h) /\ UNCHANGED <<lock, marker, receipt, group, life, boot, count>>
      /\ proc' = [proc EXCEPT ![p].held = h, ![p].pc = "working"]
  BY DEF Publish
<1>2. /\ proc[p] \in Tasks /\ proc[p].pc \in Listing /\ ~proc[p].poisoned /\ GroupsTyped
      /\ proc[p].spawned \in SUBSET Slots /\ Spawns(p)
  BY DEF LeaseInv, Typed, Working, Relies, InSession, Listing, Tasks
<1>3. [proc[p] EXCEPT !.held = h, !.pc = "working"]
      = [proc[p] EXCEPT !.pc = "working", !.held = h, !.spawned = proc[p].spawned]
  BY <1>2 DEF Tasks
<1>4. proc' = [proc EXCEPT ![p] = [proc[p] EXCEPT !.pc = "working", !.held = h, !.spawned = proc[p].spawned]]
  BY <1>1, <1>3 DEF LeaseInv, Typed
<1>5. GroupsTyped' /\ \A c \in Commands : group'[c] # "none" => group[c] # "none" /\ c[2] \in proc[p].spawned
  BY <1>1, <1>2 DEF GroupsTyped, Spawns
<1> QED  BY <1>1, <1>2, <1>4, <1>5, RepublishStep

\* What a working session relies on.
LEMMA AtWork ==
  ASSUME LeaseInv, NEW p \in Procs, Working(p)
  PROVE  /\ Typed /\ proc[p] \in Tasks /\ proc[p].held \in HeldLists
         /\ proc[p].spawned \in SUBSET Slots
         /\ Marked(p) /\ Spawns(p) /\ Listed(p)
         /\ proc[p].pc \in Listing /\ ~proc[p].poisoned
BY DEF LeaseInv, Typed, Working, Relies, InSession, Listing, Tasks

\* A session reserves a slot.
LEMMA BeginStep ==
  ASSUME LeaseInv, NEW p \in Procs, NEW s \in Slots, Begin(p, s)
  PROVE  LeaseInv'
<1> DEFINE h == With(proc[p].held, s, Ready)
<1>1. Working(p) /\ s \notin DOMAIN proc[p].held /\ Publish(p, h) /\ papers' = papers
  BY DEF Begin
<1>2. h \in HeldLists
  BY <1>1, AtWork, WithList DEF Ready, Reservations
<1>3. \A x \in proc[p].spawned : x \in DOMAIN h /\ h[x].phase # "ready"
  BY <1>1, AtWork DEF Spawns, With
<1> QED  BY <1>1, <1>2, <1>3, PublishStep

\* A command is reserved on disk before it is spawned.
LEMMA PrepareStep ==
  ASSUME LeaseInv, NEW p \in Procs, NEW s \in Slots, Prepare(p, s)
  PROVE  LeaseInv'
<1> DEFINE r == [phase |-> "preparing", ticket |-> proc[p].handoff]
           h == [proc[p].held EXCEPT ![s] = r]
<1>1. Working(p) /\ s \in DOMAIN proc[p].held /\ Publish(p, h) /\ papers' = papers
  BY DEF Prepare, Holds
<1>2. r \in Reservations
  BY <1>1, AtWork DEF Tasks, Reservations
<1>3. h \in HeldLists
  BY <1>1, <1>2, AtWork, ExceptList
<1>4. \A x \in proc[p].spawned : x \in DOMAIN h /\ h[x].phase # "ready"
  BY <1>1, AtWork, HeldIsList DEF Spawns
<1> QED  BY <1>1, <1>3, <1>4, PublishStep

\* A command that did not start leaves no group.
LEMMA NotStartedStep ==
  ASSUME LeaseInv, NEW p \in Procs, NEW s \in Slots, NotStarted(p, s)
  PROVE  LeaseInv'
<1> DEFINE h == [proc[p].held EXCEPT ![s] = Ready]
<1>1. /\ Working(p) /\ s \in DOMAIN proc[p].held /\ s \notin proc[p].spawned
      /\ Publish(p, h) /\ papers' = papers
  BY DEF NotStarted, Holds
<1>2. h \in HeldLists
  BY <1>1, AtWork, ExceptList DEF Ready, Reservations
<1>3. \A x \in proc[p].spawned : x \in DOMAIN h /\ h[x].phase # "ready"
  BY <1>1, AtWork, HeldIsList DEF Spawns
<1> QED  BY <1>1, <1>2, <1>3, PublishStep

\* A slot that was only reserved is given back.
LEMMA SettleStep ==
  ASSUME LeaseInv, NEW p \in Procs, NEW s \in Slots, Settle(p, s)
  PROVE  LeaseInv'
<1> DEFINE h == Without(proc[p].held, s)
<1>1. /\ Working(p) /\ proc[p].held[s].phase = "ready" /\ s \in DOMAIN proc[p].held
      /\ Publish(p, h) /\ papers' = papers
  BY DEF Settle, Holds
<1>2. h \in HeldLists
  BY <1>1, AtWork, WithoutList
<1>3. \A x \in proc[p].spawned : x \in DOMAIN h /\ h[x].phase # "ready"
  BY <1>1, AtWork DEF Spawns, Without
<1> QED  BY <1>1, <1>2, <1>3, PublishStep

\* The only step that adds a group: the list that names it is already on disk.
LEMMA SpawnStep ==
  ASSUME LeaseInv, NEW p \in Procs, NEW s \in Slots, Spawn(p, s)
  PROVE  LeaseInv'
<1> DEFINE t == [proc[p] EXCEPT !.spawned = @ \cup {s}]
           k == <<proc[p].session, s>>
<1>1. /\ Working(p) /\ s \in DOMAIN proc[p].held /\ proc[p].held[s].phase = "preparing"
      /\ group' = [group EXCEPT ![k] = IF proc[p].handoff THEN "born" ELSE "running"]
      /\ UNCHANGED <<lock, marker, activity, receipt, papers, life, boot, count>>
  BY DEF Spawn, Holds, files
<1>2. /\ Typed /\ proc[p] \in Tasks /\ Marked(p) /\ Spawns(p) /\ Listed(p)
      /\ proc[p].pc = "working" /\ ~proc[p].poisoned
  BY <1>1, AtWork DEF Working
<1>3. /\ t \in Tasks /\ t.pc = "working" /\ ~t.poisoned /\ t.spawned = proc[p].spawned \cup {s}
      /\ t.held = proc[p].held /\ t.session = proc[p].session
  BY <1>2 DEF Tasks
<1>4. proc' = [proc EXCEPT ![p] = t]
  BY <1>2 DEF Spawn, Typed
<1>5. proc'[p] = t
  BY <1>2, <1>3, <1>4, MoveTyped
<1> HIDE DEF t
<1>6. k \in Commands /\ k[1] = proc[p].session /\ k[2] = s
  BY <1>2 DEF Commands, Marked
<1>7. GroupsTyped' /\ \A c \in Commands : c # k => group'[c] = group[c]
  BY <1>1, <1>2 DEF Typed, GroupsTyped
<1>8. Relies(p)'
  <2>1. Marked(p)' /\ Listed(p)'
    BY <1>1, <1>2, <1>3, <1>5 DEF Marked, Listed, Tracked
  <2>2. Spawns(p)'
    BY <1>1, <1>2, <1>3, <1>5, <1>6, <1>7 DEF Spawns
  <2> QED  BY <1>3, <1>5, <2>1, <2>2 DEF Relies, Unmarked, InSession, Listing
<1>9. ASSUME NEW c \in Commands PROVE Fenced(c)'
  <2>1. CASE c # k
    BY <1>1, <1>7, <2>1 DEF LeaseInv, Fenced, Tracked, Reserved, ActivityMatches
  <2>2. CASE c = k
    <3>1. marker # None /\ marker.session = c[1] /\ marker.version # 0 /\ marker.boot = boot
      BY <1>2, <1>6, <2>2 DEF Marked, Listed
    <3>2. ASSUME Tracked PROVE Reserved(c, "preparing")
      <4>1. /\ activity = ActivityOf(proc[p].session, proc[p].held)
            /\ activity.session = proc[p].session /\ activity.held = proc[p].held
            /\ activity \in Activities
        BY <1>2, <3>2 DEF Listed, ActivityOf, Activities, Marked, Tasks
      <4> QED  BY <1>1, <1>6, <2>2, <3>1, <4>1, NoneIsNoValue DEF Reserved, ActivityMatches
    <3> QED  BY <1>1, <3>1, <3>2 DEF Fenced, Tracked, Reserved, ActivityMatches
  <2> QED  BY <2>1, <2>2
<1>10. FilesTyped' /\ proc[p].pc # "idle" /\ t.pc # "idle"
  BY <1>1, <1>2, <1>3 DEF Typed, FilesTyped
<1> QED  BY <1>1, <1>3, <1>4, <1>7, <1>8, <1>9, <1>10, Moved

\* A spawned command is registered.
LEMMA SpawnedStep ==
  ASSUME LeaseInv, NEW p \in Procs, NEW s \in Slots, Spawned(p, s)
  PROVE  LeaseInv'
<1> DEFINE h == [proc[p].held EXCEPT ![s].phase = "registered"]
           k == <<proc[p].session, s>>
           sp == proc[p].spawned
<1>1. /\ Working(p) /\ s \in DOMAIN proc[p].held /\ s \in proc[p].spawned
      /\ proc[p].handoff => group[k] = "waiting"
      /\ WriteReservations(p, h)
      /\ proc' = [proc EXCEPT ![p].held[s].phase = "registered"]
      /\ group' = [group EXCEPT ![k] = IF proc[p].handoff THEN "told" ELSE @]
      /\ UNCHANGED <<lock, marker, receipt, papers, life, boot, count>>
  BY DEF Spawned, Holds
<1>2. /\ Typed /\ proc[p] \in Tasks /\ Spawns(p) /\ proc[p].held \in HeldLists
      /\ proc[p].pc = "working" /\ sp \in SUBSET Slots
  BY <1>1, AtWork DEF Working
<1>3. proc[p].held[s] \in Reservations
  BY <1>1, <1>2, HeldIsList
<1>4. [proc[p].held[s] EXCEPT !.phase = "registered"] \in Reservations
  BY <1>3 DEF Reservations
<1>5. h = [proc[p].held EXCEPT ![s] = [proc[p].held[s] EXCEPT !.phase = "registered"]]
  OBVIOUS
<1>6. h \in HeldLists
  BY <1>1, <1>2, <1>4, <1>5, ExceptList
<1>7. \A x \in sp : x \in DOMAIN h /\ h[x].phase # "ready"
  <2>1. h[s].phase = "registered" /\ DOMAIN h = DOMAIN proc[p].held
    BY <1>1, <1>2, <1>3, HeldIsList DEF Reservations
  <2>2. \A x \in DOMAIN proc[p].held : x # s => h[x] = proc[p].held[x]
    BY <1>2, HeldIsList
  <2> QED  BY <1>2, <2>1, <2>2 DEF Spawns
<1>8. proc' = [proc EXCEPT ![p] = [proc[p] EXCEPT !.held = h]]
  BY <1>1, <1>2 DEF Typed
<1> HIDE DEF h
<1>9. [proc[p] EXCEPT !.held = h] = [proc[p] EXCEPT !.pc = "working", !.held = h, !.spawned = sp]
  BY <1>2 DEF Tasks
<1>10. GroupsTyped' /\ \A c \in Commands : group'[c] # "none" => group[c] # "none" /\ c[2] \in sp
  BY <1>1, <1>2 DEF Typed, GroupsTyped, Spawns
<1>11. proc' = [proc EXCEPT ![p] = [proc[p] EXCEPT !.pc = "working", !.held = h, !.spawned = sp]]
  BY <1>8, <1>9
<1> QED  BY <1>1, <1>2, <1>6, <1>7, <1>10, <1>11, AtWork, RepublishStep

\* Retire and Reclaim: registrations are removed, the list stays for the moment.
LEMMA RetiredStep ==
  ASSUME LeaseInv, NEW p \in Procs, Working(p), NEW pc \in {"settling", "reclaiming"}, Goes(p, pc),
         papers' \subseteq papers, UNCHANGED <<lock, marker, activity, receipt, group, life, boot, count>>,
         pc = "reclaiming" => \A c \in Commands : group[c] = "none"
  PROVE  LeaseInv'
<1> DEFINE t == [proc[p] EXCEPT !.pc = pc]
<1>1. /\ Typed /\ proc[p] \in Tasks /\ Marked(p) /\ Spawns(p) /\ Listed(p)
      /\ proc[p].pc = "working" /\ ~proc[p].poisoned
  BY AtWork DEF Working
<1>2. /\ t \in Tasks /\ t.pc = pc /\ t.spawned = proc[p].spawned
      /\ t.held = proc[p].held /\ t.session = proc[p].session
  BY <1>1 DEF Tasks, Pcs, InSession, Listing
<1>3. proc' = [proc EXCEPT ![p] = t]
  BY <1>1 DEF Goes, Typed
<1>4. proc'[p] = t
  BY <1>1, <1>2, <1>3, MoveTyped
<1> HIDE DEF t
<1>5. Relies(p)'
  <2>1. Marked(p)' /\ Spawns(p)' /\ Listed(p)'
    BY <1>1, <1>2, <1>4 DEF Marked, Spawns, Listed, Tracked
  <2> QED  BY <1>2, <1>4, <2>1 DEF Relies, Unmarked, InSession, Listing
<1>6. \A c \in Commands : Fenced(c)'
  BY FenceKept
<1>7. FilesTyped' /\ GroupsTyped'
  BY <1>1 DEF Typed, FilesTyped, GroupsTyped
<1> QED  BY <1>1, <1>2, <1>3, <1>5, <1>6, <1>7, Moved

\* The ticket of a group that has exited is removed.
LEMMA RetireStep ==
  ASSUME LeaseInv, NEW p \in Procs, NEW s \in Slots, Retire(p, s)
  PROVE  LeaseInv'
BY RetiredStep DEF Retire

\* An unblocked list names every group there could be, and none is left.
LEMMA ReclaimStep ==
  ASSUME LeaseInv, NEW p \in Procs, Reclaim(p)
  PROVE  LeaseInv'
<1>1. /\ Working(p) /\ ~Blocked(proc[p].session, proc[p].held)
      /\ papers' \subseteq papers /\ Goes(p, "reclaiming")
      /\ UNCHANGED <<lock, marker, activity, receipt, group, life, boot, count>>
  BY DEF Reclaim
<1>2. Marked(p) /\ Spawns(p) /\ proc[p].held \in HeldLists
  BY <1>1, AtWork
<1>3. ASSUME NEW c \in Commands, group[c] # "none" PROVE FALSE
  <2>1. c[2] \in DOMAIN proc[p].held /\ proc[p].held[c[2]].phase # "ready"
    BY <1>2, <1>3 DEF Spawns
  <2>2. c[1] = proc[p].session /\ c = <<proc[p].session, c[2]>>
    BY <1>2, <1>3 DEF LeaseInv, Fenced, Marked, Commands
  <2> QED  BY <1>1, <1>2, <1>3, <2>1, <2>2, ListedIsBlocked DEF Marked
<1> QED  BY <1>1, <1>3, RetiredStep

\* A reservation is ready again once the exit of its group is confirmed.
LEMMA GroupExitConfirmedStep ==
  ASSUME LeaseInv, NEW p \in Procs, NEW s \in Slots, GroupExitConfirmed(p, s)
  PROVE  LeaseInv'
<1> DEFINE h == [proc[p].held EXCEPT ![s] = Ready]
           k == <<proc[p].session, s>>
           sp == proc[p].spawned \ {s}
<1>1. /\ proc[p].pc \in {"working", "settling"} /\ ~proc[p].poisoned
      /\ s \in DOMAIN proc[p].held /\ group[k] = "none" /\ WriteReservations(p, h)
      /\ proc' = [proc EXCEPT ![p].held[s] = Ready, ![p].pc = "working", ![p].spawned = @ \ {s}]
      /\ UNCHANGED <<lock, marker, receipt, papers, group, life, boot, count>>
  BY DEF GroupExitConfirmed, Exited, Holds
<1>2. proc[p].pc \in Listing /\ proc[p].pc \in InSession
  BY <1>1 DEF Listing, InSession
<1>3. /\ Typed /\ proc[p] \in Tasks /\ Spawns(p) /\ Marked(p)
      /\ proc[p].held \in HeldLists /\ sp \in SUBSET Slots
  BY <1>2 DEF LeaseInv, Typed, Tasks, Relies
<1>4. h \in HeldLists
  BY <1>1, <1>3, ExceptList DEF Ready, Reservations
<1>5. \A x \in sp : x \in DOMAIN h /\ h[x].phase # "ready"
  BY <1>3, HeldIsList DEF Spawns
<1>6. proc' = [proc EXCEPT ![p] = [proc[p] EXCEPT !.pc = "working", !.held = h, !.spawned = sp]]
  BY <1>1, <1>3 DEF Typed, Tasks
<1>7. ASSUME NEW c \in Commands, group'[c] # "none" PROVE group[c] # "none" /\ c[2] \in sp
  <2>1. group[c] # "none" /\ c[2] \in proc[p].spawned
    BY <1>1, <1>3, <1>7 DEF Spawns
  <2>2. c = <<proc[p].session, c[2]>>
    BY <1>3, <2>1 DEF LeaseInv, Fenced, Marked, Commands
  <2> QED  BY <1>1, <2>1, <2>2
<1>8. GroupsTyped'
  BY <1>1, <1>3 DEF Typed, GroupsTyped
<1> HIDE DEF h, sp
<1> QED  BY <1>1, <1>2, <1>4, <1>3, <1>5, <1>6, <1>7, <1>8, RepublishStep

\* The reservations of a dead session are cleared after its groups have gone.
LEMMA ReclaimedStep ==
  ASSUME LeaseInv, NEW p \in Procs, Reclaimed(p)
  PROVE  LeaseInv'
<1> DEFINE sp == {}
<1>1. /\ proc[p].pc = "reclaiming" /\ ~proc[p].poisoned /\ WriteReservations(p, NoHeld)
      /\ proc' = [proc EXCEPT ![p].held = NoHeld, ![p].pc = "working", ![p].spawned = {}]
      /\ UNCHANGED <<lock, marker, receipt, papers, group, life, boot, count>>
  BY DEF Reclaimed, NoHeld
<1>2. proc[p].pc \in Listing /\ proc[p] \in Tasks /\ Typed
  BY <1>1 DEF Listing, LeaseInv, Typed
<1>3. \A c \in Commands : group[c] = "none"
  BY <1>1 DEF LeaseInv, Relies
<1>4. proc' = [proc EXCEPT ![p] = [proc[p] EXCEPT !.pc = "working", !.held = NoHeld, !.spawned = sp]]
  BY <1>1, <1>2 DEF Typed, Tasks
<1>5. GroupsTyped'
  BY <1>1, <1>2 DEF Typed, GroupsTyped
<1>6. /\ sp \in SUBSET Slots /\ \A s \in sp : s \in DOMAIN NoHeld /\ NoHeld[s].phase # "ready"
      /\ \A c \in Commands : group'[c] # "none" => group[c] # "none" /\ c[2] \in sp
  BY <1>1, <1>3
<1> HIDE DEF sp
<1> QED  BY <1>1, <1>2, <1>4, <1>5, <1>6, NoHeldList, RepublishStep

(***************************************************************************)
(* close                                                                   *)
(***************************************************************************)
LEMMA CloseStep ==
  ASSUME LeaseInv, NEW p \in Procs, NEW preserve \in BOOLEAN, Close(p, preserve)
  PROVE  LeaseInv'
<1> DEFINE t == [proc[p] EXCEPT !.pc = "closing"]
<1>1. /\ proc[p].pc = "working" /\ Goes(p, "closing")
      /\ marker' = IF Withdraws(p, preserve) THEN None ELSE marker
      /\ UNCHANGED <<lock, activity, receipt, papers, group, life, boot, count>>
  BY DEF Close
<1>2. Typed /\ Spawns(p)
  BY <1>1 DEF LeaseInv, Relies, InSession, Listing
<1>3. t \in Tasks /\ t.pc = "closing"
  BY <1>2 DEF Typed, Tasks, Pcs
<1>4. proc' = [proc EXCEPT ![p] = t]
  BY <1>1, <1>2 DEF Goes, Typed
<1>5. proc'[p] = t
  BY <1>2, <1>3, <1>4, MoveTyped
<1> HIDE DEF t
<1>6. Relies(p)'
  BY <1>3, <1>5 DEF Relies, Unmarked, InSession, Listing
<1>7. \A c \in Commands : Fenced(c)'
  <2>1. CASE Withdraws(p, preserve)
    <3>1. \A c \in Commands : group'[c] = "none"
      BY <1>1, <1>2, <2>1 DEF Withdraws, Spawns
    <3> QED  BY <3>1 DEF Fenced
  <2>2. CASE ~Withdraws(p, preserve)
    BY <1>1, <2>2, FenceKept
  <2> QED  BY <2>1, <2>2
<1>8. FilesTyped' /\ GroupsTyped'
  BY <1>1, <1>2 DEF Typed, FilesTyped, GroupsTyped
<1> QED  BY <1>1, <1>3, <1>4, <1>6, <1>7, <1>8, Moved

(***************************************************************************)
(* Commands, deaths and reboots.                                           *)
(***************************************************************************)
\* A group never appears again, and whoever was at work stays there.
LEMMA ChildStep ==
  ASSUME LeaseInv, NEW k \in Commands, Child(k)
  PROVE  LeaseInv'
<1>1. /\ UNCHANGED <<lock, marker, activity, receipt, proc, life, boot, count>>
      /\ papers' \subseteq Commands
      /\ group[k] # "none"
      /\ \E v \in {"none", "waiting", "cleared", "running"} : group' = [group EXCEPT ![k] = v]
  <2>1. Typed
    BY DEF LeaseInv
  <2>2. CASE ChildRegisters(k)
    BY <2>1, <2>2 DEF ChildRegisters, Typed, FilesTyped
  <2>3. CASE ChildVerifies(k)
    BY <2>1, <2>3 DEF ChildVerifies, files, Typed, FilesTyped
  <2>4. CASE ChildExecs(k)
    BY <2>1, <2>4 DEF ChildExecs, files, Typed, FilesTyped
  <2>5. CASE ChildExits(k)
    BY <2>1, <2>5 DEF ChildExits, files, Typed, FilesTyped
  <2> QED  BY <2>2, <2>3, <2>4, <2>5 DEF Child
<1>2. GroupsTyped' /\ \A c \in Commands : group'[c] # "none" => group[c] # "none"
  BY <1>1 DEF LeaseInv, Typed, GroupsTyped
<1>3. Typed'
  BY <1>1, <1>2 DEF LeaseInv, Typed, FilesTyped, LivesTyped
<1>4. Owned'
  BY <1>1 DEF LeaseInv, Owned, Myself
<1>5. \A c \in Commands : Fenced(c)'
  BY <1>1, <1>2, FenceKept
<1>6. ASSUME NEW p \in Procs PROVE Relies(p)'
  BY <1>1, <1>2 DEF LeaseInv, Relies, Unused, Marked, Spawns, Listed, Tracked
<1> QED  BY <1>3, <1>4, <1>5, <1>6 DEF LeaseInv

\* A process dies: its lock, marker, list and commands stay.
LEMMA DieStep ==
  ASSUME LeaseInv, NEW p \in Procs, Die(p)
  PROVE  LeaseInv'
<1>1. /\ Mishap /\ proc' = [proc EXCEPT ![p] = Idle] /\ life' = [life EXCEPT ![p] = @ + 1]
      /\ UNCHANGED <<lock, marker, activity, receipt, papers, group, boot>>
  BY DEF Die, files
<1>2. Typed
  BY DEF LeaseInv
<1>3. /\ proc' \in [Procs -> Tasks] /\ proc'[p] = Idle
      /\ \A q \in Procs \ {p} : proc'[q] = proc[q]
  BY <1>1, <1>2, IdleTask, MoveTyped
<1>4. Typed'
  <2>1. count' \in [sessions : 0..MaxSessions, mishaps : 0..MaxMishaps] /\ count'.mishaps = count.mishaps + 1
    BY <1>1, <1>2, MishapTyped
  <2>2. \A q \in Procs : life'[q] \in Nat /\ life'[q] <= life[q] + 1
    BY <1>1, <1>2 DEF Typed, LivesTyped
  <2>3. life' \in [Procs -> Nat]
    BY <1>1, <1>2 DEF Typed, LivesTyped
  <2>4. LivesTyped'
    BY <1>1, <1>2, <2>1, <2>2, <2>3, LeaseAssumption DEF Typed, LivesTyped
  <2> QED  BY <1>1, <1>2, <1>3, <2>4 DEF Typed, FilesTyped, GroupsTyped
<1>5. Owned'
  <2>1. \A q \in Procs \ {p} : Myself(q)' = Myself(q)
    BY <1>1, <1>2 DEF Myself, Typed, LivesTyped
  <2>2. ASSUME lock # None PROVE lock.owner.life <= life'[lock.owner.p] /\ lock.owner # Myself(p)'
    <3>1. /\ lock.owner.p \in Procs /\ lock.owner.life \in Nat
          /\ lock.owner.life <= life[lock.owner.p]
      BY <1>2, <2>2, LeaseAssumption DEF LeaseInv, Owned, Typed, FilesTyped, Leases, Owners
    <3>2. /\ life'[p] = life[p] + 1 /\ life[p] \in Nat
          /\ \A q \in Procs \ {p} : life'[q] = life[q] /\ life[q] \in Nat
      BY <1>1, <1>2 DEF Typed, LivesTyped
    <3>3. lock.owner.life <= life'[lock.owner.p]
      BY <3>1, <3>2
    <3>4. lock.owner # Myself(p)'
      <4> SUFFICES ASSUME lock.owner = Myself(p)' PROVE FALSE
        OBVIOUS
      <4>1. lock.owner.p = p /\ lock.owner.life = life[p] + 1
        BY <3>2 DEF Myself
      <4> QED  BY <3>1, <3>2, <4>1
    <3> QED  BY <3>3, <3>4
  <2>3. proc'[p].pc = "idle"
    BY <1>3 DEF Idle
  <2> QED  BY <1>1, <1>3, <2>1, <2>2, <2>3 DEF LeaseInv, Owned
<1>6. \A c \in Commands : Fenced(c)'
  BY <1>1, FenceKept
<1>7. ASSUME NEW q \in Procs PROVE Relies(q)'
  <2>1. CASE q = p
    BY <1>3, <2>1 DEF Relies, Idle, Unmarked, InSession, Listing
  <2>2. CASE q # p
    <3>1. proc'[q] = proc[q]
      BY <1>3, <2>2
    <3> QED  BY <1>1, <3>1 DEF LeaseInv, Relies, Unused, Marked, Spawns, Listed, Tracked
  <2> QED  BY <2>1, <2>2
<1> QED  BY <1>4, <1>5, <1>6, <1>7 DEF LeaseInv

\* The host reboots: no process and no command survives.
LEMMA RebootStep ==
  ASSUME LeaseInv, Reboot
  PROVE  LeaseInv'
<1>1. /\ boot < MaxBoots /\ boot' = boot + 1 /\ group' = [c \in Commands |-> "none"]
      /\ proc' = [p \in Procs |-> Idle] /\ life' = [p \in Procs |-> life[p] + 1]
      /\ UNCHANGED <<lock, marker, activity, receipt, papers, count>>
  BY DEF Reboot, files
<1>2. Typed
  BY DEF LeaseInv
<1>3. Typed'
  <2>1. boot' \in 0..MaxBoots
    BY <1>1, <1>2, LeaseAssumption DEF Typed, LivesTyped
  <2>2. LivesTyped'
    BY <1>1, <1>2, <2>1, LeaseAssumption DEF Typed, LivesTyped
  <2> QED  BY <1>1, <1>2, <2>2, IdleTask DEF Typed, FilesTyped, GroupsTyped
<1>4. Owned'
  <2>1. ASSUME lock # None PROVE /\ lock.owner.life <= life'[lock.owner.p]
                                 /\ \A q \in Procs : lock.owner # Myself(q)'
    <3>1. /\ lock.owner.p \in Procs /\ lock.owner.life \in Nat
          /\ lock.owner.life <= life[lock.owner.p]
      BY <1>2, <2>1, LeaseAssumption DEF LeaseInv, Owned, Typed, FilesTyped, Leases, Owners
    <3>2. \A q \in Procs : life'[q] = life[q] + 1 /\ life[q] \in Nat
      BY <1>1, <1>2 DEF Typed, LivesTyped
    <3>3. lock.owner.life <= life'[lock.owner.p]
      BY <3>1, <3>2
    <3>4. ASSUME NEW q \in Procs, lock.owner = Myself(q)' PROVE FALSE
      <4>1. lock.owner.p = q /\ lock.owner.life = life[q] + 1
        BY <3>2, <3>4 DEF Myself
      <4> QED  BY <3>1, <3>2, <4>1
    <3> QED  BY <3>3, <3>4
  <2> QED  BY <1>1, <2>1 DEF Owned, Idle
<1>5. \A c \in Commands : Fenced(c)'
  BY <1>1 DEF Fenced
<1>6. \A p \in Procs : Relies(p)'
  BY <1>1 DEF Relies, Idle, Unmarked, InSession, Listing
<1> QED  BY <1>3, <1>4, <1>5, <1>6 DEF LeaseInv

(***************************************************************************)
(* The theorems.                                                           *)
(***************************************************************************)
LEMMA InitLease == ASSUME Init PROVE LeaseInv
<1>1. Typed
  <2>1. LivesTyped
    BY LeaseAssumption DEF Init, LivesTyped
  <2> QED  BY <2>1, IdleTask DEF Init, Typed, FilesTyped, GroupsTyped
<1>2. Owned
  BY DEF Init, Owned, Idle
<1>3. \A c \in Commands : Fenced(c)
  BY DEF Init, Fenced
<1>4. \A p \in Procs : Relies(p)
  BY DEF Init, Relies, Idle, Unmarked, InSession, Listing
<1> QED  BY <1>1, <1>2, <1>3, <1>4 DEF LeaseInv

\* Every step of a working session keeps the invariant.
LEMMA WorkStep ==
  ASSUME LeaseInv, NEW p \in Procs, NEW s \in Slots, Work(p, s)
  PROVE  LeaseInv'
<1>1. CASE PrepareUntracked(p, s)
  BY <1>1, PoisonedAtWork DEF PrepareUntracked
<1>2. CASE SpawnedTooLate(p, s)
  BY <1>2, PoisonedAtWork DEF SpawnedTooLate
<1> QED  BY <1>1, <1>2, BeginStep, PrepareStep, SpawnStep, NotStartedStep, SpawnedStep, RetireStep,
            GroupExitConfirmedStep, SettleStep DEF Work

\* Every step of a recovery keeps the invariant.
LEMMA RecoverStep ==
  ASSUME LeaseInv, NEW p \in Procs, Recover(p)
  PROVE  LeaseInv'
<1>1. CASE Refused(p)
  BY <1>1, ReleaseStep DEF Refused
<1> QED  BY <1>1, AcquireStep, FindsNothingStep, AuthorizeStep, UnfenceStep DEF Recover

\* Every step of the specification keeps the invariant.
LEMMA NextStep ==
  ASSUME LeaseInv, [Next]_vars
  PROVE  LeaseInv'
<1>1. ASSUME NEW p \in Procs, Recover(p) PROVE LeaseInv'
  BY <1>1, RecoverStep
<1>2. ASSUME NEW p \in Procs, Mark(p) PROVE LeaseInv'
  BY <1>2, MarkOpenStep, MarkWriteStep, MarkActivityStep DEF Mark
<1>3. ASSUME NEW p \in Procs, GiveUp(p) PROVE LeaseInv'
  BY <1>3, ReleaseStep DEF GiveUp
<1>4. ASSUME NEW p \in Procs, Poison(p) PROVE LeaseInv'
  BY <1>4, PoisonStep
<1>5. ASSUME NEW p \in Procs, Die(p) PROVE LeaseInv'
  BY <1>5, DieStep
<1>6. ASSUME NEW p \in Procs, Reclaim(p) PROVE LeaseInv'
  BY <1>6, ReclaimStep
<1>7. ASSUME NEW p \in Procs, Reclaimed(p) PROVE LeaseInv'
  BY <1>7, ReclaimedStep
<1>8. ASSUME NEW p \in Procs, Closed(p) PROVE LeaseInv'
  BY <1>8, ReleaseStep DEF Closed
<1>9. ASSUME NEW p \in Procs, NEW preserve \in BOOLEAN, Close(p, preserve) PROVE LeaseInv'
  BY <1>9, CloseStep
<1>10. ASSUME NEW p \in Procs, NEW s \in Slots, Work(p, s) PROVE LeaseInv'
  BY <1>10, WorkStep
<1>11. ASSUME NEW c \in Commands, Child(c) PROVE LeaseInv'
  BY <1>11, ChildStep
<1>12. CASE Reboot
  BY <1>12, RebootStep
<1>13. CASE UNCHANGED vars
  BY <1>13 DEF vars, files, LeaseInv, Typed, FilesTyped, GroupsTyped, LivesTyped, Owned, Myself, Fenced,
     Tracked, Reserved, ActivityMatches, Relies, Unused, Marked, Spawns, Listed
<1> QED  BY <1>1, <1>2, <1>3, <1>4, <1>5, <1>6, <1>7, <1>8, <1>9, <1>10, <1>11, <1>12, <1>13 DEF Next

\* The inductive invariant holds: the lock names the one process at work, every group
\* stands behind a marker of this boot that a list on disk accounts for, and the process
\* at work relies on what it last wrote.
THEOREM LeaseInvariant == Spec => []LeaseInv
BY InitLease, NextStep, PTL DEF Spec

\* The records of the lease keep their types, and a lock whose owner lives belongs to the
\* process between acquisition and release (acquireResourceQuotaRefreshLease).
THEOREM TypeCorrect == Spec => []TypeOK
<1>1. LeaseInv => TypeOK
  BY DEF LeaseInv, Typed, FilesTyped, GroupsTyped, Owned, TypeOK, Evidences, Tasks
<1> QED  BY <1>1, LeaseInvariant, PTL

\* No native command is alive outside the fence, whatever became of the process that
\* started it (markPending, prepare, spawned, reservationRecoveryBlocker).
THEOREM ContactAlwaysFenced == Spec => []ContactFenced
<1>1. LeaseInv => ContactFenced
  BY DEF LeaseInv, Fenced, ContactFenced
<1> QED  BY <1>1, LeaseInvariant, PTL

\* The marker goes only with a receipt on disk that holds it and the activity it was
\* judged by, or by its own live session with an empty list (authorized-before-unlink, close).
THEOREM RemovalRecorded == Spec => RemovalAccounted
<1> DEFINE Accounted ==
      marker # None /\ marker' = None =>
        \/ receipt = Evidence
        \/ lock.session = marker.session /\ Lives(lock.owner) /\ (Tracked => DOMAIN activity.held = {})
<1>1. ASSUME LeaseInv, Next, marker # None, marker' = None PROVE Accounted
  <2>1. PICK p \in Procs : Unfence(p) \/ \E preserve \in BOOLEAN : Close(p, preserve)
    <3>1. \A q \in Procs : ~Mark(q)
      <4>1. ASSUME NEW q \in Procs, NEW version \in {1, 4, 5}, MarkWrite(q, version) PROVE FALSE
        <5>1. marker' = [marker EXCEPT !.version = version] /\ marker \in Markers
          BY <1>1, <4>1 DEF MarkWrite, LeaseInv, Typed, FilesTyped
        <5>2. marker' \in Markers
          BY <5>1 DEF Markers
        <5> QED  BY <1>1, <5>2, NoneIsNoValue
      <4> QED  BY <1>1, <4>1 DEF Mark, MarkOpen, MarkActivity
    <3>2. \A q \in Procs : Recover(q) => Unfence(q)
      BY <1>1 DEF Recover, Acquire, FindsNothing, Refused, Authorize, files
    <3>3. \A q \in Procs, s \in Slots : ~Work(q, s)
      BY <1>1 DEF Work, Begin, Prepare, PrepareUntracked, Spawn, NotStarted, Spawned, SpawnedTooLate, Retire,
         GroupExitConfirmed, Settle, Publish, files
    <3>4. \A q \in Procs : ~GiveUp(q) /\ ~Poison(q) /\ ~Die(q) /\ ~Reclaim(q) /\ ~Reclaimed(q) /\ ~Closed(q)
      BY <1>1 DEF GiveUp, Poison, Die, Reclaim, Reclaimed, Closed, files
    <3>5. ~Reboot /\ \A c \in Commands : ~Child(c)
      BY <1>1 DEF Reboot, Child, ChildRegisters, ChildVerifies, ChildExecs, ChildExits, files
    <3> QED  BY <1>1, <3>1, <3>2, <3>3, <3>4, <3>5 DEF Next
  <2>2. CASE Unfence(p)
    BY <1>1, <2>2 DEF Unfence, Confirmed, LeaseInv, Relies
  <2>3. ASSUME NEW preserve \in BOOLEAN, Close(p, preserve) PROVE Accounted
    <3>1. proc[p].pc = "working" /\ ~proc[p].poisoned /\ DOMAIN proc[p].held = {}
      BY <1>1, <2>3 DEF Close, Withdraws
    <3>2. Marked(p) /\ Listed(p)
      BY <1>1, <3>1 DEF LeaseInv, Relies, InSession, Listing
    <3>3. lock.owner = Myself(p)
      BY <1>1, <3>1, HolderIsAlone
    <3> QED  BY <3>1, <3>2, <3>3 DEF Marked, Listed, ActivityOf, Lives, Myself
  <2> QED  BY <2>1, <2>2, <2>3
<1>2. ASSUME LeaseInv, [Next]_vars PROVE [Accounted]_vars
  BY <1>1, <1>2
<1> QED  BY <1>2, LeaseInvariant, PTL DEF Spec, RemovalAccounted
==============================================================================
