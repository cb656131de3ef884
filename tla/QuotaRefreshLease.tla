-------------------------- MODULE QuotaRefreshLease --------------------------
(***************************************************************************)
(* The lease of the quota collector (acquireResourceQuotaRefreshLease).    *)
(* One process at a time may start native commands that contact a          *)
(* provider.  A lock alone does not say so, because a command outlives the *)
(* process that started it: before the first contact the owner publishes a *)
(* pending marker, and whoever finds the marker of somebody else may remove *)
(* it only with evidence that no command of that session is left.          *)
(*                                                                         *)
(* The evidence is the activity file, which lists the reservations of the  *)
(* session and how far each got, and, with the launch handoff (marker      *)
(* version 5), a registration the command itself writes before it execs.   *)
(*                                                                         *)
(* The lock is LocalStoreLock's, taken in one step: never from a live      *)
(* owner.  A session is named by a number in place of its random token.    *)
(* The callbacks of a command (spawned, settled) run between other work of *)
(* the process; any step may be the last one before it dies.               *)
(***************************************************************************)
EXTENDS Naturals, FiniteSets

CONSTANTS
  Procs,        \* the processes that collect
  Slots,        \* the reservations a session may hold at a time
  MaxSessions,  \* bound on the sessions that publish a marker
  MaxMishaps,   \* bound on deaths, failed writes and acquisitions given up
  MaxBoots,     \* bound on reboots
  None

ASSUME LeaseAssumption == Slots # {} /\ MaxSessions \in Nat /\ MaxMishaps \in Nat /\ MaxBoots \in Nat

VARIABLES
  lock,      \* the owner of the lock file and its session once it has one, or None
  marker,    \* the pending marker, or None
  activity,  \* the activity file, or None
  receipt,   \* the latest recovery receipt, or None
  papers,    \* the commands with a registration file
  group,     \* group[c]: the process group of command c
  proc,      \* proc[p]: what process p is doing
  life,      \* life[p]: how often process p has died
  boot,      \* the current boot
  count      \* sessions and mishaps so far

files == <<marker, activity, receipt, papers>>
vars == <<lock, files, group, proc, life, boot, count>>

Sessions == 1..MaxSessions
Commands == Sessions \X Slots
Idle == [pc |-> "idle", session |-> None, handoff |-> FALSE, seen |-> None,
         held |-> [s \in {} |-> None], spawned |-> {}, poisoned |-> FALSE]

\* A reservation: its phase, and whether a launch ticket was published for it.
Reservations == [phase : {"ready", "preparing", "registered"}, ticket : BOOLEAN]
Ready == [phase |-> "ready", ticket |-> FALSE]

\* What the files may hold.  A marker of version 0 is torn.
Owners == [p : Procs, life : 0..(MaxMishaps + MaxBoots)]
Leases == [owner : Owners, session : Sessions \cup {None}]
Markers == [session : Sessions, version : {0, 1, 4, 5}, owner : Owners, boot : 0..MaxBoots]
HeldLists == UNION {[D -> Reservations] : D \in SUBSET Slots}
Activities == [session : Sessions, held : HeldLists]

ASSUME NoneAssumption == None \notin Leases \cup Markers \cup Activities

With(f, s, v) == [x \in DOMAIN f \cup {s} |-> IF x = s THEN v ELSE f[x]]
Without(f, s) == [x \in DOMAIN f \ {s} |-> f[x]]

Init ==
  /\ lock = None
  /\ marker = None
  /\ activity = None
  /\ receipt = None
  /\ papers = {}
  /\ group = [c \in Commands |-> "none"]
  /\ proc = [p \in Procs |-> Idle]
  /\ life = [p \in Procs |-> 0]
  /\ boot = 0
  /\ count = [sessions |-> 0, mishaps |-> 0]

Lives(owner) == life[owner.p] = owner.life
Myself(p) == [p |-> p, life |-> life[p]]

Mishap == count.mishaps < MaxMishaps /\ count' = [count EXCEPT !.mishaps = @ + 1]

(***************************************************************************)
(* The evidence for removing somebody else's marker.                       *)
(***************************************************************************)
\* readPendingMarker and the version test: a torn marker or one without a boot
\* identity (version 1) is no evidence at all.
Readable == marker.version \in {4, 5}

ActivityMatches == activity # None /\ activity.session = marker.session

\* Mutant: a command that was being prepared counts as not started.
UnknownOnlyTicketed(c, entry) == entry.ticket /\ c \notin papers

\* activityRecoveryBlocker: the group of the entry cannot be known.
Unknown(c, entry) ==
  IF entry.ticket THEN c \notin papers ELSE entry.phase = "preparing"

\* reservationRecoveryBlocker: signal zero finds the group, whose number is known from
\* the entry or from the registration.
Present(c, entry) == (entry.phase = "registered" \/ entry.ticket) /\ group[c] # "none"

\* Mutant: any reservation of a dead owner blocks the recovery.
BlockedByAny(session, held) == held # [s \in {} |-> None]

Blocked(session, held) ==
  \E s \in DOMAIN held : Unknown(<<session, s>>, held[s]) \/ Present(<<session, s>>, held[s])

\* The tests of an acquisition that found a marker.
Recoverable ==
  /\ Readable
  /\ marker.boot = boot =>
       /\ ~Lives(marker.owner)
       /\ ActivityMatches
       /\ ~Blocked(marker.session, activity.held)

Evidence == [marker |-> marker, activity |-> IF marker.boot = boot THEN activity ELSE None]

(***************************************************************************)
(* acquireResourceQuotaRefreshLease                                        *)
(***************************************************************************)
Goes(p, pc) == proc' = [proc EXCEPT ![p].pc = pc]

Acquire(p) ==
  /\ proc[p].pc = "idle"
  /\ lock # None => ~Lives(lock.owner)
  /\ lock' = [owner |-> Myself(p), session |-> None]
  /\ Goes(p, "acquired")
  /\ UNCHANGED <<files, group, life, boot, count>>

\* The release in the catch, and at the end of close.
Release(p) ==
  /\ proc' = [proc EXCEPT ![p] = Idle]
  /\ lock' = None

FindsNothing(p) ==
  /\ proc[p].pc = "acquired" /\ marker = None
  /\ Goes(p, "open")
  /\ UNCHANGED <<lock, files, group, life, boot, count>>

Refused(p) ==
  /\ proc[p].pc = "acquired" /\ marker # None /\ ~Recoverable
  /\ Release(p)
  /\ UNCHANGED <<files, group, life, boot, count>>

\* Mutant: the marker is removed first, the receipt never written.
AuthorizeUnrecorded(p) ==
  /\ proc[p].pc = "acquired" /\ marker # None /\ Recoverable
  /\ proc' = [proc EXCEPT ![p].pc = "authorized", ![p].seen = Evidence]
  /\ UNCHANGED <<lock, files, group, life, boot, count>>

\* The receipt is on disk before the marker is removed.
Authorize(p) ==
  /\ proc[p].pc = "acquired" /\ marker # None /\ Recoverable
  /\ receipt' = Evidence
  /\ proc' = [proc EXCEPT ![p].pc = "authorized", ![p].seen = Evidence]
  /\ UNCHANGED <<lock, marker, activity, papers, group, life, boot, count>>

\* Everything is read again: marker, activity, boot, owner, groups.
Confirmed(p) == marker # None /\ Recoverable /\ Evidence = proc[p].seen

Unfence(p) ==
  /\ proc[p].pc = "authorized"
  /\ IF Confirmed(p)
       THEN marker' = None /\ proc' = [proc EXCEPT ![p] = [Idle EXCEPT !.pc = "open"]] /\ UNCHANGED lock
       ELSE Release(p) /\ UNCHANGED marker
  /\ UNCHANGED <<activity, receipt, papers, group, life, boot, count>>

\* The deadline, an abort, or an error of the file system.
GiveUp(p) ==
  /\ proc[p].pc \in {"acquired", "authorized"}
  /\ Mishap
  /\ Release(p)
  /\ UNCHANGED <<files, group, life, boot>>

(***************************************************************************)
(* markPending: create exclusively, write and sync, publish the activity.  *)
(***************************************************************************)
MarkOpen(p, handoff) ==
  /\ proc[p].pc = "open" /\ marker = None
  /\ count.sessions < MaxSessions
  /\ LET n == count.sessions + 1 IN
       /\ count' = [count EXCEPT !.sessions = n]
       /\ marker' = [session |-> n, version |-> 0, owner |-> Myself(p), boot |-> boot]
       /\ lock' = [lock EXCEPT !.session = n]
       /\ proc' = [proc EXCEPT ![p].pc = "opened", ![p].session = n, ![p].handoff = handoff]
  /\ UNCHANGED <<activity, receipt, papers, group, life, boot>>

\* Without a boot identity the marker is of version 1.
MarkWrite(p, version) ==
  /\ proc[p].pc = "opened"
  /\ version \in {1, IF proc[p].handoff THEN 5 ELSE 4}
  /\ marker' = [marker EXCEPT !.version = version]
  /\ Goes(p, IF version = 1 THEN "working" ELSE "written")
  /\ UNCHANGED <<lock, activity, receipt, papers, group, life, boot, count>>

\* writeActivity: the file lists what the session holds.
Tracked == marker.version \in {4, 5}
ActivityOf(n, held) == [session |-> n, held |-> held]

MarkActivity(p) ==
  /\ proc[p].pc = "written"
  /\ activity' = ActivityOf(proc[p].session, proc[p].held)
  /\ Goes(p, "working")
  /\ UNCHANGED <<lock, marker, receipt, papers, group, life, boot, count>>

\* A failed write of the session, or a call for a reservation that was reclaimed
\* meanwhile: nothing is published any more, nothing is removed.
Poison(p) ==
  /\ proc[p].pc \in {"opened", "written", "working", "settling", "reclaiming"} /\ ~proc[p].poisoned
  /\ Mishap
  /\ proc' = [proc EXCEPT ![p].pc = "working", ![p].poisoned = TRUE]
  /\ UNCHANGED <<lock, files, group, life, boot>>

(***************************************************************************)
(* beginNativeActivity and the lifecycle of one command.                   *)
(***************************************************************************)
Working(p) == proc[p].pc = "working" /\ ~proc[p].poisoned

Holds(p, s, phase) == s \in DOMAIN proc[p].held /\ proc[p].held[s].phase = phase

\* writeReservations: the durable list, then the one in memory.
WriteReservations(p, held) ==
  activity' = IF Tracked THEN ActivityOf(proc[p].session, held) ELSE activity

Publish(p, held) ==
  /\ WriteReservations(p, held)
  /\ proc' = [proc EXCEPT ![p].held = held, ![p].pc = "working"]
  /\ UNCHANGED <<lock, marker, receipt, group, life, boot, count>>

Begin(p, s) ==
  /\ Working(p) /\ s \notin DOMAIN proc[p].held
  /\ Publish(p, With(proc[p].held, s, Ready))
  /\ UNCHANGED papers

\* prepare: with the handoff a ticket follows, which needs the activity file.
Prepare(p, s) ==
  /\ Working(p) /\ Holds(p, s, "ready")
  /\ proc[p].handoff => Tracked
  /\ Publish(p, [proc[p].held EXCEPT ![s] = [phase |-> "preparing", ticket |-> proc[p].handoff]])
  /\ UNCHANGED papers

PrepareUntracked(p, s) ==
  /\ Working(p) /\ Holds(p, s, "ready")
  /\ proc[p].handoff /\ ~Tracked
  /\ proc' = [proc EXCEPT ![p].poisoned = TRUE]
  /\ UNCHANGED <<lock, files, group, life, boot, count>>

\* spawn: with the handoff the launcher starts, otherwise the command itself.
Spawn(p, s) ==
  /\ Working(p) /\ Holds(p, s, "preparing") /\ s \notin proc[p].spawned
  /\ group' = [group EXCEPT ![<<proc[p].session, s>>] = IF proc[p].handoff THEN "born" ELSE "running"]
  /\ proc' = [proc EXCEPT ![p].spawned = @ \cup {s}]
  /\ UNCHANGED <<lock, files, life, boot, count>>

\* settled('not-started'): the spawn threw or reported no process.
NotStarted(p, s) ==
  /\ Working(p) /\ Holds(p, s, "preparing") /\ s \notin proc[p].spawned
  /\ Publish(p, [proc[p].held EXCEPT ![s] = Ready])
  /\ UNCHANGED papers

\* spawned: with the handoff upon the launcher's notice, and the packet that lets it
\* go follows.
Spawned(p, s) ==
  LET c == <<proc[p].session, s>> IN
    /\ Working(p) /\ Holds(p, s, "preparing") /\ s \in proc[p].spawned
    /\ proc[p].handoff => group[c] = "waiting"
    /\ WriteReservations(p, [proc[p].held EXCEPT ![s].phase = "registered"])
    /\ proc' = [proc EXCEPT ![p].held[s].phase = "registered"]
    /\ group' = [group EXCEPT ![c] = IF proc[p].handoff THEN "told" ELSE @]
    /\ UNCHANGED <<lock, marker, receipt, papers, life, boot, count>>

\* confirmNativeMetadataLaunch: the launcher is gone when its notice arrives.
SpawnedTooLate(p, s) ==
  /\ Working(p) /\ Holds(p, s, "preparing")
  /\ <<proc[p].session, s>> \in papers /\ group[<<proc[p].session, s>>] = "none"
  /\ proc' = [proc EXCEPT ![p].poisoned = TRUE]
  /\ UNCHANGED <<lock, files, group, life, boot, count>>

\* settled('group-exit-confirmed'): signal zero reports the group absent.  With the
\* handoff the registration is checked and retired before the list is written.
Exited(p, s) == Holds(p, s, "registered") /\ group[<<proc[p].session, s>>] = "none"

Retire(p, s) ==
  /\ Working(p) /\ proc[p].handoff /\ Exited(p, s) /\ <<proc[p].session, s>> \in papers
  /\ papers' = papers \ {<<proc[p].session, s>>}
  /\ Goes(p, "settling")
  /\ UNCHANGED <<lock, marker, activity, receipt, group, life, boot, count>>

GroupExitConfirmed(p, s) ==
  /\ Exited(p, s) /\ ~proc[p].poisoned
  /\ IF proc[p].handoff THEN proc[p].pc = "settling" /\ <<proc[p].session, s>> \notin papers
                        ELSE proc[p].pc = "working"
  /\ WriteReservations(p, [proc[p].held EXCEPT ![s] = Ready])
  /\ proc' = [proc EXCEPT ![p].held[s] = Ready, ![p].pc = "working", ![p].spawned = @ \ {s}]
  /\ UNCHANGED <<lock, marker, receipt, papers, group, life, boot, count>>

Settle(p, s) ==
  /\ Working(p) /\ Holds(p, s, "ready")
  /\ Publish(p, Without(proc[p].held, s))
  /\ UNCHANGED papers

(***************************************************************************)
(* reclaimNativeActivity: the live owner looks again for what a bounded    *)
(* drain could not confirm.                                                *)
(***************************************************************************)
Reclaim(p) ==
  /\ Working(p) /\ DOMAIN proc[p].held # {}
  /\ ~Blocked(proc[p].session, proc[p].held)
  /\ papers' = papers \ {<<proc[p].session, s>> : s \in {x \in DOMAIN proc[p].held : proc[p].held[x].ticket}}
  /\ Goes(p, "reclaiming")
  /\ UNCHANGED <<lock, marker, activity, receipt, group, life, boot, count>>

Reclaimed(p) ==
  /\ proc[p].pc = "reclaiming" /\ ~proc[p].poisoned
  /\ WriteReservations(p, [s \in {} |-> None])
  /\ proc' = [proc EXCEPT ![p].held = [s \in {} |-> None], ![p].pc = "working", ![p].spawned = {}]
  /\ UNCHANGED <<lock, marker, receipt, papers, group, life, boot, count>>

(***************************************************************************)
(* close                                                                   *)
(***************************************************************************)
\* The marker goes only with an empty list, and only if the caller does not keep it.
Withdraws(p, preserve) == ~proc[p].poisoned /\ ~preserve /\ DOMAIN proc[p].held = {}

Close(p, preserve) ==
  /\ proc[p].pc = "working"
  /\ marker' = IF Withdraws(p, preserve) THEN None ELSE marker
  /\ Goes(p, "closing")
  /\ UNCHANGED <<lock, activity, receipt, papers, group, life, boot, count>>

\* A lease that was never marked is closed by releasing it.
Closed(p) ==
  /\ proc[p].pc \in {"open", "closing"}
  /\ Release(p)
  /\ UNCHANGED <<files, group, life, boot, count>>

(***************************************************************************)
(* The launcher of a command (NATIVE_METADATA_LAUNCH_SOURCE).              *)
(***************************************************************************)
Reserved(c, phase) ==
  /\ marker # None /\ marker.session = c[1]
  /\ ActivityMatches /\ c[2] \in DOMAIN activity.held /\ activity.held[c[2]].phase = phase

\* It publishes its identity, whether or not somebody still listens.
ChildRegisters(c) ==
  /\ group[c] = "born" /\ Reserved(c, "preparing")
  /\ papers' = papers \cup {c}
  /\ group' = [group EXCEPT ![c] = "waiting"]
  /\ UNCHANGED <<lock, marker, activity, receipt, proc, life, boot, count>>

\* With the packet: the lock is still its owner's and the owner lives.
ChildVerifies(c) ==
  /\ group[c] = "told"
  /\ lock # None /\ lock.session = c[1] /\ Lives(lock.owner)
  /\ group' = [group EXCEPT ![c] = "cleared"]
  /\ UNCHANGED <<lock, files, proc, life, boot, count>>

ChildExecs(c) ==
  /\ group[c] = "cleared" /\ Reserved(c, "registered")
  /\ group' = [group EXCEPT ![c] = "running"]
  /\ UNCHANGED <<lock, files, proc, life, boot, count>>

\* The group ends: the command is done or terminated, a check failed, or the control
\* pipe ended.
ChildExits(c) ==
  /\ group[c] # "none"
  /\ group' = [group EXCEPT ![c] = "none"]
  /\ UNCHANGED <<lock, files, proc, life, boot, count>>

(***************************************************************************)
(* Processes die; the machine restarts.                                    *)
(***************************************************************************)
Die(p) ==
  /\ proc[p] # Idle \/ (marker # None /\ marker.owner = Myself(p))
  /\ Mishap
  /\ proc' = [proc EXCEPT ![p] = Idle]
  /\ life' = [life EXCEPT ![p] = @ + 1]
  /\ UNCHANGED <<lock, files, group, boot>>

Reboot ==
  /\ boot < MaxBoots
  /\ boot' = boot + 1
  /\ group' = [c \in Commands |-> "none"]
  /\ proc' = [p \in Procs |-> Idle]
  /\ life' = [p \in Procs |-> life[p] + 1]
  /\ UNCHANGED <<lock, files, count>>

Recover(p) == Acquire(p) \/ FindsNothing(p) \/ Refused(p) \/ Authorize(p) \/ Unfence(p)

Mark(p) ==
  \/ \E handoff \in BOOLEAN : MarkOpen(p, handoff)
  \/ \E version \in {1, 4, 5} : MarkWrite(p, version)
  \/ MarkActivity(p)

Work(p, s) ==
  \/ Begin(p, s) \/ Prepare(p, s) \/ PrepareUntracked(p, s) \/ Spawn(p, s) \/ NotStarted(p, s)
  \/ Spawned(p, s) \/ SpawnedTooLate(p, s) \/ Retire(p, s) \/ GroupExitConfirmed(p, s) \/ Settle(p, s)

Child(c) == ChildRegisters(c) \/ ChildVerifies(c) \/ ChildExecs(c) \/ ChildExits(c)

Next ==
  \/ \E p \in Procs :
       \/ Recover(p) \/ Mark(p) \/ GiveUp(p) \/ Poison(p) \/ Die(p)
       \/ Reclaim(p) \/ Reclaimed(p) \/ Closed(p)
       \/ \E preserve \in BOOLEAN : Close(p, preserve)
       \/ \E s \in Slots : Work(p, s)
  \/ \E c \in Commands : Child(c)
  \/ Reboot

Spec == Init /\ [][Next]_vars

\* A collector tries again (the console's server and the accounts view keep retrying,
\* a bounded refresh is run for every admission), a lease is closed by its callers'
\* finally blocks once the close has begun, and a process group ends.
Fairness ==
  /\ \A p \in Procs : WF_vars(Recover(p)) /\ WF_vars(proc[p].pc = "closing" /\ Closed(p))
  /\ \A c \in Commands : WF_vars(ChildExits(c))

FairSpec == Spec /\ Fairness

(***************************************************************************)
(* Properties                                                              *)
(***************************************************************************)
\* The records are well formed, and the owner of the lock that lives is the process
\* that is between acquisition and release (acquireLocalStoreLock, releaseLocalStoreLock).
TypeOK ==
  /\ lock \in Leases \cup {None}
  /\ marker \in Markers \cup {None}
  /\ activity \in Activities \cup {None}
  /\ receipt # None => receipt.marker \in Markers /\ receipt.marker.version \in {4, 5}
  /\ papers \subseteq Commands
  /\ group \in [Commands -> {"none", "born", "waiting", "told", "cleared", "running"}]
  /\ \A p \in Procs : proc[p].held \in HeldLists /\ proc[p].spawned \subseteq Slots
  /\ \A p \in Procs : proc[p].pc # "idle" <=> lock # None /\ lock.owner = Myself(p)

\* No native command is alive outside the fence: as long as its process group exists,
\* whatever became of the process that started it, the pending marker of its session is
\* in place and, if that marker can be recovered on this boot, the activity file lists
\* the command as one that may have started (markPending, prepare, spawned,
\* reservationRecoveryBlocker).  So the commands of two sessions never meet.
ContactFenced ==
  \A c \in Commands : group[c] # "none" =>
    /\ marker # None /\ marker.session = c[1] /\ marker.version # 0
    /\ Tracked => Reserved(c, "preparing") \/ Reserved(c, "registered")

\* A pending marker disappears in two ways: its own live session withdraws it with an
\* empty list of reservations (close), or a recovery whose receipt, already on disk,
\* holds that very marker and the activity it was judged by (authorized-before-unlink).
RemovalAccounted ==
  [][marker # None /\ marker' = None =>
       \/ receipt = Evidence
       \/ lock.session = marker.session /\ Lives(lock.owner) /\ (Tracked => DOMAIN activity.held = {})]_vars

\* A dead owner's fence with complete evidence, and any readable fence of an earlier
\* boot, does not stay: it is lifted once the groups are gone, however often acquisitions
\* fail or recoverers die on the way.
FenceLifted ==
  \A n \in Sessions :
    /\ marker # None
    /\ marker.session = n
    /\ Readable
    /\ marker.boot = boot =>
         /\ ~Lives(marker.owner) /\ ActivityMatches
         /\ \A s \in DOMAIN activity.held : ~Unknown(<<n, s>>, activity.held[s])
    ~> (marker # None => marker.session # n)
==============================================================================
