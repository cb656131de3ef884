--------------------------- MODULE LocalStoreLock ---------------------------
(***************************************************************************)
(* The lock file every durable store of the repository is written under    *)
(* (acquireLocalStoreLock, releaseLocalStoreLock).                         *)
(*                                                                         *)
(* A process owns the store while the canonical name is a hard link to the *)
(* file it wrote its pid and a fresh token into.  The lock of a dead       *)
(* process is removed by a contender that first wins a second lock of the  *)
(* same kind, the reclaim election.  There is no other synchronisation:    *)
(* processes meet only in the directory, and a step of this module is one  *)
(* system call, or one run of read-only calls that must all agree.         *)
(*                                                                         *)
(* A file is the inode with what is written in it.  An inode number is     *)
(* free again when its last name is gone; a token is never used twice.     *)
(* A pid is a slot and the number of processes that died in it, so a pid   *)
(* is never reused (the code waits for a reused pid to die).               *)
(***************************************************************************)
EXTENDS Integers, FiniteSets, FiniteSetsExt, Functions

CONSTANTS
  Slots,        \* the processes alive at any time
  Impatient,    \* the slots whose wait budget may run out
  Inodes,       \* the inode numbers of the directory, a set of numbers
  Leftovers,    \* the pasts of the directory: the names left, the deaths and faults so far
  MaxCrashes,   \* bound on the processes that die, those of the past included
  MaxFaults,    \* bound on the failures of fsync and of the removal of a guard, likewise
  None

\* A file: its inode, and the pid and token written in it.
Paths == {"lock", "election"}
Pids == Slots \X Nat
Files == [ino : Inodes, pid : Pids, token : Nat]

\* Names of the directory: the two locks, candidates by owner and token, and guards by the
\* name they pin and the process that pins it.
BaseNames == ({"canonical"} \X Paths) \cup ({"candidate"} \X Paths \X Pids \X Nat)
GuardNames == {"guard"} \X BaseNames \X Pids \X Nat
Names == BaseNames \cup GuardNames

\* Where safelyUnlink and releaseLocalStoreLock return to, and what they were called with.
Returns == {"rolledBack", "unsettled", "lost", "relink", "unelected", "reclaimed", "abandon",
            "released", "unreleased"}
CallerReturns == {"idle", "look"}

Unlinks == [name : Names, file : Files \cup {None}, allowed : {{1}, {2}, {1, 2}}, links : Nat,
            guard : GuardNames \cup {None}, removed : BOOLEAN,
            ok : Returns \cup {None}, bad : Returns \cup {None}]
Rels == [path : Paths, file : Files \cup {None}, ok : CallerReturns, bad : CallerReturns]

\* The next system call of a process.
Steps == {"idle", "look", "create", "link", "inspect", "collapse", "drop", "verify", "settle", "settleDrop",
          "settled", "unsettled", "rolledBack", "rival", "relink", "unelected", "confirm", "alias",
          "reclaimable", "pin", "guard", "stillCurrent", "trust", "unlink", "remaining", "unguard",
          "held", "release", "released", "unreleased"}
Procs == [pc : Steps, at : Paths, token : Nat,
          file : [lock : Files \cup {None}, election : Files \cup {None}],
          stale : Files \cup {None}, un : Unlinks \cup {None}, rel : Rels \cup {None},
          late : BOOLEAN, saw : BOOLEAN, attempted : BOOLEAN, available : BOOLEAN,
          consumed : BOOLEAN, used : BOOLEAN]

ASSUME LockAssumption ==
  /\ IsFiniteSet(Slots)
  /\ Inodes \subseteq Nat /\ IsFiniteSet(Inodes) /\ {1, 2} \subseteq Inodes
  /\ MaxFaults \in Nat
  /\ None \notin Slots /\ None \notin Pids
  /\ None \notin Files /\ None \notin GuardNames /\ None \notin Unlinks /\ None \notin Rels

\* Whoever left a name in the directory is dead: the owner of the lock, then a contender.
ASSUME LeftoverAssumption ==
  \A past \in Leftovers :
     /\ past.left \subseteq {"lock", "candidate", "guard", "election", "electionGuard"}
     /\ past.deaths \in Nat /\ past.faults \in 0 .. MaxFaults
     /\ past.left # {} => past.deaths >= 1
     /\ past.left \cap {"election", "electionGuard"} # {} => past.deaths >= 2

VARIABLES
  names,        \* the directory: the file each name leads to
  proc,         \* proc[p]: what the process in slot p is doing
  retained,     \* retainedReleases, for the canonical lock
  life,         \* life[p]: how many processes of slot p have died
  faults        \* the failures so far

vars == <<names, proc, retained, life, faults>>

NoFiles == [lock |-> None, election |-> None]

\* A process outside acquire and release.
Outside ==
  [pc |-> "idle", at |-> "lock", token |-> 0, file |-> NoFiles, stale |-> None,
   un |-> None, rel |-> None, late |-> FALSE, saw |-> FALSE, attempted |-> FALSE,
   available |-> FALSE, consumed |-> FALSE, used |-> FALSE]

(***************************************************************************)
(* The directory.                                                          *)
(***************************************************************************)
Pid(p) == <<p, life[p]>>
Alive(pid) == life[pid[1]] = pid[2]

Canonical(path) == <<"canonical", path>>
Candidate(path, f) == <<"candidate", path, f.pid, f.token>>
Guard(p, name) ==
  <<"guard", name, Pid(p), Cardinality({n \in DOMAIN names : n[1] = "guard" /\ n[2] = name /\ n[3] = Pid(p)})>>

At(path) == IF Canonical(path) \in DOMAIN names THEN names[Canonical(path)] ELSE None
Links(f) == Cardinality({n \in DOMAIN names : names[n].ino = f.ino})

\* What processes that died before left in the directory: the lock, its
\* candidate name and a guard on it, the election of a second process, and a guard on that.
LeftName(x, lock, election) ==
  CASE x = "lock"          -> <<Canonical("lock"), lock>>
    [] x = "candidate"     -> <<Candidate("lock", lock), lock>>
    [] x = "guard"         -> <<<<"guard", Canonical("lock"), lock.pid, 0>>, lock>>
    [] x = "election"      -> <<Canonical("election"), election>>
    [] x = "electionGuard" -> <<<<"guard", Canonical("election"), election.pid, 0>>, election>>

Directory(left, p) ==
  LET entries == {LeftName(x, [ino |-> 1, pid |-> <<p, 0>>, token |-> 1], [ino |-> 2, pid |-> <<p, 1>>, token |-> 2]) : x \in left}
  IN  [n \in {e[1] : e \in entries} |-> (CHOOSE e \in entries : e[1] = n)[2]]

Init ==
  /\ \E past \in Leftovers, p \in Slots :
       /\ names = Directory(past.left, p)
       /\ life = [q \in Slots |-> IF q = p THEN past.deaths ELSE 0]
       /\ faults = past.faults
  /\ proc = [p \in Slots |-> Outside]
  /\ retained = [p \in Slots |-> None]

WithName(n, f) == [x \in DOMAIN names \cup {n} |-> IF x = n THEN f ELSE names[x]]
WithoutName(n) == Restrict(names, DOMAIN names \ {n})

\* The files a process remembers; their names may be gone.
Recalled(r) ==
  {r.file.lock, r.file.election, r.stale} \cup
  (IF r.un = None THEN {} ELSE {r.un.file}) \cup (IF r.rel = None THEN {} ELSE {r.rel.file})
Remembered == ((UNION {Recalled(proc[p]) : p \in Slots}) \cup Range(retained)) \ {None}

\* randomUUID: the least number no file and no process knows.
FreshToken ==
  LET known == {f.token : f \in Range(names) \cup Remembered} \cup {proc[p].token : p \in Slots}
  IN  Min((1 .. Cardinality(known) + 1) \ known)

\* A new file gets an inode somebody may still remember, or one nobody does.
FreshInodes ==
  LET free == Inodes \ {f.ino : f \in Range(names)}
      forgotten == free \ {f.ino : f \in Remembered}
  IN  (free \ forgotten) \cup (IF forgotten = {} THEN {} ELSE {Min(forgotten)})

\* ownerState = 'dead': a readable file with one or two links whose process is gone.
DeadOwner(f) == f # None /\ Links(f) \in 1 .. 2 /\ ~Alive(f.pid)

\* ownsLocalStoreLock: the canonical name is the file's only name.
Owns(path, f) == At(path) = f /\ Links(f) = 1

\* The values of "cond && fsyncDirectory(...)".
Synced(cond) == IF cond /\ faults < MaxFaults THEN BOOLEAN ELSE {cond}
CountFault(cond, ok) == faults' = IF cond /\ ~ok THEN faults + 1 ELSE faults

(***************************************************************************)
(* Control flow of one process.                                            *)
(***************************************************************************)
Become(p, r) == proc' = [proc EXCEPT ![p] = r]

\* Back to the head of the loop.
Again(r) ==
  [r EXCEPT !.pc = "look", !.at = "lock", !.file = NoFiles, !.stale = None, !.un = None, !.rel = None, !.used = FALSE]

\* Mutant: the deadline is only tested at the head of the loop.
RetryForever(r) == Again(r)

\* The end of an attempt: give up after the deadline, else sleep and look again.
Retry(r) == IF r.late THEN Outside ELSE Again(r)

Unlinking(r, name, f, allowed, ok, bad) ==
  [r EXCEPT !.pc = "pin",
            !.un = [name |-> name, file |-> f, allowed |-> allowed, links |-> 0,
                    guard |-> None, removed |-> FALSE, ok |-> ok, bad |-> bad]]

Releasing(r, path, f, ok, bad) ==
  [r EXCEPT !.pc = "release", !.un = None, !.rel = [path |-> path, file |-> f, ok |-> ok, bad |-> bad]]

Installed(r) ==
  IF r.at = "lock" THEN [Outside EXCEPT !.pc = "held", !.file = r.file] ELSE [r EXCEPT !.pc = "confirm", !.un = None]

\* No file of this process is left installed, or it cannot tell (settle throws).
Lost(r) == IF r.at = "lock" THEN Outside ELSE Retry(r)

\* The finally that gives the election back, before the call fails or the
\* loop goes on with one more installation allowed.
Abandon(r) == Releasing(r, "election", r.file.election, "idle", "idle")
Reclaimed(r) ==
  Releasing([r EXCEPT !.available = @ \/ ~r.consumed], "election", r.file.election, "look", "look")

\* Where a call goes when safelyUnlink or releaseLocalStoreLock returns.
Enter(r, pc) ==
  CASE pc = "idle"      -> Outside
    [] pc = "look"      -> Again(r)
    [] pc = "lost"      -> Lost(r)
    [] pc = "abandon"   -> Abandon(r)
    [] pc = "reclaimed" -> Reclaimed(r)
    [] OTHER            -> [r EXCEPT !.pc = pc, !.un = None]

(***************************************************************************)
(* acquireLocalStoreLock: the loop.                                        *)
(***************************************************************************)
Acquire(p) ==
  /\ proc[p].pc = "idle"
  /\ LET r == [Outside EXCEPT !.token = FreshToken]
     IN  Become(p, IF retained[p] = None THEN Again(r)
                   ELSE Releasing(r, "lock", retained[p], "look", "idle"))
  /\ UNCHANGED <<names, retained, life, faults>>

\* The wait budget of a call runs out.
Expire(p) ==
  /\ p \in Impatient
  /\ proc[p].token # 0 /\ ~proc[p].late
  /\ Become(p, [proc[p] EXCEPT !.late = TRUE])
  /\ UNCHANGED <<names, retained, life, faults>>

\* contendedOwnerState and the tests of the deadline after it.
Look(p) ==
  /\ proc[p].pc = "look"
  /\ LET f == At("lock")
         dead == DeadOwner(f)
         saw == proc[p].saw \/ f # None
         r == [proc[p] EXCEPT !.saw = saw]
         mayInstall == r.available /\ f = None
     IN  Become(p, IF f # None /\ ~dead THEN Retry(r)
                   ELSE IF saw /\ r.late /\ (~dead \/ r.attempted) /\ ~mayInstall THEN Outside
                   ELSE [r EXCEPT !.pc = "create", !.attempted = TRUE])
  /\ UNCHANGED <<names, retained, life, faults>>

\* The candidate is written under a name nobody else uses.
Create(p) ==
  /\ proc[p].pc = "create"
  /\ \E i \in FreshInodes :
       LET r == proc[p]
           f == [ino |-> i, pid |-> Pid(p), token |-> IF r.at = "lock" THEN r.token ELSE FreshToken]
       IN  /\ names' = WithName(Candidate(r.at, f), f)
           /\ Become(p, [r EXCEPT !.pc = "link", !.file[r.at] = f])
  /\ UNCHANGED <<retained, life, faults>>

\* The one installation that is allowed after the deadline is spent by the call of linkSync.
SpendInstall(r) ==
  IF r.at = "lock" /\ r.available THEN [r EXCEPT !.available = FALSE, !.consumed = TRUE, !.used = TRUE] ELSE r

\* Mutant: published by rename, which replaces what is there.
PublishOver(p) ==
  /\ proc[p].pc = "link"
  /\ names' = WithName(Canonical(proc[p].at), proc[p].file[proc[p].at])
  /\ Become(p, [SpendInstall(proc[p]) EXCEPT !.pc = "collapse"])
  /\ UNCHANGED <<retained, life, faults>>

Publish(p) ==
  /\ proc[p].pc = "link"
  /\ At(proc[p].at) = None
  /\ names' = WithName(Canonical(proc[p].at), proc[p].file[proc[p].at])
  /\ Become(p, [SpendInstall(proc[p]) EXCEPT !.pc = "collapse"])
  /\ UNCHANGED <<retained, life, faults>>

\* linkSync throws EEXIST.
Refused(p) ==
  /\ proc[p].pc = "link"
  /\ At(proc[p].at) # None
  /\ LET r == SpendInstall(proc[p])
     IN  IF r.at = "lock"
         THEN /\ names' = WithoutName(Candidate("lock", r.file.lock))
              /\ Become(p, IF r.used /\ r.late THEN Outside ELSE [r EXCEPT !.pc = "inspect", !.file = NoFiles])
         ELSE /\ Become(p, [r EXCEPT !.pc = "rival"])
              /\ UNCHANGED names
  /\ UNCHANGED <<retained, life, faults>>

Inspect(p) ==
  /\ proc[p].pc = "inspect"
  /\ Become(p, IF DeadOwner(At("lock"))
               THEN [proc[p] EXCEPT !.pc = "create", !.at = "election", !.stale = At("lock")]
               ELSE Retry(proc[p]))
  /\ UNCHANGED <<names, retained, life, faults>>

(***************************************************************************)
(* collapsePublishedCandidate and settleCanonicalInstallation, for either  *)
(* lock: the candidate name goes, and the canonical one must remain alone. *)
(***************************************************************************)
Mine(p) == proc[p].file[proc[p].at]

BothNames(p) ==
  /\ Candidate(proc[p].at, Mine(p)) \in DOMAIN names
  /\ At(proc[p].at) = Mine(p)
  /\ Links(Mine(p)) = 2

Collapse(p) ==
  /\ proc[p].pc = "collapse"
  /\ Become(p, [proc[p] EXCEPT !.pc = IF BothNames(p) THEN "drop" ELSE "settle"])
  /\ UNCHANGED <<names, retained, life, faults>>

DropCandidate(p) ==
  /\ proc[p].pc \in {"drop", "settleDrop"}
  /\ names' = WithoutName(Candidate(proc[p].at, Mine(p)))
  /\ Become(p, [proc[p] EXCEPT !.pc = IF @ = "drop" THEN "verify" ELSE "settled"])
  /\ UNCHANGED <<retained, life, faults>>

\* Mutant: an installation that cannot be made durable is given up, not settled.
VerifyForgets(p) ==
  /\ proc[p].pc = "verify"
  /\ \E ok \in Synced(Owns(proc[p].at, Mine(p))) :
       /\ CountFault(Owns(proc[p].at, Mine(p)), ok)
       /\ Become(p, IF ok THEN Installed(proc[p]) ELSE Lost(proc[p]))
  /\ UNCHANGED <<names, retained, life>>

Verify(p) ==
  /\ proc[p].pc = "verify"
  /\ \E ok \in Synced(Owns(proc[p].at, Mine(p))) :
       /\ CountFault(Owns(proc[p].at, Mine(p)), ok)
       /\ Become(p, IF ok THEN Installed(proc[p]) ELSE [proc[p] EXCEPT !.pc = "settle"])
  /\ UNCHANGED <<names, retained, life>>

Settle(p) ==
  /\ proc[p].pc = "settle"
  /\ Become(p, [proc[p] EXCEPT !.pc = IF BothNames(p) THEN "settleDrop" ELSE "settled"])
  /\ UNCHANGED <<names, retained, life, faults>>

\* Installed after all, or rolled back under a guard.
Settled(p) ==
  /\ proc[p].pc \in {"settled", "unsettled"}
  /\ LET r == proc[p]
         owns == Owns(r.at, Mine(p))
     IN  \E ok \in Synced(owns) :
           /\ CountFault(owns, ok)
           /\ Become(p, IF ok THEN Installed(r)
                        ELSE IF r.pc = "unsettled" THEN Lost(r)
                        ELSE Unlinking(r, Canonical(r.at), Mine(p), {1, 2}, "rolledBack", "unsettled"))
  /\ UNCHANGED <<names, retained, life>>

RolledBack(p) ==
  /\ proc[p].pc = "rolledBack"
  /\ LET c == Candidate(proc[p].at, Mine(p))
     IN  Become(p, IF c \in DOMAIN names THEN Unlinking(proc[p], c, Mine(p), {1}, "lost", "lost")
                   ELSE Lost(proc[p]))
  /\ UNCHANGED <<names, retained, life, faults>>

(***************************************************************************)
(* acquireReclaimElection: the election of a dead contender is removed     *)
(* without an election of its own.                                         *)
(***************************************************************************)
\* Mutant: the election is taken over whoever holds it.
RivalTakesOver(p) ==
  /\ proc[p].pc = "rival"
  /\ LET f == At("election")
     IN  Become(p, IF f # None
                   THEN Unlinking(proc[p], Canonical("election"), f, {1, 2}, "relink", "unelected")
                   ELSE [proc[p] EXCEPT !.pc = "unelected"])
  /\ UNCHANGED <<names, retained, life, faults>>

Rival(p) ==
  /\ proc[p].pc = "rival"
  /\ LET f == At("election")
     IN  Become(p, IF DeadOwner(f)
                   THEN Unlinking(proc[p], Canonical("election"), f, {1, 2}, "relink", "unelected")
                   ELSE [proc[p] EXCEPT !.pc = "unelected"])
  /\ UNCHANGED <<names, retained, life, faults>>

Relink(p) ==
  /\ proc[p].pc = "relink"
  /\ IF At("election") = None
     THEN /\ names' = WithName(Canonical("election"), Mine(p))
          /\ Become(p, [proc[p] EXCEPT !.pc = "collapse"])
     ELSE /\ Become(p, [proc[p] EXCEPT !.pc = "unelected"])
          /\ UNCHANGED names
  /\ UNCHANGED <<retained, life, faults>>

Unelected(p) ==
  /\ proc[p].pc = "unelected"
  /\ names' = WithoutName(Candidate("election", Mine(p)))
  /\ Become(p, Retry(proc[p]))
  /\ UNCHANGED <<retained, life, faults>>

(***************************************************************************)
(* The winner of the election removes the lock of the dead owner.          *)
(***************************************************************************)
\* Mutant: only the owner's own candidate may go, a guard stays for ever.
RemovableCandidate(n, f) == n = Candidate("lock", f)

\* The second name of a dead owner's lock that may be taken away: its own
\* candidate, or the guard of a process that is dead too.
Removable(n, f) ==
  \/ n = Candidate("lock", f)
  \/ n[1] = "guard" /\ n[2] = Canonical("lock") /\ ~Alive(n[3])

Confirm(p) ==
  /\ proc[p].pc = "confirm"
  /\ LET r == proc[p]
         same == At("lock") = r.stale /\ DeadOwner(r.stale)
         aliases == {n \in DOMAIN names \ {Canonical("lock")} : names[n].ino = r.stale.ino /\ Removable(n, r.stale)}
     IN  IF same /\ Links(r.stale) = 1 THEN Become(p, [r EXCEPT !.pc = "reclaimable"])
         ELSE IF same /\ aliases # {}
         THEN \E n \in aliases : Become(p, [Unlinking(r, n, r.stale, {2}, None, None) EXCEPT !.pc = "alias"])
         ELSE Become(p, Abandon(r))
  /\ UNCHANGED <<names, retained, life, faults>>

\* collapseLockAlias.
DropAlias(p) ==
  /\ proc[p].pc = "alias"
  /\ LET n == proc[p].un.name
         there == n \in DOMAIN names
     IN  /\ names' = WithoutName(n)
         /\ \E ok \in Synced(there) :
              /\ CountFault(there, ok)
              /\ Become(p, Enter(proc[p], IF ok THEN "reclaimable" ELSE "abandon"))
  /\ UNCHANGED <<retained, life>>

Reclaimable(p) ==
  /\ proc[p].pc = "reclaimable"
  /\ LET r == proc[p]
     IN  Become(p, IF Owns("lock", r.stale) /\ DeadOwner(r.stale)
                   THEN Unlinking(r, Canonical("lock"), r.stale, {1}, "reclaimed", "abandon")
                   ELSE Abandon(r))
  /\ UNCHANGED <<names, retained, life, faults>>

(***************************************************************************)
(* safelyUnlink: pin the inode under a private name, look again, remove.   *)
(***************************************************************************)
Pin(p) ==
  /\ proc[p].pc = "pin"
  /\ LET r == proc[p]
         n == r.un.name
     IN  Become(p, IF n \in DOMAIN names /\ names[n].ino = r.un.file.ino /\ Links(names[n]) \in r.un.allowed
                   THEN [r EXCEPT !.pc = "guard", !.un.links = Links(names[n])]
                   ELSE Enter(r, r.un.bad))
  /\ UNCHANGED <<names, retained, life, faults>>

\* linkSync(path, guard) pins whatever the path leads to by now.
LinkGuard(p) ==
  /\ proc[p].pc = "guard"
  /\ LET r == proc[p]
         g == Guard(p, r.un.name)
     IN  IF r.un.name \in DOMAIN names
         THEN /\ names' = WithName(g, names[r.un.name])
              /\ Become(p, [r EXCEPT !.pc = "stillCurrent", !.un.guard = g])
         ELSE /\ Become(p, Enter(r, r.un.bad))
              /\ UNCHANGED names
  /\ UNCHANGED <<retained, life, faults>>

StillCurrent(p) ==
  /\ proc[p].pc = "stillCurrent"
  /\ LET u == proc[p].un
         same == /\ {u.guard, u.name} \subseteq DOMAIN names
                 /\ names[u.guard].ino = u.file.ino
                 /\ names[u.name].ino = u.file.ino
                 /\ Links(u.file) = u.links + 1
     IN  Become(p, [proc[p] EXCEPT !.pc = IF same THEN "trust" ELSE "unguard"])
  /\ UNCHANGED <<names, retained, life, faults>>

\* Mutant: the inode number is trusted, whatever is written in the file by now.
TrustInode(p) ==
  /\ proc[p].pc = "trust"
  /\ LET u == proc[p].un
     IN  Become(p, [proc[p] EXCEPT !.pc =
           IF u.guard \in DOMAIN names /\ names[u.guard].ino = u.file.ino /\ Links(u.file) = u.links + 1
           THEN "unlink" ELSE "unguard"])
  /\ UNCHANGED <<names, retained, life, faults>>

\* hasExpectedToken, through the guard.
Trust(p) ==
  /\ proc[p].pc = "trust"
  /\ LET u == proc[p].un
     IN  Become(p, [proc[p] EXCEPT !.pc =
           IF u.guard \in DOMAIN names /\ names[u.guard] = u.file /\ Links(u.file) = u.links + 1
           THEN "unlink" ELSE "unguard"])
  /\ UNCHANGED <<names, retained, life, faults>>

\* unlinkSync(path) removes whatever the path leads to by now.
Unlink(p) ==
  /\ proc[p].pc = "unlink"
  /\ LET n == proc[p].un.name
     IN  /\ Become(p, [proc[p] EXCEPT !.pc = IF n \in DOMAIN names THEN "remaining" ELSE "unguard"])
         /\ names' = WithoutName(n)
  /\ UNCHANGED <<retained, life, faults>>

Remaining(p) ==
  /\ proc[p].pc = "remaining"
  /\ LET u == proc[p].un
     IN  Become(p, [proc[p] EXCEPT !.pc = "unguard",
                      !.un.removed = u.guard \in DOMAIN names /\ names[u.guard] = u.file /\ Links(u.file) = u.links])
  /\ UNCHANGED <<names, retained, life, faults>>

\* The guard goes whatever happened; it stays when its own removal fails.
Unguard(p) ==
  /\ proc[p].pc = "unguard"
  /\ LET u == proc[p].un
     IN  \/ /\ names' = WithoutName(u.guard)
            /\ \E ok \in Synced(u.removed) :
                 /\ CountFault(u.removed, ok)
                 /\ Become(p, Enter(proc[p], IF ok THEN u.ok ELSE u.bad))
         \/ /\ faults < MaxFaults
            /\ faults' = faults + 1
            /\ Become(p, Enter(proc[p], u.bad))
            /\ UNCHANGED names
  /\ UNCHANGED <<retained, life>>

(***************************************************************************)
(* releaseLocalStoreLock.                                                  *)
(***************************************************************************)
HolderReleases(p) ==
  /\ proc[p].pc = "held"
  /\ Become(p, Releasing(proc[p], "lock", proc[p].file.lock, "idle", "idle"))
  /\ UNCHANGED <<names, retained, life, faults>>

\* An entry for the election is made as well, but nothing ever asks for it.
Retain(p, path, f) == retained' = IF path = "lock" THEN [retained EXCEPT ![p] = f] ELSE retained

Release(p) ==
  /\ proc[p].pc = "release"
  /\ LET r == proc[p]
         q == r.rel
         f == At(q.path)
     IN  \/ /\ f = None
            /\ \E ok \in Synced(TRUE) :
                 /\ CountFault(TRUE, ok)
                 /\ Retain(p, q.path, IF ok THEN None ELSE q.file)
                 /\ Become(p, Enter(r, IF ok THEN q.ok ELSE q.bad))
         \/ /\ f # None
            /\ IF f.ino # q.file.ino
               THEN /\ Retain(p, q.path, None)
                    /\ Become(p, Enter(r, q.bad))
               ELSE /\ Become(p, IF f = q.file /\ Links(f) = 1
                                 THEN Unlinking(r, Canonical(q.path), f, {1}, "released", "unreleased")
                                 ELSE Enter(r, q.bad))
                    /\ UNCHANGED retained
            /\ UNCHANGED faults
  /\ UNCHANGED <<names, life>>

Released(p) ==
  /\ proc[p].pc = "released"
  /\ Retain(p, proc[p].rel.path, None)
  /\ Become(p, Enter(proc[p], proc[p].rel.ok))
  /\ UNCHANGED <<names, life, faults>>

Unreleased(p) ==
  /\ proc[p].pc = "unreleased"
  /\ LET q == proc[p].rel
         f == At(q.path)
         gone == f = None
     IN  \E ok \in Synced(gone) :
           /\ CountFault(gone, ok)
           /\ IF gone /\ ~ok THEN UNCHANGED retained
              ELSE Retain(p, q.path, IF ~gone /\ f.ino = q.file.ino THEN q.file ELSE None)
           /\ Become(p, Enter(proc[p], q.bad))
  /\ UNCHANGED <<names, life>>

(***************************************************************************)
(* A process dies; another starts in its slot.                             *)
(***************************************************************************)
Deaths == SumFunctionOnSet(life, Slots)

Crash(p) ==
  /\ Deaths < MaxCrashes
  /\ life' = [life EXCEPT ![p] = @ + 1]
  /\ Become(p, Outside)
  /\ retained' = [retained EXCEPT ![p] = None]
  /\ UNCHANGED <<names, faults>>

\* What a process does once it has started a call.
Run(p) ==
  \/ Look(p) \/ Create(p) \/ Publish(p) \/ Refused(p) \/ Inspect(p)
  \/ Collapse(p) \/ DropCandidate(p) \/ Verify(p) \/ Settle(p) \/ Settled(p) \/ RolledBack(p)
  \/ Rival(p) \/ Relink(p) \/ Unelected(p)
  \/ Confirm(p) \/ DropAlias(p) \/ Reclaimable(p)
  \/ Pin(p) \/ LinkGuard(p) \/ StillCurrent(p) \/ Trust(p) \/ Unlink(p) \/ Remaining(p) \/ Unguard(p)
  \/ Release(p) \/ Released(p) \/ Unreleased(p)

Next == \E p \in Slots : Acquire(p) \/ Expire(p) \/ Run(p) \/ HolderReleases(p) \/ Crash(p)

Spec == Init /\ [][Next]_vars

\* A call runs to its end and a holder gives the lock back; nobody must call or die.
FairSpec == Spec /\ \A p \in Slots : WF_vars(Run(p)) /\ WF_vars(HolderReleases(p))

(***************************************************************************)
(* Properties.                                                             *)
(***************************************************************************)
\* The directory holds files of processes of the past and present; a candidate's
\* name is the one collapseInstalledCandidate rebuilds from what is written in it.
TypeOK ==
  /\ DOMAIN names \subseteq Names /\ Range(names) \subseteq Files
  /\ \A n \in DOMAIN names : n[1] = "candidate" => n = Candidate(n[2], names[n])
  /\ proc \in [Slots -> Procs]
  /\ retained \in [Slots -> Files \cup {None}]
  /\ life \in [Slots -> Nat]
  /\ faults \in 0 .. MaxFaults
  /\ \A p \in Slots : retained[p] # None => retained[p].pid = Pid(p)

\* Whoever acquireLocalStoreLock told that it owns the store does own it until
\* it starts to give it back: its file, under the one canonical name.
HolderInstalled == \A p \in Slots : proc[p].pc = "held" => At("lock") = proc[p].file.lock

\* No contender takes away the lock of a process that is alive, whatever it
\* read before: only its owner's own steps change what the name leads to.
LiveLockKept ==
  [][\A p \in Slots :
       (At("lock") # None /\ At("lock").pid = Pid(p) /\ At("lock")' # At("lock")) => proc'[p] # proc[p]]_vars

\* At most one process has died.
OneDeath == \A p, q \in Slots : life[p] <= 1 /\ (life[p] = 1 /\ life[q] = 1 => p = q)

\* A live process that is in no call has left no lock of its own installed, whatever failed:
\* the store is never blocked for as long as a process lives.  For one death, because after
\* two a second reclaimer's guard can make the owner's release give up (retainedReleases
\* covers only the releases that got as far as removing the name).
NothingLeft ==
  OneDeath => \A p \in Slots : proc[p].pc = "idle" /\ At("lock") # None => At("lock").pid # Pid(p)

\* The process is between winning the reclaim election and giving it back.
Reclaiming(p) ==
  \/ proc[p].pc \in {"confirm", "alias", "reclaimable"}
  \/ proc[p].un # None /\ proc[p].un.name = Canonical("lock") /\ proc[p].stale # None

\* Stale deletion is serialized through one reclaimer at a time.
OneReclaimer == \A p, q \in Slots : Reclaiming(p) /\ Reclaiming(q) => p = q

\* It is, as long as no contender dies in the election: one death and one failing fsync
\* or removal, wherever they happen, never let two processes delete the same stale lock.
OneReclaimerUnlessElectedDies == OneDeath => OneReclaimer

\* All this installing, guarding and settling comes down to the lock its callers rely on: who
\* it is installed for, and who was told so.
Owner == IF At("lock") = None THEN None ELSE At("lock").pid
Holder == IF \E p \in Slots : proc[p].pc = "held" THEN CHOOSE p \in Slots : proc[p].pc = "held" ELSE None
Store == INSTANCE StoreLock WITH owner <- Owner, holder <- Holder
StoreExclusion == Store!Exclusion

\* The lock of a dead process does not stay while somebody keeps waiting for it.
DeadLock == At("lock") # None /\ ~Alive(At("lock").pid)
DeadReclaimed == \A p \in Slots : (DeadLock /\ proc[p].pc = "look" /\ ~proc[p].late) ~> ~DeadLock

\* After its deadline a call returns, with the lock or without.
LateReturns == \A p \in Slots : proc[p].late ~> proc[p].pc \in {"idle", "held"}
=============================================================================
