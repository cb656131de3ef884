------------------------ MODULE LocalStoreLockProofs ------------------------
(***************************************************************************)
(* Proofs about LocalStoreLock for any number of processes, deaths and     *)
(* failing system calls: whoever was told that it owns the store does, and *)
(* nobody takes the lock of a live process away.                           *)
(***************************************************************************)
EXTENDS LocalStoreLock, FiniteSetTheorems, WellFoundedInduction, TLAPS

(***************************************************************************)
(* The inductive invariant.                                                *)
(***************************************************************************)
\* The steps of safelyUnlink, and those during which its guard is in the directory.
UnlinkSteps == {"pin", "guard", "stillCurrent", "trust", "unlink", "remaining", "unguard"}
GuardedSteps == {"stillCurrent", "trust", "unlink", "remaining", "unguard"}
ReleaseSteps == {"release", "released", "unreleased"}

\* The steps of a call that has written its candidate and not yet settled it.
FiledSteps == {"link", "collapse", "drop", "verify", "settle", "settleDrop", "settled", "unsettled",
               "rolledBack", "rival", "relink", "unelected"}

Known(pid) == pid[2] <= life[pid[1]]
Gone(pid) == pid[2] < life[pid[1]]

\* The names of the directory are well formed, an inode has one content, and only processes
\* that have started wrote in it.
DirectoryOK ==
  /\ IsFiniteSet(DOMAIN names)
  /\ DOMAIN names \subseteq Names
  /\ \A n \in DOMAIN names : names[n] \in Files /\ Known(names[n].pid)
  /\ \A n \in DOMAIN names : n[1] = "candidate" => n = Candidate(n[2], names[n])
  /\ \A n \in DOMAIN names : n[1] = "guard" => Known(n[3])
  /\ \A m, n \in DOMAIN names : names[m].ino = names[n].ino => names[m] = names[n]

\* What safelyUnlink of process p may be after: of the lock, p's own file or that of a dead
\* process, which must then have no other name; of the other names, p's or a dead process's.
Target(p, u) ==
  /\ u.name = Canonical("lock") /\ u.file # None =>
       u.file.pid = Pid(p) \/ (Gone(u.file.pid) /\ u.allowed = {1})
  /\ u.name[1] # "canonical" => u.name[3] = Pid(p) \/ Gone(u.name[3])
  /\ u.guard # None => u.guard[3] = Pid(p)

\* What a process needs to have when it comes to step x.
Prepared(r, x) ==
  /\ x \in ReleaseSteps => r.rel # None
  /\ x \in FiledSteps => r.file[r.at] # None
  /\ x \in {"rival", "relink", "unelected"} => r.at = "election"

\* The files process p remembers as its own are its own, the stale one is a dead process's,
\* and each step finds what the steps before it left.
Sane(p, r) ==
  /\ r \in Procs
  /\ r.file.lock # None => r.file.lock.pid = Pid(p)
  /\ r.file.election # None => r.file.election.pid = Pid(p)
  /\ r.stale # None => Gone(r.stale.pid)
  /\ r.rel # None /\ r.rel.path = "lock" /\ r.rel.file # None => r.rel.file.pid = Pid(p)
  /\ r.un # None => Target(p, r.un)
  /\ Prepared(r, r.pc)
  /\ r.pc \in UnlinkSteps =>
       /\ r.un.name \in BaseNames
       /\ r.un.ok \in Returns /\ r.un.bad \in Returns \ {"relink"}
       /\ Prepared(r, r.un.ok) /\ Prepared(r, r.un.bad)
       /\ r.un.ok = "relink" => r.un.name = Canonical("election")
  /\ r.pc = "alias" => r.un.name[1] # "canonical"
  /\ r.pc \in UnlinkSteps \cup {"alias"} => r.un # None
  /\ r.pc \in {"guard", "stillCurrent", "trust", "unlink"} => r.un.links \in r.un.allowed
  /\ r.pc \in GuardedSteps => r.un.guard # None
  /\ r.pc = "held" => r.at = "lock" /\ r.file.lock # None

\* The candidate from which a file is going to be linked to the canonical name is still there.
Linkable(r) ==
  r.pc \in {"link", "rival", "relink"} \/ (r.pc \in UnlinkSteps /\ r.un.ok = "relink")

\* Process p has verified through its guard what the lock's name leads to.
Committed(p) ==
  /\ proc[p].pc \in {"trust", "unlink"}
  /\ proc[p].un.name = Canonical("lock")
  /\ names[proc[p].un.guard] = proc[p].un.file

\* What process p may rely on in the directory.
Anchored(p) ==
  /\ proc[p].pc = "held" => At("lock") = proc[p].file.lock
  /\ Linkable(proc[p]) =>
       LET c == Candidate(proc[p].at, Mine(p)) IN c \in DOMAIN names /\ names[c] = Mine(p)
  /\ proc[p].pc \in GuardedSteps => proc[p].un.guard \in DOMAIN names
  /\ proc[p].pc = "unlink" => names[proc[p].un.guard] = proc[p].un.file
  /\ Committed(p) => At("lock") = proc[p].un.file

LockInv ==
  /\ life \in [Slots -> Nat]
  /\ faults \in 0 .. MaxFaults
  /\ DirectoryOK
  /\ proc \in [Slots -> Procs]
  /\ retained \in [Slots -> Files \cup {None}]
  /\ \A p \in Slots : retained[p] # None => retained[p].pid = Pid(p)
  /\ \A p \in Slots : Sane(p, proc[p]) /\ Anchored(p)
  /\ \A p, q \in Slots : Committed(p) /\ Committed(q) => p = q

(***************************************************************************)
(* What a process becomes.                                                 *)
(***************************************************************************)
\* A process at such a step relies on nothing in the directory.
Unanchored(r) == r.pc \notin GuardedSteps \cup {"held"} /\ ~ Linkable(r)

\* A process goes to another step, of another call of safelyUnlink.
Go(r, x, u) == [r EXCEPT !.pc = x, !.un = u]

\* It keeps its files.
LEMMA Moved ==
  ASSUME NEW r \in Procs, NEW x \in Steps, NEW u \in Unlinks \cup {None}
  PROVE  /\ Go(r, x, u) \in Procs
         /\ Go(r, x, u).pc = x /\ Go(r, x, u).un = u /\ Go(r, x, u).rel = r.rel /\ Go(r, x, u).at = r.at
         /\ Go(r, x, u).file = r.file /\ Go(r, x, u).stale = r.stale
BY DEF Go, Procs

\* A process outside any call.
LEMMA SaneOutside ==
  ASSUME NEW p \in Slots, NEW k \in Nat
  PROVE  /\ Sane(p, Outside) /\ Unanchored(Outside)
         /\ Sane(p, [Outside EXCEPT !.token = k])
<1>1. Outside \in Procs /\ [Outside EXCEPT !.token = k] \in Procs
  BY DEF Outside, NoFiles, Procs, Steps, Paths
<1>2. /\ Outside.pc = "idle" /\ Outside.at = "lock" /\ Outside.file.lock = None /\ Outside.file.election = None
      /\ Outside.stale = None /\ Outside.un = None /\ Outside.rel = None
  BY DEF Outside, NoFiles
<1>3. Sane(p, Outside)
  BY <1>1, <1>2 DEF Sane, Prepared, UnlinkSteps, ReleaseSteps, FiledSteps, GuardedSteps
<1>4. Unanchored(Outside)
  BY <1>2 DEF Unanchored, Linkable, GuardedSteps, UnlinkSteps
<1> DEFINE r == [Outside EXCEPT !.token = k]
<1>5. /\ r.pc = "idle" /\ r.at = "lock" /\ r.file.lock = None /\ r.file.election = None
      /\ r.stale = None /\ r.un = None /\ r.rel = None
  BY DEF Outside, NoFiles
<1>6. Sane(p, r)
  <2> HIDE DEF r
  <2> QED  BY <1>1, <1>5 DEF Sane, Prepared, UnlinkSteps, ReleaseSteps, FiledSteps, GuardedSteps, r
<1> QED  BY <1>3, <1>4, <1>6

\* Back to the head of the loop.
LEMMA SaneAgain ==
  ASSUME NEW p \in Slots, NEW r, Sane(p, r)
  PROVE  Sane(p, Again(r)) /\ Unanchored(Again(r))
<1> DEFINE s == Again(r)
<1>1. /\ s.pc = "look" /\ s.at = "lock" /\ s.file = NoFiles
      /\ s.stale = None /\ s.un = None /\ s.rel = None
  BY DEF Again, Sane, Procs
<1>2. s \in Procs
  BY DEF Again, Sane, Procs, NoFiles, Steps, Paths
<1>3. s.file.lock = None /\ s.file.election = None
  BY <1>1 DEF NoFiles
<1> HIDE DEF s
<1>4. Sane(p, s)
  BY <1>1, <1>2, <1>3 DEF Sane, Prepared, UnlinkSteps, ReleaseSteps, FiledSteps, GuardedSteps
<1>5. Unanchored(s)
  BY <1>1 DEF Unanchored, Linkable, GuardedSteps, UnlinkSteps
<1> QED  BY <1>4, <1>5 DEF s

\* The end of an attempt.
LEMMA SaneRetry ==
  ASSUME NEW p \in Slots, NEW r, Sane(p, r)
  PROVE  Sane(p, Retry(r)) /\ Unanchored(Retry(r))
BY SaneAgain, SaneOutside DEF Retry

\* Giving a lock back.
LEMMA SaneReleasing ==
  ASSUME NEW p \in Slots, NEW r, Sane(p, r), NEW path \in Paths, NEW f \in Files \cup {None},
         path = "lock" /\ f # None => f.pid = Pid(p),
         NEW ok \in CallerReturns, NEW bad \in CallerReturns
  PROVE  Sane(p, Releasing(r, path, f, ok, bad)) /\ Unanchored(Releasing(r, path, f, ok, bad))
<1> DEFINE s == Releasing(r, path, f, ok, bad)
           q == [path |-> path, file |-> f, ok |-> ok, bad |-> bad]
<1>1. q \in Rels /\ q.path = path /\ q.file = f
  BY DEF Rels
<1> HIDE DEF q
<1>2. s = [r EXCEPT !.pc = "release", !.un = None, !.rel = q]
  BY DEF Releasing, q
<1>3. /\ s.pc = "release" /\ s.un = None /\ s.rel = q /\ s.at = r.at /\ s.file = r.file /\ s.stale = r.stale
  BY <1>2 DEF Sane, Procs
<1>4. s \in Procs
  BY <1>1, <1>2, ZenonT(60) DEF Sane, Procs, Steps, ReleaseSteps
<1> HIDE DEF s
<1>5. Sane(p, s)
  <2>1. s.rel # None
    BY <1>1, <1>3, LockAssumption
  <2> QED  BY <1>1, <1>3, <1>4, <2>1 DEF Sane, Prepared, UnlinkSteps, ReleaseSteps, FiledSteps, GuardedSteps
<1>6. Unanchored(s)
  BY <1>3 DEF Unanchored, Linkable, GuardedSteps, UnlinkSteps
<1> QED  BY <1>5, <1>6 DEF s

\* A call of safelyUnlink.
LEMMA SaneUnlinking ==
  ASSUME NEW p \in Slots, NEW r, Sane(p, r), NEW name \in BaseNames, NEW f \in Files \cup {None},
         NEW allowed \in {{1}, {2}, {1, 2}}, NEW ok \in Returns, NEW bad \in Returns \ {"relink"},
         name = Canonical("lock") /\ f # None => f.pid = Pid(p) \/ (Gone(f.pid) /\ allowed = {1}),
         name[1] # "canonical" => name[3] = Pid(p) \/ Gone(name[3]),
         Prepared(r, ok), Prepared(r, bad), ok = "relink" => name = Canonical("election")
  PROVE  LET s == Unlinking(r, name, f, allowed, ok, bad)
         IN  /\ Sane(p, s)
             /\ s.pc = "pin" /\ s.at = r.at /\ s.file = r.file /\ s.un.ok = ok
             /\ ok # "relink" => Unanchored(s)
<1> DEFINE s == Unlinking(r, name, f, allowed, ok, bad)
           u == [name |-> name, file |-> f, allowed |-> allowed, links |-> 0,
                 guard |-> None, removed |-> FALSE, ok |-> ok, bad |-> bad]
<1>1. /\ u \in Unlinks /\ u.name = name /\ u.file = f /\ u.allowed = allowed /\ u.guard = None
      /\ u.ok = ok /\ u.bad = bad
  BY DEF Unlinks, Names
<1> HIDE DEF u
<1>2. s = Go(r, "pin", u)
  BY DEF Unlinking, Go, u
<1> HIDE DEF s
<1>4. r \in Procs /\ "pin" \in Steps /\ u \in Unlinks \cup {None}
  BY <1>1 DEF Sane, Steps
<1>3. /\ s \in Procs
      /\ s.pc = "pin" /\ s.un = u /\ s.rel = r.rel /\ s.at = r.at /\ s.file = r.file /\ s.stale = r.stale
  BY <1>2, <1>4, Moved
<1>5. u # None
  BY <1>1, LockAssumption
<1>6. Target(p, u)
  BY <1>1 DEF Target
<1>7. s.un.ok \in Returns /\ s.un.bad \in Returns \ {"relink"}
  BY <1>1, <1>3
<1>8. Sane(p, s)
  BY <1>1, <1>3, <1>5, <1>6, <1>7 DEF Sane, Prepared, UnlinkSteps, ReleaseSteps, FiledSteps, GuardedSteps
<1>9. ok # "relink" => Unanchored(s)
  BY <1>1, <1>3 DEF Unanchored, Linkable, GuardedSteps, UnlinkSteps
<1> QED  BY <1>1, <1>3, <1>8, <1>9 DEF s

\* A step of a call that is not one of safelyUnlink.
LEMMA SaneGo ==
  ASSUME NEW p \in Slots, NEW r, Sane(p, r), NEW x \in Steps \ (UnlinkSteps \cup {"alias", "held"}),
         NEW u \in {r.un, None}, Prepared(r, x)
  PROVE  /\ Sane(p, Go(r, x, u))
         /\ x \notin {"link", "rival", "relink"} => Unanchored(Go(r, x, u))
<1>1. r \in Procs /\ x \in Steps /\ u \in Unlinks \cup {None}
  BY DEF Sane, Procs
<1> DEFINE s == Go(r, x, u)
<1>2. /\ s \in Procs
      /\ s.pc = x /\ s.un = u /\ s.rel = r.rel /\ s.at = r.at /\ s.file = r.file /\ s.stale = r.stale
  BY <1>1, Moved
<1> HIDE DEF s
<1>3. Sane(p, s)
  BY <1>2 DEF Sane, Prepared, UnlinkSteps, GuardedSteps
<1>4. x \notin {"link", "rival", "relink"} => Unanchored(s)
  BY <1>2 DEF Unanchored, Linkable, GuardedSteps, UnlinkSteps
<1> QED  BY <1>3, <1>4 DEF s

\* Setting only the step.
LEMMA GoStep ==
  ASSUME NEW r \in Procs, NEW x \in Steps
  PROVE  [r EXCEPT !.pc = x] = Go(r, x, r.un)
BY DEF Go, Procs

\* The lock is the caller's, or the election is won.
LEMMA SaneInstalled ==
  ASSUME NEW p \in Slots, NEW r, Sane(p, r), r.file[r.at] # None
  PROVE  /\ Sane(p, Installed(r))
         /\ r.at = "lock" => Installed(r).pc = "held" /\ Installed(r).file.lock = r.file.lock /\ Installed(r).un = None
         /\ r.at # "lock" => Unanchored(Installed(r))
<1>1. r \in Procs /\ r.at \in Paths
  BY DEF Sane, Procs
<1>2. CASE r.at = "lock"
  <2> DEFINE s == [Outside EXCEPT !.pc = "held", !.file = r.file]
  <2>1. s \in Procs
    BY <1>1 DEF Procs, Outside, NoFiles, Steps, Paths
  <2>2. s.pc = "held" /\ s.at = "lock" /\ s.file = r.file /\ s.stale = None /\ s.un = None /\ s.rel = None
    BY DEF Outside
  <2> HIDE DEF s
  <2>3. Sane(p, s)
    BY <1>2, <2>1, <2>2 DEF Sane, Prepared, UnlinkSteps, ReleaseSteps, FiledSteps, GuardedSteps
  <2> QED  BY <1>2, <2>2, <2>3 DEF Installed, s
<1>3. CASE r.at # "lock"
  <2>1. Installed(r) = Go(r, "confirm", None)
    BY <1>3 DEF Installed, Go
  <2>2. "confirm" \in Steps \ (UnlinkSteps \cup {"alias", "held"}) /\ Prepared(r, "confirm")
    BY DEF Steps, UnlinkSteps, Prepared, ReleaseSteps, FiledSteps
  <2> QED  BY <1>3, <2>1, <2>2, SaneGo
<1> QED  BY <1>2, <1>3

\* Nothing of the process is left installed.
LEMMA SaneLost ==
  ASSUME NEW p \in Slots, NEW r, Sane(p, r)
  PROVE  Sane(p, Lost(r)) /\ Unanchored(Lost(r))
BY SaneOutside, SaneRetry DEF Lost

\* The election is given back.
LEMMA SaneAbandon ==
  ASSUME NEW p \in Slots, NEW r, Sane(p, r)
  PROVE  /\ Sane(p, Abandon(r)) /\ Unanchored(Abandon(r))
         /\ Sane(p, Reclaimed(r)) /\ Unanchored(Reclaimed(r))
<1>1. r.file.election \in Files \cup {None} /\ r \in Procs
  BY DEF Sane, Procs
<1>2. Sane(p, Abandon(r)) /\ Unanchored(Abandon(r))
  BY <1>1, SaneReleasing DEF Abandon, Paths, CallerReturns
<1> DEFINE s == [r EXCEPT !.available = @ \/ ~r.consumed]
<1>3. s \in Procs
  BY <1>1 DEF Procs
<1>4. s.pc = r.pc /\ s.at = r.at /\ s.file = r.file /\ s.stale = r.stale /\ s.un = r.un /\ s.rel = r.rel
  BY <1>1 DEF Procs
<1>5. Reclaimed(r) = Releasing(s, "election", r.file.election, "look", "look")
  BY DEF Reclaimed
<1> HIDE DEF s
<1>6. Sane(p, s)
  BY <1>3, <1>4 DEF Sane, Prepared
<1>7. Sane(p, Reclaimed(r)) /\ Unanchored(Reclaimed(r))
  BY <1>1, <1>5, <1>6, SaneReleasing DEF Paths, CallerReturns
<1> QED  BY <1>2, <1>7

\* Where a call goes when safelyUnlink or releaseLocalStoreLock returns.
LEMMA SaneEnter ==
  ASSUME NEW p \in Slots, NEW r, Sane(p, r), NEW x \in Returns \cup CallerReturns \cup {"reclaimable"},
         Prepared(r, x)
  PROVE  /\ Sane(p, Enter(r, x))
         /\ x # "relink" => Unanchored(Enter(r, x))
         /\ x = "relink" => Enter(r, x) = Go(r, "relink", None)
<1>1. CASE x \in {"idle", "look", "lost", "abandon", "reclaimed"}
  <2>1. x = "idle" => Enter(r, x) = Outside
    BY DEF Enter
  <2>2. x = "look" => Enter(r, x) = Again(r)
    BY DEF Enter
  <2>3. x = "lost" => Enter(r, x) = Lost(r)
    BY DEF Enter
  <2>4. x = "abandon" => Enter(r, x) = Abandon(r)
    BY DEF Enter
  <2>5. x = "reclaimed" => Enter(r, x) = Reclaimed(r)
    BY DEF Enter
  <2>6. x # "relink"
    BY <1>1
  <2>7. 0 \in Nat
    OBVIOUS
  <2> QED  BY <1>1, <2>1, <2>2, <2>3, <2>4, <2>5, <2>6, <2>7, SaneOutside, SaneAgain, SaneLost, SaneAbandon
<1>2. CASE x \notin {"idle", "look", "lost", "abandon", "reclaimed"}
  <2>1. Enter(r, x) = Go(r, x, None)
    BY <1>2 DEF Enter, Go
  <2>2. x \in Steps \ (UnlinkSteps \cup {"alias", "held"}) /\ (x # "relink" => x \notin {"link", "rival", "relink"})
    BY <1>2 DEF Steps, UnlinkSteps, Returns, CallerReturns
  <2> QED  BY <2>1, <2>2, SaneGo
<1> QED  BY <1>1, <1>2

\* The return from safelyUnlink.
LEMMA SaneReturn ==
  ASSUME NEW p \in Slots, NEW r, Sane(p, r), r.pc \in UnlinkSteps
  PROVE  /\ Sane(p, Enter(r, r.un.bad)) /\ Unanchored(Enter(r, r.un.bad))
         /\ Sane(p, Enter(r, r.un.ok))
         /\ r.un.ok # "relink" => Unanchored(Enter(r, r.un.ok))
         /\ r.un.ok = "relink" => Enter(r, r.un.ok) = Go(r, "relink", None)
<1>1. r.un.ok \in Returns /\ r.un.bad \in Returns \ {"relink"} /\ Prepared(r, r.un.ok) /\ Prepared(r, r.un.bad)
  BY DEF Sane
<1> QED  BY <1>1, SaneEnter

(***************************************************************************)
(* The directory.                                                          *)
(***************************************************************************)
\* The three kinds of names.
LEMMA CanonicalNames ==
  ASSUME NEW path \in Paths
  PROVE  /\ Canonical(path) \in BaseNames /\ Canonical(path) \in Names
         /\ Canonical(path)[1] = "canonical" /\ Canonical(path)[2] = path
BY DEF Canonical, BaseNames, Names

\* A candidate's name is made from what is written in the file.
LEMMA CandidateNames ==
  ASSUME NEW path \in Paths, NEW f \in Files
  PROVE  /\ Candidate(path, f) \in BaseNames /\ Candidate(path, f) \in Names
         /\ Candidate(path, f)[1] = "candidate" /\ Candidate(path, f)[2] = path
         /\ Candidate(path, f)[3] = f.pid
         /\ \A g : g = f => Candidate(Candidate(path, f)[2], g) = Candidate(path, f)
<1>1. f.pid \in Pids /\ f.token \in Nat
  BY DEF Files
<1>2. Candidate(path, f) \in {"candidate"} \X Paths \X Pids \X Nat
  BY <1>1 DEF Candidate
<1> QED  BY <1>2 DEF Candidate, BaseNames, Names

\* A name is of one kind.
LEMMA NameKinds ==
  ASSUME NEW n \in Names
  PROVE  /\ n[1] \in {"canonical", "candidate", "guard"}
         /\ n[1] = "canonical" => n \in {Canonical("lock"), Canonical("election")}
         /\ n[1] # "canonical" => n[3] \in Pids
         /\ n \in GuardNames <=> n[1] = "guard"
         /\ n \in BaseNames <=> n[1] # "guard"
<1>1. CASE n \in {"canonical"} \X Paths
  BY <1>1 DEF Canonical, Paths, GuardNames, BaseNames
<1>2. CASE n \in {"candidate"} \X Paths \X Pids \X Nat
  BY <1>2 DEF GuardNames, BaseNames
<1>3. CASE n \in GuardNames
  BY <1>3 DEF GuardNames, BaseNames
<1> QED  BY <1>1, <1>2, <1>3 DEF Names, BaseNames

\* The private name of a process is a guard's.
LEMMA GuardName ==
  ASSUME DirectoryOK, life \in [Slots -> Nat], NEW p \in Slots, NEW n \in BaseNames
  PROVE  Guard(p, n) \in GuardNames /\ Guard(p, n)[1] = "guard" /\ Guard(p, n)[3] = Pid(p)
<1> DEFINE S == {m \in DOMAIN names : m[1] = "guard" /\ m[2] = n /\ m[3] = Pid(p)}
           k == Cardinality(S)
<1>1. k \in Nat
  <2>1. S \in SUBSET DOMAIN names
    OBVIOUS
  <2> HIDE DEF S
  <2> QED  BY <2>1, FS_Subset, FS_CardinalityType DEF DirectoryOK
<1>2. Guard(p, n) = <<"guard", n, Pid(p), k>>
  BY DEF Guard
<1>3. Pid(p) \in Pids
  BY DEF Pid, Pids
<1> HIDE DEF k
<1>4. Guard(p, n) \in GuardNames
  BY <1>1, <1>2, <1>3 DEF GuardNames
<1> QED  BY <1>2, <1>4

\* A name is added for a file that is new or that has a name already.
LEMMA AddName ==
  ASSUME DirectoryOK, NEW n \in Names, NEW f \in Files, Known(f.pid),
         n[1] = "candidate" => n = Candidate(n[2], f),
         n[1] = "guard" => Known(n[3]),
         \A m \in DOMAIN names : names[m].ino = f.ino => names[m] = f,
         names' = WithName(n, f), life' = life
  PROVE  /\ DirectoryOK'
         /\ DOMAIN names' = DOMAIN names \cup {n} /\ names'[n] = f
         /\ \A m \in DOMAIN names : m # n => names'[m] = names[m]
<1>1. /\ DOMAIN names' = DOMAIN names \cup {n} /\ names'[n] = f
      /\ \A m \in DOMAIN names : m # n => names'[m] = names[m]
  BY DEF WithName
<1>2. IsFiniteSet(DOMAIN names')
  BY <1>1, FS_AddElement DEF DirectoryOK
<1>3. \A m \in DOMAIN names' : m # n => m \in DOMAIN names /\ names'[m] = names[m]
  BY <1>1
<1>4. /\ DOMAIN names' \subseteq Names
      /\ \A m \in DOMAIN names' : names'[m] \in Files /\ Known(names'[m].pid)
      /\ \A m \in DOMAIN names' : m[1] = "candidate" => m = Candidate(m[2], names'[m])
      /\ \A m \in DOMAIN names' : m[1] = "guard" => Known(m[3])
  BY <1>1, <1>3 DEF DirectoryOK
<1>5. \A m, o \in DOMAIN names' : names'[m].ino = names'[o].ino => names'[m] = names'[o]
  BY <1>1, <1>3 DEF DirectoryOK
<1>6. DirectoryOK'
  BY <1>2, <1>4, <1>5 DEF DirectoryOK, Known
<1> QED  BY <1>1, <1>6

\* A name is removed.
LEMMA RemoveName ==
  ASSUME DirectoryOK, NEW n, names' = WithoutName(n), life' = life
  PROVE  /\ DirectoryOK'
         /\ DOMAIN names' = DOMAIN names \ {n}
         /\ \A m \in DOMAIN names : m # n => names'[m] = names[m]
<1>1. /\ DOMAIN names' = DOMAIN names \ {n}
      /\ \A m \in DOMAIN names : m # n => names'[m] = names[m]
  BY DEF WithoutName, Restrict
<1>2. IsFiniteSet(DOMAIN names')
  BY <1>1, FS_RemoveElement DEF DirectoryOK
<1>3. \A m \in DOMAIN names' : m \in DOMAIN names /\ names'[m] = names[m]
  BY <1>1
<1>4. DirectoryOK'
  BY <1>2, <1>3 DEF DirectoryOK, Known
<1> QED  BY <1>1, <1>4

\* Nothing changes.
LEMMA SameNames ==
  ASSUME DirectoryOK, names' = names, life' = life
  PROVE  DirectoryOK' /\ (\A path : At(path)' = At(path))
BY DEF DirectoryOK, Known, At, Canonical

(***************************************************************************)
(* Fresh inodes and tokens.                                                *)
(***************************************************************************)
\* A set of numbers has a least one.
LEMMA MinNat ==
  ASSUME NEW S \in SUBSET Nat, S # {}
  PROVE  Min(S) \in S
<1>1. PICK x \in S : \A y \in S : ~ (<<y, x>> \in OpToRel(<, Nat))
  BY NatLessThanWellFounded, WFMin
<1>2. \A y \in S : x =< y
  <2> TAKE y \in S
  <2>1. x \in Nat /\ y \in Nat
    BY <1>1
  <2>2. y < x => <<y, x>> \in OpToRel(<, Nat)
    BY <2>1 DEF OpToRel
  <2>3. ~ (y < x)
    BY <1>1, <2>2
  <2> QED  BY <2>1, <2>3
<1> QED  BY <1>1, <1>2 DEF Min

\* The values of a function on a finite set form a finite set.
LEMMA FiniteValues ==
  ASSUME NEW S, IsFiniteSet(S), NEW f
  PROVE  IsFiniteSet({f[x] : x \in S})
<1> DEFINE T == {f[x] : x \in S}
           g == [x \in S |-> f[x]]
<1>1. g \in Surjection(S, T)
  BY DEF Surjection
<1> QED  BY <1>1, FS_Surjection

\* A fresh inode is one that no name leads to.
LEMMA FreshInode ==
  ASSUME DirectoryOK, NEW i \in FreshInodes
  PROVE  i \in Inodes /\ \A n \in DOMAIN names : names[n].ino # i
<1> DEFINE free == Inodes \ {f.ino : f \in Range(names)}
           forgotten == free \ {f.ino : f \in Remembered}
<1>1. i \in (free \ forgotten) \cup (IF forgotten = {} THEN {} ELSE {Min(forgotten)})
  BY DEF FreshInodes
<1>2. forgotten \in SUBSET Nat /\ forgotten \subseteq free
  BY LockAssumption
<1>3. i \in free
  <2> HIDE DEF free, forgotten
  <2>1. forgotten # {} => Min(forgotten) \in forgotten
    BY <1>2, MinNat
  <2> QED  BY <1>1, <1>2, <2>1
<1> QED  BY <1>3 DEF Range

\* There is a token that nobody knows.
LEMMA FreshTokens ==
  ASSUME LockInv
  PROVE  FreshToken \in Nat
<1> DEFINE recalled == [p \in Slots |-> Recalled(proc[p])]
           known == {f.token : f \in Range(names) \cup Remembered} \cup {proc[p].token : p \in Slots}
<1>1. IsFiniteSet(UNION {recalled[p] : p \in Slots})
  <2>1. \A p \in Slots : IsFiniteSet(recalled[p])
    <3> TAKE p \in Slots
    <3> DEFINE r == proc[p]
    <3>1. IsFiniteSet({r.file.lock, r.file.election, r.stale})
      <4>1. IsFiniteSet({r.file.lock} \cup {r.file.election})
        BY FS_Singleton, FS_Union
      <4>2. IsFiniteSet(({r.file.lock} \cup {r.file.election}) \cup {r.stale})
        BY <4>1, FS_Singleton, FS_Union
      <4>3. {r.file.lock, r.file.election, r.stale} = ({r.file.lock} \cup {r.file.election}) \cup {r.stale}
        OBVIOUS
      <4> QED  BY <4>2, <4>3
    <3>2. IsFiniteSet(IF r.un = None THEN {} ELSE {r.un.file})
      BY FS_EmptySet, FS_Singleton
    <3>3. IsFiniteSet(IF r.rel = None THEN {} ELSE {r.rel.file})
      BY FS_EmptySet, FS_Singleton
    <3> QED  BY <3>1, <3>2, <3>3, FS_Union DEF Recalled
  <2>2. IsFiniteSet({recalled[p] : p \in Slots})
    <3> HIDE DEF recalled
    <3> QED  BY FiniteValues, LockAssumption
  <2> HIDE DEF recalled
  <2> QED  BY <2>1, <2>2, FS_UNION
<1>2. UNION {recalled[p] : p \in Slots} = UNION {Recalled(proc[p]) : p \in Slots}
  OBVIOUS
<1>3. IsFiniteSet(Range(names) \cup Remembered)
  <2>1. IsFiniteSet(Range(names))
    BY FiniteValues DEF Range, LockInv, DirectoryOK
  <2>2. IsFiniteSet(Range(retained))
    <3>1. DOMAIN retained = Slots
      BY DEF LockInv
    <3> QED  BY <3>1, FiniteValues, LockAssumption DEF Range
  <2>3. IsFiniteSet(Remembered)
    <3> HIDE DEF recalled
    <3>1. IsFiniteSet((UNION {Recalled(proc[p]) : p \in Slots}) \cup Range(retained))
      BY <1>1, <1>2, <2>2, FS_Union
    <3> QED  BY <3>1, FS_RemoveElement DEF Remembered
  <2> QED  BY <2>1, <2>3, FS_Union
<1>4. IsFiniteSet(known)
  <2> DEFINE all == Range(names) \cup Remembered
             token == [f \in all |-> f.token]
             mine == [p \in Slots |-> proc[p].token]
  <2>1. IsFiniteSet({token[f] : f \in all})
    <3> HIDE DEF all, token
    <3> QED  BY <1>3, FiniteValues DEF all
  <2>2. IsFiniteSet({mine[p] : p \in Slots})
    <3> HIDE DEF mine
    <3> QED  BY FiniteValues, LockAssumption
  <2>3. known = {token[f] : f \in all} \cup {mine[p] : p \in Slots}
    OBVIOUS
  <2> HIDE DEF token, mine, all, known
  <2> QED  BY <2>1, <2>2, <2>3, FS_Union
<1> HIDE DEF known
<1> DEFINE k == Cardinality(known)
<1>5. k \in Nat
  BY <1>4, FS_CardinalityType
<1>6. (1 .. k + 1) \ known # {}
  <2> SUFFICES ASSUME (1 .. k + 1) \subseteq known PROVE FALSE
    OBVIOUS
  <2>1. Cardinality(1 .. k + 1) <= k
    BY <1>4, FS_Subset
  <2>2. Cardinality(1 .. k + 1) = k + 1
    <3> HIDE DEF k
    <3> DEFINE m == k + 1
    <3>1. 1 \in Int /\ m \in Int /\ ~ (1 > m) /\ m - 1 + 1 = m
      BY <1>5
    <3> HIDE DEF m
    <3>2. Cardinality(1 .. m) = IF 1 > m THEN 0 ELSE m - 1 + 1
      BY <3>1, FS_Interval
    <3> QED  BY <3>1, <3>2 DEF m
  <2> HIDE DEF k
  <2> QED  BY <1>5, <2>1, <2>2
<1>7. FreshToken = Min((1 .. k + 1) \ known)
  BY DEF FreshToken, known
<1>8. (1 .. k + 1) \ known \in SUBSET Nat
  <2> HIDE DEF k
  <2> QED  BY <1>5
<1> QED  BY <1>6, <1>7, <1>8, MinNat

(***************************************************************************)
(* What a step of one process leaves to the others.                        *)
(***************************************************************************)
\* A step of process p changes what the lock's name leads to only if that name is free, or by
\* removing what p verified; of the other names it takes only its own and those of the dead.
Keeps(p) ==
  /\ At("lock")' = At("lock") \/ At("lock") = None \/ (Committed(p) /\ proc'[p] # proc[p])
  /\ \A n \in DOMAIN names :
       n[1] # "canonical" /\ n[3] # Pid(p) /\ ~ Gone(n[3]) => n \in DOMAIN names' /\ names'[n] = names[n]

\* Live processes have different pids.
LEMMA PidsDiffer ==
  ASSUME LockInv, NEW p \in Slots, NEW q \in Slots
  PROVE  /\ Pid(p) = Pid(q) => p = q
         /\ ~ Gone(Pid(p)) /\ Known(Pid(p)) /\ Pid(p) \in Pids
BY DEF LockInv, Pid, Gone, Known, Pids

\* What p verified is its own file or a dead process's.
LEMMA CommittedFile ==
  ASSUME LockInv, NEW p \in Slots, Committed(p)
  PROVE  /\ proc[p].un \in Unlinks /\ proc[p].un # None /\ proc[p].un.guard \in DOMAIN names
         /\ proc[p].un.guard[3] = Pid(p) /\ proc[p].un.guard \in GuardNames
         /\ proc[p].un.file \in Files /\ At("lock") = proc[p].un.file /\ At("lock") # None
         /\ proc[p].un.file.pid = Pid(p) \/ (Gone(proc[p].un.file.pid) /\ proc[p].un.allowed = {1})
<1> DEFINE u == proc[p].un
<1>1. Sane(p, proc[p]) /\ Anchored(p) /\ proc[p].pc \in {"trust", "unlink"} /\ DirectoryOK
  BY DEF LockInv, Committed
<1>2. u # None /\ u.guard # None /\ proc[p] \in Procs
  BY <1>1 DEF Sane, UnlinkSteps, GuardedSteps
<1>3. u \in Unlinks
  BY <1>2 DEF Procs
<1>4. u.guard \in GuardNames
  BY <1>2, <1>3 DEF Unlinks
<1>5. Target(p, u)
  BY <1>1, <1>2 DEF Sane
<1>6. u.guard \in DOMAIN names /\ names[u.guard] = u.file /\ At("lock") = u.file
  BY <1>1 DEF Anchored, Committed, GuardedSteps
<1>7. u.file \in Files
  BY <1>1, <1>6 DEF DirectoryOK
<1>8. u.file # None
  BY <1>7, LockAssumption
<1>9. u.name = Canonical("lock")
  BY DEF Committed
<1> QED  BY <1>2, <1>3, <1>4, <1>5, <1>6, <1>7, <1>8, <1>9 DEF Target

\* The others still find what they rely on.
LEMMA OthersAnchored ==
  ASSUME LockInv, NEW p \in Slots, NEW q \in Slots, q # p, Keeps(p), life' = life, proc'[q] = proc[q]
  PROVE  Anchored(q)' /\ (Committed(q)' <=> Committed(q))
<1> DEFINE r == proc[q]
<1>1. Sane(q, r) /\ Anchored(q) /\ r \in Procs /\ DirectoryOK
  BY DEF LockInv
<1>2. Pid(q) # Pid(p) /\ ~ Gone(Pid(q))
  BY PidsDiffer
<1>3. \A n \in DOMAIN names : n \in Names /\ n[1] # "canonical" /\ n[3] = Pid(q) => n \in DOMAIN names' /\ names'[n] = names[n]
  BY <1>2 DEF Keeps
<1>4. ASSUME r.pc \in GuardedSteps
      PROVE  r.un.guard \in DOMAIN names /\ r.un.guard \in DOMAIN names' /\ names'[r.un.guard] = names[r.un.guard]
  <2>1. r.un # None /\ r.un.guard # None /\ r.un \in Unlinks
    BY <1>1, <1>4 DEF Sane, GuardedSteps, UnlinkSteps, Procs
  <2>2. r.un.guard \in GuardNames /\ r.un.guard[3] = Pid(q)
    BY <1>1, <2>1 DEF Unlinks, Sane, Target
  <2>3. r.un.guard \in DOMAIN names
    BY <1>1, <1>4 DEF Anchored
  <2>4. r.un.guard \in Names /\ r.un.guard[1] # "canonical"
    BY <2>2, NameKinds DEF Names
  <2> QED  BY <1>3, <2>2, <2>3, <2>4
<1>5. Committed(q)' <=> Committed(q)
  BY <1>4 DEF Committed, Canonical, GuardedSteps
<1>6. ASSUME r.pc = "held"
      PROVE  At("lock")' = r.file.lock
  <2>1. At("lock") = r.file.lock /\ r.file.lock # None /\ r.file.lock.pid = Pid(q)
    BY <1>1, <1>6 DEF Anchored, Sane
  <2>2. ASSUME Committed(p) PROVE FALSE
    BY <1>2, <2>1, <2>2, CommittedFile
  <2> QED  BY <2>1, <2>2 DEF Keeps
<1>7. ASSUME Linkable(r)
      PROVE  LET c == Candidate(r.at, r.file[r.at]) IN c \in DOMAIN names' /\ names'[c] = r.file[r.at]
  <2> DEFINE f == r.file[r.at]
             c == Candidate(r.at, f)
  <2>1. c \in DOMAIN names /\ names[c] = f
    BY <1>1, <1>7 DEF Anchored, Mine
  <2>2. f \in Files /\ r.at \in Paths
    BY <1>1, <2>1 DEF DirectoryOK, Procs
  <2>3. f.pid = Pid(q)
    <3>1. f # None
      BY <2>2, LockAssumption
    <3>2. r.at = "lock" \/ r.at = "election"
      BY <2>2 DEF Paths
    <3> QED  BY <1>1, <3>1, <3>2 DEF Sane
  <2> HIDE DEF f
  <2>4. c \in Names /\ c[1] # "canonical" /\ c[3] = Pid(q)
    BY <2>2, <2>3, CandidateNames
  <2> HIDE DEF c
  <2>5. c \in DOMAIN names' /\ names'[c] = f
    BY <1>3, <2>1, <2>4
  <2> QED  BY <2>5 DEF c, f
<1>8. ASSUME Committed(q)
      PROVE  At("lock")' = r.un.file
  <2>1. At("lock") = r.un.file /\ At("lock") # None
    BY <1>8, CommittedFile
  <2>2. ~ Committed(p)
    BY <1>8 DEF LockInv
  <2> QED  BY <2>1, <2>2 DEF Keeps
<1>9. r.pc = "unlink" => names[r.un.guard] = r.un.file
  BY <1>1 DEF Anchored
<1>10. Linkable(proc[q])' <=> Linkable(r)
  BY DEF Linkable
<1>11. Anchored(q)'
  BY <1>4, <1>5, <1>6, <1>7, <1>8, <1>9, <1>10 DEF Anchored, Mine, GuardedSteps
<1> QED  BY <1>5, <1>11

\* A process that relies on nothing is anchored.
LEMMA UnanchoredRests ==
  ASSUME NEW p \in Slots, Unanchored(proc'[p])
  PROVE  Anchored(p)' /\ ~ Committed(p)'
<1>1. proc'[p].pc \notin GuardedSteps /\ proc'[p].pc # "held" /\ ~ Linkable(proc[p])'
  BY DEF Unanchored, Linkable
<1> QED  BY <1>1 DEF Anchored, Committed, GuardedSteps

\* A step of one process keeps the invariant when it leaves the process sane and anchored and
\* to the others what they rely on.
LEMMA StepKeeps ==
  ASSUME LockInv, NEW p \in Slots, NEW s, proc' = [proc EXCEPT ![p] = s], life' = life,
         faults' \in 0 .. MaxFaults, DirectoryOK', Keeps(p),
         NEW x \in Files \cup {None}, retained' = [retained EXCEPT ![p] = x], x # None => x.pid = Pid(p),
         Sane(p, s), Anchored(p)',
         Committed(p)' => Committed(p) \/ \A q \in Slots \ {p} : ~ Committed(q)
  PROVE  LockInv'
<1>1. proc \in [Slots -> Procs] /\ retained \in [Slots -> Files \cup {None}]
  BY DEF LockInv
<1>2. s \in Procs
  BY DEF Sane
<1>3. proc'[p] = s /\ \A q \in Slots : q # p => proc'[q] = proc[q]
  BY <1>1
<1>4. retained'[p] = x /\ \A q \in Slots : q # p => retained'[q] = retained[q]
  BY <1>1
<1>5. \A q \in Slots : Pid(q)' = Pid(q)
  BY DEF Pid
<1>6. \A q \in Slots : retained'[q] # None => retained'[q].pid = Pid(q)
  BY <1>4 DEF LockInv
<1>7. \A q \in Slots : Sane(q, proc'[q])
  BY <1>3 DEF LockInv
<1>8. \A q \in Slots : Sane(q, proc[q])'
  BY <1>7, ZenonT(60) DEF Sane, Target, Prepared, Pid, Gone, Canonical
<1>9. \A q \in Slots : q # p => Anchored(q)' /\ (Committed(q)' <=> Committed(q))
  BY <1>3, OthersAnchored
<1>10. \A q \in Slots : Anchored(q)'
  BY <1>9
<1>11. \A q, o \in Slots : Committed(q)' /\ Committed(o)' => q = o
  BY <1>9 DEF LockInv
<1>12. proc' \in [Slots -> Procs] /\ retained' \in [Slots -> Files \cup {None}]
  BY <1>1, <1>2
<1>13. life' \in [Slots -> Nat]
  BY DEF LockInv
<1> QED  BY <1>5, <1>6, <1>8, <1>10, <1>11, <1>12, <1>13 DEF LockInv

\* A step that changes no name keeps all of them.
LEMMA QuietKeeps ==
  ASSUME LockInv, NEW p \in Slots, names' = names, life' = life
  PROVE  DirectoryOK' /\ Keeps(p)
<1>1. DirectoryOK
  BY DEF LockInv
<1> QED  BY <1>1, SameNames DEF Keeps

\* A step that only moves the process, to where it relies on nothing.
LEMMA QuietStep ==
  ASSUME LockInv, NEW p \in Slots, NEW s, Become(p, s), names' = names, life' = life,
         faults' \in 0 .. MaxFaults,
         NEW x \in Files \cup {None}, retained' = [retained EXCEPT ![p] = x], x # None => x.pid = Pid(p),
         Sane(p, s), Unanchored(s)
  PROVE  LockInv' /\ Keeps(p)
<1>1. proc' = [proc EXCEPT ![p] = s] /\ proc \in [Slots -> Procs]
  BY DEF Become, LockInv
<1>2. proc'[p] = s
  BY <1>1
<1>3. Anchored(p)' /\ ~ Committed(p)'
  BY <1>2, UnanchoredRests
<1>4. DirectoryOK' /\ Keeps(p)
  BY QuietKeeps
<1> QED  BY <1>1, <1>3, <1>4, StepKeeps

\* The same with nothing to retain.
LEMMA QuietMove ==
  ASSUME LockInv, NEW p \in Slots, NEW s, Become(p, s), names' = names, life' = life,
         faults' \in 0 .. MaxFaults, retained' = retained, Sane(p, s), Unanchored(s)
  PROVE  LockInv' /\ Keeps(p)
<1>1. /\ retained[p] \in Files \cup {None} /\ retained' = [retained EXCEPT ![p] = retained[p]]
      /\ retained[p] # None => retained[p].pid = Pid(p)
  BY DEF LockInv
<1> QED  BY <1>1, QuietStep

\* A failure of fsync is counted.
LEMMA FaultsCounted ==
  ASSUME LockInv, NEW c \in BOOLEAN, NEW ok \in Synced(c), CountFault(c, ok)
  PROVE  faults' \in 0 .. MaxFaults /\ ok \in BOOLEAN /\ (ok => c)
<1>1. faults \in 0 .. MaxFaults /\ MaxFaults \in Nat
  BY LockAssumption DEF LockInv
<1>2. CASE c /\ faults < MaxFaults
  <2>1. faults' = faults \/ faults' = faults + 1
    BY DEF CountFault
  <2> QED  BY <1>1, <1>2, <2>1 DEF Synced
<1>3. CASE ~ (c /\ faults < MaxFaults)
  <2>1. ok = c
    BY <1>3 DEF Synced
  <2>2. faults' = faults
    BY <2>1 DEF CountFault
  <2> QED  BY <1>1, <2>1, <2>2
<1> QED  BY <1>2, <1>3

\* The process before its step.
LEMMA Before ==
  ASSUME LockInv, NEW p \in Slots
  PROVE  /\ Sane(p, proc[p]) /\ Anchored(p) /\ proc[p] \in Procs /\ DirectoryOK /\ faults \in 0 .. MaxFaults
         /\ proc[p].at \in Paths
         /\ proc[p].un # None => proc[p].un \in Unlinks
         /\ proc[p].rel # None => proc[p].rel \in Rels
         /\ proc[p].file[proc[p].at] # None =>
              proc[p].file[proc[p].at] \in Files /\ proc[p].file[proc[p].at].pid = Pid(p)
<1>1. Sane(p, proc[p]) /\ Anchored(p) /\ proc[p] \in Procs /\ DirectoryOK /\ faults \in 0 .. MaxFaults
  BY DEF LockInv
<1>2. /\ proc[p].at \in Paths /\ proc[p].file \in [lock : Files \cup {None}, election : Files \cup {None}]
      /\ proc[p].un # None => proc[p].un \in Unlinks
      /\ proc[p].rel # None => proc[p].rel \in Rels
  BY <1>1 DEF Procs
<1>3. proc[p].file[proc[p].at] # None =>
              proc[p].file[proc[p].at] \in Files /\ proc[p].file[proc[p].at].pid = Pid(p)
  <2>1. CASE proc[p].at = "lock"
    BY <1>1, <1>2, <2>1 DEF Sane
  <2>2. CASE proc[p].at = "election"
    BY <1>1, <1>2, <2>2 DEF Sane
  <2> QED  BY <1>2, <2>1, <2>2 DEF Paths
<1> QED  BY <1>1, <1>2, <1>3

\* The owner of an installed lock that is found dead is gone.
LEMMA DeadGone ==
  ASSUME LockInv, NEW path \in Paths, At(path) # None
  PROVE  /\ At(path) \in Files /\ Canonical(path) \in DOMAIN names /\ names[Canonical(path)] = At(path)
         /\ DeadOwner(At(path)) => Gone(At(path).pid)
<1>1. Canonical(path) \in DOMAIN names /\ names[Canonical(path)] = At(path)
  BY DEF At
<1>2. At(path) \in Files /\ Known(At(path).pid)
  BY <1>1 DEF LockInv, DirectoryOK
<1>3. At(path).pid \in Pids
  BY <1>2 DEF Files
<1>4. Known(At(path).pid) /\ ~ Alive(At(path).pid) => Gone(At(path).pid)
  <2> DEFINE pid == At(path).pid
  <2>1. pid[2] \in Nat /\ life[pid[1]] \in Nat
    BY <1>3 DEF Pids, LockInv
  <2> HIDE DEF pid
  <2> QED  BY <2>1 DEF Known, Alive, Gone, pid
<1> QED  BY <1>1, <1>2, <1>4 DEF DeadOwner

(***************************************************************************)
(* The steps of acquireLocalStoreLock that change no name.                 *)
(***************************************************************************)
\* A new call.
LEMMA AcquireStep ==
  ASSUME LockInv, NEW p \in Slots, Acquire(p)
  PROVE  LockInv' /\ Keeps(p)
<1> DEFINE k == FreshToken
           r == [Outside EXCEPT !.token = k]
           s == IF retained[p] = None THEN Again(r) ELSE Releasing(r, "lock", retained[p], "look", "idle")
<1>1. Become(p, s) /\ names' = names /\ retained' = retained /\ life' = life /\ faults' = faults
  BY DEF Acquire
<1>2. k \in Nat
  BY FreshTokens
<1> HIDE DEF k
<1>3. Sane(p, r)
  BY <1>2, SaneOutside
<1> HIDE DEF r
<1>4. /\ retained[p] \in Files \cup {None}
      /\ retained[p] # None => retained[p].pid = Pid(p)
  BY DEF LockInv
<1>5. "lock" \in Paths /\ "look" \in CallerReturns /\ "idle" \in CallerReturns
  BY DEF Paths, CallerReturns
<1>6. Sane(p, s) /\ Unanchored(s)
  BY <1>3, <1>4, <1>5, SaneAgain, SaneReleasing
<1> HIDE DEF s
<1>7. faults' \in 0 .. MaxFaults
  BY <1>1 DEF LockInv
<1> QED  BY <1>1, <1>6, <1>7, QuietMove

\* The deadline passes: nothing else changes.
LEMMA ExpireStep ==
  ASSUME LockInv, NEW p \in Slots, Expire(p)
  PROVE  LockInv' /\ Keeps(p)
<1> DEFINE r == proc[p]
           s == [r EXCEPT !.late = TRUE]
<1>1. /\ proc' = [proc EXCEPT ![p] = s]
      /\ names' = names /\ retained' = retained /\ life' = life /\ faults' = faults
  BY DEF Expire, Become
<1>2. Sane(p, r) /\ Anchored(p) /\ r \in Procs
  BY Before
<1>3. /\ s \in Procs
      /\ s.pc = r.pc /\ s.at = r.at /\ s.file = r.file /\ s.stale = r.stale /\ s.un = r.un /\ s.rel = r.rel
  BY <1>2 DEF Procs
<1> HIDE DEF s
<1>4. Sane(p, s)
  BY <1>2, <1>3 DEF Sane, Prepared
<1>5. proc'[p] = s
  BY <1>1 DEF LockInv
<1>6. Anchored(p)' /\ (Committed(p)' <=> Committed(p))
  BY <1>1, <1>2, <1>3, <1>5 DEF Anchored, Committed, Linkable, Mine, At, Canonical
<1>7. DirectoryOK' /\ Keeps(p)
  BY <1>1, QuietKeeps
<1>8. /\ retained[p] \in Files \cup {None} /\ retained' = [retained EXCEPT ![p] = retained[p]]
      /\ retained[p] # None => retained[p].pid = Pid(p)
  BY <1>1 DEF LockInv
<1>9. faults' \in 0 .. MaxFaults
  BY <1>1 DEF LockInv
<1> QED  BY <1>1, <1>4, <1>6, <1>7, <1>8, <1>9, StepKeeps

\* The head of the loop.
LEMMA LookStep ==
  ASSUME LockInv, NEW p \in Slots, Look(p)
  PROVE  LockInv' /\ Keeps(p)
<1> DEFINE f == At("lock")
           dead == DeadOwner(f)
           saw == proc[p].saw \/ f # None
           r == [proc[p] EXCEPT !.saw = saw]
           c == [r EXCEPT !.pc = "create", !.attempted = TRUE]
<1>1. \E s \in {Retry(r), Outside, c} : Become(p, s)
  BY DEF Look
<1>2. names' = names /\ retained' = retained /\ life' = life /\ faults' = faults /\ proc[p].pc = "look"
  BY DEF Look
<1>3. Sane(p, proc[p]) /\ proc[p] \in Procs /\ faults \in 0 .. MaxFaults
  BY Before
<1>4. saw \in BOOLEAN
  BY <1>3 DEF Procs
<1> HIDE DEF saw
<1>5. /\ r \in Procs
      /\ r.pc = "look" /\ r.at = proc[p].at /\ r.file = proc[p].file /\ r.stale = proc[p].stale
      /\ r.un = proc[p].un /\ r.rel = proc[p].rel
  BY <1>2, <1>3, <1>4 DEF Procs
<1> HIDE DEF r
<1>6. Sane(p, r)
  BY <1>2, <1>3, <1>5 DEF Sane, Prepared
<1>7. /\ c \in Procs
      /\ c.pc = "create" /\ c.at = r.at /\ c.file = r.file /\ c.stale = r.stale /\ c.un = r.un /\ c.rel = r.rel
  BY <1>5 DEF Procs, Steps
<1> HIDE DEF c
<1>8. Sane(p, c) /\ Unanchored(c)
  BY <1>6, <1>7 DEF Sane, Prepared, Unanchored, Linkable, UnlinkSteps, GuardedSteps, ReleaseSteps, FiledSteps
<1>9. Sane(p, Retry(r)) /\ Unanchored(Retry(r)) /\ Sane(p, Outside) /\ Unanchored(Outside)
  BY <1>6, SaneRetry, SaneOutside
<1> QED  BY <1>1, <1>2, <1>3, <1>8, <1>9, QuietMove

\* The owner of the lock is looked at: the election is for a dead one.
LEMMA InspectStep ==
  ASSUME LockInv, NEW p \in Slots, Inspect(p)
  PROVE  LockInv' /\ Keeps(p)
<1> DEFINE r == proc[p]
           c == [r EXCEPT !.pc = "create", !.at = "election", !.stale = At("lock")]
           s == IF DeadOwner(At("lock")) THEN c ELSE Retry(r)
<1>1. /\ Become(p, s) /\ names' = names /\ retained' = retained /\ life' = life /\ faults' = faults
  BY DEF Inspect
<1>2. Sane(p, r) /\ r \in Procs /\ faults \in 0 .. MaxFaults
  BY Before
<1>3. ASSUME DeadOwner(At("lock")) PROVE Sane(p, c) /\ Unanchored(c)
  <2>1. At("lock") # None /\ "lock" \in Paths
    BY <1>3 DEF DeadOwner, Paths
  <2>2. At("lock") \in Files /\ Gone(At("lock").pid)
    BY <1>3, <2>1, DeadGone
  <2>3. /\ c \in Procs
        /\ c.pc = "create" /\ c.at = "election" /\ c.file = r.file /\ c.stale = At("lock") /\ c.un = r.un /\ c.rel = r.rel
    BY <1>2, <2>2 DEF Procs, Steps, Paths
  <2> HIDE DEF c
  <2> QED  BY <1>2, <2>2, <2>3 DEF Sane, Prepared, Unanchored, Linkable, UnlinkSteps, GuardedSteps, ReleaseSteps, FiledSteps
<1>4. Sane(p, s) /\ Unanchored(s)
  BY <1>2, <1>3, SaneRetry
<1> HIDE DEF s
<1> QED  BY <1>1, <1>2, <1>4, QuietMove

\* The names of the installed file are looked at.
LEMMA CollapseStep ==
  ASSUME LockInv, NEW p \in Slots, Collapse(p) \/ Settle(p)
  PROVE  LockInv' /\ Keeps(p)
<1> DEFINE r == proc[p]
<1>1. \E x \in {"drop", "settle", "settleDrop", "settled"} : Become(p, [r EXCEPT !.pc = x])
  BY DEF Collapse, Settle
<1>2. /\ names' = names /\ retained' = retained /\ life' = life /\ faults' = faults
      /\ r.pc \in {"collapse", "settle"}
  BY DEF Collapse, Settle
<1>3. PICK x \in {"drop", "settle", "settleDrop", "settled"} : Become(p, [r EXCEPT !.pc = x])
  BY <1>1
<1>4. Sane(p, r) /\ r \in Procs /\ faults \in 0 .. MaxFaults
  BY Before
<1>5. Prepared(r, x)
  BY <1>2, <1>4 DEF Sane, Prepared, FiledSteps, ReleaseSteps
<1>6. x \in Steps \ (UnlinkSteps \cup {"alias", "held"}) /\ x \notin {"link", "rival", "relink"}
  BY DEF Steps, UnlinkSteps
<1>7. Become(p, Go(r, x, r.un))
  BY <1>3, <1>4, <1>6, GoStep
<1>8. Sane(p, Go(r, x, r.un)) /\ Unanchored(Go(r, x, r.un))
  BY <1>4, <1>5, <1>6, SaneGo
<1> QED  BY <1>2, <1>4, <1>7, <1>8, QuietMove

\* The lock is installed: the canonical name leads to the file of the process.
LEMMA InstalledStep ==
  ASSUME LockInv, NEW p \in Slots, Become(p, Installed(proc[p])), Owns(proc[p].at, Mine(p)), Mine(p) # None,
         names' = names, life' = life, faults' \in 0 .. MaxFaults, retained' = retained
  PROVE  LockInv' /\ Keeps(p)
<1> DEFINE r == proc[p]
           s == Installed(r)
<1>1. Sane(p, r) /\ r.file[r.at] # None
  BY Before DEF Mine
<1>2. CASE r.at # "lock"
  <2>1. Sane(p, s) /\ Unanchored(s)
    BY <1>1, <1>2, SaneInstalled
  <2> QED  BY <2>1, QuietMove
<1>3. CASE r.at = "lock"
  <2>1. Sane(p, s) /\ s.pc = "held" /\ s.file.lock = r.file.lock /\ s.un = None
    BY <1>1, <1>3, SaneInstalled
  <2>2. proc' = [proc EXCEPT ![p] = s] /\ proc'[p] = s
    BY DEF Become, LockInv
  <2>3. At("lock")' = r.file.lock
    BY <1>3, SameNames DEF Owns, Mine, LockInv
  <2> HIDE DEF s
  <2>4. Anchored(p)' /\ ~ Committed(p)'
    BY <2>1, <2>2, <2>3 DEF Anchored, Committed, Linkable, GuardedSteps, UnlinkSteps
  <2>5. /\ retained[p] \in Files \cup {None} /\ retained' = [retained EXCEPT ![p] = retained[p]]
        /\ retained[p] # None => retained[p].pid = Pid(p)
    BY DEF LockInv
  <2>6. DirectoryOK' /\ Keeps(p)
    BY QuietKeeps
  <2> QED  BY <2>1, <2>2, <2>4, <2>5, <2>6, StepKeeps
<1> QED  BY <1>2, <1>3

\* The installation is made durable, or settled.
LEMMA VerifyStep ==
  ASSUME LockInv, NEW p \in Slots, Verify(p)
  PROVE  LockInv' /\ Keeps(p)
<1> DEFINE r == proc[p]
           owns == Owns(r.at, Mine(p))
<1>1. PICK ok \in Synced(owns) :
        CountFault(owns, ok) /\ Become(p, IF ok THEN Installed(r) ELSE [r EXCEPT !.pc = "settle"])
  BY DEF Verify
<1>2. names' = names /\ retained' = retained /\ life' = life /\ r.pc = "verify"
  BY DEF Verify
<1>3. owns \in BOOLEAN
  BY DEF Owns
<1> HIDE DEF owns
<1>4. faults' \in 0 .. MaxFaults /\ ok \in BOOLEAN /\ (ok => owns)
  BY <1>1, <1>3, FaultsCounted
<1>5. Sane(p, r) /\ r \in Procs
  BY Before
<1>6. Mine(p) # None
  BY <1>2, <1>5 DEF Sane, Prepared, Mine, FiledSteps
<1>7. CASE ok
  BY <1>1, <1>2, <1>4, <1>6, <1>7, InstalledStep DEF owns
<1>8. CASE ~ ok
  <2>1. "settle" \in Steps \ (UnlinkSteps \cup {"alias", "held"}) /\ Prepared(r, "settle")
    BY <1>6 DEF Steps, UnlinkSteps, Prepared, ReleaseSteps, Mine
  <2>2. Become(p, Go(r, "settle", r.un))
    BY <1>1, <1>5, <1>8, <2>1, GoStep
  <2>3. Sane(p, Go(r, "settle", r.un)) /\ Unanchored(Go(r, "settle", r.un))
    BY <1>5, <2>1, SaneGo
  <2> QED  BY <1>2, <1>4, <2>2, <2>3, QuietMove
<1> QED  BY <1>4, <1>7, <1>8

\* Installed after all, given up, or rolled back under a guard.
LEMMA SettledStep ==
  ASSUME LockInv, NEW p \in Slots, Settled(p)
  PROVE  LockInv' /\ Keeps(p)
<1> DEFINE r == proc[p]
           owns == Owns(r.at, Mine(p))
           back == Unlinking(r, Canonical(r.at), Mine(p), {1, 2}, "rolledBack", "unsettled")
<1>1. PICK ok \in Synced(owns) :
        CountFault(owns, ok) /\ Become(p, IF ok THEN Installed(r) ELSE IF r.pc = "unsettled" THEN Lost(r) ELSE back)
  BY DEF Settled
<1>2. names' = names /\ retained' = retained /\ life' = life /\ r.pc \in {"settled", "unsettled"}
  BY DEF Settled
<1>3. owns \in BOOLEAN
  BY DEF Owns
<1> HIDE DEF owns
<1>4. faults' \in 0 .. MaxFaults /\ ok \in BOOLEAN /\ (ok => owns)
  BY <1>1, <1>3, FaultsCounted
<1>5. Sane(p, r) /\ r \in Procs /\ r.at \in Paths
  BY Before
<1>6. Mine(p) # None /\ Mine(p) = r.file[r.at]
  BY <1>2, <1>5 DEF Sane, Prepared, Mine, FiledSteps
<1>7. Mine(p) \in Files /\ Mine(p).pid = Pid(p)
  BY <1>6, Before
<1>8. CASE ok
  BY <1>1, <1>2, <1>4, <1>6, <1>8, InstalledStep DEF owns
<1>9. CASE ~ ok
  <2>1. Prepared(r, "rolledBack") /\ Prepared(r, "unsettled")
    BY <1>6 DEF Prepared, ReleaseSteps
  <2>2. "rolledBack" \in Returns /\ "unsettled" \in Returns \ {"relink"} /\ {1, 2} \in {{1}, {2}, {1, 2}}
    BY DEF Returns
  <2>3. Canonical(r.at) \in BaseNames /\ Canonical(r.at)[1] = "canonical"
    BY <1>5, CanonicalNames
  <2>4. Sane(p, back) /\ Unanchored(back)
    BY <1>5, <1>7, <2>1, <2>2, <2>3, SaneUnlinking
  <2>5. Sane(p, Lost(r)) /\ Unanchored(Lost(r))
    BY <1>5, SaneLost
  <2> HIDE DEF back
  <2> QED  BY <1>1, <1>2, <1>4, <1>9, <2>4, <2>5, QuietMove
<1> QED  BY <1>4, <1>8, <1>9

\* The candidate of an installation that was rolled back.
LEMMA RolledBackStep ==
  ASSUME LockInv, NEW p \in Slots, RolledBack(p)
  PROVE  LockInv' /\ Keeps(p)
<1> DEFINE r == proc[p]
           c == Candidate(r.at, Mine(p))
           back == Unlinking(r, c, Mine(p), {1}, "lost", "lost")
<1>1. /\ Become(p, IF c \in DOMAIN names THEN back ELSE Lost(r))
      /\ names' = names /\ retained' = retained /\ life' = life /\ faults' = faults /\ r.pc = "rolledBack"
  BY DEF RolledBack
<1>2. Sane(p, r) /\ r \in Procs /\ r.at \in Paths /\ faults \in 0 .. MaxFaults
  BY Before
<1>3. Mine(p) # None /\ Mine(p) = r.file[r.at]
  BY <1>1, <1>2 DEF Sane, Prepared, Mine, FiledSteps
<1>4. Mine(p) \in Files /\ Mine(p).pid = Pid(p)
  BY <1>3, Before
<1>5. c \in BaseNames /\ c[1] = "candidate" /\ c[3] = Pid(p)
  BY <1>2, <1>4, CandidateNames
<1>6. c # Canonical("lock")
  BY <1>5, CanonicalNames DEF Paths
<1>7. "lost" \in Returns \ {"relink"} /\ Prepared(r, "lost") /\ {1} \in {{1}, {2}, {1, 2}}
  BY DEF Returns, Prepared, ReleaseSteps, FiledSteps
<1> HIDE DEF c
<1>8. Sane(p, back) /\ Unanchored(back)
  BY <1>2, <1>4, <1>5, <1>6, <1>7, SaneUnlinking
<1>9. Sane(p, Lost(r)) /\ Unanchored(Lost(r))
  BY <1>2, SaneLost
<1> HIDE DEF back
<1> QED  BY <1>1, <1>2, <1>8, <1>9, QuietMove

(***************************************************************************)
(* The winner of the election.                                             *)
(***************************************************************************)
\* The second name of the stale lock is that of a dead process.
LEMMA AliasGone ==
  ASSUME LockInv, NEW f \in Files, Gone(f.pid), NEW n \in DOMAIN names, Removable(n, f)
  PROVE  n \in Names /\ n[1] # "canonical" /\ Gone(n[3])
<1>1. n \in Names /\ (n[1] = "guard" => Known(n[3]))
  BY DEF LockInv, DirectoryOK
<1>2. CASE n = Candidate("lock", f)
  BY <1>1, <1>2, CandidateNames DEF Paths
<1>3. CASE n[1] = "guard" /\ ~ Alive(n[3])
  <2>1. n[3] \in Pids
    BY <1>1, <1>3, NameKinds
  <2>2. n[3][2] \in Nat /\ life[n[3][1]] \in Nat
    BY <2>1 DEF Pids, LockInv
  <2> QED  BY <1>1, <1>3, <2>2 DEF Known, Alive, Gone
<1> QED  BY <1>2, <1>3 DEF Removable

\* The stale lock is looked at again under the election.
LEMMA ConfirmStep ==
  ASSUME LockInv, NEW p \in Slots, Confirm(p)
  PROVE  LockInv' /\ Keeps(p)
<1> DEFINE r == proc[p]
           f == r.stale
           same == At("lock") = f /\ DeadOwner(f)
           aliases == {n \in DOMAIN names \ {Canonical("lock")} : names[n].ino = f.ino /\ Removable(n, f)}
           alias(n) == [Unlinking(r, n, f, {2}, None, None) EXCEPT !.pc = "alias"]
<1>1. \/ Become(p, [r EXCEPT !.pc = "reclaimable"])
      \/ same /\ \E n \in aliases : Become(p, alias(n))
      \/ Become(p, Abandon(r))
  BY DEF Confirm
<1>2. names' = names /\ retained' = retained /\ life' = life /\ faults' = faults
  BY DEF Confirm
<1>3. Sane(p, r) /\ r \in Procs /\ faults \in 0 .. MaxFaults
  BY Before
<1>4. ASSUME Become(p, [r EXCEPT !.pc = "reclaimable"])
      PROVE  LockInv' /\ Keeps(p)
  <2>1. "reclaimable" \in Steps \ (UnlinkSteps \cup {"alias", "held"}) /\ Prepared(r, "reclaimable")
    BY DEF Steps, UnlinkSteps, Prepared, ReleaseSteps, FiledSteps
  <2>2. Become(p, Go(r, "reclaimable", r.un))
    BY <1>3, <1>4, <2>1, GoStep
  <2>3. Sane(p, Go(r, "reclaimable", r.un)) /\ Unanchored(Go(r, "reclaimable", r.un))
    BY <1>3, <2>1, SaneGo
  <2> QED  BY <1>2, <1>3, <2>2, <2>3, QuietMove
<1>5. ASSUME same, NEW n \in aliases, Become(p, alias(n))
      PROVE  LockInv' /\ Keeps(p)
  <2>1. At("lock") = f /\ f # None /\ DeadOwner(f) /\ "lock" \in Paths
    BY <1>5 DEF DeadOwner, Paths
  <2>2. f \in Files /\ Gone(f.pid)
    BY <2>1, DeadGone
  <2>3. n \in DOMAIN names /\ Removable(n, f) /\ n # Canonical("lock")
    BY <1>5
  <2>4. n \in Names /\ n[1] # "canonical" /\ Gone(n[3])
    BY <2>2, <2>3, AliasGone
  <2> DEFINE u == [name |-> n, file |-> f, allowed |-> {2}, links |-> 0,
                   guard |-> None, removed |-> FALSE, ok |-> None, bad |-> None]
  <2>5. u \in Unlinks /\ u.name = n /\ u.file = f /\ u.guard = None
    BY <2>2, <2>4 DEF Unlinks
  <2>6. alias(n) = Go(r, "alias", u)
    BY <1>3 DEF Unlinking, Go, Procs
  <2> HIDE DEF u, alias, aliases
  <2> DEFINE s == Go(r, "alias", u)
  <2>7. /\ s \in Procs
        /\ s.pc = "alias" /\ s.un = u /\ s.rel = r.rel /\ s.at = r.at /\ s.file = r.file /\ s.stale = r.stale
    <3>1. "alias" \in Steps /\ u \in Unlinks \cup {None}
      BY <2>5 DEF Steps
    <3> QED  BY <1>3, <3>1, Moved
  <2>8. u # None
    BY <2>5, LockAssumption
  <2>9. Target(p, u)
    BY <2>3, <2>4, <2>5 DEF Target
  <2>10. Become(p, s)
    BY <1>5, <2>6
  <2> HIDE DEF s
  <2>11. Sane(p, s) /\ Unanchored(s)
    BY <1>3, <2>4, <2>5, <2>7, <2>8, <2>9
       DEF Sane, Prepared, Unanchored, Linkable, UnlinkSteps, GuardedSteps, ReleaseSteps, FiledSteps
  <2> QED  BY <1>2, <1>3, <2>10, <2>11, QuietMove
<1>6. ASSUME Become(p, Abandon(r))
      PROVE  LockInv' /\ Keeps(p)
  BY <1>2, <1>3, <1>6, SaneAbandon, QuietMove
<1> QED  BY <1>1, <1>4, <1>5, <1>6

\* The stale lock is going to be unlinked.
LEMMA ReclaimableStep ==
  ASSUME LockInv, NEW p \in Slots, Reclaimable(p)
  PROVE  LockInv' /\ Keeps(p)
<1> DEFINE r == proc[p]
           f == r.stale
           c == Canonical("lock")
           s == Unlinking(r, c, f, {1}, "reclaimed", "abandon")
<1>1. /\ Become(p, IF Owns("lock", f) /\ DeadOwner(f) THEN s ELSE Abandon(r))
      /\ names' = names /\ retained' = retained /\ life' = life /\ faults' = faults
  BY DEF Reclaimable
<1>2. Sane(p, r) /\ r \in Procs /\ faults \in 0 .. MaxFaults
  BY Before
<1>3. ASSUME Owns("lock", f), DeadOwner(f)
      PROVE  Sane(p, s) /\ Unanchored(s)
  <2>1. At("lock") = f /\ f # None /\ "lock" \in Paths
    BY <1>3 DEF Owns, DeadOwner, Paths
  <2>2. f \in Files /\ Gone(f.pid)
    BY <1>3, <2>1, DeadGone
  <2>3. c \in BaseNames /\ c[1] = "canonical"
    BY <2>1, CanonicalNames
  <2>4. /\ "reclaimed" \in Returns /\ "abandon" \in Returns \ {"relink"} /\ {1} \in {{1}, {2}, {1, 2}}
        /\ Prepared(r, "reclaimed") /\ Prepared(r, "abandon")
    BY DEF Returns, Prepared, ReleaseSteps, FiledSteps
  <2> QED  BY <1>2, <2>2, <2>3, <2>4, SaneUnlinking
<1>4. Sane(p, Abandon(r)) /\ Unanchored(Abandon(r))
  BY <1>2, SaneAbandon
<1> HIDE DEF s
<1> QED  BY <1>1, <1>2, <1>3, <1>4, QuietMove

(***************************************************************************)
(* releaseLocalStoreLock.                                                  *)
(***************************************************************************)
\* A holder starts to give the lock back.
LEMMA HolderReleasesStep ==
  ASSUME LockInv, NEW p \in Slots, HolderReleases(p)
  PROVE  LockInv' /\ Keeps(p)
<1> DEFINE r == proc[p]
           s == Releasing(r, "lock", r.file.lock, "idle", "idle")
<1>1. /\ Become(p, s)
      /\ names' = names /\ retained' = retained /\ life' = life /\ faults' = faults
  BY DEF HolderReleases
<1>2. Sane(p, r) /\ r \in Procs /\ faults \in 0 .. MaxFaults
  BY Before
<1>3. r.file.lock \in Files \cup {None} /\ (r.file.lock # None => r.file.lock.pid = Pid(p))
  BY <1>2 DEF Sane, Procs
<1>4. "lock" \in Paths /\ "idle" \in CallerReturns
  BY DEF Paths, CallerReturns
<1>5. Sane(p, s) /\ Unanchored(s)
  BY <1>2, <1>3, <1>4, SaneReleasing
<1> HIDE DEF s
<1> QED  BY <1>1, <1>2, <1>5, QuietMove

\* What is retained is the process's own file.
LEMMA RetainStep ==
  ASSUME LockInv, NEW p \in Slots, NEW path \in Paths, NEW f \in Files \cup {None},
         path = "lock" /\ f # None => f.pid = Pid(p), Retain(p, path, f)
  PROVE  \E x \in Files \cup {None} : retained' = [retained EXCEPT ![p] = x] /\ (x # None => x.pid = Pid(p))
<1>1. CASE path = "lock"
  BY <1>1 DEF Retain
<1>2. CASE path # "lock"
  <2>1. /\ retained[p] \in Files \cup {None} /\ retained' = [retained EXCEPT ![p] = retained[p]]
        /\ retained[p] # None => retained[p].pid = Pid(p)
    BY <1>2 DEF LockInv, Retain
  <2> QED  BY <2>1
<1> QED  BY <1>1, <1>2

\* The release returns to its caller.
LEMMA ReturnStep ==
  ASSUME LockInv, NEW p \in Slots, NEW x \in CallerReturns, Become(p, Enter(proc[p], x)),
         names' = names, life' = life, faults' \in 0 .. MaxFaults,
         \/ retained' = retained
         \/ \E f \in Files \cup {None} : retained' = [retained EXCEPT ![p] = f] /\ (f # None => f.pid = Pid(p))
  PROVE  LockInv' /\ Keeps(p)
<1>1. Sane(p, proc[p])
  BY Before
<1>2. x # "relink" /\ Prepared(proc[p], x)
  BY DEF CallerReturns, Prepared, ReleaseSteps, FiledSteps
<1>3. Sane(p, Enter(proc[p], x)) /\ Unanchored(Enter(proc[p], x))
  BY <1>1, <1>2, SaneEnter
<1> QED  BY <1>3, QuietMove, QuietStep

\* What a release knows.
LEMMA ReleaseOf ==
  ASSUME LockInv, NEW p \in Slots, proc[p].pc \in ReleaseSteps
  PROVE  LET q == proc[p].rel
         IN  /\ q # None /\ q.path \in Paths /\ q.file \in Files \cup {None}
             /\ q.ok \in CallerReturns /\ q.bad \in CallerReturns
             /\ q.path = "lock" /\ q.file # None => q.file.pid = Pid(p)
<1>1. Sane(p, proc[p]) /\ proc[p].rel # None
  BY Before DEF Sane, Prepared
<1>2. proc[p].rel \in Rels
  BY <1>1, Before
<1> QED  BY <1>1, <1>2 DEF Sane, Rels

\* The installed lock is looked at before it is unlinked.
LEMMA ReleaseStep ==
  ASSUME LockInv, NEW p \in Slots, Release(p)
  PROVE  LockInv' /\ Keeps(p)
<1> DEFINE r == proc[p]
           q == r.rel
           f == At(q.path)
           s == Unlinking(r, Canonical(q.path), f, {1}, "released", "unreleased")
<1>1. names' = names /\ life' = life /\ r.pc = "release"
  BY DEF Release
<1>2. /\ q # None /\ q.path \in Paths /\ q.file \in Files \cup {None}
      /\ q.ok \in CallerReturns /\ q.bad \in CallerReturns
      /\ q.path = "lock" /\ q.file # None => q.file.pid = Pid(p)
  BY <1>1, ReleaseOf DEF ReleaseSteps
<1>3. Sane(p, r) /\ r \in Procs /\ faults \in 0 .. MaxFaults
  BY Before
<1>4. \/ \E ok \in Synced(TRUE) :
            /\ CountFault(TRUE, ok)
            /\ Retain(p, q.path, IF ok THEN None ELSE q.file)
            /\ Become(p, Enter(r, IF ok THEN q.ok ELSE q.bad))
      \/ /\ faults' = faults
         /\ Retain(p, q.path, None) \/ retained' = retained
         /\ Become(p, Enter(r, q.bad))
      \/ /\ faults' = faults /\ retained' = retained
         /\ f # None /\ f = q.file /\ Become(p, s)
  BY DEF Release
<1>5. ASSUME NEW ok \in Synced(TRUE), CountFault(TRUE, ok), Retain(p, q.path, IF ok THEN None ELSE q.file),
             Become(p, Enter(r, IF ok THEN q.ok ELSE q.bad))
      PROVE  LockInv' /\ Keeps(p)
  <2>1. faults' \in 0 .. MaxFaults /\ ok \in BOOLEAN
    BY <1>5, FaultsCounted
  <2> DEFINE g == IF ok THEN None ELSE q.file
             x == IF ok THEN q.ok ELSE q.bad
  <2>2. g \in Files \cup {None} /\ x \in CallerReturns /\ (q.path = "lock" /\ g # None => g.pid = Pid(p))
    BY <1>2, <2>1
  <2>3. Retain(p, q.path, g) /\ Become(p, Enter(r, x))
    BY <1>5
  <2> HIDE DEF g, x
  <2>4. \E h \in Files \cup {None} : retained' = [retained EXCEPT ![p] = h] /\ (h # None => h.pid = Pid(p))
    BY <1>2, <2>2, <2>3, RetainStep
  <2> QED  BY <1>1, <2>1, <2>2, <2>3, <2>4, ReturnStep
<1>6. ASSUME faults' = faults, Retain(p, q.path, None) \/ retained' = retained, Become(p, Enter(r, q.bad))
      PROVE  LockInv' /\ Keeps(p)
  <2>1. \/ retained' = retained
        \/ \E h \in Files \cup {None} : retained' = [retained EXCEPT ![p] = h] /\ (h # None => h.pid = Pid(p))
    BY <1>2, <1>6, RetainStep
  <2> QED  BY <1>1, <1>2, <1>3, <1>6, <2>1, ReturnStep
<1>7. ASSUME faults' = faults, retained' = retained, f # None, f = q.file, Become(p, s)
      PROVE  LockInv' /\ Keeps(p)
  <2>1. f \in Files
    BY <1>2, <1>7
  <2>2. Canonical(q.path) \in BaseNames /\ Canonical(q.path)[1] = "canonical"
    BY <1>2, CanonicalNames
  <2>3. Canonical(q.path) = Canonical("lock") => q.path = "lock"
    BY DEF Canonical
  <2>4. /\ "released" \in Returns /\ "unreleased" \in Returns \ {"relink"} /\ {1} \in {{1}, {2}, {1, 2}}
        /\ Prepared(r, "released") /\ Prepared(r, "unreleased")
    BY <1>2 DEF Returns, Prepared, FiledSteps
  <2>5. Sane(p, s) /\ Unanchored(s)
    BY <1>2, <1>3, <1>7, <2>1, <2>2, <2>3, <2>4, SaneUnlinking
  <2> HIDE DEF s
  <2> QED  BY <1>1, <1>3, <1>7, <2>5, QuietMove
<1> QED  BY <1>4, <1>5, <1>6, <1>7

\* The lock is gone.
LEMMA ReleasedStep ==
  ASSUME LockInv, NEW p \in Slots, Released(p)
  PROVE  LockInv' /\ Keeps(p)
<1> DEFINE q == proc[p].rel
<1>1. /\ names' = names /\ life' = life /\ faults' = faults /\ proc[p].pc = "released"
      /\ Retain(p, q.path, None) /\ Become(p, Enter(proc[p], q.ok))
  BY DEF Released
<1>2. q.path \in Paths /\ q.ok \in CallerReturns
  BY <1>1, ReleaseOf DEF ReleaseSteps
<1>3. \E h \in Files \cup {None} : retained' = [retained EXCEPT ![p] = h] /\ (h # None => h.pid = Pid(p))
  BY <1>1, <1>2, RetainStep
<1>4. faults' \in 0 .. MaxFaults
  BY <1>1, Before
<1> QED  BY <1>1, <1>2, <1>3, <1>4, ReturnStep

\* The unlink failed: the release is retained while the file is still installed.
LEMMA UnreleasedStep ==
  ASSUME LockInv, NEW p \in Slots, Unreleased(p)
  PROVE  LockInv' /\ Keeps(p)
<1> DEFINE q == proc[p].rel
           f == At(q.path)
           gone == f = None
           g == IF ~gone /\ f.ino = q.file.ino THEN q.file ELSE None
<1>1. PICK ok \in Synced(gone) :
           /\ CountFault(gone, ok)
           /\ retained' = retained \/ Retain(p, q.path, g)
           /\ Become(p, Enter(proc[p], q.bad))
  BY DEF Unreleased
<1>2. names' = names /\ life' = life /\ proc[p].pc = "unreleased"
  BY DEF Unreleased
<1>3. /\ q.path \in Paths /\ q.bad \in CallerReturns /\ q.file \in Files \cup {None}
      /\ q.path = "lock" /\ q.file # None => q.file.pid = Pid(p)
  BY <1>2, ReleaseOf DEF ReleaseSteps
<1>4. gone \in BOOLEAN
  OBVIOUS
<1>5. g \in Files \cup {None} /\ (q.path = "lock" /\ g # None => g.pid = Pid(p))
  BY <1>3
<1> HIDE DEF gone, g
<1>6. faults' \in 0 .. MaxFaults
  BY <1>1, <1>4, FaultsCounted
<1>7. \/ retained' = retained
      \/ \E h \in Files \cup {None} : retained' = [retained EXCEPT ![p] = h] /\ (h # None => h.pid = Pid(p))
  BY <1>1, <1>3, <1>5, RetainStep
<1> QED  BY <1>1, <1>2, <1>3, <1>6, <1>7, ReturnStep

(***************************************************************************)
(* The steps that add a name or take one away.                             *)
(***************************************************************************)
\* A name of the process itself, or of a dead one, is removed.
LEMMA RemovalKeeps ==
  ASSUME LockInv, NEW p \in Slots, NEW n, n[1] # "canonical", n[3] = Pid(p) \/ Gone(n[3]),
         names' = WithoutName(n), life' = life
  PROVE  DirectoryOK' /\ Keeps(p)
<1>1. /\ DirectoryOK' /\ DOMAIN names' = DOMAIN names \ {n}
      /\ \A m \in DOMAIN names : m # n => names'[m] = names[m]
  BY RemoveName DEF LockInv
<1>2. Canonical("lock") # n
  BY CanonicalNames DEF Paths
<1>3. At("lock")' = At("lock")
  BY <1>1, <1>2 DEF At, Canonical
<1> QED  BY <1>1, <1>3 DEF Keeps

\* A name of the process itself is added.
LEMMA AdditionKeeps ==
  ASSUME LockInv, NEW p \in Slots, NEW n \in Names, n[1] # "canonical", n[3] = Pid(p), NEW f \in Files,
         Known(f.pid), n[1] = "candidate" => n = Candidate(n[2], f),
         \A m \in DOMAIN names : names[m].ino = f.ino => names[m] = f,
         names' = WithName(n, f), life' = life
  PROVE  /\ DirectoryOK' /\ Keeps(p)
         /\ DOMAIN names' = DOMAIN names \cup {n} /\ names'[n] = f
         /\ \A m \in DOMAIN names : m # n => names'[m] = names[m]
<1>1. DirectoryOK /\ Known(Pid(p))
  BY PidsDiffer DEF LockInv
<1>2. /\ DirectoryOK' /\ DOMAIN names' = DOMAIN names \cup {n} /\ names'[n] = f
      /\ \A m \in DOMAIN names : m # n => names'[m] = names[m]
  BY <1>1, AddName
<1>3. Canonical("lock") # n
  BY CanonicalNames DEF Paths
<1>4. At("lock")' = At("lock")
  BY <1>2, <1>3 DEF At, Canonical
<1> QED  BY <1>2, <1>4 DEF Keeps

\* The free canonical name is linked to a file that has a name.
LEMMA InstallationKeeps ==
  ASSUME LockInv, NEW p \in Slots, NEW path \in Paths, At(path) = None,
         NEW c \in DOMAIN names, names' = WithName(Canonical(path), names[c]), life' = life
  PROVE  DirectoryOK' /\ Keeps(p)
<1> DEFINE n == Canonical(path)
           f == names[c]
<1>1. DirectoryOK /\ f \in Files /\ Known(f.pid)
  BY DEF LockInv, DirectoryOK
<1>2. n \in Names /\ n[1] = "canonical"
  BY CanonicalNames
<1>3. \A m \in DOMAIN names : names[m].ino = f.ino => names[m] = f
  BY <1>1 DEF DirectoryOK
<1>4. names' = WithName(n, f)
  OBVIOUS
<1>5. n \notin DOMAIN names
  <2> SUFFICES ASSUME n \in DOMAIN names PROVE FALSE
    OBVIOUS
  <2>1. names[n] = None /\ names[n] \in Files
    BY <1>1 DEF At, DirectoryOK
  <2> QED  BY <2>1, LockAssumption
<1> HIDE DEF f, n
<1>6. /\ DirectoryOK' /\ DOMAIN names' = DOMAIN names \cup {n} /\ names'[n] = f
      /\ \A m \in DOMAIN names : m # n => names'[m] = names[m]
  BY <1>1, <1>2, <1>3, <1>4, AddName
<1>7. At("lock")' = At("lock") \/ At("lock") = None
  <2>1. CASE path = "lock"
    BY <2>1
  <2>2. CASE path # "lock"
    <3>1. n # Canonical("lock")
      BY <2>2 DEF n, Canonical
    <3> QED  BY <1>6, <3>1 DEF At, Canonical
  <2> QED  BY <2>1, <2>2
<1>8. \A m \in DOMAIN names : m # n
  BY <1>5
<1> QED  BY <1>6, <1>7, <1>8 DEF Keeps

\* A step that changes the directory and moves the process to where it relies on nothing.
LEMMA FreeStep ==
  ASSUME LockInv, NEW p \in Slots, NEW s, Become(p, s), DirectoryOK', Keeps(p), life' = life,
         faults' \in 0 .. MaxFaults, retained' = retained, Sane(p, s), Unanchored(s)
  PROVE  LockInv' /\ Keeps(p)
<1>1. proc' = [proc EXCEPT ![p] = s] /\ proc'[p] = s
  BY DEF Become, LockInv
<1>2. Anchored(p)' /\ ~ Committed(p)'
  BY <1>1, UnanchoredRests
<1>3. /\ retained[p] \in Files \cup {None} /\ retained' = [retained EXCEPT ![p] = retained[p]]
      /\ retained[p] # None => retained[p].pid = Pid(p)
  BY DEF LockInv
<1> QED  BY <1>1, <1>2, <1>3, StepKeeps

\* A step to where the process relies on its candidate.
LEMMA LinkableStep ==
  ASSUME LockInv, NEW p \in Slots, NEW s, Become(p, s), DirectoryOK', Keeps(p), life' = life,
         faults' \in 0 .. MaxFaults, retained' = retained, Sane(p, s), s.pc \notin GuardedSteps \cup {"held"},
         Candidate(s.at, s.file[s.at]) \in DOMAIN names',
         names'[Candidate(s.at, s.file[s.at])] = s.file[s.at]
  PROVE  LockInv' /\ Keeps(p)
<1>1. proc' = [proc EXCEPT ![p] = s] /\ proc'[p] = s
  BY DEF Become, LockInv
<1>2. Anchored(p)' /\ ~ Committed(p)'
  BY <1>1 DEF Anchored, Committed, Mine, GuardedSteps
<1>3. /\ retained[p] \in Files \cup {None} /\ retained' = [retained EXCEPT ![p] = retained[p]]
      /\ retained[p] # None => retained[p].pid = Pid(p)
  BY DEF LockInv
<1> QED  BY <1>1, <1>2, <1>3, StepKeeps

\* What a process that is going to link knows.
LEMMA LinkableOf ==
  ASSUME LockInv, NEW p \in Slots, Linkable(proc[p]) \/ proc[p].pc \in FiledSteps
  PROVE  LET r == proc[p]
             f == Mine(p)
             c == Candidate(r.at, f)
         IN  /\ f = r.file[r.at] /\ f \in Files /\ f.pid = Pid(p)
             /\ c \in Names /\ c[1] = "candidate" /\ c[2] = r.at /\ c[3] = Pid(p)
             /\ Linkable(r) => c \in DOMAIN names /\ names[c] = f
<1> DEFINE r == proc[p]
           f == Mine(p)
           c == Candidate(r.at, f)
<1>1. Sane(p, r) /\ Anchored(p) /\ r.at \in Paths
  BY Before
<1>2. r.file[r.at] # None
  <2>1. CASE r.pc \in FiledSteps
    BY <1>1, <2>1 DEF Sane, Prepared
  <2>2. CASE r.pc \in UnlinkSteps /\ r.un.ok = "relink"
    BY <1>1, <2>2 DEF Sane, Prepared, FiledSteps
  <2> QED  BY <2>1, <2>2 DEF Linkable, FiledSteps
<1>3. f = r.file[r.at] /\ f \in Files /\ f.pid = Pid(p)
  BY <1>2, Before DEF Mine
<1>4. c \in Names /\ c[1] = "candidate" /\ c[2] = r.at /\ c[3] = Pid(p)
  BY <1>1, <1>3, CandidateNames
<1>5. Linkable(r) => c \in DOMAIN names /\ names[c] = f
  BY <1>1 DEF Anchored
<1> QED  BY <1>3, <1>4, <1>5

\* The candidate is written.
LEMMA CreateStep ==
  ASSUME LockInv, NEW p \in Slots, Create(p)
  PROVE  LockInv' /\ Keeps(p)
<1> DEFINE r == proc[p]
           tok == IF r.at = "lock" THEN r.token ELSE FreshToken
           file(i) == [ino |-> i, pid |-> Pid(p), token |-> tok]
<1>1. PICK i \in FreshInodes :
        /\ names' = WithName(Candidate(r.at, file(i)), file(i))
        /\ Become(p, [r EXCEPT !.pc = "link", !.file[r.at] = file(i)])
  BY DEF Create
<1>2. retained' = retained /\ life' = life /\ faults' = faults /\ r.pc = "create"
  BY DEF Create
<1>3. Sane(p, r) /\ r \in Procs /\ r.at \in Paths /\ faults \in 0 .. MaxFaults /\ DirectoryOK
  BY Before
<1>4. tok \in Nat
  <2>1. r.token \in Nat
    BY <1>3 DEF Procs
  <2> QED  BY <2>1, FreshTokens
<1> HIDE DEF tok
<1> DEFINE f == file(i)
           s == [r EXCEPT !.pc = "link", !.file[r.at] = f]
           c == Candidate(r.at, f)
<1>5. i \in Inodes /\ \A n \in DOMAIN names : names[n].ino # i
  BY <1>3, FreshInode
<1>6. Pid(p) \in Pids /\ Known(Pid(p))
  BY PidsDiffer
<1>7. f \in Files /\ f.ino = i /\ f.pid = Pid(p)
  BY <1>4, <1>5, <1>6 DEF Files
<1>8. names' = WithName(c, f) /\ Become(p, s)
  BY <1>1
<1> HIDE DEF file
<1> HIDE DEF f
<1>9. /\ c \in Names /\ c[1] = "candidate" /\ c[3] = Pid(p) /\ c = Candidate(c[2], f)
  BY <1>3, <1>7, CandidateNames
<1>10. /\ s \in Procs
       /\ s.pc = "link" /\ s.un = r.un /\ s.rel = r.rel /\ s.at = r.at /\ s.stale = r.stale
       /\ s.file[s.at] = f
       /\ s.file.lock \in {r.file.lock, f} /\ s.file.election \in {r.file.election, f}
  <2>1. CASE r.at = "lock"
    <3>1. s = [r EXCEPT !.pc = "link", !.file.lock = f]
      BY <2>1
    <3> QED  BY <1>3, <1>7, <2>1, <3>1 DEF Procs, Steps
  <2>2. CASE r.at = "election"
    <3>1. s = [r EXCEPT !.pc = "link", !.file.election = f]
      BY <2>2
    <3> QED  BY <1>3, <1>7, <2>2, <3>1 DEF Procs, Steps
  <2> QED  BY <1>3, <2>1, <2>2 DEF Paths
<1> HIDE DEF s
<1>11. f # None
  BY <1>7, LockAssumption
<1>12. Sane(p, s)
  BY <1>3, <1>7, <1>10, <1>11 DEF Sane, Prepared, UnlinkSteps, GuardedSteps, ReleaseSteps
<1>13. \A m \in DOMAIN names : names[m].ino = f.ino => names[m] = f
  BY <1>5, <1>7
<1> HIDE DEF c
<1>14. /\ DirectoryOK' /\ Keeps(p)
       /\ DOMAIN names' = DOMAIN names \cup {c} /\ names'[c] = f
  BY <1>2, <1>6, <1>7, <1>8, <1>9, <1>13, AdditionKeeps
<1>15. c = Candidate(s.at, s.file[s.at]) /\ s.pc \notin GuardedSteps \cup {"held"}
  BY <1>10 DEF c, GuardedSteps
<1> QED  BY <1>2, <1>3, <1>8, <1>10, <1>12, <1>14, <1>15, LinkableStep

\* Spending the installation changes only the bookkeeping of the deadline.
LEMMA SaneSpend ==
  ASSUME NEW p \in Slots, NEW r, Sane(p, r)
  PROVE  LET s == SpendInstall(r)
         IN  /\ Sane(p, s) /\ s \in Procs /\ s.pc = r.pc /\ s.un = r.un /\ s.rel = r.rel
             /\ s.at = r.at /\ s.file = r.file /\ s.stale = r.stale
<1> DEFINE s == SpendInstall(r)
<1>1. /\ s \in Procs /\ s.pc = r.pc /\ s.un = r.un /\ s.rel = r.rel
      /\ s.at = r.at /\ s.file = r.file /\ s.stale = r.stale
  <2>1. r \in Procs
    BY DEF Sane
  <2> DEFINE t == [r EXCEPT !.available = FALSE, !.consumed = TRUE, !.used = TRUE]
  <2>2. /\ t \in Procs /\ t.pc = r.pc /\ t.un = r.un /\ t.rel = r.rel
        /\ t.at = r.at /\ t.file = r.file /\ t.stale = r.stale
    BY <2>1 DEF Procs
  <2>3. s = t \/ s = r
    BY DEF SpendInstall
  <2> HIDE DEF s, t
  <2> QED  BY <2>1, <2>2, <2>3
<1> HIDE DEF s
<1>2. Sane(p, s)
  BY <1>1 DEF Sane, Prepared
<1> QED  BY <1>1, <1>2 DEF s

\* The candidate is linked to the free canonical name.
LEMMA PublishStep ==
  ASSUME LockInv, NEW p \in Slots, Publish(p)
  PROVE  LockInv' /\ Keeps(p)
<1> DEFINE r == proc[p]
           s == SpendInstall(r)
           c == Candidate(r.at, Mine(p))
<1>1. /\ r.pc = "link" /\ At(r.at) = None
      /\ names' = WithName(Canonical(r.at), Mine(p))
      /\ Become(p, [s EXCEPT !.pc = "collapse"])
      /\ retained' = retained /\ life' = life /\ faults' = faults
  BY DEF Publish, Mine
<1>2. Sane(p, r) /\ r \in Procs /\ r.at \in Paths /\ faults \in 0 .. MaxFaults
  BY Before
<1>3. Linkable(r) /\ r.pc \in FiledSteps
  BY <1>1 DEF Linkable, FiledSteps
<1>4. c \in DOMAIN names /\ names[c] = Mine(p)
  BY <1>3, LinkableOf
<1>5. DirectoryOK' /\ Keeps(p)
  BY <1>1, <1>2, <1>4, InstallationKeeps
<1>6. Sane(p, s) /\ s \in Procs /\ s.at = r.at /\ s.file = r.file /\ s.pc = r.pc
  BY <1>2, SaneSpend
<1> HIDE DEF s
<1>7. "collapse" \in Steps \ (UnlinkSteps \cup {"alias", "held"}) /\ Prepared(s, "collapse")
  BY <1>1, <1>6 DEF Steps, UnlinkSteps, Sane, Prepared, ReleaseSteps, FiledSteps
<1>8. Become(p, Go(s, "collapse", s.un))
  BY <1>1, <1>6, <1>7, GoStep
<1>9. Sane(p, Go(s, "collapse", s.un)) /\ Unanchored(Go(s, "collapse", s.un))
  BY <1>6, <1>7, SaneGo
<1> QED  BY <1>1, <1>2, <1>5, <1>8, <1>9, FreeStep

\* The canonical name is taken.
LEMMA RefusedStep ==
  ASSUME LockInv, NEW p \in Slots, Refused(p)
  PROVE  LockInv' /\ Keeps(p)
<1> DEFINE r == proc[p]
           s == SpendInstall(r)
           i == [s EXCEPT !.pc = "inspect", !.file = NoFiles]
           c == Candidate(r.at, Mine(p))
<1>1. /\ r.pc = "link" /\ retained' = retained /\ life' = life /\ faults' = faults
  BY DEF Refused
<1>2. \/ /\ s.at = "lock" /\ names' = WithoutName(Candidate("lock", s.file.lock))
         /\ Become(p, Outside) \/ Become(p, i)
      \/ s.at # "lock" /\ names' = names /\ Become(p, [s EXCEPT !.pc = "rival"])
  BY DEF Refused
<1>3. Sane(p, r) /\ r \in Procs /\ r.at \in Paths /\ faults \in 0 .. MaxFaults
  BY Before
<1>4. Linkable(r) /\ r.pc \in FiledSteps
  BY <1>1 DEF Linkable, FiledSteps
<1>5. /\ Mine(p) = r.file[r.at] /\ c[1] = "candidate" /\ c[3] = Pid(p)
      /\ c \in DOMAIN names /\ names[c] = Mine(p)
  BY <1>4, LinkableOf
<1>6. Sane(p, s) /\ s \in Procs /\ s.at = r.at /\ s.file = r.file /\ s.pc = r.pc
  BY <1>3, SaneSpend
<1> HIDE DEF s
<1>7. ASSUME s.at = "lock", names' = WithoutName(Candidate("lock", s.file.lock)), Become(p, Outside) \/ Become(p, i)
      PROVE  LockInv' /\ Keeps(p)
  <2>1. c = Candidate("lock", s.file.lock)
    BY <1>5, <1>6, <1>7
  <2>2. DirectoryOK' /\ Keeps(p)
    <3> HIDE DEF c
    <3> QED  BY <1>1, <1>5, <1>7, <2>1, RemovalKeeps
  <2>3. Sane(p, Outside) /\ Unanchored(Outside)
    BY SaneOutside
  <2>4. /\ i \in Procs
        /\ i.pc = "inspect" /\ i.file = NoFiles /\ i.at = s.at /\ i.un = s.un /\ i.rel = s.rel /\ i.stale = s.stale
    BY <1>6 DEF Procs, Steps, NoFiles
  <2>5. i.file.lock = None /\ i.file.election = None
    BY <2>4 DEF NoFiles
  <2> HIDE DEF i
  <2>6. Sane(p, i) /\ Unanchored(i)
    BY <1>6, <2>4, <2>5 DEF Sane, Prepared, Unanchored, Linkable, UnlinkSteps, GuardedSteps, ReleaseSteps, FiledSteps
  <2> QED  BY <1>1, <1>3, <1>7, <2>2, <2>3, <2>6, FreeStep
<1>8. ASSUME s.at # "lock", names' = names, Become(p, [s EXCEPT !.pc = "rival"])
      PROVE  LockInv' /\ Keeps(p)
  <2>1. "rival" \in Steps \ (UnlinkSteps \cup {"alias", "held"}) /\ Prepared(s, "rival")
    BY <1>3, <1>4, <1>6, <1>8 DEF Steps, UnlinkSteps, Sane, Prepared, ReleaseSteps, FiledSteps, Paths
  <2> DEFINE t == Go(s, "rival", s.un)
  <2>2. Become(p, t)
    BY <1>6, <1>8, <2>1, GoStep
  <2>3. Sane(p, t)
    BY <1>6, <2>1, SaneGo
  <2>4. t.pc = "rival" /\ t.at = r.at /\ t.file = r.file
    <3>1. "rival" \in Steps /\ s.un \in Unlinks \cup {None}
      BY <1>6, <2>1 DEF Procs
    <3> QED  BY <1>6, <3>1, Moved
  <2>5. DirectoryOK' /\ Keeps(p)
    BY <1>1, <1>8, QuietKeeps
  <2> HIDE DEF t
  <2>6. /\ Candidate(t.at, t.file[t.at]) \in DOMAIN names'
        /\ names'[Candidate(t.at, t.file[t.at])] = t.file[t.at]
        /\ t.pc \notin GuardedSteps \cup {"held"}
    BY <1>5, <1>8, <2>4 DEF GuardedSteps
  <2> QED  BY <1>1, <1>3, <2>2, <2>3, <2>5, <2>6, LinkableStep
<1> QED  BY <1>2, <1>7, <1>8

\* The candidate's name of the installed file goes.
LEMMA DropCandidateStep ==
  ASSUME LockInv, NEW p \in Slots, DropCandidate(p)
  PROVE  LockInv' /\ Keeps(p)
<1> DEFINE r == proc[p]
           c == Candidate(r.at, Mine(p))
<1>1. PICK x \in {"verify", "settled"} : Become(p, [r EXCEPT !.pc = x])
  BY DEF DropCandidate
<1>2. /\ names' = WithoutName(c) /\ retained' = retained /\ life' = life /\ faults' = faults
      /\ r.pc \in {"drop", "settleDrop"}
  BY DEF DropCandidate
<1>3. Sane(p, r) /\ r \in Procs /\ faults \in 0 .. MaxFaults
  BY Before
<1>4. r.pc \in FiledSteps
  BY <1>2 DEF FiledSteps
<1>5. c[1] = "candidate" /\ c[3] = Pid(p)
  BY <1>4, LinkableOf
<1> HIDE DEF c
<1>6. DirectoryOK' /\ Keeps(p)
  BY <1>2, <1>5, RemovalKeeps
<1>7. /\ x \in Steps \ (UnlinkSteps \cup {"alias", "held"}) /\ Prepared(r, x)
      /\ x \notin {"link", "rival", "relink"}
  BY <1>3, <1>4 DEF Steps, UnlinkSteps, Sane, Prepared, ReleaseSteps
<1>8. Become(p, Go(r, x, r.un))
  BY <1>1, <1>3, <1>7, GoStep
<1>9. Sane(p, Go(r, x, r.un)) /\ Unanchored(Go(r, x, r.un))
  BY <1>3, <1>7, SaneGo
<1> QED  BY <1>2, <1>3, <1>6, <1>8, <1>9, FreeStep

\* The election is taken: the loser gives up, or removes it when its owner is dead.
LEMMA RivalStep ==
  ASSUME LockInv, NEW p \in Slots, Rival(p)
  PROVE  LockInv' /\ Keeps(p)
<1> DEFINE r == proc[p]
           f == At("election")
           n == Canonical("election")
           s == Unlinking(r, n, f, {1, 2}, "relink", "unelected")
           c == Candidate(r.at, Mine(p))
<1>1. /\ r.pc = "rival" /\ names' = names /\ retained' = retained /\ life' = life /\ faults' = faults
      /\ Become(p, IF DeadOwner(f) THEN s ELSE [r EXCEPT !.pc = "unelected"])
  BY DEF Rival
<1>2. Sane(p, r) /\ r \in Procs /\ faults \in 0 .. MaxFaults
  BY Before
<1>3. Linkable(r) /\ r.pc \in FiledSteps
  BY <1>1 DEF Linkable, FiledSteps
<1>4. Mine(p) = r.file[r.at] /\ Mine(p) \in Files /\ c \in DOMAIN names /\ names[c] = Mine(p)
  BY <1>3, LinkableOf
<1>5. Prepared(r, "relink") /\ Prepared(r, "unelected")
  BY <1>1, <1>2 DEF Sane, Prepared, ReleaseSteps, FiledSteps
<1>6. ASSUME DeadOwner(f)
      PROVE  LockInv' /\ Keeps(p)
  <2>1. f # None /\ "election" \in Paths
    BY <1>6 DEF DeadOwner, Paths
  <2>2. f \in Files
    BY <2>1, DeadGone
  <2>3. n \in BaseNames /\ n[1] = "canonical"
    BY <2>1, CanonicalNames
  <2>4. n # Canonical("lock")
    BY DEF Canonical
  <2>5. "relink" \in Returns /\ "unelected" \in Returns \ {"relink"} /\ {1, 2} \in {{1}, {2}, {1, 2}}
    BY DEF Returns
  <2>6. Sane(p, s) /\ s.pc = "pin" /\ s.at = r.at /\ s.file = r.file
    <3> HIDE DEF f, n
    <3> QED  BY <1>2, <1>5, <2>2, <2>3, <2>4, <2>5, SaneUnlinking DEF n
  <2>7. Become(p, s)
    BY <1>1, <1>6
  <2> HIDE DEF s
  <2>8. DirectoryOK' /\ Keeps(p)
    BY <1>1, QuietKeeps
  <2>9. /\ Candidate(s.at, s.file[s.at]) \in DOMAIN names'
        /\ names'[Candidate(s.at, s.file[s.at])] = s.file[s.at]
        /\ s.pc \notin GuardedSteps \cup {"held"}
    BY <1>1, <1>4, <2>6 DEF GuardedSteps
  <2> QED  BY <1>1, <1>2, <2>6, <2>7, <2>8, <2>9, LinkableStep
<1>7. ASSUME ~ DeadOwner(f)
      PROVE  LockInv' /\ Keeps(p)
  <2>1. "unelected" \in Steps \ (UnlinkSteps \cup {"alias", "held"}) /\ "unelected" \notin {"link", "rival", "relink"}
    BY DEF Steps, UnlinkSteps
  <2>2. Become(p, Go(r, "unelected", r.un))
    BY <1>1, <1>2, <1>7, <2>1, GoStep
  <2>3. Sane(p, Go(r, "unelected", r.un)) /\ Unanchored(Go(r, "unelected", r.un))
    BY <1>2, <1>5, <2>1, SaneGo
  <2> QED  BY <1>1, <1>2, <2>2, <2>3, QuietMove
<1> QED  BY <1>6, <1>7

\* The candidate is linked to the election's name once the dead owner's link is gone.
LEMMA RelinkStep ==
  ASSUME LockInv, NEW p \in Slots, Relink(p)
  PROVE  LockInv' /\ Keeps(p)
<1> DEFINE r == proc[p]
           c == Candidate(r.at, Mine(p))
<1>1. /\ r.pc = "relink" /\ retained' = retained /\ life' = life /\ faults' = faults
      /\ \/ /\ At("election") = None /\ names' = WithName(Canonical("election"), Mine(p))
            /\ Become(p, [r EXCEPT !.pc = "collapse"])
         \/ names' = names /\ Become(p, [r EXCEPT !.pc = "unelected"])
  BY DEF Relink
<1>2. Sane(p, r) /\ r \in Procs /\ faults \in 0 .. MaxFaults
  BY Before
<1>3. Linkable(r) /\ r.pc \in FiledSteps
  BY <1>1 DEF Linkable, FiledSteps
<1>4. c \in DOMAIN names /\ names[c] = Mine(p)
  BY <1>3, LinkableOf
<1>5. \A x \in {"collapse", "unelected"} :
        /\ x \in Steps \ (UnlinkSteps \cup {"alias", "held"}) /\ Prepared(r, x) /\ x \notin {"link", "rival", "relink"}
  BY <1>1, <1>2 DEF Steps, UnlinkSteps, Sane, Prepared, ReleaseSteps, FiledSteps
<1>6. \A x \in {"collapse", "unelected"} :
        [r EXCEPT !.pc = x] = Go(r, x, r.un) /\ Sane(p, Go(r, x, r.un)) /\ Unanchored(Go(r, x, r.un))
  <2> TAKE x \in {"collapse", "unelected"}
  <2> QED  BY <1>2, <1>5, GoStep, SaneGo
<1>7. ASSUME At("election") = None, names' = WithName(Canonical("election"), Mine(p)),
             Become(p, [r EXCEPT !.pc = "collapse"])
      PROVE  LockInv' /\ Keeps(p)
  <2>1. "election" \in Paths
    BY DEF Paths
  <2>2. DirectoryOK' /\ Keeps(p)
    <3> HIDE DEF c
    <3> QED  BY <1>1, <1>4, <1>7, <2>1, InstallationKeeps
  <2>3. Become(p, Go(r, "collapse", r.un))
    BY <1>6, <1>7
  <2> QED  BY <1>1, <1>2, <1>6, <2>2, <2>3, FreeStep
<1>8. ASSUME names' = names, Become(p, [r EXCEPT !.pc = "unelected"])
      PROVE  LockInv' /\ Keeps(p)
  <2>1. Become(p, Go(r, "unelected", r.un))
    BY <1>6, <1>8
  <2> QED  BY <1>1, <1>2, <1>6, <1>8, <2>1, QuietMove
<1> QED  BY <1>1, <1>7, <1>8

\* The loser of the election removes its candidate.
LEMMA UnelectedStep ==
  ASSUME LockInv, NEW p \in Slots, Unelected(p)
  PROVE  LockInv' /\ Keeps(p)
<1> DEFINE r == proc[p]
           c == Candidate(r.at, Mine(p))
<1>1. /\ r.pc = "unelected" /\ retained' = retained /\ life' = life /\ faults' = faults
      /\ names' = WithoutName(Candidate("election", Mine(p))) /\ Become(p, Retry(r))
  BY DEF Unelected
<1>2. Sane(p, r) /\ faults \in 0 .. MaxFaults
  BY Before
<1>3. r.pc \in FiledSteps /\ r.at = "election"
  BY <1>1, <1>2 DEF Sane, Prepared, FiledSteps
<1>4. c[1] = "candidate" /\ c[3] = Pid(p) /\ c = Candidate("election", Mine(p))
  BY <1>3, LinkableOf
<1> HIDE DEF c
<1>5. DirectoryOK' /\ Keeps(p)
  BY <1>1, <1>4, RemovalKeeps
<1>6. Sane(p, Retry(r)) /\ Unanchored(Retry(r))
  BY <1>2, SaneRetry
<1> QED  BY <1>1, <1>2, <1>5, <1>6, FreeStep

\* The second name of the stale lock goes.
LEMMA DropAliasStep ==
  ASSUME LockInv, NEW p \in Slots, DropAlias(p)
  PROVE  LockInv' /\ Keeps(p)
<1> DEFINE r == proc[p]
           n == r.un.name
           there == n \in DOMAIN names
<1>1. PICK ok \in Synced(there) :
        CountFault(there, ok) /\ Become(p, Enter(r, IF ok THEN "reclaimable" ELSE "abandon"))
  BY DEF DropAlias
<1>2. names' = WithoutName(n) /\ retained' = retained /\ life' = life /\ r.pc = "alias"
  BY DEF DropAlias
<1>3. Sane(p, r)
  BY Before
<1>4. n[1] # "canonical" /\ (n[3] = Pid(p) \/ Gone(n[3]))
  BY <1>2, <1>3 DEF Sane, Target
<1>5. there \in BOOLEAN
  OBVIOUS
<1> HIDE DEF there
<1>6. faults' \in 0 .. MaxFaults
  BY <1>1, <1>5, FaultsCounted
<1> DEFINE x == IF ok THEN "reclaimable" ELSE "abandon"
<1>7. x \in Returns \cup CallerReturns \cup {"reclaimable"} /\ x # "relink" /\ Prepared(r, x)
  BY DEF Returns, Prepared, ReleaseSteps, FiledSteps
<1>8. Become(p, Enter(r, x))
  BY <1>1
<1> HIDE DEF x
<1>9. Sane(p, Enter(r, x)) /\ Unanchored(Enter(r, x))
  BY <1>3, <1>7, SaneEnter
<1>10. DirectoryOK' /\ Keeps(p)
  <2> HIDE DEF n
  <2> QED  BY <1>2, <1>4, RemovalKeeps
<1> QED  BY <1>2, <1>6, <1>8, <1>9, <1>10, FreeStep

(***************************************************************************)
(* safelyUnlink.                                                           *)
(***************************************************************************)
\* A step within safelyUnlink, which may set the links it counted, its guard and its result.
LEMMA SaneUnlink ==
  ASSUME NEW p \in Slots, NEW r, Sane(p, r), r.pc \in UnlinkSteps, NEW x \in UnlinkSteps, NEW v \in Unlinks,
         v.name = r.un.name, v.file = r.un.file, v.allowed = r.un.allowed, v.ok = r.un.ok, v.bad = r.un.bad,
         v.guard = r.un.guard \/ (v.guard \in GuardNames /\ v.guard[3] = Pid(p)),
         x \in {"guard", "stillCurrent", "trust", "unlink"} => v.links \in v.allowed,
         x \in GuardedSteps => v.guard # None
  PROVE  LET s == Go(r, x, v)
         IN  Sane(p, s) /\ s.pc = x /\ s.un = v /\ s.at = r.at /\ s.file = r.file
<1> DEFINE s == Go(r, x, v)
<1>1. r \in Procs /\ x \in Steps /\ v \in Unlinks \cup {None}
  BY DEF Sane, UnlinkSteps, Steps
<1>2. /\ s \in Procs
      /\ s.pc = x /\ s.un = v /\ s.rel = r.rel /\ s.at = r.at /\ s.file = r.file /\ s.stale = r.stale
  BY <1>1, Moved
<1> HIDE DEF s
<1>3. v # None
  BY LockAssumption
<1>4. x # "alias" /\ x # "held" /\ x \notin ReleaseSteps /\ x \notin FiledSteps /\ x \notin {"rival", "relink", "unelected"}
  BY DEF UnlinkSteps, ReleaseSteps, FiledSteps
<1>5. r.un # None
  BY DEF Sane
<1>6. Target(p, v)
  BY <1>5 DEF Sane, Target
<1>7. Prepared(s, s.pc)
  BY <1>2, <1>4 DEF Prepared
<1>8. Prepared(s, v.ok) /\ Prepared(s, v.bad)
  BY <1>2 DEF Prepared, Sane
<1>9. Sane(p, s)
  BY <1>2, <1>3, <1>4, <1>6, <1>7, <1>8 DEF Sane
<1> QED  BY <1>2, <1>9 DEF s

\* The step keeps the invariant when the guard, the candidate and what was verified are there.
LEMMA GuardedStep ==
  ASSUME LockInv, NEW p \in Slots, NEW s, Become(p, s), DirectoryOK', Keeps(p), life' = life,
         faults' = faults, retained' = retained, Sane(p, s), s.pc \in UnlinkSteps,
         s.un.ok = "relink" =>
           /\ Candidate(s.at, s.file[s.at]) \in DOMAIN names'
           /\ names'[Candidate(s.at, s.file[s.at])] = s.file[s.at],
         s.pc \in GuardedSteps => s.un.guard \in DOMAIN names',
         s.pc = "unlink" => names'[s.un.guard] = s.un.file,
         s.pc \in {"trust", "unlink"} /\ s.un.name = Canonical("lock") /\ names'[s.un.guard] = s.un.file =>
           /\ At("lock")' = s.un.file
           /\ Committed(p) \/ \A q \in Slots \ {p} : ~ Committed(q)
  PROVE  LockInv' /\ Keeps(p)
<1>1. proc' = [proc EXCEPT ![p] = s] /\ proc'[p] = s
  BY DEF Become, LockInv
<1>2. s.pc \notin {"held", "link", "rival", "relink"}
  BY DEF UnlinkSteps
<1>3. Committed(p)' => /\ At("lock")' = s.un.file
                       /\ Committed(p) \/ \A q \in Slots \ {p} : ~ Committed(q)
  BY <1>1 DEF Committed, Canonical
<1>4. Anchored(p)'
  BY <1>1, <1>2, <1>3 DEF Anchored, Linkable, Mine
<1>5. /\ retained[p] \in Files \cup {None} /\ retained' = [retained EXCEPT ![p] = retained[p]]
      /\ retained[p] # None => retained[p].pid = Pid(p)
  BY DEF LockInv
<1>6. faults' \in 0 .. MaxFaults
  BY Before
<1> QED  BY <1>1, <1>3, <1>4, <1>5, <1>6, StepKeeps

\* What safelyUnlink knows.
LEMMA UnlinkOf ==
  ASSUME LockInv, NEW p \in Slots, proc[p].pc \in UnlinkSteps
  PROVE  LET r == proc[p]
             u == r.un
             c == Candidate(r.at, r.file[r.at])
         IN  /\ u \in Unlinks /\ u # None /\ u.name \in BaseNames /\ u.name \in Names
             /\ u.ok \in Returns /\ u.bad \in Returns
             /\ u.name[1] # "canonical" => u.name[3] = Pid(p) \/ Gone(u.name[3])
             /\ u.ok = "relink" => /\ c \in DOMAIN names /\ names[c] = r.file[r.at] /\ c[1] = "candidate"
                                   /\ u.name = Canonical("election") /\ r.file[r.at] \in Files
             /\ r.pc \in GuardedSteps => /\ u.guard \in DOMAIN names /\ u.guard \in GuardNames
                                         /\ u.guard[1] = "guard" /\ u.guard[3] = Pid(p) /\ u.guard # None
<1> DEFINE r == proc[p]
           u == r.un
           c == Candidate(r.at, r.file[r.at])
<1>1. Sane(p, r) /\ Anchored(p)
  BY Before
<1>2. u # None /\ u.name \in BaseNames /\ u.ok \in Returns /\ u.bad \in Returns /\ Target(p, u)
  BY <1>1 DEF Sane
<1>3. u \in Unlinks
  BY <1>2, Before
<1>4. u.name \in Names
  BY <1>2 DEF Names
<1>5. u.name[1] # "canonical" => u.name[3] = Pid(p) \/ Gone(u.name[3])
  BY <1>2 DEF Target
<1>6. ASSUME u.ok = "relink"
      PROVE  /\ c \in DOMAIN names /\ names[c] = r.file[r.at] /\ c[1] = "candidate"
             /\ u.name = Canonical("election") /\ r.file[r.at] \in Files
  <2>1. Linkable(r)
    BY <1>6 DEF Linkable
  <2>2. Mine(p) = r.file[r.at] /\ r.file[r.at] \in Files
    BY <2>1, LinkableOf
  <2>3. c \in DOMAIN names /\ names[c] = r.file[r.at] /\ c[1] = "candidate"
    BY <2>1, <2>2, LinkableOf
  <2> QED  BY <1>1, <1>6, <2>2, <2>3 DEF Sane
<1>7. ASSUME r.pc \in GuardedSteps
      PROVE  /\ u.guard \in DOMAIN names /\ u.guard \in GuardNames
             /\ u.guard[1] = "guard" /\ u.guard[3] = Pid(p) /\ u.guard # None
  <2>1. u.guard \in DOMAIN names /\ u.guard # None
    BY <1>1, <1>7 DEF Anchored, Sane
  <2>2. u.guard \in GuardNames /\ u.guard[3] = Pid(p)
    BY <1>2, <1>3, <2>1 DEF Unlinks, Target
  <2>3. u.guard[1] = "guard"
    BY <2>2, NameKinds DEF Names
  <2> QED  BY <2>1, <2>2, <2>3
<1> QED  BY <1>2, <1>3, <1>4, <1>5, <1>6, <1>7

\* The name still leads to the file, with as many links as may be.
LEMMA PinStep ==
  ASSUME LockInv, NEW p \in Slots, Pin(p)
  PROVE  LockInv' /\ Keeps(p)
<1> DEFINE r == proc[p]
           u == r.un
           links == Links(names[u.name])
           v == [u EXCEPT !.links = links]
<1>1. /\ r.pc = "pin" /\ names' = names /\ retained' = retained /\ life' = life /\ faults' = faults
      /\ \/ links \in u.allowed /\ Become(p, [r EXCEPT !.pc = "guard", !.un.links = links])
         \/ Become(p, Enter(r, u.bad))
  BY DEF Pin
<1>2. Sane(p, r) /\ r \in Procs /\ faults \in 0 .. MaxFaults /\ r.pc \in UnlinkSteps
  BY <1>1, Before DEF UnlinkSteps
<1>3. /\ u \in Unlinks
      /\ u.ok = "relink" => /\ Candidate(r.at, r.file[r.at]) \in DOMAIN names
                            /\ names[Candidate(r.at, r.file[r.at])] = r.file[r.at]
  BY <1>2, UnlinkOf
<1>4. DirectoryOK' /\ Keeps(p)
  BY <1>1, QuietKeeps
<1>5. ASSUME links \in u.allowed, Become(p, [r EXCEPT !.pc = "guard", !.un.links = links])
      PROVE  LockInv' /\ Keeps(p)
  <2>1. [r EXCEPT !.pc = "guard", !.un.links = links] = Go(r, "guard", v)
    BY <1>2 DEF Go, Procs
  <2>2. links \in Nat
    BY <1>3, <1>5 DEF Unlinks
  <2> HIDE DEF links
  <2>3. /\ v \in Unlinks /\ v.name = u.name /\ v.file = u.file /\ v.allowed = u.allowed /\ v.ok = u.ok
        /\ v.bad = u.bad /\ v.guard = u.guard /\ v.links = links
    BY <1>3, <2>2 DEF Unlinks
  <2> HIDE DEF v
  <2> DEFINE s == Go(r, "guard", v)
  <2>4. "guard" \in UnlinkSteps /\ "guard" \notin GuardedSteps
    BY DEF UnlinkSteps, GuardedSteps
  <2>5. Sane(p, s) /\ s.pc = "guard" /\ s.un = v /\ s.at = r.at /\ s.file = r.file
    BY <1>2, <1>5, <2>3, <2>4, SaneUnlink
  <2>6. Become(p, s)
    BY <1>5, <2>1
  <2> HIDE DEF s
  <2> QED  BY <1>1, <1>3, <1>4, <2>3, <2>4, <2>5, <2>6, GuardedStep
<1>6. ASSUME Become(p, Enter(r, u.bad))
      PROVE  LockInv' /\ Keeps(p)
  <2>1. Sane(p, Enter(r, u.bad)) /\ Unanchored(Enter(r, u.bad))
    BY <1>2, SaneReturn
  <2> QED  BY <1>1, <1>2, <1>6, <2>1, QuietMove
<1> QED  BY <1>1, <1>5, <1>6

\* The inode is pinned under a name of the process.
LEMMA LinkGuardStep ==
  ASSUME LockInv, NEW p \in Slots, LinkGuard(p)
  PROVE  LockInv' /\ Keeps(p)
<1> DEFINE r == proc[p]
           u == r.un
           n == u.name
           g == Guard(p, n)
           v == [u EXCEPT !.guard = g]
<1>1. /\ r.pc = "guard" /\ retained' = retained /\ life' = life /\ faults' = faults
      /\ \/ /\ n \in DOMAIN names /\ names' = WithName(g, names[n])
            /\ Become(p, [r EXCEPT !.pc = "stillCurrent", !.un.guard = g])
         \/ names' = names /\ Become(p, Enter(r, u.bad))
  BY DEF LinkGuard
<1>2. Sane(p, r) /\ r \in Procs /\ faults \in 0 .. MaxFaults /\ r.pc \in UnlinkSteps /\ DirectoryOK
  BY <1>1, Before DEF UnlinkSteps
<1>3. /\ u \in Unlinks /\ n \in BaseNames
      /\ u.ok = "relink" => /\ Candidate(r.at, r.file[r.at]) \in DOMAIN names
                            /\ names[Candidate(r.at, r.file[r.at])] = r.file[r.at]
                            /\ Candidate(r.at, r.file[r.at])[1] = "candidate"
  BY <1>2, UnlinkOf
<1>4. u.links \in u.allowed
  BY <1>1, <1>2 DEF Sane
<1>5. ASSUME n \in DOMAIN names, names' = WithName(g, names[n]),
             Become(p, [r EXCEPT !.pc = "stillCurrent", !.un.guard = g])
      PROVE  LockInv' /\ Keeps(p)
  <2>1. g \in GuardNames /\ g[1] = "guard" /\ g[3] = Pid(p)
    BY <1>2, <1>3, GuardName DEF LockInv
  <2>2. [r EXCEPT !.pc = "stillCurrent", !.un.guard = g] = Go(r, "stillCurrent", v)
    BY <1>2 DEF Go, Procs
  <2> HIDE DEF g
  <2>3. /\ v \in Unlinks /\ v.name = u.name /\ v.file = u.file /\ v.allowed = u.allowed /\ v.ok = u.ok
        /\ v.bad = u.bad /\ v.guard = g /\ v.links = u.links
    BY <1>3, <2>1 DEF Unlinks
  <2> HIDE DEF v
  <2> DEFINE s == Go(r, "stillCurrent", v)
  <2>4. "stillCurrent" \in UnlinkSteps /\ g # None
    BY <2>1, LockAssumption DEF UnlinkSteps
  <2>5. Sane(p, s) /\ s.pc = "stillCurrent" /\ s.un = v /\ s.at = r.at /\ s.file = r.file
    BY <1>2, <1>4, <2>1, <2>3, <2>4, SaneUnlink
  <2>6. Become(p, s)
    BY <1>5, <2>2
  <2>7. names[n] \in Files /\ Known(names[n].pid) /\ \A m \in DOMAIN names : names[m].ino = names[n].ino => names[m] = names[n]
    BY <1>2, <1>5 DEF DirectoryOK
  <2>8. g \in Names
    BY <2>1 DEF Names
  <2>9. /\ DirectoryOK' /\ Keeps(p)
        /\ DOMAIN names' = DOMAIN names \cup {g}
        /\ \A m \in DOMAIN names : m # g => names'[m] = names[m]
    <3> DEFINE f == names[n]
    <3>1. names' = WithName(g, f) /\ f \in Files /\ Known(f.pid)
          /\ \A m \in DOMAIN names : names[m].ino = f.ino => names[m] = f
      BY <1>5, <2>7
    <3> HIDE DEF f
    <3> QED  BY <1>1, <2>1, <2>8, <3>1, AdditionKeeps
  <2> HIDE DEF s
  <2>10. s.un.ok = "relink" =>
           /\ Candidate(s.at, s.file[s.at]) \in DOMAIN names'
           /\ names'[Candidate(s.at, s.file[s.at])] = s.file[s.at]
    <3> DEFINE c == Candidate(r.at, r.file[r.at])
    <3>1. u.ok = "relink" => c \in DOMAIN names /\ names[c] = r.file[r.at] /\ c # g
      BY <1>3, <2>1
    <3> HIDE DEF c
    <3>2. u.ok = "relink" => c \in DOMAIN names' /\ names'[c] = r.file[r.at]
      BY <2>9, <3>1
    <3> QED  BY <2>3, <2>5, <3>2 DEF c
  <2>11. s.un.guard \in DOMAIN names' /\ s.pc \in UnlinkSteps /\ s.pc \notin {"trust", "unlink"}
    BY <2>3, <2>4, <2>5, <2>9
  <2> QED  BY <1>1, <2>5, <2>6, <2>9, <2>10, <2>11, GuardedStep
<1>6. ASSUME names' = names, Become(p, Enter(r, u.bad))
      PROVE  LockInv' /\ Keeps(p)
  <2>1. Sane(p, Enter(r, u.bad)) /\ Unanchored(Enter(r, u.bad))
    BY <1>2, SaneReturn
  <2> QED  BY <1>1, <1>2, <1>6, <2>1, QuietMove
<1> QED  BY <1>1, <1>5, <1>6

\* A step that only looks at the directory, from one step with a guard to another.
LEMMA GuardedLook ==
  ASSUME LockInv, NEW p \in Slots, proc[p].pc \in GuardedSteps, NEW x \in GuardedSteps, NEW v \in Unlinks,
         v.name = proc[p].un.name, v.file = proc[p].un.file, v.allowed = proc[p].un.allowed,
         v.ok = proc[p].un.ok, v.bad = proc[p].un.bad, v.guard = proc[p].un.guard,
         x \in {"trust", "unlink"} => v.links \in v.allowed, x # "stillCurrent",
         names' = names, life' = life, faults' = faults, retained' = retained,
         Become(p, Go(proc[p], x, v)),
         x = "unlink" => names[v.guard] = v.file,
         x \in {"trust", "unlink"} /\ v.name = Canonical("lock") /\ names[v.guard] = v.file =>
           /\ At("lock") = v.file
           /\ Committed(p) \/ \A q \in Slots \ {p} : ~ Committed(q)
  PROVE  LockInv' /\ Keeps(p)
<1> DEFINE r == proc[p]
           s == Go(r, x, v)
<1>1. Sane(p, r) /\ r.pc \in UnlinkSteps /\ x \in UnlinkSteps /\ DirectoryOK
  BY Before DEF GuardedSteps, UnlinkSteps
<1>2. /\ r.un.guard \in DOMAIN names /\ r.un.guard # None
      /\ r.un.ok = "relink" => /\ Candidate(r.at, r.file[r.at]) \in DOMAIN names
                               /\ names[Candidate(r.at, r.file[r.at])] = r.file[r.at]
  BY <1>1, UnlinkOf
<1>3. x \in {"guard", "stillCurrent", "trust", "unlink"} => v.links \in v.allowed
  BY DEF GuardedSteps
<1>4. Sane(p, s) /\ s.pc = x /\ s.un = v /\ s.at = r.at /\ s.file = r.file
  BY <1>1, <1>2, <1>3, SaneUnlink
<1>5. Become(p, s)
  OBVIOUS
<1> HIDE DEF s
<1>6. DirectoryOK' /\ Keeps(p) /\ At("lock")' = At("lock")
  BY <1>1, QuietKeeps, SameNames
<1> QED  BY <1>1, <1>2, <1>4, <1>5, <1>6, GuardedStep

\* Three names that lead to a file are three links.
LEMMA ThreeLinks ==
  ASSUME DirectoryOK, NEW f, NEW a \in DOMAIN names, NEW b \in DOMAIN names, NEW c \in DOMAIN names,
         a # b, a # c, b # c, names[a] = f, names[b] = f, names[c] = f
  PROVE  Links(f) \in Nat /\ Links(f) >= 3
<1> DEFINE S == {n \in DOMAIN names : names[n].ino = f.ino}
<1>1. S \in SUBSET DOMAIN names /\ a \in S /\ b \in S /\ c \in S
  OBVIOUS
<1>2. Links(f) = Cardinality(S)
  BY DEF Links
<1> HIDE DEF S
<1>3. IsFiniteSet(S)
  BY <1>1, FS_Subset DEF DirectoryOK
<1>4. IsFiniteSet(S \ {a}) /\ Cardinality(S \ {a}) = Cardinality(S) - 1
  BY <1>1, <1>3, FS_RemoveElement
<1> DEFINE T == S \ {a}
<1>5. b \in T /\ c \in T
  BY <1>1
<1>6. IsFiniteSet(T) /\ Cardinality(T) = Cardinality(S) - 1
  BY <1>4
<1> HIDE DEF T
<1>7. IsFiniteSet(T \ {b}) /\ Cardinality(T \ {b}) = Cardinality(T) - 1
  BY <1>5, <1>6, FS_RemoveElement
<1> DEFINE U == T \ {b}
<1>8. c \in U /\ IsFiniteSet(U) /\ Cardinality(U) = Cardinality(T) - 1
  BY <1>5, <1>7
<1> HIDE DEF U
<1>9. Cardinality(U \ {c}) = Cardinality(U) - 1 /\ IsFiniteSet(U \ {c})
  BY <1>8, FS_RemoveElement
<1>10. Cardinality(S) \in Nat /\ Cardinality(T) \in Nat /\ Cardinality(U) \in Nat /\ Cardinality(U \ {c}) \in Nat
  BY <1>3, <1>6, <1>8, <1>9, FS_CardinalityType
<1> QED  BY <1>2, <1>6, <1>8, <1>9, <1>10

\* Behind its guard the process looks again.  Two processes never verify the same lock: with
\* the guard of the other one the file of a dead process has a link too many.
LEMMA StillCurrentStep ==
  ASSUME LockInv, NEW p \in Slots, StillCurrent(p)
  PROVE  LockInv' /\ Keeps(p)
<1> DEFINE r == proc[p]
           u == r.un
           f == u.file
           same == /\ {u.guard, u.name} \subseteq DOMAIN names
                   /\ names[u.guard].ino = f.ino
                   /\ names[u.name].ino = f.ino
                   /\ Links(f) = u.links + 1
           x == IF same THEN "trust" ELSE "unguard"
<1>1. /\ r.pc = "stillCurrent" /\ names' = names /\ retained' = retained /\ life' = life /\ faults' = faults
      /\ Become(p, [r EXCEPT !.pc = x])
  BY DEF StillCurrent
<1>2. Sane(p, r) /\ r \in Procs /\ r.pc \in UnlinkSteps /\ r.pc \in GuardedSteps /\ DirectoryOK
  BY <1>1, Before DEF UnlinkSteps, GuardedSteps
<1>3. /\ u \in Unlinks /\ u # None /\ u.guard \in DOMAIN names /\ u.guard[1] = "guard" /\ u.guard[3] = Pid(p)
  BY <1>2, UnlinkOf
<1>4. u.links \in u.allowed /\ Target(p, u)
  BY <1>1, <1>2, <1>3 DEF Sane
<1>5. ASSUME same, u.name = Canonical("lock"), names[u.guard] = f
      PROVE  At("lock") = f /\ \A q \in Slots \ {p} : ~ Committed(q)
  <2>1. names[u.name] = f /\ u.name \in DOMAIN names
    BY <1>2, <1>5 DEF DirectoryOK
  <2>2. At("lock") = f
    BY <1>5, <2>1 DEF At
  <2>3. f \in Files
    BY <1>2, <2>1 DEF DirectoryOK
  <2> SUFFICES ASSUME NEW q \in Slots \ {p}, Committed(q) PROVE FALSE
    BY <2>2
  <2> DEFINE w == proc[q].un
  <2>4. /\ w.guard \in DOMAIN names /\ w.guard[3] = Pid(q) /\ w.guard \in GuardNames /\ w.file = f
        /\ f.pid = Pid(q) \/ Gone(f.pid)
    BY <2>2, CommittedFile
  <2>5. names[w.guard] = f
    BY <2>4 DEF Committed
  <2>6. Pid(p) # Pid(q) /\ ~ Gone(Pid(p))
    BY PidsDiffer
  <2>7. w.guard[1] = "guard" /\ Canonical("lock")[1] = "canonical"
    BY <2>4, NameKinds, CanonicalNames DEF Names, Paths
  <2>8. w.guard # u.guard /\ w.guard # u.name /\ u.guard # u.name
    BY <1>3, <1>5, <2>4, <2>6, <2>7
  <2>9. Links(f) \in Nat /\ Links(f) >= 3
    <3> HIDE DEF f, u, w
    <3> QED  BY <1>2, <1>3, <1>5, <2>1, <2>4, <2>5, <2>8, ThreeLinks
  <2>10. u.allowed # {1}
    <3>1. Links(f) = u.links + 1
      BY <1>5
    <3>2. u.links \in Nat
      BY <1>3 DEF Unlinks
    <3>3. u.links # 1
      BY <2>9, <3>1, <3>2
    <3> QED  BY <1>4, <3>3
  <2>11. f # None
    BY <2>3, LockAssumption
  <2>12. f.pid = Pid(p)
    BY <1>4, <1>5, <2>10, <2>11 DEF Target
  <2> QED  BY <2>4, <2>6, <2>12
<1>6. x \in Steps /\ x \in GuardedSteps /\ x # "stillCurrent" /\ x # "unlink" /\ (x = "trust" => same)
  BY DEF Steps, GuardedSteps
<1> HIDE DEF x
<1>7. Become(p, Go(r, x, u))
  BY <1>1, <1>2, <1>6, GoStep
<1> HIDE DEF same
<1> QED  BY <1>1, <1>2, <1>3, <1>4, <1>5, <1>6, <1>7, GuardedLook

\* The token is read through the guard.
LEMMA TrustStep ==
  ASSUME LockInv, NEW p \in Slots, Trust(p)
  PROVE  LockInv' /\ Keeps(p)
<1> DEFINE r == proc[p]
           u == r.un
           mine == names[u.guard] = u.file
<1>1. r.pc = "trust" /\ names' = names /\ retained' = retained /\ life' = life /\ faults' = faults
  BY DEF Trust
<1>2. PICK x \in {"unlink", "unguard"} : Become(p, [r EXCEPT !.pc = x]) /\ (x = "unlink" => mine)
  BY DEF Trust
<1>3. /\ Sane(p, r) /\ r \in Procs /\ Anchored(p) /\ r.pc \in UnlinkSteps /\ r.pc \in GuardedSteps
  BY <1>1, Before DEF UnlinkSteps, GuardedSteps
<1>4. u \in Unlinks
  BY <1>3, UnlinkOf
<1>5. u.links \in u.allowed
  BY <1>1, <1>3 DEF Sane
<1>6. ASSUME u.name = Canonical("lock"), mine
      PROVE  At("lock") = u.file /\ Committed(p)
  BY <1>1, <1>3, <1>6 DEF Committed, Anchored
<1>7. x \in Steps /\ x \in GuardedSteps /\ x # "stillCurrent"
  BY DEF Steps, GuardedSteps
<1>8. Become(p, Go(r, x, u))
  BY <1>2, <1>3, <1>7, GoStep
<1> QED  BY <1>1, <1>2, <1>3, <1>4, <1>5, <1>6, <1>7, <1>8, GuardedLook

\* The name is removed: the lock's when it was verified, else one of the process or of a dead one.
LEMMA UnlinkStep ==
  ASSUME LockInv, NEW p \in Slots, Unlink(p)
  PROVE  LockInv' /\ Keeps(p)
<1> DEFINE r == proc[p]
           u == r.un
           n == u.name
           c == Candidate(r.at, r.file[r.at])
<1>1. r.pc = "unlink" /\ names' = WithoutName(n) /\ retained' = retained /\ life' = life /\ faults' = faults
  BY DEF Unlink
<1>2. PICK x \in {"remaining", "unguard"} : Become(p, [r EXCEPT !.pc = x])
  BY DEF Unlink
<1>3. /\ Sane(p, r) /\ r \in Procs /\ Anchored(p) /\ r.pc \in UnlinkSteps /\ r.pc \in GuardedSteps /\ DirectoryOK
  BY <1>1, Before DEF UnlinkSteps, GuardedSteps
<1>4. /\ u \in Unlinks /\ u # None /\ n \in BaseNames /\ n \in Names /\ u.guard \in DOMAIN names /\ u.guard[1] = "guard"
      /\ u.guard # None
      /\ n[1] # "canonical" => n[3] = Pid(p) \/ Gone(n[3])
      /\ u.ok = "relink" => c \in DOMAIN names /\ names[c] = r.file[r.at] /\ c[1] = "candidate" /\ n = Canonical("election")
  BY <1>3, UnlinkOf
<1>5. x \in Steps /\ x \in GuardedSteps /\ x \in UnlinkSteps /\ x \notin {"guard", "stillCurrent", "trust", "unlink"}
  BY DEF Steps, GuardedSteps, UnlinkSteps
<1> DEFINE s == Go(r, x, u)
<1>6. Become(p, s)
  BY <1>2, <1>3, <1>5, GoStep
<1>7. Sane(p, s) /\ s.pc = x /\ s.un = u /\ s.at = r.at /\ s.file = r.file
  BY <1>3, <1>4, <1>5, SaneUnlink
<1> HIDE DEF s
<1>8. /\ DirectoryOK' /\ DOMAIN names' = DOMAIN names \ {n}
      /\ \A m \in DOMAIN names : m # n => names'[m] = names[m]
  BY <1>1, <1>3, RemoveName
<1>9. proc'[p] # r
  <2>1. proc'[p] = s
    BY <1>6 DEF Become, LockInv
  <2> QED  BY <1>1, <1>5, <1>7, <2>1
<1>10. Keeps(p)
  <2>1. CASE n = Canonical("lock")
    <3>1. Committed(p)
      BY <1>1, <1>3, <2>1 DEF Anchored, Committed
    <3>2. n[1] = "canonical"
      BY <2>1, CanonicalNames DEF Paths
    <3>3. \A m \in DOMAIN names : m[1] # "canonical" => m # n
      BY <3>2
    <3> QED  BY <1>8, <1>9, <3>1, <3>3 DEF Keeps
  <2>2. CASE n = Canonical("election")
    <3>1. n # Canonical("lock") /\ n[1] = "canonical"
      BY <2>2, CanonicalNames DEF Paths, Canonical
    <3>2. At("lock")' = At("lock")
      BY <1>8, <3>1 DEF At, Canonical
    <3>3. \A m \in DOMAIN names : m[1] # "canonical" => m # n
      BY <3>1
    <3> QED  BY <1>8, <3>2, <3>3 DEF Keeps
  <2>3. CASE n[1] # "canonical"
    <3>1. n[3] = Pid(p) \/ Gone(n[3])
      BY <1>4, <2>3
    <3> HIDE DEF n
    <3> QED  BY <1>1, <2>3, <3>1, RemovalKeeps
  <2> QED  BY <1>4, <2>1, <2>2, <2>3, NameKinds
<1>11. u.guard # n
  <2>1. n[1] # "guard"
    BY <1>4, NameKinds
  <2> QED  BY <1>4, <2>1
<1>12. s.un.guard \in DOMAIN names'
  BY <1>4, <1>7, <1>8, <1>11
<1>13. u.ok = "relink" => c \in DOMAIN names' /\ names'[c] = r.file[r.at]
  <2> SUFFICES ASSUME u.ok = "relink" PROVE c \in DOMAIN names' /\ names'[c] = r.file[r.at]
    OBVIOUS
  <2>1. n[1] = "canonical"
    BY <1>4, CanonicalNames DEF Paths
  <2>2. c # n /\ c \in DOMAIN names /\ names[c] = r.file[r.at]
    BY <1>4, <2>1
  <2> HIDE DEF c, n
  <2> QED  BY <1>8, <2>2
<1>14. s.un.ok = "relink" =>
           /\ Candidate(s.at, s.file[s.at]) \in DOMAIN names'
           /\ names'[Candidate(s.at, s.file[s.at])] = s.file[s.at]
  BY <1>7, <1>13
<1> QED  BY <1>1, <1>5, <1>6, <1>7, <1>8, <1>10, <1>12, <1>14, GuardedStep

\* What is left is looked at through the guard.
LEMMA RemainingStep ==
  ASSUME LockInv, NEW p \in Slots, Remaining(p)
  PROVE  LockInv' /\ Keeps(p)
<1> DEFINE r == proc[p]
           u == r.un
           rem == u.guard \in DOMAIN names /\ names[u.guard] = u.file /\ Links(u.file) = u.links
           v == [u EXCEPT !.removed = rem]
<1>1. /\ r.pc = "remaining" /\ names' = names /\ retained' = retained /\ life' = life /\ faults' = faults
      /\ Become(p, [r EXCEPT !.pc = "unguard", !.un.removed = rem])
  BY DEF Remaining
<1>2. r \in Procs /\ r.pc \in UnlinkSteps /\ r.pc \in GuardedSteps
  BY <1>1, Before DEF UnlinkSteps, GuardedSteps
<1>3. u \in Unlinks
  BY <1>2, UnlinkOf
<1>4. rem \in BOOLEAN
  OBVIOUS
<1> HIDE DEF rem
<1>5. Become(p, Go(r, "unguard", v))
  BY <1>1, <1>2 DEF Go, Procs
<1>6. /\ v \in Unlinks /\ v.name = u.name /\ v.file = u.file /\ v.allowed = u.allowed /\ v.ok = u.ok
      /\ v.bad = u.bad /\ v.guard = u.guard
  BY <1>3, <1>4 DEF Unlinks
<1> HIDE DEF v
<1>7. "unguard" \in GuardedSteps
  BY DEF GuardedSteps
<1> QED  BY <1>1, <1>2, <1>5, <1>6, <1>7, GuardedLook

\* The guard is removed, or stays when that fails; the call goes on.
LEMMA UnguardStep ==
  ASSUME LockInv, NEW p \in Slots, Unguard(p)
  PROVE  LockInv' /\ Keeps(p)
<1> DEFINE r == proc[p]
           u == r.un
           c == Candidate(r.at, r.file[r.at])
<1>1. /\ r.pc = "unguard" /\ retained' = retained /\ life' = life
      /\ \/ /\ names' = WithoutName(u.guard)
            /\ \E ok \in Synced(u.removed) :
                 CountFault(u.removed, ok) /\ Become(p, Enter(r, IF ok THEN u.ok ELSE u.bad))
         \/ /\ faults < MaxFaults /\ faults' = faults + 1
            /\ Become(p, Enter(r, u.bad)) /\ names' = names
  BY DEF Unguard
<1>2. Sane(p, r) /\ r \in Procs /\ r.pc \in UnlinkSteps /\ r.pc \in GuardedSteps /\ DirectoryOK /\ faults \in 0 .. MaxFaults
  BY <1>1, Before DEF UnlinkSteps, GuardedSteps
<1>3. /\ u \in Unlinks /\ u.guard \in DOMAIN names /\ u.guard[1] = "guard" /\ u.guard[3] = Pid(p)
      /\ u.ok = "relink" => c \in DOMAIN names /\ names[c] = r.file[r.at] /\ c[1] = "candidate"
  BY <1>2, UnlinkOf
<1>4. /\ Sane(p, Enter(r, u.bad)) /\ Unanchored(Enter(r, u.bad))
      /\ Sane(p, Enter(r, u.ok)) /\ (u.ok # "relink" => Unanchored(Enter(r, u.ok)))
      /\ u.ok = "relink" => Enter(r, u.ok) = Go(r, "relink", None)
  BY <1>2, SaneReturn
<1>5. ASSUME names' = WithoutName(u.guard), NEW ok \in Synced(u.removed), CountFault(u.removed, ok),
             Become(p, Enter(r, IF ok THEN u.ok ELSE u.bad))
      PROVE  LockInv' /\ Keeps(p)
  <2>1. u.removed \in BOOLEAN
    BY <1>3 DEF Unlinks
  <2>2. faults' \in 0 .. MaxFaults /\ ok \in BOOLEAN
    BY <1>5, <2>1, FaultsCounted
  <2> DEFINE g == u.guard
  <2>3. DirectoryOK' /\ Keeps(p)
    <3>1. g[1] # "canonical" /\ g[3] = Pid(p) /\ names' = WithoutName(g)
      BY <1>3, <1>5
    <3> HIDE DEF g
    <3> QED  BY <1>1, <3>1, RemovalKeeps
  <2>4. CASE ok /\ u.ok = "relink"
    <3> DEFINE s == Go(r, "relink", None)
    <3>1. Become(p, s) /\ Sane(p, s)
      BY <1>4, <1>5, <2>4
    <3>2. s.pc = "relink" /\ s.at = r.at /\ s.file = r.file
      <4>1. "relink" \in Steps
        BY DEF Steps
      <4> QED  BY <1>2, <4>1, Moved
    <3> HIDE DEF s
    <3>3. c \in DOMAIN names' /\ names'[c] = r.file[r.at]
      <4>1. c # g /\ c \in DOMAIN names /\ names[c] = r.file[r.at]
        BY <1>3, <2>4
      <4>2. DOMAIN names' = DOMAIN names \ {g} /\ \A m \in DOMAIN names : m # g => names'[m] = names[m]
        BY <1>1, <1>2, <1>5, RemoveName
      <4> HIDE DEF c, g
      <4> QED  BY <4>1, <4>2
    <3>4. s.pc \notin GuardedSteps \cup {"held"}
      BY <3>2 DEF GuardedSteps
    <3> QED  BY <1>1, <2>2, <2>3, <3>1, <3>2, <3>3, <3>4, LinkableStep
  <2>5. CASE ok /\ u.ok # "relink"
    <3>1. Become(p, Enter(r, u.ok)) /\ Sane(p, Enter(r, u.ok)) /\ Unanchored(Enter(r, u.ok))
      BY <1>4, <1>5, <2>5
    <3> QED  BY <1>1, <2>2, <2>3, <3>1, FreeStep
  <2>6. CASE ~ ok
    <3>1. Become(p, Enter(r, u.bad))
      BY <1>5, <2>6
    <3> QED  BY <1>1, <1>4, <2>2, <2>3, <3>1, FreeStep
  <2> QED  BY <2>2, <2>4, <2>5, <2>6
<1>6. ASSUME faults < MaxFaults, faults' = faults + 1, Become(p, Enter(r, u.bad)), names' = names
      PROVE  LockInv' /\ Keeps(p)
  <2>1. faults' \in 0 .. MaxFaults
    BY <1>2, <1>6, LockAssumption
  <2> QED  BY <1>1, <1>4, <1>6, <2>1, QuietMove
<1> QED  BY <1>1, <1>5, <1>6

(***************************************************************************)
(* A process dies.                                                         *)
(***************************************************************************)
\* Its pid is gone from then on; the others keep theirs.
LEMMA CrashStep ==
  ASSUME LockInv, NEW p \in Slots, Crash(p)
  PROVE  LockInv' /\ At("lock")' = At("lock")
<1>1. /\ life' = [life EXCEPT ![p] = @ + 1] /\ proc' = [proc EXCEPT ![p] = Outside]
      /\ retained' = [retained EXCEPT ![p] = None] /\ names' = names /\ faults' = faults
  BY DEF Crash, Become
<1>2. /\ life \in [Slots -> Nat] /\ proc \in [Slots -> Procs] /\ retained \in [Slots -> Files \cup {None}]
      /\ DirectoryOK /\ faults \in 0 .. MaxFaults
  BY DEF LockInv
<1>3. life' \in [Slots -> Nat] /\ \A q \in Slots : life'[q] >= life[q] /\ (q # p => life'[q] = life[q])
  BY <1>1, <1>2
<1>4. Outside \in Procs
  BY SaneOutside DEF Sane
<1>5. /\ proc' \in [Slots -> Procs] /\ proc'[p] = Outside /\ \A q \in Slots : q # p => proc'[q] = proc[q]
      /\ retained' \in [Slots -> Files \cup {None}] /\ retained'[p] = None
      /\ \A q \in Slots : q # p => retained'[q] = retained[q]
  BY <1>1, <1>2, <1>4
<1>6. \A pid \in Pids : (Known(pid) => pid[2] <= life'[pid[1]]) /\ (Gone(pid) => pid[2] < life'[pid[1]])
  <2> TAKE pid \in Pids
  <2>1. pid[1] \in Slots /\ pid[2] \in Nat
    BY DEF Pids
  <2>2. life[pid[1]] \in Nat /\ life'[pid[1]] \in Nat /\ life'[pid[1]] >= life[pid[1]]
    BY <1>2, <1>3, <2>1
  <2> QED  BY <2>1, <2>2 DEF Known, Gone
<1>7. \A q \in Slots : q # p => Pid(q)' = Pid(q)
  BY <1>3 DEF Pid
<1>8. DirectoryOK'
  <2>1. \A n \in DOMAIN names : names[n].pid \in Pids /\ (n[1] = "guard" => n[3] \in Pids)
    BY <1>2, NameKinds DEF DirectoryOK, Files
  <2>2. \A n \in DOMAIN names : /\ names[n].pid[2] <= life'[names[n].pid[1]]
                                /\ n[1] = "guard" => n[3][2] <= life'[n[3][1]]
    BY <1>2, <1>6, <2>1 DEF DirectoryOK
  <2> QED  BY <1>1, <1>2, <2>2 DEF DirectoryOK, Known
<1>9. ASSUME NEW q \in Slots, q # p PROVE Sane(q, proc[q])'
  <2> DEFINE r == proc[q]
  <2>1. Sane(q, r) /\ r \in Procs
    BY Before
  <2>2. r.stale # None => r.stale.pid \in Pids
    BY <2>1 DEF Procs, Files
  <2>3. ASSUME r.un # None PROVE Target(q, r.un)'
    <3> DEFINE u == r.un
    <3>1. u \in Unlinks /\ Target(q, u)
      BY <2>1, <2>3, Before DEF Sane
    <3>2. u.file # None => u.file.pid \in Pids
      BY <3>1 DEF Unlinks, Files
    <3>3. u.name[1] # "canonical" => u.name[3] \in Pids
      BY <3>1, NameKinds DEF Unlinks
    <3>4. r' = r
      BY <1>5, <1>9
    <3> QED  BY <1>6, <1>7, <1>9, <3>1, <3>2, <3>3, <3>4 DEF Target, Gone, Canonical
  <2>4. proc'[q] = r
    BY <1>5, <1>9
  <2>5. r.stale # None => r.stale.pid[2] < life'[r.stale.pid[1]]
    BY <1>6, <2>1, <2>2 DEF Sane
  <2>6. Pid(q)' = Pid(q)
    BY <1>7, <1>9
  <2> QED  BY <2>1, <2>3, <2>4, <2>5, <2>6 DEF Sane, Gone, Prepared, Canonical
<1>10. At("lock")' = At("lock")
  BY <1>1 DEF At, Canonical
<1>11. ASSUME NEW q \in Slots, q # p PROVE Anchored(q)' /\ (Committed(q)' <=> Committed(q))
  <2>1. Anchored(q) /\ proc'[q] = proc[q]
    BY <1>5, <1>11, Before
  <2> QED  BY <1>1, <1>10, <2>1 DEF Anchored, Committed, Linkable, Mine, Canonical
<1>12. Sane(p, proc[p])' /\ Anchored(p)' /\ ~ Committed(p)'
  <2>1. Unanchored(proc'[p])
    BY <1>5, SaneOutside
  <2>2. Anchored(p)' /\ ~ Committed(p)'
    BY <2>1, UnanchoredRests
  <2>3. /\ Outside.pc = "idle" /\ Outside.at = "lock" /\ Outside.file.lock = None /\ Outside.file.election = None
        /\ Outside.stale = None /\ Outside.un = None /\ Outside.rel = None
    BY DEF Outside, NoFiles
  <2>4. Sane(p, proc[p])'
    BY <1>4, <1>5, <2>3 DEF Sane, Prepared, UnlinkSteps, ReleaseSteps, FiledSteps, GuardedSteps
  <2> QED  BY <2>2, <2>4
<1>13. \A q \in Slots : retained'[q] # None => retained'[q].pid = Pid(q)'
  BY <1>5, <1>7 DEF LockInv
<1>14. \A q \in Slots : Sane(q, proc[q])' /\ Anchored(q)'
  BY <1>9, <1>11, <1>12
<1>15. \A q, o \in Slots : Committed(q)' /\ Committed(o)' => q = o
  BY <1>11, <1>12 DEF LockInv
<1>16. faults' \in 0 .. MaxFaults
  BY <1>1, <1>2
<1>17. LockInv'
  BY <1>3, <1>5, <1>8, <1>13, <1>14, <1>15, <1>16 DEF LockInv
<1> QED  BY <1>10, <1>17

(***************************************************************************)
(* The theorems.                                                           *)
(***************************************************************************)
\* What dead processes left in the directory is well formed, and theirs.
LEMMA LeftDirectory ==
  ASSUME Init
  PROVE  /\ life \in [Slots -> Nat] /\ faults \in 0 .. MaxFaults /\ DirectoryOK
         /\ \A n \in DOMAIN names :
              /\ Gone(names[n].pid)
              /\ n[1] = "guard" => n[3] = names[n].pid
              /\ n = Canonical("election") => \E q \in Slots : life[q] >= 2
<1>1. PICK past \in Leftovers, p \in Slots :
        /\ names = Directory(past.left, p)
        /\ life = [q \in Slots |-> IF q = p THEN past.deaths ELSE 0]
        /\ faults = past.faults
  BY DEF Init
<1> DEFINE left == past.left
           lock == [ino |-> 1, pid |-> <<p, 0>>, token |-> 1]
           election == [ino |-> 2, pid |-> <<p, 1>>, token |-> 2]
           name(x) == LeftName(x, lock, election)[1]
           entries == {LeftName(x, lock, election) : x \in left}
<1>2. /\ left \subseteq {"lock", "candidate", "guard", "election", "electionGuard"}
      /\ past.deaths \in Nat /\ past.faults \in 0 .. MaxFaults
      /\ left # {} => past.deaths >= 1
      /\ left \cap {"election", "electionGuard"} # {} => past.deaths >= 2
  BY LeftoverAssumption
<1>3. life \in [Slots -> Nat] /\ faults \in 0 .. MaxFaults /\ life[p] = past.deaths
  BY <1>1, <1>2
<1>4. lock \in Files /\ election \in Files
  BY LockAssumption DEF Files, Pids
<1>5. lock.pid = <<p, 0>> /\ election.pid = <<p, 1>> /\ lock.ino = 1 /\ election.ino = 2
  OBVIOUS
<1> HIDE DEF lock, election
<1>6. /\ LeftName("lock", lock, election) = <<Canonical("lock"), lock>>
      /\ LeftName("candidate", lock, election) = <<Candidate("lock", lock), lock>>
      /\ LeftName("guard", lock, election) = <<<<"guard", Canonical("lock"), <<p, 0>>, 0>>, lock>>
      /\ LeftName("election", lock, election) = <<Canonical("election"), election>>
      /\ LeftName("electionGuard", lock, election) = <<<<"guard", Canonical("election"), <<p, 1>>, 0>>, election>>
  BY <1>5 DEF LeftName
<1>7. names = [n \in {e[1] : e \in entries} |-> (CHOOSE e \in entries : e[1] = n)[2]]
  BY <1>1 DEF Directory, lock, election
<1>8. \A n \in DOMAIN names : \E x \in left : n = name(x) /\ names[n] = LeftName(x, lock, election)[2]
  <2> TAKE n \in DOMAIN names
  <2>1. \E e \in entries : e[1] = n
    BY <1>7
  <2> DEFINE e == CHOOSE e \in entries : e[1] = n
  <2>2. e \in entries /\ e[1] = n
    BY <2>1
  <2>3. names[n] = e[2]
    BY <1>7
  <2> QED  BY <2>2, <2>3
<1>9. IsFiniteSet(DOMAIN names)
  <2> DEFINE f == [x \in left |-> name(x)]
  <2>1. DOMAIN names = {f[x] : x \in left}
    BY <1>7
  <2>2. IsFiniteSet({"lock", "candidate", "guard", "election", "electionGuard"})
    <3>1. {"lock", "candidate", "guard", "election", "electionGuard"} =
            ((({"lock"} \cup {"candidate"}) \cup {"guard"}) \cup {"election"}) \cup {"electionGuard"}
      OBVIOUS
    <3>2. IsFiniteSet({"lock"} \cup {"candidate"})
      BY FS_Singleton, FS_Union
    <3>3. IsFiniteSet(({"lock"} \cup {"candidate"}) \cup {"guard"})
      BY <3>2, FS_Singleton, FS_Union
    <3>4. IsFiniteSet((({"lock"} \cup {"candidate"}) \cup {"guard"}) \cup {"election"})
      BY <3>3, FS_Singleton, FS_Union
    <3>5. IsFiniteSet(((({"lock"} \cup {"candidate"}) \cup {"guard"}) \cup {"election"}) \cup {"electionGuard"})
      BY <3>4, FS_Singleton, FS_Union
    <3> QED  BY <3>1, <3>5
  <2>3. IsFiniteSet(left)
    BY <1>2, <2>2, FS_Subset
  <2> HIDE DEF f, left
  <2> QED  BY <2>1, <2>3, FiniteValues
<1>10. "lock" \in Paths /\ "election" \in Paths /\ p \in Slots /\ <<p, 0>> \in Pids /\ <<p, 1>> \in Pids
  BY DEF Paths, Pids
<1>11. /\ Canonical("lock") \in BaseNames /\ Canonical("election") \in BaseNames
       /\ Canonical("lock")[1] = "canonical" /\ Canonical("election")[1] = "canonical"
  BY <1>10, CanonicalNames
<1>12. /\ <<"guard", Canonical("lock"), <<p, 0>>, 0>> \in GuardNames
       /\ <<"guard", Canonical("election"), <<p, 1>>, 0>> \in GuardNames
  BY <1>10, <1>11 DEF GuardNames
<1>13. /\ Candidate("lock", lock) \in BaseNames /\ Candidate("lock", lock)[1] = "candidate"
       /\ Candidate(Candidate("lock", lock)[2], lock) = Candidate("lock", lock)
  BY <1>4, <1>10, CandidateNames
<1>14. /\ Known(<<p, 0>>) /\ (left # {} => Known(<<p, 1>>) /\ Gone(<<p, 0>>))
       /\ left \cap {"election", "electionGuard"} # {} => Gone(<<p, 1>>) /\ life[p] >= 2
  BY <1>2, <1>3 DEF Known, Gone
<1>15. ASSUME NEW n \in DOMAIN names
       PROVE  /\ n \in Names /\ names[n] \in {lock, election} /\ Known(names[n].pid)
              /\ n[1] = "candidate" => n = Candidate(n[2], names[n])
              /\ n[1] = "guard" => Known(n[3])
              /\ Gone(names[n].pid)
              /\ n[1] = "guard" => n[3] = names[n].pid
              /\ n = Canonical("election") => life[p] >= 2
  <2>1. PICK x \in left : n = name(x) /\ names[n] = LeftName(x, lock, election)[2]
    BY <1>8
  <2>2. Known(<<p, 1>>) /\ Gone(<<p, 0>>) /\ Canonical("lock") # Canonical("election")
    BY <1>14, <2>1 DEF Canonical
  <2>3. CASE x = "lock"
    BY <1>5, <1>6, <1>11, <1>14, <2>1, <2>2, <2>3 DEF Names
  <2>4. CASE x = "candidate"
    BY <1>5, <1>6, <1>11, <1>13, <1>14, <2>1, <2>2, <2>4 DEF Names
  <2>5. CASE x = "guard"
    BY <1>5, <1>6, <1>11, <1>12, <1>14, <2>1, <2>2, <2>5 DEF Names
  <2>6. CASE x = "election"
    BY <1>5, <1>6, <1>11, <1>14, <2>1, <2>2, <2>6 DEF Names
  <2>7. CASE x = "electionGuard"
    BY <1>5, <1>6, <1>11, <1>12, <1>14, <2>1, <2>2, <2>7 DEF Names
  <2> QED  BY <1>2, <2>1, <2>3, <2>4, <2>5, <2>6, <2>7
<1>16. \A m, n \in DOMAIN names : names[m].ino = names[n].ino => names[m] = names[n]
  BY <1>5, <1>15
<1>17. DirectoryOK
  BY <1>4, <1>9, <1>15, <1>16 DEF DirectoryOK
<1>18. \A n \in DOMAIN names :
         /\ Gone(names[n].pid)
         /\ n[1] = "guard" => n[3] = names[n].pid
         /\ n = Canonical("election") => \E q \in Slots : life[q] >= 2
  BY <1>10, <1>15
<1> HIDE DEF left, lock, election, name, entries
<1> QED  BY <1>3, <1>17, <1>18

\* The invariant holds in the beginning.
LEMMA InitLock ==
  ASSUME Init
  PROVE  LockInv
<1>1. life \in [Slots -> Nat] /\ faults \in 0 .. MaxFaults /\ DirectoryOK
  BY LeftDirectory
<1>2. proc = [p \in Slots |-> Outside] /\ retained = [p \in Slots |-> None]
  BY DEF Init
<1>3. Outside.pc = "idle"
  BY DEF Outside
<1>4. \A p \in Slots : Sane(p, proc[p]) /\ Anchored(p) /\ ~ Committed(p)
  <2> TAKE p \in Slots
  <2>1. Sane(p, Outside) /\ Unanchored(Outside) /\ proc[p] = Outside
    BY <1>2, SaneOutside
  <2> QED  BY <1>3, <2>1 DEF Anchored, Committed, Unanchored
<1>5. proc \in [Slots -> Procs]
  BY <1>2, SaneOutside DEF Sane
<1> QED  BY <1>1, <1>2, <1>4, <1>5 DEF LockInv

\* A step of Run keeps it, and keeps what the others rely on.
LEMMA RunStep ==
  ASSUME LockInv, NEW p \in Slots, Run(p)
  PROVE  LockInv' /\ Keeps(p)
BY LookStep, CreateStep, PublishStep, RefusedStep, InspectStep, CollapseStep, DropCandidateStep, VerifyStep,
   SettledStep, RolledBackStep, RivalStep, RelinkStep, UnelectedStep, ConfirmStep, DropAliasStep,
   ReclaimableStep, PinStep, LinkGuardStep, StillCurrentStep, TrustStep, UnlinkStep, RemainingStep,
   UnguardStep, ReleaseStep, ReleasedStep, UnreleasedStep
   DEF Run

\* So does every step.
LEMMA NextLock ==
  ASSUME LockInv, [Next]_vars
  PROVE  LockInv' /\ (At("lock")' = At("lock") \/ \E p \in Slots : Keeps(p))
<1>1. CASE UNCHANGED vars
  <2>1. names' = names /\ proc' = proc /\ retained' = retained /\ life' = life /\ faults' = faults
    BY <1>1 DEF vars
  <2>2. \A p \in Slots : Sane(p, proc[p])' /\ Anchored(p)' /\ (Committed(p)' <=> Committed(p)) /\ Pid(p)' = Pid(p)
    <3> TAKE p \in Slots
    <3>1. Pid(p)' = Pid(p)
      BY <2>1 DEF Pid
    <3>2. Committed(p)' <=> Committed(p)
      BY <2>1 DEF Committed, Canonical
    <3>3. Sane(p, proc[p]) => Sane(p, proc[p])'
      BY <2>1, SMTT(60) DEF Sane, Target, Prepared, Pid, Gone, Canonical
    <3>4. Anchored(p) => Anchored(p)'
      BY <2>1, <3>2 DEF Anchored, Linkable, Mine, At, Candidate, Canonical
    <3> QED  BY <3>1, <3>2, <3>3, <3>4 DEF LockInv
  <2>3. DirectoryOK' /\ At("lock")' = At("lock")
    BY <2>1, SameNames DEF LockInv
  <2> QED  BY <2>1, <2>2, <2>3 DEF LockInv
<1>2. CASE Next
  <2>1. PICK p \in Slots : Acquire(p) \/ Expire(p) \/ Run(p) \/ HolderReleases(p) \/ Crash(p)
    BY <1>2 DEF Next
  <2> QED  BY <2>1, AcquireStep, ExpireStep, RunStep, HolderReleasesStep, CrashStep
<1> QED  BY <1>1, <1>2

\* The guards of safelyUnlink, the candidates and the canonical name stay what the processes
\* that go on from them take them for, whoever dies and whatever fails.
THEOREM LockInvariant == Spec => []LockInv
<1>1. Init => LockInv
  BY InitLock
<1>2. LockInv /\ [Next]_vars => LockInv'
  BY NextLock
<1> QED  BY <1>1, <1>2, PTL DEF Spec

\* The directory is well formed: a candidate bears the name its content gives it, and what a
\* process retains for release is its own file.
THEOREM TypeCorrect == Spec => []TypeOK
<1>1. LockInv => TypeOK
  BY DEF LockInv, DirectoryOK, TypeOK, Range
<1> QED  BY <1>1, LockInvariant, PTL

\* Whoever acquireLocalStoreLock told that it owns the store has its file under the canonical
\* name until it starts to release it.
THEOREM HoldersInstalled == Spec => []HolderInstalled
<1>1. LockInv => HolderInstalled
  BY DEF LockInv, Anchored, HolderInstalled
<1> QED  BY <1>1, LockInvariant, PTL

\* Two processes never own the store at the same time.
OneHolder == \A p, q \in Slots : proc[p].pc = "held" /\ proc[q].pc = "held" => p = q

\* The canonical name holds one pid.
LEMMA InvOneHolder == LockInv => OneHolder
<1> SUFFICES ASSUME LockInv, NEW p \in Slots, NEW q \in Slots, proc[p].pc = "held", proc[q].pc = "held"
             PROVE  p = q
  BY DEF OneHolder
<1>1. /\ At("lock") = proc[p].file.lock /\ proc[p].file.lock.pid = Pid(p)
      /\ At("lock") = proc[q].file.lock /\ proc[q].file.lock.pid = Pid(q)
  BY Before DEF Anchored, Sane
<1> QED  BY <1>1, PidsDiffer

\* Mutual exclusion: the one canonical name holds the pid of the one owner.
THEOREM MutualExclusion == Spec => []OneHolder
BY InvOneHolder, LockInvariant, PTL

\* No contender takes away the lock of a live process: only the owner's own step changes what
\* the canonical name leads to.
THEOREM LiveLocksKept == Spec => LiveLockKept
<1> DEFINE Kept == \A p \in Slots :
             (At("lock") # None /\ At("lock").pid = Pid(p) /\ At("lock")' # At("lock")) => proc'[p] # proc[p]
<1>1. LockInv /\ [Next]_vars => Kept
  <2> SUFFICES ASSUME LockInv, [Next]_vars, NEW p \in Slots,
                      At("lock") # None, At("lock").pid = Pid(p), At("lock")' # At("lock")
               PROVE  proc'[p] # proc[p]
    OBVIOUS
  <2>1. PICK q \in Slots : Keeps(q)
    BY NextLock
  <2>2. Committed(q) /\ proc'[q] # proc[q]
    BY <2>1 DEF Keeps
  <2>3. At("lock").pid = Pid(q) \/ Gone(At("lock").pid)
    BY <2>2, CommittedFile
  <2>4. p = q
    BY <2>3, PidsDiffer
  <2> QED  BY <2>2, <2>4
<1>2. LockInv /\ [Next]_vars => [Kept]_vars
  BY <1>1
<1> HIDE DEF Kept
<1>3. Spec => [][Kept]_vars
  BY <1>2, LockInvariant, PTL DEF Spec
<1> QED  BY <1>3 DEF Kept, LiveLockKept

(***************************************************************************)
(* The lock its callers see.                                               *)
(***************************************************************************)
\* A step of a call changes one process and no pid.
LEMMA OneProcess ==
  ASSUME NEW p \in Slots, Acquire(p) \/ Expire(p) \/ HolderReleases(p) \/ Run(p)
  PROVE  life' = life /\ \E s : Become(p, s)
<1>1. ASSUME Acquire(p) \/ Expire(p) \/ HolderReleases(p) \/ Look(p) \/ Create(p) \/ Publish(p) \/ Refused(p) \/ Inspect(p)
      PROVE  life' = life /\ \E s : Become(p, s)
  BY <1>1 DEF Acquire, Expire, HolderReleases, Look, Create, Publish, Refused, Inspect
<1>2. ASSUME Collapse(p) \/ DropCandidate(p) \/ Verify(p) \/ Settle(p) \/ Settled(p) \/ RolledBack(p) \/ Rival(p)
             \/ Relink(p) \/ Unelected(p)
      PROVE  life' = life /\ \E s : Become(p, s)
  BY <1>2 DEF Collapse, DropCandidate, Verify, Settle, Settled, RolledBack, Rival, Relink, Unelected
<1>3. ASSUME Confirm(p) \/ DropAlias(p) \/ Reclaimable(p) \/ Pin(p) \/ LinkGuard(p) \/ StillCurrent(p) \/ Trust(p)
             \/ Unlink(p) \/ Remaining(p)
      PROVE  life' = life /\ \E s : Become(p, s)
  BY <1>3 DEF Confirm, DropAlias, Reclaimable, Pin, LinkGuard, StillCurrent, Trust, Unlink, Remaining
<1>4. ASSUME Unguard(p) \/ Release(p) \/ Released(p) \/ Unreleased(p)
      PROVE  life' = life /\ \E s : Become(p, s)
  BY <1>4 DEF Unguard, Release, Released, Unreleased
<1> QED  BY <1>1, <1>2, <1>3, <1>4 DEF Run

\* It adds a name or removes one, if it touches the directory at all.
LEMMA OneName ==
  ASSUME LockInv, NEW p \in Slots, Run(p)
  PROVE  \/ names' = names
         \/ \E n : names' = WithoutName(n)
         \/ \E n, f : n # Canonical("lock") /\ names' = WithName(n, f)
         \/ Publish(p) /\ proc[p].at = "lock"
<1>1. ASSUME Look(p) \/ Inspect(p) \/ Collapse(p) \/ Verify(p) \/ Settle(p) \/ Settled(p) \/ RolledBack(p)
             \/ Rival(p) \/ Confirm(p) \/ Reclaimable(p) \/ Pin(p) \/ StillCurrent(p) \/ Trust(p) \/ Remaining(p)
             \/ Release(p) \/ Released(p) \/ Unreleased(p)
      PROVE  names' = names
  BY <1>1 DEF Look, Inspect, Collapse, Verify, Settle, Settled, RolledBack, Rival, Confirm, Reclaimable, Pin,
              StillCurrent, Trust, Remaining, Release, Released, Unreleased
<1>2. ASSUME Refused(p) \/ DropCandidate(p) \/ Unelected(p) \/ DropAlias(p) \/ Unlink(p) \/ Unguard(p)
      PROVE  names' = names \/ \E n : names' = WithoutName(n)
  BY <1>2 DEF Refused, DropCandidate, Unelected, DropAlias, Unlink, Unguard
<1>3. Canonical("lock")[1] = "canonical" /\ Canonical("lock") # Canonical("election")
  BY DEF Canonical
<1>4. ASSUME Create(p) PROVE \E n, f : n # Canonical("lock") /\ names' = WithName(n, f)
  BY <1>4 DEF Create, Canonical, Candidate
<1>5. ASSUME Relink(p) PROVE names' = names \/ \E n, f : n # Canonical("lock") /\ names' = WithName(n, f)
  BY <1>3, <1>5 DEF Relink
<1>6. ASSUME LinkGuard(p) PROVE names' = names \/ \E n, f : n # Canonical("lock") /\ names' = WithName(n, f)
  BY <1>6 DEF LinkGuard, Guard, Canonical
<1>7. ASSUME Publish(p), proc[p].at # "lock" PROVE \E n, f : n # Canonical("lock") /\ names' = WithName(n, f)
  BY <1>7 DEF Publish, Canonical
<1> QED  BY <1>1, <1>2, <1>4, <1>5, <1>6, <1>7 DEF Run

\* A name that is added elsewhere leaves the lock as it is; one that is removed leaves it or frees it.
LEMMA OtherName ==
  ASSUME NEW n, NEW f, NEW path
  PROVE  /\ n # Canonical(path) /\ names' = WithName(n, f) => At(path)' = At(path)
         /\ names' = WithoutName(n) => At(path)' \in {At(path), None}
         /\ n # Canonical(path) /\ names' = WithoutName(n) => At(path)' = At(path)
BY DEF At, Canonical, WithName, WithoutName, Restrict

\* What a step of a call does to the lock: nothing, or it installs the process's own, or it
\* frees the name of what the process has verified.
LEMMA LockEffect ==
  ASSUME LockInv, NEW p \in Slots, Run(p)
  PROVE  \/ At("lock")' = At("lock")
         \/ /\ At("lock") = None /\ At("lock")' # None /\ At("lock")'.pid = Pid(p)
            /\ proc[p].pc # "held" /\ proc'[p].pc # "held"
         \/ /\ At("lock") # None /\ At("lock")' = None /\ Committed(p)
            /\ proc[p].pc # "held" /\ proc'[p].pc # "held"
<1>1. ASSUME Publish(p), proc[p].at = "lock"
      PROVE  /\ At("lock") = None /\ At("lock")' # None /\ At("lock")'.pid = Pid(p)
             /\ proc[p].pc # "held" /\ proc'[p].pc # "held"
  <2> DEFINE r == proc[p]
             f == r.file[r.at]
             s == [SpendInstall(r) EXCEPT !.pc = "collapse"]
  <2>1. /\ r.pc = "link" /\ At("lock") = None /\ names' = WithName(Canonical("lock"), f) /\ Become(p, s)
    BY <1>1 DEF Publish
  <2>2. Sane(p, r) /\ r \in Procs /\ proc \in [Slots -> Procs]
    BY Before DEF LockInv
  <2>3. f # None /\ f \in Files \cup {None}
    BY <2>1, <2>2 DEF Sane, Prepared, FiledSteps, Procs, Paths
  <2>4. f.pid = Pid(p)
    BY <1>1, <2>2, <2>3 DEF Sane
  <2>5. At("lock")' = f
    <3> HIDE DEF f
    <3> QED  BY <2>1 DEF At, WithName, Canonical
  <2>6. proc'[p].pc = "collapse"
    <3>1. SpendInstall(r) \in Procs
      BY <2>2, SaneSpend DEF Sane
    <3>2. s.pc = "collapse"
      BY <3>1 DEF Procs
    <3> QED  BY <2>1, <2>2, <3>2 DEF Become
  <2> QED  BY <2>1, <2>3, <2>4, <2>5, <2>6
<1>2. ASSUME At("lock")' # At("lock"), ~ (Publish(p) /\ proc[p].at = "lock")
      PROVE  At("lock") # None /\ At("lock")' = None /\ Committed(p)
  <2>1. At("lock")' # At("lock") => At("lock")' = None
    <3>1. names' = names => At("lock")' = At("lock")
      BY DEF At, Canonical
    <3> QED  BY <1>2, <3>1, OneName, OtherName
  <2>2. Keeps(p)
    BY RunStep
  <2> QED  BY <1>2, <2>1, <2>2 DEF Keeps
<1>3. ASSUME Committed(p) PROVE proc[p].pc # "held" /\ proc'[p].pc # "held"
  <2>1. proc[p].pc \in {"trust", "unlink"} /\ proc \in [Slots -> Procs] /\ proc[p] \in Procs
    BY <1>3, Before DEF Committed, LockInv
  <2>2. Trust(p) \/ Unlink(p)
    BY <2>1 DEF Run, Look, Create, Publish, Refused, Inspect, Collapse, DropCandidate, Verify, Settle, Settled,
       RolledBack, Rival, Relink, Unelected, Confirm, DropAlias, Reclaimable, Pin, LinkGuard, StillCurrent,
       Remaining, Unguard, Release, Released, Unreleased
  <2>3. \E x \in {"unlink", "unguard", "remaining"} : Become(p, [proc[p] EXCEPT !.pc = x])
    BY <2>2 DEF Trust, Unlink
  <2> QED  BY <2>1, <2>3 DEF Become, Procs
<1> QED  BY <1>1, <1>2, <1>3

\* Holder is the one process at "held".
HolderTold ==
  /\ \A p \in Slots : Holder = p <=> proc[p].pc = "held"
  /\ Holder = None <=> \A p \in Slots : proc[p].pc # "held"

\* There is no other.
LEMMA HolderIs == OneHolder => HolderTold
BY LockAssumption DEF OneHolder, Holder, HolderTold

\* The pid a lock is installed for is somebody's.
LEMMA OwnerIs ==
  ASSUME LockInv
  PROVE  /\ At("lock") = None => Owner = None
         /\ At("lock") # None => Owner = At("lock").pid /\ Owner \in Pids /\ Owner # None /\ Known(Owner)
<1>1. At("lock") # None => At("lock") \in Files /\ Known(At("lock").pid)
  BY DEF At, LockInv, DirectoryOK
<1> QED  BY <1>1, LockAssumption DEF Owner, Files

\* Every step is one of the abstract lock's, or none of its business.
LEMMA StepsOfStore ==
  ASSUME LockInv, [Next]_vars
  PROVE  [Store!Protocol]_<<Owner, Holder, life>>
<1>1. LockInv' /\ OneHolder /\ OneHolder'
  BY NextLock, InvOneHolder, PTL
<1>2. /\ \A p \in Slots : Holder = p <=> proc[p].pc = "held"
      /\ Holder = None <=> \A p \in Slots : proc[p].pc # "held"
  BY <1>1, HolderIs DEF HolderTold
<1>3. /\ \A p \in Slots : Holder' = p <=> proc'[p].pc = "held"
      /\ Holder' = None <=> \A p \in Slots : proc'[p].pc # "held"
  <2>1. HolderTold'
    BY <1>1, HolderIs, PTL
  <2> QED  BY <2>1 DEF HolderTold
<1>4. \A q \in Slots : Pid(q) = Store!Pid(q)
  BY DEF Pid, Store!Pid
<1>5. ASSUME NEW p \in Slots, Acquire(p) \/ Expire(p) \/ HolderReleases(p) \/ Run(p), At("lock")' = At("lock")
      PROVE  [Store!Protocol]_<<Owner, Holder, life>>
  <2>1. life' = life /\ \E s : Become(p, s)
    BY <1>5, OneProcess
  <2>2. Owner' = Owner
    BY <1>5 DEF Owner
  <2>3. \A q \in Slots : q # p => proc'[q] = proc[q]
    BY <2>1 DEF Become, LockInv
  <2>4. CASE proc[p].pc = "held" /\ proc'[p].pc # "held"
    <3>1. Holder = p /\ Holder' = None
      BY <1>2, <1>3, <2>3, <2>4
    <3>2. Store!GiveBack(p)
      BY <2>1, <2>2, <3>1 DEF Store!GiveBack
    <3> QED  BY <3>2 DEF Store!Protocol
  <2>5. CASE proc[p].pc # "held" /\ proc'[p].pc = "held"
    <3>1. Holder = None /\ Holder' = p
      BY <1>1, <1>2, <1>3, <2>3, <2>5 DEF OneHolder
    <3>2. Sane(p, proc[p])' /\ Anchored(p)'
      BY <1>1 DEF LockInv
    <3>3. At("lock")' = proc'[p].file.lock /\ proc'[p].file.lock # None /\ proc'[p].file.lock.pid = Pid(p)'
      BY <2>5, <3>2 DEF Sane, Anchored
    <3>4. Owner = Pid(p)
      BY <1>5, <2>1, <3>3 DEF Owner, Pid
    <3>5. Store!Grant(p)
      BY <1>4, <2>1, <2>2, <3>1, <3>4 DEF Store!Grant
    <3> QED  BY <3>5 DEF Store!Protocol
  <2>6. CASE proc[p].pc = "held" <=> proc'[p].pc = "held"
    <3>1. Holder' = Holder
      <4>1. \A q \in Slots : proc'[q].pc = "held" <=> proc[q].pc = "held"
        BY <2>3, <2>6
      <4> QED  BY <1>2, <1>3, <4>1
    <3> QED  BY <2>1, <2>2, <3>1
  <2> QED  BY <2>4, <2>5, <2>6
<1>6. ASSUME NEW p \in Slots, Run(p), At("lock")' # At("lock")
      PROVE  [Store!Protocol]_<<Owner, Holder, life>>
  <2>1. life' = life /\ \E s : Become(p, s)
    BY <1>6, OneProcess
  <2>2. proc[p].pc # "held" /\ proc'[p].pc # "held"
    BY <1>6, LockEffect
  <2>3. \A q \in Slots : q # p => proc'[q] = proc[q]
    BY <2>1 DEF Become, LockInv
  <2>4. Holder' = Holder /\ Holder # p
    <3>1. \A q \in Slots : proc'[q].pc = "held" <=> proc[q].pc = "held"
      BY <2>2, <2>3
    <3> QED  BY <1>2, <1>3, <2>2, <3>1
  <2>5. CASE At("lock") = None /\ At("lock")' # None /\ At("lock")'.pid = Pid(p)
    <3>1. Owner = None /\ Owner' = Pid(p)
      BY <2>5 DEF Owner
    <3>2. Store!Install(p)
      BY <1>4, <2>1, <2>4, <3>1 DEF Store!Install
    <3> QED  BY <3>2 DEF Store!Protocol
  <2>6. CASE At("lock") # None /\ At("lock")' = None /\ Committed(p)
    <3>1. Owner = At("lock").pid /\ Owner \in Pids /\ Owner # None /\ Owner' = None
      BY <2>6, OwnerIs DEF Owner
    <3>2. Owner = Pid(p) \/ Gone(Owner)
      BY <2>6, <3>1, CommittedFile
    <3>3. CASE Owner = Pid(p)
      <4>1. Store!Withdraw(p)
        BY <1>4, <2>1, <2>4, <3>1, <3>3 DEF Store!Withdraw
      <4> QED  BY <4>1 DEF Store!Protocol
    <3>4. CASE Gone(Owner)
      <4>1. ~ Store!Alive(Owner)
        BY <3>1, <3>4 DEF Gone, Store!Alive, Pids, LockInv
      <4>2. Store!Reclaim
        BY <2>1, <2>4, <3>1, <4>1 DEF Store!Reclaim
      <4> QED  BY <4>2 DEF Store!Protocol
    <3> QED  BY <3>2, <3>3, <3>4
  <2> QED  BY <1>6, <2>5, <2>6, LockEffect
<1>7. ASSUME NEW p \in Slots, Crash(p)
      PROVE  [Store!Protocol]_<<Owner, Holder, life>>
  <2>1. /\ life' = [life EXCEPT ![p] = @ + 1] /\ proc' = [proc EXCEPT ![p] = Outside] /\ At("lock")' = At("lock")
    BY <1>7, CrashStep DEF Crash, Become
  <2>2. Owner' = Owner
    BY <2>1 DEF Owner
  <2>3. proc'[p].pc # "held" /\ \A q \in Slots : q # p => proc'[q] = proc[q]
    BY <2>1 DEF Outside, LockInv
  <2>4. Holder' = IF Holder = p THEN None ELSE Holder
    <3>1. CASE Holder = p
      <4>1. \A q \in Slots : proc'[q].pc # "held"
        BY <1>1, <1>2, <2>3, <3>1 DEF OneHolder
      <4> QED  BY <1>3, <3>1, <4>1
    <3>2. CASE Holder # p
      <4>1. \A q \in Slots : proc'[q].pc = "held" <=> proc[q].pc = "held"
        BY <1>2, <2>3, <3>2
      <4> QED  BY <1>2, <1>3, <3>2, <4>1
    <3> QED  BY <3>1, <3>2
  <2>5. Store!Die(p)
    BY <2>1, <2>2, <2>4 DEF Store!Die
  <2> QED  BY <2>5 DEF Store!Protocol
<1>8. CASE UNCHANGED vars
  BY <1>8 DEF vars, Owner, Holder, At, Canonical
<1>9. CASE Next
  <2>1. PICK p \in Slots : Acquire(p) \/ Expire(p) \/ Run(p) \/ HolderReleases(p) \/ Crash(p)
    BY <1>9 DEF Next
  <2>2. ASSUME Acquire(p) \/ Expire(p) \/ HolderReleases(p) PROVE At("lock")' = At("lock")
    <3>1. names' = names
      BY <2>2 DEF Acquire, Expire, HolderReleases
    <3> QED  BY <3>1 DEF At, Canonical
  <2> QED  BY <1>5, <1>6, <1>7, <2>1, <2>2
<1> QED  BY <1>8, <1>9

\* At first nobody holds the lock, and the one that is installed is a dead process's.
LEMMA StartOfStore ==
  ASSUME Init
  PROVE  Store!Unheld
<1>1. LockInv
  BY InitLock
<1>2. proc = [p \in Slots |-> Outside] /\ Outside.pc = "idle"
  BY DEF Init, Outside
<1>3. Holder = None
  BY <1>2 DEF Holder
<1>4. At("lock") # None => Gone(At("lock").pid)
  BY LeftDirectory DEF At
<1>5. Owner # None => Owner \in Pids /\ Gone(Owner)
  BY <1>1, <1>4, OwnerIs
<1> QED  BY <1>1, <1>3, <1>5 DEF Store!Unheld, LockInv, Gone, Pids

\* The lock its callers see is the abstract one: installed for one process at a time, granted
\* to the one it is installed for, taken away by that process or after its death.
THEOREM ImplementsStoreLock == Spec => StoreExclusion
<1>1. Init => Store!Unheld
  BY StartOfStore
<1>2. LockInv /\ [Next]_vars => [Store!Protocol]_<<Owner, Holder, life>>
  BY StepsOfStore
<1> QED  BY <1>1, <1>2, LockInvariant, PTL DEF Spec, StoreExclusion, Store!Exclusion

(***************************************************************************)
(* While at most one process has died: nothing is left behind.             *)
(***************************************************************************)
\* The steps of an installation after the canonical name is linked, and those of safelyUnlink
\* before its name is gone.
InstalledSteps == {"collapse", "drop", "verify", "settle", "settleDrop", "settled"}
VerifiedSteps == {"pin", "guard", "stillCurrent", "trust", "unlink"}

NamesOf(f) == {n \in DOMAIN names : names[n] = f}
Sole == {Canonical("lock")}
SomeDeath == \E p \in Slots : life[p] >= 1

\* A call looks for the election with a stale lock in mind and at no other time; the call of
\* safelyUnlink and the release that it remembers are the ones it is in.
Staged(p, r) ==
  /\ r.stale # None <=> r.at = "election"
  /\ r.un # None => r.pc \in UnlinkSteps \cup {"alias"}
  /\ r.rel # None =>
       /\ r.rel.path = "lock" => r.at = "lock"
       /\ r.rel.file # None => r.rel.file.pid = Pid(p)
       /\ r.pc \in ReleaseSteps \/ (r.pc \in UnlinkSteps /\ r.un.ok = "released" /\ r.un.bad = "unreleased")

\* The process has won the election and not begun to give it back.
Elected(r) ==
  \/ r.at = "election" /\ r.pc \in InstalledSteps
  \/ r.pc \in {"confirm", "alias", "reclaimable"}
  \/ r.un # None /\ r.un.name = Canonical("lock") /\ r.stale # None

\* What process p has installed, and what it is going to unlink, is there.
Installs(p) ==
  LET r == proc[p]
  IN  /\ r.pc \in InstalledSteps => At(r.at) = Mine(p)
      /\ Elected(r) => At("election") = r.file.election /\ r.file.election # None
      /\ \A path \in Paths :
           r.pc \in VerifiedSteps /\ r.un.name = Canonical(path) =>
             /\ At(path) = r.un.file /\ r.un.file # None
             /\ r.un.file.pid = Pid(p) \/ (path = "lock" /\ Gone(r.un.file.pid) /\ r.stale # None)

\* The steps at which the lock of the process may be installed, with the names it has by then.
Owning(p) ==
  LET r == proc[p]
      f == At("lock")
  IN  \/ r.at = "lock" /\ r.pc \in {"collapse", "drop"} /\ NamesOf(f) = Sole \cup {Candidate("lock", f)}
      \/ r.at = "lock" /\ r.pc \in {"verify", "settle", "settled"} /\ NamesOf(f) = Sole
      \/ r.pc = "held" /\ NamesOf(f) = Sole
      \/ r.pc = "release" /\ r.rel.path = "lock" /\ f = r.rel.file /\ NamesOf(f) = Sole
      \/ /\ r.pc \in {"pin", "guard"} /\ r.un.name = Canonical("lock") /\ r.un.links \in {0, 1} /\ 1 \in r.un.allowed
         /\ NamesOf(f) = Sole
      \/ /\ r.pc \in {"stillCurrent", "trust", "unlink"} /\ r.un.name = Canonical("lock") /\ r.un.links = 1
         /\ NamesOf(f) = Sole \cup {r.un.guard}
OwningSteps == {"collapse", "drop", "verify", "settle", "settled", "held", "release"} \cup VerifiedSteps

\* A lock that is installed for process p is in its hands.
Owes(p) ==
  LET r == proc[p]
  IN  /\ At("lock") # None /\ At("lock").pid = Pid(p) => Owning(p)
      /\ r.pc = "link" /\ r.at = "lock" => NamesOf(r.file.lock) = {Candidate("lock", r.file.lock)}

Tidy ==
  /\ \A n \in DOMAIN names : n[1] = "guard" => names[n].pid = n[3] \/ Gone(names[n].pid)
  /\ At("election") # None => SomeDeath /\ ~ Gone(At("election").pid)
  /\ \A p \in Slots : Installs(p) /\ Owes(p)

TidyInv == (\A p \in Slots : Staged(p, proc[p])) /\ (OneDeath => Tidy)

\* A step of process p adds a name of its own, and guards with it its own file or a dead
\* process's; it takes away names of its own files and of those of the dead, the lock of a
\* dead process only when it is elected.
Careful(p) ==
  \/ names' = names
  \/ \E n \in Names, f \in Files :
       /\ names' = WithName(n, f)
       /\ n \in DOMAIN names => n[1] # "canonical" /\ (names[n].pid = Pid(p) \/ Gone(names[n].pid))
       /\ f.pid = Pid(p) \/ (Gone(f.pid) /\ n[1] = "guard")
       /\ n[1] = "guard" => n[3] = Pid(p)
       /\ n = Canonical("election") => SomeDeath
  \/ \E n :
       /\ names' = WithoutName(n)
       /\ n \in DOMAIN names =>
            names[n].pid = Pid(p) \/ (Gone(names[n].pid) /\ (n = Canonical("lock") => Elected(proc[p])))

\* The names of a file that is not its own and not a dead process's stay.
LEMMA CarefulNames ==
  ASSUME NEW p \in Slots, Careful(p), NEW f \in Files, f.pid # Pid(p), ~ Gone(f.pid)
  PROVE  NamesOf(f)' = NamesOf(f)
<1>1. CASE names' = names
  BY <1>1 DEF NamesOf
<1>2. ASSUME NEW n \in Names, NEW g \in Files, names' = WithName(n, g),
             n \in DOMAIN names => names[n].pid = Pid(p) \/ Gone(names[n].pid),
             g.pid = Pid(p) \/ Gone(g.pid)
      PROVE  NamesOf(f)' = NamesOf(f)
  <2>1. /\ DOMAIN names' = DOMAIN names \cup {n} /\ names'[n] = g
        /\ \A m \in DOMAIN names : m # n => names'[m] = names[m]
    BY <1>2 DEF WithName
  <2>2. g # f /\ (n \in DOMAIN names => names[n] # f)
    BY <1>2
  <2> QED  BY <2>1, <2>2 DEF NamesOf
<1>3. ASSUME NEW n, names' = WithoutName(n), n \in DOMAIN names => names[n].pid = Pid(p) \/ Gone(names[n].pid)
      PROVE  NamesOf(f)' = NamesOf(f)
  <2>1. /\ DOMAIN names' = DOMAIN names \ {n}
        /\ \A m \in DOMAIN names : m # n => names'[m] = names[m]
    BY <1>3 DEF WithoutName, Restrict
  <2>2. n \in DOMAIN names => names[n] # f
    BY <1>3
  <2> QED  BY <2>1, <2>2 DEF NamesOf
<1> QED  BY <1>1, <1>2, <1>3 DEF Careful

\* What a canonical name leads to is a file with that name.
LEMMA AtNames ==
  ASSUME NEW f, f # None, NEW path
  PROVE  At(path) = f <=> Canonical(path) \in NamesOf(f)
BY DEF At, NamesOf

\* The same after the step.
LEMMA AtNamesNext ==
  ASSUME NEW f, f # None, NEW path
  PROVE  At(path)' = f <=> Canonical(path) \in {n \in DOMAIN names' : names'[n] = f}
BY DEF At, Canonical

\* So the canonical names of such a file stay.
LEMMA CarefulAt ==
  ASSUME NEW p \in Slots, Careful(p), NEW f \in Files, f.pid # Pid(p), ~ Gone(f.pid), NEW path
  PROVE  At(path)' = f <=> At(path) = f
<1>1. f # None
  BY LockAssumption
<1>2. {n \in DOMAIN names' : names'[n] = f} = NamesOf(f)
  BY CarefulNames DEF NamesOf
<1> QED  BY <1>1, <1>2, AtNames, AtNamesNext

\* A process is elected alone.
LEMMA OneElected ==
  ASSUME LockInv, Tidy, NEW p \in Slots, NEW q \in Slots, Elected(proc[p]), Elected(proc[q])
  PROVE  p = q
<1>1. Installs(p) /\ Installs(q)
  BY DEF Tidy
<1>2. proc[p].file.election = proc[q].file.election /\ proc[p].file.election # None
  BY <1>1 DEF Installs
<1>3. proc[p].file.election.pid = Pid(p) /\ proc[q].file.election.pid = Pid(q)
  BY <1>2, Before DEF Sane
<1> QED  BY <1>2, <1>3, PidsDiffer

\* The lock of a dead process stays while another than p is elected.
LEMMA CarefulStale ==
  ASSUME LockInv, Tidy, NEW p \in Slots, Careful(p), NEW q \in Slots, q # p, Elected(proc[q]),
         NEW f \in Files, At("lock") = f, Gone(f.pid)
  PROVE  At("lock")' = f
<1> DEFINE c == Canonical("lock")
<1>1. c \in DOMAIN names /\ names[c] = f /\ c[1] = "canonical"
  BY LockAssumption, CanonicalNames DEF At, Paths
<1>2. ~ Elected(proc[p])
  BY OneElected
<1>3. f.pid # Pid(p)
  BY PidsDiffer
<1>4. ASSUME NEW n, NEW g, names' = WithName(n, g), n # c
      PROVE  c \in DOMAIN names' /\ names'[c] = f
  BY <1>1, <1>4 DEF WithName
<1>5. ASSUME NEW n, names' = WithoutName(n), n # c
      PROVE  c \in DOMAIN names' /\ names'[c] = f
  BY <1>1, <1>5 DEF WithoutName, Restrict
<1>6. c \in DOMAIN names' /\ names'[c] = f
  <2> HIDE DEF c
  <2> QED  BY <1>1, <1>2, <1>3, <1>4, <1>5 DEF Careful, c
<1> QED  BY <1>6 DEF At, Canonical

\* The others are as tidy as before.
LEMMA OthersTidy ==
  ASSUME LockInv, LockInv', Tidy, \A q \in Slots : Staged(q, proc[q]), NEW p \in Slots, Careful(p), life' = life,
         NEW q \in Slots, q # p, proc'[q] = proc[q]
  PROVE  Installs(q)' /\ Owes(q)'
<1> DEFINE r == proc[q]
<1>1. /\ Sane(q, r) /\ r \in Procs /\ DirectoryOK /\ Installs(q) /\ Owes(q)
      /\ r.at \in Paths
      /\ r.file[r.at] # None => r.file[r.at] \in Files /\ r.file[r.at].pid = Pid(q)
  BY Before DEF Tidy
<1>2. Pid(q) # Pid(p) /\ ~ Gone(Pid(q)) /\ Pid(q)' = Pid(q)
  BY PidsDiffer DEF Pid
<1>3. \A f \in Files : f.pid = Pid(q) =>
        /\ {n \in DOMAIN names' : names'[n] = f} = NamesOf(f)
        /\ \A path : At(path)' = f <=> At(path) = f
  BY <1>2, CarefulNames, CarefulAt DEF NamesOf
<1>4. ASSUME r.pc \in InstalledSteps PROVE At(r.at)' = Mine(q)
  <2>1. At(r.at) = r.file[r.at] /\ r.file[r.at] # None
    BY <1>1, <1>4 DEF Installs, Mine, Sane, Prepared, FiledSteps, InstalledSteps
  <2> QED  BY <1>1, <1>3, <2>1 DEF Mine
<1>5. ASSUME Elected(r) PROVE At("election")' = r.file.election /\ r.file.election # None
  <2>1. At("election") = r.file.election /\ r.file.election # None
    BY <1>1, <1>5 DEF Installs
  <2>2. r.file.election \in Files /\ r.file.election.pid = Pid(q)
    BY <1>1, <2>1 DEF Procs, Sane
  <2> QED  BY <1>3, <2>1, <2>2
<1>6. ASSUME NEW path \in Paths, r.pc \in VerifiedSteps, r.un.name = Canonical(path)
      PROVE  /\ At(path)' = r.un.file /\ r.un.file # None
             /\ r.un.file.pid = Pid(q) \/ (path = "lock" /\ Gone(r.un.file.pid) /\ r.stale # None)
  <2>1. /\ At(path) = r.un.file /\ r.un.file # None
        /\ r.un.file.pid = Pid(q) \/ (path = "lock" /\ Gone(r.un.file.pid) /\ r.stale # None)
    BY <1>1, <1>6 DEF Installs
  <2>2. r.un # None /\ r.un \in Unlinks
    BY <1>1, <1>6, Before DEF Sane, UnlinkSteps, VerifiedSteps
  <2>3. r.un.file \in Files
    BY <2>1, <2>2 DEF Unlinks
  <2>4. CASE r.un.file.pid = Pid(q)
    BY <1>3, <2>1, <2>3, <2>4
  <2>5. CASE path = "lock" /\ Gone(r.un.file.pid) /\ r.stale # None
    <3>1. Elected(r)
      BY <1>6, <2>2, <2>5 DEF Elected
    <3> QED  BY <2>1, <2>3, <2>5, <3>1, CarefulStale
  <2> QED  BY <2>1, <2>4, <2>5
<1>7. \A pid : Gone(pid)' <=> Gone(pid)
  BY DEF Gone
<1>8. Elected(proc[q])' <=> Elected(r)
  BY DEF Elected, Canonical
<1>9. Installs(q)'
  <2>1. r.un # None => \A path \in Paths : (r.un.name = Canonical(path))' <=> r.un.name = Canonical(path)
    BY DEF Canonical
  <2> QED  BY <1>2, <1>4, <1>5, <1>6, <1>7, <1>8 DEF Installs, Mine, Canonical
<1>10. ASSUME At("lock")' # None, At("lock")'.pid = Pid(q) PROVE Owning(q)'
  <2> DEFINE f == At("lock")'
  <2>1. f \in Files
    BY <1>10 DEF LockInv, DirectoryOK, At, Canonical
  <2>2. At("lock") = f /\ {n \in DOMAIN names' : names'[n] = f} = NamesOf(f) /\ f # None /\ f.pid = Pid(q)
    BY <1>3, <1>10, <2>1
  <2>3. Owning(q)
    BY <1>1, <2>2 DEF Owes
  <2>4. NamesOf(At("lock"))' = NamesOf(At("lock"))
    BY <2>2 DEF NamesOf
  <2>5. At("lock")' = At("lock")
    BY <2>2
  <2> QED  BY <2>3, <2>4, <2>5 DEF Owning, Sole, Canonical, Candidate
<1>11. ASSUME r.pc = "link", r.at = "lock"
       PROVE  {n \in DOMAIN names' : names'[n] = r.file.lock} = {Candidate("lock", r.file.lock)}
  <2>1. r.file.lock # None
    BY <1>1, <1>11 DEF Sane, Prepared, FiledSteps
  <2>2. r.file.lock \in Files /\ r.file.lock.pid = Pid(q)
    BY <1>1, <1>11, <2>1
  <2> QED  BY <1>1, <1>3, <1>11, <2>2 DEF Owes
<1>12. Owes(q)'
  BY <1>2, <1>10, <1>11 DEF Owes, NamesOf, Candidate
<1> QED  BY <1>9, <1>12

\* The directory is as tidy as before.
LEMMA DirectoryTidy ==
  ASSUME LockInv, LockInv', Tidy, NEW p \in Slots, Careful(p), life' = life
  PROVE  /\ \A n \in DOMAIN names' : n[1] = "guard" => names'[n].pid = n[3] \/ Gone(names'[n].pid)
         /\ At("election")' # None => SomeDeath /\ ~ Gone(At("election")'.pid)
<1> DEFINE c == Canonical("election")
<1>1. /\ \A n \in DOMAIN names : n[1] = "guard" => names[n].pid = n[3] \/ Gone(names[n].pid)
      /\ c \in DOMAIN names => SomeDeath /\ ~ Gone(names[c].pid)
  <2>1. c \in DOMAIN names => names[c] # None
    BY LockAssumption DEF LockInv, DirectoryOK
  <2> QED  BY <2>1 DEF Tidy, At
<1>2. c[1] = "canonical" /\ ~ Gone(Pid(p))
  BY PidsDiffer DEF Canonical
<1>3. At("election")' # None => c \in DOMAIN names' /\ At("election")' = names'[c]
  BY DEF At, Canonical
<1> HIDE DEF c
<1>4. CASE names' = names
  BY <1>1, <1>3, <1>4
<1>5. ASSUME NEW n \in Names, NEW f \in Files, names' = WithName(n, f),
             f.pid = Pid(p) \/ (Gone(f.pid) /\ n[1] = "guard"), n[1] = "guard" => n[3] = Pid(p),
             n = c => SomeDeath
      PROVE  /\ \A m \in DOMAIN names' : m[1] = "guard" => names'[m].pid = m[3] \/ Gone(names'[m].pid)
             /\ c \in DOMAIN names' => SomeDeath /\ ~ Gone(names'[c].pid)
  <2>1. /\ DOMAIN names' = DOMAIN names \cup {n} /\ names'[n] = f
        /\ \A m \in DOMAIN names : m # n => names'[m] = names[m]
    BY <1>5 DEF WithName
  <2>2. \A m \in DOMAIN names' : m # n => m \in DOMAIN names /\ names'[m] = names[m]
    BY <2>1
  <2> QED  BY <1>1, <1>2, <1>5, <2>1, <2>2
<1>6. ASSUME NEW n, names' = WithoutName(n)
      PROVE  /\ \A m \in DOMAIN names' : m[1] = "guard" => names'[m].pid = m[3] \/ Gone(names'[m].pid)
             /\ c \in DOMAIN names' => SomeDeath /\ ~ Gone(names'[c].pid)
  <2>1. \A m \in DOMAIN names' : m \in DOMAIN names /\ names'[m] = names[m]
    BY <1>6 DEF WithoutName, Restrict
  <2> QED  BY <1>1, <2>1
<1> QED  BY <1>3, <1>4, <1>5, <1>6 DEF Careful, c

\* A careful step keeps everything tidy when it leaves the process itself so.
LEMMA TidyStep ==
  ASSUME LockInv, LockInv', TidyInv, NEW p \in Slots, NEW s, Become(p, s), life' = life, Staged(p, s),
         Tidy => Careful(p) /\ Installs(p)' /\ Owes(p)'
  PROVE  TidyInv'
<1>1. proc'[p] = s /\ \A q \in Slots : q # p => proc'[q] = proc[q]
  BY DEF Become, LockInv
<1>2. \A q \in Slots : Pid(q)' = Pid(q)
  BY DEF Pid
<1>3. \A q \in Slots : Staged(q, proc[q])'
  <2> TAKE q \in Slots
  <2>1. Staged(q, proc'[q])
    BY <1>1 DEF TidyInv
  <2> QED  BY <1>2, <2>1 DEF Staged
<1>4. ASSUME OneDeath' PROVE Tidy'
  <2>1. Tidy
    BY <1>4 DEF OneDeath, TidyInv
  <2>2. \A q \in Slots : Staged(q, proc[q])
    BY DEF TidyInv
  <2>3. \A q \in Slots : Installs(q)' /\ Owes(q)'
    BY <1>1, <2>1, <2>2, OthersTidy
  <2>4. /\ \A n \in DOMAIN names' : n[1] = "guard" => names'[n].pid = n[3] \/ Gone(names'[n].pid)
        /\ At("election")' # None => SomeDeath /\ ~ Gone(At("election")'.pid)
    BY <2>1, DirectoryTidy
  <2> QED  BY <2>3, <2>4 DEF Tidy, SomeDeath, Gone
<1> QED  BY <1>3, <1>4 DEF TidyInv

\* A process that needs nothing of the directory, unless it has been elected before.
Loose(r, s) ==
  /\ s.pc \notin InstalledSteps \cup VerifiedSteps \cup {"link"}
  /\ Elected(s) => Elected(r) /\ s.file.election = r.file.election

\* A step to where it needs nothing, from where its lock is not installed or by removing it.
LEMMA TidyLoose ==
  ASSUME LockInv, LockInv', TidyInv, NEW p \in Slots, NEW s, Become(p, s), life' = life, Staged(p, s),
         Loose(proc[p], s), Tidy => Careful(p), At("lock")' \in {At("lock"), None},
         Elected(s) => At("election")' = At("election"),
         Tidy /\ Owning(p) /\ At("lock") # None /\ At("lock")' = At("lock") /\ At("lock").pid = Pid(p) => Owning(p)'
  PROVE  TidyInv'
<1>1. proc'[p] = s /\ Pid(p)' = Pid(p)
  BY DEF Become, LockInv, Pid
<1> SUFFICES ASSUME Tidy PROVE Installs(p)' /\ Owes(p)'
  BY TidyStep
<1>2. Installs(p) /\ Owes(p)
  BY DEF Tidy
<1>3. Installs(p)'
  <2>1. Elected(proc[p])' <=> Elected(s)
    BY <1>1 DEF Elected, Canonical
  <2>2. Elected(s) => At("election")' = s.file.election /\ s.file.election # None
    BY <1>2 DEF Loose, Installs
  <2> QED  BY <1>1, <2>1, <2>2 DEF Installs, Loose
<1>4. Owes(p)'
  <2>1. At("lock")' # None => At("lock")' = At("lock") /\ At("lock") # None
    OBVIOUS
  <2> QED  BY <1>1, <1>2, <2>1 DEF Owes, Loose
<1> QED  BY <1>3, <1>4

\* The same when no name changes.
LEMMA TidyQuiet ==
  ASSUME LockInv, LockInv', TidyInv, NEW p \in Slots, NEW s, Become(p, s), life' = life, names' = names,
         Staged(p, s), Loose(proc[p], s),
         Tidy /\ Owning(p) /\ At("lock") # None /\ At("lock").pid = Pid(p) => Owning(p)'
  PROVE  TidyInv'
<1>1. Careful(p) /\ \A path : At(path)' = At(path)
  BY DEF Careful, At, Canonical
<1> QED  BY <1>1, TidyLoose

\* Where the lock of a process cannot be installed.
LEMMA NotOwning ==
  ASSUME NEW p \in Slots, proc[p].pc \notin OwningSteps
  PROVE  ~ Owning(p)
BY DEF Owning, OwningSteps, VerifiedSteps

(***************************************************************************)
(* Where the calls return to.                                              *)
(***************************************************************************)
\* A process that needs nothing and is not elected.
Calm(s) == s.pc \notin InstalledSteps \cup VerifiedSteps \cup {"link"} /\ ~ Elected(s)

\* Whoever it was before.
LEMMA CalmLoose == \A r, s : Calm(s) => Loose(r, s)
BY DEF Calm, Loose

\* A process outside any call.
LEMMA StagedOutside ==
  ASSUME NEW p \in Slots, NEW k
  PROVE  /\ Staged(p, Outside) /\ Calm(Outside)
         /\ Staged(p, [Outside EXCEPT !.token = k])
<1>1. /\ Outside.pc = "idle" /\ Outside.at = "lock" /\ Outside.stale = None /\ Outside.un = None /\ Outside.rel = None
      /\ [Outside EXCEPT !.token = k].at = "lock" /\ [Outside EXCEPT !.token = k].stale = None
      /\ [Outside EXCEPT !.token = k].un = None /\ [Outside EXCEPT !.token = k].rel = None
  BY DEF Outside
<1> QED  BY <1>1 DEF Staged, Calm, Elected, InstalledSteps, VerifiedSteps

\* Back to the head of the loop, or out of it.
LEMMA StagedAgain ==
  ASSUME NEW p \in Slots, NEW r \in Procs
  PROVE  /\ Staged(p, Again(r)) /\ Calm(Again(r))
         /\ Staged(p, Retry(r)) /\ Calm(Retry(r))
         /\ Staged(p, Lost(r)) /\ Calm(Lost(r))
<1> DEFINE s == Again(r)
<1>1. s.pc = "look" /\ s.at = "lock" /\ s.stale = None /\ s.un = None /\ s.rel = None
  BY DEF Again, Procs
<1> HIDE DEF s
<1>2. Staged(p, s) /\ Calm(s)
  BY <1>1 DEF Staged, Calm, Elected, InstalledSteps, VerifiedSteps
<1>3. Staged(p, Retry(r)) /\ Calm(Retry(r))
  BY <1>2, StagedOutside DEF Retry, s
<1> QED  BY <1>2, <1>3, StagedOutside DEF Lost, s

\* Giving a lock back.
LEMMA StagedReleasing ==
  ASSUME NEW p \in Slots, NEW r \in Procs, Staged(p, r), NEW path, NEW f, NEW ok, NEW bad,
         path = "lock" => r.at = "lock", f # None => f.pid = Pid(p)
  PROVE  LET s == Releasing(r, path, f, ok, bad)
         IN  /\ Staged(p, s) /\ Calm(s)
             /\ s.pc = "release" /\ s.rel.path = path /\ s.rel.file = f
<1> DEFINE s == Releasing(r, path, f, ok, bad)
           q == [path |-> path, file |-> f, ok |-> ok, bad |-> bad]
<1>1. q.path = path /\ q.file = f
  OBVIOUS
<1>2. s.pc = "release" /\ s.un = None /\ s.rel = q /\ s.at = r.at /\ s.stale = r.stale
  BY DEF Releasing, Procs
<1> HIDE DEF s, q
<1>3. Staged(p, s)
  BY <1>1, <1>2 DEF Staged, ReleaseSteps
<1>4. Calm(s)
  BY <1>2 DEF Calm, Elected, InstalledSteps, VerifiedSteps
<1> QED  BY <1>1, <1>2, <1>3, <1>4 DEF s

\* Giving the election back.
LEMMA StagedAbandon ==
  ASSUME NEW p \in Slots, NEW r, Sane(p, r), Staged(p, r)
  PROVE  /\ Staged(p, Abandon(r)) /\ Calm(Abandon(r))
         /\ Staged(p, Reclaimed(r)) /\ Calm(Reclaimed(r))
<1>1. r \in Procs /\ (r.file.election # None => r.file.election.pid = Pid(p)) /\ "election" # "lock"
  BY DEF Sane
<1>2. Staged(p, Abandon(r)) /\ Calm(Abandon(r))
  BY <1>1, StagedReleasing DEF Abandon
<1> DEFINE s == [r EXCEPT !.available = @ \/ ~r.consumed]
<1>3. s \in Procs /\ s.pc = r.pc /\ s.at = r.at /\ s.stale = r.stale /\ s.un = r.un /\ s.rel = r.rel
  BY <1>1 DEF Procs
<1>4. Reclaimed(r) = Releasing(s, "election", r.file.election, "look", "look")
  BY DEF Reclaimed
<1> HIDE DEF s
<1>5. Staged(p, s)
  BY <1>3 DEF Staged
<1>6. Staged(p, Reclaimed(r)) /\ Calm(Reclaimed(r))
  BY <1>1, <1>3, <1>4, <1>5, StagedReleasing
<1> QED  BY <1>2, <1>6

\* Going to a step outside safelyUnlink.
LEMMA StagedGo ==
  ASSUME NEW p \in Slots, NEW r \in Procs, Staged(p, r), NEW x \in Steps, r.rel # None => x \in ReleaseSteps
  PROVE  LET s == Go(r, x, None)
         IN  /\ Staged(p, s) /\ s \in Procs
             /\ s.pc = x /\ s.un = None /\ s.rel = r.rel /\ s.at = r.at /\ s.file = r.file /\ s.stale = r.stale
             /\ x \notin InstalledSteps \cup VerifiedSteps \cup {"link", "confirm", "alias", "reclaimable"} => Calm(s)
<1> DEFINE s == Go(r, x, None)
<1>1. /\ s \in Procs
      /\ s.pc = x /\ s.un = None /\ s.rel = r.rel /\ s.at = r.at /\ s.file = r.file /\ s.stale = r.stale
  BY Moved
<1> HIDE DEF s
<1>2. Staged(p, s)
  BY <1>1 DEF Staged
<1>3. x \notin InstalledSteps \cup VerifiedSteps \cup {"link", "confirm", "alias", "reclaimable"} => Calm(s)
  BY <1>1 DEF Calm, Elected
<1> QED  BY <1>1, <1>2, <1>3 DEF s

\* The return from safelyUnlink or from a release.
LEMMA StagedEnter ==
  ASSUME NEW p \in Slots, NEW r, Sane(p, r), Staged(p, r), NEW x \in Returns \cup CallerReturns,
         r.rel # None => x \in {"released", "unreleased"} \cup CallerReturns
  PROVE  Staged(p, Enter(r, x)) /\ Calm(Enter(r, x))
<1>1. r \in Procs
  BY DEF Sane
<1>2. CASE x \in {"idle", "look", "lost", "abandon", "reclaimed"}
  <2>1. x = "idle" => Enter(r, x) = Outside
    BY DEF Enter
  <2>2. x = "look" => Enter(r, x) = Again(r)
    BY DEF Enter
  <2>3. x = "lost" => Enter(r, x) = Lost(r)
    BY DEF Enter
  <2>4. x = "abandon" => Enter(r, x) = Abandon(r)
    BY DEF Enter
  <2>5. x = "reclaimed" => Enter(r, x) = Reclaimed(r)
    BY DEF Enter
  <2> QED  BY <1>1, <1>2, <2>1, <2>2, <2>3, <2>4, <2>5, StagedOutside, StagedAgain, StagedAbandon
<1>3. CASE x \notin {"idle", "look", "lost", "abandon", "reclaimed"}
  <2>1. Enter(r, x) = Go(r, x, None)
    BY <1>3 DEF Enter, Go
  <2>2. /\ x \in Steps /\ (r.rel # None => x \in ReleaseSteps)
        /\ x \notin InstalledSteps \cup VerifiedSteps \cup {"link", "confirm", "alias", "reclaimable"}
    BY <1>3 DEF Steps, Returns, CallerReturns, ReleaseSteps, InstalledSteps, VerifiedSteps
  <2> QED  BY <1>1, <2>1, <2>2, StagedGo
<1> QED  BY <1>2, <1>3

\* The return from safelyUnlink.
LEMMA StagedReturn ==
  ASSUME LockInv, NEW p \in Slots, proc[p].pc \in UnlinkSteps, Staged(p, proc[p]), NEW x \in {proc[p].un.ok, proc[p].un.bad}
  PROVE  Staged(p, Enter(proc[p], x)) /\ Calm(Enter(proc[p], x))
<1>1. Sane(p, proc[p]) /\ x \in Returns
  BY Before, UnlinkOf
<1>2. proc[p].rel # None => x \in {"released", "unreleased"}
  BY DEF Staged, UnlinkSteps, ReleaseSteps
<1> QED  BY <1>1, <1>2, StagedEnter

\* Outside safelyUnlink and a release nothing is remembered of them.
LEMMA PlainOf ==
  ASSUME NEW p, NEW r, Staged(p, r), r.pc \notin UnlinkSteps \cup {"alias"} \cup ReleaseSteps
  PROVE  r.un = None /\ r.rel = None
BY DEF Staged

\* What safelyUnlink is called with; the release alone calls it with a lock in mind.
UnlinkCall(r, name, f, allowed, ok, bad) ==
  /\ name \in Names /\ f \in Files \cup {None} /\ allowed \in {{1}, {2}, {1, 2}}
  /\ ok \in Returns \cup {None} /\ bad \in Returns \cup {None}
  /\ r.rel # None => ok = "released" /\ bad = "unreleased"

\* A call of safelyUnlink.
LEMMA StagedUnlinking ==
  ASSUME NEW p \in Slots, NEW r \in Procs, Staged(p, r),
         NEW name, NEW f, NEW allowed, NEW ok, NEW bad, UnlinkCall(r, name, f, allowed, ok, bad)
  PROVE  LET s == Unlinking(r, name, f, allowed, ok, bad)
         IN  /\ Staged(p, s) /\ s \in Procs
             /\ s.pc = "pin" /\ s.at = r.at /\ s.file = r.file /\ s.stale = r.stale /\ s.rel = r.rel
             /\ s.un # None /\ s.un.name = name /\ s.un.file = f /\ s.un.allowed = allowed /\ s.un.links = 0
             /\ Elected(s) <=> name = Canonical("lock") /\ r.stale # None
<1> DEFINE s == Unlinking(r, name, f, allowed, ok, bad)
           u == [name |-> name, file |-> f, allowed |-> allowed, links |-> 0,
                 guard |-> None, removed |-> FALSE, ok |-> ok, bad |-> bad]
<1>1. /\ u \in Unlinks /\ u.name = name /\ u.file = f /\ u.allowed = allowed /\ u.links = 0
      /\ u.ok = ok /\ u.bad = bad
  BY DEF Unlinks, UnlinkCall
<1>2. u # None
  BY <1>1, LockAssumption
<1> HIDE DEF u
<1>3. s = Go(r, "pin", u) /\ "pin" \in Steps
  BY DEF Unlinking, Go, u, Steps
<1>4. /\ s \in Procs /\ s.pc = "pin" /\ s.un = u /\ s.at = r.at /\ s.file = r.file /\ s.stale = r.stale /\ s.rel = r.rel
  BY <1>1, <1>3, Moved
<1> HIDE DEF s
<1>5. Staged(p, s)
  BY <1>1, <1>4 DEF Staged, UnlinkSteps, UnlinkCall
<1>6. Elected(s) <=> name = Canonical("lock") /\ r.stale # None
  BY <1>1, <1>2, <1>4 DEF Elected, InstalledSteps
<1> QED  BY <1>1, <1>2, <1>4, <1>5, <1>6 DEF s

\* A process that keeps all that matters.
LEMMA TidySame ==
  ASSUME LockInv, LockInv', TidyInv, NEW p \in Slots, NEW s, Become(p, s), life' = life, names' = names,
         LET r == proc[p]
         IN  s.pc = r.pc /\ s.at = r.at /\ s.file = r.file /\ s.un = r.un /\ s.rel = r.rel /\ s.stale = r.stale
  PROVE  TidyInv'
<1> DEFINE r == proc[p]
<1>1. proc'[p] = s /\ Pid(p)' = Pid(p)
  BY DEF Become, LockInv, Pid
<1>2. Staged(p, s)
  BY DEF TidyInv, Staged
<1> SUFFICES ASSUME Tidy PROVE Careful(p) /\ Installs(p)' /\ Owes(p)'
  BY <1>2, TidyStep
<1>3. Installs(p) /\ Owes(p) /\ Careful(p)
  BY DEF Tidy, Careful
<1>4. \A path : At(path)' = At(path) /\ Canonical(path)' = Canonical(path)
  BY DEF At, Canonical
<1>5. Elected(proc[p])' <=> Elected(r)
  BY <1>1 DEF Elected, Canonical
<1>6. Installs(p)'
  BY <1>1, <1>3, <1>4, <1>5 DEF Installs, Mine, Gone
<1>7. Owning(p) => Owning(p)'
  BY <1>1, <1>4 DEF Owning, Sole, NamesOf, Candidate
<1>8. Owes(p)'
  BY <1>1, <1>3, <1>4, <1>7 DEF Owes, NamesOf, Candidate
<1> QED  BY <1>3, <1>6, <1>8

\* A new call.
LEMMA TidyAcquire ==
  ASSUME LockInv, LockInv', TidyInv, NEW p \in Slots, Acquire(p)
  PROVE  TidyInv'
<1> DEFINE k == FreshToken
           r == [Outside EXCEPT !.token = k]
           s == IF retained[p] = None THEN Again(r) ELSE Releasing(r, "lock", retained[p], "look", "idle")
<1>1. proc[p].pc = "idle" /\ Become(p, s) /\ names' = names /\ life' = life
  BY DEF Acquire
<1>2. Staged(p, r) /\ r.at = "lock"
  <2> HIDE DEF k
  <2> QED  BY StagedOutside DEF Outside
<1>3. r \in Procs
  <2>1. k \in Nat
    BY FreshTokens
  <2> HIDE DEF k
  <2> QED  BY <2>1, SaneOutside DEF Sane
<1>4. retained[p] # None => retained[p].pid = Pid(p)
  BY DEF LockInv
<1> HIDE DEF r
<1>5. Staged(p, s) /\ Calm(s)
  BY <1>2, <1>3, <1>4, StagedAgain, StagedReleasing
<1>6. ~ Owning(p)
  BY <1>1, NotOwning DEF OwningSteps, VerifiedSteps
<1> HIDE DEF s
<1> QED  BY <1>1, <1>5, <1>6, TidyQuiet, CalmLoose

\* The budget of a call runs out.
LEMMA TidyExpire ==
  ASSUME LockInv, LockInv', TidyInv, NEW p \in Slots, Expire(p)
  PROVE  TidyInv'
<1> DEFINE r == proc[p]
           s == [r EXCEPT !.late = TRUE]
<1>1. Become(p, s) /\ names' = names /\ life' = life /\ r \in Procs
  BY Before DEF Expire
<1>2. s.pc = r.pc /\ s.at = r.at /\ s.file = r.file /\ s.un = r.un /\ s.rel = r.rel /\ s.stale = r.stale
  BY <1>1 DEF Procs
<1> HIDE DEF s
<1> QED  BY <1>1, <1>2, TidySame

\* The lock is looked at, or found taken.
LEMMA TidyLook ==
  ASSUME LockInv, LockInv', TidyInv, NEW p \in Slots, Look(p)
  PROVE  TidyInv'
<1> DEFINE q == proc[p]
           saw == q.saw \/ At("lock") # None
           r == [q EXCEPT !.saw = saw]
           t == [r EXCEPT !.pc = "create", !.attempted = TRUE]
<1>1. q.pc = "look" /\ names' = names /\ life' = life /\ q \in Procs /\ Staged(p, q)
  BY Before DEF Look, TidyInv
<1>2. Become(p, Retry(r)) \/ Become(p, Outside) \/ Become(p, t)
  BY DEF Look
<1>3. r \in Procs
  BY <1>1 DEF Procs
<1>4. q.un = None /\ q.rel = None
  BY <1>1, PlainOf DEF UnlinkSteps, ReleaseSteps
<1>5. t.pc = "create" /\ t.at = q.at /\ t.stale = q.stale /\ t.un = q.un /\ t.rel = q.rel
  BY <1>1 DEF Procs
<1> HIDE DEF r, t
<1>6. Staged(p, t) /\ Calm(t)
  BY <1>1, <1>4, <1>5 DEF Staged, Calm, Elected, InstalledSteps, VerifiedSteps
<1>7. ~ Owning(p)
  BY <1>1, NotOwning DEF OwningSteps, VerifiedSteps
<1> QED  BY <1>1, <1>2, <1>3, <1>6, <1>7, StagedAgain, StagedOutside, TidyQuiet, CalmLoose

\* The refused process looks whose lock it was.
LEMMA TidyInspect ==
  ASSUME LockInv, LockInv', TidyInv, NEW p \in Slots, Inspect(p)
  PROVE  TidyInv'
<1> DEFINE r == proc[p]
           f == At("lock")
           t == [r EXCEPT !.pc = "create", !.at = "election", !.stale = f]
<1>1. r.pc = "inspect" /\ names' = names /\ life' = life /\ r \in Procs /\ Staged(p, r)
  BY Before DEF Inspect, TidyInv
<1>2. (f # None /\ Become(p, t)) \/ Become(p, Retry(r))
  BY DEF Inspect, DeadOwner
<1>4. r.un = None /\ r.rel = None
  BY <1>1, PlainOf DEF UnlinkSteps, ReleaseSteps
<1> HIDE DEF f
<1>5. t.pc = "create" /\ t.at = "election" /\ t.stale = f /\ t.un = r.un /\ t.rel = r.rel
  BY <1>1 DEF Procs
<1> HIDE DEF t
<1>6. f # None => Staged(p, t) /\ Calm(t)
  BY <1>4, <1>5 DEF Staged, Calm, Elected, InstalledSteps, VerifiedSteps
<1>7. ~ Owning(p)
  BY <1>1, NotOwning DEF OwningSteps, VerifiedSteps
<1> QED  BY <1>1, <1>2, <1>6, <1>7, StagedAgain, TidyQuiet, CalmLoose

\* What is left of an installation that was rolled back.
LEMMA TidyRolledBack ==
  ASSUME LockInv, LockInv', TidyInv, NEW p \in Slots, RolledBack(p)
  PROVE  TidyInv'
<1> DEFINE r == proc[p]
           c == Candidate(r.at, Mine(p))
           s == Unlinking(r, c, Mine(p), {1}, "lost", "lost")
<1>1. r.pc = "rolledBack" /\ names' = names /\ life' = life /\ r \in Procs /\ Staged(p, r)
  BY Before DEF RolledBack, TidyInv
<1>2. Become(p, s) \/ Become(p, Lost(r))
  BY DEF RolledBack
<1>3. r.un = None /\ r.rel = None
  BY <1>1, PlainOf DEF UnlinkSteps, ReleaseSteps
<1>4. c \in Names /\ c[1] = "candidate" /\ Mine(p) \in Files
  BY <1>1, LinkableOf DEF FiledSteps
<1>5. "lost" \in Returns
  BY DEF Returns
<1> HIDE DEF c
<1>6. Staged(p, s) /\ s.pc = "pin" /\ s.un # None /\ s.un.name = c /\ ~ Elected(s)
  <2>1. c # Canonical("lock")
    BY <1>4 DEF Canonical
  <2>2. UnlinkCall(r, c, Mine(p), {1}, "lost", "lost")
    BY <1>3, <1>4, <1>5 DEF UnlinkCall
  <2> QED  BY <1>1, <1>4, <2>1, <2>2, StagedUnlinking
<1>7. ~ Owning(p)
  BY <1>1, NotOwning DEF OwningSteps, VerifiedSteps
<1> HIDE DEF s
<1>8. CASE Become(p, Lost(r))
  BY <1>1, <1>7, <1>8, StagedAgain, TidyQuiet, CalmLoose
<1>9. CASE Become(p, s)
  <2>1. proc'[p] = s /\ Pid(p)' = Pid(p) /\ At("lock")' = At("lock")
    BY <1>1, <1>9 DEF Become, LockInv, Pid, At, Canonical
  <2> SUFFICES ASSUME Tidy PROVE Careful(p) /\ Installs(p)' /\ Owes(p)'
    BY <1>1, <1>6, <1>9, TidyStep
  <2>2. ~ Elected(proc[p])'
    BY <1>6, <2>1 DEF Elected, Canonical
  <2>3. Installs(p)'
    BY <1>4, <1>6, <2>1, <2>2 DEF Installs, Canonical, InstalledSteps
  <2>4. Owes(p)'
    BY <1>6, <1>7, <2>1 DEF Owes, Tidy
  <2> QED  BY <1>1, <2>3, <2>4 DEF Careful
<1> QED  BY <1>2, <1>8, <1>9

\* No rival is dead while only one process has died.
LEMMA TidyRival ==
  ASSUME LockInv, LockInv', TidyInv, NEW p \in Slots, Rival(p)
  PROVE  TidyInv'
<1> DEFINE r == proc[p]
           f == At("election")
           s == Unlinking(r, Canonical("election"), f, {1, 2}, "relink", "unelected")
           t == [r EXCEPT !.pc = "unelected"]
<1>1. r.pc = "rival" /\ names' = names /\ life' = life /\ r \in Procs /\ Staged(p, r)
  BY Before DEF Rival, TidyInv
<1>2. (f # None /\ DeadOwner(f) /\ Become(p, s)) \/ Become(p, t)
  BY DEF Rival, DeadOwner
<1>3. r.un = None /\ r.rel = None
  BY <1>1, PlainOf DEF UnlinkSteps, ReleaseSteps
<1>4. t = Go(r, "unelected", None) /\ "unelected" \in Steps
  BY <1>1, <1>3 DEF Go, Procs, Steps
<1>5. Staged(p, t) /\ Calm(t)
  BY <1>1, <1>3, <1>4, StagedGo DEF InstalledSteps, VerifiedSteps
<1>6. ~ Owning(p)
  BY <1>1, NotOwning DEF OwningSteps, VerifiedSteps
<1> HIDE DEF t
<1>7. CASE Become(p, t)
  BY <1>1, <1>5, <1>6, <1>7, TidyQuiet, CalmLoose
<1>8. CASE f # None /\ DeadOwner(f) /\ Become(p, s)
  <2>1. f \in Files /\ Gone(f.pid)
    BY <1>8, DeadGone DEF Paths
  <2>2. Canonical("election") \in Names /\ "relink" \in Returns /\ "unelected" \in Returns
    BY CanonicalNames DEF Paths, Returns
  <2> HIDE DEF f
  <2>3. Staged(p, s)
    <3>1. UnlinkCall(r, Canonical("election"), f, {1, 2}, "relink", "unelected")
      BY <1>3, <2>1, <2>2 DEF UnlinkCall
    <3> QED  BY <1>1, <3>1, StagedUnlinking
  <2>4. ~ Tidy
    BY <1>8, <2>1 DEF Tidy, f
  <2> HIDE DEF s
  <2> QED  BY <1>1, <1>8, <2>3, <2>4, TidyStep
<1> QED  BY <1>2, <1>7, <1>8

\* The number of links of a file that has a name.
LEMMA LinksOf ==
  ASSUME DirectoryOK, NEW f
  PROVE  /\ \A n : NamesOf(f) = {n} => Links(f) = 1
         /\ \A n, m : NamesOf(f) = {n} \cup {m} /\ n # m => Links(f) = 2
<1>1. ASSUME NEW n \in NamesOf(f) PROVE Links(f) = Cardinality(NamesOf(f))
  <2>1. {m \in DOMAIN names : names[m].ino = f.ino} = NamesOf(f)
    BY <1>1 DEF DirectoryOK, NamesOf
  <2> QED  BY <2>1 DEF Links
<1>2. ASSUME NEW n, NamesOf(f) = {n} PROVE Links(f) = 1
  BY <1>1, <1>2, FS_Singleton
<1>3. ASSUME NEW n, NEW m, NamesOf(f) = {n} \cup {m}, n # m PROVE Links(f) = 2
  <2>1. IsFiniteSet({n}) /\ Cardinality({n}) = 1 /\ m \notin {n}
    BY <1>3, FS_Singleton
  <2>2. Cardinality({n} \cup {m}) = Cardinality({n}) + 1
    BY <2>1, FS_AddElement
  <2> QED  BY <1>1, <1>3, <2>1, <2>2
<1> QED  BY <1>2, <1>3

\* A candidate's name bears the pid of its file.
LEMMA CandidateFile ==
  ASSUME LockInv, NEW n \in DOMAIN names, n[1] = "candidate"
  PROVE  names[n].pid = n[3]
BY DEF LockInv, DirectoryOK, Candidate

\* The process that has installed a lock.
LEMMA InstalledOf ==
  ASSUME LockInv, NEW p \in Slots, proc[p].pc \in InstalledSteps \cup {"unsettled"}
  PROVE  LET r == proc[p]
         IN  /\ Mine(p) = r.file[r.at] /\ Mine(p) \in Files /\ Mine(p) # None /\ Mine(p).pid = Pid(p)
             /\ Tidy /\ r.pc \in InstalledSteps => At(r.at) = Mine(p)
             /\ Tidy /\ r.at = "lock" /\ At("lock") = Mine(p) => Owning(p)
<1>1. proc[p].pc \in FiledSteps
  BY DEF InstalledSteps, FiledSteps
<1>2. Mine(p) = proc[p].file[proc[p].at] /\ Mine(p) \in Files /\ Mine(p) # None /\ Mine(p).pid = Pid(p)
  BY <1>1, LinkableOf, LockAssumption
<1>3. Tidy => Installs(p) /\ Owes(p)
  BY DEF Tidy
<1> QED  BY <1>2, <1>3 DEF Installs, Owes

\* From one step of the installation to another.
LEMMA TidyMove ==
  ASSUME LockInv, LockInv', TidyInv, NEW p \in Slots, proc[p].pc \in InstalledSteps, NEW x \in InstalledSteps,
         Become(p, Go(proc[p], x, None)), names' = names, life' = life,
         Tidy /\ proc[p].at = "lock" =>
           {proc[p].pc, x} \subseteq {"collapse", "drop"} \/ {proc[p].pc, x} \subseteq {"verify", "settle", "settled"}
  PROVE  TidyInv'
<1> DEFINE r == proc[p]
           s == Go(r, x, None)
<1>1. r \in Procs /\ Staged(p, r) /\ x \in Steps
  BY Before DEF TidyInv, InstalledSteps, Steps
<1>2. r.un = None /\ r.rel = None
  BY <1>1, PlainOf DEF UnlinkSteps, ReleaseSteps, InstalledSteps
<1>3. Staged(p, s) /\ s.pc = x /\ s.un = None /\ s.at = r.at /\ s.file = r.file /\ s.stale = r.stale
  BY <1>1, <1>2, StagedGo
<1> HIDE DEF s
<1>4. Become(p, s)
  BY DEF s
<1>5. proc'[p] = s /\ Pid(p)' = Pid(p) /\ \A path : At(path)' = At(path)
  BY <1>4 DEF Become, LockInv, Pid, At, Canonical
<1> SUFFICES ASSUME Tidy PROVE Careful(p) /\ Installs(p)' /\ Owes(p)'
  BY <1>3, <1>4, TidyStep
<1>6. Installs(p) /\ Owes(p)
  BY DEF Tidy
<1>7. Elected(proc[p])' => Elected(r)
  BY <1>2, <1>3, <1>5 DEF Elected, InstalledSteps
<1>8. Installs(p)'
  BY <1>3, <1>5, <1>6, <1>7 DEF Installs, InstalledSteps, VerifiedSteps, Mine
<1>9. Owning(p) => Owning(p)'
  <2>1. NamesOf(At("lock"))' = NamesOf(At("lock"))
    BY <1>5 DEF NamesOf
  <2>2. Owning(p) => r.at = "lock"
    BY DEF Owning, InstalledSteps
  <2> QED  BY <1>3, <1>5, <2>1, <2>2 DEF Owning, InstalledSteps, Sole, Canonical, Candidate
<1>10. Owes(p)'
  BY <1>3, <1>5, <1>6, <1>9 DEF Owes, InstalledSteps
<1> QED  BY <1>8, <1>10 DEF Careful

\* Both names are there, or the candidate is gone already.
LEMMA BothNamesOf ==
  ASSUME LockInv, Tidy, NEW p \in Slots, proc[p].pc \in InstalledSteps, proc[p].at = "lock"
  PROVE  /\ proc[p].pc \in {"collapse", "drop"} => BothNames(p)
         /\ proc[p].pc \in {"verify", "settle", "settled"} => ~ BothNames(p)
         /\ proc[p].pc # "settleDrop"
<1> DEFINE f == Mine(p)
           c == Candidate("lock", f)
<1>1. At("lock") = f /\ Owning(p) /\ DirectoryOK
  BY InstalledOf, Before
<1>2. c # Canonical("lock")
  BY DEF Canonical, Candidate
<1>3. CASE proc[p].pc \in {"collapse", "drop"}
  <2>1. NamesOf(f) = {Canonical("lock")} \cup {c}
    BY <1>1, <1>3 DEF Owning, Sole
  <2>2. c \in DOMAIN names /\ Links(f) = 2
    BY <1>1, <1>2, <2>1, LinksOf DEF NamesOf
  <2> QED  BY <1>1, <1>3, <2>2 DEF BothNames
<1>4. CASE proc[p].pc \in {"verify", "settle", "settled"}
  <2>1. NamesOf(f) = {Canonical("lock")}
    BY <1>1, <1>4 DEF Owning, Sole
  <2>2. Links(f) = 1
    BY <1>1, <2>1, LinksOf
  <2> QED  BY <1>4, <2>2 DEF BothNames
<1>5. proc[p].pc # "settleDrop"
  BY <1>1 DEF Owning
<1> QED  BY <1>3, <1>4, <1>5

\* The candidate is going to be dropped.
LEMMA TidyCollapse ==
  ASSUME LockInv, LockInv', TidyInv, NEW p \in Slots, Collapse(p) \/ Settle(p)
  PROVE  TidyInv'
<1> DEFINE r == proc[p]
<1>1. /\ names' = names /\ life' = life /\ r \in Procs /\ r.pc \in InstalledSteps
      /\ \E x \in InstalledSteps :
           /\ Become(p, [r EXCEPT !.pc = x])
           /\ \/ r.pc = "collapse" /\ (BothNames(p) => x = "drop")
              \/ r.pc = "settle" /\ (~ BothNames(p) => x = "settled")
  BY Before DEF Collapse, Settle, InstalledSteps
<1>2. PICK x \in InstalledSteps :
           /\ Become(p, [r EXCEPT !.pc = x])
           /\ \/ r.pc = "collapse" /\ (BothNames(p) => x = "drop")
              \/ r.pc = "settle" /\ (~ BothNames(p) => x = "settled")
  BY <1>1
<1>3. Staged(p, r)
  BY DEF TidyInv
<1>4. r.un = None
  BY <1>1, <1>3, PlainOf DEF UnlinkSteps, ReleaseSteps, InstalledSteps
<1>5. Become(p, Go(r, x, None))
  BY <1>1, <1>2, <1>4 DEF Go, Procs
<1>6. Tidy /\ r.at = "lock" =>
        {r.pc, x} \subseteq {"collapse", "drop"} \/ {r.pc, x} \subseteq {"verify", "settle", "settled"}
  BY <1>1, <1>2, BothNamesOf
<1> QED  BY <1>1, <1>5, <1>6, TidyMove

\* The candidate is dropped.
LEMMA TidyDropCandidate ==
  ASSUME LockInv, LockInv', TidyInv, NEW p \in Slots, DropCandidate(p)
  PROVE  TidyInv'
<1> DEFINE r == proc[p]
           f == Mine(p)
           c == Candidate(r.at, f)
           x == IF r.pc = "drop" THEN "verify" ELSE "settled"
           s == Go(r, x, None)
<1>1. /\ r.pc \in {"drop", "settleDrop"} /\ names' = WithoutName(c) /\ life' = life /\ r \in Procs /\ Staged(p, r)
      /\ Become(p, [r EXCEPT !.pc = x])
  BY Before DEF DropCandidate, TidyInv, Procs
<1>2. r.un = None /\ r.rel = None
  BY <1>1, PlainOf DEF UnlinkSteps, ReleaseSteps
<1>3. Become(p, s) /\ x \in Steps /\ x \in InstalledSteps
  BY <1>1, <1>2 DEF Go, Procs, Steps, InstalledSteps
<1>4. Staged(p, s) /\ s.pc = x /\ s.un = None /\ s.at = r.at /\ s.file = r.file /\ s.stale = r.stale
  BY <1>1, <1>2, <1>3, StagedGo
<1>5. r.pc \in InstalledSteps /\ r.pc \in FiledSteps
  BY <1>1 DEF InstalledSteps, FiledSteps
<1>6. c \in Names /\ c[1] = "candidate" /\ c[3] = Pid(p) /\ f = r.file[r.at]
  BY <1>5, LinkableOf
<1>7. Careful(p)
  <2>1. c \in DOMAIN names => names[c].pid = Pid(p)
    BY <1>6, CandidateFile
  <2> QED  BY <1>1, <2>1 DEF Careful
<1> HIDE DEF s
<1>8. proc'[p] = s /\ Pid(p)' = Pid(p)
  BY <1>1, <1>3 DEF Become, LockInv, Pid
<1>9. \A path : At(path)' = At(path)
  <2> TAKE path
  <2>1. c # Canonical(path)
    BY <1>6 DEF Canonical
  <2> QED  BY <1>1, <2>1, OtherName
<1> SUFFICES ASSUME Tidy PROVE Installs(p)' /\ Owes(p)'
  BY <1>1, <1>3, <1>4, <1>7, TidyStep
<1>10. Installs(p) /\ Owes(p)
  BY DEF Tidy
<1>11. Elected(proc[p])' => Elected(r)
  BY <1>3, <1>4, <1>5, <1>8 DEF Elected, InstalledSteps
<1>12. Installs(p)'
  BY <1>3, <1>4, <1>5, <1>8, <1>9, <1>10, <1>11 DEF Installs, InstalledSteps, VerifiedSteps, Mine
<1>13. Owning(p) => Owning(p)'
  <2> SUFFICES ASSUME Owning(p) PROVE Owning(p)'
    OBVIOUS
  <2>1. r.at = "lock" /\ r.pc = "drop" /\ NamesOf(At("lock")) = {Canonical("lock")} \cup {Candidate("lock", At("lock"))}
    BY <1>1 DEF Owning, Sole
  <2>2. At("lock") = f
    BY <1>5, <2>1, InstalledOf
  <2>3. NamesOf(f) = {Canonical("lock")} \cup {c}
    BY <2>1, <2>2
  <2>4. c # Canonical("lock")
    BY <1>6 DEF Canonical
  <2>5. DOMAIN names' = DOMAIN names \ {c} /\ \A m \in DOMAIN names : m # c => names'[m] = names[m]
    BY <1>1 DEF WithoutName, Restrict
  <2>6. {n \in DOMAIN names' : names'[n] = f} = {Canonical("lock")}
    <3> HIDE DEF c, f
    <3> QED  BY <2>3, <2>4, <2>5 DEF NamesOf
  <2>7. NamesOf(At("lock"))' = Sole
    BY <1>9, <2>2, <2>6 DEF NamesOf, Sole
  <2> QED  BY <1>4, <1>8, <2>1, <2>7 DEF Owning, Sole, Canonical
<1>14. Owes(p)'
  BY <1>3, <1>4, <1>8, <1>9, <1>10, <1>13 DEF Owes, InstalledSteps
<1> QED  BY <1>12, <1>14

\* The lock is the caller's, or the election is won.
LEMMA TidyGranted ==
  ASSUME LockInv, LockInv', TidyInv, NEW p \in Slots, proc[p].pc \in {"verify", "settled", "unsettled"},
         Owns(proc[p].at, Mine(p)), Become(p, Installed(proc[p])), names' = names, life' = life
  PROVE  TidyInv'
<1> DEFINE r == proc[p]
           s == Installed(r)
<1>1. r \in Procs /\ Staged(p, r) /\ r.at \in Paths
  BY Before DEF TidyInv
<1>2. r.un = None /\ r.rel = None
  BY <1>1, PlainOf DEF UnlinkSteps, ReleaseSteps
<1>3. At(r.at) = Mine(p) /\ Mine(p) = r.file[r.at] /\ Mine(p) # None /\ r.pc \in InstalledSteps \cup {"unsettled"}
  BY InstalledOf DEF Owns, InstalledSteps
<1>4. proc'[p] = s /\ Pid(p)' = Pid(p) /\ \A path : At(path)' = At(path)
  BY DEF Become, LockInv, Pid, At, Canonical
<1>5. CASE r.at = "lock"
  <2>1. /\ s.pc = "held" /\ s.at = "lock" /\ s.stale = None /\ s.un = None /\ s.rel = None
    BY <1>5 DEF Installed, Outside
  <2> HIDE DEF s
  <2>2. Staged(p, s) /\ Calm(s)
    BY <2>1 DEF Staged, Calm, Elected, InstalledSteps, VerifiedSteps
  <2>3. Tidy => Owning(p)'
    <3> SUFFICES ASSUME Tidy PROVE Owning(p)'
      OBVIOUS
    <3>1. Owning(p)
      BY <1>3, <1>5, InstalledOf
    <3>2. NamesOf(At("lock")) = Sole
      BY <1>5, <3>1 DEF Owning
    <3>3. NamesOf(At("lock"))' = NamesOf(At("lock"))
      BY <1>4 DEF NamesOf
    <3> QED  BY <1>4, <2>1, <3>2, <3>3 DEF Owning, Sole, Canonical
  <2> QED  BY <2>2, <2>3, CalmLoose, TidyQuiet DEF s
<1>6. CASE r.at = "election"
  <2>1. s = Go(r, "confirm", None) /\ "confirm" \in Steps
    BY <1>6 DEF Installed, Go, Steps
  <2>2. Staged(p, s) /\ s.pc = "confirm" /\ s.un = None /\ s.at = r.at /\ s.file = r.file
    BY <1>1, <1>2, <2>1, StagedGo
  <2> HIDE DEF s
  <2> SUFFICES ASSUME Tidy PROVE Careful(p) /\ Installs(p)' /\ Owes(p)'
    BY <2>2, TidyStep DEF s
  <2>3. Installs(p)'
    BY <1>3, <1>4, <1>6, <2>2 DEF Installs, InstalledSteps, VerifiedSteps
  <2>4. ~ Owning(p)
    BY <1>6 DEF Owning
  <2>5. Owes(p)'
    BY <1>4, <2>2, <2>4 DEF Owes, Tidy
  <2> QED  BY <2>3, <2>5 DEF Careful
<1> QED  BY <1>1, <1>5, <1>6 DEF Paths

\* A process pins the name of its own file, to take it away.
LEMMA TidyPinned ==
  ASSUME LockInv, LockInv', TidyInv, NEW p \in Slots, proc[p].pc \in {"settled", "release"}, names' = names, life' = life,
         NEW path \in Paths, NEW f \in Files, f.pid = Pid(p), Tidy => At(path) = f,
         NEW allowed \in {{1}, {1, 2}}, NEW ok \in Returns, NEW bad \in Returns,
         proc[p].rel # None => ok = "released" /\ bad = "unreleased",
         Become(p, Unlinking(proc[p], Canonical(path), f, allowed, ok, bad)),
         path = "lock" => proc[p].at = "lock", Tidy /\ path # "lock" => ~ Owning(p)
  PROVE  TidyInv'
<1> DEFINE r == proc[p]
           s == Unlinking(r, Canonical(path), f, allowed, ok, bad)
<1>1. r \in Procs /\ Staged(p, r) /\ Canonical(path) \in Names
  BY Before, CanonicalNames DEF TidyInv
<1>2. /\ Staged(p, s) /\ s.pc = "pin" /\ s.stale = r.stale
      /\ s.un # None /\ s.un.name = Canonical(path) /\ s.un.file = f /\ s.un.allowed = allowed /\ s.un.links = 0
      /\ Elected(s) <=> Canonical(path) = Canonical("lock") /\ r.stale # None
  <2>1. UnlinkCall(r, Canonical(path), f, allowed, ok, bad)
    BY <1>1 DEF UnlinkCall
  <2> QED  BY <1>1, <2>1, StagedUnlinking
<1>3. Canonical(path) = Canonical("lock") => path = "lock"
  BY DEF Canonical
<1>4. ~ Elected(s)
  BY <1>1, <1>2, <1>3 DEF Staged
<1> HIDE DEF s
<1>5. Become(p, s)
  BY DEF s
<1>6. proc'[p] = s /\ Pid(p)' = Pid(p) /\ \A x : At(x)' = At(x)
  BY <1>5 DEF Become, LockInv, Pid, At, Canonical
<1> SUFFICES ASSUME Tidy PROVE Careful(p) /\ Installs(p)' /\ Owes(p)'
  BY <1>2, <1>5, TidyStep
<1>7. ~ Elected(proc[p])'
  BY <1>4, <1>6 DEF Elected, Canonical
<1>8. Installs(p)'
  <2>1. \A x \in Paths : Canonical(x) = Canonical(path) => x = path
    BY DEF Canonical
  <2>2. f # None
    BY LockAssumption
  <2> QED  BY <1>2, <1>6, <1>7, <2>1, <2>2 DEF Installs, InstalledSteps, Canonical
<1>9. Owning(p) => Owning(p)'
  <2> SUFFICES ASSUME Owning(p) PROVE Owning(p)'
    OBVIOUS
  <2>1. path = "lock" /\ NamesOf(At("lock")) = Sole
    BY DEF Owning
  <2>2. NamesOf(At("lock"))' = NamesOf(At("lock"))
    BY <1>6 DEF NamesOf
  <2>3. 1 \in allowed
    OBVIOUS
  <2> QED  BY <1>2, <1>6, <2>1, <2>2, <2>3 DEF Owning, Sole, Canonical
<1>10. Owes(p)'
  BY <1>2, <1>6, <1>9 DEF Owes, Tidy
<1> QED  BY <1>8, <1>10 DEF Careful

\* The installation is made durable, or settled.
LEMMA TidyVerify ==
  ASSUME LockInv, LockInv', TidyInv, NEW p \in Slots, Verify(p)
  PROVE  TidyInv'
<1> DEFINE r == proc[p]
           owns == Owns(r.at, Mine(p))
<1>1. r.pc = "verify" /\ names' = names /\ life' = life /\ r \in Procs /\ Staged(p, r)
  BY Before DEF Verify, TidyInv
<1>2. PICK ok \in Synced(owns) : /\ CountFault(owns, ok)
                                 /\ Become(p, IF ok THEN Installed(r) ELSE [r EXCEPT !.pc = "settle"])
  BY DEF Verify
<1>3. owns \in BOOLEAN
  BY DEF Owns
<1>4. ok \in BOOLEAN /\ (ok => owns)
  BY <1>2, <1>3 DEF Synced
<1>5. CASE ok
  BY <1>1, <1>2, <1>4, <1>5, TidyGranted
<1>6. CASE ~ ok
  <2>1. r.un = None
    BY <1>1, PlainOf DEF UnlinkSteps, ReleaseSteps
  <2>2. Become(p, Go(r, "settle", None))
    BY <1>1, <1>2, <1>6, <2>1 DEF Go, Procs
  <2>3. r.pc \in InstalledSteps /\ "settle" \in InstalledSteps /\ {r.pc, "settle"} \subseteq {"verify", "settle", "settled"}
    BY <1>1 DEF InstalledSteps
  <2> QED  BY <1>1, <2>2, <2>3, TidyMove
<1> QED  BY <1>4, <1>5, <1>6

\* It is installed after all, or rolled back.
LEMMA TidySettled ==
  ASSUME LockInv, LockInv', TidyInv, NEW p \in Slots, Settled(p)
  PROVE  TidyInv'
<1> DEFINE r == proc[p]
           owns == Owns(r.at, Mine(p))
           s == Unlinking(r, Canonical(r.at), Mine(p), {1, 2}, "rolledBack", "unsettled")
<1>1. r.pc \in {"settled", "unsettled"} /\ names' = names /\ life' = life /\ r \in Procs /\ Staged(p, r) /\ r.at \in Paths
  BY Before DEF Settled, TidyInv
<1>2. PICK ok \in Synced(owns) :
        Become(p, IF ok THEN Installed(r) ELSE IF r.pc = "unsettled" THEN Lost(r) ELSE s)
  BY DEF Settled
<1>3. owns \in BOOLEAN
  BY DEF Owns
<1>4. ok \in BOOLEAN /\ (ok => owns)
  BY <1>2, <1>3 DEF Synced
<1>5. CASE ok
  BY <1>1, <1>2, <1>4, <1>5, TidyGranted
<1>6. CASE ~ ok /\ r.pc = "unsettled"
  <2>1. Become(p, Lost(r))
    BY <1>2, <1>6
  <2>2. ~ Owning(p)
    BY <1>6, NotOwning DEF OwningSteps, VerifiedSteps
  <2> QED  BY <1>1, <2>1, <2>2, StagedAgain, TidyQuiet, CalmLoose
<1>7. CASE ~ ok /\ r.pc = "settled"
  <2>1. Become(p, s)
    BY <1>2, <1>7
  <2>2. Mine(p) \in Files /\ Mine(p).pid = Pid(p) /\ (Tidy => At(r.at) = Mine(p))
    BY <1>7, InstalledOf DEF InstalledSteps
  <2>3. "rolledBack" \in Returns /\ "unsettled" \in Returns /\ {1, 2} \in {{1}, {1, 2}}
    BY DEF Returns
  <2>4. r.rel = None
    BY <1>1, PlainOf DEF UnlinkSteps, ReleaseSteps
  <2>5. r.at # "lock" => ~ Owning(p)
    BY <1>7 DEF Owning
  <2> QED  BY <1>1, <1>7, <2>1, <2>2, <2>3, <2>4, <2>5, TidyPinned
<1> QED  BY <1>1, <1>4, <1>5, <1>6, <1>7

\* The holder begins to release.
LEMMA TidyHolderReleases ==
  ASSUME LockInv, LockInv', TidyInv, NEW p \in Slots, HolderReleases(p)
  PROVE  TidyInv'
<1> DEFINE r == proc[p]
           f == r.file.lock
           s == Releasing(r, "lock", f, "idle", "idle")
<1>1. r.pc = "held" /\ Become(p, s) /\ names' = names /\ life' = life /\ r \in Procs /\ Staged(p, r)
  BY Before DEF HolderReleases, TidyInv
<1>2. r.at = "lock" /\ f # None /\ f.pid = Pid(p) /\ At("lock") = f
  BY <1>1, Before DEF Sane, Anchored
<1>3. Staged(p, s) /\ Calm(s) /\ s.pc = "release" /\ s.rel.path = "lock" /\ s.rel.file = f
  BY <1>1, <1>2, StagedReleasing
<1> HIDE DEF s
<1>4. Tidy /\ Owning(p) => Owning(p)'
  <2> SUFFICES ASSUME Owning(p) PROVE Owning(p)'
    OBVIOUS
  <2>1. NamesOf(At("lock")) = Sole
    BY <1>1 DEF Owning
  <2>2. At("lock")' = At("lock") /\ NamesOf(At("lock"))' = NamesOf(At("lock"))
    BY <1>1 DEF NamesOf, At, Canonical
  <2>3. proc'[p] = s
    BY <1>1 DEF Become, LockInv
  <2> QED  BY <1>2, <1>3, <2>1, <2>2, <2>3 DEF Owning, Sole, Canonical
<1> QED  BY <1>1, <1>3, <1>4, TidyQuiet, CalmLoose

\* The release looks at what is installed.
LEMMA TidyRelease ==
  ASSUME LockInv, LockInv', TidyInv, NEW p \in Slots, Release(p)
  PROVE  TidyInv'
<1> DEFINE r == proc[p]
           q == r.rel
           f == At(q.path)
           s == Unlinking(r, Canonical(q.path), f, {1}, "released", "unreleased")
<1>1. /\ r.pc = "release" /\ names' = names /\ life' = life
      /\ \/ f # None /\ f = q.file /\ Links(f) = 1 /\ Become(p, s)
         \/ (f # None => ~ (f = q.file /\ Links(f) = 1)) /\ \E x \in {q.ok, q.bad} : Become(p, Enter(r, x))
  BY DEF Release
<1>2. Staged(p, r) /\ Sane(p, r) /\ DirectoryOK /\ r.pc \in ReleaseSteps
  BY <1>1, Before DEF TidyInv, ReleaseSteps
<1>3. q # None /\ q.path \in Paths /\ q.file \in Files \cup {None} /\ q.ok \in CallerReturns /\ q.bad \in CallerReturns
  BY <1>2, ReleaseOf
<1>4. Owning(p) => q.path = "lock" /\ f = q.file /\ NamesOf(f) = Sole
  BY <1>1 DEF Owning
<1>5. CASE f # None /\ f = q.file /\ Links(f) = 1 /\ Become(p, s)
  <2>1. f \in Files /\ f.pid = Pid(p) /\ (q.path = "lock" => r.at = "lock")
    BY <1>2, <1>3, <1>5 DEF Staged
  <2>2. "released" \in Returns /\ "unreleased" \in Returns /\ {1} \in {{1}, {1, 2}}
    BY DEF Returns
  <2> QED  BY <1>1, <1>3, <1>4, <1>5, <2>1, <2>2, TidyPinned
<1>6. ASSUME f # None => ~ (f = q.file /\ Links(f) = 1), NEW x \in {q.ok, q.bad}, Become(p, Enter(r, x))
      PROVE  TidyInv'
  <2>1. Staged(p, Enter(r, x)) /\ Calm(Enter(r, x))
    BY <1>2, <1>3, StagedEnter
  <2>2. At("lock") # None => ~ Owning(p)
    <3> SUFFICES ASSUME At("lock") # None, Owning(p) PROVE FALSE
      OBVIOUS
    <3>1. NamesOf(f) = {Canonical("lock")} /\ f # None /\ f = q.file
      BY <1>4 DEF Sole
    <3>2. Links(f) = 1
      BY <1>2, <3>1, LinksOf
    <3> QED  BY <1>6, <3>1, <3>2
  <2> QED  BY <1>1, <1>6, <2>1, <2>2, TidyQuiet, CalmLoose
<1> QED  BY <1>1, <1>5, <1>6

\* The release returns.
LEMMA TidyReleased ==
  ASSUME LockInv, LockInv', TidyInv, NEW p \in Slots, Released(p) \/ Unreleased(p)
  PROVE  TidyInv'
<1> DEFINE r == proc[p]
           q == r.rel
<1>1. /\ r.pc \in {"released", "unreleased"} /\ names' = names /\ life' = life
      /\ \E x \in {q.ok, q.bad} : Become(p, Enter(r, x))
  BY DEF Released, Unreleased
<1>2. PICK x \in {q.ok, q.bad} : Become(p, Enter(r, x))
  BY <1>1
<1>3. Staged(p, r) /\ Sane(p, r) /\ r.pc \in ReleaseSteps
  BY <1>1, Before DEF TidyInv, ReleaseSteps
<1>4. x \in CallerReturns
  BY <1>2, <1>3, ReleaseOf
<1>5. Staged(p, Enter(r, x)) /\ Calm(Enter(r, x))
  BY <1>3, <1>4, StagedEnter
<1>6. ~ Owning(p)
  BY <1>1, NotOwning DEF OwningSteps, VerifiedSteps
<1> QED  BY <1>1, <1>2, <1>5, <1>6, TidyQuiet, CalmLoose

\* A name that is its own or a dead process's leads to a file of its own or of a dead process.
LEMMA OwnNames ==
  ASSUME LockInv, Tidy, NEW p \in Slots, NEW n \in DOMAIN names, n[1] # "canonical", n[3] = Pid(p) \/ Gone(n[3])
  PROVE  n \in Names /\ names[n] \in Files /\ (names[n].pid = Pid(p) \/ Gone(names[n].pid))
<1>1. n \in Names /\ names[n] \in Files
  BY DEF LockInv, DirectoryOK
<1>2. n[1] = "candidate" \/ n[1] = "guard"
  BY <1>1, NameKinds
<1> QED  BY <1>1, <1>2, CandidateFile DEF Tidy

\* Such a name is taken away.
LEMMA TidyDropped ==
  ASSUME LockInv, LockInv', TidyInv, NEW p \in Slots, NEW s, Become(p, s), life' = life,
         NEW n, names' = WithoutName(n), n[1] # "canonical", n[3] = Pid(p) \/ Gone(n[3]),
         Staged(p, s), Loose(proc[p], s), ~ Owning(p)
  PROVE  TidyInv'
<1>1. Tidy => Careful(p)
  BY OwnNames DEF Careful, Canonical
<1>2. At("lock")' = At("lock") /\ At("election")' = At("election")
  <2>1. n # Canonical("lock") /\ n # Canonical("election")
    BY DEF Canonical
  <2> QED  BY <2>1, OtherName
<1> QED  BY <1>1, <1>2, TidyLoose

\* The candidate is written.
LEMMA TidyCreate ==
  ASSUME LockInv, LockInv', TidyInv, NEW p \in Slots, Create(p)
  PROVE  TidyInv'
<1> DEFINE r == proc[p]
<1>1. PICK i \in FreshInodes :
        LET f == [ino |-> i, pid |-> Pid(p), token |-> IF r.at = "lock" THEN r.token ELSE FreshToken]
        IN  names' = WithName(Candidate(r.at, f), f) /\ Become(p, [r EXCEPT !.pc = "link", !.file[r.at] = f])
  BY DEF Create
<1> DEFINE f == [ino |-> i, pid |-> Pid(p), token |-> IF r.at = "lock" THEN r.token ELSE FreshToken]
           c == Candidate(r.at, f)
           s == [r EXCEPT !.pc = "link", !.file[r.at] = f]
<1>2. r.pc = "create" /\ life' = life /\ names' = WithName(c, f) /\ Become(p, s)
  BY <1>1 DEF Create
<1>3. r \in Procs /\ Staged(p, r) /\ r.at \in Paths /\ DirectoryOK
  BY Before DEF TidyInv
<1>4. r.un = None /\ r.rel = None
  BY <1>2, <1>3, PlainOf DEF UnlinkSteps, ReleaseSteps
<1>5. f \in Files /\ f.pid = Pid(p) /\ f.ino = i /\ \A m \in DOMAIN names : names[m].ino # i
  <2>1. i \in Inodes /\ \A m \in DOMAIN names : names[m].ino # i
    BY <1>3, FreshInode
  <2>2. FreshToken \in Nat /\ r.token \in Nat /\ Pid(p) \in Pids
    BY <1>3, FreshTokens, PidsDiffer DEF Procs
  <2> QED  BY <2>1, <2>2 DEF Files, Pids
<1> HIDE DEF f
<1>6. /\ s.pc = "link" /\ s.at = r.at /\ s.un = r.un /\ s.rel = r.rel /\ s.stale = r.stale
      /\ r.at = "lock" => s.file.lock = f
  BY <1>3 DEF Procs, Paths
<1>7. c \in Names /\ c[1] = "candidate" /\ c[3] = Pid(p)
  BY <1>3, <1>5, CandidateNames
<1> HIDE DEF s, c
<1>8. Staged(p, s)
  BY <1>3, <1>4, <1>6 DEF Staged
<1>9. proc'[p] = s /\ Pid(p)' = Pid(p)
  BY <1>2 DEF Become, LockInv, Pid
<1>10. \A path : At(path)' = At(path)
  <2> TAKE path
  <2>1. c # Canonical(path)
    BY <1>7 DEF Canonical
  <2> QED  BY <1>2, <2>1, OtherName
<1> SUFFICES ASSUME Tidy PROVE Careful(p) /\ Installs(p)' /\ Owes(p)'
  BY <1>2, <1>8, TidyStep
<1>11. Careful(p)
  <2>1. c \in DOMAIN names => names[c].pid = Pid(p)
    BY <1>7, CandidateFile
  <2>2. c # Canonical("election")
    BY <1>7 DEF Canonical
  <2> QED  BY <1>2, <1>5, <1>7, <2>1, <2>2 DEF Careful
<1>12. ~ Elected(proc[p])'
  BY <1>4, <1>6, <1>9 DEF Elected, InstalledSteps
<1>13. Installs(p)'
  BY <1>6, <1>9, <1>12 DEF Installs, InstalledSteps, VerifiedSteps
<1>14. ~ Owning(p)
  BY <1>2, NotOwning DEF OwningSteps, VerifiedSteps
<1>15. r.at = "lock" => {n \in DOMAIN names' : names'[n] = f} = {Candidate("lock", f)}
  <2> SUFFICES ASSUME r.at = "lock" PROVE {n \in DOMAIN names' : names'[n] = f} = {c}
    BY DEF c
  <2>1. /\ DOMAIN names' = DOMAIN names \cup {c} /\ names'[c] = f
        /\ \A m \in DOMAIN names : m # c => names'[m] = names[m]
    BY <1>2 DEF WithName
  <2>2. \A m \in DOMAIN names : names[m] # f
    BY <1>5
  <2> QED  BY <2>1, <2>2
<1>16. Owes(p)'
  BY <1>6, <1>9, <1>10, <1>14, <1>15 DEF Owes, Tidy, NamesOf, Candidate
<1> QED  BY <1>11, <1>13, <1>16

\* The candidate is linked to the free canonical name.
LEMMA TidyLinked ==
  ASSUME LockInv, LockInv', TidyInv, NEW p \in Slots, proc[p].pc \in {"link", "relink"}, NEW s, Become(p, s), life' = life,
         At(proc[p].at) = None, names' = WithName(Canonical(proc[p].at), Mine(p)),
         s.pc = "collapse", s.at = proc[p].at, s.file = proc[p].file, s.un = None, s.rel = None, s.stale = proc[p].stale
  PROVE  TidyInv'
<1> DEFINE r == proc[p]
           f == Mine(p)
           n == Canonical(r.at)
<1>1. Staged(p, r) /\ Sane(p, r) /\ DirectoryOK /\ r.at \in Paths /\ r \in Procs
  BY Before DEF TidyInv
<1>2. f = r.file[r.at] /\ f \in Files /\ f.pid = Pid(p) /\ f # None
  BY LinkableOf, LockAssumption DEF Linkable
<1>3. Staged(p, s)
  BY <1>1 DEF Staged
<1>4. proc'[p] = s /\ Pid(p)' = Pid(p)
  BY DEF Become, LockInv, Pid
<1>5. At(s.at)' = f
  <2>1. n \in DOMAIN names' /\ names'[n] = f
    <3>1. names' = WithName(n, f)
      OBVIOUS
    <3> HIDE DEF n, f
    <3> QED  BY <3>1 DEF WithName
  <2>2. \A path : At(path)' = IF Canonical(path) \in DOMAIN names' THEN names'[Canonical(path)] ELSE None
    BY DEF At, Canonical
  <2> QED  BY <2>1, <2>2
<1>6. \A path : path # r.at => At(path)' = At(path)
  <2> TAKE path
  <2>1. path # r.at => Canonical(r.at) # Canonical(path)
    BY DEF Canonical
  <2> QED  BY <2>1, OtherName
<1>7. n \in Names /\ n[1] = "canonical" /\ n \notin DOMAIN names
  <2>1. n \in DOMAIN names => names[n] = None
    BY DEF At
  <2> QED  BY <1>1, <2>1, CanonicalNames, LockAssumption DEF DirectoryOK
<1> SUFFICES ASSUME Tidy PROVE Careful(p) /\ Installs(p)' /\ Owes(p)'
  BY <1>3, TidyStep
<1>8. Careful(p)
  <2>1. n = Canonical("election") => SomeDeath
    <3> SUFFICES ASSUME n = Canonical("election") PROVE SomeDeath
      OBVIOUS
    <3>1. r.at = "election"
      BY DEF Canonical
    <3>2. r.stale # None /\ r.stale \in Files \cup {None} /\ Gone(r.stale.pid)
      BY <1>1, <3>1 DEF Staged, Sane, Procs
    <3>3. r.stale.pid[1] \in Slots /\ r.stale.pid[2] \in Nat
      BY <3>2 DEF Files, Pids
    <3>4. life[r.stale.pid[1]] \in Nat /\ r.stale.pid[2] < life[r.stale.pid[1]]
      BY <3>2, <3>3 DEF Gone, LockInv
    <3>5. life[r.stale.pid[1]] >= 1
      BY <3>3, <3>4
    <3> QED  BY <3>3, <3>5 DEF SomeDeath
  <2>2. names' = WithName(n, f)
    OBVIOUS
  <2> HIDE DEF n, f
  <2> QED  BY <1>2, <1>7, <2>1, <2>2 DEF Careful
<1>9. Elected(proc[p])' => r.at = "election"
  BY <1>4 DEF Elected
<1>10. Installs(p)'
  BY <1>2, <1>4, <1>5, <1>9 DEF Installs, InstalledSteps, VerifiedSteps, Mine
<1>11. ~ Owning(p)
  BY NotOwning DEF OwningSteps, VerifiedSteps
<1>12. r.at = "lock" => Owning(p)'
  <2> SUFFICES ASSUME r.at = "lock" PROVE Owning(p)'
    OBVIOUS
  <2>1. r.pc = "link"
    BY <1>1 DEF Sane, Prepared
  <2>2. NamesOf(f) = {Candidate("lock", f)}
    BY <1>2, <2>1 DEF Owes, Tidy
  <2> DEFINE c == Candidate("lock", f)
  <2>3. /\ DOMAIN names' = DOMAIN names \cup {n} /\ names'[n] = f
        /\ \A m \in DOMAIN names : m # n => names'[m] = names[m]
    BY DEF WithName
  <2>4. {m \in DOMAIN names' : names'[m] = f} = {n} \cup {c}
    <3> HIDE DEF n, c, f
    <3> QED  BY <1>7, <2>2, <2>3 DEF NamesOf, c
  <2>5. NamesOf(At("lock"))' = Sole \cup {Candidate("lock", At("lock"))}'
    <3>1. n = Canonical("lock") /\ At("lock")' = f
      BY <1>5
    <3> HIDE DEF f
    <3> QED  BY <2>4, <3>1 DEF NamesOf, Sole, Candidate
  <2> QED  BY <1>4, <2>5 DEF Owning, Sole, Canonical, Candidate
<1>13. Owes(p)'
  <2>1. r.at = "lock" \/ At("lock")' = At("lock")
    BY <1>1, <1>6 DEF Paths
  <2> QED  BY <1>4, <1>11, <1>12, <2>1 DEF Owes, Tidy
<1> QED  BY <1>8, <1>10, <1>13

\* It is published.
LEMMA TidyPublish ==
  ASSUME LockInv, LockInv', TidyInv, NEW p \in Slots, Publish(p)
  PROVE  TidyInv'
<1> DEFINE r == proc[p]
           q == SpendInstall(r)
           s == [q EXCEPT !.pc = "collapse"]
<1>1. /\ r.pc = "link" /\ At(r.at) = None /\ names' = WithName(Canonical(r.at), Mine(p)) /\ life' = life /\ Become(p, s)
  BY DEF Publish, Mine
<1>2. q \in Procs /\ q.pc = r.pc /\ q.un = r.un /\ q.rel = r.rel /\ q.at = r.at /\ q.file = r.file /\ q.stale = r.stale
  BY Before, SaneSpend
<1>3. r.un = None /\ r.rel = None
  BY <1>1, PlainOf DEF UnlinkSteps, ReleaseSteps, TidyInv
<1> HIDE DEF q
<1>4. s.pc = "collapse" /\ s.un = q.un /\ s.rel = q.rel /\ s.at = q.at /\ s.file = q.file /\ s.stale = q.stale
  BY <1>2 DEF Procs
<1> HIDE DEF s
<1> QED  BY <1>1, <1>2, <1>3, <1>4, TidyLinked

\* It is published again, after the election of a dead rival was removed.
LEMMA TidyRelink ==
  ASSUME LockInv, LockInv', TidyInv, NEW p \in Slots, Relink(p)
  PROVE  TidyInv'
<1> DEFINE r == proc[p]
<1>1. r.pc = "relink" /\ life' = life /\ r \in Procs /\ Sane(p, r) /\ Staged(p, r)
  BY Before DEF Relink, TidyInv
<1>2. r.at = "election" /\ r.un = None /\ r.rel = None
  BY <1>1, PlainOf DEF Sane, Prepared, UnlinkSteps, ReleaseSteps
<1>3. CASE At("election") = None
  <2> DEFINE s == [r EXCEPT !.pc = "collapse"]
  <2>1. names' = WithName(Canonical("election"), Mine(p)) /\ Become(p, s)
    BY <1>3 DEF Relink
  <2>2. s.pc = "collapse" /\ s.un = r.un /\ s.rel = r.rel /\ s.at = r.at /\ s.file = r.file /\ s.stale = r.stale
    BY <1>1 DEF Procs
  <2> HIDE DEF s
  <2> QED  BY <1>1, <1>2, <1>3, <2>1, <2>2, TidyLinked
<1>4. CASE At("election") # None
  <2>1. names' = names /\ Become(p, [r EXCEPT !.pc = "unelected"])
    BY <1>4 DEF Relink
  <2>2. Become(p, Go(r, "unelected", None)) /\ "unelected" \in Steps
    BY <1>1, <1>2, <2>1 DEF Go, Procs, Steps
  <2>3. Staged(p, Go(r, "unelected", None)) /\ Calm(Go(r, "unelected", None))
    BY <1>1, <1>2, <2>2, StagedGo DEF InstalledSteps, VerifiedSteps
  <2>4. ~ Owning(p)
    BY <1>1, NotOwning DEF OwningSteps, VerifiedSteps
  <2> QED  BY <1>1, <2>1, <2>2, <2>3, <2>4, TidyQuiet, CalmLoose
<1> QED  BY <1>3, <1>4

\* The name is taken: the candidate of a lock goes, that of an election waits.
LEMMA TidyRefused ==
  ASSUME LockInv, LockInv', TidyInv, NEW p \in Slots, Refused(p)
  PROVE  TidyInv'
<1> DEFINE r == proc[p]
           q == SpendInstall(r)
<1>1. r.pc = "link" /\ life' = life /\ Staged(p, r)
  BY DEF Refused, TidyInv
<1>2. /\ q \in Procs /\ q.pc = r.pc /\ q.un = r.un /\ q.rel = r.rel /\ q.at = r.at /\ q.file = r.file /\ q.stale = r.stale
      /\ r.at \in Paths
  BY Before, SaneSpend
<1>3. r.un = None /\ r.rel = None
  BY <1>1, PlainOf DEF UnlinkSteps, ReleaseSteps
<1>4. ~ Owning(p)
  BY <1>1, NotOwning DEF OwningSteps, VerifiedSteps
<1>5. CASE r.at = "lock"
  <2> DEFINE c == Candidate("lock", r.file.lock)
             s == [q EXCEPT !.pc = "inspect", !.file = NoFiles]
  <2>1. names' = WithoutName(c) /\ (Become(p, Outside) \/ Become(p, s))
    BY <1>2, <1>5 DEF Refused
  <2>2. c[1] = "candidate" /\ c[3] = Pid(p)
    BY <1>1, <1>5, LinkableOf DEF FiledSteps
  <2> HIDE DEF q, c
  <2>3. s.pc = "inspect" /\ s.un = None /\ s.rel = None /\ s.at = "lock" /\ s.stale = r.stale
    BY <1>2, <1>3, <1>5 DEF Procs
  <2> HIDE DEF s
  <2>4. Staged(p, s) /\ Calm(s)
    BY <1>1, <1>5, <2>3 DEF Staged, Calm, Elected, InstalledSteps, VerifiedSteps
  <2>5. Staged(p, Outside) /\ Calm(Outside)
    BY StagedOutside
  <2> QED  BY <1>1, <1>4, <2>1, <2>2, <2>4, <2>5, TidyDropped, CalmLoose
<1>6. CASE r.at = "election"
  <2>1. names' = names /\ Become(p, [q EXCEPT !.pc = "rival"])
    BY <1>2, <1>6 DEF Refused
  <2> HIDE DEF q
  <2>2. Become(p, Go(q, "rival", None)) /\ "rival" \in Steps
    BY <1>2, <1>3, <2>1 DEF Go, Procs, Steps
  <2>3. Staged(p, q)
    BY <1>1, <1>2 DEF Staged
  <2>4. Staged(p, Go(q, "rival", None)) /\ Calm(Go(q, "rival", None))
    BY <1>2, <1>3, <2>2, <2>3, StagedGo DEF InstalledSteps, VerifiedSteps
  <2> QED  BY <1>1, <1>4, <2>1, <2>2, <2>4, TidyQuiet, CalmLoose
<1> QED  BY <1>2, <1>5, <1>6 DEF Paths

\* The election is lost.
LEMMA TidyUnelected ==
  ASSUME LockInv, LockInv', TidyInv, NEW p \in Slots, Unelected(p)
  PROVE  TidyInv'
<1> DEFINE r == proc[p]
           c == Candidate("election", Mine(p))
<1>1. r.pc = "unelected" /\ life' = life /\ names' = WithoutName(c) /\ Become(p, Retry(r)) /\ r \in Procs /\ Sane(p, r)
  BY Before DEF Unelected
<1>2. r.at = "election"
  BY <1>1 DEF Sane, Prepared
<1>3. c[1] = "candidate" /\ c[3] = Pid(p)
  BY <1>1, <1>2, LinkableOf DEF FiledSteps
<1>4. ~ Owning(p)
  BY <1>1, NotOwning DEF OwningSteps, VerifiedSteps
<1> HIDE DEF c
<1> QED  BY <1>1, <1>3, <1>4, StagedAgain, TidyDropped, CalmLoose

(***************************************************************************)
(* The winner of the election, and safelyUnlink.                           *)
(***************************************************************************)
\* The winner of the election looks at the stale lock again.
LEMMA TidyConfirm ==
  ASSUME LockInv, LockInv', TidyInv, NEW p \in Slots, Confirm(p)
  PROVE  TidyInv'
<1> DEFINE r == proc[p]
           f == r.stale
           alias(n) == [Unlinking(r, n, f, {2}, None, None) EXCEPT !.pc = "alias"]
<1>1. /\ r.pc = "confirm" /\ names' = names /\ life' = life
      /\ \/ Become(p, [r EXCEPT !.pc = "reclaimable"])
         \/ DeadOwner(f) /\ At("lock") = f /\ \E n \in DOMAIN names : Become(p, alias(n))
         \/ Become(p, Abandon(r))
  BY DEF Confirm
<1>2. Sane(p, r) /\ r \in Procs /\ Staged(p, r) /\ DirectoryOK
  BY Before DEF TidyInv
<1>3. r.un = None /\ r.rel = None
  BY <1>1, <1>2, PlainOf DEF UnlinkSteps, ReleaseSteps
<1>4. ~ Owning(p)
  BY <1>1, NotOwning DEF OwningSteps, VerifiedSteps
<1>5. Elected(r)
  BY <1>1 DEF Elected
<1>6. CASE Become(p, [r EXCEPT !.pc = "reclaimable"])
  <2> DEFINE s == Go(r, "reclaimable", None)
  <2>1. Become(p, s) /\ "reclaimable" \in Steps
    BY <1>2, <1>3, <1>6 DEF Go, Procs, Steps
  <2>2. Staged(p, s) /\ s.pc = "reclaimable" /\ s.file = r.file
    BY <1>2, <1>3, <2>1, StagedGo
  <2> HIDE DEF s
  <2>3. Loose(r, s)
    BY <1>5, <2>2 DEF Loose, InstalledSteps, VerifiedSteps
  <2> QED  BY <1>1, <1>4, <2>1, <2>2, <2>3, TidyQuiet
<1>7. ASSUME DeadOwner(f), At("lock") = f, NEW n \in DOMAIN names, Become(p, alias(n))
      PROVE  TidyInv'
  <2> DEFINE u == [name |-> n, file |-> f, allowed |-> {2}, links |-> 0,
                   guard |-> None, removed |-> FALSE, ok |-> None, bad |-> None]
             s == Go(r, "alias", u)
  <2>1. u \in Unlinks
    BY <1>2, <1>7 DEF Unlinks, DirectoryOK, Procs
  <2>2. Become(p, s) /\ "alias" \in Steps
    BY <1>2, <1>7 DEF Unlinking, Go, Procs, Steps
  <2> HIDE DEF u
  <2>3. s.pc = "alias" /\ s.un = u /\ s.rel = r.rel /\ s.at = r.at /\ s.file = r.file /\ s.stale = r.stale
    BY <1>2, <2>1, <2>2, Moved
  <2> HIDE DEF s
  <2>4. Staged(p, s)
    BY <1>2, <1>3, <2>3 DEF Staged
  <2>5. Loose(r, s)
    BY <1>5, <2>3 DEF Loose, InstalledSteps, VerifiedSteps
  <2> QED  BY <1>1, <1>4, <2>2, <2>4, <2>5, TidyQuiet
<1>8. CASE Become(p, Abandon(r))
  BY <1>1, <1>2, <1>4, <1>8, StagedAbandon, TidyQuiet, CalmLoose
<1> QED  BY <1>1, <1>6, <1>7, <1>8

\* It takes the second name of the stale lock away.
LEMMA TidyDropAlias ==
  ASSUME LockInv, LockInv', TidyInv, NEW p \in Slots, DropAlias(p)
  PROVE  TidyInv'
<1> DEFINE r == proc[p]
           n == r.un.name
<1>1. /\ r.pc = "alias" /\ names' = WithoutName(n) /\ life' = life
      /\ \E x \in {"reclaimable", "abandon"} : Become(p, Enter(r, x))
  BY DEF DropAlias
<1>2. Sane(p, r) /\ r \in Procs /\ Staged(p, r)
  BY Before DEF TidyInv
<1>3. n[1] # "canonical" /\ (n[3] = Pid(p) \/ Gone(n[3]))
  BY <1>1, <1>2 DEF Sane, Target
<1>4. r.rel = None
  BY <1>1, <1>2 DEF Staged, ReleaseSteps, UnlinkSteps
<1>5. ~ Owning(p)
  BY <1>1, NotOwning DEF OwningSteps, VerifiedSteps
<1> HIDE DEF n
<1>6. CASE Become(p, Enter(r, "reclaimable"))
  <2> DEFINE s == Go(r, "reclaimable", None)
  <2>1. Become(p, s) /\ "reclaimable" \in Steps
    BY <1>6 DEF Enter, Go, Steps
  <2>2. Staged(p, s) /\ s.pc = "reclaimable" /\ s.file = r.file
    BY <1>2, <1>4, <2>1, StagedGo
  <2> HIDE DEF s
  <2>3. Loose(r, s)
    BY <1>1, <2>2 DEF Loose, Elected, InstalledSteps, VerifiedSteps
  <2> QED  BY <1>1, <1>3, <1>5, <2>1, <2>2, <2>3, TidyDropped
<1>7. CASE Become(p, Enter(r, "abandon"))
  <2>1. Staged(p, Enter(r, "abandon")) /\ Calm(Enter(r, "abandon"))
    BY <1>2, <1>4, StagedEnter DEF Returns
  <2> QED  BY <1>1, <1>3, <1>5, <1>7, <2>1, TidyDropped, CalmLoose
<1> QED  BY <1>1, <1>6, <1>7

\* It goes to unlink the stale lock.
LEMMA TidyReclaimable ==
  ASSUME LockInv, LockInv', TidyInv, NEW p \in Slots, Reclaimable(p)
  PROVE  TidyInv'
<1> DEFINE r == proc[p]
           f == r.stale
           c == Canonical("lock")
           s == Unlinking(r, c, f, {1}, "reclaimed", "abandon")
<1>1. /\ r.pc = "reclaimable" /\ names' = names /\ life' = life
      /\ (At("lock") = f /\ DeadOwner(f) /\ Become(p, s)) \/ Become(p, Abandon(r))
  BY DEF Reclaimable, Owns
<1>2. Sane(p, r) /\ r \in Procs /\ Staged(p, r)
  BY Before DEF TidyInv
<1>3. r.un = None /\ r.rel = None
  BY <1>1, <1>2, PlainOf DEF UnlinkSteps, ReleaseSteps
<1>4. CASE Become(p, Abandon(r))
  <2>1. ~ Owning(p)
    BY <1>1, NotOwning DEF OwningSteps, VerifiedSteps
  <2> QED  BY <1>1, <1>2, <1>4, <2>1, StagedAbandon, TidyQuiet, CalmLoose
<1>5. CASE At("lock") = f /\ DeadOwner(f) /\ Become(p, s)
  <2>1. f # None /\ f \in Files /\ Gone(f.pid)
    BY <1>5, DeadGone DEF Paths, DeadOwner
  <2>2. UnlinkCall(r, c, f, {1}, "reclaimed", "abandon")
    BY <1>3, <2>1, CanonicalNames DEF UnlinkCall, Paths, Returns
  <2>3. Staged(p, s) /\ s.pc = "pin" /\ s.file = r.file /\ s.stale = f /\ s.un.name = c /\ s.un.file = f
    BY <1>2, <2>2, StagedUnlinking
  <2>4. Become(p, s)
    BY <1>5
  <2> HIDE DEF s
  <2>5. proc'[p] = s /\ Pid(p)' = Pid(p) /\ \A path : At(path)' = At(path)
    BY <1>1, <2>4 DEF Become, LockInv, Pid, At, Canonical
  <2> SUFFICES ASSUME Tidy PROVE Careful(p) /\ Installs(p)' /\ Owes(p)'
    BY <1>1, <2>3, <2>4, TidyStep
  <2>6. At("election") = r.file.election /\ r.file.election # None
    BY <1>1 DEF Tidy, Installs, Elected
  <2>7. \A path \in Paths : Canonical(path) = c => path = "lock"
    BY DEF Canonical
  <2>8. \A pid : Gone(pid)' <=> Gone(pid)
    BY <1>1 DEF Gone
  <2>9. Installs(p)'
    BY <1>5, <2>1, <2>3, <2>5, <2>6, <2>7, <2>8 DEF Installs, InstalledSteps, Canonical
  <2>10. f.pid # Pid(p)
    BY <2>1, PidsDiffer
  <2>11. Owes(p)'
    BY <1>5, <2>3, <2>5, <2>10 DEF Owes
  <2> QED  BY <1>1, <2>9, <2>11 DEF Careful
<1> QED  BY <1>1, <1>4, <1>5

\* A step within safelyUnlink.
LEMMA TidyInner ==
  ASSUME LockInv, LockInv', TidyInv, NEW p \in Slots, proc[p].pc \in UnlinkSteps, NEW x \in UnlinkSteps, NEW v \in Unlinks,
         v.name = proc[p].un.name, v.file = proc[p].un.file, v.ok = proc[p].un.ok, v.bad = proc[p].un.bad,
         Become(p, Go(proc[p], x, v)), life' = life, Tidy => Careful(p),
         x \in VerifiedSteps => proc[p].pc \in VerifiedSteps /\ \A path \in Paths : At(path)' = At(path),
         At("lock")' \in {At("lock"), None}, Elected(proc[p]) => At("election")' = At("election"),
         Tidy /\ Owning(p) /\ At("lock")' # None => Owning(p)'
  PROVE  TidyInv'
<1> DEFINE r == proc[p]
           s == Go(r, x, v)
<1>1. r \in Procs /\ Staged(p, r) /\ x \in Steps /\ v \in Unlinks \cup {None} /\ r.un # None /\ v # None
  BY UnlinkOf, Before, LockAssumption DEF TidyInv, UnlinkSteps, Steps
<1>2. s.pc = x /\ s.un = v /\ s.rel = r.rel /\ s.at = r.at /\ s.file = r.file /\ s.stale = r.stale
  BY <1>1, Moved
<1>3. Become(p, s)
  OBVIOUS
<1> HIDE DEF s
<1>4. Staged(p, s)
  BY <1>1, <1>2 DEF Staged, UnlinkSteps, ReleaseSteps
<1>5. Elected(s) <=> Elected(r)
  BY <1>1, <1>2 DEF Elected, UnlinkSteps, InstalledSteps
<1>6. proc'[p] = s /\ Pid(p)' = Pid(p) /\ \A pid : Gone(pid)' <=> Gone(pid)
  BY <1>3 DEF Become, LockInv, Pid, Gone
<1> SUFFICES ASSUME Tidy PROVE Careful(p) /\ Installs(p)' /\ Owes(p)'
  BY <1>3, <1>4, TidyStep
<1>7. Installs(p) /\ Owes(p)
  BY DEF Tidy
<1>8. Elected(proc[p])' <=> Elected(s)
  BY <1>6 DEF Elected, Canonical
<1>9. Elected(s) => At("election")' = s.file.election /\ s.file.election # None
  BY <1>2, <1>5, <1>7 DEF Installs
<1>10. ASSUME NEW path \in Paths, x \in VerifiedSteps, v.name = Canonical(path)
       PROVE  /\ At(path)' = v.file /\ v.file # None
              /\ v.file.pid = Pid(p) \/ (path = "lock" /\ Gone(v.file.pid) /\ s.stale # None)
  BY <1>2, <1>7, <1>10 DEF Installs
<1>11. x \notin InstalledSteps /\ x # "link"
  BY DEF UnlinkSteps, InstalledSteps
<1>12. Installs(p)'
  <2>1. \A path : Canonical(path)' = Canonical(path)
    BY DEF Canonical
  <2> QED  BY <1>2, <1>6, <1>8, <1>9, <1>10, <1>11, <2>1 DEF Installs
<1>13. Owes(p)'
  <2>1. At("lock")' # None => At("lock")' = At("lock") /\ At("lock") # None
    OBVIOUS
  <2> QED  BY <1>2, <1>6, <1>7, <1>11, <2>1 DEF Owes
<1> QED  BY <1>12, <1>13

\* The name is pinned.
LEMMA TidyPin ==
  ASSUME LockInv, LockInv', TidyInv, NEW p \in Slots, Pin(p)
  PROVE  TidyInv'
<1> DEFINE r == proc[p]
           u == r.un
           n == u.name
           links == Links(names[n])
           good == n \in DOMAIN names /\ names[n].ino = u.file.ino /\ links \in u.allowed
           v == [u EXCEPT !.links = links]
<1>1. /\ r.pc = "pin" /\ names' = names /\ life' = life
      /\ Become(p, IF good THEN [r EXCEPT !.pc = "guard", !.un.links = links] ELSE Enter(r, u.bad))
  BY DEF Pin
<1>2. r \in Procs /\ Staged(p, r) /\ DirectoryOK /\ r.pc \in UnlinkSteps
  BY <1>1, Before DEF TidyInv, UnlinkSteps
<1>3. u \in Unlinks
  BY <1>2, UnlinkOf
<1>4. Careful(p) /\ \A path : At(path)' = At(path)
  BY <1>1 DEF Careful, At, Canonical
<1>5. Tidy /\ Owning(p) => /\ good /\ links = 1 /\ n = Canonical("lock") /\ At("lock") = names[n]
                           /\ 1 \in u.allowed /\ NamesOf(At("lock")) = Sole
  <2> SUFFICES ASSUME Tidy, Owning(p)
               PROVE  /\ good /\ links = 1 /\ n = Canonical("lock") /\ At("lock") = names[n]
                      /\ 1 \in u.allowed /\ NamesOf(At("lock")) = Sole
    OBVIOUS
  <2>1. n = Canonical("lock") /\ 1 \in u.allowed /\ NamesOf(At("lock")) = Sole
    BY <1>1 DEF Owning
  <2>2. At("lock") = u.file
    BY <1>1, <2>1 DEF Tidy, Installs, VerifiedSteps, Paths
  <2>3. n \in DOMAIN names /\ names[n] = At("lock")
    BY <2>1 DEF NamesOf, Sole
  <2>4. links = 1
    BY <1>2, <2>1, <2>3, LinksOf DEF Sole
  <2> QED  BY <2>1, <2>2, <2>3, <2>4
<1>6. CASE good
  <2>1. [r EXCEPT !.pc = "guard", !.un.links = links] = Go(r, "guard", v)
    BY <1>2 DEF Go, Procs
  <2>2. links \in Nat
    BY <1>3, <1>6 DEF Unlinks
  <2>3. Become(p, Go(r, "guard", v))
    BY <1>1, <1>6, <2>1
  <2> HIDE DEF links
  <2>4. /\ v \in Unlinks /\ v.name = u.name /\ v.file = u.file /\ v.allowed = u.allowed /\ v.ok = u.ok
        /\ v.bad = u.bad /\ v.links = links
    BY <1>3, <2>2 DEF Unlinks
  <2> HIDE DEF v, good
  <2> DEFINE s == Go(r, "guard", v)
  <2>5. "guard" \in UnlinkSteps /\ "guard" \in Steps /\ r.pc \in VerifiedSteps
    BY <1>1 DEF UnlinkSteps, Steps, VerifiedSteps
  <2>6. s.pc = "guard" /\ s.un = v
    BY <1>2, <2>4, <2>5, Moved
  <2>7. proc'[p] = s
    BY <2>3 DEF Become, LockInv
  <2> HIDE DEF s
  <2>8. ASSUME Tidy, Owning(p) PROVE Owning(p)'
    <3>1. NamesOf(At("lock"))' = NamesOf(At("lock"))
      BY <1>1, <1>4 DEF NamesOf
    <3> QED  BY <1>5, <2>4, <2>6, <2>7, <2>8, <3>1 DEF Owning, Sole, Canonical
  <2> QED  BY <1>1, <1>2, <1>4, <2>3, <2>4, <2>5, <2>8, TidyInner
<1>7. CASE ~ good
  <2>1. Become(p, Enter(r, u.bad)) /\ ~ (Tidy /\ Owning(p))
    BY <1>1, <1>5, <1>7
  <2>2. Staged(p, Enter(r, u.bad)) /\ Calm(Enter(r, u.bad))
    BY <1>2, StagedReturn
  <2> QED  BY <1>1, <2>1, <2>2, TidyQuiet, CalmLoose
<1> QED  BY <1>6, <1>7

\* What the name of such a call leads to is the process's own file or a dead process's.
LEMMA UnlinkedFile ==
  ASSUME LockInv, Tidy, NEW p \in Slots, proc[p].pc \in VerifiedSteps, proc[p].un.name \in DOMAIN names
  PROVE  LET n == proc[p].un.name
         IN  /\ names[n] \in Files /\ (names[n].pid = Pid(p) \/ Gone(names[n].pid))
             /\ n = Canonical("lock") => At("lock") = proc[p].un.file /\ (names[n].pid = Pid(p) \/ Elected(proc[p]))
             /\ n = Canonical("election") => names[n].pid = Pid(p)
<1> DEFINE u == proc[p].un
           n == u.name
<1>1. u # None /\ n \in Names /\ (n[1] # "canonical" => n[3] = Pid(p) \/ Gone(n[3]))
  BY UnlinkOf DEF VerifiedSteps, UnlinkSteps
<1>2. names[n] \in Files /\ names[n] # None
  BY LockAssumption DEF LockInv, DirectoryOK
<1>3. CASE n[1] = "canonical"
  <2>1. PICK path \in Paths : n = Canonical(path)
    BY <1>1, <1>3, NameKinds DEF Paths
  <2>2. At(path) = names[n]
    BY <2>1 DEF At
  <2>3. /\ At(path) = u.file
        /\ u.file.pid = Pid(p) \/ (path = "lock" /\ Gone(u.file.pid) /\ proc[p].stale # None)
    BY <2>1 DEF Tidy, Installs
  <2>4. (n = Canonical("lock") => path = "lock") /\ (n = Canonical("election") => path = "election")
    BY <2>1 DEF Canonical
  <2>5. n = Canonical("lock") /\ proc[p].stale # None => Elected(proc[p])
    BY <1>1 DEF Elected
  <2>6. path = "lock" => n = Canonical("lock")
    BY <2>1
  <2> HIDE DEF n
  <2> QED  BY <1>2, <2>2, <2>3, <2>4, <2>5, <2>6 DEF n
<1>4. CASE n[1] # "canonical"
  <2>1. n # Canonical("lock") /\ n # Canonical("election")
    BY <1>4 DEF Canonical
  <2> QED  BY <1>1, <1>2, <1>4, <2>1, OwnNames
<1> QED  BY <1>3, <1>4

\* The guard is linked.
LEMMA TidyLinkGuard ==
  ASSUME LockInv, LockInv', TidyInv, NEW p \in Slots, LinkGuard(p)
  PROVE  TidyInv'
<1> DEFINE r == proc[p]
           u == r.un
           n == u.name
           f == names[n]
           g == Guard(p, n)
           v == [u EXCEPT !.guard = g]
<1>1. /\ r.pc = "guard" /\ life' = life
      /\ \/ n \in DOMAIN names /\ names' = WithName(g, f) /\ Become(p, [r EXCEPT !.pc = "stillCurrent", !.un.guard = g])
         \/ n \notin DOMAIN names /\ names' = names /\ Become(p, Enter(r, u.bad))
  BY DEF LinkGuard
<1>2. r \in Procs /\ Sane(p, r) /\ Staged(p, r) /\ DirectoryOK /\ r.pc \in UnlinkSteps /\ r.pc \in VerifiedSteps
  BY <1>1, Before DEF TidyInv, UnlinkSteps, VerifiedSteps
<1>3. u \in Unlinks /\ n \in BaseNames
  BY <1>2, UnlinkOf
<1>4. u.links \in u.allowed
  BY <1>1, <1>2 DEF Sane
<1>5. Owning(p) => u.links = 1 /\ n = Canonical("lock") /\ NamesOf(At("lock")) = Sole
  BY <1>1, <1>3, <1>4 DEF Owning, Unlinks
<1>6. ASSUME n \in DOMAIN names, names' = WithName(g, f), Become(p, [r EXCEPT !.pc = "stillCurrent", !.un.guard = g])
      PROVE  TidyInv'
  <2>1. g \in GuardNames /\ g[1] = "guard" /\ g[3] = Pid(p)
    BY <1>2, <1>3, GuardName DEF LockInv
  <2>2. [r EXCEPT !.pc = "stillCurrent", !.un.guard = g] = Go(r, "stillCurrent", v)
    BY <1>2 DEF Go, Procs
  <2> HIDE DEF g
  <2>3. /\ v \in Unlinks /\ v.name = u.name /\ v.file = u.file /\ v.ok = u.ok /\ v.bad = u.bad /\ v.guard = g
        /\ v.links = u.links
    BY <1>3, <2>1 DEF Unlinks
  <2> HIDE DEF v
  <2> DEFINE s == Go(r, "stillCurrent", v)
  <2>4. "stillCurrent" \in UnlinkSteps /\ "stillCurrent" \in Steps /\ Become(p, s)
    BY <1>6, <2>2 DEF UnlinkSteps, Steps
  <2>5. s.pc = "stillCurrent" /\ s.un = v
    BY <1>2, <2>3, <2>4, Moved
  <2>6. proc'[p] = s
    BY <2>4 DEF Become, LockInv
  <2>7. Become(p, Go(r, "stillCurrent", v))
    BY <2>4
  <2> HIDE DEF s
  <2>8. \A path : At(path)' = At(path)
    <3> TAKE path
    <3>1. g # Canonical(path)
      BY <2>1 DEF Canonical
    <3> QED  BY <1>6, <3>1, OtherName
  <2>9. g \in Names /\ g # Canonical("lock") /\ g # Canonical("election")
    BY <2>1 DEF Names, Canonical
  <2>10. Tidy => Careful(p)
    <3> SUFFICES ASSUME Tidy PROVE Careful(p)
      OBVIOUS
    <3>1. f \in Files /\ (f.pid = Pid(p) \/ Gone(f.pid))
      BY <1>2, <1>6, UnlinkedFile
    <3>2. g \in DOMAIN names => names[g].pid = Pid(p) \/ Gone(names[g].pid)
      BY <2>1, OwnNames
    <3>3. names' = WithName(g, f)
      BY <1>6
    <3> HIDE DEF f
    <3> QED  BY <2>1, <2>9, <3>1, <3>2, <3>3 DEF Careful
  <2>11. ASSUME Tidy, Owning(p) PROVE Owning(p)'
    <3>1. f = At("lock") /\ NamesOf(f) = Sole
      BY <1>5, <1>6, <2>11 DEF At
    <3>2. /\ DOMAIN names' = DOMAIN names \cup {g} /\ names'[g] = f
          /\ \A m \in DOMAIN names : m # g => names'[m] = names[m]
      BY <1>6 DEF WithName
    <3> HIDE DEF f
    <3>3. {m \in DOMAIN names' : names'[m] = f} = Sole \cup {g}
      BY <2>9, <3>1, <3>2 DEF NamesOf, Sole
    <3>4. NamesOf(At("lock"))' = Sole \cup {g}
      BY <2>8, <3>1, <3>3 DEF NamesOf
    <3> QED  BY <1>5, <2>3, <2>5, <2>6, <2>11, <3>4 DEF Owning, Sole, Canonical
  <2> QED  BY <1>1, <1>2, <2>3, <2>4, <2>7, <2>8, <2>10, <2>11, TidyInner
<1>7. ASSUME n \notin DOMAIN names, names' = names, Become(p, Enter(r, u.bad))
      PROVE  TidyInv'
  <2>1. ~ Owning(p)
    BY <1>5, <1>7 DEF NamesOf, Sole
  <2>2. Staged(p, Enter(r, u.bad)) /\ Calm(Enter(r, u.bad))
    BY <1>2, StagedReturn
  <2> QED  BY <1>1, <1>7, <2>1, <2>2, TidyQuiet, CalmLoose
<1> QED  BY <1>1, <1>6, <1>7

\* The owner's call finds what it left.
LEMMA GuardedOwner ==
  ASSUME LockInv, Tidy, NEW p \in Slots, proc[p].pc \in {"stillCurrent", "trust", "unlink"}, Owning(p)
  PROVE  LET u == proc[p].un
         IN  /\ u.name = Canonical("lock") /\ u.links = 1
             /\ {u.guard, u.name} \subseteq DOMAIN names /\ names[u.guard] = u.file /\ names[u.name] = u.file
             /\ Links(u.file) = u.links + 1
<1> DEFINE u == proc[p].un
           c == Canonical("lock")
<1>1. u.name = c /\ u.links = 1 /\ NamesOf(At("lock")) = {c} \cup {u.guard}
  BY DEF Owning, Sole
<1>2. At("lock") = u.file
  BY <1>1 DEF Tidy, Installs, VerifiedSteps, Paths
<1>3. u.guard # c /\ DirectoryOK
  <2>1. u.guard[1] = "guard"
    BY UnlinkOf DEF UnlinkSteps, GuardedSteps
  <2> QED  BY <2>1, Before DEF Canonical
<1>4. Links(u.file) = 2
  BY <1>1, <1>2, <1>3, LinksOf
<1> QED  BY <1>1, <1>2, <1>4 DEF NamesOf

\* From one of these steps to the next, or away to take the guard off.
LEMMA TidyGuarded ==
  ASSUME LockInv, LockInv', TidyInv, NEW p \in Slots, proc[p].pc \in {"stillCurrent", "trust"},
         NEW x \in {"trust", "unlink", "unguard"}, Become(p, [proc[p] EXCEPT !.pc = x]), names' = names, life' = life,
         Tidy /\ Owning(p) => x # "unguard"
  PROVE  TidyInv'
<1> DEFINE r == proc[p]
           s == Go(r, x, r.un)
<1>1. r \in Procs /\ Staged(p, r) /\ r.pc \in UnlinkSteps /\ r.pc \in VerifiedSteps
  BY Before DEF TidyInv, UnlinkSteps, VerifiedSteps
<1>2. r.un \in Unlinks /\ x \in UnlinkSteps /\ x \in Steps
  BY <1>1, UnlinkOf DEF UnlinkSteps, Steps
<1>3. Become(p, s)
  BY <1>1, <1>2, GoStep
<1>4. s.pc = x /\ s.un = r.un
  BY <1>1, <1>2, Moved
<1>5. Careful(p) /\ \A path : At(path)' = At(path)
  BY DEF Careful, At, Canonical
<1>6. Become(p, Go(r, x, r.un))
  BY <1>3
<1> HIDE DEF s
<1>7. proc'[p] = s
  BY <1>3 DEF Become, LockInv
<1>8. ASSUME Tidy, Owning(p) PROVE Owning(p)'
  <2>1. r.un.name = Canonical("lock") /\ r.un.links = 1 /\ NamesOf(At("lock")) = Sole \cup {r.un.guard}
    BY <1>8 DEF Owning
  <2>2. NamesOf(At("lock"))' = NamesOf(At("lock"))
    BY <1>5 DEF NamesOf
  <2> QED  BY <1>4, <1>7, <1>8, <2>1, <2>2 DEF Owning, Sole, Canonical
<1> QED  BY <1>1, <1>2, <1>5, <1>6, <1>8, TidyInner

\* The name is looked at again behind the guard.
LEMMA TidyStillCurrent ==
  ASSUME LockInv, LockInv', TidyInv, NEW p \in Slots, StillCurrent(p)
  PROVE  TidyInv'
<1> DEFINE r == proc[p]
           u == r.un
           same == /\ {u.guard, u.name} \subseteq DOMAIN names
                   /\ names[u.guard].ino = u.file.ino
                   /\ names[u.name].ino = u.file.ino
                   /\ Links(u.file) = u.links + 1
           x == IF same THEN "trust" ELSE "unguard"
<1>1. r.pc = "stillCurrent" /\ names' = names /\ life' = life /\ Become(p, [r EXCEPT !.pc = x])
  BY DEF StillCurrent
<1>2. Tidy /\ Owning(p) => same
  BY <1>1, GuardedOwner
<1>3. x \in {"trust", "unlink", "unguard"} /\ (same => x = "trust")
  OBVIOUS
<1> HIDE DEF x, same
<1> QED  BY <1>1, <1>2, <1>3, TidyGuarded

\* The token is read.
LEMMA TidyTrust ==
  ASSUME LockInv, LockInv', TidyInv, NEW p \in Slots, Trust(p)
  PROVE  TidyInv'
<1> DEFINE r == proc[p]
           u == r.un
           mine == u.guard \in DOMAIN names /\ names[u.guard] = u.file /\ Links(u.file) = u.links + 1
           x == IF mine THEN "unlink" ELSE "unguard"
<1>1. r.pc = "trust" /\ names' = names /\ life' = life /\ Become(p, [r EXCEPT !.pc = x])
  BY DEF Trust
<1>2. Tidy /\ Owning(p) => mine
  BY <1>1, GuardedOwner
<1>3. x \in {"trust", "unlink", "unguard"} /\ (mine => x = "unlink")
  OBVIOUS
<1> HIDE DEF x, mine
<1> QED  BY <1>1, <1>2, <1>3, TidyGuarded

\* The name is removed.
LEMMA TidyUnlink ==
  ASSUME LockInv, LockInv', TidyInv, NEW p \in Slots, Unlink(p)
  PROVE  TidyInv'
<1> DEFINE r == proc[p]
           u == r.un
           n == u.name
           x == IF n \in DOMAIN names THEN "remaining" ELSE "unguard"
<1>1. r.pc = "unlink" /\ names' = WithoutName(n) /\ life' = life /\ Become(p, [r EXCEPT !.pc = x])
  BY DEF Unlink
<1>2. r \in Procs /\ r.pc \in UnlinkSteps /\ r.pc \in VerifiedSteps
  BY <1>1, Before DEF UnlinkSteps, VerifiedSteps
<1>3. u \in Unlinks
  BY <1>2, UnlinkOf
<1>4. x \in UnlinkSteps /\ x \in Steps /\ x \notin VerifiedSteps
  BY DEF UnlinkSteps, Steps, VerifiedSteps
<1> HIDE DEF x
<1>5. Become(p, Go(r, x, u))
  BY <1>1, <1>2, <1>4, GoStep
<1>6. Tidy => Careful(p)
  <2>1. Tidy /\ n \in DOMAIN names =>
          names[n].pid = Pid(p) \/ (Gone(names[n].pid) /\ (n = Canonical("lock") => Elected(r)))
    BY <1>2, UnlinkedFile
  <2> HIDE DEF n
  <2> QED  BY <1>1, <2>1 DEF Careful
<1>7. At("lock")' \in {At("lock"), None} /\ (n = Canonical("lock") => At("lock")' = None)
  BY <1>1 DEF At, Canonical, WithoutName, Restrict
<1>8. Elected(r) => At("election")' = At("election")
  <2> SUFFICES ASSUME Elected(r) PROVE At("election")' = At("election")
    OBVIOUS
  <2>1. n = Canonical("lock")
    BY <1>1 DEF Elected, InstalledSteps
  <2>2. n # Canonical("election")
    BY <2>1 DEF Canonical
  <2> QED  BY <1>1, <2>2, OtherName
<1>9. Owning(p) => n = Canonical("lock")
  BY <1>1 DEF Owning
<1> QED  BY <1>1, <1>2, <1>3, <1>4, <1>5, <1>6, <1>7, <1>8, <1>9, TidyInner

\* Its guard is what remains.
LEMMA TidyRemaining ==
  ASSUME LockInv, LockInv', TidyInv, NEW p \in Slots, Remaining(p)
  PROVE  TidyInv'
<1> DEFINE r == proc[p]
           u == r.un
           rem == u.guard \in DOMAIN names /\ names[u.guard] = u.file /\ Links(u.file) = u.links
           v == [u EXCEPT !.removed = rem]
<1>1. /\ r.pc = "remaining" /\ names' = names /\ life' = life
      /\ Become(p, [r EXCEPT !.pc = "unguard", !.un.removed = rem])
  BY DEF Remaining
<1>2. r \in Procs /\ r.pc \in UnlinkSteps
  BY <1>1, Before DEF UnlinkSteps
<1>3. u \in Unlinks
  BY <1>2, UnlinkOf
<1>4. rem \in BOOLEAN
  OBVIOUS
<1> HIDE DEF rem
<1>5. Become(p, Go(r, "unguard", v))
  BY <1>1, <1>2 DEF Go, Procs
<1>6. /\ v \in Unlinks /\ v.name = u.name /\ v.file = u.file /\ v.ok = u.ok /\ v.bad = u.bad
  BY <1>3, <1>4 DEF Unlinks
<1> HIDE DEF v
<1>7. "unguard" \in UnlinkSteps /\ "unguard" \notin VerifiedSteps
  BY DEF UnlinkSteps, VerifiedSteps
<1>8. ~ Owning(p)
  BY <1>1, NotOwning DEF OwningSteps, VerifiedSteps
<1>9. Careful(p) /\ \A path : At(path)' = At(path)
  BY <1>1 DEF Careful, At, Canonical
<1> QED  BY <1>1, <1>2, <1>5, <1>6, <1>7, <1>8, <1>9, TidyInner

\* The guard goes, and the call returns.
LEMMA TidyUnguard ==
  ASSUME LockInv, LockInv', TidyInv, NEW p \in Slots, Unguard(p)
  PROVE  TidyInv'
<1> DEFINE r == proc[p]
           u == r.un
           g == u.guard
<1>1. /\ r.pc = "unguard" /\ life' = life
      /\ names' = names \/ names' = WithoutName(g)
      /\ \E x \in {u.ok, u.bad} : Become(p, Enter(r, x))
  BY DEF Unguard
<1>2. PICK x \in {u.ok, u.bad} : Become(p, Enter(r, x))
  BY <1>1
<1>3. Staged(p, r) /\ r.pc \in UnlinkSteps /\ r.pc \in GuardedSteps
  BY <1>1 DEF TidyInv, UnlinkSteps, GuardedSteps
<1>4. g[1] # "canonical" /\ g[3] = Pid(p)
  BY <1>3, UnlinkOf
<1>5. Staged(p, Enter(r, x)) /\ Calm(Enter(r, x))
  BY <1>3, StagedReturn
<1>6. ~ Owning(p)
  BY <1>1, NotOwning DEF OwningSteps, VerifiedSteps
<1> HIDE DEF g
<1>7. CASE names' = names
  BY <1>1, <1>2, <1>5, <1>6, <1>7, TidyQuiet, CalmLoose
<1>8. CASE names' = WithoutName(g)
  BY <1>1, <1>2, <1>4, <1>5, <1>6, <1>8, TidyDropped, CalmLoose
<1> QED  BY <1>1, <1>7, <1>8

(***************************************************************************)
(* The first death, and the past.                                          *)
(***************************************************************************)
\* The first process that dies leaves what it had to the others: no election was open before
\* it, and its lock is owed by nobody.
LEMMA TidyCrash ==
  ASSUME LockInv, LockInv', TidyInv, NEW p \in Slots, Crash(p)
  PROVE  TidyInv'
<1>1. life' = [life EXCEPT ![p] = @ + 1] /\ proc' = [proc EXCEPT ![p] = Outside] /\ names' = names
  BY DEF Crash, Become
<1>2. life \in [Slots -> Nat] /\ DirectoryOK /\ proc \in [Slots -> Procs]
  BY DEF LockInv
<1>3. /\ life'[p] = life[p] + 1 /\ \A q \in Slots : q # p => life'[q] = life[q]
      /\ proc'[p] = Outside /\ \A q \in Slots : q # p => proc'[q] = proc[q]
  BY <1>1, <1>2
<1>4. \A q \in Slots : q # p => Pid(q)' = Pid(q)
  BY <1>3 DEF Pid
<1>5. \A path : At(path)' = At(path)
  BY <1>1 DEF At, Canonical
<1>6. \A q \in Slots : Staged(q, proc[q])'
  <2> TAKE q \in Slots
  <2>1. CASE q = p
    <3>1. Outside.at = "lock" /\ Outside.stale = None /\ Outside.un = None /\ Outside.rel = None
      BY DEF Outside
    <3> QED  BY <1>3, <2>1, <3>1 DEF Staged
  <2>2. CASE q # p
    <3>1. Staged(q, proc[q]) /\ proc'[q] = proc[q] /\ Pid(q)' = Pid(q)
      BY <1>3, <1>4, <2>2 DEF TidyInv
    <3> QED  BY <3>1 DEF Staged
  <2> QED  BY <2>1, <2>2
<1>7. ASSUME OneDeath' PROVE Tidy'
  <2>1. \A q \in Slots : life[q] = 0
    <3> TAKE q \in Slots
    <3>1. life[q] \in Nat /\ life[p] \in Nat /\ life'[p] <= 1 /\ life'[q] <= 1
          /\ (life'[q] = 1 /\ life'[p] = 1 => q = p)
      BY <1>2, <1>7 DEF OneDeath
    <3>2. life[p] = 0
      BY <1>3, <3>1
    <3> QED  BY <1>3, <3>1, <3>2
  <2>2. Tidy
    BY <2>1 DEF OneDeath, TidyInv
  <2>3. \A f \in Files : ~ Gone(f.pid)
    <3> TAKE f \in Files
    <3>1. f.pid[1] \in Slots /\ f.pid[2] \in Nat
      BY DEF Files, Pids
    <3> QED  BY <2>1, <3>1 DEF Gone
  <2>4. \A n \in DOMAIN names : n[1] = "guard" => names[n].pid = n[3]
    BY <1>2, <2>2, <2>3 DEF Tidy, DirectoryOK
  <2>5. At("election") = None
    <3>1. ~ SomeDeath
      BY <2>1 DEF SomeDeath
    <3> QED  BY <2>2, <3>1 DEF Tidy
  <2>6. ASSUME NEW q \in Slots PROVE Installs(q)' /\ Owes(q)'
    <3>1. CASE q = p
      <4>1. /\ Outside.pc \notin InstalledSteps \cup VerifiedSteps \cup {"link"}
            /\ ~ Elected(Outside)
        BY StagedOutside DEF Calm, Outside
      <4>2. ~ Elected(proc[p])'
        BY <1>3, <4>1 DEF Elected, Canonical
      <4>3. Installs(p)'
        BY <1>3, <4>1, <4>2 DEF Installs
      <4>4. At("lock") # None => At("lock").pid # Pid(p)'
        <5> SUFFICES ASSUME At("lock") # None PROVE At("lock").pid # Pid(p)'
          OBVIOUS
        <5> DEFINE pid == At("lock").pid
        <5>1. At("lock") \in Files /\ Known(pid)
          <6>1. Canonical("lock") \in DOMAIN names /\ At("lock") = names[Canonical("lock")]
            BY DEF At
          <6> QED  BY <1>2, <6>1 DEF DirectoryOK
        <5>2. pid[1] \in Slots /\ pid[2] \in Nat
          BY <5>1 DEF Files, Pids
        <5>3. Pid(p)' = <<p, 1>>
          BY <1>3, <2>1 DEF Pid
        <5>4. pid[2] = 0
          BY <2>1, <5>1, <5>2 DEF Known
        <5> QED  BY <5>3, <5>4
      <4>5. Owes(p)'
        BY <1>3, <1>5, <4>1, <4>4 DEF Owes
      <4> QED  BY <3>1, <4>3, <4>5
    <3>2. CASE q # p
      <4>1. proc'[q] = proc[q] /\ Pid(q)' = Pid(q) /\ Installs(q) /\ Owes(q)
        BY <1>3, <1>4, <2>2, <3>2 DEF Tidy
      <4>2. Elected(proc[q])' <=> Elected(proc[q])
        BY <4>1 DEF Elected, Canonical
      <4>3. ASSUME NEW path \in Paths, proc[q].pc \in VerifiedSteps, proc[q].un.name = Canonical(path)
            PROVE  At(path) = proc[q].un.file /\ proc[q].un.file # None /\ proc[q].un.file.pid = Pid(q)
        <5>1. At(path) = proc[q].un.file /\ At(path) # None
          BY <4>1, <4>3 DEF Installs
        <5>2. ~ Gone(proc[q].un.file.pid)
          BY <2>3, <5>1, DeadGone
        <5> QED  BY <4>1, <4>3, <5>1, <5>2 DEF Installs
      <4>4. \A path : Canonical(path)' = Canonical(path)
        BY DEF Canonical
      <4>5. Installs(q)'
        BY <1>5, <4>1, <4>2, <4>3, <4>4 DEF Installs, Mine
      <4>6. \A f : {n \in DOMAIN names' : names'[n] = f} = NamesOf(f)
        BY <1>1 DEF NamesOf
      <4>7. Owning(q) => Owning(q)'
        <5>1. NamesOf(At("lock"))' = NamesOf(At("lock"))
          BY <1>1, <1>5 DEF NamesOf
        <5> QED  BY <1>5, <4>1, <5>1 DEF Owning, Sole, Canonical, Candidate
      <4>8. Owes(q)'
        BY <1>5, <4>1, <4>6, <4>7 DEF Owes, NamesOf, Candidate
      <4> QED  BY <4>5, <4>8
    <3> QED  BY <3>1, <3>2
  <2>7. \A n \in DOMAIN names' : n[1] = "guard" => names'[n].pid = n[3]
    BY <1>1, <2>4
  <2> QED  BY <1>5, <2>5, <2>6, <2>7 DEF Tidy
<1> QED  BY <1>6, <1>7 DEF TidyInv

\* What the dead left is nobody's; an election among it took two deaths.
LEMMA InitTidy ==
  ASSUME Init
  PROVE  TidyInv
<1>1. proc = [p \in Slots |-> Outside] /\ Outside.pc = "idle"
  BY DEF Init, Outside
<1>2. /\ LockInv
      /\ \A n \in DOMAIN names : Gone(names[n].pid) /\ (n = Canonical("election") => \E q \in Slots : life[q] >= 2)
  BY InitLock, LeftDirectory
<1>3. \A p \in Slots : proc[p] = Outside
  BY <1>1
<1>4. \A p \in Slots : Staged(p, proc[p]) /\ Calm(proc[p])
  BY <1>3, StagedOutside
<1>5. ASSUME OneDeath PROVE Tidy
  <2>1. Canonical("election") \notin DOMAIN names
    <3>1. \A q \in Slots : life[q] \in Nat /\ life[q] <= 1
      BY <1>2, <1>5 DEF LockInv, OneDeath
    <3>2. \A q \in Slots : ~ (life[q] >= 2)
      BY <3>1
    <3> QED  BY <1>2, <3>2
  <2>2. ASSUME NEW p \in Slots PROVE Installs(p) /\ Owes(p)
    <3>1. Installs(p)
      BY <1>3, <1>4, <2>2 DEF Installs, Calm
    <3>2. At("lock") # None => Gone(At("lock").pid)
      BY <1>2 DEF At
    <3>3. Owes(p)
      BY <1>1, <1>2, <1>3, <3>2, PidsDiffer DEF Owes
    <3> QED  BY <3>1, <3>3
  <2> QED  BY <1>2, <2>1, <2>2 DEF Tidy, At
<1> QED  BY <1>4, <1>5 DEF TidyInv

\* A call keeps it.
LEMMA RunTidy ==
  ASSUME LockInv, LockInv', TidyInv, NEW p \in Slots, Run(p)
  PROVE  TidyInv'
BY TidyLook, TidyCreate, TidyPublish, TidyRefused, TidyInspect, TidyCollapse, TidyDropCandidate, TidyVerify,
   TidySettled, TidyRolledBack, TidyRival, TidyRelink, TidyUnelected, TidyConfirm, TidyDropAlias, TidyReclaimable,
   TidyPin, TidyLinkGuard, TidyStillCurrent, TidyTrust, TidyUnlink, TidyRemaining, TidyUnguard,
   TidyRelease, TidyReleased
   DEF Run

\* Every step does.
LEMMA NextTidy ==
  ASSUME LockInv, LockInv', TidyInv, [Next]_vars
  PROVE  TidyInv'
<1>1. CASE UNCHANGED vars
  <2>1. names' = names /\ proc' = proc /\ life' = life
    BY <1>1 DEF vars
  <2>2. \A path : At(path)' = At(path) /\ Canonical(path)' = Canonical(path)
    BY <2>1 DEF At, Canonical
  <2>3. \A p \in Slots : /\ Pid(p)' = Pid(p) /\ (Staged(p, proc[p]) => Staged(p, proc[p])')
                         /\ Elected(proc[p])' <=> Elected(proc[p])
    BY <2>1 DEF Pid, Staged, Elected, Canonical
  <2>4. \A p \in Slots : (Installs(p) => Installs(p)') /\ (Owning(p) => Owning(p)')
    <3> TAKE p \in Slots
    <3>1. Installs(p) => Installs(p)'
      BY <2>1, <2>2, <2>3 DEF Installs, Mine, Gone
    <3>2. NamesOf(At("lock"))' = NamesOf(At("lock"))
      BY <2>1, <2>2 DEF NamesOf
    <3>3. Owning(p) => Owning(p)'
      BY <2>1, <2>2, <3>2 DEF Owning, Sole, Canonical, Candidate
    <3> QED  BY <3>1, <3>3
  <2>5. \A p \in Slots : Owes(p) => Owes(p)'
    BY <2>1, <2>2, <2>3, <2>4 DEF Owes, NamesOf, Candidate
  <2>6. Tidy => Tidy'
    BY <2>1, <2>2, <2>4, <2>5 DEF Tidy, SomeDeath, Gone
  <2>7. OneDeath' => OneDeath
    BY <2>1 DEF OneDeath
  <2> QED  BY <2>3, <2>6, <2>7 DEF TidyInv
<1>2. CASE Next
  <2>1. PICK p \in Slots : Acquire(p) \/ Expire(p) \/ Run(p) \/ HolderReleases(p) \/ Crash(p)
    BY <1>2 DEF Next
  <2> QED  BY <2>1, TidyAcquire, TidyExpire, RunTidy, TidyHolderReleases, TidyCrash
<1> QED  BY <1>1, <1>2

\* While at most one process has died: whatever is installed or about to be unlinked is what
\* the process takes it for, and the lock of a live process is in its hands, under the names
\* its next steps expect.
THEOREM TidyInvariant == Spec => []TidyInv
<1>1. Init => TidyInv
  BY InitTidy
<1>2. LockInv /\ LockInv' /\ TidyInv /\ [Next]_vars => TidyInv'
  BY NextTidy
<1> QED  BY <1>1, <1>2, LockInvariant, PTL DEF Spec

\* Stale deletion is serialized: as long as nobody died in the election, two processes are
\* never between winning it and giving it back.
THEOREM ReclaimersSerialized == Spec => []OneReclaimerUnlessElectedDies
<1>1. LockInv /\ TidyInv => OneReclaimerUnlessElectedDies
  <2> SUFFICES ASSUME LockInv, TidyInv, OneDeath, NEW p \in Slots, NEW q \in Slots, Reclaiming(p), Reclaiming(q)
               PROVE  p = q
    BY DEF OneReclaimerUnlessElectedDies, OneReclaimer
  <2>1. Elected(proc[p]) /\ Elected(proc[q]) /\ Tidy
    BY DEF Reclaiming, Elected, TidyInv
  <2> QED  BY <2>1, OneElected
<1> QED  BY <1>1, LockInvariant, TidyInvariant, PTL

\* A process that lives and is in no call has left no lock installed, whatever failed in its calls.
THEOREM NothingIsLeft == Spec => []NothingLeft
<1>1. TidyInv => NothingLeft
  <2> SUFFICES ASSUME TidyInv, OneDeath, NEW p \in Slots, proc[p].pc = "idle", At("lock") # None, At("lock").pid = Pid(p)
               PROVE  FALSE
    BY DEF NothingLeft
  <2>1. Owning(p)
    BY DEF TidyInv, Tidy, Owes
  <2> QED  BY <2>1, NotOwning DEF OwningSteps, VerifiedSteps
<1> QED  BY <1>1, TidyInvariant, PTL
=============================================================================
