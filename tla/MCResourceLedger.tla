-------------------------- MODULE MCResourceLedger --------------------------
(***************************************************************************)
(* Small pools for TLC.  Account acct has remote workers: general and spark*)
(* are pinned to different quota scopes, shared is not pinned.  Account box*)
(* has the worker local.                                                   *)
(***************************************************************************)
EXTENDS ResourceLedger, TLC

CONSTANTS general, spark, shared, local, acct, box, generalScope, sparkScope,
          primary, codexWin, sparkWin, overflowWin

MCAccounts == {acct, box}
MCAccount == [w \in Workers |-> IF w = local THEN box ELSE acct]
MCQuotaScope == [w \in Workers |-> IF w = general THEN generalScope ELSE IF w = spark THEN sparkScope ELSE NoScope]
MCScopeWindows == generalScope :> {codexWin} @@ sparkScope :> {sparkWin}
MCWindowRank == codexWin :> 1 @@ sparkWin :> 2 @@ primary :> 3 @@ overflowWin :> 4
MCReserve == [w \in Workers |-> 20]
MCPriority == [w \in Workers |-> 1]
MCRank == [w \in Workers |-> CASE w = general -> 1 [] w = spark -> 2 [] w = shared -> 3 [] w = local -> 4]
One == [a \in MCAccounts |-> 1]
Two == [a \in MCAccounts |-> 2]

Anyone == [c \in Contents |-> Workers]
NoGate == [unavailable |-> {}, quotaUnavailable |-> {}]
OpenGates == {NoGate}
None == {NoReport}

Row(health, at, expires, updated, windows, retry) ==
  [health |-> health, observedAt |-> at, expiresAt |-> expires, updatedAt |-> updated,
   windows |-> windows, retryAfter |-> retry]
Win(used, resets) == [used |-> used, resets |-> resets]
NoWindows == [id \in {} |-> NoEvidence]

\* Complete readings, refusals, and partial updates (updatedAt after observedAt) of the
\* unpinned alias, whose window inventory can grow past MaxWindows = 2 ...
SharedRows ==
  {Row("ready", 1, 4, Null, codexWin :> Win(10, 4) @@ primary :> Win(10, 4), Null),
   Row("unavailable", 1, 2, Null, NoWindows, Null),
   Row("ready", 1, 3, 2, codexWin :> Win(90, 4), Null),
   Row("ready", 2, 3, Null, codexWin :> Win(10, 4), Null),
   Row("ready", 2, 4, Null, sparkWin :> Win(10, 2), 3),
   Row("ready", 3, 5, Null, codexWin :> Win(Null, 4) @@ primary :> Win(50, 4), Null)}
\* ... and of the aliases pinned to a scope.
GeneralRows ==
  {Row("ready", 1, 4, Null, codexWin :> Win(50, 4), Null),
   Row("ready", 1, 3, 2, codexWin :> Win(80, Null), Null)}

EvidenceSnapshots ==
  {shared :> row : row \in SharedRows} \cup {general :> row : row \in GeneralRows}
EvidenceReports == {NoReport, general :> Row("unavailable", 2, 3, Null, NoWindows, 3)}
HighReading == shared :> Row("ready", 2, 3, Null, codexWin :> Win(85, 4), Null)
FreshEvidence ==
  {[obs |-> HighReading, unavailable |-> {}, quotaUnavailable |-> {}],
   [obs |-> NoReport, unavailable |-> {shared}, quotaUnavailable |-> {}],
   [obs |-> NoReport, unavailable |-> {}, quotaUnavailable |-> {shared}]}
VetoGates == {NoGate, [unavailable |-> {}, quotaUnavailable |-> {general}]}

\* Evidence for the operator policies: complete readings of two aliases and the local worker.
PolicySnapshots ==
  {NoReport,
   general :> Row("ready", 1, 3, Null, codexWin :> Win(30, 4), Null)
     @@ shared :> Row("ready", 1, 2, Null, codexWin :> Win(30, 4), Null)
     @@ local :> Row("ready", 1, 4, Null, NoWindows, Null)}

NoRevisions == [kind \in PolicyKinds |-> 0]
PauseTwice == [kind \in PolicyKinds |-> IF kind = "workers" THEN 2 ELSE 1]

Symmetry == Permutations(Runners) \cup Permutations(Tasks)
ConsoleSymmetry == Permutations(Operators)
=============================================================================
