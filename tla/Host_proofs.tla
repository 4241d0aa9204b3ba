---------------------------- MODULE Host_proofs ----------------------------
(***************************************************************************)
(* What one machine does to a node and to the tracker's tokens, for any    *)
(* number of attempts, iterations, processes and calls: a loop's calls are *)
(* within its budget (NodeAttempts), the token file stays of use (TrackerAccess), and *)
(* every variable of the machine's components has its type (MCHost).       *)
(***************************************************************************)
EXTENDS MCHost, RunEngine_proofs, DefaultWorkflows_proofs

-----------------------------------------------------------------------------
(* A node: the calls of its loop. *)

\* Only a loop comes between two iterations, and only a shell node has a process.
KindsApart ==
  /\ progress \in {"looping", "landed", "saved", "parked"} => body = "loop"
  /\ shell # "none" => body = "shell"

\* The runner works on the iteration after the last one in the store.
NextToSave ==
  /\ progress \in {"looping", "saved"} => iteration = saved
  /\ progress = "landed" \/ (progress = "calling" /\ body = "loop") => iteration = saved + 1

\* A call of the loop has its row, or was followed by a retry or a death; or it is
\* the last one, and then the budget had room for it.
LastCall == progress \in {"calling", "landed", "resting", "over"} /\ saved < MaxIterations
Accounted == calls <= saved + retries + cuts + (IF LastCall THEN 1 ELSE 0)

\* An attempt is made only while there is one left.
AttemptLeft == progress \in {"waiting", "resting"} => attempt < MaxAttempts

\* NodeTypeOK but for the flags.
NodeStages ==
  /\ body \in {"shell", "prompt", "loop"}
  /\ progress \in Busy \cup {"parked", "over"}
  /\ result \in {"none", "completed", "failed", "cancelled"}
  /\ shell \in {"none", "alive", "draining"}
NodeCounts ==
  /\ attempt \in 0..MaxAttempts
  /\ iteration \in 0..MaxIterations /\ saved \in 0..MaxIterations
  /\ calls \in Nat /\ retries \in Nat
  /\ cuts \in 0..MaxCuts

NodeInv == NodeStages /\ NodeCounts /\ AttemptLeft /\ KindsApart /\ NextToSave /\ Accounted

LEMMA InitNode == NodeInit => NodeInv
  BY NodeAssumption
  DEF NodeInit, NodeInv, NodeStages, NodeCounts, AttemptLeft, KindsApart, NextToSave, Accounted, LastCall, Busy

LEMMA StepNode ==
  ASSUME NodeInv, [NodeNext]_nodeVars
  PROVE  NodeInv'
<1> USE NodeAssumption
    DEF NodeInv, NodeStages, NodeCounts, AttemptLeft, KindsApart, NextToSave, Accounted, LastCall, Busy,
        kindVars, shellVars, loopVars
<1>1. CASE UNCHANGED nodeVars
  BY <1>1 DEF nodeVars
<1>2. CASE StartAttempt
  BY <1>2 DEF StartAttempt, Spawn, ReadIterations
<1>3. CASE ShellTimeout
  BY <1>3 DEF ShellTimeout, KillTree
<1>4. CASE Drained
  BY <1>4 DEF Drained, NodeFinished, ConcludeAttempt, AttemptOutcome
<1>5. CASE ModelReturns
  BY <1>5 DEF ModelReturns, ConcludeAttempt
<1>6. CASE NextIteration
  BY <1>6 DEF NextIteration, ConcludeAttempt
<1>7. CASE SaveIteration
  BY <1>7 DEF SaveIteration
<1>8. CASE AfterIteration
  BY <1>8 DEF AfterIteration, ConcludeAttempt
<1>9. CASE ProcessExits
  BY <1>9 DEF ProcessExits
<1>10. CASE AnswerLoop
  BY <1>10 DEF AnswerLoop, Anew
<1>11. CASE Abort
  BY <1>11 DEF Abort, KillTree
<1>12. CASE CutOff
  BY <1>12 DEF CutOff, Anew
<1> QED
  BY <1>1, <1>2, <1>3, <1>4, <1>5, <1>6, <1>7, <1>8, <1>9, <1>10, <1>11, <1>12
  DEF NodeNext, NodeOwnStep

\* However often a loop node is retried, parked, cut off and resumed, its model is
\* called at most max_iterations times, and once more for each retry and each
\* death of the daemon (executor/engine/runner.ts, executeLoop and
\* executeWithRetry; executor/store, appendLoopIteration).
THEOREM LoopBudgetCorrect == NodeSpec => []LoopBudgetHolds
<1>1. NodeInv /\ [NodeNext]_nodeVars => NodeInv'
  BY StepNode
<1>2. NodeInv => LoopBudgetHolds
  BY NodeAssumption
  DEF NodeInv, NodeStages, NodeCounts, Busy, NextToSave, Accounted, LastCall, LoopBudgetHolds
<1> QED
  BY InitNode, <1>1, <1>2, PTL DEF NodeSpec
-----------------------------------------------------------------------------
(* The tracker's tokens. *)

ServerType ==
  /\ granted \in Token
  /\ accepted \subseteq Token
  /\ disk \in Tokens
  /\ held \in [Client -> Tokens]
  /\ reply \in [Client -> Tokens \cup {NoTokens}]

\* No token is known before the server minted it.
Minted ==
  /\ disk.refresh <= granted
  /\ \A c \in Client : held[c].refresh <= granted
  /\ \A c \in Client : reply[c] # NoTokens => reply[c].refresh <= granted

\* An answer on its way is known to nobody else, and so the server still takes
\* what it carries.
ReplyIsOwn ==
  \A c \in Client : reply[c] # NoTokens =>
    /\ reply[c].refresh \in accepted
    /\ \A d \in Client : held[d].refresh # reply[c].refresh
    /\ \A d \in Client \ {c} : reply[d] # NoTokens => reply[d].refresh # reply[c].refresh
    /\ disk.refresh # reply[c].refresh

TokenInv == ServerType /\ Minted /\ ReplyIsOwn /\ StoredTokenIsAccepted

LEMMA InitTokens == TrackerInit => TokenInv
  BY TrackerAssumption
  DEF TrackerInit, TokenInv, ServerType, Minted, ReplyIsOwn, StoredTokenIsAccepted, First, Token, Tokens

\* The token that a refresh brings.
LEMMA MintedHere ==
  ASSUME TokenInv, NEW c \in Client, ServerRefreshes(c)
  PROVE  TokenInv'
<1> DEFINE n == granted + 1
           fresh == [access |-> n, refresh |-> n]
<1> USE TrackerAssumption DEF Token, Tokens
<1>1. CASE held[c].refresh \notin accepted
  <2>1. /\ granted' = granted /\ accepted' = accepted /\ reply' = reply
        /\ disk' = disk /\ held' = held /\ lost' = lost
    BY <1>1 DEF ServerRefreshes, serverVars
  <2>2. ServerType' /\ Minted' /\ ReplyIsOwn'
    BY <2>1 DEF TokenInv, ServerType, Minted, ReplyIsOwn
  <2>3. StoredTokenIsAccepted'
    BY <2>1 DEF TokenInv, StoredTokenIsAccepted
  <2> QED
    BY <2>2, <2>3 DEF TokenInv
<1>2. CASE held[c].refresh \in accepted
  <2>1. /\ granted' = n /\ n \in Token
        /\ accepted' = (accepted \ {held[c].refresh}) \cup {n}
        /\ reply' = [reply EXCEPT ![c] = fresh]
        /\ disk' = disk /\ held' = held /\ lost' = lost
    BY <1>2 DEF ServerRefreshes, Mint
  <2>2. fresh \in Tokens /\ fresh # NoTokens /\ fresh.refresh = n
    BY <2>1
  <2>3. ServerType'
    BY <2>1, <2>2 DEF TokenInv, ServerType
  <2>4. Minted'
    BY <2>1, <2>2 DEF TokenInv, ServerType, Minted
  <2>5. ReplyIsOwn'
    BY <2>1, <2>2 DEF TokenInv, ServerType, Minted, ReplyIsOwn
  <2>6. StoredTokenIsAccepted'
    BY <2>1, <2>2 DEF TokenInv, ServerType, StoredTokenIsAccepted
  <2> QED
    BY <2>3, <2>4, <2>5, <2>6 DEF TokenInv
<1> QED
  BY <1>1, <1>2

LEMMA RenewKeeps ==
  ASSUME TokenInv, NEW c \in Client, Renew(c)
  PROVE  TokenInv'
<1>1. /\ reply[c] # NoTokens
      /\ held' = [held EXCEPT ![c] = reply[c]] /\ disk' = reply[c]
      /\ reply' = [reply EXCEPT ![c] = NoTokens]
      /\ granted' = granted /\ accepted' = accepted /\ lost' = lost
  BY DEF Renew, Settle, serverVars
<1>2. reply[c] \in Tokens
  BY <1>1 DEF TokenInv, ServerType
<1>3. ServerType'
  BY <1>1, <1>2 DEF TokenInv, ServerType
<1>4. Minted'
  BY <1>1, <1>2 DEF TokenInv, ServerType, Minted
<1>5. ReplyIsOwn'
  BY <1>1, <1>2 DEF TokenInv, ServerType, ReplyIsOwn
<1>6. StoredTokenIsAccepted'
  BY <1>1 DEF TokenInv, ReplyIsOwn, StoredTokenIsAccepted
<1> QED
  BY <1>3, <1>4, <1>5, <1>6 DEF TokenInv

\* An answer that is dropped, by a deadline or by the end of its process, is
\* remembered as lost when it carried something.
LEMMA DroppedAnswer ==
  ASSUME TokenInv, NEW c \in Client,
         lost' = (lost \/ reply[c] # NoTokens), reply' = [reply EXCEPT ![c] = NoTokens],
         held' = held \/ held' = [held EXCEPT ![c] = disk],
         granted' = granted, accepted' = accepted, disk' = disk
  PROVE  TokenInv'
<1>1. ServerType'
  BY DEF TokenInv, ServerType
<1>2. Minted'
  BY DEF TokenInv, ServerType, Minted
<1>3. ReplyIsOwn'
  BY DEF TokenInv, ServerType, ReplyIsOwn
<1>4. StoredTokenIsAccepted'
  BY DEF TokenInv, ServerType, StoredTokenIsAccepted
<1> QED
  BY <1>1, <1>2, <1>3, <1>4 DEF TokenInv

LEMMA ExchangeKeeps ==
  ASSUME TokenInv, Exchange
  PROVE  TokenInv'
<1> USE TrackerAssumption DEF Token, Tokens
<1>1. CASE UNCHANGED <<serverVars, disk>>
  BY <1>1 DEF Exchange, serverVars, TokenInv, ServerType, Minted, ReplyIsOwn, StoredTokenIsAccepted
<1>2. CASE /\ Mint(granted + 1, {})
           /\ disk' = [access |-> granted + 1, refresh |-> granted + 1]
  BY <1>2 DEF Exchange, Mint, TokenInv, ServerType, Minted, ReplyIsOwn, StoredTokenIsAccepted
<1> QED
  BY <1>1, <1>2 DEF Exchange

LEMMA StepTokens ==
  ASSUME TokenInv, [TrackerNext]_trackerVars
  PROVE  TokenInv'
<1>1. CASE UNCHANGED <<granted, accepted, disk, held, reply, lost>>
  BY <1>1 DEF TokenInv, ServerType, Minted, ReplyIsOwn, StoredTokenIsAccepted
<1>2. ASSUME NEW q \in Call, Query(q) \/ CallStep(q) \/ Answered(q)
      PROVE  TokenInv'
  BY <1>1, <1>2 DEF Query, CallStep, Answered, GetHeader, Deadline, RefreshOnUnauthorized, serverVars
<1>3. ASSUME NEW c \in Client, RefreshFails(c) \/ RestartClient(c)
      PROVE  TokenInv'
  BY <1>3, DroppedAnswer DEF RefreshFails, RestartClient, Unheard, Settle, serverVars
<1>4. CASE Callback \/ \E n \in Token : Age(n)
  BY <1>1, <1>4 DEF Callback, Age, serverVars
<1>5. CASE UNCHANGED trackerVars
  BY <1>1, <1>5 DEF trackerVars
<1> QED
  BY <1>2, <1>3, <1>4, <1>5, MintedHere, RenewKeeps, ExchangeKeeps DEF TrackerNext, RefreshStep

\* Whatever order the refreshes, logins and restarts of any number of processes
\* come in, auth.json holds a refresh token that the server takes, unless its
\* replacement is on its way or went unheard (tracker/linear-auth.ts: one refresh in
\* flight per process, the new tokens stored in the turn that adopts them).
THEOREM StoredTokenCorrect == TrackerSpec => []StoredTokenIsAccepted
<1>1. TokenInv /\ [TrackerNext]_trackerVars => TokenInv'
  BY StepTokens
<1>2. TokenInv => StoredTokenIsAccepted
  BY DEF TokenInv
<1> QED
  BY InitTokens, <1>1, <1>2, PTL DEF TrackerSpec
-----------------------------------------------------------------------------
(* Types. *)

NodeFlags ==
  /\ asks \in BOOLEAN /\ piped \in BOOLEAN /\ exit \in BOOLEAN /\ overtime \in BOOLEAN
  /\ stopping \in BOOLEAN /\ subscribed \in BOOLEAN /\ complete \in BOOLEAN /\ gone \in BOOLEAN

LEMMA InitFlags == NodeInit => NodeFlags
  BY Zenon DEF NodeInit, NodeFlags

LEMMA StepFlags ==
  ASSUME NodeFlags, [NodeNext]_nodeVars
  PROVE  NodeFlags'
<1> USE DEF NodeFlags, kindVars, shellVars, loopVars
<1>1. CASE UNCHANGED nodeVars
  BY <1>1, Zenon DEF nodeVars
<1>2. CASE StartAttempt
  BY <1>2, Zenon DEF StartAttempt, Spawn, ReadIterations
<1>3. CASE ShellTimeout
  BY <1>3, Zenon DEF ShellTimeout, KillTree
<1>4. CASE Drained
  BY <1>4, Zenon DEF Drained, NodeFinished
<1>5. CASE ModelReturns
  BY <1>5, Zenon DEF ModelReturns
<1>6. CASE NextIteration
  BY <1>6, Zenon DEF NextIteration
<1>7. CASE SaveIteration
  BY <1>7, Zenon DEF SaveIteration
<1>8. CASE AfterIteration
  BY <1>8, Zenon DEF AfterIteration
<1>9. CASE ProcessExits
  BY <1>9, Zenon DEF ProcessExits
<1>10. CASE AnswerLoop
  BY <1>10, Zenon DEF AnswerLoop, Anew
<1>11. CASE Abort
  BY <1>11, Zenon DEF Abort, KillTree
<1>12. CASE CutOff
  BY <1>12, Zenon DEF CutOff, Anew
<1> QED
  BY <1>1, <1>2, <1>3, <1>4, <1>5, <1>6, <1>7, <1>8, <1>9, <1>10, <1>11, <1>12
  DEF NodeNext, NodeOwnStep

LEMMA NodeTyped == NodeInv /\ NodeFlags => NodeTypeOK
  BY DEF NodeInv, NodeFlags, NodeTypeOK, NodeStages, NodeCounts

LEMMA InitHub == HubInit => HubTypeOK
  BY HubAssumption DEF HubInit, HubTypeOK, Record, None, Alive

LEMMA TermType ==
  ASSUME daemon \in [Record -> Alive \cup {"none", "dead"}], NEW D
  PROVE  Term(D) \in [Record -> Alive \cup {"none", "dead"}]
  BY DEF Term, Alive

\* The rest of startWorkspace's record.
LEMMA ReplaceType ==
  ASSUME HubTypeOK, NEW n \in Record, NEW d \in 0..MaxRecords,
         NEW st \in {"starting", "running"}, Replace(n, d, st)
  PROVE  /\ used' \in 0..MaxRecords /\ current' \in 0..MaxRecords
         /\ child' \in [Record -> 0..MaxRecords]
         /\ status' \in [Record -> {"gone", "starting", "running", "crashed", "stopped"}]
         /\ manual' \in [Record -> BOOLEAN]
<1>1. manual' \in [Record -> BOOLEAN]
  BY Zenon DEF HubTypeOK, Replace
<1>2. child' \in [Record -> 0..MaxRecords]
  BY DEF HubTypeOK, Replace
<1>3. status' \in [Record -> {"gone", "starting", "running", "crashed", "stopped"}]
  BY DEF HubTypeOK, Replace
<1>4. n \in 0..MaxRecords
  BY HubAssumption DEF Record
<1> QED
  BY <1>1, <1>2, <1>3, <1>4 DEF Replace

LEMMA StartType ==
  ASSUME HubTypeOK, StartWorkspace, hub' = hub, hubCrashes' = hubCrashes, reaping' = reaping,
         timer' \in [Record -> BOOLEAN]
  PROVE  HubTypeOK'
<1> USE HubAssumption
<1>1. CASE InHand
  BY <1>1 DEF StartWorkspace, HubTypeOK
<1>2. CASE ~InHand
  <2> DEFINE n == used + 1
  <2>1. n \in Record
    BY <1>2 DEF StartWorkspace
  <2>2. CASE Replace(n, sidecar, "running") /\ UNCHANGED <<waiting, daemon, sidecar>>
    <3>1. sidecar \in 0..MaxRecords
      BY DEF HubTypeOK
    <3> HIDE DEF n
    <3> QED
      BY <2>1, <2>2, <3>1, ReplaceType DEF HubTypeOK
  <2>3. CASE /\ Replace(n, n, "starting")
             /\ waiting' = [waiting EXCEPT ![n] = TRUE]
             /\ daemon' = [daemon EXCEPT ![n] = "starting"]
             /\ sidecar' = None
    <3>1. n \in 0..MaxRecords /\ None \in 0..MaxRecords
      BY <2>1 DEF Record, None
    <3> HIDE DEF n
    <3>2. /\ waiting' \in [Record -> BOOLEAN]
          /\ daemon' \in [Record -> Alive \cup {"none", "dead"}]
      BY <2>1, <2>3 DEF HubTypeOK, Alive
    <3> QED
      BY <2>1, <2>3, <3>1, <3>2, ReplaceType DEF HubTypeOK
  <2> QED
    BY <1>2, <2>2, <2>3 DEF StartWorkspace
<1> QED
  BY <1>1, <1>2

LEMMA StepHub ==
  ASSUME HubTypeOK, [HubNext]_hubVars
  PROVE  HubTypeOK'
<1> USE HubAssumption DEF HubTypeOK, Record, None, Alive
<1>1. CASE UNCHANGED hubVars
  BY <1>1 DEF hubVars
<1>2. CASE OperatorStarts
  BY <1>2, StartType DEF OperatorStarts
<1>3. CASE OperatorStops
  BY <1>3, TermType DEF OperatorStops, Own
<1>4. CASE HubStops
  <2> DEFINE mine == {n \in Record : status[n] # "gone" /\ Own(n)}
  <2>1. PICK grace \in BOOLEAN :
          daemon' = [d \in Record |-> IF d \in mine /\ ~grace THEN "dead" ELSE Term(mine)[d]]
    BY <1>4 DEF HubStops
  <2>2. Term(mine) \in [Record -> Alive \cup {"none", "dead"}]
    BY TermType
  <2> HIDE DEF mine
  <2>3. daemon' \in [Record -> Alive \cup {"none", "dead"}]
    BY <2>1, <2>2
  <2> QED
    BY <1>4, <2>3 DEF HubStops, Forget
<1>5. CASE HubCrashes
  BY <1>5 DEF HubCrashes, Forget
<1>6. ASSUME NEW n \in Record, RestartChild(n)
      PROVE  HubTypeOK'
  <2>1. timer' \in [Record -> BOOLEAN]
    BY <1>6 DEF RestartChild
  <2>2. CASE manual[n]
    BY <1>6, <2>1, <2>2 DEF RestartChild
  <2>3. CASE ~manual[n]
    BY <1>6, <2>1, <2>3, StartType DEF RestartChild
  <2> QED
    BY <2>2, <2>3
<1>7. ASSUME NEW n \in Record, AwaitSidecar(n) \/ Reap(n)
      PROVE  HubTypeOK'
  BY <1>7 DEF AwaitSidecar, Reap
<1>8. ASSUME NEW n \in Record, ChildExited(n)
      PROVE  HubTypeOK'
  <2>1. /\ child' \in [Record -> 0..MaxRecords] /\ sidecar' \in 0..MaxRecords
        /\ reaping' \in [Record -> BOOLEAN]
    BY <1>8 DEF ChildExited
  <2>2. status' \in [Record -> {"gone", "starting", "running", "crashed", "stopped"}]
    BY <1>8 DEF ChildExited
  <2>3. timer' \in [Record -> BOOLEAN]
    BY <1>8 DEF ChildExited
  <2> QED
    BY <1>8, <2>1, <2>2, <2>3 DEF ChildExited
<1>9. ASSUME NEW n \in Record, DaemonServes(n) \/ DaemonDies(n) \/ DaemonCloses(n)
      PROVE  HubTypeOK'
  <2>1. CASE DaemonServes(n)
    BY <1>9, <2>1 DEF DaemonServes
  <2>2. CASE DaemonDies(n)
    BY <1>9, <2>2 DEF DaemonDies
  <2>3. CASE DaemonCloses(n)
    BY <1>9, <2>3 DEF DaemonCloses
  <2> QED
    BY <1>9, <2>1, <2>2, <2>3
<1> QED
  BY <1>1, <1>2, <1>3, <1>4, <1>5, <1>6, <1>7, <1>8, <1>9 DEF HubNext, HubOwnStep

LEMMA InitTracker == TrackerInit => TrackerTypeOK
<1> SUFFICES ASSUME TrackerInit PROVE TrackerTypeOK
  OBVIOUS
<1>1. 1 \in Token /\ First \in Tokens
  BY TrackerAssumption DEF Token, Tokens, First
<1>2. held \in [Client -> Tokens] /\ disk \in Tokens /\ accepted \subseteq Token
  BY <1>1 DEF TrackerInit
<1>3. granted \in 0..MaxGrants /\ restarts \in 0..MaxRestarts
  BY TrackerAssumption DEF TrackerInit
<1>4. life \in [Token -> {"unminted", "good", "dropped", "expired"}]
  BY DEF TrackerInit
<1> QED
  BY <1>2, <1>3, <1>4 DEF TrackerInit, TrackerTypeOK, Pending

\* What waits for a refresh goes on with the tokens it brought, or ends.
LEMMA SettleType ==
  ASSUME TrackerTypeOK, NEW c \in Client, NEW ok \in BOOLEAN, Settle(c, ok), ok => reply[c] # NoTokens
  PROVE  /\ refresh' \in [Client -> {"no", "posted", "answered"}]
         /\ reply' \in [Client -> Tokens \cup {NoTokens}]
         /\ call' \in [Call -> Pending \cup {"idle"}]
         /\ header' \in [Call -> Token \cup {0}]
         /\ retried' \in [Call -> BOOLEAN]
<1>1. ok => reply[c].access \in Token
  BY DEF TrackerTypeOK, Tokens
<1>2. retried' \in [Call -> BOOLEAN]
  BY Zenon DEF TrackerTypeOK, Settle
<1>3. call' \in [Call -> Pending \cup {"idle"}]
  BY DEF TrackerTypeOK, Settle, Pending
<1>4. header' \in [Call -> Token \cup {0}]
  BY <1>1 DEF TrackerTypeOK, Settle
<1> QED
  BY <1>2, <1>3, <1>4 DEF TrackerTypeOK, Settle

LEMMA RefreshType ==
  ASSUME refresh \in [Client -> {"no", "posted", "answered"}], NEW c \in Client, Refresh(c)
  PROVE  refresh' \in [Client -> {"no", "posted", "answered"}]
  BY DEF Refresh

LEMMA MintType ==
  ASSUME TrackerTypeOK, NEW spent, Mint(granted + 1, spent)
  PROVE  /\ granted' \in 0..MaxGrants
         /\ accepted' \subseteq Token
         /\ life' \in [Token -> {"unminted", "good", "dropped", "expired"}]
         /\ [access |-> granted + 1, refresh |-> granted + 1] \in Tokens
<1>1. granted + 1 \in Token
  BY DEF Mint
<1>2. granted' \in 0..MaxGrants
  BY <1>1, TrackerAssumption DEF Mint, Token
<1>3. life' \in [Token -> {"unminted", "good", "dropped", "expired"}]
  BY <1>1 DEF Mint, TrackerTypeOK
<1> QED
  BY <1>1, <1>2, <1>3 DEF Mint, TrackerTypeOK, Tokens

LEMMA StepTracker ==
  ASSUME TrackerTypeOK, [TrackerNext]_trackerVars
  PROVE  TrackerTypeOK'
<1> USE TrackerAssumption DEF TrackerTypeOK, serverVars, callVars
<1>1. CASE UNCHANGED trackerVars
  BY <1>1 DEF trackerVars
<1>2. ASSUME NEW q \in Call, Query(q) \/ Deadline(q) \/ Answered(q)
      PROVE  TrackerTypeOK'
  <2>1. CASE UNCHANGED <<header, retried>>
    BY <1>2, <2>1 DEF Query, Deadline, Answered, Over, Pending
  <2>2. CASE Over(q)
    BY <1>2, <2>2 DEF Query, Deadline, Answered, Over, Pending
  <2> QED
    BY <1>2, <2>1, <2>2 DEF Query, Deadline, Answered
<1>3. ASSUME NEW q \in Call, GetHeader(q) \/ RefreshOnUnauthorized(q)
      PROVE  TrackerTypeOK'
  <2>1. ClientOf[q] \in Client /\ held[ClientOf[q]].access \in Token
    BY DEF Tokens
  <2>2. CASE GetHeader(q) /\ Send(q) /\ UNCHANGED refresh
    BY <2>1, <2>2 DEF GetHeader, Send, Pending
  <2>3. CASE UNCHANGED <<header, retried>> /\ Refresh(ClientOf[q])
    <3>1. refresh' \in [Client -> {"no", "posted", "answered"}]
      BY <2>1, <2>3, RefreshType
    <3> QED
      BY <1>3, <2>3, <3>1 DEF GetHeader, Send, RefreshOnUnauthorized, Pending
  <2> QED
    BY <1>3, <2>2, <2>3 DEF GetHeader, RefreshOnUnauthorized
<1>4. ASSUME NEW c \in Client, ServerRefreshes(c)
      PROVE  TrackerTypeOK'
  <2>1. CASE UNCHANGED <<serverVars, reply>>
    BY <1>4, <2>1 DEF ServerRefreshes
  <2>2. CASE /\ Mint(granted + 1, {held[c].refresh})
             /\ reply' = [reply EXCEPT ![c] = [access |-> granted + 1, refresh |-> granted + 1]]
    BY <1>4, <2>2, MintType DEF ServerRefreshes
  <2> QED
    BY <1>4, <2>1, <2>2 DEF ServerRefreshes
<1>5. ASSUME NEW c \in Client, Renew(c)
      PROVE  TrackerTypeOK'
  <2>1. Settle(c, TRUE) /\ reply[c] # NoTokens /\ reply[c] \in Tokens
    BY <1>5 DEF Renew
  <2> QED
    BY <1>5, <2>1, SettleType DEF Renew
<1>6. ASSUME NEW c \in Client, RefreshFails(c)
      PROVE  TrackerTypeOK'
  <2>1. lost' \in BOOLEAN
    BY <1>6, Zenon DEF RefreshFails, Unheard
  <2>2. Settle(c, FALSE)
    BY <1>6 DEF RefreshFails
  <2> QED
    BY <1>6, <2>1, <2>2, SettleType DEF RefreshFails
<1>7. ASSUME NEW c \in Client, RestartClient(c)
      PROVE  TrackerTypeOK'
  <2>1. lost' \in BOOLEAN
    BY <1>7, Zenon DEF RestartClient, Unheard
  <2>2. retried' \in [Call -> BOOLEAN]
    BY <1>7, Zenon DEF RestartClient
  <2>3. restarts' \in 0..MaxRestarts
    BY <1>7 DEF RestartClient
  <2>4. call' \in [Call -> Pending \cup {"idle"}] /\ header' \in [Call -> Token \cup {0}]
    BY <1>7 DEF RestartClient
  <2> QED
    BY <1>7, <2>1, <2>2, <2>3, <2>4 DEF RestartClient
<1>8. CASE Callback
  BY <1>8 DEF Callback
<1>9. CASE Exchange
  <2>1. CASE Mint(granted + 1, {}) /\ disk' = [access |-> granted + 1, refresh |-> granted + 1]
    BY <1>9, <2>1, MintType DEF Exchange
  <2>2. CASE UNCHANGED <<serverVars, disk>>
    BY <1>9, <2>2 DEF Exchange
  <2> QED
    BY <1>9, <2>1, <2>2 DEF Exchange
<1>10. ASSUME NEW n \in Token, Age(n)
       PROVE  TrackerTypeOK'
  BY <1>10 DEF Age
<1> QED
  BY <1>1, <1>2, <1>3, <1>4, <1>5, <1>6, <1>7, <1>8, <1>9, <1>10 DEF TrackerNext, CallStep, RefreshStep
\* The rest of TemplateTypeOK: RunType has the other half.
AnswersType ==
  /\ agreed \subseteq Gates
  /\ revisions \in 0..PlanRevisions
  /\ ended \in {"running", "asking", "completed", "failed", "cancelled"}

LEMMA InitAnswers == TemplateInit => AnswersType
  BY DEF TemplateInit, AnswersType, PlanRevisions

LEMMA StepAnswers ==
  ASSUME AnswersType, [TemplateNext]_templateVars
  PROVE  AnswersType'
<1> USE DEF AnswersType, PlanRevisions
<1>1. CASE UNCHANGED templateVars
  BY <1>1 DEF templateVars
<1>2. CASE SkipNodes
  BY <1>2 DEF SkipNodes
<1>7. CASE StartNode
  BY <1>7 DEF StartNode
<1>3. CASE ReworkFails
  BY <1>3 DEF ReworkFails
<1>4. CASE EndRun
  <2>1. RunVerdict \in {"cancelled", "failed", "succeeded"}
    BY DEF RunVerdict, FixPlanner!RunOutcome, SupervisedPlanner!RunOutcome, ScaffoldPlanner!RunOutcome
  <2> QED
    BY <1>4, <2>1 DEF EndRun
<1>5. ASSUME NEW n \in DOMAIN statuses, NodeCompletes(n) \/ NodeFails(n)
      PROVE  AnswersType'
  BY <1>5 DEF NodeCompletes, NodeFails
<1>6. ASSUME NEW a \in Gates, Approve(a) \/ Reject(a)
      PROVE  AnswersType'
  BY <1>6 DEF Approve, Reject
<1> QED
  BY <1>1, <1>2, <1>3, <1>4, <1>5, <1>6, <1>7 DEF TemplateNext, Underway

\* statuses is a function.
StatusesType == statuses \in [DOMAIN Template[wf] -> FixPlanner!NodeStatus]

LEMMA InitStatuses == TemplateInit => StatusesType
  BY DEF TemplateInit, StatusesType, FixPlanner!NodeStatus

LEMMA StepStatuses ==
  ASSUME StatusesType, [TemplateNext]_templateVars
  PROVE  StatusesType'
<1> USE DEF StatusesType, FixPlanner!NodeStatus
<1>1. CASE UNCHANGED templateVars
  BY <1>1 DEF templateVars
<1>2. CASE SkipNodes
  BY <1>2 DEF SkipNodes
<1>7. CASE StartNode
  BY <1>7 DEF StartNode
<1>3. CASE ReworkFails
  BY <1>3 DEF ReworkFails
<1>4. CASE EndRun
  BY <1>4 DEF EndRun
<1>5. ASSUME NEW n \in DOMAIN statuses, NodeCompletes(n) \/ NodeFails(n)
      PROVE  StatusesType'
  BY <1>5 DEF NodeCompletes, NodeFails
<1>6. ASSUME NEW a \in Gates, Approve(a) \/ Reject(a)
      PROVE  StatusesType'
  BY <1>6 DEF Approve, Reject
<1> QED
  BY <1>1, <1>2, <1>3, <1>4, <1>5, <1>6, <1>7 DEF TemplateNext, Underway

LEMMA TemplateTyped == RunInv /\ AnswersType /\ StatusesType => TemplateTypeOK
  BY TemplatesOf DEF RunInv, Planned, RunType, AnswersType, StatusesType, TemplateTypeOK

-----------------------------------------------------------------------------
(* The machine. *)

\* What the components of a machine need, each for itself.
HostInv ==
  /\ TypeOK /\ NodeInv /\ NodeFlags /\ HubTypeOK /\ TrackerTypeOK
  /\ RunInv /\ AnswersType /\ StatusesType

LEMMA InitHost == HostInit => HostInv
  BY InitType, InitNode, InitFlags, InitHub, InitTracker, InitRun, InitAnswers, InitStatuses
     DEF HostInit, HostInv

LEMMA StepHost ==
  ASSUME HostInv, [HostNext]_hostVars
  PROVE  HostInv'
<1>1. /\ [Next]_vars /\ [NodeNext]_nodeVars /\ [HubNext]_hubVars
      /\ [TrackerNext]_trackerVars /\ [TemplateNext]_templateVars
  BY DEF HostNext, hostVars
<1>2. TypeOK'
  BY <1>1, NextType DEF HostInv
<1>3. NodeInv' /\ NodeFlags'
  BY <1>1, StepNode, StepFlags DEF HostInv
<1>4. HubTypeOK' /\ TrackerTypeOK'
  BY <1>1, StepHub, StepTracker DEF HostInv
<1>5. RunInv' /\ AnswersType' /\ StatusesType'
  BY <1>1, StepRun, StepAnswers, StepStatuses DEF HostInv
<1> QED
  BY <1>2, <1>3, <1>4, <1>5 DEF HostInv

\* Every variable of the machine's components has its type, whichever of them
\* a behaviour is about: the variables of the run engine, of a node's attempts,
\* of the hub, of the tracker's calls and of the default workflows.
THEOREM HostTypeCorrect == HostSpec => []HostTypeOK
<1>1. HostInv => HostTypeOK
  BY NodeTyped, TemplateTyped DEF HostInv, HostTypeOK
<1>2. HostInit /\ [][HostNext]_hostVars => []HostInv
  <2>1. HostInv /\ [HostNext]_hostVars => HostInv'
    BY StepHost
  <2> QED
    BY InitHost, <2>1, PTL
<1> QED
  BY <1>1, <1>2, PTL DEF HostSpec
=============================================================================
