--------------------------- MODULE TrackerAccess ---------------------------
(***************************************************************************)
(* How a process reaches the tracker: a GraphQL call under an OAuth token, *)
(* the refresh its concurrent calls share, the one retry after a 401, the  *)
(* token file that every process of the machine reads at its start, and    *)
(* the login that writes it.                                               *)
(*                                                                         *)
(* A token is the number of the grant that minted it.  The authorization   *)
(* server is external: it answers late, refuses, or is not heard in time,  *)
(* and replaces the refresh token at every refresh (a server that keeps it *)
(* has fewer ways to go wrong).  Processes start logged in.                *)
(***************************************************************************)
EXTENDS Naturals

CONSTANTS
  Client,        \* processes with an OAuthAuth of their own
  Call,          \* GraphQL calls
  ClientOf,      \* the process of a call
  MaxGrants,     \* bound: tokens minted
  MaxRestarts,   \* bound: processes restarted
  NoTokens       \* no answer

Token == 1..MaxGrants
Tokens == [access : Token, refresh : Token]

ASSUME TrackerAssumption ==
  /\ ClientOf \in [Call -> Client]
  /\ MaxGrants \in Nat \ {0}
  /\ MaxRestarts \in Nat
  /\ NoTokens \notin Tokens

VARIABLES
  granted,     \* tokens minted so far
  accepted,    \* refresh tokens the server takes
  life,        \* an access token: good, dropped by the server early, or expired
  disk,        \* auth.json
  held,        \* OAuthAuth.tokens
  refresh,     \* refreshInFlight: where the request to the token endpoint is
  reply,       \* what the server answered to it
  call,        \* where a call is
  header,      \* the access token a call was sent with
  retried,     \* the call was sent a second time
  login,       \* gaggle auth linear holds a code
  lost,        \* ghost: an answer that carried the only accepted token was not heard
  restarts

trackerVars == <<granted, accepted, life, disk, held, refresh, reply, call, header,
                 retried, login, lost, restarts>>
serverVars == <<granted, accepted, life>>
callVars == <<call, header, retried>>

\* A call that waits for something.
Pending == {"header", "joined", "forced", "sent", "rejected"}

TrackerTypeOK ==
  /\ granted \in 0..MaxGrants
  /\ accepted \subseteq Token
  /\ life \in [Token -> {"unminted", "good", "dropped", "expired"}]
  /\ disk \in Tokens
  /\ held \in [Client -> Tokens]
  /\ refresh \in [Client -> {"no", "posted", "answered"}]
  /\ reply \in [Client -> Tokens \cup {NoTokens}]
  /\ call \in [Call -> Pending \cup {"idle"}]
  /\ header \in [Call -> Token \cup {0}]
  /\ retried \in [Call -> BOOLEAN]
  /\ login \in BOOLEAN
  /\ lost \in BOOLEAN
  /\ restarts \in 0..MaxRestarts

First == [access |-> 1, refresh |-> 1]

TrackerInit ==
  /\ granted = 1
  /\ accepted = {1}
  /\ life = [n \in Token |-> IF n = 1 THEN "good" ELSE "unminted"]
  /\ disk = First
  /\ held = [c \in Client |-> First]
  /\ refresh = [c \in Client |-> "no"]
  /\ reply = [c \in Client |-> NoTokens]
  /\ call = [q \in Call |-> "idle"]
  /\ header = [q \in Call |-> 0]
  /\ retried = [q \in Call |-> FALSE]
  /\ login = FALSE
  /\ lost = FALSE
  /\ restarts = 0

-----------------------------------------------------------------------------
(* A call. *)

Query(q) ==
  /\ call[q] = "idle"
  /\ call' = [call EXCEPT ![q] = "header"]
  /\ UNCHANGED <<serverVars, disk, held, refresh, reply, header, retried, login, lost, restarts>>

\* ensureRefreshed: the refresh in flight is shared.
Refresh(c) ==
  refresh' = [refresh EXCEPT ![c] = IF @ = "no" THEN "posted" ELSE @]

\* The call returns to its caller, with an answer or with an error.
Over(q) ==
  /\ call' = [call EXCEPT ![q] = "idle"]
  /\ header' = [header EXCEPT ![q] = 0]
  /\ retried' = [retried EXCEPT ![q] = FALSE]

Send(q) ==
  /\ call' = [call EXCEPT ![q] = "sent"]
  /\ header' = [header EXCEPT ![q] = held[ClientOf[q]].access]

\* getAuthorizationHeader: a token near its expiry is refreshed first.
GetHeader(q) ==
  LET c == ClientOf[q] IN
  /\ call[q] = "header"
  /\ IF life[held[c].access] # "expired"
     THEN Send(q) /\ UNCHANGED refresh
     ELSE /\ Refresh(c)
          /\ call' = [call EXCEPT ![q] = "joined"]
          /\ UNCHANGED header
  /\ UNCHANGED <<serverVars, disk, held, reply, retried, login, lost, restarts>>

\* The tracker answers, with data or an error; a 401 is worth one retry.
Answered(q) ==
  /\ call[q] = "sent"
  /\ IF life[header[q]] = "good" \/ retried[q]
     THEN Over(q)
     ELSE /\ call' = [call EXCEPT ![q] = "rejected"]
          /\ UNCHANGED <<header, retried>>
  /\ UNCHANGED <<serverVars, disk, held, refresh, reply, login, lost, restarts>>

\* Mutant: a request that is never answered is waited for.
NoDeadline(q) ==
  /\ call[q] = "sent"
  /\ life[header[q]] = "expired"
  /\ Over(q)
  /\ UNCHANGED <<serverVars, disk, held, refresh, reply, login, lost, restarts>>

\* FetchHttpClient: a request without an answer is abandoned.
Deadline(q) ==
  /\ call[q] = "sent"
  /\ Over(q)
  /\ UNCHANGED <<serverVars, disk, held, refresh, reply, login, lost, restarts>>

\* refreshOnUnauthorized: refreshed however fresh the token looks.
RefreshOnUnauthorized(q) ==
  /\ call[q] = "rejected"
  /\ call' = [call EXCEPT ![q] = "forced"]
  /\ Refresh(ClientOf[q])
  /\ UNCHANGED <<serverVars, disk, held, reply, header, retried, login, lost, restarts>>

-----------------------------------------------------------------------------
(* The refresh. *)

\* The server mints a token, in place of those in "used".
Mint(n, used) ==
  /\ n \in Token
  /\ granted' = n
  /\ life' = [life EXCEPT ![n] = "good"]
  /\ accepted' = (accepted \ used) \cup {n}

ServerRefreshes(c) ==
  LET old == held[c].refresh
      n == granted + 1
  IN
  /\ refresh[c] = "posted"
  /\ refresh' = [refresh EXCEPT ![c] = "answered"]
  /\ IF old \notin accepted
     THEN UNCHANGED <<serverVars, reply>>
     ELSE /\ Mint(n, {old})
          /\ reply' = [reply EXCEPT ![c] = [access |-> n, refresh |-> n]]
  /\ UNCHANGED <<disk, held, callVars, login, lost, restarts>>

\* Everything of c that waited for the refresh goes on, or fails.
Settle(c, ok) ==
  LET waits(q) == ClientOf[q] = c /\ call[q] \in {"joined", "forced"}
      next(q) == IF ~ok THEN "idle" ELSE IF call[q] = "joined" THEN "sent" ELSE "header"
  IN
  /\ refresh' = [refresh EXCEPT ![c] = "no"]
  /\ reply' = [reply EXCEPT ![c] = NoTokens]
  /\ call' = [q \in Call |-> IF waits(q) THEN next(q) ELSE call[q]]
  /\ header' = [q \in Call |->
       IF waits(q) THEN IF next(q) = "sent" THEN reply[c].access ELSE 0 ELSE header[q]]
  /\ retried' = [q \in Call |->
       IF waits(q) THEN ok /\ (retried[q] \/ call[q] = "forced") ELSE retried[q]]

\* Mutant: the new tokens are kept in memory only.
RenewInMemory(c) ==
  /\ refresh[c] = "answered"
  /\ reply[c] # NoTokens
  /\ held' = [held EXCEPT ![c] = reply[c]]
  /\ Settle(c, TRUE)
  /\ UNCHANGED <<serverVars, disk, login, lost, restarts>>

\* The new tokens are held and stored in one turn.
Renew(c) ==
  /\ refresh[c] = "answered"
  /\ reply[c] # NoTokens
  /\ held' = [held EXCEPT ![c] = reply[c]]
  /\ disk' = reply[c]
  /\ Settle(c, TRUE)
  /\ UNCHANGED <<serverVars, login, lost, restarts>>

\* An answer that nobody hears: what it carried is gone.
Unheard(c) == lost' = (lost \/ reply[c] # NoTokens)

\* Refused, or not answered before the deadline: the tokens stay as they are.
RefreshFails(c) ==
  /\ refresh[c] # "no"
  /\ Unheard(c)
  /\ Settle(c, FALSE)
  /\ UNCHANGED <<serverVars, disk, held, login, restarts>>

-----------------------------------------------------------------------------
(* Login, time, and processes. *)

\* The callback server hears a code; on an error, a foreign state or nobody
\* for five minutes the command ends.
Callback ==
  /\ ~login
  /\ login' = TRUE
  /\ UNCHANGED <<serverVars, disk, held, refresh, reply, callVars, lost, restarts>>

\* The code buys tokens beside those the processes hold, and only the file
\* learns of them.
Exchange ==
  /\ login
  /\ login' = FALSE
  /\ \/ /\ Mint(granted + 1, {})
        /\ disk' = [access |-> granted + 1, refresh |-> granted + 1]
     \/ UNCHANGED <<serverVars, disk>>
  /\ UNCHANGED <<held, refresh, reply, callVars, lost, restarts>>

\* A token expires, or the server drops it before.
Age(n) ==
  /\ \E to \in {"dropped", "expired"} :
       /\ life[n] = "good" \/ (life[n] = "dropped" /\ to = "expired")
       /\ life' = [life EXCEPT ![n] = to]
  /\ UNCHANGED <<granted, accepted, disk, held, refresh, reply, callVars, login, lost, restarts>>

\* The process stops and another reads the file.
RestartClient(c) ==
  LET mine(q) == ClientOf[q] = c IN
  /\ restarts < MaxRestarts
  /\ restarts' = restarts + 1
  /\ held' = [held EXCEPT ![c] = disk]
  /\ Unheard(c)
  /\ refresh' = [refresh EXCEPT ![c] = "no"]
  /\ reply' = [reply EXCEPT ![c] = NoTokens]
  /\ call' = [q \in Call |-> IF mine(q) THEN "idle" ELSE call[q]]
  /\ header' = [q \in Call |-> IF mine(q) THEN 0 ELSE header[q]]
  /\ retried' = [q \in Call |-> IF mine(q) THEN FALSE ELSE retried[q]]
  /\ UNCHANGED <<serverVars, disk, login>>

-----------------------------------------------------------------------------
\* What a process does by itself.
CallStep(q) == GetHeader(q) \/ Deadline(q) \/ RefreshOnUnauthorized(q)
RefreshStep(c) == Renew(c) \/ RefreshFails(c)

TrackerNext ==
  \/ \E q \in Call : Query(q) \/ CallStep(q) \/ Answered(q)
  \/ \E c \in Client : ServerRefreshes(c) \/ RefreshStep(c) \/ RestartClient(c)
  \/ Callback \/ Exchange
  \/ \E n \in Token : Age(n)

TrackerSpec == TrackerInit /\ [][TrackerNext]_trackerVars

\* What the file holds is worth something to the next process: no order of
\* refreshes, logins and restarts of several processes leaves a refresh token
\* there that the server has replaced, unless the replacement is on its way or
\* was never heard.
StoredTokenIsAccepted ==
  \/ disk.refresh \in accepted
  \/ \E c \in Client : reply[c] # NoTokens /\ reply[c].refresh \in accepted
  \/ lost

\* Every call ends, whatever the tracker and the token endpoint do.
EveryCallEnds == \A q \in Call : call[q] # "idle" ~> call[q] = "idle"
=============================================================================
