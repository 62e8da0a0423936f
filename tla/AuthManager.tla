------------------------------ MODULE AuthManager ------------------------------
(***************************************************************************)
(* The OAuth session of the app's one account (auth/authmanager.cpp): the  *)
(* silent restore at startup, the interactive sign-in, the refreshes that  *)
(* keep the access token warm, the sign-out, and the API requests that ask *)
(* for a new access token when Google answers 401                          *)
(* (GoogleCalendarApi::sendAuthorized), as the main window drives them.    *)
(*                                                                         *)
(* Every asynchronous operation captures m_authEpoch and compares it with  *)
(* the epoch it completes in; only that comparison matters, so a token     *)
(* request carries current, which a new epoch makes FALSE.  An access      *)
(* token is only compared with the one a request was sent with; outdated   *)
(* is the set of requests sent with another one than m_accessToken.        *)
(***************************************************************************)
EXTENDS Naturals, Sequences

CONSTANTS
  Token,            \* refresh tokens
  NoToken,          \* the empty refresh token
  Caller,           \* requests to the Calendar API, sent again and again
  MaxReadRetries,   \* kKeychainReadMaxRetries
  MaxQueue,         \* bound: keychain jobs waiting
  KeychainCanFail   \* whether a keychain write or removal may fail (it is ignored)

ASSUME ConstantsAssumption ==
  /\ NoToken \notin Token
  /\ MaxReadRetries \in Nat
  /\ MaxQueue \in Nat \ {0}
  /\ KeychainCanFail \in BOOLEAN

VARIABLES
  state,            \* m_state
  reason,           \* m_lastSignOutReason
  refreshToken,     \* m_refreshToken
  refreshInFlight,  \* m_refreshInFlight
  forcedRecently,   \* m_accessTokenFromForcedRefresh, within the cooldown
  proactiveTimer,   \* m_proactiveRefreshTimer is armed
  readAttempts,     \* m_keychainReadAttempts
  pending,          \* callbacks the attempt under way waits for
  requests,         \* token requests whose reply is to come
  callers,          \* where each API request is in sendAuthorized
  outdated,         \* API requests sent with an access token since replaced
  stored,           \* the refresh token in the OS credential store
  keychainQueue     \* writes (a token) and removals (NoToken) not done yet

vars == <<state, reason, refreshToken, refreshInFlight, forcedRecently,
          proactiveTimer, readAttempts, pending, requests, callers, outdated,
          stored, keychainQueue>>
sessionVars == <<state, reason, refreshToken, readAttempts, pending>>
tokenVars == <<refreshInFlight, forcedRecently, proactiveTimer>>
apiVars == <<callers, outdated>>
keychainVars == <<stored, keychainQueue>>

TokenOrNone == Token \cup {NoToken}

Request ==
  [context : {"Restore", "Proactive", "Forced", "Exchange"},
   token : TokenOrNone,
   current : BOOLEAN]

TypeOK ==
  /\ state \in {"SignedOut", "Restoring", "SigningIn", "SignedIn"}
  /\ reason \in {"None", "NetworkUnavailable", "CredentialStoreUnavailable",
                 "SessionExpired", "SignInFailed"}
  /\ refreshToken \in TokenOrNone
  /\ refreshInFlight \in BOOLEAN
  /\ forcedRecently \in BOOLEAN
  /\ proactiveTimer \in BOOLEAN
  /\ readAttempts \in 0 .. MaxReadRetries
  /\ pending \in SUBSET {"ReadToken", "ReadRetry", "RestoreCredentials",
                         "SignInCredentials", "Browser"}
  /\ requests \in SUBSET Request
  /\ callers \in [Caller -> {"Idle", "Sent", "Waiting", "Resent"}]
  /\ outdated \in SUBSET Caller
  /\ stored \in TokenOrNone
  /\ keychainQueue \in Seq(TokenOrNone)

(* The process starts: MainWindow's constructor calls restoreSession().    *)
Init ==
  /\ state = "Restoring"
  /\ reason = "None"
  /\ refreshToken = NoToken
  /\ refreshInFlight = FALSE
  /\ forcedRecently = FALSE
  /\ proactiveTimer = FALSE
  /\ readAttempts = 0
  /\ pending = {"ReadToken"}
  /\ requests = {}
  /\ callers = [c \in Caller |-> "Idle"]
  /\ outdated = {}
  /\ stored \in TokenOrNone
  /\ keychainQueue = <<>>

-----------------------------------------------------------------------------
(* Building blocks.                                                        *)

Live(r) == r.current /\ r.context # "Exchange"

(* Mutant of FinishRefreshWaiters: a failed refresh answers nobody.        *)
FinishRefreshWaitersIfRefreshed(refreshed) ==
  callers' = [c \in Caller |->
                IF callers[c] = "Waiting" /\ refreshed THEN "Resent" ELSE callers[c]]

(* finishRefreshWaiters: Refreshed makes a waiter send its request again.  *)
FinishRefreshWaiters(refreshed) ==
  callers' = [c \in Caller |->
                IF callers[c] # "Waiting" THEN callers[c]
                ELSE IF refreshed THEN "Resent" ELSE "Idle"]

(* Mutant of BeginNewAuthEpoch: m_refreshInFlight is not reset.            *)
BeginNewAuthEpochInFlight ==
  /\ requests' = {[r EXCEPT !.current = FALSE] : r \in requests}
  /\ FinishRefreshWaiters(FALSE)
  /\ UNCHANGED refreshInFlight

(* beginNewAuthEpoch: the token requests on the wire no longer count, and  *)
(* their waiters are told NotRecoverable.                                  *)
BeginNewAuthEpoch ==
  /\ requests' = {[r EXCEPT !.current = FALSE] : r \in requests}
  /\ refreshInFlight' = FALSE
  /\ FinishRefreshWaiters(FALSE)

(* Another access token (or none): whatever was sent with the old one  *)
(* is outdated, save the waiters, which this step answers.                 *)
NewAccessToken(answered) ==
  outdated' = {c \in Caller : callers[c] # "Idle"} \ answered

KeychainHasRoom == Len(keychainQueue) < MaxQueue

(* saveRefreshToken, and deleteStoredRefreshToken as KeychainDo(NoToken).  *)
KeychainDo(token) ==
  /\ KeychainHasRoom
  /\ keychainQueue' = Append(keychainQueue, token)
  /\ UNCHANGED stored

-----------------------------------------------------------------------------
(* Silent restore.                                                         *)

(* Mutants of RestoreRetryDue: the timer does not look at the state; it    *)
(* only retries for one of the two reasons.                                *)
RestoreRetryDueInAnyState == reason \in {"NetworkUnavailable", "CredentialStoreUnavailable"}

RestoreRetryDueForNetwork == state = "SignedOut" /\ reason = "NetworkUnavailable"

(* The main window retries a restore that the network or the credential    *)
(* store blocked, for as long as the auth gate is up for that reason.      *)
RestoreRetryDue ==
  /\ state = "SignedOut"
  /\ reason \in {"NetworkUnavailable", "CredentialStoreUnavailable"}

RestoreSession ==
  /\ RestoreRetryDue
  /\ BeginNewAuthEpoch
  /\ readAttempts' = 0
  /\ state' = "Restoring"
  /\ pending' = pending \cup {"ReadToken"}
  /\ UNCHANGED <<reason, refreshToken, forcedRecently, proactiveTimer,
                 outdated, keychainVars>>

(* readStoredRefreshToken's callback; the epoch check in front of it never *)
(* fails, since nothing begins an epoch while Restoring (OneAttempt).      *)
(* Keychain jobs run one after the other.                                  *)
ReadDone ==
  /\ "ReadToken" \in pending
  /\ keychainQueue = <<>>
  /\ UNCHANGED <<tokenVars, requests, apiVars, keychainVars>>

ReadToken ==
  /\ ReadDone
  /\ stored # NoToken
  /\ refreshToken' = stored
  /\ pending' = (pending \ {"ReadToken"}) \cup {"RestoreCredentials"}
  /\ UNCHANGED <<state, reason, readAttempts>>

ReadNoSession ==
  /\ ReadDone
  /\ stored = NoToken
  /\ reason' = "None"
  /\ state' = "SignedOut"
  /\ pending' = pending \ {"ReadToken"}
  /\ UNCHANGED <<refreshToken, readAttempts>>

ReadFatal ==
  /\ ReadDone
  /\ state' = "SignedOut"
  /\ pending' = pending \ {"ReadToken"}
  /\ UNCHANGED <<reason, refreshToken, readAttempts>>

ReadUnavailable ==
  /\ ReadDone
  /\ IF readAttempts < MaxReadRetries
     THEN /\ readAttempts' = readAttempts + 1
          /\ pending' = (pending \ {"ReadToken"}) \cup {"ReadRetry"}
          /\ UNCHANGED <<state, reason>>
     ELSE /\ reason' = "CredentialStoreUnavailable"
          /\ state' = "SignedOut"
          /\ pending' = pending \ {"ReadToken"}
          /\ UNCHANGED readAttempts
  /\ UNCHANGED refreshToken

(* Mutant of ReadAgain: the retries start over.                            *)
ReadAgainUncounted ==
  /\ "ReadRetry" \in pending
  /\ pending' = (pending \ {"ReadRetry"}) \cup {"ReadToken"}
  /\ readAttempts' = 0
  /\ UNCHANGED <<state, reason, refreshToken, tokenVars, requests, apiVars, keychainVars>>

(* The single-shot retry timer.                                            *)
ReadAgain ==
  /\ "ReadRetry" \in pending
  /\ pending' = (pending \ {"ReadRetry"})
                  \cup (IF state = "Restoring" THEN {"ReadToken"} ELSE {})
  /\ UNCHANGED <<state, reason, refreshToken, readAttempts, tokenVars, requests,
                 apiVars, keychainVars>>

RestoreCredentialsResolved ==
  /\ "RestoreCredentials" \in pending
  /\ pending' = pending \ {"RestoreCredentials"}
  /\ refreshInFlight' = TRUE
  /\ requests' = requests \cup
       {[context |-> "Restore", token |-> refreshToken, current |-> TRUE]}
  /\ UNCHANGED <<state, reason, refreshToken, readAttempts, forcedRecently,
                 proactiveTimer, apiVars, keychainVars>>

RestoreCredentialsFailed ==
  /\ "RestoreCredentials" \in pending
  /\ pending' = pending \ {"RestoreCredentials"}
  /\ reason' = "SessionExpired"
  /\ state' = "SignedOut"
  /\ UNCHANGED <<refreshToken, readAttempts, tokenVars, requests, apiVars, keychainVars>>

-----------------------------------------------------------------------------
(* Refreshing the access token.                                            *)

(* The proactive timer's slot, whatever the state.                         *)
ProactiveTimerFires ==
  /\ proactiveTimer
  /\ proactiveTimer' = FALSE
  /\ IF refreshInFlight
     THEN UNCHANGED <<refreshInFlight, requests>>
     ELSE /\ refreshInFlight' = TRUE
          /\ requests' = requests \cup
               {[context |-> "Proactive", token |-> refreshToken, current |-> TRUE]}
  /\ UNCHANGED <<sessionVars, forcedRecently, apiVars, keychainVars>>

(* handleTokenReply drops the reply of an older epoch.                     *)
ReplyDropped(r) ==
  /\ r \in requests
  /\ ~r.current
  /\ requests' = requests \ {r}
  /\ UNCHANGED <<sessionVars, tokenVars, apiVars, keychainVars>>

(* Mutant of RefreshReply: handleTokenReply does not compare epochs.       *)
RefreshReplyOfAnyEpoch(r) ==
  /\ r \in requests
  /\ r.context # "Exchange"
  /\ requests' = requests \ {r}
  /\ refreshInFlight' = FALSE
  /\ UNCHANGED <<readAttempts, pending>>

RefreshReply(r) ==
  /\ r \in requests
  /\ Live(r)
  /\ requests' = requests \ {r}
  /\ refreshInFlight' = FALSE
  /\ UNCHANGED <<readAttempts, pending>>

(* Mutant of RefreshSucceeds: a rotated refresh token is not saved.        *)
RefreshSucceedsUnsaved(r, rotated) ==
  /\ RefreshReply(r)
  /\ r.token # NoToken
  /\ NewAccessToken({c \in Caller : callers[c] = "Waiting"})
  /\ forcedRecently' = (r.context = "Forced")
  /\ refreshToken' = IF rotated = NoToken THEN refreshToken ELSE rotated
  /\ proactiveTimer' = TRUE
  /\ IF r.context = "Restore"
     THEN reason' = "None" /\ state' = "SignedIn"
     ELSE UNCHANGED <<reason, state>>
  /\ FinishRefreshWaiters(TRUE)
  /\ UNCHANGED keychainVars

(* The reply may bring a new refresh token; rotated is NoToken if not.     *)
RefreshSucceeds(r, rotated) ==
  /\ RefreshReply(r)
  /\ r.token # NoToken
  /\ NewAccessToken({c \in Caller : callers[c] = "Waiting"})
  /\ forcedRecently' = (r.context = "Forced")
  /\ IF rotated = NoToken
     THEN UNCHANGED <<refreshToken, keychainVars>>
     ELSE refreshToken' = rotated /\ KeychainDo(rotated)
  /\ proactiveTimer' = TRUE
  /\ IF r.context = "Restore"
     THEN reason' = "None" /\ state' = "SignedIn"
     ELSE UNCHANGED <<reason, state>>
  /\ FinishRefreshWaiters(TRUE)

(* invalid_grant, which Google answers only for a token it was sent.       *)
RefreshRejected(r) ==
  /\ RefreshReply(r)
  /\ r.token # NoToken
  /\ refreshToken' = NoToken
  /\ KeychainDo(NoToken)
  /\ reason' = "SessionExpired"
  /\ state' = "SignedOut"
  /\ FinishRefreshWaiters(FALSE)
  /\ UNCHANGED <<forcedRecently, proactiveTimer, outdated>>

(* Mutant of RefreshUnavailable: a failed refresh is not tried again.      *)
RefreshUnavailableNoRetry(r) ==
  /\ RefreshReply(r)
  /\ IF r.context = "Restore"
     THEN reason' = "NetworkUnavailable" /\ state' = "SignedOut"
     ELSE UNCHANGED <<reason, state>>
  /\ FinishRefreshWaiters(FALSE)
  /\ UNCHANGED <<refreshToken, forcedRecently, proactiveTimer, outdated, keychainVars>>

(* No answer within the transfer timeout, or one that is not invalid_grant.*)
RefreshUnavailable(r) ==
  /\ RefreshReply(r)
  /\ IF r.context = "Restore"
     THEN /\ reason' = "NetworkUnavailable"
          /\ state' = "SignedOut"
          /\ UNCHANGED proactiveTimer
     ELSE /\ proactiveTimer' = TRUE
          /\ UNCHANGED <<reason, state>>
  /\ FinishRefreshWaiters(FALSE)
  /\ UNCHANGED <<refreshToken, forcedRecently, outdated, keychainVars>>

(* kForcedRefreshCooldownMs is over.                                       *)
CooldownEnds ==
  /\ forcedRecently
  /\ forcedRecently' = FALSE
  /\ UNCHANGED <<sessionVars, refreshInFlight, proactiveTimer, requests, apiVars,
                 keychainVars>>

-----------------------------------------------------------------------------
(* The API layer: sendAuthorized.                                          *)

Send(c) ==
  /\ callers[c] = "Idle"
  /\ callers' = [callers EXCEPT ![c] = "Sent"]
  /\ UNCHANGED <<sessionVars, tokenVars, requests, outdated, keychainVars>>

(* The request ends: any answer but 401, or any answer to the retry.       *)
Completes(c) ==
  /\ callers[c] \in {"Sent", "Resent"}
  /\ callers' = [callers EXCEPT ![c] = "Idle"]
  /\ outdated' = outdated \ {c}
  /\ UNCHANGED <<sessionVars, tokenVars, requests, keychainVars>>

(* 401: refreshAfterRejection, which may answer at once, join the refresh  *)
(* under way, or start one.                                                *)
Rejected(c) ==
  /\ callers[c] = "Sent"
  /\ outdated' = outdated \ {c}
  /\ \/ /\ state # "SignedIn" \/ refreshToken = NoToken
        /\ callers' = [callers EXCEPT ![c] = "Idle"]
        /\ UNCHANGED <<refreshInFlight, requests>>
     \/ /\ state = "SignedIn" /\ refreshToken # NoToken
        /\ c \in outdated
        /\ callers' = [callers EXCEPT ![c] = "Resent"]
        /\ UNCHANGED <<refreshInFlight, requests>>
     \/ /\ state = "SignedIn" /\ refreshToken # NoToken
        /\ c \notin outdated /\ refreshInFlight
        /\ callers' = [callers EXCEPT ![c] = "Waiting"]
        /\ UNCHANGED <<refreshInFlight, requests>>
     \/ /\ state = "SignedIn" /\ refreshToken # NoToken
        /\ c \notin outdated /\ ~refreshInFlight /\ forcedRecently
        /\ callers' = [callers EXCEPT ![c] = "Idle"]
        /\ UNCHANGED <<refreshInFlight, requests>>
     \/ /\ state = "SignedIn" /\ refreshToken # NoToken
        /\ c \notin outdated /\ ~refreshInFlight /\ ~forcedRecently
        /\ callers' = [callers EXCEPT ![c] = "Waiting"]
        /\ refreshInFlight' = TRUE
        /\ requests' = requests \cup
             {[context |-> "Forced", token |-> refreshToken, current |-> TRUE]}
  /\ UNCHANGED <<sessionVars, forcedRecently, proactiveTimer, keychainVars>>

-----------------------------------------------------------------------------
(* Interactive sign-in and sign-out.                                       *)

SignIn ==
  /\ state = "SignedOut"
  /\ BeginNewAuthEpoch
  /\ reason' = "SignInFailed"
  /\ state' = "SigningIn"
  /\ pending' = pending \cup {"SignInCredentials"}
  /\ UNCHANGED <<refreshToken, readAttempts, forcedRecently, proactiveTimer,
                 outdated, keychainVars>>

(* beginSignInFlow: the loopback server listens, the browser opens and the *)
(* sign-in timeout starts.                                                 *)
SignInCredentialsResolved ==
  /\ "SignInCredentials" \in pending
  /\ pending' = (pending \ {"SignInCredentials"}) \cup {"Browser"}
  /\ UNCHANGED <<state, reason, refreshToken, readAttempts, tokenVars, requests,
                 apiVars, keychainVars>>

(* No credentials, or the loopback server could not listen.                *)
SignInAborted ==
  /\ "SignInCredentials" \in pending
  /\ pending' = pending \ {"SignInCredentials"}
  /\ state' = "SignedOut"
  /\ UNCHANGED <<reason, refreshToken, readAttempts, tokenVars, requests, apiVars,
                 keychainVars>>

(* The redirect arrives with the expected state: the code is exchanged.    *)
AuthorizationReceived ==
  /\ "Browser" \in pending
  /\ pending' = pending \ {"Browser"}
  /\ requests' = requests \cup
       {[context |-> "Exchange", token |-> NoToken, current |-> TRUE]}
  /\ UNCHANGED <<state, reason, refreshToken, readAttempts, tokenVars, apiVars,
                 keychainVars>>

(* Mutant of BrowserFails: the state is left as it is.                     *)
BrowserFailsSilently ==
  /\ "Browser" \in pending
  /\ pending' = pending \ {"Browser"}
  /\ reason' = "SignInFailed"
  /\ UNCHANGED <<state, refreshToken, readAttempts, tokenVars, requests, apiVars,
                 keychainVars>>

(* An unexpected state, an error redirect, or the timeout.  Only the       *)
(* timeout sets the reason, which is SignInFailed since signIn.            *)
BrowserFails ==
  /\ "Browser" \in pending
  /\ pending' = pending \ {"Browser"}
  /\ reason' = "SignInFailed"
  /\ state' = "SignedOut"
  /\ UNCHANGED <<refreshToken, readAttempts, tokenVars, requests, apiVars,
                 keychainVars>>

ExchangeReply(r) ==
  /\ r \in requests
  /\ r.current /\ r.context = "Exchange"
  /\ requests' = requests \ {r}
  /\ UNCHANGED <<readAttempts, pending, refreshInFlight, callers>>

ExchangeSucceeds(r, granted) ==
  /\ ExchangeReply(r)
  /\ NewAccessToken({})
  /\ forcedRecently' = FALSE
  /\ refreshToken' = granted
  /\ KeychainDo(granted)
  /\ proactiveTimer' = TRUE
  /\ reason' = "None"
  /\ state' = "SignedIn"

(* An error, or an answer without a refresh token.                         *)
ExchangeFails(r) ==
  /\ ExchangeReply(r)
  /\ state' = "SignedOut"
  /\ UNCHANGED <<reason, refreshToken, forcedRecently, proactiveTimer, outdated,
                 keychainVars>>

(* The menu enables Sign Out only while signed in.  The best-effort revoke *)
(* is not waited for and shows in nothing the program keeps.               *)
SignOut ==
  /\ state = "SignedIn"
  /\ BeginNewAuthEpoch
  /\ reason' = "None"
  /\ pending' = pending \ {"Browser"}
  /\ proactiveTimer' = FALSE
  /\ NewAccessToken({c \in Caller : callers[c] = "Waiting"})
  /\ refreshToken' = NoToken
  /\ KeychainDo(NoToken)
  /\ state' = "SignedOut"
  /\ UNCHANGED <<readAttempts, forcedRecently>>

-----------------------------------------------------------------------------
(* The credential store and the process.                                   *)

KeychainWorks ==
  /\ keychainQueue # <<>>
  /\ \/ stored' = Head(keychainQueue)
     \/ KeychainCanFail /\ UNCHANGED stored
  /\ keychainQueue' = Tail(keychainQueue)
  /\ UNCHANGED <<sessionVars, tokenVars, requests, apiVars>>

(* The process exits or crashes and starts again; keychain jobs still      *)
(* queued are lost.                                                        *)
Restart ==
  /\ state' = "Restoring"
  /\ reason' = "None"
  /\ refreshToken' = NoToken
  /\ refreshInFlight' = FALSE
  /\ forcedRecently' = FALSE
  /\ proactiveTimer' = FALSE
  /\ readAttempts' = 0
  /\ pending' = {"ReadToken"}
  /\ requests' = {}
  /\ callers' = [c \in Caller |-> "Idle"]
  /\ outdated' = {}
  /\ keychainQueue' = <<>>
  /\ UNCHANGED stored

-----------------------------------------------------------------------------
Restoring ==
  \/ ReadToken \/ ReadNoSession \/ ReadFatal \/ ReadUnavailable \/ ReadAgain
  \/ RestoreCredentialsResolved \/ RestoreCredentialsFailed

SigningIn ==
  \/ SignInCredentialsResolved \/ SignInAborted
  \/ AuthorizationReceived \/ BrowserFails

Reply(r) ==
  \/ ReplyDropped(r)
  \/ \E t \in TokenOrNone : RefreshSucceeds(r, t)
  \/ RefreshRejected(r)
  \/ RefreshUnavailable(r)
  \/ \E t \in Token : ExchangeSucceeds(r, t)
  \/ ExchangeFails(r)

ApiCall(c) == Send(c) \/ Completes(c) \/ Rejected(c)

Next ==
  \/ RestoreSession
  \/ Restoring
  \/ SignIn
  \/ SigningIn
  \/ SignOut
  \/ ProactiveTimerFires
  \/ CooldownEnds
  \/ \E r \in requests : Reply(r)
  \/ \E c \in Caller : ApiCall(c)
  \/ KeychainWorks
  \/ Restart

Spec == Init /\ [][Next]_vars

(* Every network request has a transfer timeout, a keychain job ends, the  *)
(* timers fire.  Nothing makes the user answer the credentials dialog.     *)
Answered(kind) == \E r \in requests : r.context = kind /\ r.current /\ Reply(r)

LiveSpec ==
  /\ Spec
  /\ WF_vars(KeychainWorks)
  /\ WF_vars(Restoring)
  /\ WF_vars(RestoreSession)
  /\ WF_vars(BrowserFails)
  /\ \A kind \in {"Restore", "Proactive", "Forced", "Exchange"} : WF_vars(Answered(kind))

-----------------------------------------------------------------------------
(* Properties.                                                             *)

(* The one thing a restore or a sign-in waits for is always outstanding,   *)
(* and nothing of an attempt outlives it: the callbacks that do not check  *)
(* the epoch (resolveCredentials, the loopback server, the sign-in         *)
(* timeout) never run in a state they were not started for, and neither    *)
(* attempt can be left hanging.                                            *)
Continuations ==
  pending \cup
    {r.context : r \in {q \in requests : q.current /\ q.context \in {"Restore", "Exchange"}}}

RestoreSteps == {"ReadToken", "ReadRetry", "RestoreCredentials", "Restore"}
SignInSteps == {"SignInCredentials", "Browser", "Exchange"}

OneAttempt ==
  /\ state = "Restoring" => \E step \in RestoreSteps : Continuations = {step}
  /\ state = "SigningIn" => \E step \in SignInSteps : Continuations = {step}
  /\ state \in {"SignedOut", "SignedIn"} => Continuations = {}

(* Refreshes share one request: m_refreshInFlight says exactly whether a   *)
(* refresh of this epoch is on the wire, there is at most one, and whoever *)
(* waits for it in refreshAfterRejection has one that will answer (a new   *)
(* epoch drops the reply, so it must answer the waiters itself).           *)
OneRefresh ==
  /\ refreshInFlight <=> \E r \in requests : Live(r)
  /\ \A q, r \in requests : Live(q) /\ Live(r) => q = r

WaitersHaveARefresh ==
  /\ OneRefresh
  /\ \A c \in Caller : callers[c] = "Waiting" => refreshInFlight /\ state = "SignedIn"

(* The token the next start will read, once the queued keychain jobs are   *)
(* done.                                                                   *)
Eventual ==
  IF keychainQueue = <<>> THEN stored ELSE keychainQueue[Len(keychainQueue)]

(* The credential store ends up with the session's own refresh token: one  *)
(* Google rotated is saved, one the network or the credential store could  *)
(* not use is kept, one that was refused is removed (refreshAccessToken,   *)
(* exchangeAuthorizationCode, signOut).                                    *)
StoredIsTheSession ==
  KeychainCanFail \/
    /\ refreshToken # NoToken => Eventual = refreshToken
    /\ state = "SignedIn" => refreshToken # NoToken
    /\ state = "SignedOut" /\ reason = "NetworkUnavailable" => refreshToken # NoToken
    /\ state = "SignedOut" /\ reason = "SessionExpired" => Eventual = refreshToken

(* A session is always kept warm: either the timer that refreshes it is    *)
(* armed, or a refresh, whose end arms it, is on the wire                  *)
(* (m_proactiveRefreshTimer's slot, scheduleProactiveRefresh).             *)
KeptWarm == state = "SignedIn" => proactiveTimer \/ refreshInFlight

(* A slow reply neither brings a signed-out session back nor rewrites the  *)
(* credential store after a sign-out (m_authEpoch): a session begins only  *)
(* out of an attempt, and only a session saves a token.                    *)
NoResurrection ==
  [][\/ Restart \/ KeychainWorks
     \/ /\ state' = "SignedIn" => state # "SignedOut"
        /\ Eventual' \notin {Eventual, NoToken} => state' = "SignedIn"]_vars

(* The process is not restarted for ever.                                  *)
KeepsRunning == <>[][~Restart]_vars

(* A silent restore ends, however often the keychain read is retried, and  *)
(* so does a browser sign-in the user walks away from (the sign-in         *)
(* timeout).                                                               *)
AttemptsEnd ==
  KeepsRunning =>
    /\ state = "Restoring" ~> state # "Restoring"
    /\ "Browser" \in pending ~> state \in {"SignedIn", "SignedOut"}

(* A request refused with 401 that waits for a refresh is answered.        *)
WaitersAnswered == \A c \in Caller : callers[c] = "Waiting" ~> callers[c] # "Waiting"

(* The credential store and Google are not out of reach for ever: of the   *)
(* restores tried again and again, one gets through each stage.            *)
RestoreGranted == \E r \in requests : r.context = "Restore" /\ RefreshSucceeds(r, NoToken)

Reachable ==
  /\ SF_vars(ReadToken \/ ReadNoSession)
  /\ SF_vars(RestoreCredentialsResolved)
  /\ SF_vars(RestoreGranted)

(* A restore the network or the credential store blocked is retried until  *)
(* the session is back or turns out to be gone, with no action of the      *)
(* user (MainWindow::m_restoreRetryTimer).                                 *)
Blocked == reason \in {"NetworkUnavailable", "CredentialStoreUnavailable"}

SilentRecovery == Reachable /\ KeepsRunning => Blocked ~> state = "SignedIn" \/ ~Blocked
=============================================================================
