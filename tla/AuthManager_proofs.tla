--------------------------- MODULE AuthManager_proofs ---------------------------
(***************************************************************************)
(* Proofs about AuthManager: its type invariant, the safety properties of  *)
(* the session's control state, and what the credential store ends up with.*)
(***************************************************************************)
EXTENDS AuthManager, TLAPS

(* Where no session has begun yet and the silent restore may run: the      *)
(* proactive timer is not armed and no refresh but the restore's own is on *)
(* the wire.                                                               *)
Cold ==
  state = "Restoring" \/ (state = "SignedOut" /\ Blocked) =>
    /\ ~proactiveTimer
    /\ \A r \in requests : Live(r) => r.context = "Restore"

(* Where there is no session, a refresh the timer may still send, or has   *)
(* sent, goes out without a token, so its reply cannot change the state.   *)
Powerless ==
  state \in {"SignedOut", "SigningIn"} =>
    /\ \A r \in requests : Live(r) => r.token = NoToken
    /\ proactiveTimer \/ refreshInFlight => refreshToken = NoToken

RestoreHasToken ==
  state = "Restoring" /\ ("RestoreCredentials" \in pending \/ refreshInFlight) =>
    refreshToken # NoToken

(* A restore keeps the reason of the one before it: never a refused token, *)
(* and the network only for a token that could not be tried.               *)
RestoreReason ==
  /\ state = "Restoring" => reason # "SessionExpired"
  /\ state \in {"Restoring", "SignedOut"} /\ reason = "NetworkUnavailable" =>
       refreshToken # NoToken

SessionHasToken == state = "SignedIn" => refreshToken # NoToken

SignInReason == state = "SigningIn" => reason = "SignInFailed"

ExchangesBare == \A r \in requests : r.context = "Exchange" => r.token = NoToken

(* OneAttempt, one kind of continuation at a time.                         *)
Outstanding(context) == \E r \in requests : r.current /\ r.context = context

Attempt ==
  /\ state \in {"SignedOut", "SignedIn"} =>
       pending = {} /\ ~Outstanding("Restore") /\ ~Outstanding("Exchange")
  /\ state = "Restoring" =>
       /\ ~Outstanding("Exchange")
       /\ \/ pending = {} /\ Outstanding("Restore")
          \/ /\ ~Outstanding("Restore")
             /\ \E step \in {"ReadToken", "ReadRetry", "RestoreCredentials"} : pending = {step}
  /\ state = "SigningIn" =>
       /\ ~Outstanding("Restore")
       /\ \/ pending = {} /\ Outstanding("Exchange")
          \/ /\ ~Outstanding("Exchange")
             /\ \E step \in {"SignInCredentials", "Browser"} : pending = {step}

(* The inductive invariant of the control state.                           *)
ControlInv ==
  /\ Attempt
  /\ WaitersHaveARefresh
  /\ Cold
  /\ Powerless
  /\ RestoreHasToken
  /\ RestoreReason
  /\ SessionHasToken
  /\ SignInReason
  /\ ExchangesBare
  /\ KeptWarm

-----------------------------------------------------------------------------
(* Types.                                                                  *)

(* What the building blocks return has the type of the variable it is for. *)
LEMMA WaitersType ==
  ASSUME TypeOK, NEW refreshed \in BOOLEAN, FinishRefreshWaiters(refreshed)
  PROVE  callers' \in [Caller -> {"Idle", "Sent", "Waiting", "Resent"}]
BY DEF TypeOK, FinishRefreshWaiters

LEMMA EpochType ==
  ASSUME TypeOK, BeginNewAuthEpoch
  PROVE  /\ requests' \in SUBSET Request
         /\ refreshInFlight' \in BOOLEAN
         /\ callers' \in [Caller -> {"Idle", "Sent", "Waiting", "Resent"}]
<1>1. \A r \in Request : [r EXCEPT !.current = FALSE] \in Request
  BY DEF Request
<1>2. requests' \in SUBSET Request
  BY <1>1 DEF BeginNewAuthEpoch, TypeOK
<1> QED
  BY <1>2, WaitersType DEF BeginNewAuthEpoch

LEMMA KeychainType ==
  ASSUME TypeOK, NEW token \in TokenOrNone, KeychainDo(token)
  PROVE  stored' \in TokenOrNone /\ keychainQueue' \in Seq(TokenOrNone)
BY DEF TypeOK, KeychainDo

LEMMA RequestType ==
  \A context \in {"Restore", "Proactive", "Forced", "Exchange"}, token \in TokenOrNone :
    [context |-> context, token |-> token, current |-> TRUE] \in Request
BY DEF Request

LEMMA ReadBound ==
  /\ 0 \in 0 .. MaxReadRetries
  /\ \A n \in 0 .. MaxReadRetries : n < MaxReadRetries => n + 1 \in 0 .. MaxReadRetries
BY ConstantsAssumption

LEMMA EmptySeq == <<>> \in Seq(TokenOrNone)
OBVIOUS

LEMMA InitType == Init => TypeOK
BY ReadBound, EmptySeq DEF Init, TypeOK, TokenOrNone, Request

LEMMA StepType ==
  ASSUME TypeOK, [Next]_vars
  PROVE  TypeOK'
<1> USE DEF TypeOK, sessionVars, tokenVars, apiVars, keychainVars
<1>0. NoToken \in TokenOrNone
  BY DEF TokenOrNone
<1>1. CASE RestoreSession
  BY <1>1, ReadBound, EpochType DEF RestoreSession, RestoreRetryDue
<1>2. CASE Restoring
  <2>1. CASE ReadToken
    BY <2>1 DEF ReadToken, ReadDone
  <2>2. CASE ReadNoSession
    BY <2>2 DEF ReadNoSession, ReadDone
  <2>3. CASE ReadFatal
    BY <2>3 DEF ReadFatal, ReadDone
  <2>4. CASE ReadUnavailable
    BY <2>4, ReadBound DEF ReadUnavailable, ReadDone
  <2>5. CASE ReadAgain
    BY <2>5 DEF ReadAgain
  <2>6. CASE RestoreCredentialsResolved
    BY <2>6, RequestType DEF RestoreCredentialsResolved
  <2>7. CASE RestoreCredentialsFailed
    BY <2>7 DEF RestoreCredentialsFailed
  <2> QED
    BY <1>2, <2>1, <2>2, <2>3, <2>4, <2>5, <2>6, <2>7 DEF Restoring
<1>3. CASE SignIn
  BY <1>3, EpochType DEF SignIn
<1>4. CASE SigningIn
  <2>1. CASE SignInCredentialsResolved
    BY <2>1 DEF SignInCredentialsResolved
  <2>2. CASE SignInAborted
    BY <2>2 DEF SignInAborted
  <2>3. CASE AuthorizationReceived
    BY <2>3, <1>0, RequestType DEF AuthorizationReceived
  <2>4. CASE BrowserFails
    BY <2>4 DEF BrowserFails
  <2> QED
    BY <1>4, <2>1, <2>2, <2>3, <2>4 DEF SigningIn
<1>5. CASE SignOut
  BY <1>5, <1>0, EpochType, KeychainType DEF SignOut, NewAccessToken
<1>6. CASE ProactiveTimerFires
  BY <1>6, RequestType DEF ProactiveTimerFires
<1>7. CASE CooldownEnds
  BY <1>7 DEF CooldownEnds
<1>8. ASSUME NEW r \in requests, Reply(r)
      PROVE  TypeOK'
  <2>1. CASE ReplyDropped(r)
    BY <2>1 DEF ReplyDropped
  <2>2. ASSUME NEW t \in TokenOrNone, RefreshSucceeds(r, t)
        PROVE  TypeOK'
    <3>1. callers' \in [Caller -> {"Idle", "Sent", "Waiting", "Resent"}]
      BY <2>2, WaitersType DEF RefreshSucceeds
    <3>2. stored' \in TokenOrNone /\ keychainQueue' \in Seq(TokenOrNone)
      BY <2>2, KeychainType DEF RefreshSucceeds
    <3> QED
      BY <2>2, <3>1, <3>2 DEF RefreshSucceeds, RefreshReply, NewAccessToken
  <2>3. CASE RefreshRejected(r)
    <3>1. callers' \in [Caller -> {"Idle", "Sent", "Waiting", "Resent"}]
      BY <2>3, WaitersType DEF RefreshRejected
    <3> QED
      BY <2>3, <3>1, <1>0, KeychainType DEF RefreshRejected, RefreshReply
  <2>4. CASE RefreshUnavailable(r)
    BY <2>4, WaitersType DEF RefreshUnavailable, RefreshReply
  <2>5. ASSUME NEW t \in Token, ExchangeSucceeds(r, t)
        PROVE  TypeOK'
    <3>1. t \in TokenOrNone
      BY DEF TokenOrNone
    <3> QED
      BY <2>5, <3>1, KeychainType DEF ExchangeSucceeds, ExchangeReply, NewAccessToken
  <2>6. CASE ExchangeFails(r)
    BY <2>6 DEF ExchangeFails, ExchangeReply
  <2> QED
    BY <1>8, <2>1, <2>2, <2>3, <2>4, <2>5, <2>6 DEF Reply
<1>9. ASSUME NEW c \in Caller, ApiCall(c)
      PROVE  TypeOK'
  <2>1. CASE Send(c)
    BY <2>1 DEF Send
  <2>2. CASE Completes(c)
    BY <2>2 DEF Completes
  <2>3. CASE Rejected(c)
    BY <2>3, RequestType DEF Rejected
  <2> QED
    BY <1>9, <2>1, <2>2, <2>3 DEF ApiCall
<1>10. CASE KeychainWorks
  BY <1>10 DEF KeychainWorks
<1>11. CASE Restart
  BY <1>11, <1>0, ReadBound, EmptySeq DEF Restart
<1>12. CASE UNCHANGED vars
  BY <1>12 DEF vars
<1> QED
  BY <1>1, <1>2, <1>3, <1>4, <1>5, <1>6, <1>7, <1>8, <1>9, <1>10, <1>11, <1>12 DEF Next

(* Every variable keeps its type; the keychain read is retried at most     *)
(* kKeychainReadMaxRetries times.                                          *)
THEOREM TypeCorrect == Spec => []TypeOK
<1>1. Init => TypeOK
  BY InitType
<1>2. TypeOK /\ [Next]_vars => TypeOK'
  BY StepType
<1> QED
  BY <1>1, <1>2, PTL DEF Spec
-----------------------------------------------------------------------------
(* The control state.                                                      *)

(* Sending a token request adds one request, with these fields.            *)
LEMMA NewRequest ==
  ASSUME NEW context, NEW token,
         requests' = requests \cup {[context |-> context, token |-> token, current |-> TRUE]}
  PROVE  \E new : /\ new.context = context
                  /\ new.token = token
                  /\ new.current = TRUE
                  /\ requests' = requests \cup {new}
OBVIOUS

(* What an attempt waits for, in the words of OneAttempt.                  *)
LEMMA AttemptIsOne ==
  ASSUME TypeOK, Attempt
  PROVE  OneAttempt
<1>1. \A step : step \in Continuations <=>
         \/ step \in pending
         \/ step \in {"Restore", "Exchange"} /\ Outstanding(step)
  BY DEF Continuations, Outstanding
<1>2. CASE state = "Restoring"
  <2>1. CASE pending = {} /\ Outstanding("Restore")
    <3>1. Continuations = {"Restore"}
      BY <1>1, <1>2, <2>1 DEF Attempt
    <3> QED
      BY <1>2, <3>1 DEF OneAttempt, RestoreSteps
  <2>2. ASSUME NEW step \in {"ReadToken", "ReadRetry", "RestoreCredentials"},
               pending = {step}, ~Outstanding("Restore")
        PROVE  OneAttempt
    <3>1. Continuations = {step}
      BY <1>1, <1>2, <2>2 DEF Attempt
    <3> QED
      BY <1>2, <3>1 DEF OneAttempt, RestoreSteps
  <2> QED
    BY <1>2, <2>1, <2>2 DEF Attempt
<1>3. CASE state = "SigningIn"
  <2>1. CASE pending = {} /\ Outstanding("Exchange")
    <3>1. Continuations = {"Exchange"}
      BY <1>1, <1>3, <2>1 DEF Attempt
    <3> QED
      BY <1>3, <3>1 DEF OneAttempt, SignInSteps
  <2>2. ASSUME NEW step \in {"SignInCredentials", "Browser"},
               pending = {step}, ~Outstanding("Exchange")
        PROVE  OneAttempt
    <3>1. Continuations = {step}
      BY <1>1, <1>3, <2>2 DEF Attempt
    <3> QED
      BY <1>3, <3>1 DEF OneAttempt, SignInSteps
  <2> QED
    BY <1>3, <2>1, <2>2 DEF Attempt
<1>4. CASE state \in {"SignedOut", "SignedIn"}
  <2>1. Continuations = {}
    BY <1>1, <1>4 DEF Attempt
  <2> QED
    BY <1>4, <2>1 DEF OneAttempt
<1> QED
  BY <1>2, <1>3, <1>4 DEF TypeOK

LEMMA InitControl == Init => ControlInv
BY DEF Init, ControlInv, Attempt, Outstanding, WaitersHaveARefresh, OneRefresh, Live,
       Cold, Powerless, RestoreHasToken, RestoreReason, SessionHasToken, SignInReason, ExchangesBare,
       KeptWarm

(* Which conjuncts a step can disturb: the attempts are begun, advanced    *)
(* and ended by Restoring, SigningIn and the replies of their requests;    *)
(* a refresh is sent by the restore, the timer and a 401, and ended by its *)
(* reply or a new epoch, each of which answers the waiters; the timer is   *)
(* armed by every reply a session lives through.                           *)
LEMMA StepControl ==
  ASSUME TypeOK, TypeOK', ControlInv, [Next]_vars
  PROVE  ControlInv'
<1> USE DEF ControlInv, Attempt, Outstanding, WaitersHaveARefresh, OneRefresh, Live, Cold,
            Blocked, Powerless, RestoreHasToken, RestoreReason, SessionHasToken, SignInReason,
            ExchangesBare, KeptWarm, TypeOK, Request, sessionVars, tokenVars, apiVars,
            keychainVars
<1>0. NoToken \notin Token
  BY ConstantsAssumption
<1>1. CASE RestoreSession
  BY <1>1 DEF RestoreSession, RestoreRetryDue, BeginNewAuthEpoch, FinishRefreshWaiters
<1>2. CASE Restoring
  <2>1. CASE ReadToken
    BY <2>1 DEF ReadToken, ReadDone
  <2>2. CASE ReadNoSession
    BY <2>2 DEF ReadNoSession, ReadDone
  <2>3. CASE ReadFatal
    BY <2>3 DEF ReadFatal, ReadDone
  <2>4. CASE ReadUnavailable
    BY <2>4 DEF ReadUnavailable, ReadDone
  <2>5. CASE ReadAgain
    BY <2>5 DEF ReadAgain
  <2>6. CASE RestoreCredentialsResolved
    <3>1. /\ state = "Restoring" /\ pending = {"RestoreCredentials"}
          /\ \A r \in requests : ~Live(r)
      BY <2>6 DEF RestoreCredentialsResolved
    <3>2. PICK new : /\ new.context = "Restore"
                     /\ new.token = refreshToken
                     /\ new.current = TRUE
                     /\ requests' = requests \cup {new}
      BY <2>6, NewRequest DEF RestoreCredentialsResolved
    <3> QED
      BY <2>6, <3>1, <3>2 DEF RestoreCredentialsResolved
  <2>7. CASE RestoreCredentialsFailed
    BY <2>7 DEF RestoreCredentialsFailed
  <2> QED
    BY <1>2, <2>1, <2>2, <2>3, <2>4, <2>5, <2>6, <2>7 DEF Restoring
<1>3. CASE SignIn
  BY <1>3 DEF SignIn, BeginNewAuthEpoch, FinishRefreshWaiters
<1>4. CASE SigningIn
  <2>1. CASE SignInCredentialsResolved
    BY <2>1 DEF SignInCredentialsResolved
  <2>2. CASE SignInAborted
    BY <2>2 DEF SignInAborted
  <2>3. CASE AuthorizationReceived
    <3>1. PICK new : /\ new.context = "Exchange"
                     /\ new.token = NoToken
                     /\ new.current = TRUE
                     /\ requests' = requests \cup {new}
      BY <2>3, NewRequest DEF AuthorizationReceived
    <3> QED
      BY <2>3, <3>1 DEF AuthorizationReceived
  <2>4. CASE BrowserFails
    BY <2>4 DEF BrowserFails
  <2> QED
    BY <1>4, <2>1, <2>2, <2>3, <2>4 DEF SigningIn
<1>5. CASE SignOut
  BY <1>5 DEF SignOut, BeginNewAuthEpoch, FinishRefreshWaiters
<1>6. CASE ProactiveTimerFires
  <2>1. CASE refreshInFlight
    BY <1>6, <2>1 DEF ProactiveTimerFires
  <2>2. CASE ~refreshInFlight
    <3>1. PICK new : /\ new.context = "Proactive"
                     /\ new.token = refreshToken
                     /\ new.current = TRUE
                     /\ requests' = requests \cup {new}
      BY <1>6, <2>2, NewRequest DEF ProactiveTimerFires
    <3> QED
      BY <1>6, <2>2, <3>1 DEF ProactiveTimerFires
  <2> QED
    BY <2>1, <2>2
<1>7. CASE CooldownEnds
  BY <1>7 DEF CooldownEnds
<1>8. ASSUME NEW r \in requests, Reply(r)
      PROVE  ControlInv'
  <2>1. CASE ReplyDropped(r)
    BY <2>1 DEF ReplyDropped
  <2>2. ASSUME NEW t \in TokenOrNone, RefreshSucceeds(r, t)
        PROVE  ControlInv'
    BY <2>2 DEF RefreshSucceeds, RefreshReply, FinishRefreshWaiters
  <2>3. CASE RefreshRejected(r)
    BY <2>3 DEF RefreshRejected, RefreshReply, FinishRefreshWaiters
  <2>4. CASE RefreshUnavailable(r)
    BY <2>4 DEF RefreshUnavailable, RefreshReply, FinishRefreshWaiters
  <2>5. ASSUME NEW t \in Token, ExchangeSucceeds(r, t)
        PROVE  ControlInv'
    BY <2>5, <1>0 DEF ExchangeSucceeds, ExchangeReply
  <2>6. CASE ExchangeFails(r)
    BY <2>6 DEF ExchangeFails, ExchangeReply
  <2> QED
    BY <1>8, <2>1, <2>2, <2>3, <2>4, <2>5, <2>6 DEF Reply
<1>9. ASSUME NEW c \in Caller, ApiCall(c)
      PROVE  ControlInv'
  <2>1. CASE Send(c)
    BY <2>1 DEF Send
  <2>2. CASE Completes(c)
    BY <2>2 DEF Completes
  <2>3. CASE Rejected(c)
    <3>1. CASE UNCHANGED <<refreshInFlight, requests>>
      BY <2>3, <3>1 DEF Rejected
    <3>2. CASE ~UNCHANGED <<refreshInFlight, requests>>
      <4>1. /\ state = "SignedIn" /\ ~refreshInFlight
            /\ refreshInFlight' = TRUE
            /\ callers' = [callers EXCEPT ![c] = "Waiting"]
            /\ requests' = requests \cup
                 {[context |-> "Forced", token |-> refreshToken, current |-> TRUE]}
        BY <2>3, <3>2 DEF Rejected
      <4>2. PICK new : /\ new.context = "Forced"
                       /\ new.token = refreshToken
                       /\ new.current = TRUE
                       /\ requests' = requests \cup {new}
        BY <4>1, NewRequest
      <4> QED
        BY <2>3, <4>1, <4>2 DEF Rejected
    <3> QED
      BY <3>1, <3>2
  <2> QED
    BY <1>9, <2>1, <2>2, <2>3 DEF ApiCall
<1>10. CASE KeychainWorks
  BY <1>10 DEF KeychainWorks
<1>11. CASE Restart
  BY <1>11 DEF Restart
<1>12. CASE UNCHANGED vars
  BY <1>12 DEF vars
<1> QED
  BY <1>1, <1>2, <1>3, <1>4, <1>5, <1>6, <1>7, <1>8, <1>9, <1>10, <1>11, <1>12 DEF Next

LEMMA ControlInvariant == Spec => [](TypeOK /\ ControlInv)
<1>1. Init => TypeOK /\ ControlInv
  BY InitType, InitControl
<1>2. TypeOK /\ ControlInv /\ [Next]_vars => (TypeOK /\ ControlInv)'
  BY StepType, StepControl
<1> QED
  BY <1>1, <1>2, PTL DEF Spec

(* A restore or a sign-in under way waits for exactly one thing, and       *)
(* nothing of an attempt outlives it, so the callbacks that do not compare *)
(* epochs never run in another state than the one they were started in.    *)
THEOREM OneAttemptAtATime == Spec => []OneAttempt
<1>1. TypeOK /\ ControlInv => OneAttempt
  BY AttemptIsOne DEF ControlInv
<1> QED
  BY <1>1, ControlInvariant, PTL

(* At most one refresh is on the wire, m_refreshInFlight says exactly      *)
(* whether it is, and every request that waits for it will be answered by  *)
(* it.                                                                     *)
THEOREM WaitersAlwaysHaveARefresh == Spec => []WaitersHaveARefresh
<1>1. ControlInv => WaitersHaveARefresh
  BY DEF ControlInv
<1> QED
  BY <1>1, ControlInvariant, PTL

(* A session is always kept warm by the proactive timer or a refresh.      *)
THEOREM AlwaysKeptWarm == Spec => []KeptWarm
<1>1. ControlInv => KeptWarm
  BY DEF ControlInv
<1> QED
  BY <1>1, ControlInvariant, PTL

-----------------------------------------------------------------------------
(* The credential store.                                                   *)

(* A queued keychain job decides what the store ends up with.              *)
LEMMA QueuedDecides ==
  ASSUME TypeOK, NEW token \in TokenOrNone, KeychainDo(token)
  PROVE  Eventual' = token
<1>1. keychainQueue \in Seq(TokenOrNone) /\ keychainQueue' = Append(keychainQueue, token)
  BY DEF TypeOK, KeychainDo
<1>2. /\ keychainQueue' # <<>>
      /\ keychainQueue'[Len(keychainQueue')] = token
  BY <1>1
<1> QED
  BY <1>2 DEF Eventual

(* Doing a queued job changes nothing of that, unless it may fail.         *)
LEMMA DoneAsQueued ==
  ASSUME TypeOK, ~KeychainCanFail, KeychainWorks
  PROVE  Eventual' = Eventual
<1> DEFINE q == keychainQueue
<1>1. /\ q \in Seq(TokenOrNone) /\ q # <<>>
      /\ stored' = Head(q) /\ q' = Tail(q)
  BY DEF TypeOK, KeychainWorks
<1>2. Len(q) \in Nat \ {0} /\ Len(Tail(q)) = Len(q) - 1
  BY <1>1
<1>3. CASE Len(q) = 1
  <2>1. Tail(q) = <<>> /\ Head(q) = q[Len(q)]
    BY <1>1, <1>2, <1>3
  <2> QED
    BY <1>1, <2>1 DEF Eventual
<1>4. CASE Len(q) # 1
  <2>1. Len(q) - 1 \in 1 .. Len(Tail(q)) /\ Len(q) - 1 + 1 = Len(q)
    BY <1>2, <1>4
  <2>2. \A i \in 1 .. Len(Tail(q)) : Tail(q)[i] = q[i + 1]
    BY <1>1
  <2>3. Tail(q)[Len(q) - 1] = q[Len(q)]
    BY <2>1, <2>2
  <2>4. Tail(q) # <<>>
    BY <1>2, <1>4
  <2> QED
    BY <1>1, <1>2, <2>3, <2>4 DEF Eventual
<1> QED
  BY <1>3, <1>4

LEMMA InitStored == Init => StoredIsTheSession
BY DEF Init, StoredIsTheSession, Eventual

LEMMA StepStored ==
  ASSUME TypeOK, TypeOK', ControlInv, ControlInv', StoredIsTheSession, [Next]_vars
  PROVE  StoredIsTheSession'
<1> SUFFICES ASSUME ~KeychainCanFail
             PROVE  StoredIsTheSession'
  BY DEF StoredIsTheSession
<1> USE DEF StoredIsTheSession, sessionVars, tokenVars, apiVars, keychainVars
<1>0. NoToken \notin Token /\ NoToken \in TokenOrNone
  BY ConstantsAssumption DEF TokenOrNone
<1>1. CASE RestoreSession
  BY <1>1 DEF RestoreSession, RestoreRetryDue, Eventual
<1>2. CASE Restoring
  <2>0. state = "Restoring"
    BY <1>2 DEF Restoring, ReadToken, ReadNoSession, ReadFatal, ReadUnavailable, ReadDone,
                ReadAgain, RestoreCredentialsResolved, RestoreCredentialsFailed,
                ControlInv, Attempt, TypeOK
  <2>1. CASE ReadToken
    BY <2>1 DEF ReadToken, ReadDone, Eventual
  <2>2. CASE ReadNoSession
    BY <2>2 DEF ReadNoSession, ReadDone, Eventual
  <2>3. CASE ReadFatal
    BY <2>0, <2>3 DEF ReadFatal, ReadDone, Eventual, ControlInv, RestoreReason
  <2>4. CASE ReadUnavailable
    BY <2>0, <2>4 DEF ReadUnavailable, ReadDone, Eventual
  <2>5. CASE ReadAgain
    BY <2>5 DEF ReadAgain, Eventual
  <2>6. CASE RestoreCredentialsResolved
    BY <2>6 DEF RestoreCredentialsResolved, Eventual
  <2>7. CASE RestoreCredentialsFailed
    <3>1. refreshToken # NoToken
      BY <2>0, <2>7 DEF RestoreCredentialsFailed, ControlInv, RestoreHasToken
    <3> QED
      BY <2>7, <3>1 DEF RestoreCredentialsFailed, Eventual
  <2> QED
    BY <1>2, <2>1, <2>2, <2>3, <2>4, <2>5, <2>6, <2>7 DEF Restoring
<1>3. CASE SignIn
  BY <1>3 DEF SignIn, Eventual
<1>4. CASE SigningIn
  <2>0. state = "SigningIn" /\ reason = "SignInFailed"
    BY <1>4 DEF SigningIn, SignInCredentialsResolved, SignInAborted, AuthorizationReceived,
                BrowserFails, ControlInv, Attempt, SignInReason, TypeOK
  <2> QED
    BY <1>4, <2>0 DEF SigningIn, SignInCredentialsResolved, SignInAborted,
                      AuthorizationReceived, BrowserFails, Eventual
<1>5. CASE SignOut
  <2>1. Eventual' = NoToken
    BY <1>5, <1>0, QueuedDecides DEF SignOut
  <2> QED
    BY <1>5, <2>1 DEF SignOut
<1>6. CASE ProactiveTimerFires
  BY <1>6 DEF ProactiveTimerFires, Eventual
<1>7. CASE CooldownEnds
  BY <1>7 DEF CooldownEnds, Eventual
<1>8. ASSUME NEW r \in requests, Reply(r)
      PROVE  StoredIsTheSession'
  <2>1. CASE ReplyDropped(r)
    BY <2>1 DEF ReplyDropped, Eventual
  <2>2. ASSUME NEW t \in TokenOrNone, RefreshSucceeds(r, t)
        PROVE  StoredIsTheSession'
    <3>0. state' = "SignedIn"
      BY <2>2 DEF RefreshSucceeds, RefreshReply, ControlInv, Powerless, Cold, Live, TypeOK
    <3>1. CASE t = NoToken
      <4>1. Eventual' = Eventual /\ refreshToken' = refreshToken
        BY <2>2, <3>1 DEF RefreshSucceeds, Eventual
      <4>2. refreshToken' # NoToken
        BY <3>0 DEF ControlInv, SessionHasToken
      <4> QED
        BY <3>0, <4>1, <4>2
    <3>2. CASE t # NoToken
      <4>1. Eventual' = t /\ refreshToken' = t
        BY <2>2, <3>2, QueuedDecides DEF RefreshSucceeds
      <4> QED
        BY <3>0, <3>2, <4>1
    <3> QED
      BY <3>1, <3>2
  <2>3. CASE RefreshRejected(r)
    <3>1. Eventual' = NoToken
      BY <2>3, <1>0, QueuedDecides DEF RefreshRejected
    <3> QED
      BY <2>3, <3>1 DEF RefreshRejected
  <2>4. CASE RefreshUnavailable(r)
    <3>1. Eventual' = Eventual /\ refreshToken' = refreshToken
      BY <2>4 DEF RefreshUnavailable, Eventual
    <3>2. CASE r.context = "Restore"
      <4>1. state = "Restoring" /\ refreshToken # NoToken
        BY <2>4, <3>2 DEF RefreshUnavailable, RefreshReply, Live, ControlInv, Attempt,
                          Outstanding, WaitersHaveARefresh, OneRefresh, RestoreHasToken, TypeOK
      <4> QED
        BY <2>4, <3>1, <3>2, <4>1 DEF RefreshUnavailable
    <3>3. CASE r.context # "Restore"
      BY <2>4, <3>1, <3>3 DEF RefreshUnavailable
    <3> QED
      BY <3>2, <3>3
  <2>5. ASSUME NEW t \in Token, ExchangeSucceeds(r, t)
        PROVE  StoredIsTheSession'
    <3>1. Eventual' = t
      BY <2>5, QueuedDecides DEF ExchangeSucceeds, TokenOrNone
    <3> QED
      BY <2>5, <1>0, <3>1 DEF ExchangeSucceeds
  <2>6. CASE ExchangeFails(r)
    <3>1. state = "SigningIn" /\ reason = "SignInFailed"
      BY <2>6 DEF ExchangeFails, ExchangeReply, ControlInv, Attempt, Outstanding,
                  SignInReason, TypeOK
    <3> QED
      BY <2>6, <3>1 DEF ExchangeFails, Eventual
  <2> QED
    BY <1>8, <2>1, <2>2, <2>3, <2>4, <2>5, <2>6 DEF Reply
<1>9. ASSUME NEW c \in Caller, ApiCall(c)
      PROVE  StoredIsTheSession'
  BY <1>9 DEF ApiCall, Send, Completes, Rejected, Eventual
<1>10. CASE KeychainWorks
  BY <1>10, DoneAsQueued DEF KeychainWorks
<1>11. CASE Restart
  BY <1>11 DEF Restart
<1>12. CASE UNCHANGED vars
  BY <1>12 DEF vars, Eventual
<1> QED
  BY <1>1, <1>2, <1>3, <1>4, <1>5, <1>6, <1>7, <1>8, <1>9, <1>10, <1>11, <1>12 DEF Next

(* Unless a keychain job fails, the credential store ends up with the      *)
(* session's own refresh token, one saved when it was rotated, kept when   *)
(* it could not be used, and removed when it was refused.                  *)
THEOREM StoredAlwaysTheSession == Spec => []StoredIsTheSession
<1>1. Init => StoredIsTheSession
  BY InitStored
<1>2. /\ TypeOK /\ ControlInv /\ (TypeOK /\ ControlInv)'
      /\ StoredIsTheSession /\ [Next]_vars
      => StoredIsTheSession'
  BY StepStored
<1> QED
  BY <1>1, <1>2, ControlInvariant, PTL DEF Spec

-----------------------------------------------------------------------------
(* Sign-outs.                                                              *)

(* Only a refresh's or an exchange's reply begins a session, and only they *)
(* have a refresh token written.                                           *)
LEMMA StepNoResurrection ==
  ASSUME TypeOK, ControlInv, Next, ~Restart, ~KeychainWorks
  PROVE  /\ state' = "SignedIn" => state # "SignedOut"
         /\ Eventual' \notin {Eventual, NoToken} => state' = "SignedIn"
<1> DEFINE Goal == /\ state' = "SignedIn" => state # "SignedOut"
                   /\ Eventual' \notin {Eventual, NoToken} => state' = "SignedIn"
<1> USE DEF sessionVars, keychainVars
<1>0. NoToken \in TokenOrNone
  BY DEF TokenOrNone
<1>1. CASE RestoreSession \/ SignIn
  BY <1>1 DEF RestoreSession, RestoreRetryDue, SignIn, Eventual
<1>2. CASE Restoring
  BY <1>2 DEF Restoring, ReadToken, ReadNoSession, ReadFatal, ReadUnavailable, ReadDone,
              ReadAgain, RestoreCredentialsResolved, RestoreCredentialsFailed, Eventual
<1>3. CASE SigningIn
  BY <1>3 DEF SigningIn, SignInCredentialsResolved, SignInAborted, AuthorizationReceived,
              BrowserFails, Eventual
<1>4. CASE SignOut
  BY <1>4, <1>0, QueuedDecides DEF SignOut
<1>5. CASE ProactiveTimerFires \/ CooldownEnds
  BY <1>5 DEF ProactiveTimerFires, CooldownEnds, Eventual
<1>6. ASSUME NEW r \in requests, Reply(r)
      PROVE  Goal
  <2>1. CASE ReplyDropped(r)
    BY <2>1 DEF ReplyDropped, Eventual
  <2>2. ASSUME NEW t \in TokenOrNone, RefreshSucceeds(r, t)
        PROVE  Goal
    <3>1. state \in {"Restoring", "SignedIn"}
      BY <2>2 DEF RefreshSucceeds, RefreshReply, ControlInv, Powerless, TypeOK
    <3>2. state' = "SignedIn"
      BY <2>2, <3>1 DEF RefreshSucceeds, RefreshReply, ControlInv, Cold, Live
    <3> QED
      BY <3>1, <3>2
  <2>3. CASE RefreshRejected(r)
    BY <2>3, <1>0, QueuedDecides DEF RefreshRejected
  <2>4. CASE RefreshUnavailable(r)
    BY <2>4 DEF RefreshUnavailable, RefreshReply, Eventual
  <2>5. ASSUME NEW t \in Token, ExchangeSucceeds(r, t)
        PROVE  Goal
    <3>1. state = "SigningIn"
      BY <2>5 DEF ExchangeSucceeds, ExchangeReply, ControlInv, Attempt, Outstanding, TypeOK
    <3> QED
      BY <2>5, <3>1 DEF ExchangeSucceeds
  <2>6. CASE ExchangeFails(r)
    BY <2>6 DEF ExchangeFails, Eventual
  <2> QED
    BY <1>6, <2>1, <2>2, <2>3, <2>4, <2>5, <2>6 DEF Reply
<1>7. ASSUME NEW c \in Caller, ApiCall(c)
      PROVE  Goal
  BY <1>7 DEF ApiCall, Send, Completes, Rejected, Eventual
<1> QED
  BY <1>1, <1>2, <1>3, <1>4, <1>5, <1>6, <1>7 DEF Next

(* No reply that comes after a sign-out begins a session again or has a    *)
(* token written to the credential store.                                  *)
THEOREM NeverResurrected == Spec => NoResurrection
<1>1. TypeOK /\ ControlInv /\ [Next]_vars =>
        [\/ Restart \/ KeychainWorks
         \/ /\ state' = "SignedIn" => state # "SignedOut"
            /\ Eventual' \notin {Eventual, NoToken} => state' = "SignedIn"]_vars
  BY StepNoResurrection
<1> QED
  BY <1>1, ControlInvariant, PTL DEF Spec, NoResurrection
=============================================================================
