---------------------------- MODULE SessionProofs ----------------------------
(***************************************************************************)
(* Proofs about Session for any number of requests and sessions, any mix   *)
(* of requests, any cap on attempts and any number of failures.            *)
(***************************************************************************)
EXTENDS Session, FiniteSetTheorems, TLAPS

\* What was noted, what is noting and what is comparing add up.
LEMMA Adds ==
    ASSUME NEW w \in Nat, NEW f \in Nat, NEW a \in Nat, NEW b \in Nat, NEW m \in Nat, NEW p \in Nat,
           w <= f + b, f <= m, a + b <= p
    PROVE  w + a <= m + p
OBVIOUS

USE SessionAssumption

\* The steps of a signed-in device, past the middleware.
Inside == Steps \ (Over \cup {"start", "note", "issue", "report"})

\* What is known of a request at each step.
Flow(r) ==
    /\ pc[r] \in {"issue", "report"} => Op(r) \in SignIns
    /\ pc[r] \in Inside => Op(r) \in Signed
    /\ pc[r] \in {"compare", "update"} => Op(r) = "changePassword"
    /\ pc[r] \in {"start", "keep"} => keep[r] = None
    /\ pc[r] \in {"start", "issue"} => session[r] = "none"
    /\ Op(r) = "login" => via[r] = r
    /\ pc[r] = "activate" => seen[r] \in proven \ {None}

\* A password change that has replaced the password and not yet signed out
\* the other sessions, or stopped there.
ChangeIsOpen ==
    \E r \in Requests : Op(r) = "changePassword" /\ pc[r] \in {"revokeRest", "unfinished"}

\* A login that was let through, or has an open challenge, is of the password
\* in force, or it is on record as late, or a change is not through.
LoginIsCurrent(r) ==
    /\ pc[r] = "issue" =>
         body[via[r]].password = password \/ r \in late \/ via[r] \in late \/ ChangeIsOpen
    /\ challenge[r] = "open" =>
         body[r].password = password \/ r \in late \/ ChangeIsOpen

-----------------------------------------------------------------------------
(* What a step of a request does, by the state it changes.                 *)

\* It goes on, or stops, and changes nothing else but the count of failures.
Walks(r) ==
    /\ Goto(r, pc'[r])
    /\ pc[r] \notin Over \cup {"note"}
    /\ pc'[r] \in Inside \cup {"error", "unfinished"}
    /\ pc'[r] \notin {"activate", "deactivate"}
    /\ pc'[r] \in Inside => Op(r) \in Signed
    /\ pc'[r] \in {"compare", "update"} => Op(r) = "changePassword"
    /\ pc'[r] = "keep" => pc[r] = "start"
    /\ Op(r) = "changePassword" /\ pc[r] = "revokeRest" => pc'[r] = "unfinished"
    /\ pc[r] # "checkPin" /\ pc'[r] # "checkPin"
    /\ UNCHANGED <<body, via, keep, seen, session, challenge, account, fails, history>>

\* The throttle lets it through to the PIN.
Admitted(r) == ~IsThrottled("pin") /\ Throttle(r)

\* The PIN cannot be read, which counts as a wrong one.
Unread(r) ==
    /\ pc[r] = "checkPin" /\ Goto(r, "note")
    /\ UNCHANGED <<body, via, keep, seen, session, challenge, account, fails, history>>

\* A step inside, which ends the request.
Ends(r) == pc[r] \in Inside \ {"revokeRest", "checkPin"} /\ Goto(r, "ok")

\* Its PIN is right, and what it was asked for starts elsewhere.
Passes(r) == Ends(r) /\ UNCHANGED <<body, via, keep, seen, session, challenge, account, fails, history>>

\* A session is signed out.
SignsOut(r) ==
    /\ Ends(r)
    /\ \E s \in Sessions : /\ session[s] \in {"active", "expired"}
                           /\ session' = [session EXCEPT ![s] = "revoked"]
    /\ UNCHANGED <<body, via, keep, seen, challenge, account, fails, history>>

Answers(r) ==
    /\ pc[r] = "start" /\ Op(r) = "verify2fa"
    /\ \E c \in Open : via' = [via EXCEPT ![r] = c]
    /\ ClearFailure("login")
    /\ Goto(r, "issue")
    /\ UNCHANGED <<body, keep, seen, session, challenge, account, history>>

RevokesRest(r) ==
    /\ pc[r] = "revokeRest" /\ keep[r] # None
    /\ session' = [s \in Sessions |-> IF s \in Revoked(r) THEN "revoked" ELSE session[s]]
    /\ late' = IF Op(r) = "changePassword" THEN late \cup UnderWay ELSE late
    /\ Goto(r, "ok")
    /\ UNCHANGED <<body, via, keep, seen, challenge, account, fails, shown, proven, wrong, peak, reported>>

\* The authenticator's secret is read, and proven when it is to be enabled.
ReadsSecret(r) ==
    /\ pc[r] \in {"enable", "disable"} /\ secret # None
    /\ seen' = [seen EXCEPT ![r] = secret]
    /\ \/ pc[r] = "enable" /\ proven' = proven \cup {secret} /\ Goto(r, "activate")
       \/ pc[r] = "disable" /\ UNCHANGED proven /\ Goto(r, "deactivate")
    /\ UNCHANGED <<body, via, keep, session, challenge, account, fails, shown, wrong, peak, late, reported>>

\* It is written, disabled.
WritesSecret(r) ==
    /\ Ends(r)
    /\ pc[r] \in {"storeSecret", "deactivate"}
    /\ secret' \in Secrets \cup {None} /\ enabled' = FALSE
    /\ UNCHANGED <<body, via, keep, seen, session, challenge, password, pin, fails,
                   proven, wrong, peak, late, reported>>

Effect(r) ==
    \/ Walks(r) \/ NoteFailure(r) \/ Login(r) \/ Answers(r) \/ IssueSession(r)
    \/ RecordLoginSuccess(r) \/ SignsOut(r) \/ CurrentSessionID(r) \/ UpdatePassword(r)
    \/ RevokesRest(r) \/ ReadsSecret(r) \/ WritesSecret(r) \/ Activate(r)
    \/ Admitted(r) \/ Unread(r) \/ Passes(r) \/ VerifyPINThrottled(r) \/ SetPIN(r)

\* The middleware sends a request to the first step of its operation.
LEMMA FirstSteps ==
    ASSUME NEW op \in Signed
    PROVE  /\ FirstStep[op] \in {"logout", "revoke", "keep", "generate", "enable", "pin",
                                 "hasPin", "throttle"}
BY DEF FirstStep, Signed

\* Every step of a request has one of these effects.
LEMMA Effects ==
    ASSUME TypeOK, NEW r \in Requests, Flow(r), Step(r) \/ StatementFails(r)
    PROVE  Effect(r)
<1> USE DEF Effect
<1> DEFINE same == UNCHANGED <<body, via, keep, seen, session, challenge, account, fails, history>>
<1>1. CASE Authenticate(r)
  <2>1. PICK s \in {"logout", "revoke", "keep", "generate", "enable", "pin", "hasPin", "throttle", "error"} :
          Goto(r, s)
    BY <1>1, FirstSteps DEF Authenticate
  <2> QED
    BY <1>1, <2>1 DEF Authenticate, Walks, Goto, Inside, Steps, Over, TypeOK
<1>2. CASE ComparePassword(r) \/ GenerateTOTP(r) \/ VerifyPIN(r) \/ HasPIN(r)
  <2>1. /\ pc[r] \in {"compare", "generate", "pin", "hasPin"} /\ same
        /\ \E s \in {"update", "storeSecret", "disable", "setPin", "throttle", "ok", "error"} :
             Goto(r, s) /\ (s = "update" => pc[r] = "compare")
    BY <1>2 DEF ComparePassword, GenerateTOTP, VerifyPIN, HasPIN
  <2>2. CASE Goto(r, "ok")
    BY <2>1, <2>2 DEF Passes, Ends, Inside, Steps, Over
  <2>3. CASE ~Goto(r, "ok")
    BY <2>1, <2>3 DEF Walks, Goto, Inside, Steps, Over, TypeOK, Flow
  <2> QED
    BY <2>2, <2>3
<1>9. CASE Throttle(r)
  <2>1. CASE IsThrottled("pin")
    BY <1>9, <2>1 DEF Throttle, Walks, Goto, Inside, Steps, Over, TypeOK, history
  <2>2. CASE ~IsThrottled("pin")
    BY <1>9, <2>2 DEF Admitted
  <2> QED
    BY <2>1, <2>2
<1>3. CASE Logout(r) \/ RevokeDevice(r)
  <2>1. PICK s \in Sessions : Revoke(r, s)
    BY <1>3 DEF Logout, RevokeDevice, TypeOK
  <2>2. /\ pc[r] \in {"logout", "revoke"}
        /\ UNCHANGED <<body, via, keep, seen, challenge, account, fails, history>>
    BY <1>3 DEF Logout, RevokeDevice
  <2>3. CASE Mine(s) /\ session[s] \in {"active", "expired"}
    BY <2>1, <2>2, <2>3 DEF Revoke, SignsOut, Ends, Inside, Steps, Over
  <2>4. CASE ~(Mine(s) /\ session[s] \in {"active", "expired"})
    BY <2>1, <2>2, <2>4 DEF Revoke, Walks, Goto, Inside, Steps, Over, TypeOK
  <2> QED
    BY <2>3, <2>4
<1>4. CASE Verify2FA(r)
  <2>1. CASE pc'[r] = "error"
    BY <1>4, <2>1 DEF Verify2FA, Walks, Goto, Inside, Steps, Over, TypeOK, account, history
  <2>2. CASE pc'[r] # "error"
    BY <1>4, <2>2 DEF Verify2FA, Answers, Goto, TypeOK
  <2> QED
    BY <2>1, <2>2
<1>5. CASE RevokeAllExcept(r)
  <2>1. CASE keep[r] = None
    BY <1>5, <2>1 DEF RevokeAllExcept, Walks, Goto, Inside, Steps, Over, TypeOK, history
  <2>2. CASE keep[r] # None
    BY <1>5, <2>2 DEF RevokeAllExcept, RevokesRest
  <2> QED
    BY <2>1, <2>2
<1>6. CASE EnableTOTP(r) \/ DisableTOTP(r)
  <2>1. CASE Goto(r, "error")
    <3>1. pc[r] \in {"enable", "disable"} /\ same
      BY <1>6, <2>1 DEF EnableTOTP, DisableTOTP, Goto, TypeOK, history
    <3> QED
      BY <2>1, <3>1 DEF Walks, Goto, Inside, Steps, Over, TypeOK
  <2>2. CASE ~Goto(r, "error")
    <3>1. ReadsSecret(r)
      BY <1>6, <2>2 DEF EnableTOTP, DisableTOTP, ReadsSecret, history
    <3> QED
      BY <3>1
  <2> QED
    BY <2>1, <2>2
<1>7. CASE StoreSecret(r) \/ Deactivate(r)
  <2>1. seen[r] \in Secrets \cup {None} /\ r \in Secrets
    BY DEF TypeOK, Secrets
  <2>2. WritesSecret(r)
    BY <1>7, <2>1 DEF StoreSecret, Deactivate, WritesSecret, Ends, Inside, Steps, Over, history
  <2> QED
    BY <2>2
<1>8. CASE StatementFails(r) /\ pc[r] = "checkPin"
  BY <1>8 DEF StatementFails, Unread
<1>10. CASE StatementFails(r) /\ pc[r] # "checkPin"
  <2>1. PICK s \in {"compare", "revokeRest", "setPin", "error", "unfinished"} :
          /\ Goto(r, s)
          /\ s = "compare" => Op(r) = "changePassword"
          /\ s \in {"compare", "revokeRest", "setPin"} => pc[r] \in {"keep", "hasPin"}
          /\ Op(r) = "changePassword" /\ pc[r] = "revokeRest" => s = "unfinished"
    BY <1>10 DEF StatementFails, Broken
  <2>2. same /\ pc[r] \notin Over \cup {"note", "checkPin"}
    BY <1>10 DEF StatementFails
  <2> QED
    BY <2>1, <2>2 DEF Walks, Goto, Inside, Steps, Over, TypeOK, Flow
<1> QED
  BY <1>1, <1>2, <1>3, <1>4, <1>5, <1>6, <1>7, <1>8, <1>9, <1>10 DEF Step
-----------------------------------------------------------------------------
(* Types and control.                                                      *)

LEMMA InFlightIsFinite ==
    /\ IsFiniteSet(InFlight(pc)) /\ Cardinality(InFlight(pc)) \in Nat
    /\ IsFiniteSet(InFlight(pc')) /\ Cardinality(InFlight(pc')) \in Nat
<1>1. InFlight(pc) \subseteq Requests /\ InFlight(pc') \subseteq Requests
  BY DEF InFlight
<1> QED
  BY <1>1, FS_Subset, FS_CardinalityType

LEMMA TypeStep ==
    ASSUME TypeOK, \A r \in Requests : Flow(r), [Next]_vars
    PROVE  TypeOK'
<1> USE DEF TypeOK
<1>1. ASSUME NEW r \in Requests, Step(r) \/ StatementFails(r)
      PROVE  TypeOK'
  <2>0. Effect(r) /\ Flow(r)
    BY <1>1, Effects
  <2>1. CASE Walks(r) \/ Unread(r) \/ Passes(r) \/ NoteFailure(r) \/ RecordLoginSuccess(r)
             \/ CurrentSessionID(r) \/ SetPIN(r)
    <3>1. pc' \in [Requests -> Steps]
      BY <2>1 DEF Walks, Unread, Passes, Ends, NoteFailure, RecordLoginSuccess, CurrentSessionID, SetPIN, Goto, Inside, Steps, Over
    <3>2. keep' \in [Requests -> Sessions \cup {None}] /\ fails' \in [Keys -> Nat]
      BY <2>1 DEF Walks, Unread, Passes, NoteFailure, RecordLoginSuccess, CurrentSessionID, SetPIN, Noted, Keys
    <3>3. UNCHANGED <<body, via, seen, session, challenge, secret, enabled, wrong, peak, late>>
      BY <2>1 DEF Walks, Unread, Passes, NoteFailure, RecordLoginSuccess, CurrentSessionID, SetPIN, account, history
    <3> QED
      BY <3>1, <3>2, <3>3
  <2>2. CASE Login(r) \/ VerifyPINThrottled(r) \/ Admitted(r)
    <3>1. pc' \in [Requests -> Steps]
      BY <2>2 DEF Login, VerifyPINThrottled, Admitted, Throttle, Goto, Steps
    <3>2. fails' \in [Keys -> Nat] /\ wrong' \in Nat
      BY <2>2 DEF Login, VerifyPINThrottled, Admitted, Throttle, NewWindow, ClearFailure, Keys, history
    <3>3. challenge' \in [Requests -> {"none", "open", "expired"}]
      BY <2>2 DEF Login, VerifyPINThrottled, Admitted, Throttle
    <3>4. UNCHANGED <<body, via, keep, seen, session, secret, enabled, late>>
      BY <2>2 DEF Login, VerifyPINThrottled, Admitted, Throttle, account, history
    <3>5. peak' \in Nat
      BY <2>2, InFlightIsFinite DEF Login, VerifyPINThrottled, Admitted, Throttle, NewWindow, history
    <3> QED
      BY <3>1, <3>2, <3>3, <3>4, <3>5
  <2>3. CASE Answers(r)
    <3>1. pc' \in [Requests -> Steps] /\ via' \in [Requests -> Requests]
      BY <2>3 DEF Answers, Goto, Steps, Open
    <3>2. fails' \in [Keys -> Nat]
      BY <2>3 DEF Answers, ClearFailure, Keys
    <3> QED
      BY <2>3, <3>1, <3>2 DEF Answers, account, history
  <2>4. CASE IssueSession(r)
    <3>1. pc' \in [Requests -> Steps] /\ session' = [session EXCEPT ![r] = "active"]
      BY <2>4 DEF IssueSession, Goto, Steps
    <3>2. body[r].op \in SignIns
      BY <2>0, <2>4 DEF IssueSession, Flow, Op
    <3>3. UNCHANGED <<body, via, keep, seen, challenge, secret, enabled, fails, wrong, peak, late>>
      BY <2>4 DEF IssueSession, account, history
    <3>4. /\ session' \in [Sessions -> {"none", "active", "revoked", "expired"}]
          /\ \A q \in Requests : session'[q] # "none" => body[q].op \in SignIns
      BY <3>1, <3>2 DEF Sessions
    <3> QED
      BY <3>1, <3>3, <3>4
  <2>5. CASE SignsOut(r) \/ RevokesRest(r)
    <3>1. pc' \in [Requests -> Steps] /\ late' \subseteq Requests
      BY <2>5 DEF SignsOut, RevokesRest, Ends, Goto, Steps, UnderWay, history
    <3>2. /\ session' \in [Sessions -> {"none", "active", "revoked", "expired"}]
          /\ \A q \in Sessions : session'[q] # "none" => session[q] # "none"
      BY <2>5 DEF SignsOut, RevokesRest, Revoked
    <3>3. UNCHANGED <<body, via, keep, seen, challenge, secret, enabled, fails, wrong, peak>>
      BY <2>5 DEF SignsOut, RevokesRest, account, history
    <3> QED
      BY <3>1, <3>2, <3>3 DEF Sessions
  <2>6. CASE UpdatePassword(r)
    BY <2>6 DEF UpdatePassword, Goto, Steps, history
  <2>7. CASE ReadsSecret(r)
    <3>1. pc' \in [Requests -> Steps] /\ seen' \in [Requests -> Secrets \cup {None}]
      BY <2>7 DEF ReadsSecret, Goto, Steps
    <3> QED
      BY <2>7, <3>1 DEF ReadsSecret, account
  <2>8. CASE WritesSecret(r)
    <3>1. pc' \in [Requests -> Steps] /\ secret' \in Secrets \cup {None} /\ enabled' = FALSE
      BY <2>8 DEF WritesSecret, Ends, Goto, Steps
    <3> QED
      BY <2>8, <3>1 DEF WritesSecret
  <2>9. CASE Activate(r)
    <3>1. pc' \in [Requests -> Steps]
      BY <2>9 DEF Activate, Goto, Steps
    <3>2. secret' \in Secrets \cup {None} /\ secret' # None /\ enabled' = TRUE
      BY <2>0, <2>9 DEF Activate, Activated, Flow
    <3> QED
      BY <2>9, <3>1, <3>2 DEF Activate, history
  <2> QED
    BY <2>0, <2>1, <2>2, <2>3, <2>4, <2>5, <2>6, <2>7, <2>8, <2>9 DEF Effect
<1>2. CASE ExpireSession
  <2>1. /\ session' \in [Sessions -> {"none", "active", "revoked", "expired"}]
        /\ \A q \in Sessions : session'[q] # "none" => session[q] # "none"
    BY <1>2 DEF ExpireSession
  <2> QED
    BY <1>2, <2>1 DEF ExpireSession, requests, account, history, Sessions
<1>3. CASE ExpireChallenge
  BY <1>3 DEF ExpireChallenge, Open, requests, account, history
<1>4. CASE WindowEnds
  <2>1. wrong' \in Nat /\ peak' \in Nat
    BY <1>4, InFlightIsFinite DEF WindowEnds, NewWindow
  <2>2. fails' \in [Keys -> Nat]
    BY <1>4 DEF WindowEnds, ClearFailure, Keys
  <2> QED
    BY <1>4, <2>1, <2>2 DEF WindowEnds, requests, account
<1>5. CASE Restart
  <2>1. pc' \in [Requests -> Steps]
    BY <1>5 DEF Restart, Broken, Steps
  <2> QED
    BY <1>5, <2>1 DEF Restart, account
<1>6. CASE UNCHANGED vars
  BY <1>6 DEF vars, requests, account, history
<1> QED
  BY <1>1, <1>2, <1>3, <1>4, <1>5, <1>6 DEF Next

\* A request that does not move knows what it knew.
LEMMA FlowKept ==
    ASSUME NEW q \in Requests, Flow(q), body' = body,
           pc'[q] = pc[q], keep'[q] = keep[q], via'[q] = via[q], seen'[q] = seen[q],
           session[q] = "none" => session'[q] = "none",
           proven \subseteq proven'
    PROVE  Flow(q)'
BY DEF Flow, Op

LEMMA FlowStep ==
    ASSUME TypeOK, \A r \in Requests : Flow(r), [Next]_vars
    PROVE  \A r \in Requests : Flow(r)'
<1>1. ASSUME NEW r \in Requests, Step(r) \/ StatementFails(r)
      PROVE  \A q \in Requests : Flow(q)'
  <2>0. Effect(r) /\ Flow(r)
    BY <1>1, Effects
  <2>1. /\ body' = body /\ proven \subseteq proven'
        /\ \A q \in Requests \ {r} : /\ pc'[q] = pc[q] /\ keep'[q] = keep[q]
                                     /\ via'[q] = via[q] /\ seen'[q] = seen[q]
    BY <2>0 DEF Effect, Walks, NoteFailure, Login, Answers, IssueSession, RecordLoginSuccess, SignsOut, Ends,
         CurrentSessionID, UpdatePassword, RevokesRest, ReadsSecret, WritesSecret, Activate,
         Admitted, Throttle, Unread, Passes, VerifyPINThrottled, SetPIN, Goto, TypeOK, history
  <2>2. \A q \in Sessions : session[q] = "none" /\ q # r => session'[q] = "none"
    BY <2>0 DEF Effect, Walks, NoteFailure, Login, Answers, IssueSession, RecordLoginSuccess, SignsOut,
         CurrentSessionID, UpdatePassword, RevokesRest, Revoked, ReadsSecret, WritesSecret, Activate,
         Admitted, Throttle, Unread, Passes, VerifyPINThrottled, SetPIN, TypeOK
  <2>3. \A q \in Requests \ {r} : Flow(q)'
    BY <2>1, <2>2, FlowKept DEF Sessions
  <2> SUFFICES Flow(r)'
    BY <2>3
  <2>4. CASE Walks(r)
    BY <2>0, <2>4 DEF Walks, Flow, Op, Goto, TypeOK, Inside, Over, account, history
  <2>5. CASE NoteFailure(r) \/ RecordLoginSuccess(r) \/ SignsOut(r) \/ RevokesRest(r) \/ WritesSecret(r)
             \/ Activate(r) \/ SetPIN(r) \/ Passes(r)
    <3>1. pc'[r] \in {"ok", "error"} /\ via' = via
      BY <2>5 DEF Passes, NoteFailure, RecordLoginSuccess, SignsOut, Ends, RevokesRest, WritesSecret,
                  Activate, SetPIN, Goto, TypeOK
    <3> QED
      BY <2>0, <2>1, <3>1 DEF Flow, Op, Inside, Over
  <2>6. CASE Login(r)
    <3>1. /\ pc[r] = "start" /\ Op(r) = "login" /\ pc'[r] \in {"note", "ok", "issue"}
          /\ UNCHANGED <<via, session>>
      BY <2>6 DEF Login, Goto, TypeOK
    <3> QED
      BY <2>0, <2>1, <3>1 DEF Flow, Op, Inside, Over, SignIns
  <2>7. CASE Answers(r)
    <3>1. pc[r] = "start" /\ Op(r) = "verify2fa" /\ pc'[r] = "issue" /\ session' = session
      BY <2>7 DEF Answers, Goto, TypeOK
    <3> QED
      BY <2>0, <2>1, <3>1 DEF Flow, Op, Inside, Over, SignIns
  <2>8. CASE IssueSession(r)
    <3>1. pc[r] = "issue" /\ pc'[r] = "report" /\ via' = via
      BY <2>8 DEF IssueSession, Goto, TypeOK
    <3> QED
      BY <2>0, <2>1, <3>1 DEF Flow, Op, Inside, Over
  <2>9. CASE CurrentSessionID(r)
    <3>1. /\ pc[r] = "keep" /\ pc'[r] \in {"compare", "revokeRest"} /\ via' = via
          /\ pc'[r] = "compare" => Op(r) = "changePassword"
      BY <2>9 DEF CurrentSessionID, Goto, TypeOK
    <3> QED
      BY <2>0, <2>1, <3>1 DEF Flow, Op, Inside, Steps, Over
  <2>10. CASE UpdatePassword(r)
    <3>1. pc[r] = "update" /\ pc'[r] = "revokeRest" /\ via' = via
      BY <2>10 DEF UpdatePassword, Goto, TypeOK
    <3> QED
      BY <2>0, <2>1, <3>1 DEF Flow, Op, Inside, Steps, Over
  <2>11. CASE ReadsSecret(r)
    <3>1. /\ pc[r] \in {"enable", "disable"} /\ pc'[r] \in {"activate", "deactivate"} /\ via' = via
          /\ pc'[r] = "activate" => seen'[r] \in proven' \ {None}
      BY <2>11 DEF ReadsSecret, Goto, TypeOK
    <3> QED
      BY <2>0, <2>1, <3>1 DEF Flow, Op, Inside, Steps, Over
  <2>12. CASE VerifyPINThrottled(r) \/ Admitted(r) \/ Unread(r)
    <3>1. pc[r] \in {"throttle", "checkPin"} /\ pc'[r] \in {"checkPin", "setPin", "ok", "note"} /\ via' = via
      BY <2>12 DEF VerifyPINThrottled, Admitted, Throttle, Unread, Goto, TypeOK
    <3> QED
      BY <2>0, <2>1, <3>1 DEF Flow, Op, Inside, Steps, Over
  <2> QED
    BY <2>0, <2>4, <2>5, <2>6, <2>7, <2>8, <2>9, <2>10, <2>11, <2>12 DEF Effect
<1>2. CASE ExpireSession \/ ExpireChallenge \/ WindowEnds \/ UNCHANGED vars
  <2>1. UNCHANGED <<body, pc, keep, via, seen, proven>>
    BY <1>2 DEF ExpireSession, ExpireChallenge, WindowEnds, vars, requests, history
  <2>2. \A q \in Sessions : session[q] = "none" => session'[q] = "none"
    BY <1>2 DEF ExpireSession, ExpireChallenge, WindowEnds, vars, TypeOK
  <2> QED
    BY <2>1, <2>2, FlowKept DEF Sessions
<1>3. CASE Restart
  <2>1. UNCHANGED <<body, keep, via, seen, proven, session>>
    BY <1>3 DEF Restart
  <2>2. \A q \in Requests : pc'[q] = pc[q] \/ pc'[q] \in {"error", "unfinished"}
    BY <1>3 DEF Restart, Broken
  <2> QED
    BY <2>1, <2>2 DEF Flow, Op, Inside, Over
<1> QED
  BY <1>1, <1>2, <1>3 DEF Next

LEMMA Control == Spec => [](TypeOK /\ \A r \in Requests : Flow(r))
<1> DEFINE Inv == TypeOK /\ \A r \in Requests : Flow(r)
<1>1. Init => Inv
  <2> SUFFICES ASSUME Init
               PROVE  Inv
    OBVIOUS
  <2>1. enabled \in BOOLEAN /\ (enabled => secret # None)
    BY DEF Init
  <2>2. TypeOK
    BY <2>1 DEF Init, TypeOK, Steps, Sessions, Secrets, Keys
  <2>3. \A r \in Requests : Flow(r)
    BY DEF Init, Flow, Inside, Over, Sessions
  <2> QED
    BY <2>2, <2>3
<1>2. Inv /\ [Next]_vars => Inv'
  BY TypeStep, FlowStep
<1> HIDE DEF Inv
<1>3. Spec => []Inv
  BY <1>1, <1>2, PTL DEF Spec
<1> QED
  BY <1>3 DEF Inv

\* Sessions, challenges, counters and the user row keep their types; only a
\* request that signs in ever gets a session, and an enabled authenticator
\* always has a secret.
THEOREM TypeCorrect == Spec => []TypeOK
BY Control, PTL
-----------------------------------------------------------------------------
(* The authenticator.                                                      *)

LEMMA ProvenStep ==
    ASSUME TypeOK, \A r \in Requests : Flow(r), EnabledIsProven, [Next]_vars
    PROVE  EnabledIsProven'
<1>1. ASSUME NEW r \in Requests, Step(r) \/ StatementFails(r)
      PROVE  EnabledIsProven'
  <2>0. Effect(r) /\ Flow(r)
    BY <1>1, Effects
  <2>1. CASE WritesSecret(r)
    BY <2>1 DEF WritesSecret, EnabledIsProven
  <2>2. CASE Activate(r)
    BY <2>0, <2>2 DEF Activate, Activated, Flow, EnabledIsProven, history
  <2>3. CASE ~WritesSecret(r) /\ ~Activate(r)
    <3>1. UNCHANGED <<secret, enabled>> /\ proven \subseteq proven'
      BY <2>0, <2>3 DEF Effect, Walks, NoteFailure, Login, Answers, IssueSession, RecordLoginSuccess,
           SignsOut, CurrentSessionID, UpdatePassword, RevokesRest, ReadsSecret,
           Admitted, Throttle, Unread, Passes, VerifyPINThrottled, SetPIN, account, history
    <3> QED
      BY <3>1 DEF EnabledIsProven
  <2> QED
    BY <2>1, <2>2, <2>3
<1>2. CASE ExpireSession \/ ExpireChallenge \/ WindowEnds \/ Restart \/ UNCHANGED vars
  <2>1. UNCHANGED <<secret, enabled, proven>>
    BY <1>2 DEF ExpireSession, ExpireChallenge, WindowEnds, Restart, vars, account, history
  <2> QED
    BY <2>1 DEF EnabledIsProven
<1> QED
  BY <1>1, <1>2 DEF Next

\* However setups, enablings and disablings of several devices interleave, an
\* enabled authenticator has a secret that a code was given for.
THEOREM EnabledIsAlwaysProven == Spec => []EnabledIsProven
<1>1. Init => EnabledIsProven
  BY DEF Init, EnabledIsProven
<1>2. (TypeOK /\ \A r \in Requests : Flow(r)) /\ EnabledIsProven /\ [Next]_vars => EnabledIsProven'
  BY ProvenStep
<1> QED
  BY <1>1, <1>2, Control, PTL DEF Spec

-----------------------------------------------------------------------------
(* New devices.                                                            *)

LEMMA ReportStep ==
    ASSUME TypeOK, \A r \in Requests : Flow(r), NewDeviceReported, [Next]_vars
    PROVE  NewDeviceReported'
\* Sessions do not go away, so a device with one session had no other before.
<1>1. ASSUME body' = body, \A s \in Sessions : session[s] # "none" => session'[s] # "none",
             NEW q \in Requests, session[q] # "none", pc[q] = "ok",
             (SessionsOn(Device(q)) = {q})', reported \subseteq reported'
      PROVE  Device(q)' \in reported'
  <2>1. Device(q)' = Device(q) /\ \A s \in Sessions : Device(s)' = Device(s)
    BY <1>1 DEF Device
  <2>2. SessionsOn(Device(q)) \subseteq {q}
    BY <1>1, <2>1 DEF SessionsOn, Mine
  <2>3. q \in SessionsOn(Device(q))
    BY <1>1 DEF SessionsOn, Mine, Sessions
  <2> QED
    BY <1>1, <2>1, <2>2, <2>3 DEF NewDeviceReported
<1>2. ASSUME NEW r \in Requests, Step(r) \/ StatementFails(r)
      PROVE  NewDeviceReported'
  <2>0. Effect(r) /\ Flow(r)
    BY <1>2, Effects
  <2>1. body' = body /\ reported \subseteq reported' /\ \A q \in Requests \ {r} : pc'[q] = pc[q]
    BY <2>0 DEF Effect, Walks, NoteFailure, Login, Answers, IssueSession, RecordLoginSuccess, SignsOut, Ends,
         CurrentSessionID, UpdatePassword, RevokesRest, ReadsSecret, WritesSecret, Activate,
         Admitted, Throttle, Unread, Passes, VerifyPINThrottled, SetPIN, Goto, TypeOK, history
  <2>2. /\ \A s \in Sessions : session[s] # "none" => session'[s] # "none"
        /\ \A s \in Sessions \ {r} : session'[s] # "none" => session[s] # "none"
        /\ session' = session \/ pc'[r] = "report" \/ Op(r) \in Signed
    BY <2>0 DEF Effect, Walks, NoteFailure, Login, Answers, IssueSession, RecordLoginSuccess, SignsOut, Ends,
         CurrentSessionID, UpdatePassword, RevokesRest, Revoked, ReadsSecret, WritesSecret, Activate,
         Admitted, Throttle, Unread, Passes, VerifyPINThrottled, SetPIN, Goto, TypeOK, Flow, Inside, Steps, Over
  <2>3. ASSUME NEW q \in Requests, session'[q] # "none", pc'[q] = "ok", (SessionsOn(Device(q)) = {q})'
        PROVE  Device(q)' \in reported'
    <3>1. CASE q # r
      <4>1. session[q] # "none" /\ pc[q] = "ok"
        BY <2>1, <2>2, <2>3, <3>1 DEF Sessions
      <4> QED
        BY <1>1, <2>1, <2>2, <2>3, <4>1
    <3>2. CASE q = r /\ RecordLoginSuccess(r)
      <4>1. /\ session' = session /\ body' = body
            /\ reported' = reported \cup {d \in {Device(r)} : FirstSeen(d)}
        BY <3>2 DEF RecordLoginSuccess
      <4>2. Device(r)' = Device(r) /\ SessionsOn(Device(r)) = {r}
        BY <2>3, <3>2, <4>1 DEF SessionsOn, Device
      <4>3. FirstSeen(Device(r))
        <5>1. Cardinality({r}) = 1
          BY FS_Singleton
        <5> QED
          BY <4>2, <5>1 DEF FirstSeen
      <4> QED
        BY <3>2, <4>1, <4>2, <4>3
    <3>3. CASE q = r /\ ~RecordLoginSuccess(r)
      <4>1. pc[r] \in Inside \cup {"start"}
        BY <2>0, <2>3, <3>3 DEF Effect, Walks, NoteFailure, Login, Answers, IssueSession, SignsOut, Ends,
             CurrentSessionID, UpdatePassword, RevokesRest, ReadsSecret, WritesSecret, Activate,
             Admitted, Throttle, Unread, Passes, VerifyPINThrottled, SetPIN, Goto, TypeOK, Inside, Steps, Over
      <4>2. session[r] = "none"
        BY <2>0, <4>1 DEF Flow, TypeOK, Op, SignIns, Signed
      <4>3. session'[r] = "none"
        BY <2>0, <2>3, <3>3, <4>2 DEF Effect, Walks, NoteFailure, Login, Answers, IssueSession, SignsOut,
             CurrentSessionID, UpdatePassword, RevokesRest, Revoked, ReadsSecret, WritesSecret, Activate,
             Admitted, Throttle, Unread, Passes, VerifyPINThrottled, SetPIN, Goto, TypeOK, Sessions
      <4> QED
        BY <2>3, <3>3, <4>3
    <3> QED
      BY <3>1, <3>2, <3>3
  <2> QED
    BY <2>3 DEF NewDeviceReported
<1>3. CASE ExpireSession \/ ExpireChallenge \/ WindowEnds \/ Restart \/ UNCHANGED vars
  <2>1. /\ UNCHANGED <<body, reported>>
        /\ \A s \in Sessions : session[s] # "none" <=> session'[s] # "none"
        /\ \A q \in Requests : pc'[q] = "ok" => pc[q] = "ok"
    BY <1>3 DEF ExpireSession, ExpireChallenge, WindowEnds, Restart, Broken, vars, requests, history, TypeOK
  <2>2. ASSUME NEW q \in Requests, session'[q] # "none", pc'[q] = "ok", (SessionsOn(Device(q)) = {q})'
        PROVE  Device(q)' \in reported'
    BY <1>1, <2>1, <2>2 DEF Sessions
  <2> QED
    BY <2>2 DEF NewDeviceReported
<1> QED
  BY <1>2, <1>3 DEF Next

\* A device whose login is over and that has no other session was reported as
\* new, however logins, sign-outs and expiries interleave with the count.
THEOREM NewDevicesAreReported == Spec => []NewDeviceReported
<1>1. Init => NewDeviceReported
  BY DEF Init, NewDeviceReported
<1>2. (TypeOK /\ \A r \in Requests : Flow(r)) /\ NewDeviceReported /\ [Next]_vars => NewDeviceReported'
  BY ReportStep
<1> QED
  BY <1>1, <1>2, Control, PTL DEF Spec
-----------------------------------------------------------------------------
(* Wrong PINs.                                                             *)

Comparing == {r \in Requests : pc[r] = "checkPin"}
Noting == {r \in Requests : pc[r] = "note" /\ Op(r) # "login"}

\* Every wrong PIN of the window is counted or about to be, and those still to
\* be compared fit under the bound too.
Guesses ==
    /\ wrong <= fails["pin"] + Cardinality(Noting)
    /\ wrong + Cardinality(Comparing) <= MaxAttempts + peak

LEMMA GuessesAreFinite ==
    ASSUME body' = body
    PROVE  /\ IsFiniteSet(Comparing) /\ Cardinality(Comparing) \in Nat
           /\ IsFiniteSet(Noting) /\ Cardinality(Noting) \in Nat
           /\ IsFiniteSet(Comparing') /\ Cardinality(Comparing') \in Nat
           /\ IsFiniteSet(Noting') /\ Cardinality(Noting') \in Nat
           /\ Cardinality(InFlight(pc')) = Cardinality(Comparing') + Cardinality(Noting')
<1>1. /\ Comparing \subseteq Requests /\ Noting \subseteq Requests
      /\ Comparing' \subseteq Requests /\ Noting' \subseteq Requests
  BY DEF Comparing, Noting
<1>2. /\ IsFiniteSet(Comparing) /\ Cardinality(Comparing) \in Nat
      /\ IsFiniteSet(Noting) /\ Cardinality(Noting) \in Nat
      /\ IsFiniteSet(Comparing') /\ Cardinality(Comparing') \in Nat
      /\ IsFiniteSet(Noting') /\ Cardinality(Noting') \in Nat
  BY <1>1, FS_Subset, FS_CardinalityType
<1>3. InFlight(pc') = Comparing' \cup Noting' /\ Comparing' \cap Noting' = {}
  BY DEF InFlight, Comparing, Noting, Op
<1>4. Cardinality(Comparing' \cup Noting')
        = Cardinality(Comparing') + Cardinality(Noting') - Cardinality(Comparing' \cap Noting')
  BY <1>2, FS_Union
<1>5. Cardinality(Comparing' \cap Noting') = 0
  BY <1>3, FS_EmptySet
<1> QED
  BY <1>2, <1>3, <1>4, <1>5

LEMMA GuessStep ==
    ASSUME TypeOK, \A r \in Requests : Flow(r), Guesses, [Next]_vars
    PROVE  Guesses'
<1> DEFINE c == Cardinality(Comparing)
           n == Cardinality(Noting)
<1>0. body' = body
  <2>1. ASSUME NEW r \in Requests, Step(r) \/ StatementFails(r)
        PROVE  body' = body
    BY <2>1, Effects DEF Effect, Walks, NoteFailure, Login, Answers, IssueSession, RecordLoginSuccess,
         SignsOut, CurrentSessionID, UpdatePassword, RevokesRest, ReadsSecret, WritesSecret, Activate,
         Admitted, Throttle, Unread, Passes, VerifyPINThrottled, SetPIN
  <2> QED
    BY <2>1 DEF Next, ExpireSession, ExpireChallenge, WindowEnds, Restart, vars, requests
<1>1. /\ c \in Nat /\ n \in Nat /\ c' \in Nat /\ n' \in Nat
      /\ IsFiniteSet(Comparing) /\ IsFiniteSet(Noting)
      /\ Cardinality(InFlight(pc')) = c' + n'
      /\ wrong \in Nat /\ peak \in Nat /\ fails["pin"] \in Nat
      /\ wrong <= fails["pin"] + n /\ wrong + c <= MaxAttempts + peak
  BY <1>0, GuessesAreFinite DEF Guesses, TypeOK, Keys
<1>2. SUFFICES wrong' <= fails'["pin"] + n' /\ wrong' + c' <= MaxAttempts + peak'
  BY DEF Guesses
<1>3. ASSUME NEW r \in Requests, NEW s, pc' = [pc EXCEPT ![r] = s]
      PROVE  /\ Comparing' = (Comparing \ {r}) \cup {q \in {r} : s = "checkPin"}
             /\ Noting' = (Noting \ {r}) \cup {q \in {r} : s = "note" /\ Op(r) # "login"}
  BY <1>0, <1>3 DEF Comparing, Noting, Op, TypeOK
\* No PIN is compared or noted.
<1>4. ASSUME Comparing' = Comparing, Noting' = Noting, wrong' = wrong, peak' = peak,
             fails'["pin"] = fails["pin"]
      PROVE  wrong' <= fails'["pin"] + n' /\ wrong' + c' <= MaxAttempts + peak'
  BY <1>1, <1>4
\* A request moves from the PIN to its note, having guessed or not.
<1>5. ASSUME NEW r \in Requests, pc[r] = "checkPin", Op(r) # "login", pc' = [pc EXCEPT ![r] = "note"],
             wrong' \in {wrong, wrong + 1}, peak' = peak, fails' = fails
      PROVE  wrong' <= fails'["pin"] + n' /\ wrong' + c' <= MaxAttempts + peak'
  <2>1. /\ Comparing' = Comparing \ {r} /\ r \in Comparing
        /\ Noting' = Noting \cup {r} /\ r \notin Noting
    BY <1>3, <1>5 DEF Comparing, Noting
  <2>2. c' = c - 1
    BY <1>1, <2>1, FS_RemoveElement
  <2>3. n' = n + 1
    BY <1>1, <2>1, FS_AddElement
  <2> HIDE DEF c, n
  <2> QED
    BY <1>1, <1>5, <2>2, <2>3
\* A window begins.
<1>6. ASSUME wrong' = 0, fails'["pin"] = 0, peak' = c' + n'
      PROVE  wrong' <= fails'["pin"] + n' /\ wrong' + c' <= MaxAttempts + peak'
  <2> HIDE DEF c, n
  <2> QED
    BY <1>1, <1>6
<1>7. ASSUME NEW r \in Requests, Step(r) \/ StatementFails(r)
      PROVE  wrong' <= fails'["pin"] + n' /\ wrong' + c' <= MaxAttempts + peak'
  <2>0. Effect(r) /\ Flow(r)
    BY <1>7, Effects
  <2>1. pc[r] = "checkPin" => Op(r) # "login"
    BY <2>0 DEF Flow, Inside, Steps, Over, Signed
  <2>2. CASE NoteFailure(r)
    <3>1. pc[r] = "note" /\ pc' = [pc EXCEPT ![r] = "error"] /\ wrong' = wrong /\ peak' = peak
      BY <2>2 DEF NoteFailure, Goto, history
    <3>2. Comparing' = Comparing /\ Noting' = Noting \ {r}
      BY <1>0, <3>1 DEF Comparing, Noting, Op, TypeOK
    <3>3. CASE Op(r) = "login"
      <4>1. Noting' = Noting /\ fails'["pin"] = fails["pin"]
        BY <2>2, <3>2, <3>3 DEF NoteFailure, Noting, TypeOK, Keys
      <4> QED
        BY <1>4, <3>1, <3>2, <4>1
    <3>4. CASE Op(r) # "login"
      <4>1. r \in Noting /\ fails'["pin"] = fails["pin"] + 1
        BY <2>2, <3>1, <3>4 DEF NoteFailure, Noted, Noting, TypeOK, Keys
      <4>2. n' = n - 1
        BY <1>1, <3>2, <4>1, FS_RemoveElement
      <4>3. c' = c
        BY <3>2
      <4> HIDE DEF c, n
      <4> QED
        BY <1>1, <3>1, <4>1, <4>2, <4>3
    <3> QED
      BY <3>3, <3>4
  <2>3. CASE Admitted(r)
    <3> DEFINE m == Cardinality(InFlight(pc'))
    <3>1. pc[r] = "throttle" /\ pc' = [pc EXCEPT ![r] = "checkPin"]
      BY <2>3 DEF Admitted, Throttle, Goto
    <3>2. wrong' = wrong /\ fails' = fails /\ fails["pin"] <= MaxAttempts
      BY <1>1, <2>3 DEF Admitted, Throttle, IsThrottled
    <3>a. peak' = IF m > peak THEN m ELSE peak
      BY <2>3 DEF Admitted, Throttle
    <3>3. Noting' = Noting
      BY <1>0, <3>1 DEF Noting, Op, TypeOK
    <3>4. n' = n /\ m = c' + n' /\ m \in Nat /\ peak \in Nat
      BY <1>1, <3>3
    <3> HIDE DEF c, n, m
    <3>b. peak' >= m /\ peak' \in Nat
      BY <3>a, <3>4
    <3>5. c' + n' <= peak' /\ peak' \in Nat
      BY <3>4, <3>b
    <3>6. wrong' <= fails'["pin"] + n'
      BY <1>1, <3>2, <3>4
    <3>7. /\ wrong <= fails["pin"] + n' /\ fails["pin"] <= MaxAttempts
          /\ wrong \in Nat /\ fails["pin"] \in Nat /\ c' \in Nat /\ n' \in Nat /\ MaxAttempts \in Nat
      BY <1>1, <3>2, <3>4
    <3>8. wrong + c' <= MaxAttempts + peak'
      BY <3>5, <3>7, Adds, Zenon
    <3> QED
      BY <3>2, <3>6, <3>8
  <2>4. CASE Unread(r)
    BY <1>5, <2>1, <2>4 DEF Unread, Goto, history
  <2>5. CASE VerifyPINThrottled(r)
    <3>1. CASE pin # None /\ body[r].pin = pin
      <4>1. wrong' = 0 /\ peak' = c' + n' /\ fails'["pin"] = 0
        BY <1>1, <2>5, <3>1 DEF VerifyPINThrottled, ClearFailure, NewWindow, TypeOK, Keys
      <4> QED
        BY <1>6, <4>1
    <3>2. CASE ~(pin # None /\ body[r].pin = pin)
      BY <1>5, <2>1, <2>5, <3>2 DEF VerifyPINThrottled, Goto
    <3> QED
      BY <3>1, <3>2
  <2>6. CASE Login(r) \/ Answers(r)
    <3>1. /\ pc[r] = "start" /\ \E s \in {"note", "ok", "issue"} : pc' = [pc EXCEPT ![r] = s]
          /\ UNCHANGED <<wrong, peak>> /\ fails'["pin"] = fails["pin"]
          /\ pc'[r] = "note" => Op(r) = "login"
      BY <2>6 DEF Login, Answers, ClearFailure, Goto, history, TypeOK, Keys
    <3>2. Comparing' = Comparing /\ Noting' = Noting
      BY <1>0, <3>1 DEF Comparing, Noting, Op, TypeOK
    <3> QED
      BY <1>4, <3>1, <3>2
  <2>7. CASE ~NoteFailure(r) /\ ~Admitted(r) /\ ~Unread(r) /\ ~VerifyPINThrottled(r)
             /\ ~Login(r) /\ ~Answers(r)
    <3>1. /\ UNCHANGED <<wrong, peak, fails>>
          /\ pc[r] \notin {"note", "checkPin"} /\ pc'[r] \notin {"note", "checkPin"}
          /\ \A q \in Requests \ {r} : pc'[q] = pc[q]
      BY <2>0, <2>7 DEF Effect, Walks, IssueSession, RecordLoginSuccess, SignsOut, Ends, Passes,
           CurrentSessionID, UpdatePassword, RevokesRest, ReadsSecret, WritesSecret, Activate,
           SetPIN, Goto, TypeOK, Inside, Steps, Over, history
    <3>2. Comparing' = Comparing /\ Noting' = Noting
      BY <1>0, <3>1 DEF Comparing, Noting, Op
    <3> QED
      BY <1>4, <3>1, <3>2
  <2> QED
    BY <2>2, <2>3, <2>4, <2>5, <2>6, <2>7
<1>8. CASE ExpireSession \/ ExpireChallenge \/ UNCHANGED vars
  <2>1. UNCHANGED <<pc, wrong, peak, fails>>
    BY <1>8 DEF ExpireSession, ExpireChallenge, vars, requests, history
  <2>2. Comparing' = Comparing /\ Noting' = Noting
    BY <1>0, <2>1 DEF Comparing, Noting, Op
  <2> QED
    BY <1>4, <2>1, <2>2
<1>9. CASE WindowEnds
  <2>1. PICK k \in Keys : /\ ClearFailure(k)
                          /\ IF k = "pin" THEN NewWindow(pc) ELSE UNCHANGED <<wrong, peak>>
    BY <1>9 DEF WindowEnds
  <2>2. pc' = pc /\ Comparing' = Comparing /\ Noting' = Noting
    BY <1>0, <1>9 DEF WindowEnds, requests, Comparing, Noting, Op
  <2>3. CASE k = "pin"
    <3>1. wrong' = 0 /\ fails'["pin"] = 0 /\ peak' = Cardinality(InFlight(pc))
      BY <2>1, <2>3 DEF ClearFailure, NewWindow, TypeOK
    <3>2. Cardinality(InFlight(pc)) = c' + n'
      BY <1>1, <2>2
    <3> QED
      BY <1>6, <3>1, <3>2
  <2>4. CASE k # "pin"
    BY <1>4, <2>1, <2>2, <2>4 DEF ClearFailure, TypeOK, Keys
  <2> QED
    BY <2>3, <2>4
<1>10. CASE Restart
  <2>1. wrong' = 0 /\ peak' = 0 /\ fails'["pin"] = 0
    BY <1>10 DEF Restart, Keys
  <2>2. Comparing' = {} /\ Noting' = {}
    BY <1>10 DEF Restart, Broken, Over, Comparing, Noting
  <2>3. c' = 0 /\ n' = 0
    BY <2>2, FS_EmptySet
  <2> QED
    BY <1>6, <2>1, <2>3
<1> QED
  BY <1>7, <1>8, <1>9, <1>10 DEF Next

\* However many devices guess at the same time, the gate compares at most
\* pinMaxAttempts wrong PINs in a window and as many again as were past its
\* check at once: for one device after another, one more than the limit.
THEOREM PinGuessesAreBounded == Spec => []PinGuessesBounded
<1>1. Init => Guesses
  <2> SUFFICES ASSUME Init
               PROVE  Guesses
    OBVIOUS
  <2>1. Comparing = {} /\ Noting = {}
    BY DEF Init, Comparing, Noting
  <2>2. Cardinality(Comparing) = 0 /\ Cardinality(Noting) = 0
    BY <2>1, FS_EmptySet
  <2> QED
    BY <2>2 DEF Init, Guesses, Keys
<1>2. (TypeOK /\ \A r \in Requests : Flow(r)) /\ Guesses /\ [Next]_vars => Guesses'
  BY GuessStep
<1>3. TypeOK /\ Guesses => PinGuessesBounded
  <2>1. Cardinality(Comparing) \in Nat
    <3>1. Comparing \subseteq Requests
      BY DEF Comparing
    <3> QED
      BY <3>1, FS_Subset, FS_CardinalityType
  <2> QED
    BY <2>1 DEF Guesses, PinGuessesBounded, TypeOK
<1> QED
  BY <1>1, <1>2, <1>3, Control, PTL DEF Spec

-----------------------------------------------------------------------------
(* Former passwords.                                                       *)

LEMMA PasswordStep ==
    ASSUME TypeOK, \A r \in Requests : Flow(r), \A r \in Requests : LoginIsCurrent(r),
           FormerPasswordSignsOut, [Next]_vars
    PROVE  (\A r \in Requests : LoginIsCurrent(r)') /\ FormerPasswordSignsOut'
\* A change that is not through stays so, or ends by signing the others out.
<1>1. ASSUME body' = body, UNCHANGED password, late \subseteq late', ChangeIsOpen => ChangeIsOpen',
             \A r \in Requests : pc'[r] = "issue" => pc[r] = "issue" /\ via'[r] = via[r],
             \A r \in Requests : challenge'[r] = "open" => challenge[r] = "open"
      PROVE  \A r \in Requests : LoginIsCurrent(r)'
  BY <1>1 DEF LoginIsCurrent
<1>2. ASSUME body' = body, UNCHANGED password, late \subseteq late', ChangeIsOpen => ChangeIsOpen',
             \A r \in Requests : keep[r] # None => keep'[r] = keep[r],
             \A s \in Sessions : session'[s] = "active" =>
                 session[s] = "active" /\ (s \in Requests => via'[s] = via[s])
      PROVE  FormerPasswordSignsOut'
  <2> SUFFICES ASSUME NEW s \in Sessions, Mine(s), session'[s] = "active",
                      UsedPassword(s)' # password'
               PROVE  \/ \E r \in Requests : Op(r)' = "changePassword" /\ keep'[r] = s
                      \/ s \in late' \/ Origin(s)' \in late'
                      \/ ChangeIsOpen'
    BY DEF FormerPasswordSignsOut, ChangeIsOpen, Mine
  <2>1. Origin(s)' = Origin(s) /\ UsedPassword(s)' = UsedPassword(s) /\ session[s] = "active"
    BY <1>2 DEF Origin, UsedPassword
  <2>2. \/ \E r \in Requests : Op(r) = "changePassword" /\ keep[r] = s
        \/ s \in late \/ Origin(s) \in late
        \/ ChangeIsOpen
    BY <1>2, <2>1 DEF FormerPasswordSignsOut, ChangeIsOpen
  <2>3. \A r \in Requests : Op(r)' = Op(r)
    BY <1>2 DEF Op
  <2> QED
    BY <1>2, <2>1, <2>2, <2>3
<1>3. ASSUME NEW r \in Requests, Step(r) \/ StatementFails(r)
      PROVE  (\A q \in Requests : LoginIsCurrent(q)') /\ FormerPasswordSignsOut'
  <2>0. Effect(r) /\ Flow(r)
    BY <1>3, Effects
  <2>1. body' = body /\ late \subseteq late' /\ \A q \in Requests \ {r} : pc'[q] = pc[q]
    BY <2>0 DEF Effect, Walks, NoteFailure, Login, Answers, IssueSession, RecordLoginSuccess, SignsOut, Ends,
         CurrentSessionID, UpdatePassword, RevokesRest, ReadsSecret, WritesSecret, Activate,
         Admitted, Throttle, Unread, Passes, VerifyPINThrottled, SetPIN, Goto, TypeOK, history
  \* Only its last statement ends a change.
  <2>2. ~RevokesRest(r) => (ChangeIsOpen => ChangeIsOpen')
    <3>1. ASSUME ~RevokesRest(r), Op(r) = "changePassword", pc[r] \in {"revokeRest", "unfinished"}
          PROVE  pc'[r] \in {"revokeRest", "unfinished"}
      BY <2>0, <3>1 DEF Effect, Walks, NoteFailure, Login, Answers, IssueSession, RecordLoginSuccess,
           SignsOut, Ends, CurrentSessionID, UpdatePassword, ReadsSecret, WritesSecret, Activate,
           Admitted, Throttle, Unread, Passes, VerifyPINThrottled, SetPIN, Goto, TypeOK, Over, Inside
    <3> QED
      BY <2>1, <3>1 DEF ChangeIsOpen, Op
  <2>3. CASE UpdatePassword(r)
    <3>1. pc'[r] = "revokeRest" /\ Op(r)' = "changePassword"
      BY <2>0, <2>1, <2>3 DEF UpdatePassword, Goto, TypeOK, Flow, Op
    <3>2. ChangeIsOpen'
      BY <3>1 DEF ChangeIsOpen
    <3> QED
      BY <3>2 DEF LoginIsCurrent, FormerPasswordSignsOut, ChangeIsOpen
  <2>4. CASE RevokesRest(r)
    <3>1. /\ UNCHANGED <<body, via, keep, challenge, password>> /\ keep[r] # None
          /\ \A s \in Sessions : session'[s] = "active" => session[s] = "active"
          /\ \A q \in Requests : pc'[q] = "issue" => pc[q] = "issue"
      BY <2>4 DEF RevokesRest, Goto, TypeOK, account
    <3>2. CASE Op(r) = "changePassword"
      <4>1. late' = late \cup UnderWay
        BY <2>4, <3>2 DEF RevokesRest
      <4>2. \A q \in Requests : LoginIsCurrent(q)'
        BY <3>1, <4>1 DEF LoginIsCurrent, UnderWay
      <4>3. \A s \in Sessions : Mine(s) /\ session'[s] = "active" => s = keep[r]
        BY <2>4 DEF RevokesRest, Revoked, TypeOK
      <4>4. FormerPasswordSignsOut'
        BY <3>1, <3>2, <4>3 DEF FormerPasswordSignsOut, Op, Mine
      <4> QED
        BY <4>2, <4>4
    <3>3. CASE Op(r) # "changePassword"
      <4>1. ChangeIsOpen => ChangeIsOpen'
        BY <2>1, <3>3 DEF ChangeIsOpen, Op
      <4> QED
        BY <1>1, <1>2, <2>1, <3>1, <4>1
    <3> QED
      BY <3>2, <3>3
  <2>5. CASE Login(r)
    <3>1. /\ UNCHANGED <<body, via, keep, session, late, password>>
          /\ Op(r) = "login" /\ via[r] = r
      BY <2>0, <2>5 DEF Login, account, history, Flow
    <3>2. pc'[r] = "issue" \/ challenge'[r] # challenge[r] => body[r].password = password
      BY <2>5 DEF Login, Goto, TypeOK
    <3>3. \A q \in Requests \ {r} : challenge'[q] = challenge[q]
      BY <2>5 DEF Login, TypeOK
    <3>4. FormerPasswordSignsOut'
      BY <1>2, <2>1, <2>2, <3>1, <2>5 DEF Login, RevokesRest
    <3>5. \A q \in Requests : LoginIsCurrent(q)'
      BY <2>1, <2>2, <2>5, <3>1, <3>2, <3>3 DEF Login, RevokesRest, LoginIsCurrent
    <3> QED
      BY <3>4, <3>5
  <2>6. CASE Answers(r)
    <3>1. PICK c \in Open : via' = [via EXCEPT ![r] = c]
      BY <2>6 DEF Answers
    <3>2. /\ UNCHANGED <<body, keep, session, late, password, challenge>>
          /\ pc[r] = "start" /\ session[r] = "none" /\ pc' = [pc EXCEPT ![r] = "issue"]
      BY <2>0, <2>6 DEF Answers, account, history, Flow, Goto
    <3>3. ChangeIsOpen => ChangeIsOpen'
      BY <2>2, <3>2 DEF RevokesRest
    <3>4. FormerPasswordSignsOut'
      BY <1>2, <3>1, <3>2, <3>3 DEF TypeOK, Sessions
    <3>5. body[c].password = password \/ c \in late \/ ChangeIsOpen
      BY <3>1 DEF LoginIsCurrent, Open
    <3>6. \A q \in Requests : LoginIsCurrent(q)'
      BY <3>1, <3>2, <3>3, <3>5 DEF LoginIsCurrent, TypeOK
    <3> QED
      BY <3>4, <3>6
  <2>7. CASE IssueSession(r)
    <3>1. /\ UNCHANGED <<body, via, keep, challenge, late, password>>
          /\ pc[r] = "issue" /\ pc' = [pc EXCEPT ![r] = "report"]
          /\ session' = [session EXCEPT ![r] = "active"]
      BY <2>7 DEF IssueSession, account, history, Goto
    <3>2. ChangeIsOpen => ChangeIsOpen'
      BY <2>2, <3>1 DEF RevokesRest
    <3>3. \A q \in Requests : LoginIsCurrent(q)'
      BY <1>1, <3>1, <3>2 DEF TypeOK
    <3>4. UsedPassword(r)' = body[via[r]].password /\ Origin(r)' = via[r]
      BY <3>1 DEF UsedPassword, Origin
    <3>5. UsedPassword(r)' = password \/ r \in late \/ Origin(r)' \in late \/ ChangeIsOpen
      BY <3>1, <3>4 DEF LoginIsCurrent
    <3>6. \A s \in Sessions \ {r} : UsedPassword(s)' = UsedPassword(s) /\ Origin(s)' = Origin(s)
                                    /\ session'[s] = session[s]
      BY <3>1 DEF UsedPassword, Origin, TypeOK
    <3>7. \A q \in Requests : Op(q)' = Op(q)
      BY <3>1 DEF Op
    <3>8. ASSUME NEW s \in Sessions, Mine(s), session'[s] = "active", UsedPassword(s)' # password
          PROVE  \/ \E q \in Requests : Op(q) = "changePassword" /\ keep[q] = s
                 \/ s \in late \/ Origin(s)' \in late
                 \/ ChangeIsOpen
      <4>1. CASE s = r
        BY <3>5, <3>8, <4>1
      <4>2. CASE s # r
        BY <3>6, <3>8, <4>2 DEF FormerPasswordSignsOut, ChangeIsOpen
      <4> QED
        BY <4>1, <4>2
    <3>9. FormerPasswordSignsOut'
      BY <3>1, <3>2, <3>7, <3>8 DEF FormerPasswordSignsOut, ChangeIsOpen, Mine
    <3> QED
      BY <3>3, <3>9
  <2>8. CASE ~UpdatePassword(r) /\ ~RevokesRest(r) /\ ~Login(r) /\ ~Answers(r) /\ ~IssueSession(r)
    <3>1. /\ UNCHANGED <<password, via, challenge>> /\ pc'[r] # "issue"
          /\ \A q \in Requests : keep[q] # None => keep'[q] = keep[q]
          /\ \A s \in Sessions : session'[s] = "active" => session[s] = "active"
      BY <2>0, <2>8 DEF Effect, Walks, NoteFailure, RecordLoginSuccess, SignsOut, Ends,
           CurrentSessionID, ReadsSecret, WritesSecret, Activate, Admitted, Throttle, Unread, Passes, VerifyPINThrottled, SetPIN,
           Goto, TypeOK, Flow, Inside, Steps, Over, account
    <3> QED
      BY <1>1, <1>2, <2>1, <2>2, <2>8, <3>1
  <2> QED
    BY <2>3, <2>4, <2>5, <2>6, <2>7, <2>8
<1>4. CASE ExpireSession \/ ExpireChallenge \/ WindowEnds \/ UNCHANGED vars
  <2>1. /\ UNCHANGED <<body, pc, via, keep, late, password>>
        /\ \A s \in Sessions : session'[s] = "active" => session[s] = "active"
        /\ \A q \in Requests : challenge'[q] = "open" => challenge[q] = "open"
    BY <1>4 DEF ExpireSession, ExpireChallenge, WindowEnds, vars, requests, account, history, TypeOK
  <2>2. ChangeIsOpen => ChangeIsOpen'
    BY <2>1 DEF ChangeIsOpen, Op
  <2> QED
    BY <1>1, <1>2, <2>1, <2>2
<1>5. CASE Restart
  <2>1. /\ UNCHANGED <<body, via, keep, late, password, session, challenge>>
        /\ \A q \in Requests : pc'[q] = "issue" => pc[q] = "issue"
    BY <1>5 DEF Restart, Broken, account
  <2>2. \A q \in Requests : Op(q) = "changePassword" /\ pc[q] \in {"revokeRest", "unfinished"}
                              => pc'[q] = "unfinished"
    BY <1>5 DEF Restart, Broken, Over
  <2>3. ChangeIsOpen => ChangeIsOpen'
    BY <2>1, <2>2 DEF ChangeIsOpen, Op
  <2> QED
    BY <1>1, <1>2, <2>1, <2>3
<1> QED
  BY <1>3, <1>4, <1>5 DEF Next

\* A session opened with a former password that still works is one a change
\* kept, one whose login was under way when the others were signed out, or a
\* change has not got to its end; for any number of changes and logins.
THEOREM FormerPasswordsSignOut == Spec => []FormerPasswordSignsOut
<1> DEFINE Inv == (\A r \in Requests : LoginIsCurrent(r)) /\ FormerPasswordSignsOut
<1>1. Init => Inv
  BY DEF Init, LoginIsCurrent, FormerPasswordSignsOut, UsedPassword, Sessions
<1>2. (TypeOK /\ \A r \in Requests : Flow(r)) /\ Inv /\ [Next]_vars => Inv'
  BY PasswordStep
<1>3. Inv => FormerPasswordSignsOut
  OBVIOUS
<1> HIDE DEF Inv
<1> QED
  BY <1>1, <1>2, <1>3, Control, PTL DEF Spec
=============================================================================
