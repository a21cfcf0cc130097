------------------------------ MODULE Session -------------------------------
(***************************************************************************)
(* Signing in and what a signed-in device may do to its account            *)
(* (services/auth.go, services/security.go): password and authenticator    *)
(* login, sessions and their revocation, password, TOTP and PIN changes,   *)
(* and the throttling of wrong passwords and PINs.                         *)
(*                                                                         *)
(* One account, whose devices send requests at the same time.  A step is   *)
(* one statement on users or sessions, or one critical section of the      *)
(* attempt counters.  No code of the repository locks an account or        *)
(* suspends it, so the account is active throughout.                       *)
(***************************************************************************)
EXTENDS Integers, FiniteSets

CONSTANTS
    Requests,        \* requests; one that signs in names its session
    Workloads,       \* what they may ask: request |-> [op, as, ...]
    Old,             \* sessions that exist from the start
    Foreign,         \* those among them of other accounts
    OldDevice,       \* session of Old |-> its device
    FirstPassword, FirstPin, FirstSecret,
    None,
    MaxAttempts,     \* loginMaxAttempts, pinMaxAttempts
    FaultKinds,      \* the failures that may happen
    MaxFaults        \* bound on them

SignIns == {"login", "verify2fa"}
Signed == {"logout", "revokeDevice", "revokeOthers", "changePassword", "generateTOTP",
           "enableTOTP", "disableTOTP", "setPin", "verifyPin", "withdraw"}
Sessions == Requests \cup Old
Secrets == Requests \cup {FirstSecret}     \* a setup names the secret it makes
Keys == {"login", "pin"}

ASSUME SessionAssumption ==
    /\ IsFiniteSet(Requests)
    /\ Foreign \subseteq Old /\ Old \cap Requests = {} /\ None \notin Sessions
    /\ \A w \in Workloads, r \in Requests :
          /\ w[r].op \in SignIns \cup Signed
          /\ w[r].as \in Sessions \ Foreign
          /\ w[r].target \in Sessions
    /\ MaxAttempts \in Nat /\ MaxFaults \in Nat

VARIABLES
    body,       \* request |-> what it asks
    pc,         \* request |-> its next step
    via,        \* request |-> the login whose challenge it answers
    keep,       \* request |-> the session it keeps, or None
    seen,       \* request |-> the secret it has read
    session,    \* session |-> "none", "active", "revoked" or "expired"
    challenge,  \* login |-> "none", "open" or "expired"
    password, secret, enabled, pin,     \* the row of users
    fails,      \* key |-> failures in its window
    shown,      \* secrets shown to the account's holder
    proven,     \* secrets a code was given for
    wrong,      \* wrong PINs compared past the throttle in its window
    peak,       \* the most requests past the throttle at once in it
    late,       \* logins under way when a password change revoked the others
    reported,   \* devices reported as new
    faults

requests == <<body, pc, via, keep, seen>>
account == <<password, secret, enabled, pin>>
history == <<shown, proven, wrong, peak, late, reported>>
vars == <<requests, session, challenge, account, fails, history, faults>>

Steps == {"start", "note", "issue", "report", "logout", "revoke", "keep", "compare", "update",
          "revokeRest", "generate", "storeSecret", "enable", "activate", "pin", "disable",
          "deactivate", "hasPin", "throttle", "checkPin", "setPin", "ok", "error", "unfinished"}

TypeOK ==
    /\ body \in Workloads
    /\ pc \in [Requests -> Steps]
    /\ via \in [Requests -> Requests]
    /\ keep \in [Requests -> Sessions \cup {None}]
    /\ seen \in [Requests -> Secrets \cup {None}]
    /\ session \in [Sessions -> {"none", "active", "revoked", "expired"}]
    /\ challenge \in [Requests -> {"none", "open", "expired"}]
    /\ secret \in Secrets \cup {None}
    /\ enabled \in BOOLEAN /\ (enabled => secret # None)
    /\ fails \in [Keys -> Nat] /\ wrong \in Nat /\ peak \in Nat
    /\ late \subseteq Requests
    /\ \A r \in Requests : session[r] # "none" => body[r].op \in SignIns

\* The account has a PIN or not, an enabled authenticator or none.
Init ==
    /\ body \in Workloads
    /\ pc = [r \in Requests |-> "start"]
    /\ via = [r \in Requests |-> r]
    /\ keep = [r \in Requests |-> None]
    /\ seen = [r \in Requests |-> None]
    /\ session = [s \in Sessions |-> IF s \in Old THEN "active" ELSE "none"]
    /\ challenge = [r \in Requests |-> "none"]
    /\ password = FirstPassword
    /\ pin \in {None, FirstPin}
    /\ secret \in {None, FirstSecret} /\ enabled = (secret # None)
    /\ fails = [k \in Keys |-> 0]
    /\ shown = {secret} \ {None} /\ proven = shown
    /\ wrong = 0 /\ peak = 0
    /\ late = {} /\ reported = {}
    /\ faults = 0

-----------------------------------------------------------------------------
Op(r) == body[r].op
Goto(r, step) == pc' = [pc EXCEPT ![r] = step]
Mine(s) == s \notin Foreign

\* Mutant: each failure opens a window of its own.
NotedAfresh(k) == 1

Noted(k) == fails[k] + 1

\* isThrottled: more failures in the window than allowed.
IsThrottled(k) == fails[k] > MaxAttempts

ClearFailure(k) == fails' = [fails EXCEPT ![k] = 0]

\* Requests that the throttle let through to the PIN and whose outcome is not
\* counted yet, when each is at step at[r].
InFlight(at) == {r \in Requests : at[r] = "checkPin" \/ (at[r] = "note" /\ Op(r) # "login")}

\* The failures of the window are forgotten, and another begins.
NewWindow(at) == wrong' = 0 /\ peak' = Cardinality(InFlight(at))

\* noteFailure, and the error that follows it.
NoteFailure(r) ==
    /\ pc[r] = "note"
    /\ LET k == IF Op(r) = "login" THEN "login" ELSE "pin"
       IN  fails' = [fails EXCEPT ![k] = Noted(k)]
    /\ Goto(r, "error")
    /\ UNCHANGED <<body, via, keep, seen, session, challenge, account, history, faults>>

-----------------------------------------------------------------------------
(* Signing in.                                                             *)

\* Login: the right password passes however many wrong ones came before.
Login(r) ==
    /\ pc[r] = "start" /\ Op(r) = "login"
    /\ IF body[r].password # password
       THEN Goto(r, "note") /\ UNCHANGED <<challenge, fails>>
       ELSE /\ ClearFailure("login")
            /\ Goto(r, IF enabled THEN "ok" ELSE "issue")
            /\ challenge' = [challenge EXCEPT ![r] = IF enabled THEN "open" ELSE @]
    /\ UNCHANGED <<body, via, keep, seen, session, account, history, faults>>

Open == {c \in Requests : challenge[c] = "open"}

\* Only the holder of an authenticator that was shown the secret has codes.
CodeMatches(x) == x \in shown

\* Verify2FA: the challenge, then the account as it is now, then the code.
Verify2FA(r) ==
    /\ pc[r] = "start" /\ Op(r) = "verify2fa"
    /\ \/ \E c \in Open :
            /\ enabled /\ CodeMatches(secret)
            /\ via' = [via EXCEPT ![r] = c]
            /\ ClearFailure("login")
            /\ Goto(r, "issue")
       \/ Goto(r, "error") /\ UNCHANGED <<via, fails>>
    /\ UNCHANGED <<body, keep, seen, session, challenge, account, history, faults>>

IssueSession(r) ==
    /\ pc[r] = "issue"
    /\ session' = [session EXCEPT ![r] = "active"]
    /\ Goto(r, "report")
    /\ UNCHANGED <<body, via, keep, seen, challenge, account, fails, history, faults>>

Device(s) == IF s \in Old THEN OldDevice[s] ELSE body[s].device

SessionsOn(d) == {s \in Sessions : session[s] # "none" /\ Mine(s) /\ Device(s) = d}

\* Mutant: only a device without any session is new.
FirstSeenNever(d) == SessionsOn(d) = {}

\* CountRecentByDevice: the session just issued is the only one.
FirstSeen(d) == Cardinality(SessionsOn(d)) <= 1

RecordLoginSuccess(r) ==
    /\ pc[r] = "report"
    /\ reported' = reported \cup {d \in {Device(r)} : FirstSeen(d)}
    /\ Goto(r, "ok")
    /\ UNCHANGED <<body, via, keep, seen, session, challenge, account, fails,
                   shown, proven, wrong, peak, late, faults>>

-----------------------------------------------------------------------------
(* Requests of a signed-in device.                                         *)

FirstStep ==
    [logout |-> "logout", revokeDevice |-> "revoke", revokeOthers |-> "keep",
     changePassword |-> "keep", generateTOTP |-> "generate", enableTOTP |-> "enable",
     disableTOTP |-> "pin", setPin |-> "hasPin", verifyPin |-> "throttle",
     withdraw |-> "pin"]

\* The Auth middleware: what follows works with the account it found, and does
\* not look at the session again.
Authenticate(r) ==
    /\ pc[r] = "start" /\ Op(r) \in Signed
    /\ Goto(r, IF session[body[r].as] = "active" THEN FirstStep[Op(r)] ELSE "error")
    /\ UNCHANGED <<body, via, keep, seen, session, challenge, account, fails, history, faults>>

\* UPDATE ... WHERE revoked_at IS NULL: revoking twice is an error.
Revoke(r, s) ==
    IF Mine(s) /\ session[s] \in {"active", "expired"}
    THEN session' = [session EXCEPT ![s] = "revoked"] /\ Goto(r, "ok")
    ELSE UNCHANGED session /\ Goto(r, "error")

Logout(r) ==
    /\ pc[r] = "logout"
    /\ Revoke(r, body[r].as)
    /\ UNCHANGED <<body, via, keep, seen, challenge, account, fails, history, faults>>

RevokeDevice(r) ==
    /\ pc[r] = "revoke"
    /\ Revoke(r, body[r].target)
    /\ UNCHANGED <<body, via, keep, seen, challenge, account, fails, history, faults>>

\* CurrentSessionID finds the row whether it is revoked or not.
CurrentSessionID(r) ==
    /\ pc[r] = "keep"
    /\ keep' = [keep EXCEPT ![r] = body[r].as]
    /\ Goto(r, IF Op(r) = "changePassword" THEN "compare" ELSE "revokeRest")
    /\ UNCHANGED <<body, via, seen, session, challenge, account, fails, history, faults>>

ComparePassword(r) ==
    /\ pc[r] = "compare"
    /\ Goto(r, IF body[r].password = password THEN "update" ELSE "error")
    /\ UNCHANGED <<body, via, keep, seen, session, challenge, account, fails, history, faults>>

UpdatePassword(r) ==
    /\ pc[r] = "update"
    /\ password' = body[r].next
    /\ Goto(r, "revokeRest")
    /\ UNCHANGED <<body, via, keep, seen, session, challenge, secret, enabled, pin, fails, history, faults>>

\* Mutant: only the sessions of other devices are signed out.
RevokedByDevice(r) == {s \in Sessions : session[s] = "active" /\ Mine(s) /\ Device(s) # Device(keep[r])}

Revoked(r) == {s \in Sessions : session[s] \in {"active", "expired"} /\ Mine(s) /\ s # keep[r]}

UnderWay == {r \in Requests : pc[r] = "issue" \/ challenge[r] = "open"}

\* RevokeAllExcept.  Without a session to keep, the statement is refused: ''
\* is not a uuid.
RevokeAllExcept(r) ==
    /\ pc[r] = "revokeRest"
    /\ IF keep[r] = None THEN Goto(r, "unfinished") /\ UNCHANGED <<session, late>>
       ELSE /\ session' = [s \in Sessions |-> IF s \in Revoked(r) THEN "revoked" ELSE session[s]]
            /\ late' = IF Op(r) = "changePassword" THEN late \cup UnderWay ELSE late
            /\ Goto(r, "ok")
    /\ UNCHANGED <<body, via, keep, seen, challenge, account, fails,
                   shown, proven, wrong, peak, reported, faults>>

-----------------------------------------------------------------------------
(* The authenticator.  UpdateTOTP writes the secret and the flag together. *)

GenerateTOTP(r) ==
    /\ pc[r] = "generate"
    /\ Goto(r, IF enabled THEN "error" ELSE "storeSecret")
    /\ UNCHANGED <<body, via, keep, seen, session, challenge, account, fails, history, faults>>

StoreSecret(r) ==
    /\ pc[r] = "storeSecret"
    /\ secret' = r /\ enabled' = FALSE
    /\ shown' = shown \cup {r}
    /\ Goto(r, "ok")
    /\ UNCHANGED <<body, via, keep, seen, session, challenge, password, pin, fails,
                   proven, wrong, peak, late, reported, faults>>

\* EnableTOTP: the code must be of the secret it has read.
EnableTOTP(r) ==
    /\ pc[r] = "enable"
    /\ \/ /\ secret # None /\ CodeMatches(secret)
          /\ seen' = [seen EXCEPT ![r] = secret]
          /\ proven' = proven \cup {secret}
          /\ Goto(r, "activate")
       \/ Goto(r, "error") /\ UNCHANGED <<seen, proven>>
    /\ UNCHANGED <<body, via, keep, session, challenge, account, fails,
                   shown, wrong, peak, late, reported, faults>>

\* Mutant: the secret is read back empty.
ActivatedEmpty(r) == None

\* Mutant: only the flag is written.
ActivatedAsIs(r) == secret

Activated(r) == seen[r]

Activate(r) ==
    /\ pc[r] = "activate"
    /\ secret' = Activated(r) /\ enabled' = TRUE
    /\ Goto(r, "ok")
    /\ UNCHANGED <<body, via, keep, seen, session, challenge, password, pin, fails, history, faults>>

\* VerifyPIN as DisableTOTP and handleVaultWithdraw call it: neither throttled
\* nor counted.  The withdrawal that follows is module Withdrawal's.
VerifyPIN(r) ==
    /\ pc[r] = "pin"
    /\ Goto(r, CASE pin = None \/ body[r].pin # pin -> "error"
                 [] Op(r) = "withdraw" -> "ok"
                 [] OTHER -> "disable")
    /\ UNCHANGED <<body, via, keep, seen, session, challenge, account, fails, history, faults>>

\* Then a code; the secret is kept.
DisableTOTP(r) ==
    /\ pc[r] = "disable"
    /\ \/ /\ secret # None /\ CodeMatches(secret)
          /\ seen' = [seen EXCEPT ![r] = secret]
          /\ Goto(r, "deactivate")
       \/ Goto(r, "error") /\ UNCHANGED seen
    /\ UNCHANGED <<body, via, keep, session, challenge, account, fails, history, faults>>

Deactivate(r) ==
    /\ pc[r] = "deactivate"
    /\ secret' = seen[r] /\ enabled' = FALSE
    /\ Goto(r, "ok")
    /\ UNCHANGED <<body, via, keep, seen, session, challenge, password, pin, fails, history, faults>>

-----------------------------------------------------------------------------
(* The PIN.                                                                *)

\* handleSetPin asks for the current PIN if there is one.
HasPIN(r) ==
    /\ pc[r] = "hasPin"
    /\ Goto(r, IF pin # None THEN "throttle" ELSE "setPin")
    /\ UNCHANGED <<body, via, keep, seen, session, challenge, account, fails, history, faults>>

Throttle(r) ==
    /\ pc[r] = "throttle"
    /\ IF IsThrottled("pin") THEN Goto(r, "error") /\ UNCHANGED peak
       ELSE /\ Goto(r, "checkPin")
            /\ LET n == Cardinality(InFlight(pc')) IN peak' = IF n > peak THEN n ELSE peak
    /\ UNCHANGED <<body, via, keep, seen, session, challenge, account, fails,
                   shown, proven, wrong, late, reported, faults>>

VerifyPINThrottled(r) ==
    /\ pc[r] = "checkPin"
    /\ IF pin # None /\ body[r].pin = pin
       THEN Goto(r, IF Op(r) = "setPin" THEN "setPin" ELSE "ok") /\ ClearFailure("pin") /\ NewWindow(pc')
       ELSE Goto(r, "note") /\ wrong' = wrong + 1 /\ UNCHANGED <<fails, peak>>
    /\ UNCHANGED <<body, via, keep, seen, session, challenge, account, shown, proven, late, reported, faults>>

SetPIN(r) ==
    /\ pc[r] = "setPin"
    /\ pin' = body[r].next
    /\ Goto(r, "ok")
    /\ UNCHANGED <<body, via, keep, seen, session, challenge, password, secret, enabled, fails, history, faults>>

-----------------------------------------------------------------------------
(* Time and failures.                                                      *)

ExpireSession ==
    \E s \in Sessions :
        /\ session[s] = "active"
        /\ session' = [session EXCEPT ![s] = "expired"]
        /\ UNCHANGED <<requests, challenge, account, fails, history, faults>>

ExpireChallenge ==
    \E c \in Open :
        /\ challenge' = [challenge EXCEPT ![c] = "expired"]
        /\ UNCHANGED <<requests, session, account, fails, history, faults>>

WindowEnds ==
    \E k \in Keys :
        /\ fails[k] > 0
        /\ ClearFailure(k)
        /\ IF k = "pin" THEN NewWindow(pc) ELSE UNCHANGED <<wrong, peak>>
        /\ UNCHANGED <<requests, session, challenge, account, shown, proven, late, reported, faults>>

Fault(kind) == kind \in FaultKinds /\ faults < MaxFaults /\ faults' = faults + 1

Over == {"ok", "error", "unfinished"}

\* Where a request stops half-way: with the password changed and the other
\* sessions still open, or signed in and the device not reported.
Broken(r) == IF pc[r] = "report" \/ (Op(r) = "changePassword" /\ pc[r] = "revokeRest")
             THEN "unfinished" ELSE "error"

\* A statement fails.  A session to keep that cannot be read is not kept, a
\* PIN that cannot be read is taken for none, and past the throttle counts as wrong.
StatementFails(r) ==
    /\ Fault("db")
    /\ pc[r] \notin Over \cup {"throttle", "note"}
    /\ Goto(r, CASE pc[r] = "keep" -> IF Op(r) = "changePassword" THEN "compare" ELSE "revokeRest"
                 [] pc[r] = "hasPin" -> "setPin"
                 [] pc[r] = "checkPin" -> "note"
                 [] OTHER -> Broken(r))
    /\ UNCHANGED <<body, via, keep, seen, session, challenge, account, fails, history>>

\* The process restarts: requests under way and the attempt counters are gone.
Restart ==
    /\ Fault("restart")
    /\ pc' = [r \in Requests |-> IF pc[r] \in Over \cup {"start"} THEN pc[r] ELSE Broken(r)]
    /\ fails' = [k \in Keys |-> 0]
    /\ wrong' = 0 /\ peak' = 0
    /\ UNCHANGED <<body, via, keep, seen, session, challenge, account, shown, proven, late, reported>>

Step(r) ==
    \/ NoteFailure(r) \/ Login(r) \/ Verify2FA(r) \/ IssueSession(r) \/ RecordLoginSuccess(r)
    \/ Authenticate(r) \/ Logout(r) \/ RevokeDevice(r) \/ CurrentSessionID(r)
    \/ ComparePassword(r) \/ UpdatePassword(r) \/ RevokeAllExcept(r)
    \/ GenerateTOTP(r) \/ StoreSecret(r) \/ EnableTOTP(r) \/ Activate(r)
    \/ VerifyPIN(r) \/ DisableTOTP(r) \/ Deactivate(r)
    \/ HasPIN(r) \/ Throttle(r) \/ VerifyPINThrottled(r) \/ SetPIN(r)

Next ==
    \/ \E r \in Requests : Step(r) \/ StatementFails(r)
    \/ ExpireSession \/ ExpireChallenge \/ WindowEnds \/ Restart

Spec == Init /\ [][Next]_vars

-----------------------------------------------------------------------------
(* Properties.                                                             *)

Origin(s) == IF s \in Requests THEN via[s] ELSE s
UsedPassword(s) == IF s \in Old THEN FirstPassword ELSE body[Origin(s)].password

\* ChangePassword "stores a new hash, and revokes every session except the one
\* that requested the change", in two statements.  A session that was opened
\* with a former password and still works is then the one that was kept, or
\* its login was under way when the others were revoked (the password compared
\* but the session not yet stored, or a challenge not yet answered), or a
\* change has not got to its end.
FormerPasswordSignsOut ==
    \A s \in Sessions :
        /\ Mine(s) /\ session[s] = "active" /\ UsedPassword(s) # password
        => \/ \E r \in Requests : Op(r) = "changePassword" /\ keep[r] = s
           \/ s \in late \/ Origin(s) \in late
           \/ \E r \in Requests : Op(r) = "changePassword" /\ pc[r] \in {"revokeRest", "unfinished"}

\* "EnableTOTP activates 2FA after the user proves they hold the key": setups
\* and enablings of several devices interleave, and the secret a login is
\* checked against is still one a code was given for, so an enabled account
\* is never locked out by a secret nobody has.
EnabledIsProven == enabled => secret \in proven

\* The throttle of VerifyPINThrottled looks at the count, the PIN is compared
\* and the failure noted in three separate steps, so requests that come at the
\* same time pass together.  In one window the gate still compares no more than
\* pinMaxAttempts wrong PINs and as many again as were in flight at once.  The
\* PINs of DisableTOTP and of withdrawals are not behind it.
PinGuessesBounded == wrong <= MaxAttempts + peak

\* recordLoginSuccess counts the device's sessions after its own is stored: a
\* device with a single session has been reported when its login is over.
NewDeviceReported ==
    \A r \in Requests :
        /\ session[r] # "none" /\ pc[r] = "ok" /\ SessionsOn(Device(r)) = {r}
        => Device(r) \in reported
=============================================================================
