---------------------------- MODULE Registration ----------------------------
(***************************************************************************)
(* Sign-up by emailed code (services/auth.go, email_otp_repo.go): a signup *)
(* is staged on the address's row of email_otps, and the account is made   *)
(* when a code that was mailed for the address comes back.  The same row   *)
(* verifies the address of an account that exists already.                 *)
(*                                                                         *)
(* Addresses do not share rows, so there is one.  Every statement and the  *)
(* mail are steps of their own: requests of several devices interleave     *)
(* between them.                                                           *)
(***************************************************************************)
EXTENDS Integers, FiniteSets

CONSTANTS
    Requests,      \* requests about the address
    Workloads,     \* what they may be: request |-> "register", "send" or "verify"
    NoRow, NoUser, None,
    MaxAttempt,    \* otpMaxAttempt: wrong codes before a code is void
    FaultKinds,    \* the failures that may happen
    MaxFaults      \* bound on them

ASSUME RegistrationAssumption ==
    /\ Workloads \subseteq [Requests -> {"register", "send", "verify"}]
    /\ IsFiniteSet(Requests) /\ None \notin Requests
    /\ MaxAttempt \in Nat \ {0} /\ MaxFaults \in Nat

VARIABLES
    body,       \* request |-> what it is
    pc,         \* request |-> its next step
    code,       \* request |-> the code it mails or submits
    seen,       \* request |-> the row it has read
    row,        \* the row of email_otps, or NoRow
    account,    \* the row of users, or NoUser
    issued,     \* codes made so far
    mailbox,    \* codes that reached the address
    tried,      \* code |-> wrong codes compared with it
    held,       \* pairs of a code and a payload the row has held
    faults

vars == <<body, pc, code, seen, row, account, issued, mailbox, tried, held, faults>>

\* A code is known by its number; 0 stands for a wrong one.
Codes == 1 .. Cardinality(Requests)
Wrong == 0

Ages == {"cooling", "fresh", "expired"}

Steps == {"start", "issue", "upsert", "mail", "check", "create", "session",
          "recheck", "user", "accept", "mark", "void", "count", "ok", "error"}

Rows == [code : Codes, age : Ages, attempts : Nat, staged : Requests \cup {None}]

Accounts == [payload : Requests \cup {None}, verified : BOOLEAN, proof : Codes \cup {Wrong}]

ASSUME NoUserAssumption == NoUser \notin Accounts

TypeOK ==
    /\ body \in Workloads
    /\ pc \in [Requests -> Steps]
    /\ code \in [Requests -> Codes \cup {Wrong}]
    /\ seen \in [Requests -> Rows \cup {NoRow}]
    /\ row \in Rows \cup {NoRow}
    /\ account \in Accounts \cup {NoUser}
    /\ issued \in {0} \cup Codes /\ mailbox \subseteq 1 .. issued
    /\ tried \in [Codes -> Nat]
    /\ faults \in Nat

\* The account may exist already, its address not yet verified.
Init ==
    /\ body \in Workloads
    /\ pc = [r \in Requests |-> "start"]
    /\ code = [r \in Requests |-> Wrong]
    /\ seen = [r \in Requests |-> NoRow]
    /\ row = NoRow
    /\ account \in {NoUser, [payload |-> None, verified |-> FALSE, proof |-> Wrong]}
    /\ issued = 0 /\ mailbox = {}
    /\ tried = [c \in Codes |-> 0]
    /\ held = {}
    /\ faults = 0

-----------------------------------------------------------------------------
Goto(r, step) == pc' = [pc EXCEPT ![r] = step]

Reads(r, step) == Goto(r, step) /\ seen' = [seen EXCEPT ![r] = row]

\* DELETE FROM email_otps WHERE email = ..., whatever the row is by now.
Clear == row' = NoRow

-----------------------------------------------------------------------------
(* Sending a code.                                                         *)

\* StageRegistration: an address that has an account is refused.
StageRegistration(r) ==
    /\ pc[r] = "start" /\ body[r] = "register"
    /\ Goto(r, IF account # NoUser THEN "error" ELSE "issue")
    /\ UNCHANGED <<body, code, seen, row, account, issued, mailbox, tried, held, faults>>

SendOTPCode(r) ==
    /\ pc[r] = "start" /\ body[r] = "send"
    /\ Goto(r, "issue")
    /\ UNCHANGED <<body, code, seen, row, account, issued, mailbox, tried, held, faults>>

\* The resend cooldown and the cap on attempts, against the row as it is.
MayIssue == row = NoRow \/ (row.age # "cooling" /\ row.attempts < MaxAttempt)

IssueOTP(r) ==
    /\ pc[r] = "issue"
    /\ Reads(r, IF MayIssue THEN "upsert" ELSE "error")
    /\ UNCHANGED <<body, code, row, account, issued, mailbox, tried, held, faults>>

Staged(r) == IF body[r] = "register" THEN r ELSE None

\* Mutant: the hash is taken before the code is made.
NewRowHashedEarly(r, c) ==
    [code |-> code[r], age |-> "cooling", attempts |-> 0,
     staged |-> IF row = NoRow THEN Staged(r) ELSE row.staged]

\* INSERT with the staged payload; on conflict the code is replaced and the
\* payload columns are left alone.
NewRow(r, c) ==
    [code |-> c, age |-> "cooling", attempts |-> 0,
     staged |-> IF row = NoRow THEN Staged(r) ELSE row.staged]

Upsert(r) ==
    /\ pc[r] = "upsert"
    /\ issued' = issued + 1
    /\ code' = [code EXCEPT ![r] = issued']
    /\ row' = NewRow(r, issued')
    /\ held' = held \cup {<<row'.code, row'.staged>>}
    /\ Goto(r, "mail")
    /\ UNCHANGED <<body, seen, account, mailbox, tried, faults>>

SendOTP(r) ==
    /\ pc[r] = "mail"
    /\ mailbox' = mailbox \cup {code[r]}
    /\ Goto(r, "ok")
    /\ UNCHANGED <<body, code, seen, row, account, issued, tried, held, faults>>

-----------------------------------------------------------------------------
(* Submitting a code (handleVerifyOTP).                                    *)

SubmitCode(r) ==
    /\ pc[r] = "start" /\ body[r] = "verify"
    /\ \E c \in mailbox \cup {Wrong} : code' = [code EXCEPT ![r] = c]
    /\ Goto(r, "check")
    /\ UNCHANGED <<body, seen, row, account, issued, mailbox, tried, held, faults>>

\* fetchAndValidateOTP: expired and exhausted codes are void.
Void == row.age = "expired" \/ row.attempts >= MaxAttempt

Right(c) == c = row.code

Validate(r, accepted) ==
    CASE row = NoRow -> Goto(r, "error") /\ UNCHANGED <<seen, tried>>
      [] row # NoRow /\ Void -> Reads(r, "void") /\ UNCHANGED tried
      [] row # NoRow /\ ~Void /\ ~Right(code[r]) ->
           /\ Reads(r, "count")
           /\ tried' = [tried EXCEPT ![row.code] = @ + 1]
      [] OTHER -> Reads(r, accepted) /\ UNCHANGED tried

\* CompleteRegistration; without a staged signup, ErrNoPendingRegistration
\* sends the request on to VerifyOTPCode.
CompleteRegistration(r) ==
    /\ pc[r] = "check"
    /\ Validate(r, IF row # NoRow /\ row.staged # None THEN "create" ELSE "recheck")
    /\ UNCHANGED <<body, code, row, account, issued, mailbox, held, faults>>

\* Mutant: the payload is taken from the row as it is when the account is made.
PayloadNow(r) == IF row = NoRow THEN None ELSE row.staged

Payload(r) == seen[r].staged

\* The transaction: the user row, which the unique address refuses a second
\* time, its accounts, and the end of the code.
CreateUser(r) ==
    /\ pc[r] = "create"
    /\ IF account # NoUser THEN Goto(r, "error") /\ UNCHANGED <<row, account>>
       ELSE /\ account' = [payload |-> Payload(r), verified |-> TRUE, proof |-> code[r]]
            /\ Clear
            /\ Goto(r, "session")
    /\ UNCHANGED <<body, code, seen, issued, mailbox, tried, held, faults>>

IssueSession(r) ==
    /\ pc[r] = "session"
    /\ Goto(r, "ok")
    /\ UNCHANGED <<body, code, seen, row, account, issued, mailbox, tried, held, faults>>

\* VerifyOTPCode reads and compares the row once more.
VerifyOTPCode(r) ==
    /\ pc[r] = "recheck"
    /\ Validate(r, "user")
    /\ UNCHANGED <<body, code, row, account, issued, mailbox, held, faults>>

FindUser(r) ==
    /\ pc[r] = "user"
    /\ Goto(r, IF account = NoUser THEN "void" ELSE "accept")
    /\ UNCHANGED <<body, code, seen, row, account, issued, mailbox, tried, held, faults>>

ClearAccepted(r) ==
    /\ pc[r] = "accept"
    /\ Clear
    /\ Goto(r, "mark")
    /\ UNCHANGED <<body, code, seen, account, issued, mailbox, tried, held, faults>>

MarkEmailVerified(r) ==
    /\ pc[r] = "mark"
    /\ account' = [account EXCEPT !.verified = TRUE,
                                  !.proof = IF account.verified THEN @ ELSE code[r]]
    /\ Goto(r, "ok")
    /\ UNCHANGED <<body, code, seen, row, issued, mailbox, tried, held, faults>>

ClearVoid(r) ==
    /\ pc[r] = "void"
    /\ Clear
    /\ Goto(r, "error")
    /\ UNCHANGED <<body, code, seen, account, issued, mailbox, tried, held, faults>>

\* Mutant: the count written back is the one that was read.
CountedFromRead(r) == seen[r].attempts + 1

\* UPDATE ... SET attempts = attempts + 1, on whatever row is there.
Counted(r) == row.attempts + 1

IncrementAttempts(r) ==
    /\ pc[r] = "count"
    /\ row' = IF row = NoRow THEN row ELSE [row EXCEPT !.attempts = Counted(r)]
    /\ Goto(r, "error")
    /\ UNCHANGED <<body, code, seen, account, issued, mailbox, tried, held, faults>>

-----------------------------------------------------------------------------
(* Time and failures.                                                      *)

\* The cooldown ends, later the code expires.
Age ==
    /\ row # NoRow /\ row.age # "expired"
    /\ row' = [row EXCEPT !.age = IF @ = "cooling" THEN "fresh" ELSE "expired"]
    /\ UNCHANGED <<body, pc, code, seen, account, issued, mailbox, tried, held, faults>>

Fault(kind) == kind \in FaultKinds /\ faults < MaxFaults /\ faults' = faults + 1

\* A failed statement ends the request.  VerifyOTPCode goes on, though: a user
\* it cannot read voids the code, a code it cannot clear still counts.
StatementFails(r) ==
    /\ Fault("db")
    /\ pc[r] \in Steps \ {"start", "mail", "ok", "error"} \/ (pc[r] = "start" /\ body[r] = "register")
    /\ Goto(r, CASE pc[r] = "user" -> "void" [] pc[r] = "accept" -> "mark" [] OTHER -> "error")
    /\ UNCHANGED <<body, code, seen, row, account, issued, mailbox, tried, held>>

\* The mailer reports an error; the mail may be under way all the same.
MailFails(r) ==
    /\ Fault("mail")
    /\ pc[r] = "mail"
    /\ mailbox' \in {mailbox, mailbox \cup {code[r]}}
    /\ Goto(r, "error")
    /\ UNCHANGED <<body, code, seen, row, account, issued, tried, held>>

Step(r) ==
    \/ StageRegistration(r) \/ SendOTPCode(r) \/ IssueOTP(r) \/ Upsert(r) \/ SendOTP(r)
    \/ SubmitCode(r) \/ CompleteRegistration(r) \/ CreateUser(r) \/ IssueSession(r)
    \/ VerifyOTPCode(r) \/ FindUser(r) \/ ClearAccepted(r) \/ MarkEmailVerified(r)
    \/ ClearVoid(r) \/ IncrementAttempts(r)

Next ==
    \/ \E r \in Requests : Step(r) \/ StatementFails(r) \/ MailFails(r)
    \/ Age

Spec == Init /\ [][Next]_vars

-----------------------------------------------------------------------------
(* Properties.                                                             *)

\* "A user row is never written unless the code verifies", and a verified
\* address was proven: the account's address is verified by a code that
\* reached the mailbox, and a new account has the payload that stood on the
\* row together with that code, though others restage, expire and clear the
\* row between the check of the code and the INSERT.
AccountIsProven ==
    account # NoUser /\ account.verified =>
        /\ account.proof \in mailbox
        /\ account.payload # None => <<account.proof, account.payload>> \in held

\* "5 verify attempts before the code is voided": reading the row, comparing
\* and counting are separate statements, and still every wrong code is counted
\* against the code it was compared with, but for the counts still under way
\* and the statements that failed.
GuessesCounted ==
    row # NoRow =>
        tried[row.code] <= row.attempts + faults
                           + Cardinality({r \in Requests : pc[r] = "count"})
=============================================================================
