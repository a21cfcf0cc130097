-------------------------- MODULE RegistrationProofs --------------------------
(***************************************************************************)
(* Proofs about Registration for any number of requests, any mix of them,  *)
(* any cap on attempts and any number of failures.                         *)
(***************************************************************************)
EXTENDS Registration, FiniteSetTheorems, TLAPS

USE RegistrationAssumption

\* Requests past the statement that makes a code: one code each, at most.
Past == {r \in Requests : pc[r] \notin {"start", "issue", "upsert"}}

\* Requests that compared a wrong code and have not counted it yet.
Counting == {r \in Requests : pc[r] = "count"}

\* Codes are fresh: no more were made than requests are past the statement,
\* the row holds one of them, and the next has not been compared with.
CodesAreFresh ==
    /\ issued \in Nat /\ issued <= Cardinality(Past)
    /\ row # NoRow => row.code <= issued
    /\ \A r \in Requests : pc[r] = "mail" => code[r] \in 1 .. issued
    /\ \A c \in Codes : c > issued => tried[c] = 0

\* What a request knows at each step: a code it submits came from the
\* mailbox or is wrong, and past the comparison it is not wrong.
Submitting == {"check", "create", "recheck", "user", "accept", "mark"}

KnowsCode(r) ==
    /\ pc[r] \in Submitting => code[r] \in mailbox \cup {Wrong}
    /\ pc[r] \in {"create", "user", "accept", "mark"} => code[r] \in mailbox
    /\ pc[r] = "create" => seen[r] \in Rows /\ <<code[r], seen[r].staged>> \in held
    /\ pc[r] \in {"accept", "mark"} => account \in Accounts

RowIsHeld == row # NoRow => <<row.code, row.staged>> \in held

NewIsVerified == account # NoUser /\ account.payload # None => account.verified

ProofInv ==
    /\ \A r \in Requests : KnowsCode(r)
    /\ RowIsHeld
    /\ NewIsVerified
    /\ AccountIsProven

-----------------------------------------------------------------------------
(* Sets of requests as one of them moves.                                  *)

LEMMA FiniteRequests ==
    ASSUME NEW S \in SUBSET Requests
    PROVE  /\ IsFiniteSet(S) /\ Cardinality(S) \in Nat
           /\ Cardinality(S) <= Cardinality(Requests)
BY FS_Subset, FS_CardinalityType

LEMMA Adding ==
    ASSUME NEW S \in SUBSET Requests, NEW r \in Requests, r \notin S
    PROVE  Cardinality(S \cup {r}) = Cardinality(S) + 1
BY FiniteRequests, FS_AddElement

LEMMA Removing ==
    ASSUME NEW S \in SUBSET Requests, NEW r \in S
    PROVE  Cardinality(S \ {r}) = Cardinality(S) - 1
BY FiniteRequests, FS_RemoveElement

LEMMA Growing ==
    ASSUME NEW S \in SUBSET Requests, NEW T \in SUBSET S
    PROVE  Cardinality(T) <= Cardinality(S)
BY FiniteRequests, FS_Subset

LEMMA PastMoves ==
    ASSUME TypeOK, NEW r \in Requests, NEW s \in Steps, Goto(r, s),
           s \in {"start", "issue", "upsert"} => r \notin Past
    PROVE  /\ Past \subseteq Past'
           /\ s \notin {"start", "issue", "upsert"} => Past' = Past \cup {r}
           /\ Past' \in SUBSET Requests
BY DEF TypeOK, Goto, Past

LEMMA CountingMoves ==
    ASSUME TypeOK, NEW r \in Requests, NEW s \in Steps, Goto(r, s)
    PROVE  Counting' = IF s = "count" THEN Counting \cup {r} ELSE Counting \ {r}
BY DEF TypeOK, Goto, Counting

-----------------------------------------------------------------------------
(* Types.                                                                  *)

\* The steps that make no code and compare none leave the codes fresh.
LEMMA FreshKept ==
    ASSUME TypeOK, CodesAreFresh, NEW r \in Requests, NEW s \in Steps, Goto(r, s),
           s \in {"start", "issue", "upsert"} => r \notin Past,
           s # "mail",
           UNCHANGED <<code, issued>>,
           row' = NoRow \/ (row # NoRow /\ row'.code = row.code) \/ row' = row,
           \A c \in Codes : c > issued => tried'[c] = 0
    PROVE  CodesAreFresh'
<1>1. issued' <= Cardinality(Past')
  <2>1. Past \subseteq Past' /\ Past' \in SUBSET Requests
    BY PastMoves
  <2>2. Cardinality(Past) <= Cardinality(Past')
    BY <2>1, Growing
  <2>3. Cardinality(Past) \in Nat /\ Cardinality(Past') \in Nat
    BY <2>1, FiniteRequests
  <2> QED
    BY <2>2, <2>3 DEF CodesAreFresh
<1>2. \A q \in Requests : pc'[q] = "mail" => code'[q] \in 1 .. issued'
  BY DEF CodesAreFresh, Goto, TypeOK
<1> QED
  BY <1>1, <1>2 DEF CodesAreFresh

\* Comparing a code keeps the types and the freshness of codes.
LEMMA ValidateType ==
    ASSUME TypeOK, CodesAreFresh, NEW r \in Requests, NEW a \in {"create", "recheck", "user"},
           pc[r] \in {"check", "recheck"}, Validate(r, a),
           UNCHANGED <<body, code, row, account, issued, mailbox, held, faults>>
    PROVE  TypeOK' /\ CodesAreFresh'
<1> DEFINE s == pc'[r]
<1>1. /\ s \in {"error", "void", "count", "create", "recheck", "user"}
      /\ Goto(r, s)
      /\ seen' \in [Requests -> Rows \cup {NoRow}]
  BY DEF Validate, Reads, Goto, TypeOK
<1>2. tried' \in [Codes -> Nat]
  BY DEF Validate, TypeOK, Rows
<1>3. \A c \in Codes : c > issued => tried'[c] = 0
  <2>1. tried' = tried \/ (row # NoRow /\ tried' = [tried EXCEPT ![row.code] = @ + 1])
    BY DEF Validate
  <2>2. row # NoRow => row.code \in Codes /\ row.code <= issued
    BY DEF TypeOK, Rows, CodesAreFresh
  <2>3. \A c \in Codes : c \in Nat /\ (c > issued => tried[c] = 0)
    BY DEF CodesAreFresh, Codes
  <2> QED
    BY <2>1, <2>2, <2>3 DEF TypeOK, CodesAreFresh
<1>4. s \in Steps
  BY <1>1 DEF Steps
<1>5. TypeOK'
  BY <1>1, <1>2, <1>4 DEF TypeOK, Goto
<1>6. CodesAreFresh'
  <2> HIDE DEF s
  <2> QED
    BY <1>1, <1>3, <1>4, FreshKept
<1> QED
  BY <1>5, <1>6

\* A record of the fields an account has is an account.
LEMMA IsAccount ==
    ASSUME NEW p \in Requests \cup {None}, NEW v \in BOOLEAN, NEW c \in Codes \cup {Wrong}
    PROVE  [payload |-> p, verified |-> v, proof |-> c] \in Accounts
BY Zenon DEF Accounts

\* The statement that makes a code finds a number left for it.
LEMMA UpsertCode ==
    ASSUME TypeOK, CodesAreFresh, NEW r \in Requests, Upsert(r)
    PROVE  issued' \in Codes /\ issued' <= Cardinality(Past') /\ issued' = issued + 1
<1>1. issued' = issued + 1 /\ Goto(r, "mail") /\ r \notin Past
  BY DEF Upsert, Past
<1>2. /\ Past' = Past \cup {r} /\ Past' \in SUBSET Requests
      /\ Past \in SUBSET Requests
  BY <1>1, PastMoves DEF Steps, Past
<1>3. Cardinality(Past') = Cardinality(Past) + 1
  BY <1>1, <1>2, Adding
<1>4. /\ Cardinality(Past) \in Nat /\ Cardinality(Past') <= Cardinality(Requests)
      /\ Cardinality(Requests) \in Nat
  BY <1>2, FiniteRequests, FS_CardinalityType
<1> QED
  BY <1>1, <1>3, <1>4 DEF CodesAreFresh, Codes

LEMMA TypeStep == TypeOK /\ CodesAreFresh /\ (\A r \in Requests : KnowsCode(r)) /\ [Next]_vars
                    => TypeOK' /\ CodesAreFresh'
<1> SUFFICES ASSUME TypeOK, CodesAreFresh, \A r \in Requests : KnowsCode(r), [Next]_vars
             PROVE  TypeOK' /\ CodesAreFresh'
  OBVIOUS
<1> USE DEF TypeOK
<1>1. ASSUME NEW r \in Requests, Step(r)
      PROVE  TypeOK' /\ CodesAreFresh'
  <2>1. CASE StageRegistration(r) \/ SendOTPCode(r) \/ IssueSession(r) \/ FindUser(r) \/ IssueOTP(r)
    <3>1. PICK s \in {"error", "issue", "ok", "void", "accept", "upsert"} :
            /\ Goto(r, s)
            /\ s \in {"start", "issue", "upsert"} => r \notin Past
      BY <2>1 DEF StageRegistration, SendOTPCode, IssueSession, FindUser, IssueOTP, Past, Reads
    <3>2. UNCHANGED <<body, code, row, account, issued, mailbox, tried, held, faults>>
      BY <2>1 DEF StageRegistration, SendOTPCode, IssueSession, FindUser, IssueOTP
    <3>3. seen' \in [Requests -> Rows \cup {NoRow}]
      BY <2>1 DEF StageRegistration, SendOTPCode, IssueSession, FindUser, IssueOTP, Reads
    <3>4. TypeOK'
      BY <3>1, <3>2, <3>3 DEF Goto, Steps
    <3>5. CodesAreFresh'
      BY <3>1, <3>2, FreshKept DEF Steps, CodesAreFresh
    <3> QED
      BY <3>4, <3>5
  <2>2. CASE Upsert(r)
    <3>1. issued' = issued + 1 /\ issued' \in Codes /\ issued' <= Cardinality(Past')
      BY <2>2, UpsertCode
    <3>2. issued' \in Nat /\ Goto(r, "mail")
      BY <2>2, <3>1 DEF Upsert, CodesAreFresh
    <3>3. row' = NewRow(r, issued')
      BY <2>2 DEF Upsert
    <3>4. row' \in Rows /\ row'.code = issued'
      BY <3>1, <3>3 DEF NewRow, Rows, Staged, Ages
    <3>5. /\ code' = [code EXCEPT ![r] = issued'] /\ Goto(r, "mail")
          /\ UNCHANGED <<body, seen, account, mailbox, tried, faults>>
      BY <2>2 DEF Upsert
    <3>6. mailbox' \subseteq 1 .. issued'
      BY <3>1, <3>5 DEF CodesAreFresh
    <3>7. TypeOK'
      BY <3>1, <3>2, <3>4, <3>5, <3>6 DEF Goto, Steps
    <3>8. \A q \in Requests : pc'[q] = "mail" => code'[q] \in 1 .. issued'
      BY <3>1, <3>5 DEF CodesAreFresh, Goto
    <3>9. \A c \in Codes : c > issued' => tried'[c] = 0
      BY <3>1, <3>5 DEF CodesAreFresh, Codes
    <3> QED
      BY <3>1, <3>2, <3>4, <3>7, <3>8, <3>9 DEF CodesAreFresh
  <2>3. CASE SendOTP(r)
    <3>1. TypeOK'
      BY <2>3 DEF SendOTP, Goto, Steps, CodesAreFresh
    <3>2. CodesAreFresh'
      BY <2>3, FreshKept DEF SendOTP, Steps, CodesAreFresh
    <3> QED
      BY <3>1, <3>2
  <2>4. CASE SubmitCode(r)
    <3>1. PICK c \in mailbox \cup {Wrong} : code' = [code EXCEPT ![r] = c]
      BY <2>4 DEF SubmitCode
    <3>2. c \in Codes \cup {Wrong}
      BY FS_CardinalityType DEF CodesAreFresh, Codes
    <3>3. /\ Goto(r, "check")
          /\ UNCHANGED <<body, seen, row, account, issued, mailbox, tried, held, faults>>
      BY <2>4 DEF SubmitCode
    <3>4. TypeOK'
      BY <3>1, <3>2, <3>3 DEF Goto, Steps
    <3>5. Past \subseteq Past' /\ Past' \in SUBSET Requests
      BY <3>3, PastMoves DEF Steps
    <3>6. Cardinality(Past) <= Cardinality(Past')
      BY <3>5, Growing
    <3>7. Cardinality(Past) \in Nat /\ Cardinality(Past') \in Nat
      BY <3>5, FiniteRequests
    <3>8. \A q \in Requests : pc'[q] = "mail" => code'[q] \in 1 .. issued'
      BY <3>1, <3>3 DEF CodesAreFresh, Goto
    <3> QED
      BY <3>3, <3>4, <3>6, <3>7, <3>8 DEF CodesAreFresh
  <2>5. CASE CompleteRegistration(r)
    <3>1. PICK a \in {"create", "recheck"} : Validate(r, a)
      BY <2>5 DEF CompleteRegistration
    <3> QED
      BY <2>5, <3>1, ValidateType DEF CompleteRegistration
  <2>6. CASE VerifyOTPCode(r)
    BY <2>6, ValidateType DEF VerifyOTPCode
  <2>7. CASE CreateUser(r)
    <3>1. PICK s \in {"error", "session"} : Goto(r, s)
      BY <2>7 DEF CreateUser
    <3>2. /\ UNCHANGED <<body, code, seen, issued, mailbox, tried, held, faults>>
          /\ row' \in {NoRow, row}
      BY <2>7 DEF CreateUser, Clear
    <3>3. account' \in Accounts \cup {NoUser}
      <4>1. seen[r] \in Rows /\ code[r] \in Codes \cup {Wrong}
        BY <2>7 DEF CreateUser, KnowsCode
      <4>2. Payload(r) \in Requests \cup {None}
        BY <4>1 DEF Payload, Rows
      <4>3. [payload |-> Payload(r), verified |-> TRUE, proof |-> code[r]] \in Accounts
        BY <4>1, <4>2, IsAccount
      <4> QED
        BY <2>7, <4>3 DEF CreateUser
    <3>4. TypeOK'
      BY <3>1, <3>2, <3>3 DEF Goto, Steps
    <3>5. CodesAreFresh'
      BY <3>1, <3>2, FreshKept DEF Steps, CodesAreFresh
    <3> QED
      BY <3>4, <3>5
  <2>8. CASE MarkEmailVerified(r)
    <3>1. /\ Goto(r, "ok")
          /\ UNCHANGED <<body, code, seen, row, issued, mailbox, tried, held, faults>>
      BY <2>8 DEF MarkEmailVerified
    <3>2. account \in Accounts
      BY <2>8 DEF MarkEmailVerified, KnowsCode
    <3>3. account' \in Accounts
      BY <2>8, <3>2 DEF MarkEmailVerified, Accounts
    <3>4. TypeOK'
      BY <3>1, <3>3 DEF Goto, Steps
    <3>5. CodesAreFresh'
      BY <3>1, FreshKept DEF Steps, CodesAreFresh
    <3> QED
      BY <3>4, <3>5
  <2>9. CASE ClearAccepted(r) \/ ClearVoid(r) \/ IncrementAttempts(r)
    <3>1. PICK s \in {"mark", "error"} : Goto(r, s)
      BY <2>9 DEF ClearAccepted, ClearVoid, IncrementAttempts
    <3>2. UNCHANGED <<body, code, seen, account, issued, mailbox, tried, held, faults>>
      BY <2>9 DEF ClearAccepted, ClearVoid, IncrementAttempts
    <3>3. /\ row' \in Rows \cup {NoRow}
          /\ row' = NoRow \/ (row # NoRow /\ row'.code = row.code) \/ row' = row
      BY <2>9 DEF ClearAccepted, ClearVoid, IncrementAttempts, Clear, Counted, Rows
    <3>4. TypeOK'
      BY <3>1, <3>2, <3>3 DEF Goto, Steps
    <3>5. CodesAreFresh'
      BY <3>1, <3>2, <3>3, FreshKept DEF Steps, CodesAreFresh
    <3> QED
      BY <3>4, <3>5
  <2> QED
    BY <1>1, <2>1, <2>2, <2>3, <2>4, <2>5, <2>6, <2>7, <2>8, <2>9 DEF Step
<1>2. ASSUME NEW r \in Requests, StatementFails(r) \/ MailFails(r)
      PROVE  TypeOK' /\ CodesAreFresh'
  <2>1. PICK s \in {"void", "mark", "error"} : Goto(r, s)
    BY <1>2 DEF StatementFails, MailFails
  <2>2. /\ UNCHANGED <<body, code, seen, row, account, issued, tried, held>>
        /\ faults' = faults + 1
    BY <1>2 DEF StatementFails, MailFails, Fault
  <2>3. mailbox' \subseteq 1 .. issued'
    BY <1>2 DEF StatementFails, MailFails, CodesAreFresh
  <2>4. TypeOK'
    BY <2>1, <2>2, <2>3 DEF Goto, Steps
  <2>5. CodesAreFresh'
    BY <2>1, <2>2, FreshKept DEF Steps, CodesAreFresh
  <2> QED
    BY <2>4, <2>5
<1>3. CASE Age
  <2>1. row' \in Rows /\ row'.code = row.code /\ row # NoRow
    BY <1>3 DEF Age, Rows, Ages
  <2>2. UNCHANGED <<body, pc, code, seen, account, issued, mailbox, tried, held, faults>>
    BY <1>3 DEF Age
  <2>3. Past' = Past
    BY <2>2 DEF Past
  <2> QED
    BY <2>1, <2>2, <2>3 DEF CodesAreFresh
<1>4. CASE UNCHANGED vars
  BY <1>4 DEF vars, CodesAreFresh, Past
<1> QED
  BY <1>1, <1>2, <1>3, <1>4 DEF Next

LEMMA InitType == Init => TypeOK /\ CodesAreFresh
<1> SUFFICES ASSUME Init
             PROVE  TypeOK /\ CodesAreFresh
  OBVIOUS
<1>1. Past = {} /\ Cardinality({}) = 0
  BY FS_EmptySet DEF Init, Past
<1>2. account \in Accounts \cup {NoUser}
  <2>1. [payload |-> None, verified |-> FALSE, proof |-> Wrong] \in Accounts
    BY IsAccount, Zenon
  <2> QED
    BY <2>1 DEF Init
<1>3. TypeOK
  BY <1>2 DEF Init, TypeOK, Steps
<1>4. CodesAreFresh
  BY <1>1 DEF Init, CodesAreFresh
<1> QED
  BY <1>3, <1>4

-----------------------------------------------------------------------------
(* The proof an account rests on.                                          *)

\* What one request knows is not disturbed by the step of another: mailbox and
\* held only grow, and an account stays.
LEMMA KnowsKept ==
    ASSUME TypeOK, NEW r \in Requests, KnowsCode(r),
           pc'[r] = pc[r], code'[r] = code[r], seen'[r] = seen[r],
           mailbox \subseteq mailbox', held \subseteq held',
           account \in Accounts => account' \in Accounts
    PROVE  KnowsCode(r)'
BY DEF KnowsCode

\* Past the comparison a request has a code that was mailed, and the payload
\* that stood on the row with it.
LEMMA ValidateKnows ==
    ASSUME TypeOK, CodesAreFresh, RowIsHeld, NEW r \in Requests, KnowsCode(r),
           NEW a \in {"create", "recheck", "user"},
           pc[r] \in {"check", "recheck"}, Validate(r, a),
           UNCHANGED <<body, code, row, account, issued, mailbox, held, faults>>
    PROVE  KnowsCode(r)'
<1>1. CASE row = NoRow
  BY <1>1 DEF Validate, Goto, TypeOK, KnowsCode, Submitting
<1>2. CASE row # NoRow /\ (Void \/ ~Right(code[r]))
  <2>1. pc'[r] \in {"void", "count"} /\ seen'[r] = row
    BY <1>2 DEF Validate, Reads, Goto, TypeOK
  <2> QED
    BY <1>2, <2>1 DEF KnowsCode, Submitting, TypeOK
<1>3. CASE row # NoRow /\ ~Void /\ Right(code[r])
  <2>1. pc'[r] = a /\ seen'[r] = row /\ row \in Rows
    BY <1>3 DEF Validate, Reads, Goto, TypeOK
  <2>2. code[r] = row.code /\ row.code # Wrong
    BY <1>3, <2>1 DEF Right, Rows, Codes, Wrong
  <2>3. code[r] \in mailbox
    BY <2>2 DEF KnowsCode, Submitting
  <2> QED
    BY <1>3, <2>1, <2>2, <2>3 DEF KnowsCode, Submitting, RowIsHeld
<1> QED
  BY <1>1, <1>2, <1>3

LEMMA ProofStep == TypeOK /\ CodesAreFresh /\ ProofInv /\ [Next]_vars => ProofInv'
<1> SUFFICES ASSUME TypeOK, CodesAreFresh, ProofInv, [Next]_vars
             PROVE  ProofInv'
  OBVIOUS
<1> USE DEF ProofInv
<1>1. ASSUME NEW r \in Requests, Step(r)
      PROVE  ProofInv'
  <2>0. ASSUME NEW q \in Requests, q # r
        PROVE  pc'[q] = pc[q] /\ code'[q] = code[q] /\ seen'[q] = seen[q]
    BY <1>1, <2>0 DEF Step, StageRegistration, SendOTPCode, IssueOTP, Upsert, SendOTP, SubmitCode,
         CompleteRegistration, CreateUser, IssueSession, VerifyOTPCode, FindUser, ClearAccepted,
         MarkEmailVerified, ClearVoid, IncrementAttempts, Validate, Reads, Goto, TypeOK
  <2>1. CASE StageRegistration(r) \/ SendOTPCode(r) \/ IssueSession(r) \/ FindUser(r) \/ IssueOTP(r)
    <3>1. UNCHANGED <<code, row, account, mailbox, held>>
      BY <2>1 DEF StageRegistration, SendOTPCode, IssueSession, FindUser, IssueOTP
    <3>2. KnowsCode(r)'
      BY <2>1, <3>1 DEF StageRegistration, SendOTPCode, IssueSession, FindUser, IssueOTP, Reads, Goto,
                        KnowsCode, TypeOK, Submitting
    <3>3. \A q \in Requests : KnowsCode(q)'
      BY <2>0, <3>1, <3>2, KnowsKept
    <3> QED
      BY <3>1, <3>3 DEF RowIsHeld, NewIsVerified, AccountIsProven
  <2>2. CASE Upsert(r)
    <3>1. /\ UNCHANGED <<account, mailbox>> /\ held \subseteq held'
          /\ held' = held \cup {<<row'.code, row'.staged>>}
          /\ pc'[r] = "mail"
      BY <2>2 DEF Upsert, Goto, TypeOK
    <3>2. KnowsCode(r)'
      BY <3>1 DEF KnowsCode, Submitting
    <3>3. \A q \in Requests : KnowsCode(q)'
      BY <2>0, <3>1, <3>2, KnowsKept
    <3> QED
      BY <3>1, <3>3 DEF RowIsHeld, NewIsVerified, AccountIsProven
  <2>3. CASE SendOTP(r)
    <3>1. /\ UNCHANGED <<code, row, account, held>> /\ mailbox \subseteq mailbox'
          /\ pc'[r] = "ok"
      BY <2>3 DEF SendOTP, Goto, TypeOK
    <3>2. KnowsCode(r)'
      BY <3>1 DEF KnowsCode, Submitting
    <3>3. \A q \in Requests : KnowsCode(q)'
      BY <2>0, <3>1, <3>2, KnowsKept
    <3> QED
      BY <3>1, <3>3 DEF RowIsHeld, NewIsVerified, AccountIsProven
  <2>4. CASE SubmitCode(r)
    <3>1. /\ UNCHANGED <<row, account, mailbox, held>>
          /\ pc'[r] = "check" /\ code'[r] \in mailbox \cup {Wrong}
      BY <2>4 DEF SubmitCode, Goto, TypeOK
    <3>2. KnowsCode(r)'
      BY <3>1 DEF KnowsCode
    <3>3. \A q \in Requests : KnowsCode(q)'
      BY <2>0, <3>1, <3>2, KnowsKept
    <3> QED
      BY <3>1, <3>3 DEF RowIsHeld, NewIsVerified, AccountIsProven
  <2>5. CASE CompleteRegistration(r) \/ VerifyOTPCode(r)
    <3>1. /\ UNCHANGED <<body, code, row, account, issued, mailbox, held, faults>>
          /\ pc[r] \in {"check", "recheck"}
          /\ \E a \in {"create", "recheck", "user"} : Validate(r, a)
      BY <2>5 DEF CompleteRegistration, VerifyOTPCode
    <3>2. KnowsCode(r)'
      BY <3>1, ValidateKnows
    <3>3. \A q \in Requests : KnowsCode(q)'
      BY <2>0, <3>1, <3>2, KnowsKept
    <3> QED
      BY <3>1, <3>3 DEF RowIsHeld, NewIsVerified, AccountIsProven
  <2>6. CASE CreateUser(r)
    <3>1. /\ UNCHANGED <<code, mailbox, held>> /\ row' \in {row, NoRow}
          /\ pc'[r] \in {"error", "session"}
          /\ code[r] \in mailbox /\ seen[r] \in Rows /\ <<code[r], seen[r].staged>> \in held
      BY <2>6 DEF CreateUser, Clear, Goto, TypeOK, KnowsCode
    <3>2. \/ account' = account
          \/ /\ account = NoUser
             /\ account' = [payload |-> seen[r].staged, verified |-> TRUE, proof |-> code[r]]
      BY <2>6 DEF CreateUser, Payload
    <3>3. account' \in Accounts \/ account' = account
      <4>1. seen[r].staged \in Requests \cup {None} /\ code[r] \in Codes \cup {Wrong}
        BY <3>1 DEF Rows, TypeOK
      <4>2. [payload |-> seen[r].staged, verified |-> TRUE, proof |-> code[r]] \in Accounts
        BY <4>1, IsAccount
      <4> QED
        BY <3>2, <4>2
    <3>4. KnowsCode(r)'
      BY <3>1 DEF KnowsCode, Submitting
    <3>5. \A q \in Requests : KnowsCode(q)'
      BY <2>0, <3>1, <3>3, <3>4, KnowsKept
    <3>6. RowIsHeld'
      BY <3>1 DEF RowIsHeld
    <3>7. NewIsVerified' /\ AccountIsProven'
      BY <3>1, <3>2 DEF NewIsVerified, AccountIsProven
    <3> QED
      BY <3>5, <3>6, <3>7
  <2>7. CASE MarkEmailVerified(r)
    <3>1. /\ UNCHANGED <<code, row, mailbox, held>>
          /\ pc'[r] = "ok" /\ code[r] \in mailbox /\ account \in Accounts
      BY <2>7 DEF MarkEmailVerified, Goto, TypeOK, KnowsCode
    <3>2. /\ account' \in Accounts /\ account'.payload = account.payload
          /\ account'.verified = TRUE
          /\ account'.proof = IF account.verified THEN account.proof ELSE code[r]
      BY <2>7, <3>1 DEF MarkEmailVerified, Accounts, TypeOK
    <3>3. KnowsCode(r)'
      BY <3>1 DEF KnowsCode, Submitting
    <3>4. \A q \in Requests : KnowsCode(q)'
      BY <2>0, <3>1, <3>2, <3>3, KnowsKept
    <3>5. NewIsVerified' /\ AccountIsProven'
      <4>1. account # NoUser
        BY <3>1, NoUserAssumption
      <4>2. account.payload # None => account.verified
        BY <4>1 DEF NewIsVerified
      <4>3. account'.proof \in mailbox'
        BY <3>1, <3>2, <4>1 DEF AccountIsProven
      <4>4. account.payload # None => <<account'.proof, account'.payload>> \in held
        BY <3>2, <4>1, <4>2 DEF AccountIsProven
      <4> QED
        BY <3>1, <3>2, <4>3, <4>4 DEF NewIsVerified, AccountIsProven
    <3> QED
      BY <3>1, <3>4, <3>5 DEF RowIsHeld
  <2>8. CASE ClearAccepted(r) \/ ClearVoid(r) \/ IncrementAttempts(r)
    <3>1. /\ UNCHANGED <<code, account, mailbox, held>>
          /\ \/ pc[r] = "accept" /\ pc'[r] = "mark"
             \/ pc'[r] = "error"
      BY <2>8 DEF ClearAccepted, ClearVoid, IncrementAttempts, Goto, TypeOK
    <3>2. row' = NoRow \/ (row # NoRow /\ row'.code = row.code /\ row'.staged = row.staged)
      BY <2>8 DEF ClearAccepted, ClearVoid, IncrementAttempts, Clear, TypeOK, Rows
    <3>3. KnowsCode(r)'
      BY <3>1 DEF KnowsCode, Submitting
    <3>4. \A q \in Requests : KnowsCode(q)'
      BY <2>0, <3>1, <3>3, KnowsKept
    <3> QED
      BY <3>1, <3>2, <3>4 DEF RowIsHeld, NewIsVerified, AccountIsProven
  <2> QED
    BY <1>1, <2>1, <2>2, <2>3, <2>4, <2>5, <2>6, <2>7, <2>8 DEF Step
<1>2. ASSUME NEW r \in Requests, StatementFails(r) \/ MailFails(r)
      PROVE  ProofInv'
  <2>1. /\ UNCHANGED <<code, seen, row, account, held>> /\ mailbox \subseteq mailbox'
        /\ \/ pc[r] = "accept" /\ pc'[r] = "mark"
           \/ pc[r] = "user" /\ pc'[r] = "void"
           \/ pc'[r] = "error"
        /\ \A q \in Requests : q # r => pc'[q] = pc[q]
    BY <1>2 DEF StatementFails, MailFails, Goto, TypeOK
  <2>2. KnowsCode(r)'
    BY <2>1 DEF KnowsCode, Submitting
  <2>3. \A q \in Requests : KnowsCode(q)'
    BY <2>1, <2>2, KnowsKept
  <2> QED
    BY <2>1, <2>3 DEF RowIsHeld, NewIsVerified, AccountIsProven
<1>3. CASE Age
  <2>1. /\ UNCHANGED <<pc, code, seen, account, mailbox, held>>
        /\ row # NoRow /\ row'.code = row.code /\ row'.staged = row.staged
    BY <1>3 DEF Age, TypeOK, Rows
  <2>2. \A q \in Requests : KnowsCode(q)'
    BY <2>1, KnowsKept
  <2> QED
    BY <2>1, <2>2 DEF RowIsHeld, NewIsVerified, AccountIsProven
<1>4. CASE UNCHANGED vars
  BY <1>4 DEF vars, KnowsCode, RowIsHeld, NewIsVerified, AccountIsProven
<1> QED
  BY <1>1, <1>2, <1>3, <1>4 DEF Next

LEMMA Invariance == Spec => [](TypeOK /\ CodesAreFresh /\ ProofInv)
<1>1. Init => TypeOK /\ CodesAreFresh /\ ProofInv
  <2>1. Init => ProofInv
    BY DEF Init, ProofInv, KnowsCode, Submitting, RowIsHeld, NewIsVerified, AccountIsProven
  <2> QED
    BY <2>1, InitType
<1>2. TypeOK /\ CodesAreFresh /\ ProofInv /\ [Next]_vars => (TypeOK /\ CodesAreFresh /\ ProofInv)'
  BY TypeStep, ProofStep DEF ProofInv
<1> QED
  BY <1>1, <1>2, PTL DEF Spec

\* Every statement keeps the rows, the codes and the counters typed; no
\* interleaving mails a code that was not made, and codes are never reused.
THEOREM TypeCorrect == Spec => []TypeOK
BY Invariance, PTL

\* An account's address is verified only by a code that reached the mailbox,
\* and a new account has the payload that stood on the row with that code, for
\* any number of signups, resends and submissions in any order.
THEOREM AccountsAreProven == Spec => []AccountIsProven
<1>1. ProofInv => AccountIsProven
  BY DEF ProofInv
<1> QED
  BY <1>1, Invariance, PTL

-----------------------------------------------------------------------------
(* Wrong codes are counted.                                                *)

LEMMA CountStep ==
    TypeOK /\ CodesAreFresh /\ GuessesCounted /\ [Next]_vars => GuessesCounted'
<1> SUFFICES ASSUME TypeOK, CodesAreFresh, GuessesCounted, [Next]_vars
             PROVE  GuessesCounted'
  OBVIOUS
<1> DEFINE n == Cardinality(Counting)
<1>1. /\ Counting \in SUBSET Requests /\ Counting' \in SUBSET Requests
      /\ n \in Nat /\ n' \in Nat
  <2>1. Counting \in SUBSET Requests /\ Counting' \in SUBSET Requests
    BY DEF Counting
  <2> QED
    BY <2>1, FiniteRequests
<1>2. row # NoRow => /\ row \in Rows /\ row.code \in Codes /\ row.attempts \in Nat
                     /\ tried[row.code] \in Nat
                     /\ tried[row.code] <= row.attempts + faults + n
  BY DEF TypeOK, Rows, GuessesCounted, Counting
\* A request that is not counting goes anywhere but to "count".
<1>3. ASSUME NEW r \in Requests, NEW s \in Steps, Goto(r, s), s # "count", pc[r] # "count"
      PROVE  n' = n
  <2>1. Counting' = Counting
    BY <1>3, CountingMoves DEF Counting
  <2> QED
    BY <2>1
<1>4. ASSUME NEW r \in Requests, NEW s \in Steps, Goto(r, s), s # "count", pc[r] = "count"
      PROVE  n' = n - 1
  <2>1. Counting' = Counting \ {r} /\ r \in Counting
    BY <1>4, CountingMoves DEF Counting
  <2> QED
    BY <1>1, <2>1, Removing
<1>5. ASSUME NEW r \in Requests, Goto(r, "count"), pc[r] # "count"
      PROVE  n' = n + 1
  <2>1. Counting' = Counting \cup {r} /\ r \notin Counting
    BY <1>5, CountingMoves DEF Counting, Steps
  <2> QED
    BY <1>1, <2>1, Adding
\* A row that is gone, or as it was but for its age, keeps its count.
<1>6. ASSUME n' = n, UNCHANGED <<tried, faults>>,
             row' = NoRow \/ (row # NoRow /\ row'.code = row.code /\ row'.attempts = row.attempts)
      PROVE  GuessesCounted'
  BY <1>2, <1>6 DEF GuessesCounted, Counting
<1> HIDE DEF n
<1>7. ASSUME NEW r \in Requests, Step(r)
      PROVE  GuessesCounted'
  <2>1. CASE \/ StageRegistration(r) \/ SendOTPCode(r) \/ IssueSession(r) \/ FindUser(r)
             \/ IssueOTP(r) \/ SendOTP(r) \/ SubmitCode(r) \/ CreateUser(r)
             \/ ClearAccepted(r) \/ MarkEmailVerified(r) \/ ClearVoid(r)
    <3>1. PICK s \in Steps \ {"count"} : Goto(r, s)
      BY <2>1 DEF StageRegistration, SendOTPCode, IssueSession, FindUser, IssueOTP, SendOTP,
           SubmitCode, CreateUser, ClearAccepted, MarkEmailVerified, ClearVoid, Reads, Steps
    <3>2. pc[r] # "count" /\ UNCHANGED <<tried, faults>> /\ row' \in {row, NoRow}
      BY <2>1 DEF StageRegistration, SendOTPCode, IssueSession, FindUser, IssueOTP, SendOTP,
           SubmitCode, CreateUser, ClearAccepted, MarkEmailVerified, ClearVoid, Clear
    <3> QED
      BY <1>3, <1>6, <3>1, <3>2
  <2>2. CASE Upsert(r)
    <3>1. issued' = issued + 1 /\ row'.code = issued' /\ row'.attempts = 0
      BY <2>2 DEF Upsert, NewRow
    <3>2. row'.code \in Codes
      BY <2>2, <3>1, UpsertCode
    <3>3. tried'[row'.code] = 0
      BY <2>2, <3>1, <3>2 DEF Upsert, CodesAreFresh
    <3> QED
      BY <1>1, <2>2, <3>1, <3>3 DEF Upsert, GuessesCounted, Counting, TypeOK, n
  <2>3. CASE CompleteRegistration(r) \/ VerifyOTPCode(r)
    <3>1. /\ pc[r] # "count" /\ UNCHANGED <<row, faults>>
          /\ \E a \in {"create", "recheck", "user"} : Validate(r, a)
      BY <2>3 DEF CompleteRegistration, VerifyOTPCode
    <3>2. CASE row # NoRow /\ ~Void /\ ~Right(code[r])
      <4>1. Goto(r, "count") /\ tried' = [tried EXCEPT ![row.code] = @ + 1]
        BY <3>1, <3>2 DEF Validate, Reads
      <4>2. n' = n + 1
        BY <1>5, <3>1, <4>1
      <4>3. tried'[row.code] = tried[row.code] + 1
        BY <1>2, <3>2, <4>1 DEF TypeOK
      <4> QED
        BY <1>1, <1>2, <3>1, <3>2, <4>2, <4>3 DEF GuessesCounted, TypeOK, n, Counting
    <3>3. CASE ~(row # NoRow /\ ~Void /\ ~Right(code[r]))
      <4>1. UNCHANGED tried /\ \E s \in Steps \ {"count"} : Goto(r, s)
        BY <3>1, <3>3 DEF Validate, Reads, Steps
      <4> QED
        BY <1>3, <1>6, <3>1, <4>1
    <3> QED
      BY <3>2, <3>3
  <2>4. CASE IncrementAttempts(r)
    <3>1. n' = n - 1
      BY <1>4, <2>4 DEF IncrementAttempts, Steps
    <3>2. UNCHANGED <<tried, faults>>
      BY <2>4 DEF IncrementAttempts
    <3>3. row' = NoRow \/ (row # NoRow /\ row'.code = row.code /\ row'.attempts = row.attempts + 1)
      BY <1>2, <2>4 DEF IncrementAttempts, Counted, Rows
    <3> QED
      BY <1>1, <1>2, <3>1, <3>2, <3>3 DEF GuessesCounted, TypeOK, n, Counting
  <2> QED
    BY <1>7, <2>1, <2>2, <2>3, <2>4 DEF Step
<1>8. ASSUME NEW r \in Requests, StatementFails(r) \/ MailFails(r)
      PROVE  GuessesCounted'
  <2>1. PICK s \in Steps \ {"count"} : Goto(r, s)
    BY <1>8 DEF StatementFails, MailFails, Steps
  <2>2. UNCHANGED <<row, tried>> /\ faults' = faults + 1
    BY <1>8 DEF StatementFails, MailFails, Fault
  <2>3. n' = n \/ n' = n - 1
    BY <1>3, <1>4, <2>1
  <2> QED
    BY <1>1, <1>2, <2>2, <2>3 DEF GuessesCounted, TypeOK, n, Counting
<1>9. CASE Age
  <2>1. /\ row # NoRow /\ row'.code = row.code /\ row'.attempts = row.attempts
        /\ UNCHANGED <<pc, tried, faults>>
    BY <1>2, <1>9 DEF Age, Rows
  <2>2. n' = n
    BY <2>1 DEF n, Counting
  <2> QED
    BY <1>6, <2>1, <2>2
<1>10. CASE UNCHANGED vars
  BY <1>10 DEF vars, GuessesCounted
<1> QED
  BY <1>7, <1>8, <1>9, <1>10 DEF Next

\* However reading the row, comparing and counting interleave, a code has been
\* compared with no more wrong codes than its row counts, but for the counts
\* under way and the statements that failed; for any number of requests.
THEOREM WrongCodesAreCounted == Spec => []GuessesCounted
<1>1. Init => GuessesCounted
  BY DEF Init, GuessesCounted
<1> QED
  BY <1>1, CountStep, Invariance, PTL DEF Spec
=============================================================================
