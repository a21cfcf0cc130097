-------------------------- MODULE VaultCloneProofs --------------------------
(***************************************************************************)
(* Proofs about VaultClone for any wallets, salts, signatures and bounds.  *)
(***************************************************************************)
EXTENDS VaultClone, FiniteSetTheorems, WellFoundedInduction, TLAPS

USE CloneAssumption

\* Every call keeps the types.
LEMMA TypeStep == TypeOK /\ [Next]_vars => TypeOK'
<1> SUFFICES ASSUME TypeOK, [Next]_vars
             PROVE  TypeOK'
  OBVIOUS
<1> USE DEF TypeOK, recoveryVars, custodyVars
<1>1. CASE FactoryCall
  BY <1>1 DEF FactoryCall, CreateClone, SetDirectWithdrawDisabled, SetRecoveryDelay
<1>2. CASE MoneyCall
  <2>1. ASSUME NEW n \in Amounts, Deposit(n) \/ PlainTransfer(n)
        PROVE  TypeOK'
    BY <2>1 DEF Deposit, PlainTransfer, Receive, Amounts
  <2>2. ASSUME NEW u \in Addr, NEW s \in Salts, NEW n \in Amounts, DepositFor(u, s, n)
        PROVE  TypeOK'
    <3>1. private' \in [Commitments -> Nat]
      BY <2>2 DEF DepositFor, Amounts, Commitments
    <3> QED
      BY <2>2, <3>1 DEF DepositFor, Receive, Amounts
  <2>3. ASSUME NEW u \in Addr, NEW n \in Amounts, NEW d \in Destinations, Withdraw(u, n, d)
        PROVE  TypeOK'
    BY <2>3 DEF Withdraw, TransferOut, Amounts
  <2>4. ASSUME NEW u \in Addr, NEW s \in Salts, NEW n \in Amounts, NEW d \in Destinations,
               WithdrawWithSalt(u, s, n, d)
        PROVE  TypeOK'
    <3>1. private' \in [Commitments -> Nat]
      BY <2>4 DEF WithdrawWithSalt, Amounts, Commitments
    <3> QED
      BY <2>4, <3>1 DEF WithdrawWithSalt, TransferOut, Amounts
  <2> QED
    BY <1>2, <2>1, <2>2, <2>3, <2>4 DEF MoneyCall
<1>3. CASE RelayedCall
  <2> PICK i \in signed :
        WithdrawWithSig(i) \/ TransferOwnershipBySig(i) \/ SetRecoveryAddressBySig(i)
    BY <1>3 DEF RelayedCall
  <2>1. i \in Intents
    OBVIOUS
  <2>2. /\ i.to \in Addr \cup {Self, Zero}
        /\ i.nonce \in Nat
        /\ i.amount \in Nat
    BY <2>1 DEF Intents
  <2>3. CASE WithdrawWithSig(i)
    BY <2>2, <2>3 DEF WithdrawWithSig, ConsumeNonce, TransferOut
  <2>4. CASE TransferOwnershipBySig(i)
    BY <2>2, <2>4 DEF TransferOwnershipBySig, ConsumeNonce
  <2>5. CASE SetRecoveryAddressBySig(i)
    BY <2>2, <2>5 DEF SetRecoveryAddressBySig, ConsumeNonce, SetRecovery
  <2> QED
    BY <2>3, <2>4, <2>5
<1>4. CASE RecoveryCall
  BY <1>4 DEF RecoveryCall, BeginRecovery, CancelRecovery, SetRecoveryAddress,
              SetRecovery, ExecuteRecovery, Destinations
<1>5. CASE Tick
  BY <1>5 DEF Tick
<1>6. ASSUME NEW i \in Signable, Sign(i)
      PROVE  TypeOK'
  BY <1>6 DEF Sign
<1>7. CASE UNCHANGED vars
  BY <1>7 DEF vars
<1> QED
  BY <1>1, <1>2, <1>3, <1>4, <1>5, <1>6, <1>7 DEF Next

LEMMA InitType == Init => TypeOK
<1> SUFFICES ASSUME Init
             PROVE  TypeOK
  OBVIOUS
<1>1. private \in [Commitments -> Nat]
  BY DEF Init
<1>2. privacy \in BOOLEAN /\ directDisabled \in BOOLEAN
  BY Zenon DEF Init
<1>3. nonce \in Nat /\ delay \in Nat /\ requestedAt \in Nat /\ token \in Nat /\ now \in Nat
  BY DEF Init
<1>4. signed \subseteq Signable /\ executed \subseteq signed
  BY DEF Init
<1>5. /\ owner \in Addr \cup {Zero, Self}
      /\ recovery \in Addr \cup {Zero, Self}
  BY DEF Init
<1> QED
  BY <1>1, <1>2, <1>3, <1>4, <1>5 DEF TypeOK

\* Every storage slot keeps its type under any sequence of calls; in
\* particular no withdrawal takes a private balance or the token balance
\* below zero.
THEOREM TypeCorrect == Spec => []TypeOK
<1>1. Init => TypeOK
  BY InitType
<1> QED
  BY <1>1, TypeStep, PTL DEF Spec

-----------------------------------------------------------------------------
(* Signatures.                                                             *)

LEMMA NonceStep == TypeOK /\ NoncesNeverReused /\ [Next]_vars => NoncesNeverReused'
<1> SUFFICES ASSUME TypeOK, NoncesNeverReused, [Next]_vars
             PROVE  NoncesNeverReused'
  OBVIOUS
<1>1. CASE RelayedCall
  <2> PICK i \in signed :
        WithdrawWithSig(i) \/ TransferOwnershipBySig(i) \/ SetRecoveryAddressBySig(i)
    BY <1>1 DEF RelayedCall
  <2>1. i.nonce = nonce /\ nonce' = nonce + 1 /\ executed' = executed \cup {i}
    BY DEF WithdrawWithSig, TransferOwnershipBySig, SetRecoveryAddressBySig,
           Authorized, ConsumeNonce
  <2>2. \A j \in executed : j.nonce \in Nat
    BY DEF TypeOK, Intents
  <2> QED
    BY <2>1, <2>2 DEF NoncesNeverReused, TypeOK
<1>2. CASE ~RelayedCall
  <2>1. UNCHANGED <<nonce, executed>>
    BY <1>2 DEF Next, FactoryCall, MoneyCall, RecoveryCall, CreateClone,
         SetDirectWithdrawDisabled, SetRecoveryDelay, Deposit, PlainTransfer, DepositFor,
         Withdraw, WithdrawWithSalt, BeginRecovery, CancelRecovery, SetRecoveryAddress,
         ExecuteRecovery, Tick, Sign, vars
  <2> QED
    BY <2>1 DEF NoncesNeverReused
<1> QED
  BY <1>1, <1>2

\* No two signed operations that took effect share a nonce, for any number
\* of wallets and signatures in circulation.
THEOREM SignedOperationsNeverShareANonce == Spec => []NoncesNeverReused
<1>1. Init => NoncesNeverReused
  BY DEF Init, NoncesNeverReused
<1> QED
  BY <1>1, NonceStep, TypeCorrect, PTL DEF Spec

\* A signature takes effect at most once and only under the owner who made it.
THEOREM SignaturesAreSpentOnce == Spec => EachSignatureOnce
<1>1. TypeOK /\ NoncesNeverReused /\ [Next]_vars
        => [nonce' # nonce =>
              \E i \in signed \ executed : executed' = executed \cup {i} /\ i.signer = owner]_vars
  <2> SUFFICES ASSUME TypeOK, NoncesNeverReused, [Next]_vars, nonce' # nonce
               PROVE  \E i \in signed \ executed :
                        executed' = executed \cup {i} /\ i.signer = owner
    OBVIOUS
  <2>1. RelayedCall
    BY DEF Next, FactoryCall, MoneyCall, RecoveryCall, CreateClone,
         SetDirectWithdrawDisabled, SetRecoveryDelay, Deposit, PlainTransfer, DepositFor,
         Withdraw, WithdrawWithSalt, BeginRecovery, CancelRecovery, SetRecoveryAddress,
         ExecuteRecovery, Tick, Sign, vars
  <2> PICK i \in signed :
        WithdrawWithSig(i) \/ TransferOwnershipBySig(i) \/ SetRecoveryAddressBySig(i)
    BY <2>1 DEF RelayedCall
  <2>2. i.nonce = nonce /\ i.signer = owner /\ executed' = executed \cup {i}
    BY DEF WithdrawWithSig, TransferOwnershipBySig, SetRecoveryAddressBySig,
           Authorized, ConsumeNonce
  <2>3. i \notin executed
    BY <2>2 DEF NoncesNeverReused, TypeOK
  <2> QED
    BY <2>2, <2>3
<1> QED
  BY <1>1, TypeCorrect, SignedOperationsNeverShareANonce, PTL DEF Spec, EachSignatureOnce

-----------------------------------------------------------------------------
(* Recovery.                                                               *)

LEMMA ArmedStep == ArmedInv /\ [Next]_vars => ArmedInv'
<1> SUFFICES ASSUME ArmedInv, [Next]_vars
             PROVE  ArmedInv'
  OBVIOUS
<1>0. TypeOK /\ TypeOK'
  BY TypeStep DEF ArmedInv
<1> USE <1>0 DEF ArmedInv, PendingRecoveryIsArmed
<1>1. CASE FactoryCall
  BY <1>1 DEF FactoryCall, CreateClone, SetDirectWithdrawDisabled, SetRecoveryDelay,
              recoveryVars, custodyVars, TypeOK
<1>2. CASE MoneyCall
  <2>1. UNCHANGED <<now, recovery, owner, requestedAt, delay>>
    BY <1>2 DEF MoneyCall, Deposit, PlainTransfer, DepositFor, Withdraw,
                WithdrawWithSalt, recoveryVars
  <2> QED
    BY <2>1
<1>3. CASE RelayedCall
  <2> PICK i \in signed :
        WithdrawWithSig(i) \/ TransferOwnershipBySig(i) \/ SetRecoveryAddressBySig(i)
    BY <1>3 DEF RelayedCall
  <2>1. CASE WithdrawWithSig(i)
    BY <2>1 DEF WithdrawWithSig, recoveryVars
  <2>2. CASE TransferOwnershipBySig(i)
    BY <2>2 DEF TransferOwnershipBySig, recoveryVars
  <2>3. CASE SetRecoveryAddressBySig(i)
    BY <2>3 DEF SetRecoveryAddressBySig, SetRecovery, Authorized, Deployed
  <2> QED
    BY <2>1, <2>2, <2>3
<1>4. CASE RecoveryCall
  <2>1. ASSUME NEW u \in Addr, BeginRecovery(u)
        PROVE  ArmedInv'
    BY <2>1 DEF BeginRecovery, TypeOK
  <2>2. ASSUME NEW u \in Addr, CancelRecovery(u)
        PROVE  ArmedInv'
    BY <2>2 DEF CancelRecovery
  <2>3. ASSUME NEW u \in Addr, NEW a \in Destinations, SetRecoveryAddress(u, a)
        PROVE  ArmedInv'
    BY <2>3 DEF SetRecoveryAddress, SetRecovery
  <2>4. CASE ExecuteRecovery
    BY <2>4 DEF ExecuteRecovery
  <2> QED
    BY <1>4, <2>1, <2>2, <2>3, <2>4 DEF RecoveryCall
<1>5. CASE Tick
  BY <1>5 DEF Tick, recoveryVars, TypeOK
<1>6. ASSUME NEW i \in Signable, Sign(i)
      PROVE  ArmedInv'
  BY <1>6 DEF Sign, recoveryVars
<1>7. CASE UNCHANGED vars
  BY <1>7 DEF vars
<1> QED
  BY <1>1, <1>2, <1>3, <1>4, <1>5, <1>6, <1>7 DEF Next

\* A pending recovery is armed in every reachable state: executeRecovery never
\* runs without an owner, a recovery address and a window.
THEOREM RecoveryIsAlwaysArmed == Spec => []PendingRecoveryIsArmed
<1>1. Init => ArmedInv
  BY InitType DEF Init, ArmedInv, PendingRecoveryIsArmed
<1>2. ArmedInv => PendingRecoveryIsArmed
  BY DEF ArmedInv
<1> QED
  BY <1>1, <1>2, ArmedStep, PTL DEF Spec

\* The clone is never left without an owner, and only an owner's signature or
\* an elapsed recovery window moves it.
THEOREM OwnershipMovesOnlyByRule == Spec => OwnershipMoves
<1>1. Init => ArmedInv
  BY InitType DEF Init, ArmedInv, PendingRecoveryIsArmed
<1>2. ArmedInv /\ [Next]_vars
        => [owner # Zero /\ owner' # owner =>
              /\ owner' # Zero
              /\ \/ \E i \in signed : /\ i.kind = "TransferOwnership"
                                    /\ i.signer = owner
                                    /\ i.to = owner'
                 \/ owner' = recovery /\ now >= requestedAt + delay /\ delay > 0]_vars
  <2> SUFFICES ASSUME ArmedInv, [Next]_vars, owner # Zero, owner' # owner
               PROVE  /\ owner' # Zero
                      /\ \/ \E i \in signed : /\ i.kind = "TransferOwnership"
                                            /\ i.signer = owner
                                            /\ i.to = owner'
                         \/ owner' = recovery /\ now >= requestedAt + delay /\ delay > 0
    OBVIOUS
  <2>1. ExecuteRecovery \/ \E i \in signed : TransferOwnershipBySig(i)
    BY DEF Next, FactoryCall, MoneyCall, RelayedCall, RecoveryCall, CreateClone,
         SetDirectWithdrawDisabled, SetRecoveryDelay, Deposit, PlainTransfer, DepositFor,
         Withdraw, WithdrawWithSalt, WithdrawWithSig, SetRecoveryAddressBySig,
         BeginRecovery, CancelRecovery, SetRecoveryAddress, Tick, Sign, vars
  <2>2. CASE ExecuteRecovery
    BY <2>2 DEF ExecuteRecovery, ArmedInv, PendingRecoveryIsArmed
  <2>3. ASSUME NEW i \in signed, TransferOwnershipBySig(i)
        PROVE  /\ owner' # Zero
               /\ i.kind = "TransferOwnership" /\ i.signer = owner /\ i.to = owner'
    BY <2>3 DEF TransferOwnershipBySig, Authorized
  <2> QED
    BY <2>1, <2>2, <2>3
<1> QED
  BY <1>1, <1>2, ArmedStep, PTL DEF Spec, OwnershipMoves

-----------------------------------------------------------------------------
(* Commitments.                                                            *)

\* G gives each subset of f's domain a number that grows by f[x] when x is
\* added: what a sum does, whatever the order of its terms.
Additive(f, G) ==
    /\ G \in [SUBSET DOMAIN f -> Int] /\ G[{}] = 0 /\ \A x \in DOMAIN f : f[x] \in Int
    /\ \A T \in SUBSET DOMAIN f : \A x \in DOMAIN f \ T : G[T \cup {x}] = f[x] + G[T]

\* A sum is what every such function says it is: there is no smallest subset
\* on which they differ.
LEMMA SumIsAdditive ==
    ASSUME NEW f, IsFiniteSet(DOMAIN f), NEW G, Additive(f, G)
    PROVE  SumFunction(f) = G[DOMAIN f]
<1> DEFINE S == DOMAIN f
           Pick(T) == CHOOSE x \in T : TRUE
           Unfold(h) == [T \in SUBSET S |-> IF T = {} THEN 0 ELSE f[Pick(T)] + h[T \ {Pick(T)}]]
           sum == CHOOSE h : h = Unfold(h)
<1>1. SumFunction(f) = sum[S]
  BY Zenon DEF SumFunction, SumFunctionOnSet, FoldFunctionOnSet, MapThenFoldSet
<1> HIDE DEF S
<1>2. ASSUME NEW T \in SUBSET S, T # {}
      PROVE  Pick(T) \in T /\ T \ {Pick(T)} \in SUBSET S /\ G[T] = f[Pick(T)] + G[T \ {Pick(T)}]
  <2>1. Pick(T) \in T
    BY <1>2
  <2> HIDE DEF Pick
  <2> DEFINE U == T \ {Pick(T)}
  <2>2. T = U \cup {Pick(T)} /\ Pick(T) \in S \ U /\ U \in SUBSET S
    BY <2>1
  <2> HIDE DEF U
  <2>3. G[U \cup {Pick(T)}] = f[Pick(T)] + G[U]
    BY <2>2 DEF Additive, S
  <2> QED
    BY <2>1, <2>2, <2>3 DEF U
<1> HIDE DEF Pick
<1>3. G = Unfold(G)
  <2>1. G \in [SUBSET S -> Int] /\ G[{}] = 0
    BY DEF Additive, S
  <2> QED
    BY <1>2, <2>1
<1>4. sum = Unfold(sum)
  <2> HIDE DEF Unfold
  <2> QED
    BY <1>3, Zenon
<1> HIDE DEF sum
<1>5. ASSUME NEW T \in SUBSET S, T # {}, sum[T \ {Pick(T)}] = G[T \ {Pick(T)}] PROVE sum[T] = G[T]
  BY <1>2, <1>4, <1>5
<1>6. sum[{}] = G[{}]
  BY <1>4 DEF Additive, S
<1>7. ASSUME NEW T \in SUBSET S, sum[T] # G[T] PROVE FALSE
  <2> DEFINE Bad == {U \in SUBSET S : sum[U] # G[U]}
  <2>1. FiniteSubsetsOf(S) = SUBSET S /\ IsWellFoundedOn(StrictSubsetOrdering(S), FiniteSubsetsOf(S))
    BY FS_FiniteSubsetsOfFinite, FS_StrictSubsetOrderingWellFounded DEF S
  <2>2. PICK U \in Bad : \A V \in Bad : <<V, U>> \notin StrictSubsetOrdering(S)
    <3>1. Bad # {} /\ Bad \subseteq FiniteSubsetsOf(S)
      BY <1>7, <2>1
    <3> HIDE DEF Bad
    <3> QED
      BY <2>1, <3>1, WFMin
  <2>3. U # {} /\ Pick(U) \in U /\ U \ {Pick(U)} \in SUBSET S
    BY <1>2, <1>6
  <2>4. <<U \ {Pick(U)}, U>> \in StrictSubsetOrdering(S)
    BY <2>3 DEF StrictSubsetOrdering
  <2> QED
    BY <1>5, <2>2, <2>3, <2>4
<1> QED
  BY <1>1, <1>7 DEF S

\* A term that changes changes every sum it is in.
LEMMA TermChanges ==
    ASSUME NEW S, NEW f, DOMAIN f = S, NEW G, Additive(f, G), NEW x \in S,
           NEW h, DOMAIN h = S, h[x] \in Int, \A y \in S \ {x} : h[y] = f[y]
    PROVE  \E H : Additive(h, H) /\ H[S] \in Int /\ H[S] = G[S] + (h[x] - f[x])
<1> DEFINE H == [T \in SUBSET S |-> IF x \in T THEN G[T] + (h[x] - f[x]) ELSE G[T]]
<1>1. /\ G \in [SUBSET S -> Int] /\ G[{}] = 0
      /\ \A y \in S : f[y] \in Int
      /\ \A T \in SUBSET S : \A y \in S \ T : G[T \cup {y}] = f[y] + G[T]
  BY DEF Additive
<1>2. (\A y \in S : h[y] \in Int) /\ \A y \in S \ {x} : h[y] = f[y]
  BY <1>1
<1>3. H \in [SUBSET S -> Int] /\ H[{}] = 0
  BY <1>1
<1>4. ASSUME NEW T \in SUBSET S, NEW y \in S \ T
      PROVE  H[T \cup {y}] = h[y] + H[T]
  <2>1. T \cup {y} \in SUBSET S /\ G[T \cup {y}] = f[y] + G[T] /\ G[T] \in Int /\ f[y] \in Int /\ f[x] \in Int
    BY <1>1
  <2>2. CASE y = x
    BY <1>2, <2>1, <2>2
  <2>3. CASE y # x
    <3>1. h[y] = f[y] /\ (x \in T \cup {y} <=> x \in T)
      BY <1>2, <2>3
    <3> QED
      BY <2>1, <3>1
  <2> QED
    BY <2>2, <2>3
<1>5. Additive(h, H)
  BY <1>2, <1>3, <1>4 DEF Additive
<1>6. H[S] \in Int /\ H[S] = G[S] + (h[x] - f[x])
  BY <1>3
<1> QED
  BY <1>5, <1>6

\* CommitmentsBacked with the sum's values for all sets of commitments.  A
\* clone that is not deployed owes nothing: a policy is only chosen then.
Covered ==
    \E G : /\ Additive(private, G)
           /\ (owner = Zero \/ privacy) => G[Commitments] <= token

LEMMA CoveredStep == ASSUME TypeOK, Covered, [Next]_vars PROVE Covered'
<1> PICK G : /\ Additive(private, G)
             /\ owner = Zero \/ privacy => G[Commitments] <= token
  BY DEF Covered
<1>1. private \in [Commitments -> Int] /\ G[Commitments] \in Int /\ token \in Int
  BY DEF TypeOK, Additive
<1>2. ASSUME private' = private, owner' = Zero \/ privacy' => owner = Zero \/ privacy,
             token' \in Int, token' >= token \/ ~(owner' = Zero \/ privacy')
      PROVE  Covered'
  BY <1>1, <1>2 DEF Covered
<1>3. ASSUME NEW c \in Commitments, NEW n \in Int, token' \in Int,
             private' = [private EXCEPT ![c] = private[c] + n], token' >= token + n,
             UNCHANGED <<owner, privacy>>
      PROVE  Covered'
  <2>1. /\ DOMAIN private = Commitments /\ DOMAIN private' = Commitments
        /\ private[c] \in Int /\ private'[c] = private[c] + n /\ private'[c] \in Int
        /\ \A y \in Commitments \ {c} : private'[y] = private[y]
    BY <1>1, <1>3
  <2>2. PICK H : /\ Additive(private', H) /\ H[Commitments] \in Int
                 /\ H[Commitments] = G[Commitments] + (private'[c] - private[c])
    BY <2>1, TermChanges, SMTT(30)
  <2>3. H[Commitments] = G[Commitments] + n
    BY <1>1, <2>1, <2>2
  <2>4. owner' = Zero \/ privacy' => H[Commitments] <= token'
    BY <1>1, <1>3, <2>3
  <2> QED
    BY <1>3, <2>2, <2>4 DEF Covered
<1> USE DEF recoveryVars, custodyVars
<1>4. CASE MoneyCall
  <2>1. ASSUME NEW n \in Amounts, Deposit(n) \/ PlainTransfer(n) PROVE Covered'
    BY <1>1, <1>2, <2>1 DEF Deposit, PlainTransfer, Receive, Amounts
  <2>2. ASSUME NEW u \in Addr, NEW s \in Salts, NEW n \in Amounts, DepositFor(u, s, n)
        PROVE  Covered'
    <3>1. <<u, s>> \in Commitments /\ n \in Int /\ token' = token + n
      BY <2>2 DEF Commitments, DepositFor, Receive, Amounts
    <3>2. private' = [private EXCEPT ![<<u, s>>] = private[<<u, s>>] + n] /\ UNCHANGED <<owner, privacy>>
      BY <2>2 DEF DepositFor
    <3>3. token' \in Int /\ token' >= token + n
      BY <1>1, <3>1
    <3> QED
      BY <1>3, <3>1, <3>2, <3>3
  <2>3. ASSUME NEW u \in Addr, NEW n \in Amounts, NEW d \in Destinations, Withdraw(u, n, d)
        PROVE  Covered'
    BY <1>1, <1>2, <2>3 DEF Withdraw, TransferOut, Amounts
  <2>4. ASSUME NEW u \in Addr, NEW s \in Salts, NEW n \in Amounts, NEW d \in Destinations,
               WithdrawWithSalt(u, s, n, d)
        PROVE  Covered'
    <3>1. <<u, s>> \in Commitments /\ n \in Nat /\ -n \in Int
      BY DEF Commitments, Amounts
    <3>2. private[<<u, s>>] \in Int /\ private[<<u, s>>] - n = private[<<u, s>>] + (-n)
      BY <1>1, <3>1
    <3>3. private' = [private EXCEPT ![<<u, s>>] = private[<<u, s>>] + (-n)] /\ UNCHANGED <<owner, privacy>>
      BY <2>4, <3>2 DEF WithdrawWithSalt
    <3>4. token' \in Int /\ token' >= token + (-n)
      BY <1>1, <2>4, <3>1 DEF WithdrawWithSalt, TransferOut
    <3> QED
      BY <1>3, <3>1, <3>3, <3>4
  <2> QED
    BY <1>4, <2>1, <2>2, <2>3, <2>4 DEF MoneyCall
<1>5. CASE FactoryCall
  BY <1>1, <1>2, <1>5 DEF FactoryCall, CreateClone, SetDirectWithdrawDisabled, SetRecoveryDelay
<1>6. CASE RelayedCall
  <2> PICK i \in signed :
        WithdrawWithSig(i) \/ TransferOwnershipBySig(i) \/ SetRecoveryAddressBySig(i)
    BY <1>6 DEF RelayedCall
  <2>1. i.amount \in Nat
    BY DEF TypeOK, Intents
  <2>2. CASE WithdrawWithSig(i)
    BY <1>1, <1>2, <2>1, <2>2 DEF WithdrawWithSig, Authorized, Deployed, TransferOut
  <2>3. CASE TransferOwnershipBySig(i) \/ SetRecoveryAddressBySig(i)
    BY <1>1, <1>2, <2>3 DEF TransferOwnershipBySig, SetRecoveryAddressBySig
  <2> QED
    BY <2>2, <2>3
<1>7. CASE RecoveryCall
  BY <1>1, <1>2, <1>7 DEF RecoveryCall, BeginRecovery, CancelRecovery, SetRecoveryAddress,
                          ExecuteRecovery
<1>8. CASE Tick \/ (\E i \in Signable : Sign(i)) \/ UNCHANGED vars
  BY <1>1, <1>2, <1>8 DEF Tick, Sign, vars
<1> QED
  BY <1>4, <1>5, <1>6, <1>7, <1>8 DEF Next

\* The clone's USDC covers its private balances in privacy mode, for any
\* number of wallets and salts and whatever else is paid in or out.
THEOREM CommitmentsAreCovered == Spec => []CommitmentsBacked
<1>1. Init => Covered
  <2> SUFFICES ASSUME Init PROVE Covered
    OBVIOUS
  <2> DEFINE G == [T \in SUBSET Commitments |-> 0]
  <2>1. private = [c \in Commitments |-> 0] /\ token = 0
    BY DEF Init
  <2>2. Additive(private, G)
    BY <2>1 DEF Additive
  <2>3. G[Commitments] <= token
    BY <2>1
  <2> QED
    BY <2>2, <2>3 DEF Covered
<1>2. TypeOK /\ Covered => CommitmentsBacked
  <2> SUFFICES ASSUME TypeOK, Covered, owner # Zero, privacy PROVE SumFunction(private) <= token
    BY DEF CommitmentsBacked
  <2>1. PICK G : Additive(private, G) /\ (owner = Zero \/ privacy => G[Commitments] <= token)
    BY DEF Covered
  <2>2. DOMAIN private = Commitments /\ IsFiniteSet(Commitments)
    BY FS_Product DEF TypeOK, Commitments
  <2>3. SumFunction(private) = G[Commitments]
    BY <2>1, <2>2, SumIsAdditive
  <2> QED
    BY <2>1, <2>3
<1>3. TypeOK /\ Covered /\ [Next]_vars => Covered'
  BY CoveredStep
<1> QED
  BY <1>1, <1>2, <1>3, TypeCorrect, PTL DEF Spec

=============================================================================
