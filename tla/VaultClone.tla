----------------------------- MODULE VaultClone -----------------------------
(***************************************************************************)
(* One per-user vault clone on chain (contracts/GlobmintVaultClone.sol)    *)
(* and the factory that deploys and configures it                          *)
(* (contracts/GlobmintVaultFactory.sol).                                   *)
(*                                                                         *)
(* A contract call is atomic: an action is a call whose requires all hold. *)
(* A call that reverts changes nothing and is not an action.  block.time-  *)
(* stamp advances between calls.  Wallets sign EIP-712 intents off chain;  *)
(* anyone may relay a signature, any number of times, in any order.  The   *)
(* domain separator binds a signature to this clone and the type hash to   *)
(* its kind, so a signature is modelled by what it says and who made it.   *)
(***************************************************************************)
EXTENDS Integers, FiniteSets, Functions

CONSTANTS
    Addr,           \* wallets: owners, recovery addresses, destinations
    Zero,           \* address(0)
    Self,           \* the clone's own address, a legal destination
    Salts,          \* privacy salts
    Policies,       \* the fleet policies a factory may be deployed with
    Signable,       \* the intents wallets may sign
    MaxToken,       \* bound on the USDC the clone may hold
    MaxPrivate,     \* bound on a commitment's balance
    MaxTime,        \* bound on block.timestamp
    MaxDelay,       \* bound on the recovery delay
    MaxSignatures   \* bound on signatures in circulation

Kinds == {"WithdrawRequest", "TransferOwnership", "SetRecovery"}

Intents ==
    [kind : Kinds, signer : Addr, to : Addr \cup {Self, Zero}, amount : Nat,
     nonce : Nat, deadline : Nat]

ASSUME CloneAssumption ==
    /\ Signable \subseteq Intents
    /\ Zero \notin Addr
    /\ Self \notin Addr
    /\ Self # Zero
    /\ IsFiniteSet(Addr) /\ IsFiniteSet(Salts)
    /\ Policies \subseteq BOOLEAN
    /\ MaxToken \in Nat /\ MaxPrivate \in Nat /\ MaxTime \in Nat /\ MaxDelay \in Nat
    /\ MaxSignatures \in Nat

VARIABLES
    owner,           \* _owners: Zero until initialized
    nonce,           \* _nonces
    recovery,        \* _recoveryAddress
    delay,           \* _recoveryDelay
    requestedAt,     \* _recoveryRequestedAt, 0 = not pending
    privacy,         \* _privacyEnabled
    directDisabled,  \* _directWithdrawDisabled
    private,         \* _privateBalances: commitment |-> amount
    token,           \* the stablecoin's balanceOf(clone)
    now,             \* block.timestamp
    signed,          \* signatures that exist off chain
    executed         \* history: signatures that took effect

vars == <<owner, nonce, recovery, delay, requestedAt, privacy, directDisabled,
          private, token, now, signed, executed>>

recoveryVars == <<recovery, delay, requestedAt>>
custodyVars == <<privacy, directDisabled, private, token>>

\* keccak256(user, salt) is taken to be collision-free.
Commitments == Addr \X Salts

TypeOK ==
    /\ owner \in Addr \cup {Zero, Self}
    /\ nonce \in Nat
    /\ recovery \in Addr \cup {Zero, Self}
    /\ delay \in Nat
    /\ requestedAt \in Nat
    /\ privacy \in BOOLEAN
    /\ directDisabled \in BOOLEAN
    /\ private \in [Commitments -> Nat]
    /\ token \in Nat
    /\ now \in Nat
    /\ signed \subseteq Signable
    /\ executed \subseteq signed

Init ==
    /\ owner = Zero
    /\ nonce = 0
    /\ recovery = Zero
    /\ delay = 0
    /\ requestedAt = 0
    /\ privacy = FALSE
    /\ directDisabled = FALSE
    /\ private = [c \in Commitments |-> 0]
    /\ token = 0
    /\ now = 1
    /\ signed = {}
    /\ executed = {}

-----------------------------------------------------------------------------
(* The factory.                                                            *)

\* createClone deploys, initializes and sets the fleet's privacy mode, which
\* is immutable in the factory, in one transaction.  A second createClone
\* returns the existing clone.
CreateClone(a, initialPrivacy) ==
    /\ owner = Zero
    /\ owner' = a
    /\ privacy' = initialPrivacy
    /\ UNCHANGED <<nonce, recoveryVars, directDisabled, private, token, now,
                   signed, executed>>

Deployed == owner # Zero

SetDirectWithdrawDisabled(disabled) ==
    /\ Deployed
    /\ directDisabled' = disabled
    /\ UNCHANGED <<owner, nonce, recoveryVars, privacy, private, token, now,
                   signed, executed>>

\* Mutant: switching recovery off leaves a pending one running.
SetRecoveryDelayOnly(d) ==
    /\ Deployed
    /\ delay' = d
    /\ UNCHANGED <<owner, nonce, recovery, requestedAt, custodyVars, now, signed, executed>>

\* 0 also cancels a pending recovery.
SetRecoveryDelay(d) ==
    /\ Deployed
    /\ delay' = d
    /\ requestedAt' = IF d = 0 THEN 0 ELSE requestedAt
    /\ UNCHANGED <<owner, nonce, recovery, custodyVars, now,
                   signed, executed>>

-----------------------------------------------------------------------------
(* Money in.                                                               *)

\* The token's transferFrom succeeds for a caller with funds and allowance.
Receive(amount) ==
    /\ amount > 0
    /\ token + amount <= MaxToken
    /\ token' = token + amount

Deposit(amount) ==
    /\ ~privacy
    /\ Deployed
    /\ Receive(amount)
    /\ UNCHANGED <<owner, nonce, recoveryVars, privacy, directDisabled, private,
                   now, signed, executed>>

DepositFor(user, salt, amount) ==
    /\ Deployed
    /\ Receive(amount)
    /\ private[<<user, salt>>] + amount <= MaxPrivate
    /\ private' = [private EXCEPT ![<<user, salt>>] = @ + amount]
    /\ UNCHANGED <<owner, nonce, recoveryVars, privacy, directDisabled, now,
                   signed, executed>>

\* A plain ERC-20 transfer reaches the address without calling the clone,
\* even before it is deployed.
PlainTransfer(amount) ==
    /\ Receive(amount)
    /\ UNCHANGED <<owner, nonce, recoveryVars, privacy, directDisabled, private,
                   now, signed, executed>>

-----------------------------------------------------------------------------
(* Money out.                                                              *)

\* Mutant: the token's balance is not checked.
TransferOutUnchecked(to, amount) ==
    /\ amount > 0
    /\ to # Zero
    /\ token' = IF to = Self THEN token ELSE token - amount

\* _transferOut: the clone's whole token balance backs every exit.
TransferOut(to, amount) ==
    /\ amount > 0
    /\ to # Zero
    /\ token >= amount
    /\ token' = IF to = Self THEN token ELSE token - amount

\* Mutant: withdraw works in privacy mode too.
WithdrawInPrivacy(caller, amount, to) ==
    /\ ~directDisabled
    /\ caller = owner
    /\ TransferOut(to, amount)
    /\ UNCHANGED <<owner, nonce, recoveryVars, privacy, directDisabled, private,
                   now, signed, executed>>

Withdraw(caller, amount, to) ==
    /\ ~privacy
    /\ ~directDisabled
    /\ caller = owner
    /\ TransferOut(to, amount)
    /\ UNCHANGED <<owner, nonce, recoveryVars, privacy, directDisabled, private,
                   now, signed, executed>>

WithdrawWithSalt(caller, salt, amount, to) ==
    /\ private[<<caller, salt>>] >= amount
    /\ private' = [private EXCEPT ![<<caller, salt>>] = @ - amount]
    /\ TransferOut(to, amount)
    /\ UNCHANGED <<owner, nonce, recoveryVars, privacy, directDisabled, now,
                   signed, executed>>

\* Mutant: the recovered signer is not compared with the owner.
AuthorizedByAnyone(i, kind) ==
    /\ i.kind = kind
    /\ i.deadline >= now
    /\ i.nonce = nonce
    /\ Deployed

\* The checks shared by the three signed entry points: not expired, the
\* clone's current nonce, the owner's signature.
Authorized(i, kind) ==
    /\ i.kind = kind
    /\ i.deadline >= now
    /\ i.nonce = nonce
    /\ Deployed
    /\ i.signer = owner

\* Mutant: the nonce is not incremented.
ConsumeNothing(i) ==
    /\ nonce' = i.nonce
    /\ executed' = executed \cup {i}

\* Each consumes the shared nonce.
ConsumeNonce(i) ==
    /\ nonce' = i.nonce + 1
    /\ executed' = executed \cup {i}

WithdrawWithSig(i) ==
    /\ ~privacy
    /\ Authorized(i, "WithdrawRequest")
    /\ ConsumeNonce(i)
    /\ TransferOut(i.to, i.amount)
    /\ UNCHANGED <<owner, recoveryVars, privacy, directDisabled, private, now, signed>>

-----------------------------------------------------------------------------
(* Ownership and recovery.                                                 *)

\* Mutant: the new owner may be address(0).
TransferOwnershipToAnyone(i) ==
    /\ Authorized(i, "TransferOwnership")
    /\ i.to # owner
    /\ ConsumeNonce(i)
    /\ owner' = i.to
    /\ UNCHANGED <<recoveryVars, custodyVars, now, signed>>

TransferOwnershipBySig(i) ==
    /\ Authorized(i, "TransferOwnership")
    /\ i.to # Zero
    /\ i.to # owner
    /\ ConsumeNonce(i)
    /\ owner' = i.to
    /\ UNCHANGED <<recoveryVars, custodyVars, now, signed>>

\* _setRecovery: a new recovery address cancels a pending recovery.
SetRecovery(r) ==
    /\ r # Zero
    /\ r # owner
    /\ recovery' = r
    /\ requestedAt' = 0

SetRecoveryAddress(caller, r) ==
    /\ caller = owner
    /\ SetRecovery(r)
    /\ UNCHANGED <<owner, nonce, delay, custodyVars, now, signed, executed>>

SetRecoveryAddressBySig(i) ==
    /\ Authorized(i, "SetRecovery")
    /\ ConsumeNonce(i)
    /\ SetRecovery(i.to)
    /\ UNCHANGED <<owner, delay, custodyVars, now, signed>>

\* The clock starts once; calling again leaves it alone.
BeginRecovery(caller) ==
    /\ recovery # Zero
    /\ caller \in {recovery, owner}
    /\ delay > 0
    /\ requestedAt' = IF requestedAt = 0 THEN now ELSE requestedAt
    /\ UNCHANGED <<owner, nonce, recovery, delay, custodyVars, now,
                   signed, executed>>

CancelRecovery(caller) ==
    /\ caller = owner
    /\ requestedAt # 0
    /\ requestedAt' = 0
    /\ UNCHANGED <<owner, nonce, recovery, delay, custodyVars, now,
                   signed, executed>>

ExecuteRecovery ==
    /\ recovery # Zero
    /\ requestedAt # 0
    /\ now >= requestedAt + delay
    /\ requestedAt' = 0
    /\ delay' = 0
    /\ owner' = recovery
    /\ UNCHANGED <<nonce, recovery, custodyVars, now, signed, executed>>

-----------------------------------------------------------------------------
(* The environment.                                                        *)

\* A wallet signs an intent: any content, any nonce, at any time.
Sign(i) ==
    /\ Cardinality(signed) < MaxSignatures
    /\ signed' = signed \cup {i}
    /\ UNCHANGED <<owner, nonce, recoveryVars, custodyVars, now, executed>>

\* Blocks are mined.
Tick ==
    /\ now < MaxTime
    /\ now' = now + 1
    /\ UNCHANGED <<owner, nonce, recoveryVars, custodyVars, signed, executed>>

Amounts == 1 .. MaxToken
Destinations == Addr \cup {Self}

FactoryCall ==
    \/ \E a \in Addr, p \in Policies : CreateClone(a, p)
    \/ \E b \in BOOLEAN : SetDirectWithdrawDisabled(b)
    \/ \E d \in 0 .. MaxDelay : SetRecoveryDelay(d)

MoneyCall ==
    \/ \E n \in Amounts : Deposit(n) \/ PlainTransfer(n)
    \/ \E u \in Addr, s \in Salts, n \in Amounts : DepositFor(u, s, n)
    \/ \E u \in Addr, n \in Amounts, d \in Destinations : Withdraw(u, n, d)
    \/ \E u \in Addr, s \in Salts, n \in Amounts, d \in Destinations :
         WithdrawWithSalt(u, s, n, d)

RelayedCall ==
    \E i \in signed :
        WithdrawWithSig(i) \/ TransferOwnershipBySig(i) \/ SetRecoveryAddressBySig(i)

RecoveryCall ==
    \/ \E u \in Addr : BeginRecovery(u) \/ CancelRecovery(u)
    \/ \E u \in Addr, r \in Destinations : SetRecoveryAddress(u, r)
    \/ ExecuteRecovery

Next ==
    \/ FactoryCall \/ MoneyCall \/ RelayedCall \/ RecoveryCall \/ Tick
    \/ \E i \in Signable : Sign(i)

Spec == Init /\ [][Next]_vars

-----------------------------------------------------------------------------
(* Properties.                                                             *)

\* The three signed operations share one nonce: no two that took effect,
\* of whatever kind, carry the same one ("signing one type never replays the
\* other", GlobmintVaultClone.sol 305-306).
NoncesNeverReused ==
    /\ \A i \in executed : i.nonce < nonce
    /\ \A i, j \in executed : i.nonce = j.nonce => i = j

\* A signature takes effect at most once, and only while its signer owns the
\* clone: a relayer that submits it again, or after a handover or a recovery,
\* gets a revert.
EachSignatureOnce ==
    [][nonce' # nonce =>
         \E i \in signed \ executed : executed' = executed \cup {i} /\ i.signer = owner]_vars

\* In privacy mode every commitment is backed: the USDC the clone holds
\* covers all private balances, so withdrawWithSalt never fails for want of
\* tokens, whatever was deposited, withdrawn or transferred in.
CommitmentsBacked == owner # Zero /\ privacy => SumFunction(private) <= token

\* A pending recovery always has someone to recover to, a delay that is
\* armed and a start that is not in the future, so executeRecovery can never
\* hand the clone to address(0) nor run without a window.
PendingRecoveryIsArmed ==
    requestedAt # 0 =>
        owner # Zero /\ recovery # Zero /\ delay > 0 /\ requestedAt <= now

\* The inductive strengthening of PendingRecoveryIsArmed: block.timestamp is
\* never 0 (0 means "not pending") and only an owner names a recovery address.
ArmedInv ==
    /\ TypeOK
    /\ now > 0
    /\ recovery # Zero => owner # Zero
    /\ PendingRecoveryIsArmed

\* The clone never loses its owner, and ownership moves only to the address
\* the owner signed for or to the recovery address after its window.
OwnershipMoves ==
    [][owner # Zero /\ owner' # owner =>
         /\ owner' # Zero
         /\ \/ \E i \in signed : /\ i.kind = "TransferOwnership"
                               /\ i.signer = owner
                               /\ i.to = owner'
            \/ owner' = recovery /\ now >= requestedAt + delay /\ delay > 0]_vars
=============================================================================
