# GlobMint: TLA+ models, model checks and proofs

GlobMint is a Go backend (`src/backend`) that keeps Nigerian-naira balances in a
Postgres ledger and moves USDC through vault contracts on an EVM chain, with a
Flutter client and a landing site in front. This project models the parts that
handle money and the accounts it belongs to, checks them with TLC and proves almost every
safety property of the runs, for every value of the constants, with TLAPS.

## 1. The system

| Part | State | Operations | Talks to |
|---|---|---|---|
| Money services (`services/money.go`, `ledger.go`, `storage/postgres`) | tables `accounts`, `transactions`, `ledger_entries`, `balances` | Deposit, Withdraw, WithdrawExternal, Transfer, Convert | Postgres; called by handlers, the indexer and withdrawals |
| Vault clone and factory (`contracts/GlobmintVaultClone.sol`, `GlobmintVaultFactory.sol`) | owner, nonce, recovery, privacy, commitments | deposits, direct, salted and signed withdrawals, ownership transfer, recovery | the token; relayed by the backend or anybody |
| Withdrawals (`services/vault.go`, `elevation_repo.go`) | `withdrawal_elevations`, the ledger, the chain | prepare, withdraw, cancel, sweep, claim custody | money services, clone |
| Deposit indexer (`services/vault.go`, `indexer_*_repo.go`) | `indexer_state`, `indexer_events`, `deposit_addresses`, an advisory lock, caches | elect, scan, credit, flag, attribute, relink | chain, money services |
| Clone deployment, custody and recovery cache (`services/vault.go`, `vault_clone_repo.go`, `blockchain/service.go`) | `user_vault_clones`, the relayer's account nonce | EnsureClone, ClaimCustody, SetRecoveryAddressBySig, CustodyStatus, RecoveryStatus, reconcile | clone, factory, node |
| Savings links and salts (`services/savings.go`) | `deposit_addresses`, `user_salts` | link a wallet, make or derive a salt | indexer |
| Shared vaults V1, V2 (`contracts/GlobmintVault*.sol`) | balances, commitments | deposit, withdraw | indexer |
| Registration (`services/auth.go`, `email_otp_repo.go`) | `email_otps`, `users` | stage, issue, resend, verify, complete | mailer, Postgres |
| Sessions and credentials (`services/auth.go`, `security.go`, `totp.go`) | `sessions`, `users`, in-memory failure windows | log in, second factor, log out, revoke, change password, TOTP, PIN | Postgres, event hub |
| Event hub (`events/hub.go`, `httpapi/events_handler.go`, the client's `app_scaffold.dart`) | subscribers and their buffers | subscribe, publish, unsubscribe, write the stream, refresh by kind and by timer | every service that changes data |
| Rate limiter, market rates | in memory | count, refresh | handlers |
| Fees, money arithmetic, EIP-712, configuration gate | none | pure functions | all of the above |
| Flutter client, landing site, mailer, metrics, tools | UI and I/O | | HTTP API |

What is hard in this code, and what the properties are for:

* **Concurrency.** Every money call is a database transaction at READ COMMITTED that
  reads a sum without a lock. Idempotency rests on a unique index, fee settlement on a
  row lock, vault deposits on a mutex of their process. Several instances sweep and index.
* **Failure between two systems.** A withdrawal broadcasts first and debits afterwards;
  a deposit is on chain first and in the ledger afterwards. Each half may fail, crash or
  succeed without its answer arriving.
* **What others call.** The factory checks no caller: anybody creates a clone for any
  owner and arms or disarms recovery. Owners may act without the service.
* **Ordering and time.** Signatures have nonces and deadlines and may be relayed late,
  by anybody, in any order. Elevations are released after a delay. Blocks may be
  reorganised.
* **Caches and cursors.** The indexer's position, leader flag and address cache may be
  stale when used. The custody and recovery columns are a cache of the chain that is
  written through before a relayed call is mined.
* **Read, then write.** Authentication reads a row, compares, and writes in statements
  of their own, without a transaction: codes, attempt counters, secrets, passwords and
  sessions change in between.

`PROJECT.json` lists the hazards one by one with their lines and properties.

## 2. The modules

`LedgerOps` defines what a money request is and which entries it posts.
`AtomicLedger` is the abstract specification: a request takes effect in one step, a key
at most once, and a reply names a recorded transaction. `Ledger` is the detailed one.

**Ledger.** `pc[r]` is the next statement of call `r`; an action is one statement (or a
statement with neighbours that neither read shared state nor wait). `ledger` is the sum of
committed entries, `balances` the projection `SetBalance` writes, computed from `fromBal`
and `toBal`, the sums the call read earlier. What an open transaction holds (its
unique-index entry, the balances rows it wrote, the fee account's row) is a function of
`pc`. `DeadlockVictim` is Postgres' detector, `StatementFails` a rollback, `CommitAckLost` a
commit whose acknowledgement is lost. A `VaultDeposit` is `Deposit` called under
`lockFor(userID)`, a mutex of the process the request names (`at`): two instances that
credit one user do not exclude each other. The two `EnsureAccount` statements of `Convert`
are one step. E-mails and server-sent events are left out; inbox notices are counted.

**VaultClone.** One clone, one action per entry point; the guard is the conjunction of
the `require`s. `signed` holds the signatures that exist off chain: any of them may be
relayed at any time, any number of times. `executed` is a history variable. A reverted
call is no step. keccak256 is taken as collision-free and ECDSA as unforgeable.

**Withdrawal.** One user's calls and the sweepers of several instances run
`executeWithdrawal` step by step (`replay`, `precheck`, `build`, `send`, `debit`). A row of
`withdrawal_elevations` is named by the call that created it. A broadcast adds to `mempool`;
`Mine` applies the clone's rules when the transaction is mined, `Drop` evicts it. A sweep
takes at most `Batch` rows (the code's `LIMIT 100`), those longest due; the query is over
all users, so older rows of others may leave no place for this one's. `WithdrawExternal` is
a single step here because `Ledger` shows that it is atomic and idempotent by key.

**Indexer.** Each instance has a leader flag, the cursor in memory, a batch of logs and the
credits its workers are about to make. A payment to the shared vault through `depositFor` or
`deposit` emits a Transfer and an event, which take different routes and keys. `baselines`,
`failed`, `orphaned` and `linked` are history variables: the blocks a start-up or a takeover
began from, the logs whose handling failed and was only logged, and the logs without a user
that met a `deposited` row; `linked` holds every link there ever was. Assumed: no
`FallbackUserID` is configured, the clone's row exists before the clone is paid,
`VaultAddress` is the vault contract, and a reorganisation is no deeper than
`MinConfirmations`. Operators are not run against flagged events of the legacy `deposit`
(their row has an empty sender).

**OwnerSeat and Custody.** `OwnerSeat` is the abstract promise about the owner seat of
every clone and about who is named to take it over (the heir, its recovery address). A seat
is filled by a deployment somebody asked for (`Fill`), moves to the address its holder of
that moment signed it over to (`Transfer`) or to the heir (`Recover`), and only the holder
names the heir (`Designate`). The platform as a holder signs seats over only to wallets
named in claims, and names no heir. A reset of a development node empties all (`Reset`).
`Custody` has every read of the node, every statement on `user_vault_clones` and every
broadcast as a step, and implements it (`Seat == INSTANCE OwnerSeat WITH`: seat and heir are
the clone's owner and recovery address; what was asked for is what the requests ask and what
the calls of others, remembered in `own`, were). The relayer's transactions have account nonces
(`slot`): two of them with one nonce compete, a gap holds back the later ones, a
transaction may be evicted, and a development node may be reset. Accounts in `Broken` have
a clone the node never answers for. A clone's rules are those of `VaultClone`, cut down to
owner, nonce and recovery. Beside the service, anybody may call the factory (`CreateCall`
for any owner, `setRecoveryDelay` in `OtherCall`), an owner other than the platform may
hand its clone over or name an heir, directly or by a signature it relays (`OwnerCall`),
and recoveries and signed withdrawals take place (`OtherCall`). The delay is only zero or not.

**Registration.** The one row of `email_otps` and the one account of an address. A code is
known by its number; a request submits a code that reached the mailbox or a wrong one.
`tried` and `held` are history variables: wrong codes compared with each code, and which
payload stood on the row with which code. Time is the row's age: cooling down, fresh,
expired.

**Session.** One account and what its devices do to it at the same time: sign in by
password and second factor, sign out, revoke, change password, set up, enable and disable
the authenticator, set and verify the PIN, give it for a withdrawal. Secrets and passwords are
values that are equal or not. The failure windows are in memory: `Restart` empties them. A
session of another account is there for the ownership checks. `late` remembers the logins
that were under way when a password change revoked the other sessions. `wrong` counts the
wrong PINs compared behind the throttle in its window (a PIN that could not be read is
noted as a failure but was not compared), `peak` the most requests there were past the throttle at once.

**EventHub.** An operation commits, publishes (copying the user's channels), then delivers
to one channel after the other without blocking; or it commits and returns an error before
it publishes (`CommitUnpublished`: a lost acknowledgement, a failed `RevokeAllExcept`). A
handler per connection announces and then writes its channel to the stream. The client is
the repository's (`app_scaffold.dart`): the kind `all`, "connected" included, makes it refresh its
financial data and nothing else, the kind `security` its security data, and a timer its
financial data. `version` counts changes, `view` is what a client has, `joined` the version when
it was registered, `gap` the topics for which an event was dropped, a change not published
or a fetch failed since the last fetch. Which keep-alives are sent is left out.

`MC*` modules give the constants. The chain, wallets
and Postgres' lock manager are external and modelled from how the code uses them.

## 3. The runs

| Run | Result | What it shows |
|---|---|---|
| `Ledger_safety` | pass, 788k states | three calls out of seventeen bodies, vault deposits of one process and of two among them, one failure: `OneTransactionPerKey`, `RepliesAreCommitted`, `PlatformProjection`, `VaultProjection`, `LedgerExplained` |
| `Ledger_refinement` | pass, 19k | `Ledger` implements `AtomicLedger`; every call returns |
| `VaultClone_safety` | pass, 803k | nonces and signatures are spent once, a pending recovery is armed, commitments are backed, ownership moves by rule |
| `Withdrawal_safety` | pass, 1.9M | a signed withdrawal moves USDC once, debits are backed by broadcasts, claims are exclusive, time-locks hold, a settled row is left alone (`SettledIsFinal`) |
| `Withdrawal_settle` | pass, 461k | a signed elevation that sweeps do not pass over for ever is settled in the end |
| `Indexer_safety` | pass, 2.5M | no transfer is credited twice, none to a stranger (`CreditsGoToOwners`), the cursor skips nothing but orphaned rows, credits survive reorganisations |
| `Indexer_live` | pass, 225k | a confirmed payment through the privacy deposit is handled in the end |
| `Custody_safety` | pass, 768k | a stored clone is on the chain or on its way (`RowsAreBacked`), `Custody` implements `OwnerSeat` whatever others call, the cache agrees with the chain in the end (`CacheConverges`) |
| `Registration_safety` | pass, 1.3M | an account's address is proven and its password is the one that stood with the code (`AccountIsProven`); every wrong code is counted (`GuessesCounted`) |
| `Session_safety` | pass, 306k | a former password's sessions end (`FormerPasswordSignsOut`), an enabled authenticator is one somebody holds (`EnabledIsProven`), the PIN gate compares no more wrong PINs than its limit and the requests in flight (`PinGuessesBounded`), a new device is reported |
| `EventHub_safety` | pass, 761k | a client with stale money, or stale security data changed while it was connected, has been told or will be, but for what was dropped, not published or not fetched (`NoChangeMissed`); a client that reads catches up whatever a slow one does (`ReadersCatchUp`) |
| `Indexer_failover` | violation | a standby that started without a cursor skips payments when it takes over |

The violation run states what a comment says; the finding in `PROJECT.json` quotes it. Every
property of a passing run has a mutant, a plausible bug in the code (named `Mutant:` in the
modules), that breaks it.

**Bounds.** Two calls are enough for every race on a key, a row or a lock, the third one
adds a bystander that commits in between. Two sweepers or instances are enough for a lost
claim or leadership. Every run with failures allows one, of any kind, at any place:
the services promise to survive one. Amounts are small, chosen so that one debit fits and
two do not, that a conversion rounds, and that a deposit overflows `MaxMinor`. The clock
of `Withdrawal` goes on past `MaxTime` while an open row is not yet due or its signature
not yet expired, so the bound never freezes a row. `MaxSends` bounds retries. In
`VaultClone` two wallets, two nonces and two signatures let every pair of signed
operations compete, before and after a handover.

`Custody` has two accounts, one of them with a clone that cannot be read, two requests on
the other, one failure and at most two events (`MaxFaults`, `MaxEvents`: failures and calls
of others together): enough for two relays with one account nonce, for a call mined between
two reads of a snapshot, for a clone that somebody else deploys while `EnsureClone` is at
it, and for a reconciler pass that meets the broken clone first. `Callees` bounds whom the
calls of others name; `MCInit` keeps the starts that matter to a workload (a deployment
where there is no clone, two claims while the platform holds the seat). The theorems hold
whatever these constants are. `Registration` has four requests: a second sign-up, a resend
and two verifications of one code; `MaxAttempt` is 2, so the limit is reached. `Session` has
three requests and a limit of one failure; the workloads pair the operations that touch the
same columns, which keeps out combinations that do not meet. `EventHub` has buffers of one
event, so an overflow needs two, and one restart, unpublished change or failed fetch; its
three workloads are two security changes, a security and a money change, and money changes
of two users. `Withdrawal_settle` has a `Batch` of one for two rows that compete for it.

`Indexer_safety` allows two changes of a wallet's link (`MaxLinks`), so that a link is made
and changed between a crash and the rescan; `Indexer_live` allows one. A `deposited` row
without its credit (a crash in between) is a hole in the cursor's promise: a rescan
that finds no user, or a former leader that meets the row a new leader has just written,
takes it for handled. `CursorSkipsNothing` names it (`orphaned`) beside the logs whose
handling failed and was only logged (`failed`) and the blocks below a baseline, and counts a
payment as handled when its key was credited: of two transfers in one transaction, which
share a key, the second is a hole too. The theorem `CursorNeverSkips` shows that there are
no others, for any number of failures.

**Deadlock.** `Ledger` runs with deadlock checking (all calls done is an explicit
stuttering step). The others may stop: the clone when time and tokens are used up,
withdrawals, indexers, requests to an account and connections when the bounded environment
offers nothing more. In `Custody` the reconciler goes on for ever.

**Fairness.** Weak fairness of each call's, worker's and instance's own steps: goroutines
are scheduled, tickers tick, crashed processes are restarted (`Start` is a step of the
instance), and Postgres grants locks and breaks deadlocks. The clock advances in
`Withdrawal`. In `Custody` only the reconciler is fair (its ticker never stops). In
`EventHub` publishers are fair, and the handlers, the fetches of each topic and the
30-second timer of clients that are not slow; a slow client may stop reading for ever.
`Registration` and `Session` have no liveness: every request is a straight line. Nothing
makes a block be mined, a user act, or a failure happen. `Withdrawal_settle` allows failures
of statements, answers and nonce reads but neither a crash nor a lost status update between
claim and release: after those the row stays `broadcasting` and no code looks at it again.
Its property has a premise, `NotStarved`, in place of a fairness the code does not give:
`LIMIT 100` over all users (`elevation_repo.go` 69-73) lets rows that fail and are released
at every sweep keep newer ones waiting for ever. It also exempts a row whose identical
request was made again: `ReleaseClaim` may be refused then, and the row stays
`broadcasting`.

## 4. The proofs

Eight modules, `<Component>Proofs`, hold the theorems. They hold for every value of the
constants under the named assumptions of the modules, which TLC evaluates in each run:
`LedgerOpsAssumption`, `LedgerAssumption`, `CloneAssumption`, `WithdrawalAssumption`,
`IndexerAssumption`, `CustodyAssumption`, `RegistrationAssumption`, `SessionAssumption` and
`EventHubAssumption`. They say that sets of names are disjoint, numbers natural, workloads
made of the operations there are; `Requests` (of `Registration` and `Session`) and
`Connections` are finite, because their proofs count members, and so are the wallets and
salts of a clone, because its commitments are summed. `NoRowAssumption` and
`NoUserAssumption` say that the absent row is none of the rows. None bounds the number of
calls, instances, accounts, failures or retries: where a run says "one failure", the theorem
says any number.

The proofs follow one pattern. A lemma (`Effects`, `NextEffect`, `LockSteps`) sorts the
actions into the few effects they have on the state an invariant reads; one lemma per
invariant then goes through the effects instead of the actions; the theorem combines the
initial states and the step lemma by temporal logic.

`LedgerProofs`: `TypeCorrect` is inductive by itself. `OneTransactionPerKey` is not: a
step that commits must know that nobody else has committed or holds its key. `IInv` adds
`KeyReserved` (an open transaction's key is neither committed nor held by another, kept by
the wait on the unique index), `Unsettled` (a call that has not ended has neither
committed nor answered) and `FeeAccountHeld` (one transaction holds the fee account, and
the sum it read is current). `InvariantHolds` gives `KeysAreAppliedOnce`,
`RepliesNameTheOriginal` and `NoFeeIsLost`. `ServicesImplementAtomicLedger` maps the
abstract variables to the variables of the same name: `Commit` and `CommitAckLost` are
`Execute`, answers from a lookup are `Replay`, rejections are `Fail`, and all else stutters.
`NoVaultDepositIsLost` (`VaultProjection`) needs `UserLockHeld` (the mutex of a process lets
one of its deposits of a user in) and `VaultReadIsCurrent` (the sum read under the mutex is
still the committed one when nothing but that process' vault deposits moves the account,
`OneCrediter`).

`EntriesExplainTheLedger` (`LedgerExplained`) is about a sum over the committed
transactions, a fold over a set of any size. What a fold returns is an induction over data,
and the library's induction theorems cannot be instantiated; the proof goes round them.
`Additive(f, G)` says that `G` gives every subset of `f`'s domain a sum: 0 for none, and one
term more for one more member. `SumIsAdditive` shows that `SumFunction` agrees with any such
`G` on a finite set: a smallest subset on which they differ exists (`WFMin` on the strict
subset ordering) and cannot differ after all. The inductive invariant `Explained` carries
the witness: the committed transactions are finite, and each account has an additive `G`
with balance = opening balance + `G[txns]`. That a step keeps it follows from the
refinement: a step executes one request of `AtomicLedger`, which adds one term (`TermAdds`),
or leaves the sums alone.

`VaultCloneProofs`: `TypeCorrect` (no balance goes below zero);
`SignedOperationsNeverShareANonce` from "executed nonces are below the current one";
`SignaturesAreSpentOnce` from it; `RecoveryIsAlwaysArmed` with `ArmedInv` (time is never
0, only an owner names a recovery address); `OwnershipMovesOnlyByRule` from `ArmedInv`.
`CommitmentsAreCovered` (`CommitmentsBacked`) needs `Covered`: an additive witness for the
commitment balances, as in the ledger (`SumIsAdditive` stands in both modules), at most the
clone's tokens whenever the clone is in privacy mode or not deployed yet: before the
deployment decides the mode, tokens may arrive and nothing is owed. A step changes one
term (`TermChanges`) and the tokens by as much.

`WithdrawalProofs`: `ClaimsAreExclusive` needs `Discipline` (a sweeper has a row exactly
between its claim and its last update; a call makes its row in its last step). From both
follows that one worker executes a withdrawal at a time, so `DebitIsDue` (a worker about to
debit has made a broadcast that is not debited yet) is kept, and with it
`DebitsAreAlwaysBacked`. `SignedWithdrawalsMoveOnce` rests on `SignedRelays`: whatever is
broadcast for a signed withdrawal, how often and by whom, carries the nonce the signature
covers, and once one has moved USDC the clone's nonce is past it. `TimeLockIsKept` rests on
`RowsAreDue`: the rows in a sweeper's hands are due, and an elevated call executes nothing.
`SettledRowsAreFinal` follows from `Discipline` and exclusive claims: whoever broadcasts or
debits for a row has claimed it, and a claimed row is not settled.

`IndexerProofs`: `TransfersAreCreditedOnce` needs `KeysAgree` (every credit of a transfer
carries that transfer's one key; a clone's transfer is never flagged, so no operator credits
it under another). `CreditsStayConfirmed` needs `SeenIsFinal`: whatever a batch, a worker, a
row or an operator holds is below the reach of a reorganisation. `CursorNeverSkips` needs
`KeysAgree` and `Positions`: the stored cursor and every instance's own have passed only what is
done, the cursor to be stored only what is done or still held by the scan under way, and
every position lies in the confirmed chain or at a baseline, so that no payment lands below
it later; `MarkIsCredited` (an operator marks a row after its credit) covers the rows that
stop being flagged. `NoStrangerIsCredited` needs `ReadsWereLinks`: whatever the workers'
cache, the commitments of a scan, a credit about to be made and an operator's call hold was
in the table of links once (`linked`, a history variable). It says how far the stale
`addressUser` can go: a former owner, never a stranger.

`CustodyProofs`: `RowsAreAlwaysBacked` needs `Backing`: at each stored row, and at each
request about to store one, the clone is deployed, in the mempool or was lost by the node.
`CustodyImplementsOwnerSeat` needs `Flow` (which steps an operation takes and what it has
read there) and `Seats`: every transaction of the relayer carries what its account asked,
signed by the one it speaks for, and no recovery address is address(0), so that a recovery
empties no seat. `WalletFacts` sorts the calls of others by what they do to seat and heir. A
mined `create` is `Fill`, a mined `transfer` `Transfer`, a mined designation `Designate`, an
executed recovery `Recover`, a reset of the node `Reset`; a call of others is one of the
first four too; all else leaves seats and heirs alone. Evictions, competing account nonces
and stale reads do not show.

`RegistrationProofs`: `AccountsAreProven` needs `ProofInv`: a request past the comparison
submits a code that was in the mailbox, a request about to create has read a row whose
payload stood with that code, the row itself is such a pair, an account made by a sign-up is
verified. `WrongCodesAreCounted` needs `CodesAreFresh`: no more codes were made than requests
are past the statement, so a new code has not been guessed at.

`SessionProofs`: `Flow` says what is known of a request at each step.
`EnabledIsAlwaysProven` follows from it (who activates a secret has shown a code of it), and
so does `NewDevicesAreReported`. `PinGuessesAreBounded` needs `Guesses`, which counts two
ways: the wrong PINs of the window are at most those counted and those about to be, and
together with those still to be compared at most `MaxAttempts` and the peak. The first
bounds the second when the throttle lets one more request pass; a window that ends or is
cleared starts both again with the requests in flight. `FormerPasswordsSignOut` needs
`LoginIsCurrent`: a login that was let through, or has an open challenge, is of the password
in force, or on record as late, or a password change is not through (`ChangeIsOpen`).

`EventHubProofs`: `NoChangeIsMissed` needs `Registered`, that a handler past `Subscribe` is
registered until it returns, and `Informed`: security changes reach a connection's channel
from its registration on (`Hears`), before it is announced, money at the latest with the
announcement; and lemmas on what taking from, appending to and overflowing a
channel leave in it.

Only model-checked: liveness (`EveryCallReturns`, `SignedElevationsSettle`,
`ConfirmedIsHandled`, `CacheConverges`, `ReadersCatchUp`), which is out of this prover's
reach. Every other property of the passing runs is a theorem.
The type invariants of `Withdrawal` and `Indexer` are theorems only.

## 5. Statements that do not hold, and other observations

Five definitions state what a comment or the repository's README says and the code does not
do. They have no run; TLC finds them violated with the constants given.

* `Ledger.NoOverdraft` (`DebitInputs`, two requests, no faults): two debits each read the
  sum without a lock, both pass and together overdraw the account; `ledger.go` 104-105 and
  `money.go` 217 say the check is inside the transaction "to avoid race conditions".
* `Withdrawal.ElevationBroadcastOnce` (`UnsignedLocked`, one call, one sweeper, platform
  custody, fault `step`): when the debit fails after the broadcast, the row is released and
  broadcast again (`vault.go` 2021); the README (902) says the claim stops double broadcasts.
* `Withdrawal.KeyMovesOnce` (`ImmediateRetry`, two calls, no sweeper, platform custody): the
  replay lookup and the recording are separated by the broadcast (`vault.go` 1145-1147).
* `Indexer.PaymentCreditedOnce` (`OwnPrivate`, one instance, no operators, no faults): a
  privacy deposit from a linked wallet is credited for its transfer and for its event
  (`vault.go` 409-432).
* `Indexer.NeverDropped` (`CloneAndVault`, one instance, no operators, fault `crash`,
  `MaxLinks` = 2): a worker writes the row `deposited` and the process dies before the
  credit; the wallet is relinked; the rescan finds no user, and the insert of the flag meets
  the row and does nothing. The payment is neither credited nor flagged, and the operator's
  attribution refuses it. `vault.go` 691-692 says "never silently drop money". The attempt to
  prove `CursorSkipsNothing` without `orphaned` found it.

Seen while modelling:

* `balances` may differ from the ledger when user calls race each other or a vault
  deposit, or when two instances credit one user (a deposed leader, an operator's
  attribution): `lockFor` covers the vault deposits of one process only (`vault.go` 176-179),
  while its comment (125-127) says no balance update can be lost. The ledger itself is right
  (`LedgerExplained`), and `VaultProjection` says where the projection is.
* `move`'s overflow rule refuses a deposit to an overdrawn account (`ledger.go` 109), so
  an overdraft can cost an indexed deposit.
* A replay that loses the race files a second notice (`money.go` 122-123).
* The daily cap is checked before, and recorded after, the broadcast (`vault.go` 1033).
* There is no check of the on-chain balance before the broadcast (`README.md` 864-867),
  and a signature may expire before release though the README (894-895) says such a
  request is rejected.
* A row whose `ReleaseClaim` is refused by the unique index stays `broadcasting`. A hundred
  rows that fail and are released at every sweep keep newer ones waiting (`elevation_repo.go` 69-73).
* `createClone` and the factory's `setRecoveryDelay` check no caller: whoever calls first names
  the owner of an account's clone, and `EnsureClone` stores the row without reading the
  owner back; anybody arms or disarms recovery (`GlobmintVaultFactory.sol` 69, 102).
* A deposit whose credit fails is only logged; its row is `deposited`, so the operator's
  attribution is a no-op, and the cursor moves on.
* `addressUser` is never refreshed (`vault.go` 116 says "refreshed per scan").
* Two transfers to clones in one transaction share a key: one is credited.
* When a window has no log the cursor stays (`vault.go` 417-418 says it takes "the full
  window").
* A clone in privacy mode cannot pay out plain transfers (`GlobmintVaultClone.sol`
  26-27); `withdrawWithSalt` ignores the direct-withdrawal switch; a recovery address
  outlives a handover.
* `isCustodyClaimed` takes an owner of address zero for a claimed seat (`vault.go` 1689;
  the comment at 1635-1637 says otherwise).
* `SetRecoveryAddressBySig` never compares a non-zero relay nonce with the chain
  (`vault.go` 1496-1503; comment 1464-1468): such a relay is reverted by the clone.
* The custody write-through stores empty recovery columns (`vault.go` 1667-1670); the
  reconciler repairs them, which is part of `CacheConverges`.
* A second sign-up that meets an existing row does not replace the staged payload, and a
  resend before the sign-up leaves the row without one; a late `Clear` may delete a newer
  code; concurrent issues both pass the cooldown (`auth.go` 479-509).
* A login or challenge that was under way when the password changed survives the
  revocation (`late` in `FormerPasswordSignsOut`).
* `GenerateTOTP` beside `EnableTOTP` turns a just enabled second factor off without an
  error (`auth.go` 366); two first PINs may race (`vault_handler.go` 102).
* Two first logins of one new device at the same time count two sessions each, so neither
  is reported as new (`auth.go` 786).
* The PIN of a withdrawal is not throttled (`vault_handler.go` 244) though the README (863)
  says "verified PIN (throttled)"; nor is that of `DisableTOTP` (`auth.go` 397), nor the
  current password of `ChangePassword` (428), and none of their failures is counted. Behind
  the gate, guesses in flight together exceed the limit by as many (`PinGuessesBounded`).
* A throttled login still accepts the right password; `verifyTOTP`'s drift is added as
  nanoseconds, so only the current step is accepted (`totp.go`).
* The hub is per process: a change made by another instance is not announced.
* A client that reconnects does not catch up on security changes: the "connected" event is
  of kind `all`, which refreshes financial data only (`app_scaffold.dart` 93-96). The comments there
  (94-95, "anything missed while disconnected"), in `events_handler.go` (45-46) and in
  `hub.go` (30-31, "a fresh SSE reconnect re-syncs state anyway") say otherwise. A security
  event that was dropped, or a change that was committed and never published (a failed
  `RevokeAllExcept`, `auth.go` 438-440), leaves the client stale until the next security event.

## 6. Not modelled, and the plan

Not modelled, with the reasons: the shared vault contracts V1 and V2 (their events are the
indexer's inputs; the per-user clones replace them); salts (the indexer sees only the
commitment map); rate limiter, idempotency and chaos middleware (request plumbing); market
rates, fees and money arithmetic (pure functions, a candidate for operators checked against
reference definitions); configuration and start-up checks (straight-line code, its settings
are the CONSTANTS); alert e-mails, preferences, lists and other reads (no state the
properties speak of); mailer, metrics, command-line tools, the mock chain client (I/O or
test code); the Flutter client and the landing site.

Order of the work, the most important behaviour first:

1. `LedgerOps`, `AtomicLedger`, `Ledger`, `LedgerProofs`: done.
2. `VaultClone`, `VaultCloneProofs`: done.
3. `Withdrawal`, `Indexer` and their proofs: done.
4. `OwnerSeat`, `Custody` and the proof of the refinement: done.
5. `Registration`, `Session`, `EventHub` and their proofs: done.
6. The two sums, `LedgerExplained` and `CommitmentsBacked`, and the finality of elevations
   and ownership of credits: done.
7. `SharedVault` (V1 and V2) and `MoneyMath` (rounding, fees, conversions).
