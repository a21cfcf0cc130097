------------------------------ MODULE MCLedger ------------------------------
(***************************************************************************)
(* Instances of Ledger for TLC: one user with an available, a savings and  *)
(* a USDC account, and the platform fee account.                           *)
(***************************************************************************)
EXTENDS Ledger, TLC

CONSTANTS avail, savings, usdc, fees, k1, k2, none, nokey, i1, i2

MCAccounts == {avail, savings, usdc, fees}

In(op, key, from, to, amount, fee) ==
    [op |-> op, key |-> key, from |-> from, to |-> to, amount |-> amount,
     fee |-> fee, out |-> amount, quoted |-> TRUE, at |-> i1]

\* One client retrying under k1 with every operation, among calls under
\* another key or none.
MixedInputs ==
    {In("Deposit", k1, avail, none, 1, 0),
     In("Withdraw", k1, avail, none, 2, 0),
     In("WithdrawExternal", k1, avail, fees, 1, 1),
     In("WithdrawExternal", nokey, avail, fees, 1, 1),
     In("WithdrawExternal", k2, avail, fees, 1, 0),
     In("Transfer", k1, avail, savings, 1, 0),
     In("Transfer", nokey, avail, none, 1, 1),
     In("Convert", k1, avail, usdc, 2, 0),
     In("Convert", nokey, usdc, avail, 1, 0),
     In("VaultDeposit", k2, avail, none, 1, 0)}

\* The same beside vault deposits, run by one process or two, and a withdrawal
\* of another user, whose available account savings stands for here, and
\* requests that are refused at each of the places that refuse one.
SafetyInputs ==
    {In("Deposit", k1, avail, none, 1, 0),
     In("Deposit", k1, avail, none, 0, 0),
     In("Deposit", nokey, usdc, none, 1, 0),
     In("Deposit", k2, avail, none, 9, 0),
     In("Withdraw", k1, avail, none, 2, 0),
     In("WithdrawExternal", k1, avail, fees, 1, 1),
     In("WithdrawExternal", nokey, avail, fees, 1, 1),
     In("WithdrawExternal", nokey, savings, fees, 1, 1),
     In("WithdrawExternal", k2, avail, fees, 1, 0),
     In("Transfer", k1, avail, usdc, 1, 0),
     In("Transfer", nokey, avail, none, 0, 1),
     In("Convert", k1, avail, usdc, 2, 0),
     [In("Convert", k1, avail, usdc, 1, 0) EXCEPT !.quoted = FALSE],
     In("Convert", nokey, usdc, avail, 1, 0),
     In("VaultDeposit", k1, savings, none, 1, 0),
     In("VaultDeposit", k2, savings, none, 1, 0),
     [In("VaultDeposit", k2, savings, none, 1, 0) EXCEPT !.at = i2]}

\* Two debits, each covered by the balance alone.
DebitInputs ==
    {In("Withdraw", k1, avail, none, 2, 0),
     In("Withdraw", k2, avail, none, 2, 0)}

MCInitLedger == [a \in MCAccounts |-> IF a \in {avail, usdc} THEN 2 ELSE 0]

\* Nothing was ever deposited in USDC: its account does not exist yet.
EdgeInitLedger == [a \in MCAccounts |-> IF a \in {avail, savings} THEN 2 ELSE 0]

Symmetry == Permutations(Requests)
=============================================================================
