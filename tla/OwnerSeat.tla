----------------------------- MODULE OwnerSeat ------------------------------
(***************************************************************************)
(* Who may hold the owner seat of a clone, and be named to take it over:   *)
(* the seat is filled by a deployment somebody asked for, and then moves   *)
(* only to whom its holder of that moment signed it over, or to the heir,  *)
(* a recovery address that a holder named while it held the seat.  The     *)
(* platform as a holder signs the seat over only to wallets named in       *)
(* claims, and names no heir.  Custody implements it.                      *)
(***************************************************************************)
CONSTANTS Users, Addr, Zero, None

VARIABLES
    seat,          \* user |-> owner of the clone, Zero while there is none
    heir,          \* user |-> recovery address of the clone, or None
    deployments,   \* <<user, owner>>: a deployment for the owner was asked for
    transfers,     \* <<user, holder, address>>: the holder signs the seat over
    designations   \* <<user, holder, address>>: the holder names the heir

seatVars == <<seat, heir, deployments, transfers, designations>>

\* What is asked for only grows, and is the environment's choice.  An owner
\* asks and acts in one step when it calls the clone itself.
Asked ==
    /\ deployments \subseteq deployments'
    /\ transfers \subseteq transfers'
    /\ designations \subseteq designations'

Fill(u, a) ==
    /\ seat[u] = Zero
    /\ <<u, a>> \in deployments'
    /\ seat' = [seat EXCEPT ![u] = a]
    /\ heir' = [heir EXCEPT ![u] = None]

Transfer(u, a) ==
    /\ seat[u] # Zero
    /\ <<u, seat[u], a>> \in transfers'
    /\ seat' = [seat EXCEPT ![u] = a]
    /\ UNCHANGED heir

Designate(u, a) ==
    /\ seat[u] # Zero
    /\ <<u, seat[u], a>> \in designations'
    /\ heir' = [heir EXCEPT ![u] = a]
    /\ UNCHANGED seat

Recover(u) ==
    /\ seat[u] # Zero
    /\ heir[u] # None
    /\ seat' = [seat EXCEPT ![u] = heir[u]]
    /\ UNCHANGED heir

\* A development node that is reset forgets every contract.
Reset ==
    /\ seat' = [u \in Users |-> Zero]
    /\ heir' = [u \in Users |-> None]

SeatInit ==
    \A u \in Users : (seat[u] = Zero \/ <<u, seat[u]>> \in deployments) /\ heir[u] = None

SeatNext ==
    /\ Asked
    /\ \/ UNCHANGED <<seat, heir>>
       \/ Reset
       \/ \E u \in Users : Recover(u)
       \/ \E u \in Users, a \in Addr : Fill(u, a) \/ Transfer(u, a) \/ Designate(u, a)

SeatSpec == SeatInit /\ [][SeatNext]_seatVars
=============================================================================
