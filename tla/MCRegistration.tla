--------------------------- MODULE MCRegistration ---------------------------
(***************************************************************************)
(* Instances of Registration for TLC: which requests reach the address.    *)
(***************************************************************************)
EXTENDS Registration, TLC

CONSTANTS r1, r2, r3, r4

Four(a, b, c, d) == (r1 :> a @@ r2 :> b @@ r3 :> c @@ r4 :> d)

\* Two signups, or a signup and a resend, with two submissions beside them;
\* one signup with three submissions.
AllWorkloads ==
    {Four("register", "register", "verify", "verify"),
     Four("register", "send", "verify", "verify"),
     Four("register", "verify", "verify", "verify"),
     Four("send", "send", "verify", "verify")}
=============================================================================
