----------------------------- MODULE MCSession ------------------------------
(***************************************************************************)
(* Instances of Session for TLC: which requests run at the same time.      *)
(***************************************************************************)
EXTENDS Session, TLC

CONSTANTS r1, r2, r3, s1, s2, x1

Phone == "phone"
Laptop == "laptop"
DeviceOfOld == (s1 :> Phone @@ s2 :> Phone @@ x1 :> Laptop)

Ask(op, as) == [op |-> op, as |-> as, target |-> s2, device |-> Laptop,
                password |-> "p0", next |-> "p1", pin |-> "n0"]
Wrong(op, as) == [Ask(op, as) EXCEPT !.password = "no", !.pin = "no"]

Three(A, B, C) == {(r1 :> a @@ r2 :> b @@ r3 :> c) : a \in A, b \in B, c \in C}

LoginAsk == Ask("login", s1)
Answer2FA == Ask("verify2fa", s1)
Change == Ask("changePassword", s1)
Again == [Change EXCEPT !.as = s2, !.next = "p2"]
Setup == Ask("generateTOTP", s1)
Enable == Ask("enableTOTP", s2)
Disable == Ask("disableTOTP", s1)
Pins == {Ask("setPin", s1), Wrong("verifyPin", s2), Wrong("setPin", s2)}

\* A login and its second factor around a password change; setups and
\* enablings of the authenticator; devices signing out and being signed out;
\* wrong passwords and PINs.
AllWorkloads ==
    Three({LoginAsk}, {Answer2FA, [LoginAsk EXCEPT !.device = "tablet"]}, {Change, Ask("revokeOthers", s1)})
    \cup Three({Change}, {Again}, {LoginAsk, Ask("logout", s2), Ask("revokeDevice", s1)})
    \cup Three({Setup}, {Enable}, {[Setup EXCEPT !.as = s2], Disable, LoginAsk})
    \cup Three({Setup}, {LoginAsk}, {[Ask("revokeDevice", s1) EXCEPT !.target = x1]})
    \cup Three({Wrong("login", s1)}, {Wrong("login", s1)}, {LoginAsk, Wrong("login", s1)})
    \cup Three(Pins, {Wrong("verifyPin", s1)}, {Wrong("verifyPin", s1), Disable, Ask("withdraw", s1)})

=============================================================================
