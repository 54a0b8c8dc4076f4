----------------------------- MODULE MCLoginFlow -----------------------------
EXTENDS LoginFlow, TLC

CONSTANTS ann, bob, pw1, pw2

MCEmails == {ann, bob}
MCPasswords == {pw1, pw2}

\* One of the two has an account.
MCRegistered == (ann :> pw1) @@ (bob :> Blank)
=============================================================================
