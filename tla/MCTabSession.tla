---------------------------- MODULE MCTabSession ----------------------------
(* TabSession for TLC.                                                     *)
EXTENDS TabSession, TLC

CONSTANTS alice, bob, c1, c2

MCUser == {alice, bob}
MCOneUser == {alice}
MCCall == {c1, c2}
MCOneCall == {c1}

\* The refresh run looks at one page that stays: what chats, sign-outs and other pages add is the other run's part.
OnePage == page \in {"login", "app"} /\ chat = None /\ leave = "no"

\* The pages run: alice is the first to sign in, as the users are interchangeable, and the page of the second sign-in
\* makes no calls of its own.  Only steps without fairness are cut.
AliceFirst == sess = 0 /\ sess' = 1 => user'[1] = alice
QuietSecondPage == sess = 2 => \A c \in Call : calls[c].pc = "idle" => calls'[c].pc = "idle"

CallSymmetry == Permutations(MCCall)
=============================================================================
