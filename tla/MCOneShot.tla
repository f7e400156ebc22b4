------------------------------ MODULE MCOneShot ------------------------------
EXTENDS OneShot, TLC

CONSTANTS a, b, s1, s2, c1

\* s1 and its cancellation belong to one Session, s2 to another.
MCSessionOf == (s1 :> a) @@ (s2 :> b) @@ (c1 :> a)

MCTarget == c1 :> s1

MCDelay == (s1 :> 2) @@ (s2 :> 1)

===============================================================================
