-------------------------- MODULE MCSessionJournal --------------------------
(* Model values for SessionJournal: every caller of one small Journal.  The *)
(* Journal compares deliveries and claim tokens for equality only.          *)
EXTENDS SessionJournal, TLC

JournalSymmetry == Permutations(Facts) \cup Permutations(Tokens)

=============================================================================
