------------------------------ MODULE MCAccounts ------------------------------
(***************************************************************************)
(* Instances of Accounts for TLC.                                          *)
(***************************************************************************)
EXTENDS AccountsProperties, TLC

\* Token identifiers, links and handlers are interchangeable.
MCSymmetry == Permutations(Session) \cup Permutations(Link) \cup Permutations(Handler)
===============================================================================
