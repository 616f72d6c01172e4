----------------------------- MODULE MCMessaging -----------------------------
(***************************************************************************)
(* Instances of Messaging for TLC: one listing of o, and one or two        *)
(* housing requests of the student s.                                      *)
(***************************************************************************)
EXTENDS MessagingRefinesThread, TLC

CONSTANTS o, s, l1

\* o owns every listing, s posted every request.
MCOwner == [l \in Listing |-> o]
MCPoster == [r \in Post |-> s]

\* Handlers and housing requests are interchangeable.
MCSymmetry == Permutations(Handler) \cup Permutations(Post)
=============================================================================
