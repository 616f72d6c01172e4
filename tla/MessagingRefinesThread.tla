------------------------ MODULE MessagingRefinesThread -----------------------
(***************************************************************************)
(* Messaging implements Thread: every conversation of the server keeps the *)
(* promise, whatever the interleaving of its handlers.                     *)
(***************************************************************************)
EXTENDS MessagingProperties

\* The phase the closed_at and closed_by columns stand for.
PhaseOf(c) ==
  CASE ~Exists(c) -> "none"
    [] Exists(c) /\ ~Closed(c) -> "open"
    [] Exists(c) /\ conv[c].closedBy = OwnerOf(c) -> "closedByOwner"
    [] OTHER -> "closedByEnquirer"

T == INSTANCE Thread WITH
       Conversation <- Pair,
       Ticket <- Handler,
       phase <- [c \in Pair |-> PhaseOf(c)],
       disclosed <- [c \in Pair |-> conv[c].shared],
       said <- [c \in Pair |-> Len(messages[c])],
       admitted <- [c \in Pair |-> Late(c)]

\* A close stops admission and not more; a reopening needs the owner's own
\* closure; the address is disclosed once and while open: the handlers of
\* conversations.go, messages.go and offers.go together do only what Thread
\* allows.
KeepsThePromise == T!ThreadSpec

=============================================================================
