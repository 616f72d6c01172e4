------------------------------- MODULE Thread --------------------------------
(***************************************************************************)
(* What one conversation promises its two participants, without requests,  *)
(* database or moderation.  It is opened once, closed by one side, and     *)
(* reopened only from the owner's closure.  Writing is let in while it is  *)
(* open; what was let in before a close may still arrive after it, and     *)
(* nothing else does.  The address is disclosed once, while it is open.    *)
(***************************************************************************)
EXTENDS Naturals

CONSTANTS
  Conversation,
  Ticket         \* a write that was let in and has not arrived yet

VARIABLES phase, disclosed, said, admitted

threadVars == <<phase, disclosed, said, admitted>>

Phase == {"none", "open", "closedByOwner", "closedByEnquirer"}

ThreadTypeOK ==
  /\ phase \in [Conversation -> Phase]
  /\ disclosed \in [Conversation -> BOOLEAN]
  /\ said \in [Conversation -> Nat]
  /\ admitted \in [Conversation -> SUBSET Ticket]

\* Opening or reopening may bring a message with it: n is 0 or 1.
OpenFrom(c, before, n) ==
  /\ phase[c] = before
  /\ phase' = [phase EXCEPT ![c] = "open"]
  /\ said' = [said EXCEPT ![c] = @ + n]
  /\ UNCHANGED <<disclosed, admitted>>

Begin(c, n) == OpenFrom(c, "none", n)
Reopen(c, n) == OpenFrom(c, "closedByOwner", n)

Admit(c, t) ==
  /\ phase[c] = "open"
  /\ t \notin admitted[c]
  /\ admitted' = [admitted EXCEPT ![c] = @ \cup {t}]
  /\ UNCHANGED <<phase, disclosed, said>>

\* A write that was let in arrives, with a message or without one.
Arrival(c, t, n) ==
  /\ t \in admitted[c]
  /\ admitted' = [admitted EXCEPT ![c] = @ \ {t}]
  /\ said' = [said EXCEPT ![c] = @ + n]
  /\ UNCHANGED <<phase, disclosed>>

Shut(c, by) ==
  /\ phase[c] = "open"
  /\ phase' = [phase EXCEPT ![c] = by]
  /\ UNCHANGED <<disclosed, said, admitted>>

Disclose(c) ==
  /\ phase[c] = "open" /\ ~disclosed[c]
  /\ disclosed' = [disclosed EXCEPT ![c] = TRUE]
  /\ UNCHANGED <<phase, said, admitted>>

ThreadInit ==
  /\ phase = [c \in Conversation |-> "none"]
  /\ disclosed = [c \in Conversation |-> FALSE]
  /\ said = [c \in Conversation |-> 0]
  /\ admitted = [c \in Conversation |-> {}]

ThreadNext ==
  \E c \in Conversation :
    \/ \E n \in {0, 1} : Begin(c, n) \/ Reopen(c, n)
    \/ \E t \in Ticket : Admit(c, t) \/ \E n \in {0, 1} : Arrival(c, t, n)
    \/ \E by \in {"closedByOwner", "closedByEnquirer"} : Shut(c, by)
    \/ Disclose(c)

ThreadSpec == ThreadInit /\ [][ThreadNext]_threadVars

=============================================================================
