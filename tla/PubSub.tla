------------------------------- MODULE PubSub -------------------------------
(***************************************************************************)
(* What the event broker of src/broker promises to the goroutines that     *)
(* publish and subscribe, without its channels: published messages are     *)
(* dispatched one at a time in publication order, and the message being    *)
(* dispatched may reach a member's inbox once, or be missed by it, but     *)
(* never reaches a goroutine that has not joined yet or has left, and      *)
(* never arrives out of order.  Messages are the numbers of their          *)
(* publications.                                                           *)
(***************************************************************************)
EXTENDS Naturals, Sequences

CONSTANT Chans            \* the channels subscribers read from

VARIABLES
  accepted,               \* how many messages Publish has accepted
  pos,                    \* the message being (or last) dispatched
  member,                 \* Chans -> whether the channel is out, in or gone
  from,                   \* Chans -> pos when the channel joined
  inbox                   \* Chans -> every message it was ever given

vars == <<accepted, pos, member, from, inbox>>

Init ==
  /\ accepted = 0
  /\ pos = 0
  /\ member = [c \in Chans |-> "out"]
  /\ from = [c \in Chans |-> 0]
  /\ inbox = [c \in Chans |-> <<>>]

Accept ==
  /\ accepted' = accepted + 1
  /\ UNCHANGED <<pos, member, from, inbox>>

Dispatch ==
  /\ pos < accepted
  /\ pos' = pos + 1
  /\ UNCHANGED <<accepted, member, from, inbox>>

Join(c) ==
  /\ member[c] = "out"
  /\ member' = [member EXCEPT ![c] = "in"]
  /\ from' = [from EXCEPT ![c] = pos]
  /\ UNCHANGED <<accepted, pos, inbox>>

Leave(c) ==
  /\ member[c] = "in"
  /\ member' = [member EXCEPT ![c] = "gone"]
  /\ UNCHANGED <<accepted, pos, from, inbox>>

Deliver(c) ==
  /\ member[c] = "in"
  /\ from[c] < pos
  /\ \A i \in 1..Len(inbox[c]) : inbox[c][i] < pos
  /\ inbox' = [inbox EXCEPT ![c] = Append(@, pos)]
  /\ UNCHANGED <<accepted, pos, member, from>>

Next ==
  \/ Accept
  \/ Dispatch
  \/ \E c \in Chans : Join(c) \/ Leave(c) \/ Deliver(c)

Spec == Init /\ [][Next]_vars
=============================================================================
