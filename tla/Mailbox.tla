------------------------------- MODULE Mailbox -------------------------------
(***************************************************************************)
(* What the receiving side of an SBus promises recv(): one box of incoming *)
(* messages for all sources.  Messages of a source are posted in the order *)
(* they arrived, once each; when a source ends, one notice is posted after *)
(* all that was read from it, and nothing after the notice.                *)
(***************************************************************************)
EXTENDS Sequences

CONSTANTS
  Source,      \* connections and multicast sockets
  Multicast,   \* the source that can be reopened
  Message,
  Notice       \* what is posted when a source ends

VARIABLES
  chan,    \* per source, what arrived and was not read yet
  ended,   \* sources whose end was posted
  box      \* posted and not yet taken

mailVars == <<chan, ended, box>>

Init ==
  /\ chan = [s \in Source |-> <<>>]
  /\ ended = {}
  /\ box = <<>>

Arrive(s, m) ==
  /\ s \notin ended
  /\ chan' = [chan EXCEPT ![s] = Append(@, m)]
  /\ UNCHANGED <<ended, box>>

(* The network gives up what was not read. *)
Lose(s) == chan' = [chan EXCEPT ![s] = <<>>] /\ UNCHANGED <<ended, box>>

Post(s) ==
  /\ chan[s] # <<>>
  /\ chan' = [chan EXCEPT ![s] = Tail(@)]
  /\ box' = Append(box, [src |-> s, what |-> Head(chan[s])])
  /\ UNCHANGED ended

End(s) ==
  /\ s \notin ended
  /\ chan[s] = <<>> \/ s = Multicast
  /\ chan' = [chan EXCEPT ![s] = <<>>]
  /\ box' = Append(box, [src |-> s, what |-> Notice])
  /\ ended' = ended \cup ({s} \ {Multicast})

(* The end of the multicast source may be announced although it goes on.   *)
FalseAlarm ==
  /\ box' = Append(box, [src |-> Multicast, what |-> Notice])
  /\ UNCHANGED <<chan, ended>>

Take ==
  /\ box # <<>>
  /\ box' = Tail(box)
  /\ UNCHANGED <<chan, ended>>

Next ==
  \/ \E s \in Source :
       (\E m \in Message : Arrive(s, m)) \/ Lose(s) \/ Post(s) \/ End(s)
  \/ FalseAlarm \/ Take

Spec == Init /\ [][Next]_mailVars
=============================================================================
