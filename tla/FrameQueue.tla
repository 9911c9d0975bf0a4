----------------------------- MODULE FrameQueue -----------------------------
(***************************************************************************)
(* What a point to point connection promises: the messages accepted from   *)
(* the sender come out in the order they went in, each once.  The stream   *)
(* may break; what was accepted before is still owed in order, and nothing *)
(* is known of what comes out after it.                                    *)
(***************************************************************************)
EXTENDS Naturals, Sequences

CONSTANT Message   \* whatever a receiver may be handed

VARIABLES accepted, delivered, broken

queueVars == <<accepted, delivered, broken>>

Init == accepted = <<>> /\ delivered = <<>> /\ broken = FALSE

Accept(m) ==
  /\ ~ broken
  /\ accepted' = Append(accepted, m)
  /\ UNCHANGED <<delivered, broken>>

Break == ~ broken /\ broken' = TRUE /\ UNCHANGED <<accepted, delivered>>

Deliver ==
  /\ Len(delivered) < Len(accepted)
  /\ delivered' = Append(delivered, accepted[Len(delivered) + 1])
  /\ UNCHANGED <<accepted, broken>>

Garble(m) ==
  /\ broken
  /\ Len(delivered) >= Len(accepted)
  /\ delivered' = Append(delivered, m)
  /\ UNCHANGED <<accepted, broken>>

Next == (\E m \in Message : Accept(m) \/ Garble(m)) \/ Break \/ Deliver

Spec == Init /\ [][Next]_queueVars
=============================================================================
