---------------------------- MODULE OrderedChannel ----------------------------
(***************************************************************************)
(* What reliable-ordered delivery promises one connection: what has been   *)
(* delivered is, in order and without gap, repetition or foreign payload,  *)
(* the beginning of what was sent.  A connection that is opened anew       *)
(* starts from nothing.                                                    *)
(***************************************************************************)
EXTENDS Naturals, Sequences

CONSTANT Payload

VARIABLES sent, delivered

vars == <<sent, delivered>>

Init == sent = <<>> /\ delivered = <<>>

Send(p) ==
  /\ sent' = Append(sent, p)
  /\ UNCHANGED delivered

Deliver ==
  /\ Len(delivered) < Len(sent)
  /\ delivered' = Append(delivered, sent[Len(delivered) + 1])
  /\ UNCHANGED sent

Open == sent' = <<>> /\ delivered' = <<>>

Next == Deliver \/ Open \/ \E p \in Payload : Send(p)

Spec == Init /\ [][Next]_vars
=============================================================================
