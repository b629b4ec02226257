-------------------------- MODULE ReshardTransfer --------------------------
(***************************************************************************)
(* What the reshard of a pipelined call promises, whatever rings, threads  *)
(* and streams carry it: each card sends its batches to the other in       *)
(* order, at most Depth of them are under way, and every batch that        *)
(* arrives is the next one, whole and once. Either side may stop at any    *)
(* batch.                                                                  *)
(***************************************************************************)
EXTENDS Naturals, Sequences

CONSTANTS Cards, Depth

VARIABLES
  way,   \* per card, the batches it sent that are under way
  got    \* per card, the batches of the other card it received
vars == <<way, got>>

Peer(c) == CHOOSE d \in Cards : d # c

Init == way = [c \in Cards |-> <<>>] /\ got = [c \in Cards |-> <<>>]

Send(c) ==
  /\ Len(way[c]) < Depth
  /\ way' = [way EXCEPT ![c] = Append(@, Len(got[Peer(c)]) + Len(@))]
  /\ UNCHANGED got

Receive(c) ==
  /\ way[Peer(c)] # <<>>
  /\ got' = [got EXCEPT ![c] = Append(@, Head(way[Peer(c)]))]
  /\ way' = [way EXCEPT ![Peer(c)] = Tail(@)]

Next == \E c \in Cards : Send(c) \/ Receive(c)

Spec == Init /\ [][Next]_vars
=============================================================================
