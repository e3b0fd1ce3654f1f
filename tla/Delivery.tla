------------------------------ MODULE Delivery ------------------------------
(***************************************************************************)
(* What an application may rely on when it talks through stored ratchets:  *)
(* a message it is shown was posted to its inbox, messages are shown in the *)
(* order of the inbox, and none is shown twice.  Messages may be missing.  *)
(***************************************************************************)
EXTENDS Naturals, Sequences

CONSTANT Reader      \* the parties that have an inbox

VARIABLES
  posted,    \* posted[p]: how many messages the inbox of p has received
  shown      \* shown[p]: the inbox positions shown to p, in order

vars == <<posted, shown>>

LastShown(p) == IF shown[p] = << >> THEN 0 ELSE shown[p][Len(shown[p])]

Init ==
  /\ posted = [p \in Reader |-> 0]
  /\ shown = [p \in Reader |-> << >>]

Post(p) ==
  /\ posted' = [posted EXCEPT ![p] = @ + 1]
  /\ UNCHANGED shown

Show(p) ==
  /\ \E i \in LastShown(p) + 1 .. posted[p] :
       shown' = [shown EXCEPT ![p] = Append(@, i)]
  /\ UNCHANGED posted

Next == \E p \in Reader : Post(p) \/ Show(p)

Spec == Init /\ [][Next]_vars
=============================================================================
