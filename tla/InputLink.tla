----------------------------- MODULE InputLink -----------------------------
(***************************************************************************)
(* What the input of a console promises, whatever the pump of              *)
(* build_session (src/src/spice_session.rs) does to keep up: events are    *)
(* put into effect in the order they were sent, none is lost and none      *)
(* comes twice, but that a motion may be left out when another motion is   *)
(* right behind it.  Nothing gets through before there is a channel to the *)
(* guest, nor once the console has been told to shut down.                 *)
(***************************************************************************)
EXTENDS SequencesExt

CONSTANTS
  Event,    \* what can be sent
  Motions,  \* the motions among them
  Shutdown, \* the event that ends the link
  None      \* no event yet

VARIABLES
  link,      \* what has been sent and not put into effect
  told,      \* the event put into effect last
  listening, \* is there a channel to the guest?
  closed     \* has the console been shut down?

vars == <<link, told, listening, closed>>

Init == link = <<>> /\ told = None /\ ~listening /\ ~closed

Send(e) ==
  /\ link' = Append(link, e)
  /\ UNCHANGED <<told, listening, closed>>

Listen ==
  /\ listening' = TRUE
  /\ UNCHANGED <<link, told, closed>>

Tell ==
  /\ listening /\ ~closed
  /\ link # <<>> /\ Head(link) # Shutdown
  /\ told' = Head(link)
  /\ link' = Tail(link)
  /\ UNCHANGED <<listening, closed>>

(* A motion on the heels of another makes it superfluous.                  *)
Supersede(i) ==
  /\ {i, i + 1} \subseteq DOMAIN link
  /\ {link[i], link[i + 1]} \subseteq Motions
  /\ link' = RemoveAt(link, i)
  /\ UNCHANGED <<told, listening, closed>>

(* What was sent before the guest listens is gone.                         *)
Lose ==
  /\ ~listening
  /\ \E n \in DOMAIN link : link' = SubSeq(link, n + 1, Len(link))
  /\ UNCHANGED <<told, listening, closed>>

(* Shutdown overtakes whatever is still on its way.                        *)
Close ==
  /\ \E i \in DOMAIN link : link[i] = Shutdown
  /\ link' = <<>>
  /\ closed' = TRUE
  /\ UNCHANGED <<told, listening>>

Next ==
  \/ \E e \in Event : Send(e)
  \/ Listen
  \/ Tell
  \/ \E i \in DOMAIN link : Supersede(i)
  \/ Lose
  \/ Close

Spec == Init /\ [][Next]_vars

=============================================================================
