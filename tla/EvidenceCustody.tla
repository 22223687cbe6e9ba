--------------------------- MODULE EvidenceCustody ---------------------------
(***************************************************************************)
(* What a session promises about the audio it is given, without saying how.*)
(* While it is open, a slot can be filled once.  The freeze fixes a        *)
(* promise that covers everything held so far; from then on only what was  *)
(* promised is taken.  It is sealed when what is held is exactly what was  *)
(* promised, and void only when nothing was ever held.                     *)
(***************************************************************************)
CONSTANTS Slots, Items, None, Promises

VARIABLES phase, promise, held

custodyVars == <<phase, promise, held>>

Nothing == [n \in Slots |-> None]

Init == phase = "open" /\ promise = Nothing /\ held = Nothing

(* Something is taken into an empty slot. *)
Hold(n) ==
  /\ held[n] = None
  /\ held'[n] \in Items
  /\ held' = [held EXCEPT ![n] = held'[n]]
  /\ phase \in {"open", "frozen"}
  /\ phase = "frozen" => promise[n] = held'[n]
  /\ UNCHANGED <<phase, promise>>

Freeze ==
  /\ phase = "open"
  /\ phase' = "frozen"
  /\ promise' \in Promises
  /\ \A n \in Slots : held[n] \in {None, promise'[n]}
  /\ UNCHANGED held

Seal ==
  /\ phase = "frozen"
  /\ phase' = "sealed"
  /\ held = promise
  /\ UNCHANGED <<promise, held>>

Void ==
  /\ phase = "open"
  /\ phase' = "void"
  /\ held = Nothing
  /\ UNCHANGED <<promise, held>>

Next ==
  \/ \E n \in Slots : Hold(n)
  \/ Freeze
  \/ Seal
  \/ Void

Spec == Init /\ [][Next]_custodyVars
=============================================================================
