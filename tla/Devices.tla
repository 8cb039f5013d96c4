------------------------------ MODULE Devices -------------------------------
(***************************************************************************)
(* What an account's owner is shown of its sessions: the devices that are  *)
(* signed in, one entry each.  A device is signed in once; it may be       *)
(* between two tokens while it exchanges one for the next; it goes out for *)
(* good.  Sessions implements this.                                        *)
(***************************************************************************)
CONSTANT Device

VARIABLE device

DeviceStates == {"unused", "in", "turning", "out"}

Init == device = [d \in Device |-> "unused"]

Moves(d, from, to) == device[d] = from /\ device' = [device EXCEPT ![d] = to]

SignIn(d) == Moves(d, "unused", "in")

(* The device gives its token up for the next one, and gets it... *)
Turn(d) == Moves(d, "in", "turning")

Turned(d) == Moves(d, "turning", "in")

(* ...or the exchange breaks off, and it has none. *)
Lose(d) == Moves(d, "turning", "out")

(* Some of the devices that are in are signed out, at once. *)
SignOut(D) ==
  device' = [d \in Device |-> IF d \in D THEN "out" ELSE device[d]]

Next ==
  \/ \E d \in Device : SignIn(d) \/ Turn(d) \/ Turned(d) \/ Lose(d)
  \/ \E D \in SUBSET {d \in Device : device[d] = "in"} : SignOut(D)

Spec == Init /\ [][Next]_device

=============================================================================
