----------------------------- MODULE SessionWindow -----------------------------
(***************************************************************************)
(* What a Window_buffer (src/cloud/RTASP.py) promises to threads that do   *)
(* not wait for each other: one that calls update(), and some that call    *)
(* end().  While the session is open an accepted packet is lost only to    *)
(* one of its own number.  An update() that end() overtakes stores its     *)
(* packet, perhaps over another, or raises.  end() returns when the window *)
(* is empty, and raises only if another thread was in its way; after that  *)
(* nothing is accepted, and what it returns is complete unless somebody is *)
(* still inside.  StreamReceiver uses its windows as this says; nothing is *)
(* said of order, which ReorderBuffer is about.                            *)
(***************************************************************************)
EXTENDS Integers

CONSTANTS
  Packet,  \* records with a field sn
  None,    \* no packet
  Enders   \* the threads that call end()

VARIABLES
  status,   \* "open", "closing" from the first end() on, "empty" for good
  kept,     \* the packets accepted and not lost
  out,      \* those of kept that are in the buffer end() returns
  inside,   \* the packet an update() in progress carries, or None
  stopped,  \* update() has raised
  ending    \* per ender: "idle", "drain" while it is inside end(), "dead"

vars == <<status, kept, out, inside, stopped, ending>>

Init ==
  /\ status = "open"
  /\ kept = {}
  /\ out = {}
  /\ inside = None
  /\ stopped = FALSE
  /\ ending = [e \in Enders |-> "idle"]

\* update() goes on for a packet it does not drop.
Take(p) ==
  /\ status = "open" /\ ~stopped
  /\ inside = None
  /\ inside' = p
  /\ UNCHANGED <<status, kept, out, stopped, ending>>

\* Only a packet of its own number is replaced while the session is open.
Store ==
  /\ inside # None
  /\ status # "empty"
  /\ \/ kept' = kept \cup {inside}
     \/ \E old \in kept \ out :
          /\ status = "open" => old.sn = inside.sn
          /\ kept' = (kept \ {old}) \cup {inside}
  /\ inside' = None
  /\ UNCHANGED <<status, out, stopped, ending>>

StoreRaises ==
  /\ inside # None
  /\ status # "open"
  /\ inside' = None
  /\ stopped' = TRUE
  /\ UNCHANGED <<status, kept, out, ending>>

\* A packet leaves the window for the buffer.
HandOver(p) ==
  /\ p \in kept
  /\ out' = out \cup {p}
  /\ UNCHANGED <<status, kept, inside, stopped, ending>>

EndCall(e) ==
  /\ ending[e] = "idle"
  /\ status' = IF status = "open" THEN "closing" ELSE status
  /\ ending' = [ending EXCEPT ![e] = "drain"]
  /\ UNCHANGED <<kept, out, inside, stopped>>

Emptied ==
  /\ status = "closing"
  /\ \E e \in Enders : ending[e] = "drain"
  /\ status' = "empty"
  /\ UNCHANGED <<kept, out, inside, stopped, ending>>

\* No update() is in progress, and nobody else in end().
Alone(e) == inside = None /\ \A f \in Enders \ {e} : ending[f] # "drain"

EndReturn(e) ==
  /\ ending[e] = "drain"
  /\ status = "empty"
  /\ Alone(e) => out = kept
  /\ ending' = [ending EXCEPT ![e] = "idle"]
  /\ UNCHANGED <<status, kept, out, inside, stopped>>

\* popleft() from a deque that another thread has emptied since the test.
EndRaise(e) ==
  /\ ending[e] = "drain"
  /\ status = "empty"
  /\ inside # None \/ stopped \/ Enders # {e}
  /\ ending' = [ending EXCEPT ![e] = "dead"]
  /\ UNCHANGED <<status, kept, out, inside, stopped>>

Next ==
  \/ \E p \in Packet : Take(p) \/ HandOver(p)
  \/ Store
  \/ StoreRaises
  \/ \E e \in Enders : EndCall(e) \/ EndReturn(e) \/ EndRaise(e)
  \/ Emptied

Spec == Init /\ [][Next]_vars
==============================================================================
