---------------------------- MODULE ReorderBuffer ----------------------------
(***************************************************************************)
(* What a Window_buffer (src/cloud/RTASP.py) promises to the application   *)
(* that reads a session's stream: packets that arrive in any order leave   *)
(* in strictly increasing sequence-number order, an accepted packet leaves *)
(* exactly once unless a later packet with the same number takes its       *)
(* place, and at no time are two packets held whose numbers are Span or    *)
(* more apart.  Nothing is said of how the packets are stored.             *)
(***************************************************************************)
EXTENDS Integers, Sequences

CONSTANTS
  Packet,  \* the packets: records with a field sn
  Span     \* the width of the reordering window

VARIABLES
  held,    \* the accepted packets that have not left yet
  out,     \* the packets that have left, in order
  open     \* FALSE once the session has ended

vars == <<held, out, open>>

Init ==
  /\ held = {}
  /\ out = <<>>
  /\ open = TRUE

Accept(p) ==
  /\ open
  /\ \A i \in DOMAIN out : out[i].sn < p.sn
  /\ \A h \in held : p.sn - h.sn < Span
  /\ held' = {h \in held : h.sn # p.sn} \cup {p}
  /\ UNCHANGED <<out, open>>

Release(m) ==
  /\ \A h \in held \ {m} : m.sn < h.sn
  /\ held' = held \ {m}
  /\ out' = Append(out, m)
  /\ UNCHANGED open

Close ==
  /\ open' = FALSE
  /\ UNCHANGED <<held, out>>

Next ==
  \/ \E p \in Packet : Accept(p)
  \/ \E m \in held : Release(m)
  \/ Close

Spec == Init /\ [][Next]_vars
==============================================================================
