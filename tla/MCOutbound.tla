----------------------------- MODULE MCOutbound -----------------------------
(* Instances of Outbound for TLC: a Meshtastic radio T and a MeshCore radio C. *)
EXTENDS Outbound

CONSTANTS T, C, c1, c2

\* An emergency broadcast on both radios, and a direct message on T meanwhile.
BothRadios == [c \in Calls |-> IF c = c1 THEN <<C, T>> ELSE <<T>>]

\* Two sends on the MeshCore radio.
OneRadio == [c \in Calls |-> <<C>>]
=============================================================================
