--------------------------- MODULE MCMessageQueue ---------------------------
(* Model values for MessageQueue: a source with two receivers, one of which *)
(* sends on to the other.  No two threads acknowledge each other's messages. *)
EXTENDS MessageQueue

CONSTANTS a, b, c, m1, m2

MCThread == {a, b, c}
MCMsg == {m1, m2}
MCSrc == (m1 :> a) @@ (m2 :> b)
MCDst == (m1 :> <<b, c>>) @@ (m2 :> <<c>>)
MCAckInline == (m1 :> {c}) @@ (m2 :> {c})
=============================================================================
