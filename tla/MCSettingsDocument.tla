---- MODULE MCSettingsDocument ----
EXTENDS SettingsDocument

CONSTANTS name, theme, digest, appearance, email, old, new

(* {name, appearance: {theme, email: {digest}}}: a field at the root, one
   inside a submessage and one two deep. *)
MCPath == [n \in Nodes |-> CASE n = name -> {}
                             [] n \in {theme, email} -> {appearance}
                             [] n = digest -> {appearance, email}
                             [] n = appearance -> {}]

(* The old build has never heard of the email settings. *)
MCKnown == [w \in Writers |-> IF w = old THEN Nodes \ {email, digest} ELSE Nodes]
====
