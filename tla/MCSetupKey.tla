----------------------------- MODULE MCSetupKey -----------------------------
(* Small instances of SetupKey for TLC.                                    *)
EXTENDS SetupKey

CONSTANTS other, tail, short

(* Every key has a prefix of its own; "tail" is an edit of the first key   *)
(* that keeps the first five characters, "other" one that changes them,    *)
(* "short" one that leaves fewer than five.                                *)
MCPrefix == [c \in Keys \cup Edits |->
               CASE c = tail -> 1 [] c = short -> TooShort [] OTHER -> c]

=============================================================================
