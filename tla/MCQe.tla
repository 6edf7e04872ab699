-------------------------------- MODULE MCQe --------------------------------
(* Qe with a small memory and a small screen, for TLC. *)
EXTENDS Qe

\* Somebody who edits, without cursor_wordleft and without saving.
Editing == [keys |-> DOMAIN Commands.normal \ {"b", ":", "Z"}, digits |-> {2},
            types |-> {Letter, CR, DEL, ESC},
            args |-> Names, stored |-> {<<Letter, CR, NL, Blank>>}]

\* Somebody who loads and saves.
Filing == [keys |-> {"i", ":", "Z", "Q"}, digits |-> {}, types |-> {Letter, ESC},
           args |-> Names \cup {None}, stored |-> {<<>>, <<Letter, CR, NL, EOF>>}]

\* Somebody who walks in a text that the gap has room for a copy of, and
\* somebody who overwrites characters with newlines.
Walking == [keys |-> {"w", "b", "l"}, digits |-> {}, types |-> {},
            args |-> Names, stored |-> {<<Letter, EOF>>}]
Splitting == [keys |-> {"r"}, digits |-> {}, types |-> {Letter, NL},
              args |-> Names, stored |-> {<<Letter, Letter>>}]

TheUsers == {Editing, Filing, Walking, Splitting}

\* Filing alone.
Filers == {Filing}
=============================================================================
