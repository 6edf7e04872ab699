------------------------------ MODULE MCXmodem ------------------------------
(* Xmodem with short files, and one whose blocks are counted past 255.      *)
EXTENDS Xmodem

\* Data that looks like the start, the number or the end of a block.
Short == {<<<<97, SOH>>>>, <<<<EOT, 0>>, <<26, CAN>>>>, <<<<SOH, 2>>, <<253, 97>>, <<97, EOT>>>>}
Long == [i \in 1 .. 257 |-> <<i % 3, 26>>]

Of(files, intime, kinds) == [file : files, prompt : {intime}, faults : {kinds}]
Keys == {"receiver's key", "sender's key"}

TheTransfers ==
    Of({Long}, TRUE, {"lost answer"}) \cup Of(Short, FALSE, {"lost answer"} \cup Keys)
        \cup Of(Short, TRUE, {"lost answer", "damaged block"} \cup Keys)
=============================================================================
