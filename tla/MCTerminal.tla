----------------------------- MODULE MCTerminal -----------------------------
(* Terminal on a small screen, for short scripts.               *)
EXTENDS Terminal

Ansi(ops, ps, qs) == [op : ops, p : ps, q : qs, vt52 : {FALSE}]
Vt(ops, ps, qs) == [op : ops, p : ps, q : qs, vt52 : {TRUE}]
One(op, p, q) == [op |-> op, p |-> p, q |-> q, vt52 |-> FALSE]

Letters == Ansi({"text"}, {65, 90}, {0})
Controls == Ansi({"back", "return", "tab"}, {0}, {0}) \cup Ansi({"line_feed"}, {LF}, {0})
Places == Ansi({"position"}, {1, 2}, {0, 12}) \cup Ansi({"position"}, {3}, {3})
Moving == Ansi({"up", "down", "right", "left", "next_line", "previous_line", "column"}, {0, 2, 12}, {0}) \cup Ansi({"up", "right"}, {258}, {0})
Erasing == Ansi({"erase_display", "erase_line"}, {0, 1, 2, 3}, {0}) \cup Ansi({"scroll_up", "scroll_down"}, {0, 2}, {0})
Modes == {One("style", 7, 0), One("style", 1, 7), One("style", 27, 0), One("style", 0, 0), One("wrap", 0, 0), One("wrap", 1, 0)}
Saves == Ansi({"save", "save_DEC", "restore", "restore_DEC", "report", "ignored"}, {0}, {0})

InVt52 == Vt({"up", "down", "right", "left", "reverse_line_feed", "erase_display", "erase_line", "report", "ignored"},
            {0}, {0}) \cup Vt({"position"}, {0}, {0}) \cup Vt({"position"}, {1, 3}, {2})
Enter == One("language", 0, 0)
Leave == [One("language", 0, 0) EXCEPT !.vt52 = TRUE]

Session(scripts, mode, struck, lost) == [script : scripts, mode : {mode}, user : struck, losses : lost]
Struck == {{"mode", "character"}, {"echo", "character", "wrap"}, {"help", "arrow", "quit"}}

\* Every command at every kind of place, and what it does to a letter after it.
TheSessions ==
    Session({<<a, b, One("text", 65, 0)>> : a \in Places \cup Modes, b \in Moving \cup Erasing \cup Modes \cup Saves \cup Controls},
            "ANSI", {{}}, {0})
        \cup Session({<<a, b, One("position", 2, 3), c>> : a \in Places, b, c \in Saves}, "ANSI", {{}}, {0})
        \cup Session({<<Enter, a, One("text", 65, 0), Leave, b>> : a \in InVt52 \cup Controls, b \in Letters \cup Erasing}, "ANSI", {{}}, {0})
        \cup Session({<<a, b, One("text", 65, 0)>> : a, b \in InVt52 \cup Controls}, "VT52", {{}}, {0})
        \cup Session({<<a, b>> : a \in {One("position", 3, 3), One("right", 12, 0), One("wrap", 0, 0)}, b \in Erasing \cup Letters},
                     "ANSI", Struck, {0, 1})
=============================================================================
