------------------------------- MODULE MCAsm -------------------------------
(* Asm with short programs, for TLC: one kind of statement at a time, in    *)
(* every order, and a few longer programs for one case each.                *)
EXTENDS Asm

Num(n) == [k |-> "num", n |-> n]
Sym(n) == [k |-> "sym", name |-> n]
Pre(op, e) == [k |-> "pre", op |-> op, e |-> e]
Op(l, op, e) == [k |-> "op", l |-> l, op |-> op, e |-> e]
StarHere == [k |-> "here"]

Insn(name, form, e) == [do |-> "insn", name |-> name, form |-> form, e |-> e]
NOP == Insn("NOP", "", Num(0))
Def(n) == [do |-> "label", n |-> n]
Bne(n) == Insn("BNE", "", Sym(n))
Skip(n) == [do |-> "fill", e |-> Num(n)]
At(do, n, e) == [do |-> do, n |-> n, e |-> e]
Data(do, e) == [do |-> do, es |-> <<e>>]
Z(do) == [do |-> do, cc |-> ""]
If(do, cc) == [do |-> do, cc |-> cc]
Proc(n) == [do |-> "zproc", n |-> n]

Alone(set) == {[main |-> s] : s \in set}
UpTo(k, set) == UNION {[1 .. n -> set] : n \in 0 .. k}

\* Branches over gaps that are just too long for them.
Branching == UpTo(4, {Bne("a"), Bne("b"), Def("a"), Def("b"), Skip(122), Skip(4)})
Unexpanded == {<<[do |-> "expand", e |-> Num(0)]>> \o s : s \in UpTo(3, {Bne("a"), Def("a"), Skip(122), Skip(200)})}

\* A branch that is long, then short, then long again.
Growing == {<<Bne("c"), Def("b"), Bne("c"), Bne("c"), Skip(117), Bne("b"), Bne("a"), Def("c"), Skip(122), Def("a")>>}

\* Blocks, nested twice.
Steps == {<<>>, <<Z("zbreak")>>, <<If("zbreak", "NE")>>, <<If("zcontinue", "CC")>>, <<NOP>>}
Blocks(body) ==
    UNION {{<<Z("zloop")>> \o b \o <<Z("zendloop")>>, <<Z("zloop")>> \o b \o <<If("zuntil", "EQ")>>,
            <<If("zif", "PL")>> \o b \o <<Z("zendif")>>} : b \in body}
Inner == Steps \cup Blocks(Steps)
Nested == Blocks({a \o b : a \in Inner, b \in Inner})
Unnested == UpTo(3, {Z("zloop"), Z("zendloop"), Z("zbreak"), If("zcontinue", "CC"), If("zuntil", "EQ"),
                     If("zif", "PL"), Z("zendif"), Proc("a"), Z("zendproc"), Bne("a")})
Deep == {[i \in 1 .. n |-> Z("zloop")] : n \in 7 .. 8} \cup {[i \in 1 .. n |-> Proc(<<"a", "b", "c", "d", "e", "f", "g", "h">>[i])] : n \in 7 .. 8}
        \cup {FlattenSeq([i \in 1 .. 9 |-> <<Z("zloop"), If("zuntil", "EQ")>>])}

\* What refers to memory of each kind, with the tables' steps of 14 between.
Preamble == <<At("zp", "z", Num(2)), At("bss", "w", Num(3)), At("=", "x", Op(Sym("z"), "+", Num(1))),
              At("=", "y", Op(Sym("w"), "+", Num(1)))>>
Uses == {Insn("LDA", ",X", Sym("z")), Insn("LDA", "", Sym("x")), Insn("STA", ",Y", Sym("w")),
         Insn("LDA", "#", Pre("<", Sym("t"))), Insn("LDA", "#", Pre(">", Sym("t"))),
         Insn("LDA", "#", Pre(">", Sym("w"))), Insn("JSR", "", Sym("t")), Insn("JMP", "", Op(StarHere, "-", Num(3))),
         Data("word", Op(Sym("t"), "+", Num(2))), Data("word", Sym("w")), Data("byte", Pre("<", Sym("t"))),
         Data("byte", Sym("z")), Def("t"), Skip(11), Skip(250)}
Using == {Preamble \o s \o <<Def("t")>> : s \in UpTo(2, Uses)} \cup {Preamble \o s : s \in [1 .. 3 -> Uses]}

\* Every instruction, with every operand that it may have.
Operands == {"", "A", "#", "(", "(,X)", "(),Y", ",X", ",Y"} \X {Num(5), Num(300), Sym("z"), Sym("t")}
Sensible(n, f) ==
    /\ ~(n = "JSR" /\ f[2] = Sym("z"))
    /\ ~(f[1] \in {"#", "(,X)", "(),Y"} /\ f[2] = Sym("t"))
Instructions == {<<At("zp", "z", Num(1)), Insn(i.name, f[1], f[2]), NOP, Def("t")>> :
                    <<i, f>> \in {g \in simpleInsns \X Operands : Sensible(g[1].name, g[2])}}

\* Expressions that are an error, and names that are defined twice.
Expressions == {Op(Num(8), "/", Num(0)), Op(Num(8), "/", Num(3)), Op(Num(8), "*", Num(3)), Op(Sym("t"), "*", Num(2)),
                Op(Num(1), "+", Sym("t")), [k |-> "paren", e |-> Num(1)], Pre("-", Num(1)), Pre("~", Num(1)),
                Op(Num(1), "+", Pre("<", Num(300))), Op(Num(1), "+", Op(Num(1), "+", Op(Num(1), "+", Op(Num(1), "+",
                  Op(Num(1), "+", Op(Num(1), "+", Op(Num(1), "+", Op(Num(1), "+", Num(1)))))))))}
Calculating == {<<Data("word", e), Def("t")>> : e \in Expressions} \cup {<<At("=", "c", e)>> : e \in Expressions}
Defining == UpTo(3, {Def("a"), At("=", "a", Num(1)), At("zp", "a", Num(200)), At("bss", "b", Num(40000)),
                     [do |-> ".label", e |-> Sym("a")], At("=", "b", Sym("a")), Data("word", Sym("b")), Proc("a")})

Including ==
    {[main |-> <<Bne("a"), [do |-> "include", file |-> f], Def("b")>>,
      inc |-> <<Def("a"), [do |-> "include", file |-> "last"], Bne("b")>>,
      last |-> <<NOP>>] : f \in {"inc", "none"}}

ThePrograms ==
    Alone(UNION {Branching, Unexpanded, Growing, Nested, Unnested, Deep, Using, Instructions, Calculating, Defining})
        \cup Including
=============================================================================
