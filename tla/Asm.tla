-------------------------------- MODULE Asm --------------------------------
(***************************************************************************)
(* The assembler apps/asm.c, from the statements of a program to the       *)
(* binary with its two relocation tables and the symbol file.              *)
(*                                                                         *)
(* The program is read once, into a list of records: bytes, fills, symbols,*)
(* label definitions and expressions, the last of which are all that may   *)
(* change size.  placeCode() then goes over the records until nothing does,*)
(* and the writers go over them once each.                                 *)
(*                                                                         *)
(* A statement is a record with the field do; the characters it is made of *)
(* are left out.  An expression is [k |-> "num", n], [k |-> "sym", name],  *)
(* [k |-> "here"], [k |-> "pre", op, e], [k |-> "paren", e] or             *)
(* [k |-> "op", op, l, e] with an operand l that is one of the first three,*)
(* as the parser, which knows no precedence, takes it.                     *)
(***************************************************************************)
EXTENDS Integers, Sequences, FiniteSets, SequencesExt, AsmOpcodes

CONSTANTS
    Programs,       \* the sources: a sequence of statements for each file
    Main,           \* the file that is assembled
    Faults,         \* what may fail: "open", "make", "make symbols"
    MAX_BYTES       \* bytes in a record of them

START_ADDRESS == 7
ZMACRO_STACK_SIZE == 8
EXPR_STACK_SIZE == 8
NULL == 0
Anonymous == "(anonymous)"

VARIABLES
    pc,         \* "opening", "parsing", "placing", "writing", "relocating zp",
                \* "relocating text", "closing", "writing symbols", then "done",
                \* "failed", or "wild": a null or stray pointer was written through
    program,    \* the source
    input,      \* the files being read, the current one first: [file, pos]
    p,          \* what parsing makes and placing completes
    pass,       \* passes placeCode has made
    changed,    \* what the last of them returned
    out,        \* what was written
    dest,       \* the two files: "none", "open" or "closed"
    listing     \* the statements parsed, in order; not in the code

vars == <<pc, program, input, p, pass, changed, out, dest, listing>>

Word(n) == n % 65536
Signed(n) == IF Word(n) < 32768 THEN Word(n) ELSE Word(n) - 65536

-----------------------------------------------------------------------------
(* Records and symbols.  Every routine takes the parser's state and gives  *)
(* the next one; one that returns a symbol leaves it in r, and one that    *)
(* ends the program says how in fail.                                      *)

Fatal(q) == [q EXCEPT !.fail = "failed"]
Wild(q) == [q EXCEPT !.fail = "wild"]

\* F of what v is, which is worked out once.
On(v, F(_)) == CHOOSE x \in {F(y) : y \in {v}} : TRUE
Then(q, F(_)) == On(q, LAMBDA t : IF t.fail # "" THEN t ELSE F(t))

addRecord(q, r) == [q EXCEPT !.records = Append(@, r)]

emitByte(q, b) ==
    LET top == Len(q.records)
    IN  IF top > 0 /\ q.records[top].kind = "bytes" /\ Len(q.records[top].bytes) < MAX_BYTES
        THEN [q EXCEPT !.records[top].bytes = Append(@, b)]
        ELSE addRecord(q, [kind |-> "bytes", bytes |-> <<b>>])

emitBytes(q, bs) == FoldLeft(LAMBDA t, b : On(t, LAMBDA u : emitByte(u, b)), q, bs)
emitFill(q, n) == addRecord(q, [kind |-> "fill", length |-> n])

\* An operand that is a number needs no record of its own.
addExpressionRecord(q, op) ==
    IF q.tokenVariable # NULL
    THEN addRecord(q, [kind |-> "expr", opcode |-> op, variable |-> q.tokenVariable,
                       offset |-> q.tokenValue, length |-> 255,
                       postprocessing |-> q.tokenPostProcessing, line |-> q.line])
    ELSE emitBytes(q, SubSeq(<<op, q.tokenValue % 256, q.tokenValue \div 256>>, 1, getInsnLength(op)))

RECURSIVE Chain(_, _)
Chain(q, r) == IF r = NULL THEN <<>> ELSE <<r>> \o Chain(q, q.symbols[r].next)

lookupSymbol(q, n) ==
    LET hits == SelectSeq(Chain(q, q.last), LAMBDA r : q.symbols[r].name = n)
    IN  IF hits = <<>> THEN NULL ELSE hits[1]

appendSymbol(q, n) ==
    LET r == Len(q.symbols) + 1
        s == [name |-> n, type |-> "uninitialised", variable |-> NULL, offset |-> 0, next |-> q.last]
    IN  [addRecord(q, [kind |-> "symbol", symbol |-> r]) EXCEPT
            !.symbols = Append(@, s), !.last = r, !.r = r]

addOrFindSymbol(q, n) ==
    On(lookupSymbol(q, n), LAMBDA r : IF r # NULL THEN [q EXCEPT !.r = r] ELSE appendSymbol(q, n))

addSymbol(q, n) == IF lookupSymbol(q, n) # NULL THEN Fatal(q) ELSE appendSymbol(q, n)

createLabelDefinition(q, r) ==
    IF r = NULL THEN Wild(q)
    ELSE IF q.symbols[r].type \notin {"uninitialised", "reference"} THEN Fatal(q)
    ELSE [addRecord(q, [kind |-> "labeldef", variable |-> r, line |-> q.line]) EXCEPT
            !.symbols[r].type = "text"]

\* Mutant of pushScope: one scope too many.
PushesTooDeep(q) ==
    IF q.scopePointer = ZMACRO_STACK_SIZE THEN Fatal(q)
    ELSE [q EXCEPT !.scopePointers[q.scopePointer] = q.last, !.scopePointer = @ + 1]

pushScope(q) ==
    IF q.scopePointer = ZMACRO_STACK_SIZE - 1 THEN Fatal(q)
    ELSE [q EXCEPT !.scopePointers[q.scopePointer] = q.last, !.scopePointer = @ + 1]

popScope(q) ==
    IF q.scopePointer = 0 THEN Fatal(q)
    ELSE [q EXCEPT !.scopePointer = @ - 1, !.last = q.scopePointers[q.scopePointer - 1]]

-----------------------------------------------------------------------------
(* Expressions, on a stack whose old values stay.                          *)

Infix(op, a, b) ==
    CASE op = "+" -> Word(a + b)
      [] op = "-" -> Word(a - b)
      [] op = "*" -> Word(a * b)
      [] op = "/" -> a \div b

RECURSIVE consumeExpressionNode(_, _, _)

\* The node above sp, which has to be a constant.
Constant(q, e, sp) ==
    Then(consumeExpressionNode(q, e, sp + 1),
         LAMBDA t : IF t.exprVariable[sp + 1] # NULL THEN Fatal(t) ELSE t)

\* '-' and '~' change what the stack held at sp, not the operand above it.
Prefix(q, op, sp) ==
    LET above == q.exprValue[sp + 1]
        old == q.exprValue[sp]
    IN  [q EXCEPT !.exprValue[sp] = CASE op = "<" -> above % 256
                                      [] op = ">" -> above \div 256
                                      [] op = "-" -> Word(-old)
                                      [] op = "~" -> old + 255 - 2 * (old % 256)]

\* A symbol that is not defined yet becomes a reference; one that was computed
\* stands for what it was computed from.
Symbol(q, n, sp) ==
    On(addOrFindSymbol(q, n), LAMBDA f :
      LET s == f.symbols[f.r]
      IN  IF s.type = "computed"
          THEN [f EXCEPT !.exprVariable[sp] = s.variable, !.exprValue[sp] = s.offset]
          ELSE [f EXCEPT !.exprVariable[sp] = f.r, !.exprValue[sp] = 0,
                         !.symbols[f.r].type = IF @ = "uninitialised" THEN "reference" ELSE @])

Operand(q, e, sp) ==
    CASE e.k = "num" -> [q EXCEPT !.exprValue[sp] = e.n]
      [] e.k = "sym" -> Symbol(q, e.name, sp)
      [] e.k = "here" ->
            On(appendSymbol(q, Anonymous), LAMBDA f :
              [createLabelDefinition(f, f.r) EXCEPT !.exprVariable[sp] = f.r, !.exprValue[sp] = 0])

\* The ')' of a parenthesis is never consumed, and no statement ends in one.
consumeExpressionNode(q0, e, sp) ==
    IF sp = EXPR_STACK_SIZE \/ e.k = "paren" THEN Fatal(q0)
    ELSE Then([q0 EXCEPT !.exprVariable[sp] = NULL], LAMBDA q :
      CASE e.k = "pre" -> Then(Constant(q, e.e, sp), LAMBDA t : Prefix(t, e.op, sp))
        [] e.k = "op" -> Then(Operand(q, e.l, sp), LAMBDA l :
             IF e.op \notin {"+", "-"} /\ l.exprVariable[sp] # NULL THEN Fatal(l)
             ELSE Then(Constant(l, e.e, sp), LAMBDA t :
                    IF e.op = "/" /\ t.exprValue[sp + 1] = 0 THEN Fatal(t)
                    ELSE [t EXCEPT !.exprValue[sp] = Infix(e.op, @, t.exprValue[sp + 1])]))
        [] OTHER -> Operand(q, e, sp))

\* A '<' or '>' in front is for the linker, if the rest is not a constant.
consumeExpression(q, e) ==
    LET post == IF e.k = "pre" /\ e.op \in {"<", ">"} THEN e.op ELSE ""
    IN  Then(consumeExpressionNode(q, IF post = "" THEN e ELSE e.e, 0), LAMBDA t :
          LET v == t.exprValue[0]
          IN  IF t.exprVariable[0] # NULL
              THEN [t EXCEPT !.tokenVariable = t.exprVariable[0], !.tokenValue = v, !.tokenPostProcessing = post]
              ELSE [t EXCEPT !.tokenVariable = NULL, !.tokenPostProcessing = "",
                             !.tokenValue = IF post = "<" THEN v % 256 ELSE IF post = ">" THEN v \div 256 ELSE v])

consumeConstExpression(q, e) ==
    Then(consumeExpression(q, e), LAMBDA t : IF t.tokenVariable # NULL THEN Fatal(t) ELSE t)

-----------------------------------------------------------------------------
(* Statements *)

IsZP(q) == q.tokenVariable = NULL /\ q.tokenValue < 256

\* The addressing mode, in am; form tells what stands around the expression.
consumeArgument(q, form, e) ==
    IF form = "A" THEN [q EXCEPT !.tokenValue = 0, !.tokenVariable = NULL, !.am = "A"]
    ELSE Then(consumeExpression(q, e), LAMBDA t :
           [t EXCEPT !.am = CASE form = "#" -> "IMM"
                              [] form = "(" -> "WIND"
                              [] form = "(,X)" -> "XPTR"
                              [] form = "(),Y" -> "YPTR"
                              [] form = ",X" -> IF IsZP(t) THEN "XOFZ" ELSE "XOFF"
                              [] form = ",Y" -> IF IsZP(t) THEN "YOFZ" ELSE "YOFF"
                              [] form = "" -> IF IsZP(t) THEN "ZP" ELSE "ABS"])

Instruction(q, s) ==
    LET insn == findInstruction(s.name)
    IN  IF "IMP" \in insn.modes THEN emitByte(q, insn.opcode)
        ELSE Then(consumeArgument(q, s.form, s.e), LAMBDA t :
          LET am == CASE t.am = "IMM" /\ "IMMS" \in insn.modes -> "IMMS"
                      [] t.am = "YOFZ" /\ "YOFZ" \notin insn.modes -> "YOFF"
                      [] t.am = "ZP" /\ "ZP" \notin insn.modes -> "ABS"
                      [] OTHER -> t.am
              b == IF insn.name = "LDX" /\ am = "YOFF" THEN bOfAm("XOFF") ELSE bOfAm(am)
          IN  IF am \notin insn.modes THEN Fatal(t)
              ELSE addExpressionRecord(t, IF IsRelative(insn.opcode) THEN insn.opcode ELSE insn.opcode + b))

Label(q, s) == On(addOrFindSymbol(q, s.n), LAMBDA t : createLabelDefinition(t, t.r))

Equate(q, s) ==
    On(addOrFindSymbol(q, s.n), LAMBDA f :
      IF f.symbols[f.r].type # "uninitialised" THEN Fatal(f)
      ELSE Then(consumeExpression(f, s.e), LAMBDA t :
             IF t.tokenPostProcessing # "" THEN Fatal(t)
             ELSE [t EXCEPT !.symbols[f.r].variable = IF t.tokenVariable # NULL THEN t.tokenVariable ELSE @,
                            !.symbols[f.r].type = "computed", !.symbols[f.r].offset = t.tokenValue]))

\* The symbol stays in r while its size is worked out.
consumeSymbolCommaNumber(q, s) ==
    Then(addSymbol(q, s.n), LAMBDA f :
      Then(consumeConstExpression(f, s.e), LAMBDA t : [t EXCEPT !.r = f.r]))

\* zpUsage has eight bits, and the check is made in sixteen.
DotZp(q0, s) ==
    Then(consumeSymbolCommaNumber(q0, s), LAMBDA q :
      IF Word(q.zpUsage + q.tokenValue) < q.zpUsage THEN Fatal(q)
      ELSE [q EXCEPT !.symbols[q.r].type = "zp", !.symbols[q.r].offset = q.zpUsage,
                     !.zpUsage = (@ + q.tokenValue) % 256])

DotBss(q0, s) ==
    Then(consumeSymbolCommaNumber(q0, s), LAMBDA q :
      IF Word(q.bssUsage + q.tokenValue) < q.bssUsage THEN Fatal(q)
      ELSE [q EXCEPT !.symbols[q.r].type = "bss", !.symbols[q.r].offset = q.bssUsage,
                     !.bssUsage = Word(@ + q.tokenValue)])

\* Opcodes 0 and ff stand for the data of .byte and .word.
DotByte(q, s) ==
    FoldLeft(LAMBDA t, e : Then(t, LAMBDA a : Then(consumeExpression(a, e), LAMBDA b :
               IF b.tokenVariable # NULL THEN addExpressionRecord(b, 0) ELSE emitByte(b, b.tokenValue % 256))),
             q, s.es)

DotWord(q, s) ==
    FoldLeft(LAMBDA t, e : Then(t, LAMBDA a : Then(consumeExpression(a, e), LAMBDA b :
               IF b.tokenVariable # NULL THEN addExpressionRecord(b, 255)
               ELSE emitBytes(b, <<b.tokenValue % 256, b.tokenValue \div 256>>))),
             q, s.es)

DotFill(q, s) == Then(consumeConstExpression(q, s.e), LAMBDA t : emitFill(t, t.tokenValue))

DotExpand(q, s) ==
    Then(consumeConstExpression(q, s.e), LAMBDA t :
      [t EXCEPT !.defaultBranchSize = IF t.tokenValue = 0 THEN 2 ELSE 5])

DotLabel(q, s) == consumeExpression(q, s.e)

Zproc(q, s) == Then(Label(q, s), pushScope)
Zendproc(q, s) == popScope(q)

Remember(q, labels, r) == [q EXCEPT ![labels][q.scopePointer] = r]

\* Both stacks of loops are written above their top, wherever that is.
Push(q, stack, r) ==
    IF Len(q[stack]) = ZMACRO_STACK_SIZE THEN Wild(q) ELSE [q EXCEPT ![stack] = Append(@, r)]
Pop(q, stack) ==
    IF q[stack] = <<>> THEN Wild(q) ELSE [q EXCEPT ![stack] = Front(@)]

\* .zloop and .zrepeat
Zloop(q0, s) ==
    Then(pushScope(q0), LAMBDA q : On(appendSymbol(q, Anonymous), LAMBDA a :
      On(Remember(createLabelDefinition(a, a.r), "startLabels", a.r), LAMBDA b :
        Then(Push(b, "continueLabels", a.r), LAMBDA c : On(appendSymbol(c, Anonymous), LAMBDA d :
          Push(Remember(d, "endLabels", d.r), "breakLabels", d.r))))))

\* The parser is left with the postprocessing of the last expression.
Jump(q, r) == [q EXCEPT !.tokenVariable = r, !.tokenValue = 0]

Zendloop(q0, s) ==
    On(addExpressionRecord(Jump(q0, q0.startLabels[q0.scopePointer]), 76), LAMBDA q :
      Then(createLabelDefinition(q, q.endLabels[q.scopePointer]), LAMBDA a :
        Then(Pop(a, "continueLabels"), LAMBDA b : Then(Pop(b, "breakLabels"), popScope))))

Branch(cc) == CHOOSE op \in {i.opcode : i \in simpleInsns} : op = findInstruction("B" \o cc).opcode
Flipped(op) == IF (op \div 32) % 2 = 0 THEN op + 32 ELSE op - 32

emitConditionalJump(q, cc, flip) ==
    addExpressionRecord(q, IF cc = "" THEN 76 ELSE IF flip THEN Flipped(Branch(cc)) ELSE Branch(cc))

Zbreak(q, s) ==
    IF q.breakLabels = <<>> THEN Fatal(q)
    ELSE emitConditionalJump(Jump(q, Last(q.breakLabels)), s.cc, FALSE)

Zcontinue(q, s) ==
    IF q.continueLabels = <<>> THEN Fatal(q)
    ELSE emitConditionalJump(Jump(q, Last(q.continueLabels)), s.cc, FALSE)

\* Mutant of Zuntil: the loop is not taken off the stack of its breaks.
KeepsBreaking(q0, s) ==
    On(emitConditionalJump(Jump(q0, q0.startLabels[q0.scopePointer]), s.cc, TRUE), LAMBDA q :
      Then(createLabelDefinition(q, q.endLabels[q.scopePointer]), popScope))

\* Not taken off the stack that .zcontinue uses.
Zuntil(q0, s) ==
    On(emitConditionalJump(Jump(q0, q0.startLabels[q0.scopePointer]), s.cc, TRUE), LAMBDA q :
      Then(createLabelDefinition(q, q.endLabels[q.scopePointer]), LAMBDA a :
        Then(Pop(a, "breakLabels"), popScope)))

Zif(q0, s) ==
    Then(pushScope(q0), LAMBDA q : On(appendSymbol(q, Anonymous), LAMBDA a :
      On(Jump(Remember(a, "endLabels", a.r), a.r), LAMBDA b : emitConditionalJump(b, s.cc, TRUE))))

Zendif(q, s) == Then(createLabelDefinition(q, q.endLabels[q.scopePointer]), popScope)

-----------------------------------------------------------------------------
(* main: the files are opened and the statements parsed. *)

NoSymbols == [i \in 0 .. ZMACRO_STACK_SIZE - 1 |-> NULL]

Init ==
    /\ pc = "opening" /\ program \in Programs
    /\ input = <<>> /\ pass = 0 /\ changed = TRUE /\ listing = <<>>
    /\ p = [symbols |-> <<>>, last |-> NULL, records |-> <<>>, zpUsage |-> 0, bssUsage |-> 0,
            defaultBranchSize |-> 5, scopePointer |-> 0, scopePointers |-> NoSymbols,
            startLabels |-> NoSymbols, endLabels |-> NoSymbols,
            breakLabels |-> <<>>, continueLabels |-> <<>>,
            exprValue |-> [i \in 0 .. EXPR_STACK_SIZE - 1 |-> 0],
            exprVariable |-> [i \in 0 .. EXPR_STACK_SIZE - 1 |-> NULL],
            tokenVariable |-> NULL, tokenValue |-> 0, tokenPostProcessing |-> "", am |-> "",
            r |-> NULL, line |-> 0, badProgram |-> FALSE, textUsage |-> 0, fail |-> ""]
    /\ out = [code |-> <<>>, zp |-> <<>>, text |-> <<>>, symbols |-> <<>>]
    /\ dest = [binary |-> "none", symbols |-> "none"]

\* errormessage() deletes the file that is being written.
Failed ==
    /\ pc' = "failed"
    /\ dest' = IF dest.binary = "closed" THEN [dest EXCEPT !.symbols = "none"] ELSE [dest EXCEPT !.binary = "none"]

openFiles ==
    /\ pc = "opening"
    /\ \/ Faults \cap {"make", "open"} # {} /\ Failed /\ UNCHANGED input
       \/ /\ pc' = "parsing" /\ input' = <<[file |-> Main, pos |-> 1]>>
          /\ dest' = [dest EXCEPT !.binary = "open"]
    /\ UNCHANGED <<program, p, pass, changed, out, listing>>

Source == program[input[1].file]
AtEnd == input[1].pos > Len(Source)
Here == Source[input[1].pos]
Advanced == [input EXCEPT ![1].pos = @ + 1]

\* A statement is handled, and what it made of the parser's state goes on.
Statement(do, Handler(_, _)) ==
    /\ pc = "parsing" /\ ~AtEnd /\ Here.do = do
    /\ \E q \in {Handler([p EXCEPT !.line = @ + 1], Here)} :
         /\ p' = q
         /\ CASE q.fail = "" -> pc' = pc /\ UNCHANGED dest
              [] q.fail = "failed" -> Failed
              [] q.fail = "wild" -> pc' = "wild" /\ UNCHANGED dest
    /\ input' = Advanced
    /\ listing' = Append(listing, Here)
    /\ UNCHANGED <<program, pass, changed, out>>

consumeInclude ==
    /\ pc = "parsing" /\ ~AtEnd /\ Here.do = "include"
    /\ IF Here.file \in DOMAIN program
       THEN input' = <<[file |-> Here.file, pos |-> 1]>> \o Advanced /\ UNCHANGED <<pc, dest>>
       ELSE Failed /\ UNCHANGED input
    /\ UNCHANGED <<program, p, pass, changed, out, listing>>

\* Mutant of EndOfFile: the file that is read to its end stays the current one.
StaysAtTheEnd ==
    /\ pc = "parsing" /\ AtEnd
    /\ pc' = IF Len(input) > 1 THEN pc ELSE "placing"
    /\ UNCHANGED <<program, p, pass, changed, out, dest, listing, input>>

\* The end of a file that was included takes consumeByte() back to the other.
EndOfFile ==
    /\ pc = "parsing" /\ AtEnd
    /\ IF Len(input) > 1 THEN input' = Tail(input) /\ UNCHANGED pc
       ELSE pc' = "placing" /\ UNCHANGED input
    /\ UNCHANGED <<program, p, pass, changed, out, dest, listing>>

parse ==
    \/ Statement("insn", Instruction) \/ Statement("label", Label) \/ Statement("=", Equate)
    \/ Statement("zp", DotZp) \/ Statement("bss", DotBss)
    \/ Statement("byte", DotByte) \/ Statement("word", DotWord) \/ Statement("fill", DotFill)
    \/ Statement("expand", DotExpand) \/ Statement(".label", DotLabel)
    \/ Statement("zproc", Zproc) \/ Statement("zendproc", Zendproc)
    \/ Statement("zloop", Zloop) \/ Statement("zendloop", Zendloop)
    \/ Statement("zbreak", Zbreak) \/ Statement("zcontinue", Zcontinue)
    \/ Statement("zuntil", Zuntil)
    \/ Statement("zif", Zif) \/ Statement("zendif", Zendif)
    \/ consumeInclude \/ EndOfFile

-----------------------------------------------------------------------------
(* placeCode: one pass.  A label behind a branch has the address of this   *)
(* pass, one ahead of it that of the last.                                 *)

\* The length of a branch at pc to a label in the text.
BranchLength(t, r, first) ==
    LET delta == Signed(t.symbols[r.variable].offset + r.offset - t.pc - 2)
    IN  IF first THEN p.defaultBranchSize ELSE IF delta \in -128 .. 127 THEN 2 ELSE 5

PlaceExpression(t, r) ==
    LET v == t.symbols[r.variable]
        props == getInsnProps(r.opcode)
        shrinks == r.opcode \notin {0, 255} /\ v.type = "zp" /\ "SHR" \in props.flags
        relative == r.opcode \notin {0, 255} /\ ~shrinks /\ IsRelative(r.opcode)
        length == CASE r.opcode = 0 -> 1
                    [] r.opcode = 255 \/ shrinks -> 2
                    [] relative -> BranchLength(t, r, pass = 0)
                    [] OTHER -> props.size
        placed == [r EXCEPT !.length = length,
                            !.opcode = IF shrinks /\ (@ \div 8) % 2 = 1 THEN @ - 8 ELSE @]
    IN  IF relative /\ (v.type # "text" \/ (pass > 0 /\ length = 5 /\ p.defaultBranchSize = 2))
        THEN [t EXCEPT !.fail = TRUE]
        ELSE [t EXCEPT !.pc = Word(@ + length), !.changed = @ \/ length # r.length,
                       !.records = Append(@, placed)]

\* Mutant of Place: a symbol that was only referred to is not noticed.
IgnoresReferences(t, r) ==
    IF t.fail THEN t
    ELSE IF r.kind = "expr" /\ t.symbols[r.variable].type # "reference" THEN PlaceExpression(t, r)
    ELSE [t EXCEPT !.records = Append(@, r),
                   !.symbols = IF r.kind = "labeldef" THEN [@ EXCEPT ![r.variable].offset = t.pc] ELSE @]

Place(t, r) ==
    IF t.fail THEN t
    ELSE IF r.kind = "expr" THEN PlaceExpression(t, r)
    ELSE [t EXCEPT
            !.records = Append(@, r),
            !.pc = CASE r.kind = "bytes" -> Word(@ + Len(r.bytes))
                     [] r.kind = "fill" -> Word(@ + r.length)
                     [] OTHER -> @,
            !.symbols = IF r.kind = "labeldef" THEN [@ EXCEPT ![r.variable].offset = t.pc] ELSE @,
            !.bad = @ \/ (r.kind = "symbol" /\ t.symbols[r.symbol].type = "reference")]

placeCode ==
    /\ pc = "placing"
    /\ \E t \in {FoldLeft(LAMBDA u, r : On(u, LAMBDA v : Place(v, r)),
                         [pc |-> START_ADDRESS, symbols |-> p.symbols, records |-> <<>>,
                          changed |-> FALSE, bad |-> p.badProgram, fail |-> FALSE], p.records)} :
         /\ changed' = t.changed
         /\ p' = IF t.fail THEN p
                 ELSE [p EXCEPT !.records = t.records, !.symbols = t.symbols,
                                !.textUsage = t.pc, !.badProgram = t.bad]
         /\ IF t.fail \/ (t.bad /\ t.changed) THEN Failed
            ELSE /\ pc' = IF t.changed THEN "placing" ELSE "writing"
                 /\ dest' = IF t.bad THEN [dest EXCEPT !.binary = "none"] ELSE dest
    /\ pass' = (pass + 1) % 256
    /\ UNCHANGED <<program, input, out, listing>>

-----------------------------------------------------------------------------
(* The writers.  A record is at the sum of the lengths before it.          *)

Length(r) == CASE r.kind = "bytes" -> Len(r.bytes)
               [] r.kind \in {"fill", "expr"} -> r.length
               [] OTHER -> 0

Places(records) ==
    LET at[i \in 1 .. Len(records) + 1] ==
          IF i = 1 THEN START_ADDRESS ELSE Word(at[i - 1] + Length(records[i - 1]))
    IN  at

Address(r) ==
    LET v == p.symbols[r.variable]
    IN  Word(r.offset + v.offset + IF v.type = "bss" THEN p.textUsage ELSE 0)

\* writeCode counts in eight bits, which is all that a displacement has.
WriteExpression(r, at) ==
    LET address == CASE r.postprocessing = ">" -> Address(r) \div 256
                     [] r.postprocessing = "<" -> Address(r) % 256
                     [] OTHER -> Address(r)
        target == Word(p.symbols[r.variable].offset + r.offset)
    IN  IF IsRelative(r.opcode)
        THEN IF r.length = 2 THEN <<r.opcode, Word(target - at - 2) % 256>>
             ELSE <<Flipped(r.opcode), 3, 76, target % 256, target \div 256>>
        ELSE (IF r.opcode \in {0, 255} THEN <<>> ELSE <<r.opcode>>)
             \o <<address % 256>>
             \o (IF r.length = 3 \/ r.opcode = 255 THEN <<address \div 256>> ELSE <<>>)

writeHeader ==
    <<p.zpUsage, (p.textUsage + 255) \div 256, p.textUsage % 256, p.textUsage \div 256, 76, 0, 0>>

writeCode ==
    LET at == Places(p.records)
    IN  [i \in 1 .. Len(p.records) |->
           CASE p.records[i].kind = "bytes" -> p.records[i].bytes
             [] p.records[i].kind = "fill" -> [k \in 1 .. p.records[i].length |-> 0]
             [] p.records[i].kind = "expr" -> WriteExpression(p.records[i], at[i])
             [] OTHER -> <<>>]

\* Two nibbles to a byte; the first waits in relocationBuffer, or -1 does.
writeRelocation(t, nibble) ==
    IF t.buffer = -1 THEN [t EXCEPT !.buffer = nibble]
    ELSE [t EXCEPT !.buffer = -1, !.bytes = Append(@, 16 * t.buffer + nibble)]

\* Mutant of writeRelocationFor: the step that skips is one too long.
SkipsFifteen(t, delta) ==
    writeRelocation(FoldLeft(LAMBDA u, n : On(u, LAMBDA v : writeRelocation(v, n)), t, [i \in 1 .. delta \div 15 |-> 14]), delta % 15)

writeRelocationFor(t, delta) ==
    writeRelocation(FoldLeft(LAMBDA u, n : On(u, LAMBDA v : writeRelocation(v, n)), t, [i \in 1 .. delta \div 14 |-> 14]), delta % 14)

\* A table that relocates the addresses given, in their order.
Table(start, addresses) ==
    LET step(t, a) == On(t, LAMBDA u : [writeRelocationFor(u, Word(a - u.last)) EXCEPT !.last = a])
    IN  On(writeRelocation(FoldLeft(step, start, addresses), 15), LAMBDA end :
          IF end.buffer = -1 THEN end.bytes ELSE writeRelocation(end, 0).bytes)

Start(last) == [buffer |-> -1, bytes |-> <<>>, last |-> last]

Exprs == SelectSeq([i \in 1 .. Len(p.records) |-> i], LAMBDA i : p.records[i].kind = "expr")

\* The byte with the page of an address, unless a short branch needs none.
TextRelocations ==
    LET at == Places(p.records)
        moves(i) == LET r == p.records[i]
                    IN  /\ r.postprocessing # "<" /\ p.symbols[r.variable].type \in {"text", "bss"}
                        /\ ~IsRelative(r.opcode) \/ r.length # 2
        byte(i) == LET r == p.records[i]
                       low == r.postprocessing = ">" /\ "IMM" \notin getInsnProps(r.opcode).flags
                   IN  Word(at[i] + r.length - (IF low THEN 2 ELSE 1))
        where == SelectSeq(Exprs, moves)
    IN  [k \in DOMAIN where |-> byte(where[k])]

ZPRelocations ==
    LET at == Places(p.records)
        moves(i) == LET r == p.records[i]
                    IN  p.symbols[r.variable].type = "zp" /\ r.postprocessing # ">"
        byte(i) == IF p.records[i].opcode \in {0, 255} THEN at[i] ELSE Word(at[i] + 1)
        where == SelectSeq(Exprs, moves)
    IN  [k \in DOMAIN where |-> byte(where[k])]

\* Each writer in turn.
Write(at, field, what, then) ==
    /\ pc = at /\ pc' = then
    /\ out' = [out EXCEPT ![field] = what]
    /\ UNCHANGED <<program, input, p, pass, changed, dest, listing>>

writeBinary ==
    \/ Write("writing", "code", <<writeHeader>> \o writeCode, "relocating zp")
    \/ Write("relocating zp", "zp", Table(Start(0), ZPRelocations), "relocating text")
    \/ Write("relocating text", "text", Table(writeRelocationFor(Start(3), 3), TextRelocations), "closing")

\* The binary is closed, and the file for the symbols made.
closeBinary ==
    /\ pc = "closing"
    /\ \/ /\ "make symbols" \in Faults
          /\ pc' = "failed"
          /\ dest' = [binary |-> IF dest.binary = "open" THEN "closed" ELSE "none", symbols |-> "none"]
       \/ /\ pc' = "writing symbols"
          /\ dest' = [binary |-> IF dest.binary = "open" THEN "closed" ELSE "none", symbols |-> "open"]
    /\ UNCHANGED <<program, input, p, pass, changed, out, listing>>

\* Mutant of SymbolLine: the type is the symbol's own, not its variable's.
TypesTheSymbol(s) ==
    [name |-> s.name, type |-> IF s.variable = NULL THEN s.type ELSE p.symbols[s.variable].type,
     address |-> Word(s.offset + (IF s.variable = NULL THEN 0 ELSE p.symbols[s.variable].offset)
                      + IF s.type = "bss" THEN p.textUsage ELSE 0)]

\* Symbols with a name; one that was computed has the type of its variable.
SymbolLine(s) ==
    LET v == IF s.variable = NULL THEN s ELSE p.symbols[s.variable]
    IN  [name |-> s.name, type |-> v.type,
         address |-> Word(s.offset + (IF s.variable = NULL THEN 0 ELSE v.offset)
                          + IF v.type = "bss" THEN p.textUsage ELSE 0)]

writeSymbols ==
    LET named == SelectSeq(p.symbols, LAMBDA s : s.name # Anonymous)
    IN  /\ pc = "writing symbols" /\ pc' = "done"
        /\ out' = [out EXCEPT !.symbols = [i \in DOMAIN named |-> SymbolLine(named[i])]]
        /\ dest' = [dest EXCEPT !.symbols = "closed"]
        /\ UNCHANGED <<program, input, p, pass, changed, listing>>

Next == openFiles \/ parse \/ placeCode \/ writeBinary \/ closeBinary \/ writeSymbols

\* Nothing runs but the assembler.
Spec == Init /\ [][Next]_vars /\ WF_vars(Next)

-----------------------------------------------------------------------------
(* What was assembled.                                                     *)

TypeOK ==
    /\ pc \in {"opening", "parsing", "placing", "writing", "relocating zp", "relocating text",
               "closing", "writing symbols", "done", "failed", "wild"}
    /\ dest \in [{"binary", "symbols"} -> {"none", "open", "closed"}]
    /\ p.scopePointer \in 0 .. ZMACRO_STACK_SIZE - 1 /\ pass \in 0 .. 255 /\ p.zpUsage \in 0 .. 255
    /\ \A i \in DOMAIN p.records :
         LET r == p.records[i]
         IN  CASE r.kind = "bytes" -> Len(r.bytes) \in 1 .. MAX_BYTES /\ \A b \in DOMAIN r.bytes : r.bytes[b] \in 0 .. 255
               [] r.kind = "symbol" -> r.symbol \in DOMAIN p.symbols
               [] r.kind \in {"expr", "labeldef"} -> r.variable \in DOMAIN p.symbols
               [] r.kind = "fill" -> r.length \in Nat

Written == pc \in {"closing", "writing symbols", "done"} /\ dest.binary # "none"

\* Where the output of each record is in the file, and after the last the end.
Emitted ==
    LET at[i \in 1 .. Len(out.code)] == IF i = 1 THEN Len(out.code[1]) ELSE at[i - 1] + Len(out.code[i])
    IN  at

\* The addresses in a table, as the loader of cpmemu reads it.
Relocated(bytes) ==
    LET nibbles == FlattenSeq([i \in DOMAIN bytes |-> <<bytes[i] \div 16, bytes[i] % 16>>])
        read(t, n) == IF t.end \/ n = 15 THEN [t EXCEPT !.end = TRUE]
                      ELSE [t EXCEPT !.address = @ + n, !.all = IF n = 14 THEN @ ELSE Append(@, t.address + n)]
    IN  FoldLeft(read, [address |-> 0, all |-> <<>>, end |-> FALSE], nibbles).all

\* The program loaded one page up, with one byte of zero page in use.
Loaded ==
    LET image == FlattenSeq(out.code)
        zp == Relocated(out.zp)
        text == Relocated(out.text)
        times(a, table) == Cardinality({k \in DOMAIN table : table[k] = a})
    IN  [a \in 0 .. Len(image) - 1 |-> (image[a + 1] + times(a, zp) + times(a, text)) % 256]

\* Where a symbol then is; at is Emitted.
Home(at, v) ==
    LET s == p.symbols[v]
        defs == {i \in DOMAIN p.records : p.records[i].kind = "labeldef" /\ p.records[i].variable = v}
    IN  CASE s.type = "text" -> 256 + at[CHOOSE i \in defs : TRUE]
          [] s.type = "bss" -> 256 + at[Len(at)] + s.offset
          [] s.type = "zp" -> 1 + s.offset

\* What the statement wants of the address: "<", ">" or all.
Wanted(r) ==
    LET s == listing[r.line]
    IN  IF s.do \in {"byte", "word"} THEN r.postprocessing
        ELSE IF "e" \in DOMAIN s /\ s.e.k = "pre" THEN s.e.op ELSE ""

\* The address in m that an expression at a stands for.
Means(m, at, a, r) ==
    LET value == Word(Home(at, r.variable) + r.offset)
        wanted == CASE Wanted(r) = "<" -> value % 256
                    [] Wanted(r) = ">" -> value \div 256
                    [] OTHER -> value
        word(x) == m[x] + 256 * m[x + 1]
        near(x) == a + 2 + IF m[x] < 128 THEN m[x] ELSE m[x] - 256
    IN  CASE r.opcode = 0 -> m[a] = wanted % 256
          [] r.opcode = 255 -> word(a) = wanted
          [] IsRelative(r.opcode) ->
                \/ m[a] = r.opcode /\ near(a + 1) + 256 = wanted
                \/ m[a] = Flipped(r.opcode) /\ near(a + 1) = a + 5 /\ m[a + 2] = 76 /\ word(a + 3) = wanted
          [] OTHER ->
                /\ m[a] = r.opcode
                /\ IF LengthOnCPU(r.opcode) = 2 THEN m[a + 1] = wanted ELSE word(a + 1) = wanted

\* Wherever a binary is loaded, each operand in it is the address its
\* statement names, and nothing else was changed but the offset of the tables
\* ("It will generate CP/M-65 relocatable binaries so once assembled you
\* should be able to run them on any machine", cpmfs/asm.txt:8-9).  The end of
\* a block that is never closed has no address, and the assembler says nothing.
LoadsAnywhere ==
    Written =>
      LET m == Loaded
          at == Emitted
          exprs == {i \in DOMAIN p.records : p.records[i].kind = "expr"}
          operands == UNION {at[i] .. at[i + 1] - 1 : i \in exprs}
          defined(i) == p.symbols[p.records[i].variable].type # "uninitialised"
      IN  /\ \A i \in exprs : defined(i) => Means(m, at, at[i], p.records[i])
          /\ \A table \in {out.zp, out.text} : ToSet(Relocated(table)) \subseteq operands \cup {3}

\* A label that is near in one pass and far in the next still ends up where
\* the code after it is, and the file of symbols says so (placeCode stops at
\* the first pass that changes no length).
SymbolsAreAddresses ==
    pc = "done" /\ Written =>
      LET at == Emitted
          named == SelectSeq(p.symbols, LAMBDA s : s.name # Anonymous)
      IN  \A k \in DOMAIN named :
            LET s == named[k]
                v == IF s.variable # NULL THEN s.variable ELSE CHOOSE v \in DOMAIN p.symbols : p.symbols[v] = s
            IN  out.symbols[k].type \in {"text", "bss", "zp"} =>
                  out.symbols[k].address =
                    Word(Home(at, v) - (IF p.symbols[v].type = "zp" THEN 1 ELSE 256)
                         + IF s.variable # NULL THEN s.offset ELSE 0)

\* The processor finds in a program the instructions that were written, one
\* after another: what getInsnLength() and the addressing modes make of an
\* opcode agrees with what the processor does.
DecodesAsWritten ==
    Written /\ (\A i \in DOMAIN listing : listing[i].do \notin {"byte", "word", "fill"}) =>
      LET image == FlattenSeq(out.code)
          jumps == {"insn", "zendloop", "zbreak", "zcontinue", "zuntil", "zif"}
          long == {i \in DOMAIN p.records : p.records[i].kind = "expr" /\ p.records[i].length = 5}
          decoded[a \in START_ADDRESS .. Len(image) + 2] ==
            IF a = Len(image) THEN 0 ELSE IF a > Len(image) THEN 1000
            ELSE 1 + decoded[a + LengthOnCPU(image[a + 1])]
      IN  decoded[START_ADDRESS] = Cardinality({i \in DOMAIN listing : listing[i].do \in jumps}) + Cardinality(long)

Opens == [zloop |-> {"zendloop", "zuntil"}, zif |-> {"zendif"}, zproc |-> {"zendproc"}]
Closes == UNION {Opens[o] : o \in DOMAIN Opens}

\* The blocks open before statement i, the innermost last.
OpenBlocks ==
    LET open[i \in 1 .. Len(listing) + 1] ==
          IF i = 1 THEN <<>>
          ELSE IF listing[i - 1].do \in DOMAIN Opens THEN Append(open[i - 1], i - 1)
          ELSE IF listing[i - 1].do \in Closes /\ open[i - 1] # <<>> THEN Front(open[i - 1])
          ELSE open[i - 1]
    IN  open

WellNested(open) ==
    /\ open[Len(listing) + 1] = <<>>
    /\ \A i \in DOMAIN listing : listing[i].do \in Closes =>
         open[i] # <<>> /\ listing[i].do \in Opens[listing[Last(open[i])].do]

\* A structured jump goes to the end of the block it belongs to, or the start
\* of its loop, however blocks are nested and whatever closed before it
\* (".zbreak will jump out of the loop", "You can break from loops from within
\* this", cpmfs/asm.txt:78-89).  Not .zcontinue behind an .zuntil: see Zuntil.
BlocksMeanWhatTheySay ==
    LET open == OpenBlocks
        end(b) == CHOOSE j \in DOMAIN listing : listing[j].do \in Closes /\ open[j] # <<>> /\ Last(open[j]) = b
        loops(i) == SelectSeq(open[i], LAMBDA b : listing[b].do = "zloop")
        target(i) == CASE listing[i].do \in {"zendloop", "zuntil"} -> Last(open[i])
                       [] listing[i].do = "zif" -> end(i)
                       [] loops(i) = <<>> -> 0
                       [] listing[i].do = "zbreak" -> end(Last(loops(i)))
                       [] listing[i].do = "zcontinue" -> Last(loops(i))
        untilBefore(i) == \E j \in 1 .. i : listing[j].do = "zuntil"
    IN  Written /\ WellNested(open) =>
          \A i \in DOMAIN p.records :
            LET r == p.records[i]
            IN  /\ r.kind = "expr"
                /\ listing[r.line].do \in {"zendloop", "zuntil", "zif", "zbreak", "zcontinue"}
                /\ ~(listing[r.line].do = "zcontinue" /\ untilBefore(r.line))
                => \E j \in DOMAIN p.records :
                     /\ p.records[j].kind = "labeldef" /\ p.records[j].variable = r.variable
                     /\ p.records[j].line = target(r.line)

\* A binary that is kept has an address for every name in it: a name that was
\* never defined is found by the passes over the code, if not in the first
\* (a symbol's record stands before the definition).
KeptBinariesAreWhole ==
    dest.binary = "closed" => \A v \in DOMAIN p.symbols : p.symbols[v].type # "reference"

\* No program keeps placeCode() changing lengths for ever, though a branch may
\* grow back when the code it jumps over did.
EveryAssemblyEnds == <>(pc \in {"done", "failed", "wild"})
=============================================================================
