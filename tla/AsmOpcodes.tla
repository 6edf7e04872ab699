----------------------------- MODULE AsmOpcodes -----------------------------
(***************************************************************************)
(* What the assembler of apps/asm.c knows of the 6502: its instructions,   *)
(* the addressing modes each accepts, and how it gets an opcode from the   *)
(* two and a length and other properties back from the opcode.             *)
(***************************************************************************)
EXTENDS Integers

AM_ALU == {"XPTR", "ZP", "IMM", "ABS", "YPTR", "XOFZ", "XOFF", "YOFF"}
AM_SHIFT == {"ZP", "A", "ABS", "XOFZ", "XOFF"}
AM_STEP == AM_SHIFT \ {"A"}
AM_INDEX == {"IMMS", "ZP", "ABS"}

Insns(names, modes) == {[name |-> n[1], opcode |-> n[2], modes |-> modes] : n \in names}

simpleInsns ==
    UNION {
      Insns({<<"ADC", 97>>, <<"AND", 33>>, <<"CMP", 193>>, <<"EOR", 65>>, <<"LDA", 161>>,
             <<"ORA", 1>>, <<"SBC", 225>>}, AM_ALU),
      Insns({<<"STA", 129>>}, AM_ALU \ {"IMM"}),
      Insns({<<"ASL", 2>>, <<"LSR", 66>>, <<"ROL", 34>>, <<"ROR", 98>>}, AM_SHIFT),
      Insns({<<"DEC", 194>>, <<"INC", 226>>}, AM_STEP),
      Insns({<<"BIT", 32>>}, {"ZP", "ABS"}),
      Insns({<<"CPX", 224>>, <<"CPY", 192>>}, AM_INDEX),
      Insns({<<"LDX", 162>>}, AM_INDEX \cup {"YOFZ", "YOFF"}),
      Insns({<<"LDY", 160>>}, AM_INDEX \cup {"XOFZ", "XOFF"}),
      Insns({<<"STX", 130>>}, {"ZP", "ABS", "YOFZ"}),
      Insns({<<"STY", 128>>}, {"ZP", "ABS", "XOFZ"}),
      Insns({<<"JMP", 64>>}, {"ABS", "WIND"}),
      Insns({<<"JSR", 20>>}, {"ABS"}),
      Insns({<<"BPL", 16>>, <<"BMI", 48>>, <<"BVC", 80>>, <<"BVS", 112>>,
             <<"BCC", 144>>, <<"BCS", 176>>, <<"BNE", 208>>, <<"BEQ", 240>>}, {"ABS"}),
      Insns({<<"BRK", 0>>, <<"PHP", 8>>, <<"CLC", 24>>, <<"PLP", 40>>, <<"SEC", 56>>,
             <<"RTI", 64>>, <<"PHA", 72>>, <<"CLI", 88>>, <<"RTS", 96>>, <<"PLA", 104>>,
             <<"SEI", 120>>, <<"DEY", 136>>, <<"TXA", 138>>, <<"TYA", 152>>, <<"TXS", 154>>,
             <<"TAY", 168>>, <<"TAX", 170>>, <<"CLV", 184>>, <<"TSX", 186>>, <<"INY", 200>>,
             <<"DEX", 202>>, <<"CLD", 216>>, <<"INX", 232>>, <<"NOP", 234>>, <<"SED", 248>>},
            {"IMP"})}

findInstruction(n) == CHOOSE i \in simpleInsns : i.name = n

\* The b-values, three bits of an opcode, and two that are not.
B_XPTR == 0
B_ZP == 4
B_IMM == 8
B_ABS == 12
B_YPTR == 16
B_XOFZ == 20
B_YOFF == 24
B_XOFF == 28
B_IMP == 32
B_REL == 36

\* AM_WIND takes JMP's 4c to 6c.
bOfAm(am) ==
    CASE am \in {"XPTR", "IMMS", "IMP"} -> B_XPTR
      [] am = "ZP" -> B_ZP
      [] am \in {"IMM", "A"} -> B_IMM
      [] am = "ABS" -> B_ABS
      [] am = "YPTR" -> B_YPTR
      [] am \in {"XOFZ", "YOFZ"} -> B_XOFZ
      [] am = "YOFF" -> B_YOFF
      [] am = "XOFF" -> B_XOFF
      [] am = "WIND" -> 32 + B_ABS

\* Mutant of getB: JSR is like the other opcodes of its column.
TakesJSRForRTS(opcode) ==
    LET c == opcode % 4
        b == 4 * ((opcode \div 4) % 8)
    IN  IF c = 1 \/ b % 8 = 4 THEN b
        ELSE IF c = 2 THEN IF opcode = 162 THEN B_IMM ELSE B_IMP
        ELSE IF b = 16 THEN B_REL
        ELSE IF opcode >= 128 /\ b = 0 THEN B_IMM
        ELSE B_IMP

getB(opcode) ==
    LET c == opcode % 4
        b == 4 * ((opcode \div 4) % 8)
    IN  IF c = 1 \/ b % 8 = 4 THEN b
        ELSE IF c = 2 THEN IF opcode = 162 THEN B_IMM ELSE B_IMP
        ELSE IF b = 16 THEN B_REL
        ELSE IF opcode = 32 THEN B_ABS
        ELSE IF opcode >= 128 /\ b = 0 THEN B_IMM
        ELSE B_IMP

\* Its length and its flags: SHR is an absolute operand that has a zero page form.
Props(size, flags) == [size |-> size, flags |-> flags]

getBProps(b) ==
    CASE b \in {B_XPTR, B_YPTR} -> Props(2, {"ZP", "PTR"})
      [] b \in {B_ZP, B_XOFZ} -> Props(2, {"ZP"})
      [] b = B_IMM -> Props(2, {"IMM"})
      [] b \in {B_ABS, B_XOFF} -> Props(3, {"ABS", "SHR"})
      [] b = B_YOFF -> Props(3, {"ABS"})
      [] b = B_IMP -> Props(1, {})
      [] b = B_REL -> Props(2, {"RELATIVE"})

getInsnProps(opcode) ==
    IF opcode \in {76, 108} THEN Props(3, {"ABS"}) ELSE getBProps(getB(opcode))

getInsnLength(opcode) == getInsnProps(opcode).size
IsRelative(opcode) == "RELATIVE" \in getInsnProps(opcode).flags

-----------------------------------------------------------------------------
\* How many bytes the processor takes for an opcode, by its column in the map.
LengthOnCPU(opcode) ==
    LET column == opcode % 32
    IN  CASE opcode = 32 -> 3
          [] opcode \in {0, 64, 96} \/ column \in {8, 10, 24, 26} -> 1
          [] column \in {12, 13, 14, 25, 28, 29, 30} -> 3
          [] OTHER -> 2
=============================================================================
