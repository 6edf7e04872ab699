------------------------------- MODULE Xmodem -------------------------------
(***************************************************************************)
(* The file transfer of apps/ansiterm.c: one terminal sends a file, with   *)
(* xmodem_send(), and another receives it, with xmodem_receive(), over a   *)
(* serial line in each direction.                                          *)
(*                                                                         *)
(* A byte is taken from the line with getblockchar(), which gives up after *)
(* 30000 polls and then leaves what the driver returned in the byte.  The  *)
(* bytes of a block are put on the line in one step: serial_out() waits    *)
(* for the line and for nothing else.                                      *)
(***************************************************************************)
EXTENDS Integers, Sequences, SequencesExt, FiniteSets

CONSTANTS
    Transfers,      \* what happens: [file, a sequence of blocks of bytes; prompt, whether
                    \* the parties answer before the other gives up; faults, a set of
                    \* "lost answer", "damaged block", "receiver's key", "sender's key"]
    BlockSize,      \* bytes in a block, 128
    MaxNaks,        \* NAKs in all before the sender gives up, 11
    Noise,          \* the bytes that damage, and a poll without data, may leave
    Capacity,       \* bytes that a line holds; what more is sent is lost
    MaxFaults       \* a bound on the faults of a run

ASSUME XmodemAssumption ==
    /\ BlockSize \in Nat \ {0} /\ MaxNaks \in Nat \ {0} /\ Capacity \in Nat /\ MaxFaults \in Nat
    /\ Noise \subseteq 0 .. 255
    /\ \A t \in Transfers : t.prompt \in BOOLEAN /\ t.file \in Seq([1 .. BlockSize -> 0 .. 255])

SOH == 1
EOT == 4
ACK == 6
NAK == 21
CAN == 24

Sum(bytes) == FoldLeft(LAMBDA s, b : (s + b) % 256, 0, bytes)

VARIABLES
    transfer,       \* the one that happens
    copy,           \* the blocks in the other file
    toReceiver,     \* the lines
    toSender,
    receiver,       \* the variables of xmodem_receive
    sender,         \* the variables of xmodem_send
    faults          \* those there were, in order; not in the code

vars == <<transfer, copy, toReceiver, toSender, receiver, sender, faults>>

file == transfer.file
prompt == transfer.prompt

Fault(kind) == kind \in transfer.faults /\ Len(faults) < MaxFaults /\ faults' = Append(faults, kind)

Put(line, bytes) == IF Len(line) + Len(bytes) <= Capacity THEN line \o bytes ELSE line

Init ==
    /\ transfer \in Transfers
    /\ copy = <<>>
    /\ toReceiver = <<>> /\ toSender = <<>>
    /\ receiver = [at |-> "terminal", outp |-> NAK, block_cnt |-> 0, block_exp |-> 1,
                   xmodem_buffer |-> <<>>, ending |-> "none"]
    /\ sender = [at |-> "terminal", block_cnt |-> 1, nak_cnt |-> 0, read |-> 0, ending |-> "none"]
    /\ faults = <<>>

\* Before and after its transfer a terminal shows what comes from the line.
ShowText ==
    \/ /\ receiver.at = "terminal" /\ toReceiver # <<>>
       /\ toReceiver' = Tail(toReceiver) /\ UNCHANGED toSender
    \/ /\ sender.at = "terminal" /\ toSender # <<>>
       /\ toSender' = Tail(toSender) /\ UNCHANGED toReceiver

-----------------------------------------------------------------------------
(* xmodem_receive *)

\* A poll times out; parties that are prompt have nothing left to answer then.
Late == toReceiver = <<>> /\ (prompt => toSender = <<>>)

\* The next byte, or after a timeout what the driver left.
Byte(b) ==
    \/ /\ toReceiver # <<>> /\ b = Head(toReceiver)
       /\ toReceiver' = Tail(toReceiver)
    \/ /\ Late /\ b \in Noise
       /\ UNCHANGED toReceiver

StartReceiving ==
    /\ receiver.at = "terminal" /\ receiver.ending = "none"
    /\ receiver' = [receiver EXCEPT !.at = "polling"]
    /\ toSender' = Put(toSender, <<NAK>>)
    /\ UNCHANGED <<copy, toReceiver, faults>>

\* The end of a turn: a key stops the transfer, and otherwise outp is sent again.
EndTurn ==
    /\ receiver.at = "turning"
    /\ \/ /\ receiver' = [receiver EXCEPT !.at = "polling"]
          /\ toSender' = Put(toSender, <<receiver.outp>>)
          /\ UNCHANGED faults
       \/ /\ Fault("receiver's key")
          /\ receiver' = [receiver EXCEPT !.at = "terminal", !.ending = "cancelled"]
          /\ UNCHANGED toSender
    /\ UNCHANGED <<copy, toReceiver>>

To(at) == receiver' = [receiver EXCEPT !.at = at]
Close(how) == receiver' = [receiver EXCEPT !.at = "terminal", !.ending = how]

\* getblockchar() at the top of the loop: a control byte, another, or none.
Poll ==
    /\ receiver.at = "polling"
    /\ \/ /\ toReceiver # <<>> /\ toReceiver' = Tail(toReceiver)
          /\ CASE Head(toReceiver) = EOT -> Close("done")
               [] Head(toReceiver) = CAN -> Close("cancelled")
               [] Head(toReceiver) = SOH -> receiver' = [receiver EXCEPT !.at = "number", !.outp = NAK]
               [] OTHER -> To("turning")
       \/ Late /\ To("turning") /\ UNCHANGED toReceiver
    /\ UNCHANGED <<copy, toSender, faults>>

BlockNumber ==
    /\ receiver.at = "number"
    /\ \E b \in Noise \cup ToSet(toReceiver) :
         /\ Byte(b)
         /\ receiver' = [receiver EXCEPT !.at = "inverse", !.block_cnt = b]
    /\ UNCHANGED <<copy, toSender, faults>>

\* A block that is not the one expected is left on the line.
InverseNumber ==
    /\ receiver.at = "inverse"
    /\ \E b \in Noise \cup ToSet(toReceiver) :
         /\ Byte(b)
         /\ IF receiver.block_cnt = 255 - b /\ receiver.block_cnt = receiver.block_exp
            THEN receiver' = [receiver EXCEPT !.at = "data", !.xmodem_buffer = <<>>]
            ELSE To("turning")
    /\ UNCHANGED <<copy, toSender, faults>>

Data ==
    /\ receiver.at = "data"
    /\ \E b \in Noise \cup ToSet(toReceiver) :
         /\ Byte(b)
         /\ receiver' = [receiver EXCEPT !.xmodem_buffer = Append(@, b),
                                         !.at = IF Len(receiver.xmodem_buffer) + 1 = BlockSize THEN "checksum" ELSE "data"]
    /\ UNCHANGED <<copy, toSender, faults>>

\* Mutant of Accept: the block is written before its checksum is looked at.
WritesFirst(good) ==
    /\ copy' = Append(copy, receiver.xmodem_buffer)
    /\ receiver' = [receiver EXCEPT !.at = "turning", !.block_exp = (@ + 1) % 256, !.outp = IF good THEN ACK ELSE @]

\* The next block is expected even when this one was damaged.
Accept(good) ==
    /\ copy' = IF good THEN Append(copy, receiver.xmodem_buffer) ELSE copy
    /\ receiver' = [receiver EXCEPT !.at = "turning", !.block_exp = (@ + 1) % 256, !.outp = IF good THEN ACK ELSE @]

Checksum ==
    /\ receiver.at = "checksum"
    /\ \E b \in Noise \cup ToSet(toReceiver) : Byte(b) /\ Accept(b = Sum(receiver.xmodem_buffer))
    /\ UNCHANGED <<toSender, faults>>

Receive == StartReceiving \/ EndTurn \/ Poll \/ BlockNumber \/ InverseNumber \/ Data \/ Checksum

-----------------------------------------------------------------------------
(* xmodem_send *)

\* What xmodem_buffer holds: the block last read, if one ever was.
Buffer(s) == IF s.read = 0 THEN [i \in 1 .. BlockSize |-> 0] ELSE file[s.read]

Block(s) == <<SOH, s.block_cnt, 255 - s.block_cnt>> \o Buffer(s) \o <<Sum(Buffer(s))>>

\* The first block is read without a look at whether there is one.
StartSending ==
    /\ sender.at = "terminal" /\ sender.ending = "none"
    /\ sender' = [sender EXCEPT !.at = "waiting", !.read = IF file = <<>> THEN 0 ELSE 1]
    /\ UNCHANGED <<toReceiver, toSender, faults>>

EndSending(s, how, bytes) ==
    /\ sender' = [s EXCEPT !.at = "terminal", !.ending = how]
    /\ toReceiver' = Put(toReceiver, bytes)

\* Mutant of Resend: NAKs are counted after the limit was looked at.
CountsTooLate ==
    /\ Head(toSender) = NAK
    /\ LET s == [sender EXCEPT !.nak_cnt = @ + 1]
       IN  IF sender.nak_cnt = MaxNaks THEN EndSending(s, "cancelled", Block(s) \o <<CAN>>)
           ELSE sender' = s /\ toReceiver' = Put(toReceiver, Block(s))

Resend ==
    /\ Head(toSender) = NAK
    /\ LET s == [sender EXCEPT !.nak_cnt = @ + 1]
       IN  IF s.nak_cnt = MaxNaks THEN EndSending(s, "cancelled", Block(s) \o <<CAN>>)
           ELSE sender' = s /\ toReceiver' = Put(toReceiver, Block(s))

\* Mutant of SendNext: the number is not counted on.
KeepsTheNumber ==
    /\ Head(toSender) = ACK
    /\ IF sender.read >= Len(file) THEN EndSending(sender, "done", <<EOT>>)
       ELSE LET s == [sender EXCEPT !.read = @ + 1]
            IN  sender' = s /\ toReceiver' = Put(toReceiver, Block(s))

SendNext ==
    /\ Head(toSender) = ACK
    /\ IF sender.read >= Len(file) THEN EndSending(sender, "done", <<EOT>>)
       ELSE LET s == [sender EXCEPT !.read = @ + 1, !.block_cnt = (@ + 1) % 256]
            IN  sender' = s /\ toReceiver' = Put(toReceiver, Block(s))

Answer ==
    /\ sender.at = "waiting" /\ toSender # <<>>
    /\ \/ Resend
       \/ SendNext
       \/ Head(toSender) \notin {ACK, NAK} /\ UNCHANGED <<sender, toReceiver>>
    /\ toSender' = Tail(toSender)
    /\ UNCHANGED faults

SenderKey ==
    /\ sender.at = "waiting"
    /\ Fault("sender's key")
    /\ EndSending(sender, "cancelled", <<CAN>>)
    /\ UNCHANGED toSender

Send == StartSending \/ Answer \/ SenderKey

-----------------------------------------------------------------------------
(* The line *)

LoseAnswer ==
    /\ Fault("lost answer") /\ toSender # <<>>
    /\ toSender' = Tail(toSender) /\ UNCHANGED toReceiver

\* A byte is damaged as it is sent, the last of a block first.
DamageBlock ==
    /\ Fault("damaged block") /\ toReceiver # <<>>
    /\ \E i \in DOMAIN toReceiver, b \in Noise : toReceiver[i] # b /\ toReceiver' = [toReceiver EXCEPT ![i] = b]
    /\ UNCHANGED toSender

Line == (LoseAnswer \/ DamageBlock) /\ UNCHANGED <<transfer, copy, receiver, sender>>

-----------------------------------------------------------------------------

Receiving == Receive /\ UNCHANGED <<transfer, sender>>
Sending == Send /\ UNCHANGED <<transfer, copy, receiver>>
Showing == ShowText /\ UNCHANGED <<transfer, copy, receiver, sender, faults>>

Next == Receiving \/ Sending \/ Showing \/ Line

\* Both loops run on, and the user starts each transfer; the line need not fail.
Spec ==
    /\ Init /\ [][Next]_vars
    /\ WF_vars(Receiving) /\ WF_vars(Sending) /\ WF_vars(Showing)

-----------------------------------------------------------------------------

TypeOK ==
    /\ receiver.at \in {"terminal", "turning", "polling", "number", "inverse", "data", "checksum"}
    /\ receiver.outp \in {ACK, NAK} /\ receiver.block_exp \in 0 .. 255
    /\ Len(receiver.xmodem_buffer) <= BlockSize
    /\ sender.at \in {"terminal", "waiting"} /\ sender.block_cnt \in 0 .. 255 /\ sender.nak_cnt \in 0 .. MaxNaks
    /\ \A x \in {sender.ending, receiver.ending} : x \in {"none", "done", "cancelled"}
    /\ Len(toReceiver) <= Capacity /\ Len(toSender) <= Capacity

\* However answers are repeated or lost, and whenever either party starts or is
\* stopped, the file received grows by the next block of the file sent, and
\* xmodem_receive() says "Transmission done" of a whole file.
Transfer == INSTANCE FileTransfer WITH
    Files <- {t.file : t \in Transfers}, ending <- receiver.ending,
    reliable <- prompt /\ "damaged block" \notin ToSet(faults)
ImplementsFileTransfer == Transfer!Spec

\* Between parties that answer in time, a transfer that nobody stops comes to
\* its end on both sides: a lost answer is made up for by the next timeout.
TransfersComplete ==
    prompt /\ [](ToSet(faults) \subseteq {"lost answer"}) => <>(receiver.ending = "done" /\ sender.ending = "done")
=============================================================================
