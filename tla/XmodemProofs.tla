---------------------------- MODULE XmodemProofs ----------------------------
(***************************************************************************)
(* The types, for every transfer; and, for transfers between parties that  *)
(* answer in time, that what is received is what was sent, for every size  *)
(* of block, length of file and number of lost answers.                    *)
(*                                                                         *)
(* The code needs each hypothesis of FileArrives: a sum of bytes does not  *)
(* show every damage; a receiver that gives up while a block is on its way *)
(* takes the rest of it for control bytes and answers one block twice; and *)
(* an empty file is sent as one block of whatever the buffer held.         *)
(*                                                                         *)
(* The argument is that there is one message under way at most: nobody has *)
(* asked (Off), an answer is due (Asked), or a block is on the line, from  *)
(* the byte that the receiver is to take next (Underway).                  *)
(***************************************************************************)
EXTENDS Xmodem, SequenceTheorems, TLAPS

-----------------------------------------------------------------------------
(* The types.                                                              *)

Octets == 0 .. 255

\* What may be on a line: bytes, and the sums of blocks.
Values == Octets \cup {Sum(b) : b \in Seq(Octets)}

Endings == {"none", "done", "cancelled"}

Lines ==
    /\ toReceiver \in Seq(Values) /\ Len(toReceiver) <= Capacity
    /\ toSender \in Seq(Values) /\ Len(toSender) <= Capacity

ReceiverType ==
    /\ receiver \in [at : {"terminal", "turning", "polling", "number", "inverse", "data", "checksum"},
                     outp : {ACK, NAK}, block_cnt : Values, block_exp : Octets,
                     xmodem_buffer : Seq(Values), ending : Endings]
    /\ Len(receiver.xmodem_buffer) <= BlockSize
    /\ receiver.at = "data" => Len(receiver.xmodem_buffer) < BlockSize

SenderType ==
    /\ sender \in [at : {"terminal", "waiting"}, block_cnt : Octets, nak_cnt : 0 .. MaxNaks,
                   read : Nat, ending : Endings]
    /\ sender.read <= Len(file)
    /\ sender.at = "waiting" => sender.ending = "none"
    /\ sender.ending = "none" => sender.nak_cnt < MaxNaks

TypeInv == transfer \in Transfers /\ Lines /\ ReceiverType /\ SenderType

LEMMA FileType ==
    ASSUME transfer \in Transfers
    PROVE  /\ file \in Seq([1 .. BlockSize -> Octets]) /\ prompt \in BOOLEAN /\ Len(file) \in Nat
           /\ \A i \in 1 .. Len(file) : file[i] \in Seq(Octets) /\ Len(file[i]) = BlockSize
<1>1. file \in Seq([1 .. BlockSize -> Octets]) /\ prompt \in BOOLEAN
  BY XmodemAssumption DEF file, prompt, Octets
<1>2. BlockSize \in Nat
  BY XmodemAssumption
<1>3. ASSUME NEW i \in 1 .. Len(file) PROVE file[i] \in Seq(Octets) /\ Len(file[i]) = BlockSize
  <2>1. file[i] \in [1 .. BlockSize -> Octets]
    BY <1>1, ElementOfSeq
  <2> QED BY <1>2, <2>1, SeqDef, LenProperties
<1> QED BY <1>1, <1>3, LenProperties

LEMMA Joined ==
    ASSUME NEW a \in Seq(Values), NEW b \in Seq(Values)
    PROVE  a \o b \in Seq(Values) /\ Len(a \o b) = Len(a) + Len(b)
  OBVIOUS

LEMMA JoinedAt ==
    ASSUME NEW a \in Seq(Values), NEW b \in Seq(Values)
    PROVE  /\ \A i \in 1 .. Len(a) : (a \o b)[i] = a[i]
           /\ \A i \in 1 .. Len(b) : (a \o b)[Len(a) + i] = b[i]
  OBVIOUS

LEMMA PutType ==
    ASSUME NEW line \in Seq(Values), Len(line) <= Capacity, NEW bytes \in Seq(Values)
    PROVE  Put(line, bytes) \in Seq(Values) /\ Len(Put(line, bytes)) <= Capacity
  BY XmodemAssumption DEF Put

LEMMA TailType ==
    ASSUME NEW line \in Seq(Values), Len(line) <= Capacity, line # <<>>
    PROVE  Tail(line) \in Seq(Values) /\ Len(Tail(line)) <= Capacity /\ Head(line) \in Values
<1>1. Len(Tail(line)) = Len(line) - 1 /\ Tail(line) \in Seq(Values) /\ Head(line) \in Values /\ Len(line) \in Nat
  BY HeadTailProperties, LenProperties
<1> QED BY <1>1, XmodemAssumption

LEMMA Constants == SOH \in Values /\ EOT \in Values /\ ACK \in Values /\ NAK \in Values /\ CAN \in Values /\ 0 \in Values
  BY DEF SOH, EOT, ACK, NAK, CAN, Values, Octets

LEMMA NoiseType == Noise \subseteq Values
  BY XmodemAssumption DEF Values, Octets

\* A byte that is read, in time or not, is one.
LEMMA ByteType ==
    ASSUME TypeInv, NEW b, Byte(b)
    PROVE  b \in Values /\ toReceiver' \in Seq(Values) /\ Len(toReceiver)' <= Capacity
<1>1. CASE toReceiver # <<>> /\ b = Head(toReceiver) /\ toReceiver' = Tail(toReceiver)
  BY <1>1, TailType DEF TypeInv, Lines
<1>2. CASE b \in Noise /\ UNCHANGED toReceiver
  BY <1>2, NoiseType DEF TypeInv, Lines
<1> QED BY <1>1, <1>2 DEF Byte

LEMMA BlockType ==
    ASSUME TypeInv, NEW s, s.read \in 0 .. Len(file), s.block_cnt \in Octets
    PROVE  /\ Buffer(s) \in Seq(Octets) /\ Len(Buffer(s)) = BlockSize
           /\ Block(s) \in Seq(Values) /\ Len(Block(s)) = BlockSize + 4
<1>1. Buffer(s) \in Seq(Octets) /\ Len(Buffer(s)) = BlockSize
  <2>1. CASE s.read = 0
    <3>1. BlockSize \in Nat /\ 0 \in Octets
      BY XmodemAssumption DEF Octets
    <3> DEFINE z == [i \in 1 .. BlockSize |-> 0]
    <3>2. z \in [1 .. BlockSize -> Octets]
      BY <3>1
    <3>3. z \in Seq(Octets) /\ Len(z) = BlockSize
      BY <3>1, <3>2
    <3> QED BY <2>1, <3>3 DEF Buffer
  <2>2. CASE s.read # 0
    BY <2>2, FileType DEF Buffer, TypeInv
  <2> QED BY <2>1, <2>2
<1>2. Sum(Buffer(s)) \in Values
  BY <1>1 DEF Values
<1>3. s.block_cnt \in Values /\ 255 - s.block_cnt \in Values /\ SOH \in Values
  <2>1. \A c \in Octets : 255 - c \in Octets
    BY DEF Octets
  <2> QED BY <2>1, Constants DEF Values
<1>4. Buffer(s) \in Seq(Values) /\ BlockSize \in Nat
  BY <1>1, XmodemAssumption DEF Values
<1> DEFINE head == <<SOH, s.block_cnt, 255 - s.block_cnt>>  sum == <<Sum(Buffer(s))>>
<1>5. head \in Seq(Values) /\ Len(head) = 3
  BY <1>3
<1>6. sum \in Seq(Values) /\ Len(sum) = 1
  BY <1>2
<1> DEFINE data == Buffer(s)
<1> HIDE DEF head, sum, data
<1>7. data \in Seq(Values) /\ Len(data) = BlockSize
  BY <1>1, <1>4 DEF data
<1>8. head \o data \in Seq(Values) /\ Len(head \o data) = 3 + BlockSize
  BY <1>5, <1>7, Joined
<1>9. head \o data \o sum \in Seq(Values) /\ Len(head \o data \o sum) = 3 + BlockSize + 1
  BY <1>6, <1>8, Joined
<1>10. Block(s) = head \o data \o sum
  BY DEF head, sum, data, Block
<1> QED BY <1>1, <1>4, <1>9, <1>10

LEMMA InitTypes == Init => TypeInv
<1> SUFFICES ASSUME Init PROVE TypeInv
  OBVIOUS
<1>1. transfer \in Transfers /\ Len(file) \in Nat
  BY FileType DEF Init
<1>2. Lines
  BY XmodemAssumption, EmptySeq DEF Init, Lines
<1>3. ReceiverType
  BY XmodemAssumption, EmptySeq, Constants DEF Init, ReceiverType, Octets, Endings
<1>4. SenderType
  BY <1>1, XmodemAssumption DEF Init, SenderType, Octets, Endings
<1> QED BY <1>1, <1>2, <1>3, <1>4 DEF TypeInv
\* Of a party only the next place changes, and how it ended.
LEMMA ReceiverMoves ==
    ASSUME ReceiverType,
           NEW a \in {"terminal", "turning", "polling", "number", "inverse", "checksum"}, NEW e \in Endings,
           receiver' = [receiver EXCEPT !.at = a, !.ending = e] \/ receiver' = [receiver EXCEPT !.at = a]
    PROVE  ReceiverType'
  BY DEF ReceiverType

LEMMA ReceivingTypes ==
    ASSUME TypeInv, Receiving
    PROVE  TypeInv'
<1> USE DEF TypeInv
<1>1. UNCHANGED <<transfer, sender>> /\ SenderType'
  BY DEF Receiving, SenderType, file
<1>2. ASSUME StartReceiving PROVE TypeInv'
  <2>1. ReceiverType'
    BY <1>2, ReceiverMoves DEF StartReceiving, Endings
  <2>2. <<NAK>> \in Seq(Values)
    BY Constants
  <2>3. Lines'
    BY <1>2, <2>2, PutType DEF StartReceiving, Lines
  <2> QED BY <1>1, <2>1, <2>3
<1>3. ASSUME EndTurn PROVE TypeInv'
  <2>1. ReceiverType'
    BY <1>3, ReceiverMoves DEF EndTurn, Endings
  <2>2. <<receiver.outp>> \in Seq(Values)
    BY Constants DEF ReceiverType
  <2>3. Lines'
    BY <1>3, <2>2, PutType DEF EndTurn, Lines
  <2> QED BY <1>1, <2>1, <2>3
<1>4. ASSUME Poll PROVE TypeInv'
  <2>1. Lines'
    BY <1>4, TailType DEF Poll, Lines
  <2>2. \/ To("turning") \/ Close("done") \/ Close("cancelled")
        \/ receiver' = [receiver EXCEPT !.at = "number", !.outp = NAK]
    BY <1>4 DEF Poll
  <2>3. ReceiverType'
    <3>1. CASE To("turning") \/ Close("done") \/ Close("cancelled")
      BY <3>1, ReceiverMoves DEF To, Close, Endings
    <3>2. CASE receiver' = [receiver EXCEPT !.at = "number", !.outp = NAK]
      BY <3>2 DEF ReceiverType
    <3> QED BY <2>2, <3>1, <3>2
  <2> QED BY <1>1, <2>1, <2>3
<1>5. ASSUME BlockNumber PROVE TypeInv'
  <2>1. PICK b : Byte(b) /\ receiver' = [receiver EXCEPT !.at = "inverse", !.block_cnt = b]
    BY <1>5 DEF BlockNumber
  <2>2. b \in Values /\ Lines'
    BY <1>5, <2>1, ByteType DEF BlockNumber, Lines
  <2>3. ReceiverType'
    BY <2>1, <2>2 DEF ReceiverType
  <2> QED BY <1>1, <2>2, <2>3
<1>6. ASSUME InverseNumber PROVE TypeInv'
  <2>1. PICK b : Byte(b) /\ (To("turning") \/ receiver' = [receiver EXCEPT !.at = "data", !.xmodem_buffer = <<>>])
    BY <1>6 DEF InverseNumber
  <2>2. Lines'
    BY <1>6, <2>1, ByteType DEF InverseNumber, Lines
  <2>3. ReceiverType'
    <3>1. CASE To("turning")
      BY <3>1, ReceiverMoves DEF To, Endings
    <3>2. CASE receiver' = [receiver EXCEPT !.at = "data", !.xmodem_buffer = <<>>]
      <4>1. <<>> \in Seq(Values) /\ Len(<<>>) = 0 /\ 0 < BlockSize /\ 0 <= BlockSize
        BY XmodemAssumption, EmptySeq
      <4> DEFINE e == <<>>
      <4> HIDE DEF e
      <4>2. receiver' = [receiver EXCEPT !.at = "data", !.xmodem_buffer = e]
        BY <3>2 DEF e
      <4> QED BY <4>1, <4>2 DEF ReceiverType, e
    <3> QED BY <2>1, <3>1, <3>2
  <2> QED BY <1>1, <2>2, <2>3
<1>7. ASSUME Data PROVE TypeInv'
  <2> DEFINE buf == receiver.xmodem_buffer
  <2>1. PICK b : Byte(b) /\ receiver' = [receiver EXCEPT !.xmodem_buffer = Append(@, b),
                                         !.at = IF Len(receiver.xmodem_buffer) + 1 = BlockSize THEN "checksum" ELSE "data"]
    BY <1>7 DEF Data
  <2>2. b \in Values /\ Lines'
    BY <1>7, <2>1, ByteType DEF Data, Lines
  <2>3. buf \in Seq(Values) /\ Len(buf) \in Nat /\ Len(buf) < BlockSize /\ BlockSize \in Nat
    BY <1>7, XmodemAssumption DEF ReceiverType, Data
  <2>4. Append(buf, b) \in Seq(Values) /\ Len(Append(buf, b)) = Len(buf) + 1
    BY <2>2, <2>3
  <2> DEFINE at == IF Len(buf) + 1 = BlockSize THEN "checksum" ELSE "data"  new == Append(buf, b)
  <2>5. receiver' = [receiver EXCEPT !.xmodem_buffer = new, !.at = at]
    BY <2>1 DEF ReceiverType
  <2>6. at \in {"checksum", "data"} /\ (at = "data" => Len(new) < BlockSize) /\ Len(new) <= BlockSize /\ new \in Seq(Values)
    BY <2>3, <2>4
  <2> HIDE DEF buf, at, new
  <2>7. ReceiverType'
    BY <2>5, <2>6 DEF ReceiverType
  <2> QED BY <1>1, <2>2, <2>7
<1>8. ASSUME Checksum PROVE TypeInv'
  <2>1. PICK b : Byte(b) /\ Accept(b = Sum(receiver.xmodem_buffer))
    BY <1>8 DEF Checksum
  <2>2. Lines'
    BY <1>8, <2>1, ByteType DEF Checksum, Lines
  <2>3. \A e \in Octets : (e + 1) % 256 \in Octets
    BY DEF Octets
  <2> DEFINE exp == (receiver.block_exp + 1) % 256
             out == IF b = Sum(receiver.xmodem_buffer) THEN ACK ELSE receiver.outp
  <2>4. receiver' = [receiver EXCEPT !.at = "turning", !.block_exp = exp, !.outp = out]
    BY <2>1 DEF Accept, ReceiverType
  <2>5. exp \in Octets /\ out \in {ACK, NAK}
    BY <2>3 DEF ReceiverType
  <2> HIDE DEF exp, out
  <2>6. ReceiverType'
    BY <2>4, <2>5 DEF ReceiverType
  <2> QED BY <1>1, <2>2, <2>6
<1> QED BY <1>2, <1>3, <1>4, <1>5, <1>6, <1>7, <1>8 DEF Receiving, Receive

LEMMA PutsOnLine ==
    ASSUME Lines, NEW bytes \in Seq(Values), toReceiver' = Put(toReceiver, bytes),
           toSender' = toSender \/ (toSender # <<>> /\ toSender' = Tail(toSender))
    PROVE  Lines'
<1>1. toReceiver' \in Seq(Values) /\ Len(toReceiver)' <= Capacity
  BY PutType DEF Lines
<1>2. toSender' \in Seq(Values) /\ Len(toSender)' <= Capacity
  BY TailType DEF Lines
<1> QED BY <1>1, <1>2 DEF Lines

\* What is put on the line when a block, and perhaps CAN, is sent.
LEMMA Sendable ==
    ASSUME TypeInv, NEW s, s.read \in 0 .. Len(file), s.block_cnt \in Octets
    PROVE  Block(s) \in Seq(Values) /\ Block(s) \o <<CAN>> \in Seq(Values) /\ <<CAN>> \in Seq(Values) /\ <<EOT>> \in Seq(Values)
<1>1. Block(s) \in Seq(Values)
  BY BlockType
<1>2. <<CAN>> \in Seq(Values) /\ <<EOT>> \in Seq(Values)
  BY Constants
<1> QED BY <1>1, <1>2, Joined

LEMMA SendingTypes ==
    ASSUME TypeInv, Sending
    PROVE  TypeInv'
<1>1. UNCHANGED <<transfer, receiver>> /\ ReceiverType' /\ file' = file
  BY DEF Sending, ReceiverType, TypeInv, file
<1>2. Lines /\ SenderType /\ transfer \in Transfers /\ Len(file) \in Nat
  BY FileType DEF TypeInv
<1>3. ASSUME StartSending PROVE TypeInv'
  <2>1. file = <<>> \/ 1 <= Len(file)
    BY <1>2, FileType, EmptySeq
  <2> DEFINE r == IF file = <<>> THEN 0 ELSE 1
  <2>2. r \in Nat /\ r <= Len(file)
    BY <1>2, <2>1
  <2>3. sender' = [sender EXCEPT !.at = "waiting", !.read = r] /\ sender.ending = "none"
    BY <1>3 DEF StartSending
  <2> HIDE DEF r
  <2>4. SenderType'
    BY <1>1, <1>2, <2>2, <2>3 DEF SenderType
  <2> QED BY <1>1, <1>2, <1>3, <2>4 DEF TypeInv, StartSending, Lines
<1>4. ASSUME Answer, Resend PROVE TypeInv'
  <2> DEFINE s == [sender EXCEPT !.nak_cnt = @ + 1]
  <2>1. s.read \in 0 .. Len(file) /\ s.block_cnt \in Octets /\ s.nak_cnt = sender.nak_cnt + 1
    BY <1>2 DEF SenderType
  <2>2. Block(s) \in Seq(Values) /\ Block(s) \o <<CAN>> \in Seq(Values)
    BY <2>1, Sendable
  <2>3. \/ s.nak_cnt = MaxNaks /\ EndSending(s, "cancelled", Block(s) \o <<CAN>>)
        \/ s.nak_cnt # MaxNaks /\ sender' = s /\ toReceiver' = Put(toReceiver, Block(s))
    BY <1>4 DEF Resend
  <2>4. Lines'
    BY <1>2, <1>4, <2>2, <2>3, PutsOnLine DEF EndSending, Answer
  <2>5. sender.nak_cnt \in 0 .. MaxNaks /\ sender.nak_cnt < MaxNaks /\ MaxNaks \in Nat
    BY <1>2, <1>4, XmodemAssumption DEF SenderType, Answer
  <2> DEFINE k == sender.nak_cnt + 1
  <2>6. k \in 0 .. MaxNaks /\ (k # MaxNaks => k < MaxNaks) /\ s = [sender EXCEPT !.nak_cnt = k]
    BY <1>2, <2>5 DEF SenderType
  <2>7. \/ k = MaxNaks /\ sender' = [s EXCEPT !.at = "terminal", !.ending = "cancelled"]
        \/ k # MaxNaks /\ sender' = s
    BY <2>1, <2>3 DEF EndSending
  <2>8. sender.at = "waiting" /\ sender.ending = "none"
    BY <1>2, <1>4 DEF Answer, SenderType
  <2> HIDE DEF k, s
  <2>9. SenderType'
    BY <1>1, <1>2, <2>6, <2>7, <2>8 DEF SenderType, Endings
  <2> QED BY <1>1, <1>2, <2>4, <2>9 DEF TypeInv
<1>5. ASSUME Answer, SendNext PROVE TypeInv'
  <2> DEFINE s == [sender EXCEPT !.read = @ + 1, !.block_cnt = (@ + 1) % 256]
  <2>1. \A e \in Octets : (e + 1) % 256 \in Octets
    BY DEF Octets
  <2>2. CASE sender.read >= Len(file) /\ EndSending(sender, "done", <<EOT>>)
    <3>1. <<EOT>> \in Seq(Values)
      BY Constants
    <3>2. Lines'
      BY <1>2, <1>5, <2>2, <3>1, PutsOnLine DEF EndSending, Answer
    <3>3. SenderType'
      BY <1>1, <1>2, <2>2 DEF SenderType, EndSending, Endings
    <3> QED BY <1>1, <1>2, <3>2, <3>3 DEF TypeInv
  <2>3. CASE sender.read < Len(file) /\ sender' = s /\ toReceiver' = Put(toReceiver, Block(s))
    <3>1. s.read \in 0 .. Len(file) /\ s.block_cnt \in Octets
      BY <1>2, <2>1, <2>3 DEF SenderType
    <3>2. Lines'
      BY <1>2, <1>5, <2>3, <3>1, Sendable, PutsOnLine DEF Answer
    <3>3. SenderType'
      <4> DEFINE r == sender.read + 1  c == (sender.block_cnt + 1) % 256
      <4>1. r \in Nat /\ r <= Len(file) /\ c \in Octets
        BY <1>2, <2>1, <2>3 DEF SenderType
      <4>2. sender' = [sender EXCEPT !.read = r, !.block_cnt = c]
        BY <2>3
      <4> HIDE DEF r, c
      <4> QED BY <1>1, <1>2, <4>1, <4>2 DEF SenderType
    <3> QED BY <1>1, <1>2, <3>2, <3>3 DEF TypeInv
  <2>4. sender.read \in Nat
    BY <1>2 DEF SenderType
  <2> QED BY <1>2, <1>5, <2>2, <2>3, <2>4 DEF SendNext
<1>6. ASSUME Answer, UNCHANGED <<sender, toReceiver>> PROVE TypeInv'
  <2>1. Lines'
    BY <1>2, <1>6, TailType DEF Lines, Answer
  <2> QED BY <1>1, <1>2, <1>6, <2>1 DEF TypeInv, SenderType
<1>7. ASSUME SenderKey PROVE TypeInv'
  <2>1. <<CAN>> \in Seq(Values)
    BY Constants
  <2>2. Lines'
    BY <1>2, <1>7, <2>1, PutsOnLine DEF EndSending, SenderKey
  <2>3. SenderType'
    BY <1>1, <1>2, <1>7 DEF SenderType, EndSending, SenderKey, Endings
  <2> QED BY <1>1, <1>2, <2>2, <2>3 DEF TypeInv
<1> QED BY <1>3, <1>4, <1>5, <1>6, <1>7 DEF Sending, Send, Answer

LEMMA LineTypes ==
    ASSUME TypeInv, Showing \/ Line
    PROVE  TypeInv'
<1>1. UNCHANGED <<transfer, receiver, sender>> /\ ReceiverType' /\ SenderType'
  BY DEF Showing, Line, ReceiverType, SenderType, TypeInv, file
<1>2. ASSUME ShowText PROVE Lines'
  BY <1>2, TailType DEF ShowText, Lines, TypeInv
<1>3. ASSUME LoseAnswer PROVE Lines'
  BY <1>3, TailType DEF LoseAnswer, Lines, TypeInv
<1>4. ASSUME DamageBlock PROVE Lines'
  <2>1. PICK i \in DOMAIN toReceiver, b \in Noise : toReceiver' = [toReceiver EXCEPT ![i] = b]
    BY <1>4 DEF DamageBlock
  <2>2. b \in Values /\ toReceiver \in Seq(Values) /\ i \in 1 .. Len(toReceiver)
    BY <2>1, NoiseType DEF TypeInv, Lines
  <2>3. toReceiver' \in Seq(Values) /\ Len(toReceiver)' = Len(toReceiver)
    BY <2>1, <2>2, ExceptSeq
  <2> QED BY <1>4, <2>3 DEF DamageBlock, Lines, TypeInv
<1> QED BY <1>1, <1>2, <1>3, <1>4 DEF Showing, Line, TypeInv

LEMMA TypesKept == TypeInv /\ [Next]_vars => TypeInv'
<1>1. ASSUME TypeInv, UNCHANGED vars PROVE TypeInv'
  BY <1>1 DEF TypeInv, vars, Lines, ReceiverType, SenderType, file
<1> QED BY <1>1, ReceivingTypes, SendingTypes, LineTypes DEF Next

LEMMA TypesSay == TypeInv => TypeOK
  BY DEF TypeInv, TypeOK, Lines, ReceiverType, SenderType, Octets, Endings

\* Whatever either user and the line do, xmodem_receive() never fills its
\* buffer past a block, xmodem_send() stops at the last NAK it allows, both
\* count blocks in bytes, and neither line is overrun.
THEOREM TypeCorrect == Spec => []TypeOK
  BY InitTypes, TypesKept, TypesSay, PTL DEF Spec
-----------------------------------------------------------------------------
(* A transfer between parties that answer in time, over a line that may    *)
(* lose answers.                                                           *)

\* Both parties answer before the other gives up, blocks arrive as they were
\* sent, and there is something to send: xmodem_send() looks only at its
\* second block for whether it is there.
InTime == \A t \in Transfers : t.prompt /\ "damaged block" \notin t.faults /\ t.file # <<>>

\* The line takes a block and a cancellation.
Roomy == Capacity >= BlockSize + 5

\* The copy is the start of the file, and the number expected is its next one.
Copied ==
    /\ copy \in Seq([1 .. BlockSize -> Octets]) /\ Len(copy) <= Len(file) /\ copy = SubSeq(file, 1, Len(copy))
    /\ receiver.block_exp = (Len(copy) + 1) % 256

\* The sender's number is that of the block it has read.
Numbered ==
    /\ sender.at = "waiting" => sender.read # 0
    /\ sender.at = "terminal" /\ sender.ending = "none" => sender.read = 0
    /\ sender.block_cnt = (IF sender.read = 0 THEN 1 ELSE sender.read) % 256

\* What may follow the last block on the line.
Ends(t) ==
    \/ t = <<>>
    \/ t = <<CAN>> /\ sender.ending # "none"
    \/ t = <<EOT>> /\ sender.ending # "none" /\ copy = file

\* Nothing is asked for yet.
Off ==
    /\ receiver.at = "terminal" /\ receiver.outp = NAK
    /\ toSender = <<>> /\ Ends(toReceiver) /\ copy = <<>> /\ sender.read <= 1

\* An answer is on its way or lost, or the receiver is about to give it: the
\* first NAK, or an ACK of the block that the sender read last.
Asked ==
    /\ receiver.at \in {"polling", "turning"} /\ Ends(toReceiver)
    /\ toSender = <<>> \/ (receiver.at = "polling" /\ toSender = <<receiver.outp>>)
    /\ \/ receiver.outp = NAK /\ copy = <<>> /\ sender.read <= 1
       \/ receiver.outp = ACK /\ copy # <<>> /\ sender.read = Len(copy)

\* The byte of the block that the receiver is to take next.
Place ==
    CASE receiver.at = "polling" -> 1
      [] receiver.at = "number" -> 2
      [] receiver.at = "inverse" -> 3
      [] receiver.at = "data" -> 4 + Len(receiver.xmodem_buffer)
      [] OTHER -> BlockSize + 4

Left(t) == SubSeq(Block(sender) \o t, Place, BlockSize + 4 + Len(t))

\* The next block is on the line, from that byte on.
Underway ==
    /\ receiver.at \in {"polling", "number", "inverse", "data", "checksum"}
    /\ toSender = <<>> /\ sender.read = Len(copy) + 1
    /\ \E t : Ends(t) /\ toReceiver = Left(t)
    /\ receiver.at = "inverse" => receiver.block_cnt = sender.block_cnt
    /\ receiver.at \in {"data", "checksum"}
         => receiver.xmodem_buffer = SubSeq(Buffer(sender), 1, Len(receiver.xmodem_buffer))
    /\ receiver.at = "checksum" => Len(receiver.xmodem_buffer) = BlockSize

Phases ==
    /\ receiver.ending = "none" => Off \/ Asked \/ Underway
    /\ receiver.ending # "none" => receiver.at = "terminal"

Inv == TypeInv /\ faults \in Seq(transfer.faults) /\ Copied /\ Numbered /\ Phases

LEMMA Reliably ==
    ASSUME InTime, NEW t \in Transfers, NEW f \in Seq(t.faults)
    PROVE  t.prompt = TRUE /\ "damaged block" \notin ToSet(f)
<1>1. t.prompt = TRUE
  BY XmodemAssumption DEF InTime
<1>2. \A i \in DOMAIN f : f[i] \in t.faults
  OBVIOUS
<1> QED BY <1>1, <1>2 DEF InTime, ToSet

LEMMA FaultsKept ==
    ASSUME Next, faults \in Seq(transfer.faults)
    PROVE  faults' \in Seq(transfer.faults)' /\ transfer' = transfer
<1>1. UNCHANGED transfer
  BY DEF Next, Receiving, Sending, Showing, Line
<1>2. ASSUME NEW k, Fault(k) PROVE faults' \in Seq(transfer.faults)
  BY <1>2 DEF Fault
<1>3. UNCHANGED faults \/ \E k : Fault(k)
  BY DEF Next, Receiving, Receive, StartReceiving, EndTurn, Poll, BlockNumber, InverseNumber, Data, Checksum,
         Sending, Send, StartSending, Answer, SenderKey, Showing, Line, LoseAnswer, DamageBlock
<1> QED BY <1>1, <1>2, <1>3

-----------------------------------------------------------------------------
(* A block on the line.                                                    *)

LEMMA EndingType ==
    ASSUME NEW t \in {<<>>, <<CAN>>, <<EOT>>}
    PROVE  t \in Seq(Values) /\ Len(t) \in 0 .. 1 /\ Len(t) \in Nat
<1>1. <<>> \in Seq(Values) /\ Len(<<>>) = 0
  OBVIOUS
<1>2. ASSUME NEW v \in Values PROVE <<v>> \in Seq(Values) /\ Len(<<v>>) = 1
  OBVIOUS
<1>3. 0 \in 0 .. 1 /\ 1 \in 0 .. 1 /\ 0 \in Nat /\ 1 \in Nat
  OBVIOUS
<1>4. CASE t = <<>>
  BY <1>1, <1>3, <1>4
<1>5. CASE t = <<CAN>>
  BY <1>2, <1>3, <1>5, Constants
<1>6. CASE t = <<EOT>>
  BY <1>2, <1>3, <1>6, Constants
<1> QED BY <1>4, <1>5, <1>6

LEMMA EndsType ==
    ASSUME NEW t, Ends(t)
    PROVE  t \in Seq(Values) /\ Len(t) \in 0 .. 1 /\ (sender.ending = "none" => t = <<>>)
<1>1. t \in {<<>>, <<CAN>>, <<EOT>>} /\ (sender.ending = "none" => t = <<>>)
  BY DEF Ends
<1> QED BY <1>1, EndingType

Whole(t) == Block(sender) \o t

LEMMA WholeIs ==
    ASSUME TypeInv, NEW t \in Seq(Values)
    PROVE  /\ Whole(t) \in Seq(Values) /\ Len(Whole(t)) = BlockSize + 4 + Len(t)
           /\ Whole(t)[1] = SOH /\ Whole(t)[2] = sender.block_cnt /\ Whole(t)[3] = 255 - sender.block_cnt
           /\ \A i \in 1 .. BlockSize : Whole(t)[3 + i] = Buffer(sender)[i]
           /\ Whole(t)[BlockSize + 4] = Sum(Buffer(sender))
<1> DEFINE head == <<SOH, sender.block_cnt, 255 - sender.block_cnt>>  data == Buffer(sender)  sum == <<Sum(data)>>
<1>1. sender.read \in 0 .. Len(file) /\ sender.block_cnt \in Octets /\ BlockSize \in Nat
  BY FileType, XmodemAssumption DEF TypeInv, SenderType
<1>2. data \in Seq(Octets) /\ Len(data) = BlockSize /\ Block(sender) \in Seq(Values) /\ Len(Block(sender)) = BlockSize + 4
  BY <1>1, BlockType
<1>3. data \in Seq(Values) /\ sum \in Seq(Values) /\ Len(sum) = 1 /\ sum[1] = Sum(data)
  BY <1>2 DEF Values
<1>4. head \in Seq(Values) /\ Len(head) = 3 /\ head[1] = SOH /\ head[2] = sender.block_cnt /\ head[3] = 255 - sender.block_cnt
  <2>1. \A c \in Octets : 255 - c \in Octets
    BY DEF Octets
  <2> QED BY <1>1, <2>1, Constants DEF Values
<1>5. Block(sender) = head \o data \o sum
  BY DEF Block
<1> HIDE DEF head, data, sum
<1> DEFINE hd == head \o data
<1>6. /\ hd \in Seq(Values) /\ Len(hd) = 3 + BlockSize
      /\ \A i \in 1 .. 3 : hd[i] = head[i]
      /\ \A i \in 1 .. BlockSize : hd[3 + i] = data[i]
  <2>1. hd \in Seq(Values) /\ Len(hd) = 3 + BlockSize
    BY <1>2, <1>3, <1>4, Joined, ZenonT(60)
  <2>2. /\ \A i \in 1 .. Len(head) : hd[i] = head[i]
        /\ \A i \in 1 .. Len(data) : hd[Len(head) + i] = data[i]
    BY <1>3, <1>4, JoinedAt
  <2> QED BY <1>2, <1>4, <2>1, <2>2
<1> DEFINE b == hd \o sum
<1> HIDE DEF hd
<1>7. /\ \A i \in 1 .. 3 + BlockSize : b[i] = hd[i]
      /\ b[BlockSize + 4] = sum[1]
      /\ b \in Seq(Values) /\ Len(b) = BlockSize + 4
  <2>1. /\ b \in Seq(Values) /\ Len(b) = Len(hd) + Len(sum)
        /\ \A i \in 1 .. Len(hd) : b[i] = hd[i]
        /\ \A i \in 1 .. Len(sum) : b[Len(hd) + i] = sum[i]
    BY <1>3, <1>6, Joined, JoinedAt
  <2>2. 1 \in 1 .. Len(sum) /\ Len(hd) + 1 = BlockSize + 4
    BY <1>1, <1>3, <1>6
  <2>3. b[BlockSize + 4] = sum[1]
    BY <2>1, <2>2
  <2>4. Len(b) = BlockSize + 4
    BY <1>1, <1>3, <1>6, <2>1
  <2> QED BY <1>6, <2>1, <2>3, <2>4
<1>8. Block(sender) = b
  BY <1>5 DEF hd
<1> HIDE DEF b
<1>9. b \o t \in Seq(Values) /\ Len(b \o t) = BlockSize + 4 + Len(t) /\ \A i \in 1 .. BlockSize + 4 : (b \o t)[i] = b[i]
  BY <1>1, <1>7
<1>10. Whole(t) = b \o t
  BY <1>8 DEF Whole
<1>11. \A i \in 1 .. BlockSize : 3 + i \in 1 .. 3 + BlockSize /\ 3 + i \in 1 .. BlockSize + 4
  BY <1>1
<1>12. \A i \in 1 .. 3 : i \in 1 .. 3 + BlockSize /\ i \in 1 .. BlockSize + 4
  BY <1>1
<1>13. BlockSize + 4 \in 1 .. BlockSize + 4
  BY <1>1
<1>14. Whole(t)[1] = SOH /\ Whole(t)[2] = sender.block_cnt /\ Whole(t)[3] = 255 - sender.block_cnt
  BY <1>4, <1>6, <1>7, <1>9, <1>10, <1>12
<1>15. \A i \in 1 .. BlockSize : Whole(t)[3 + i] = data[i]
  BY <1>6, <1>7, <1>9, <1>10, <1>11
<1>16. Whole(t)[BlockSize + 4] = Sum(data)
  BY <1>3, <1>7, <1>9, <1>10, <1>13
<1> QED BY <1>9, <1>10, <1>14, <1>15, <1>16 DEF data

LEMMA DropFirst ==
    ASSUME NEW W \in Seq(Values), NEW n, n = Len(W), NEW k \in 1 .. n
    PROVE  /\ SubSeq(W, k, n) # <<>> /\ Head(SubSeq(W, k, n)) = W[k]
           /\ Tail(SubSeq(W, k, n)) = SubSeq(W, k + 1, n)
<1> DEFINE q == SubSeq(W, k, n)
<1>1. n \in Nat /\ k \in Nat /\ k >= 1 /\ k <= n
  OBVIOUS
<1>2. q \in Seq(Values) /\ Len(q) = n - k + 1 /\ \A i \in 1 .. n - k + 1 : q[i] = W[k + i - 1]
  BY <1>1, SubSeqProperties
<1>3. SubSeq(W, k + 1, n) \in Seq(Values) /\ Len(SubSeq(W, k + 1, n)) = n - k /\ \A i \in 1 .. n - k : SubSeq(W, k + 1, n)[i] = W[k + 1 + i - 1]
  BY <1>1, SubSeqProperties
<1> HIDE DEF q
<1>4. q # <<>> /\ Head(q) = W[k]
  BY <1>1, <1>2
<1>5. Tail(q) \in Seq(Values) /\ Len(Tail(q)) = n - k /\ \A i \in 1 .. n - k : Tail(q)[i] = q[i + 1]
  <2>1. Tail(q) \in Seq(Values) /\ Len(Tail(q)) = Len(q) - 1 /\ \A i \in 1 .. Len(Tail(q)) : Tail(q)[i] = q[i + 1]
    BY <1>2, <1>4, HeadTailProperties
  <2>2. Len(Tail(q)) = n - k
    BY <1>1, <1>2, <2>1
  <2> QED BY <2>1, <2>2
<1>6. \A i \in 1 .. n - k : Tail(q)[i] = SubSeq(W, k + 1, n)[i]
  <2> SUFFICES ASSUME NEW i \in 1 .. n - k PROVE Tail(q)[i] = SubSeq(W, k + 1, n)[i]
    OBVIOUS
  <2>1. i + 1 \in 1 .. n - k + 1 /\ k + (i + 1) - 1 = k + 1 + i - 1
    BY <1>1
  <2> QED BY <1>2, <1>3, <1>5, <2>1
<1>7. Tail(q) = SubSeq(W, k + 1, n)
  BY <1>3, <1>5, <1>6, SeqEqual
<1> QED BY <1>4, <1>7 DEF q

LEMMA DropAll ==
    ASSUME NEW b \in Seq(Values), NEW t \in Seq(Values), NEW n, n = Len(b)
    PROVE  SubSeq(b \o t, n + 1, n + Len(t)) = t
<1> DEFINE W == b \o t  q == SubSeq(W, n + 1, n + Len(t))
<1>1. n \in Nat /\ Len(t) \in Nat
  OBVIOUS
<1>2. W \in Seq(Values) /\ Len(W) = n + Len(t) /\ \A i \in 1 .. Len(t) : W[n + i] = t[i]
  OBVIOUS
<1> HIDE DEF W
<1>3. q \in Seq(Values) /\ Len(q) = Len(t) /\ \A i \in 1 .. Len(t) : q[i] = W[n + 1 + i - 1]
  BY <1>1, <1>2, SubSeqProperties
<1>4. \A i \in 1 .. Len(t) : q[i] = t[i]
  <2> SUFFICES ASSUME NEW i \in 1 .. Len(t) PROVE q[i] = t[i]
    OBVIOUS
  <2>1. n + 1 + i - 1 = n + i
    BY <1>1
  <2> QED BY <1>2, <1>3, <2>1
<1> HIDE DEF q
<1>5. q = t
  BY <1>3, <1>4, SeqEqual
<1> QED BY <1>5 DEF q, W

LEMMA AddLast ==
    ASSUME NEW W \in Seq(Values), NEW x \in Seq(Values), NEW n, n = Len(W), NEW k \in 1 .. n + 1
    PROVE  SubSeq(W, k, n) \o x = SubSeq(W \o x, k, n + Len(x))
<1> DEFINE q == SubSeq(W, k, n)  V == W \o x  m == n + Len(x)  r == SubSeq(V, k, m)
<1>1. n \in Nat /\ k \in Nat /\ k >= 1 /\ k <= n + 1 /\ Len(x) \in Nat /\ m \in Nat /\ m >= n
  OBVIOUS
<1>2. q \in Seq(Values) /\ Len(q) = n - k + 1 /\ \A i \in 1 .. n - k + 1 : q[i] = W[k + i - 1]
  BY <1>1, SubSeqProperties
<1>3. V \in Seq(Values) /\ Len(V) = m /\ (\A i \in 1 .. n : V[i] = W[i]) /\ (\A i \in 1 .. Len(x) : V[n + i] = x[i])
  BY <1>1
<1> HIDE DEF V
<1>4. r \in Seq(Values) /\ Len(r) = m - k + 1 /\ \A i \in 1 .. m - k + 1 : r[i] = V[k + i - 1]
  BY <1>1, <1>3, SubSeqProperties
<1> HIDE DEF q, r
<1>5. q \o x \in Seq(Values) /\ Len(q \o x) = m - k + 1
      /\ (\A i \in 1 .. n - k + 1 : (q \o x)[i] = q[i]) /\ (\A i \in 1 .. Len(x) : (q \o x)[n - k + 1 + i] = x[i])
  <2>1. /\ q \o x \in Seq(Values) /\ Len(q \o x) = Len(q) + Len(x)
        /\ \A i \in 1 .. Len(q) : (q \o x)[i] = q[i]
        /\ \A i \in 1 .. Len(x) : (q \o x)[Len(q) + i] = x[i]
    BY <1>2, Joined, JoinedAt
  <2>2. Len(q \o x) = m - k + 1
    BY <1>1, <1>2, <2>1
  <2> QED BY <1>2, <2>1, <2>2
<1>6. ASSUME NEW i \in 1 .. m - k + 1 PROVE (q \o x)[i] = r[i]
  <2>1. CASE i <= n - k + 1
    <3>1. i \in 1 .. n - k + 1 /\ k + i - 1 \in 1 .. n
      BY <1>1, <2>1
    <3> QED BY <1>2, <1>3, <1>4, <1>5, <3>1
  <2>2. CASE i > n - k + 1
    <3> DEFINE j == i - (n - k + 1)
    <3>1. j \in 1 .. Len(x) /\ n - k + 1 + j = i /\ k + i - 1 = n + j
      BY <1>1, <2>2
    <3> HIDE DEF j
    <3>2. r[i] = V[n + j]
      BY <1>4, <3>1
    <3>3. (q \o x)[i] = x[j]
      BY <1>5, <3>1
    <3> QED BY <1>3, <3>1, <3>2, <3>3
  <2>3. i \in Int /\ n - k + 1 \in Int
    BY <1>1
  <2>4. i <= n - k + 1 \/ i > n - k + 1
    BY <2>3
  <2> QED BY <2>1, <2>2, <2>4
<1>7. q \o x = r
  <2>1. Len(q \o x) = Len(r)
    BY <1>4, <1>5
  <2> QED BY <1>4, <1>5, <1>6, <2>1, SeqEqual
<1> QED BY <1>7 DEF q, r, V
-----------------------------------------------------------------------------
(* Receiving.                                                              *)

\* What a step amounts to.
Step == Inv' /\ [Transfer!Next]_(Transfer!vars)

\* A step that leaves the copy and the verdict alone.
LEMMA Stutters ==
    ASSUME InTime, Inv, Inv', UNCHANGED <<transfer, copy>>, receiver'.ending = receiver.ending
    PROVE  Step
<1>1. transfer \in Transfers /\ faults \in Seq(transfer.faults) /\ faults' \in Seq(transfer.faults)
  BY DEF Inv, TypeInv
<1>2. "damaged block" \notin ToSet(faults) /\ "damaged block" \notin ToSet(faults') /\ transfer.prompt = TRUE
  BY <1>1, Reliably
<1>3. UNCHANGED <<file, prompt>>
  BY DEF file, prompt
<1>4. UNCHANGED Transfer!vars
  BY <1>2, <1>3 DEF Transfer!vars
<1> QED BY <1>4 DEF Step

\* The conditions that nearly every step keeps.
LEMMA Keeps ==
    ASSUME Inv, Next, UNCHANGED copy, receiver'.block_exp = receiver.block_exp, Numbered', Phases'
    PROVE  Inv'
<1>1. TypeInv' /\ faults' \in Seq(transfer.faults)' /\ transfer' = transfer
  BY TypesKept, FaultsKept DEF Inv
<1>2. Copied'
  BY <1>1 DEF Inv, Copied, file
<1> QED BY <1>1, <1>2 DEF Inv

LEMMA SenderSame ==
    ASSUME UNCHANGED <<transfer, sender>>
    PROVE  /\ Block(sender)' = Block(sender) /\ Buffer(sender)' = Buffer(sender) /\ file' = file
           /\ (Numbered => Numbered')
           /\ UNCHANGED copy => \A t : Ends(t) => Ends(t)'
<1>1. file' = file
  BY DEF file
<1>2. Buffer(sender)' = Buffer(sender)
  BY <1>1 DEF Buffer
<1>3. Block(sender)' = Block(sender)
  BY <1>2 DEF Block
<1> QED BY <1>1, <1>2, <1>3 DEF Numbered, Ends

LEMMA SizeIsNat == BlockSize \in Nat /\ BlockSize >= 1
  BY XmodemAssumption

LEMMA PlaceIs ==
    ASSUME TypeInv
    PROVE  Place \in 1 .. BlockSize + 4
<1>1. receiver.at = "data" => 4 + Len(receiver.xmodem_buffer) \in 1 .. BlockSize + 4
  BY SizeIsNat DEF TypeInv, ReceiverType
<1>2. 1 \in 1 .. BlockSize + 4 /\ 2 \in 1 .. BlockSize + 4 /\ 3 \in 1 .. BlockSize + 4 /\ BlockSize + 4 \in 1 .. BlockSize + 4
  BY SizeIsNat
<1> QED BY <1>1, <1>2 DEF Place

\* The first byte of what is left of a block is at the receiver's place in it.
LEMMA NextByte ==
    ASSUME Inv, Underway
    PROVE  \E t : /\ Ends(t) /\ t \in Seq(Values) /\ Len(t) \in Nat
                  /\ toReceiver # <<>> /\ Head(toReceiver) = Whole(t)[Place]
                  /\ Tail(toReceiver) = SubSeq(Whole(t), Place + 1, BlockSize + 4 + Len(t))
<1>1. PICK t : Ends(t) /\ toReceiver = Left(t)
  BY DEF Underway
<1>2. t \in Seq(Values) /\ Len(t) \in Nat
  BY <1>1, EndsType
<1> DEFINE n == BlockSize + 4 + Len(t)
<1>3. Whole(t) \in Seq(Values) /\ Len(Whole(t)) = n
  BY <1>2, WholeIs DEF Inv
<1>4. Place \in 1 .. n
  BY <1>2, PlaceIs, SizeIsNat DEF Inv
<1>5. toReceiver = SubSeq(Whole(t), Place, n)
  BY <1>1 DEF Left, Whole
<1> DEFINE W == Whole(t)  k == Place
<1> HIDE DEF W, n, k
<1>6. SubSeq(W, k, n) # <<>> /\ Head(SubSeq(W, k, n)) = W[k] /\ Tail(SubSeq(W, k, n)) = SubSeq(W, k + 1, n)
  <2>1. W \in Seq(Values) /\ n = Len(W) /\ k \in 1 .. n
    BY <1>3, <1>4 DEF W, k
  <2> QED BY <2>1, DropFirst
<1> QED BY <1>1, <1>2, <1>5, <1>6 DEF W, k, n

\* A step that takes a byte of the block.
LEMMA TakesByte ==
    ASSUME Inv, Underway, NEW b, Byte(b)
    PROVE  \E t : /\ Ends(t) /\ t \in Seq(Values) /\ Len(t) \in Nat
                  /\ b = Whole(t)[Place]
                  /\ toReceiver' = SubSeq(Whole(t), Place + 1, BlockSize + 4 + Len(t))
<1>1. PICK t : /\ Ends(t) /\ t \in Seq(Values) /\ Len(t) \in Nat
               /\ toReceiver # <<>> /\ Head(toReceiver) = Whole(t)[Place]
               /\ Tail(toReceiver) = SubSeq(Whole(t), Place + 1, BlockSize + 4 + Len(t))
  BY NextByte
<1>2. b = Head(toReceiver) /\ toReceiver' = Tail(toReceiver)
  BY <1>1 DEF Byte, Late
<1> QED BY <1>1, <1>2

\* A byte of the block was taken, and another is to come.
LEMMA GoesOn ==
    ASSUME Inv, Underway, UNCHANGED <<transfer, sender, copy, toSender>>,
           NEW t, Ends(t), toReceiver' = SubSeq(Whole(t), Place + 1, BlockSize + 4 + Len(t)),
           Place' = Place + 1, receiver'.at \in {"number", "inverse", "data", "checksum"},
           receiver'.at = "inverse" => receiver'.block_cnt = sender.block_cnt,
           receiver'.at \in {"data", "checksum"}
             => receiver'.xmodem_buffer = SubSeq(Buffer(sender), 1, Len(receiver'.xmodem_buffer)),
           receiver'.at = "checksum" => Len(receiver'.xmodem_buffer) = BlockSize
    PROVE  Underway'
<1>1. Ends(t)' /\ Block(sender)' = Block(sender) /\ Buffer(sender)' = Buffer(sender)
  BY SenderSame
<1>2. Left(t)' = SubSeq(Whole(t), Place + 1, BlockSize + 4 + Len(t))
  BY <1>1 DEF Left, Whole
<1>3. \E u : Ends(u)' /\ toReceiver' = Left(u)'
  BY <1>1, <1>2
<1> QED BY <1>1, <1>3 DEF Underway
\* Inside a block the receiver was told nothing else.
LEMMA InABlock ==
    ASSUME Inv, receiver.at \in {"number", "inverse", "data", "checksum"}
    PROVE  Underway /\ receiver.ending = "none" /\ ReceiverType
<1>1. receiver.ending = "none"
  BY DEF Inv, Phases
<1>2. ~Off /\ ~Asked
  BY DEF Off, Asked
<1> QED BY <1>1, <1>2 DEF Inv, Phases, TypeInv

LEMMA TakesNumber ==
    ASSUME InTime, Inv, Receiving, BlockNumber
    PROVE  Step
<1>1. Underway /\ receiver.ending = "none" /\ ReceiverType
  BY InABlock DEF BlockNumber
<1>2. PICK b : Byte(b) /\ receiver' = [receiver EXCEPT !.at = "inverse", !.block_cnt = b]
  BY DEF BlockNumber
<1>3. PICK t : /\ Ends(t) /\ t \in Seq(Values) /\ Len(t) \in Nat /\ b = Whole(t)[Place]
               /\ toReceiver' = SubSeq(Whole(t), Place + 1, BlockSize + 4 + Len(t))
  BY <1>1, <1>2, TakesByte
<1>4. Place = 2 /\ receiver'.at = "inverse" /\ receiver'.block_cnt = b /\ receiver'.ending = receiver.ending
      /\ receiver'.block_exp = receiver.block_exp
  BY <1>1, <1>2 DEF Place, BlockNumber, ReceiverType
<1>5. Place' = Place + 1
  <2>1. Place' = 3
    BY <1>4 DEF Place
  <2> QED BY <1>4, <2>1
<1>6. b = sender.block_cnt
  BY <1>3, <1>4, WholeIs DEF Inv
<1>7. UNCHANGED <<transfer, sender, copy, toSender>> /\ Next
  BY DEF Receiving, BlockNumber, Next
<1>8. Underway'
  <2>1. receiver'.at = "inverse" /\ receiver'.block_cnt = sender.block_cnt
    BY <1>4, <1>6
  <2> QED BY <1>1, <1>3, <1>5, <1>7, <2>1, GoesOn
<1>9. Phases' /\ Numbered'
  BY <1>1, <1>4, <1>7, <1>8, SenderSame DEF Phases, Inv
<1>10. Inv'
  BY <1>4, <1>7, <1>9, Keeps
<1> QED BY <1>4, <1>7, <1>10, Stutters

LEMMA TakesInverse ==
    ASSUME InTime, Inv, Receiving, InverseNumber
    PROVE  Step
<1>1. Underway /\ receiver.ending = "none" /\ ReceiverType
  BY InABlock DEF InverseNumber
<1>2. PICK b : /\ Byte(b)
               /\ IF receiver.block_cnt = 255 - b /\ receiver.block_cnt = receiver.block_exp
                  THEN receiver' = [receiver EXCEPT !.at = "data", !.xmodem_buffer = <<>>]
                  ELSE To("turning")
  BY DEF InverseNumber
<1>3. PICK t : /\ Ends(t) /\ t \in Seq(Values) /\ Len(t) \in Nat /\ b = Whole(t)[Place]
               /\ toReceiver' = SubSeq(Whole(t), Place + 1, BlockSize + 4 + Len(t))
  BY <1>1, <1>2, TakesByte
<1>4. Place = 3
  BY DEF Place, InverseNumber
<1>5. b = 255 - sender.block_cnt
  BY <1>3, <1>4, WholeIs DEF Inv
<1>6. receiver.block_cnt = sender.block_cnt /\ sender.read = Len(copy) + 1
  BY <1>1 DEF Underway, InverseNumber
<1>7. receiver.block_cnt = 255 - b
  <2>1. sender.block_cnt \in Octets
    BY DEF Inv, TypeInv, SenderType
  <2>2. \A c \in Octets : 255 - (255 - c) = c
    BY DEF Octets
  <2> QED BY <1>5, <1>6, <2>1, <2>2
<1>8. receiver.block_cnt = receiver.block_exp
  <2>1. Len(copy) \in Nat
    BY DEF Inv, Copied
  <2>2. sender.read # 0
    BY <1>6, <2>1
  <2> QED BY <1>6, <2>2 DEF Inv, Copied, Numbered
<1>9. receiver' = [receiver EXCEPT !.at = "data", !.xmodem_buffer = <<>>]
  BY <1>2, <1>7, <1>8
<1>10. receiver'.at = "data" /\ receiver'.xmodem_buffer = <<>> /\ receiver'.ending = receiver.ending
      /\ receiver'.block_exp = receiver.block_exp
  BY <1>1, <1>9 DEF ReceiverType
<1>11. Len(receiver'.xmodem_buffer) = 0
  BY <1>10, EmptySeq
<1>12. Place' = Place + 1
  <2>1. Place' = 4
    BY <1>10, <1>11 DEF Place
  <2> QED BY <1>4, <2>1
<1>13. UNCHANGED <<transfer, sender, copy, toSender>> /\ Next
  BY DEF Receiving, InverseNumber, Next
<1>14. SubSeq(Buffer(sender), 1, 0) = <<>>
  BY SubSeqEmpty
<1>15. Underway'
  BY <1>1, <1>3, <1>10, <1>11, <1>12, <1>13, <1>14, GoesOn
<1>16. Phases' /\ Numbered'
  BY <1>1, <1>10, <1>13, <1>15, SenderSame DEF Phases, Inv
<1>17. Inv'
  BY <1>10, <1>13, <1>16, Keeps
<1> QED BY <1>10, <1>13, <1>17, Stutters

LEMMA TakesData ==
    ASSUME InTime, Inv, Receiving, Data
    PROVE  Step
<1> DEFINE buf == receiver.xmodem_buffer  k == Len(buf)  data == Buffer(sender)
           at == IF k + 1 = BlockSize THEN "checksum" ELSE "data"
<1>1. Underway /\ receiver.ending = "none" /\ ReceiverType /\ receiver.at = "data"
  BY InABlock DEF Data
<1>2. PICK b : Byte(b) /\ receiver' = [receiver EXCEPT !.xmodem_buffer = Append(@, b), !.at = at]
  BY DEF Data
<1>3. PICK t : /\ Ends(t) /\ t \in Seq(Values) /\ Len(t) \in Nat /\ b = Whole(t)[Place]
               /\ toReceiver' = SubSeq(Whole(t), Place + 1, BlockSize + 4 + Len(t))
  BY <1>1, <1>2, TakesByte
<1>4. Place = 4 + k /\ k \in Nat /\ k < BlockSize /\ buf \in Seq(Values) /\ buf = SubSeq(data, 1, k)
  BY <1>1 DEF Place, ReceiverType, Underway
<1>5. b = data[k + 1]
  <2>1. k + 1 \in 1 .. BlockSize /\ 3 + (k + 1) = 4 + k
    BY <1>4, SizeIsNat
  <2>2. Whole(t)[3 + (k + 1)] = data[k + 1]
    BY <1>3, <2>1, WholeIs DEF Inv
  <2> QED BY <1>3, <1>4, <2>1, <2>2
<1>6. receiver'.at = at /\ receiver'.xmodem_buffer = Append(buf, b) /\ receiver'.ending = receiver.ending
      /\ receiver'.block_exp = receiver.block_exp
  BY <1>1, <1>2 DEF ReceiverType
<1>7. data \in Seq(Octets) /\ Len(data) = BlockSize
  <2>1. sender.read \in 0 .. Len(file) /\ sender.block_cnt \in Octets
    BY FileType DEF Inv, TypeInv, SenderType
  <2> QED BY <2>1, BlockType DEF Inv
<1>8. UNCHANGED <<transfer, sender, copy, toSender>> /\ Next
  BY DEF Receiving, Data, Next
<1> DEFINE new == Append(buf, b)
<1> HIDE DEF data
<1>9. Len(new) = k + 1 /\ new = SubSeq(data, 1, k + 1)
  <2>1. Len(new) = k + 1
    BY <1>4
  <2>2. k + 1 \in 1 .. Len(data)
    BY <1>4, <1>7, SizeIsNat
  <2>3. SubSeq(data, 1, k + 1) = Append(SubSeq(data, 1, k), data[k + 1])
    BY <1>4, <1>7, <2>2
  <2> QED BY <1>4, <1>5, <2>1, <2>3
<1>10. at = "checksum" => k + 1 = BlockSize
  OBVIOUS
<1>11. at \in {"data", "checksum"}
  OBVIOUS
<1> HIDE DEF new, buf
<1>12. Place' = Place + 1
  <2>1. CASE at = "data"
    BY <1>4, <1>6, <1>9, <2>1 DEF Place, new
  <2>2. CASE at = "checksum"
    <3>1. Place' = BlockSize + 4
      BY <1>6, <2>2 DEF Place
    <3> QED BY <1>4, <1>10, <2>2, <3>1
  <2> QED BY <1>11, <2>1, <2>2
<1>13. Underway'
  BY <1>1, <1>3, <1>6, <1>8, <1>9, <1>10, <1>11, <1>12, GoesOn DEF new, data
<1>14. Phases' /\ Numbered'
  BY <1>1, <1>6, <1>8, <1>13, SenderSame DEF Phases, Inv
<1>15. Inv'
  BY <1>6, <1>8, <1>14, Keeps
<1> QED BY <1>6, <1>8, <1>15, Stutters
LEMMA TakesChecksum ==
    ASSUME InTime, Inv, Receiving, Checksum
    PROVE  Step
<1> DEFINE n == Len(copy)  data == Buffer(sender)
<1>1. Underway /\ receiver.ending = "none" /\ ReceiverType /\ receiver.at = "checksum"
  BY InABlock DEF Checksum
<1>2. PICK b : Byte(b) /\ Accept(b = Sum(receiver.xmodem_buffer))
  BY DEF Checksum
<1>3. PICK t : /\ Ends(t) /\ t \in Seq(Values) /\ Len(t) \in Nat /\ b = Whole(t)[Place]
               /\ toReceiver' = SubSeq(Whole(t), Place + 1, BlockSize + 4 + Len(t))
  BY <1>1, <1>2, TakesByte
<1>4. Place = BlockSize + 4
  BY <1>1 DEF Place
<1>5. b = Sum(data)
  BY <1>3, <1>4, WholeIs DEF Inv
<1>6. sender.read \in 0 .. Len(file) /\ sender.block_cnt \in Octets /\ transfer \in Transfers /\ TypeInv
  BY FileType DEF Inv, TypeInv, SenderType
<1>7. data \in Seq(Octets) /\ Len(data) = BlockSize /\ Block(sender) \in Seq(Values) /\ Len(Block(sender)) = BlockSize + 4
  BY <1>6, BlockType
<1>8. receiver.xmodem_buffer = data
  <2>1. receiver.xmodem_buffer = SubSeq(data, 1, BlockSize)
    BY <1>1 DEF Underway
  <2> QED BY <1>7, <2>1, SubSeqFull
<1>9. copy' = Append(copy, data)
  BY <1>2, <1>5, <1>8 DEF Accept
<1>10. /\ receiver'.at = "turning" /\ receiver'.block_exp = (receiver.block_exp + 1) % 256
       /\ receiver'.outp = ACK /\ receiver'.ending = "none"
  BY <1>1, <1>2, <1>5, <1>8 DEF Accept, ReceiverType
<1>11. n \in Nat /\ sender.read = n + 1 /\ n < Len(file) /\ Len(file) \in Nat /\ data = file[n + 1]
  <2>1. n \in Nat /\ sender.read = n + 1
    BY <1>1 DEF Inv, Copied, Underway
  <2> QED BY <1>6, <2>1, FileType DEF Buffer
<1>12. UNCHANGED <<transfer, sender, toSender, faults>> /\ file' = file /\ Next
  BY DEF Receiving, Checksum, Next, file
<1>13. TypeInv' /\ faults' \in Seq(transfer.faults)' /\ Numbered'
  BY <1>12, TypesKept, FaultsKept, SenderSame DEF Inv
<1>14. Copied'
  <2>1. copy \in Seq([1 .. BlockSize -> Octets]) /\ file \in Seq([1 .. BlockSize -> Octets]) /\ copy = SubSeq(file, 1, n)
    BY <1>6, FileType DEF Inv, Copied
  <2>2. n + 1 \in 1 .. Len(file) /\ file[n + 1] \in [1 .. BlockSize -> Octets]
    BY <1>11, <2>1
  <2>3. SubSeq(file, 1, n + 1) = Append(SubSeq(file, 1, n), file[n + 1])
    BY <1>11, <2>1, <2>2
  <2>4. copy' \in Seq([1 .. BlockSize -> Octets]) /\ Len(copy)' = n + 1
    BY <1>9, <1>11, <2>1, <2>2
  <2>5. copy' = SubSeq(file, 1, n + 1)
    BY <1>9, <1>11, <2>1, <2>3
  <2>6. (((n + 1) % 256) + 1) % 256 = (n + 1 + 1) % 256
    BY <1>11
  <2>7. receiver'.block_exp = (Len(copy)' + 1) % 256
    BY <1>10, <2>4, <2>6 DEF Inv, Copied
  <2>8. Len(copy)' <= Len(file)
    BY <1>11, <2>4
  <2> QED BY <1>12, <2>4, <2>5, <2>7, <2>8 DEF Copied
<1>15. toReceiver' = t
  <2> DEFINE bl == Block(sender)  m == BlockSize + 4
  <2>1. bl \in Seq(Values) /\ m = Len(bl) /\ toReceiver' = SubSeq(bl \o t, m + 1, m + Len(t))
    BY <1>3, <1>4, <1>7 DEF Whole
  <2> HIDE DEF bl, m
  <2> QED BY <1>3, <2>1, DropAll
<1>16. Ends(toReceiver)'
  <2>1. copy # file
    BY <1>11
  <2> QED BY <1>3, <1>12, <1>15, <2>1 DEF Ends
<1>17. Asked'
  <2>1. copy' # <<>> /\ sender'.read = Len(copy)'
    <3>1. copy \in Seq([1 .. BlockSize -> Octets])
      BY DEF Inv, Copied
    <3>2. Len(copy') = n + 1
      BY <1>9, <3>1
    <3>3. n + 1 # 0 /\ Len(<<>>) = 0
      BY <1>11
    <3> QED BY <1>11, <1>12, <3>2, <3>3
  <2>2. toSender' = <<>>
    BY <1>1, <1>12 DEF Underway
  <2> QED BY <1>10, <1>16, <2>1, <2>2 DEF Asked
<1>18. Inv'
  BY <1>10, <1>13, <1>14, <1>17 DEF Inv, Phases
<1>19. Transfer!Deliver
  BY <1>1, <1>9, <1>10, <1>11, <1>12 DEF Transfer!Deliver, prompt
<1> QED BY <1>18, <1>19 DEF Step, Transfer!Next

\* A transfer that ends is over for the receiver.
LEMMA EndsReceiving ==
    ASSUME InTime, Inv, Receiving, UNCHANGED copy, NEW how \in {"done", "cancelled"}, Close(how),
           receiver.ending = "none", how = "done" => copy = file
    PROVE  Step
<1>1. receiver'.at = "terminal" /\ receiver'.ending = how /\ receiver'.block_exp = receiver.block_exp
  BY DEF Close, Inv, TypeInv, ReceiverType
<1>2. UNCHANGED <<transfer, sender>> /\ Next
  BY DEF Receiving, Next
<1>3. Inv'
  BY <1>1, <1>2, Keeps, SenderSame DEF Inv, Phases
<1>4. transfer \in Transfers /\ faults \in Seq(transfer.faults) /\ faults' \in Seq(transfer.faults)
  BY <1>2, <1>3 DEF Inv, TypeInv
<1>5. "damaged block" \notin ToSet(faults) /\ "damaged block" \notin ToSet(faults') /\ transfer.prompt = TRUE
  BY <1>4, Reliably
<1>6. UNCHANGED <<file, prompt>>
  BY <1>2 DEF file, prompt
<1>7. Transfer!Finish \/ Transfer!GiveUp
  BY <1>1, <1>5, <1>6 DEF Transfer!Finish, Transfer!GiveUp
<1> QED BY <1>3, <1>7 DEF Step, Transfer!Next

LEMMA TakesControl ==
    ASSUME InTime, Inv, Receiving, Poll
    PROVE  Step
<1>1. receiver.at = "polling" /\ receiver.ending = "none" /\ ReceiverType /\ (Asked \/ Underway)
  BY DEF Poll, Inv, Phases, Off, TypeInv
<1>2. UNCHANGED <<transfer, sender, copy, toSender, faults>> /\ Next
  BY DEF Receiving, Poll, Next
<1>3. CASE Underway
  <2>1. PICK t : /\ Ends(t) /\ t \in Seq(Values) /\ Len(t) \in Nat
                 /\ toReceiver # <<>> /\ Head(toReceiver) = Whole(t)[Place]
                 /\ Tail(toReceiver) = SubSeq(Whole(t), Place + 1, BlockSize + 4 + Len(t))
    BY <1>3, NextByte
  <2>2. Place = 1
    BY <1>1 DEF Place
  <2>3. Head(toReceiver) = SOH
    BY <2>1, <2>2, WholeIs DEF Inv
  <2>4. toReceiver' = Tail(toReceiver) /\ receiver' = [receiver EXCEPT !.at = "number", !.outp = NAK]
    BY <2>1, <2>3 DEF Poll, Late, SOH, EOT, CAN
  <2>5. receiver'.at = "number" /\ receiver'.ending = receiver.ending /\ receiver'.block_exp = receiver.block_exp
    BY <1>1, <2>4 DEF ReceiverType
  <2>6. Place' = Place + 1
    BY <2>2, <2>5 DEF Place
  <2>7. Underway'
    BY <1>2, <1>3, <2>1, <2>4, <2>5, <2>6, GoesOn
  <2>8. Phases' /\ Numbered'
    BY <1>1, <1>2, <2>5, <2>7, SenderSame DEF Phases, Inv
  <2>9. Inv'
    BY <1>2, <2>5, <2>8, Keeps
  <2> QED BY <1>2, <2>5, <2>9, Stutters
<1>4. CASE Asked
  <2>1. CASE toReceiver = <<>>
    <3>1. Late /\ To("turning") /\ UNCHANGED toReceiver
      BY <2>1 DEF Poll
    <3>2. toSender = <<>>
      BY <3>1 DEF Late, prompt, InTime, Inv, TypeInv
    <3>3. receiver'.at = "turning" /\ receiver'.outp = receiver.outp /\ receiver'.ending = receiver.ending
          /\ receiver'.block_exp = receiver.block_exp
      BY <1>1, <3>1 DEF To, ReceiverType
    <3>4. Ends(toReceiver)'
      BY <1>2, <1>4, <3>1, SenderSame DEF Asked, Ends
    <3>5. Asked'
      BY <1>2, <1>4, <3>2, <3>3, <3>4 DEF Asked
    <3>6. Phases' /\ Numbered'
      BY <1>1, <1>2, <3>3, <3>5, SenderSame DEF Phases, Inv
    <3>7. Inv'
      BY <1>2, <3>3, <3>6, Keeps
    <3> QED BY <1>2, <3>3, <3>7, Stutters
  <2>2. CASE toReceiver = <<CAN>>
    <3>1. Head(toReceiver) = CAN /\ toReceiver # <<>>
      BY <2>2
    <3>2. Close("cancelled")
      BY <3>1 DEF Poll, Late, SOH, EOT, CAN
    <3> QED BY <1>1, <1>2, <3>2, EndsReceiving
  <2>3. CASE toReceiver = <<EOT>>
    <3>1. Head(toReceiver) = EOT /\ toReceiver # <<>>
      BY <2>3
    <3>2. Close("done")
      BY <3>1 DEF Poll, Late, SOH, EOT, CAN
    <3>3. copy = file
      <4>1. EOT # CAN /\ <<EOT>> # <<CAN>>
        BY DEF EOT, CAN
      <4> QED BY <1>4, <2>3, <3>1, <4>1 DEF Asked, Ends
    <3> QED BY <1>1, <1>2, <3>2, <3>3, EndsReceiving
  <2> QED BY <1>4, <2>1, <2>2, <2>3 DEF Asked, Ends
<1> QED BY <1>1, <1>3, <1>4

LEMMA PutsOne ==
    ASSUME Roomy, NEW v \in Values
    PROVE  Put(<<>>, <<v>>) = <<v>>
<1>1. Len(<<>>) + Len(<<v>>) <= Capacity
  BY SizeIsNat, XmodemAssumption DEF Roomy
<1> QED BY <1>1 DEF Put

LEMMA Starts ==
    ASSUME InTime, Roomy, Inv, Receiving, StartReceiving
    PROVE  Step
<1>1. Off /\ ReceiverType
  BY DEF Inv, Phases, Asked, Underway, StartReceiving, TypeInv
<1>2. UNCHANGED <<transfer, sender, copy, toReceiver, faults>> /\ Next
  BY DEF Receiving, StartReceiving, Next
<1>3. toSender' = <<NAK>>
  BY <1>1, PutsOne, Constants DEF StartReceiving, Off
<1>4. receiver'.at = "polling" /\ receiver'.outp = receiver.outp /\ receiver'.ending = receiver.ending
      /\ receiver'.block_exp = receiver.block_exp
  BY <1>1 DEF StartReceiving, ReceiverType
<1>5. Ends(toReceiver)'
  BY <1>1, <1>2, SenderSame DEF Off, Ends
<1>6. Asked'
  BY <1>1, <1>2, <1>3, <1>4, <1>5 DEF Off, Asked
<1>7. Phases' /\ Numbered'
  BY <1>2, <1>4, <1>6, SenderSame DEF Phases, Inv, StartReceiving
<1>8. Inv'
  BY <1>2, <1>4, <1>7, Keeps
<1> QED BY <1>2, <1>4, <1>8, Stutters

LEMMA Turns ==
    ASSUME InTime, Roomy, Inv, Receiving, EndTurn
    PROVE  Step
<1>1. receiver.at = "turning" /\ receiver.ending = "none" /\ ReceiverType /\ Asked /\ toSender = <<>>
  BY DEF Inv, Phases, Off, Underway, Asked, EndTurn, TypeInv
<1>2. UNCHANGED <<transfer, sender, copy, toReceiver>> /\ Next
  BY DEF Receiving, EndTurn, Next
<1>3. CASE receiver' = [receiver EXCEPT !.at = "polling"] /\ toSender' = Put(toSender, <<receiver.outp>>)
  <2>1. receiver.outp \in Values
    BY <1>1, Constants DEF ReceiverType
  <2>2. toSender' = <<receiver.outp>>
    BY <1>1, <1>3, <2>1, PutsOne
  <2>3. receiver'.at = "polling" /\ receiver'.outp = receiver.outp /\ receiver'.ending = receiver.ending
        /\ receiver'.block_exp = receiver.block_exp
    BY <1>1, <1>3 DEF ReceiverType
  <2>4. Ends(toReceiver)'
    BY <1>1, <1>2, SenderSame DEF Asked, Ends
  <2>5. Asked'
    BY <1>1, <1>2, <2>2, <2>3, <2>4 DEF Asked
  <2>6. Phases' /\ Numbered'
    BY <1>1, <1>2, <2>3, <2>5, SenderSame DEF Phases, Inv
  <2>7. Inv'
    BY <1>2, <2>3, <2>6, Keeps
  <2> QED BY <1>2, <2>3, <2>7, Stutters
<1>4. CASE receiver' = [receiver EXCEPT !.at = "terminal", !.ending = "cancelled"]
  BY <1>1, <1>2, <1>4, EndsReceiving DEF Close
<1> QED BY <1>3, <1>4 DEF EndTurn
-----------------------------------------------------------------------------
(* Sending, and the line.                                                  *)

LEMMA BlockSame ==
    ASSUME UNCHANGED transfer, sender'.read = sender.read, sender'.block_cnt = sender.block_cnt
    PROVE  Block(sender)' = Block(sender) /\ Buffer(sender)' = Buffer(sender) /\ file' = file
<1>1. file' = file
  BY DEF file
<1>2. Buffer(sender)' = Buffer(sender)
  BY <1>1 DEF Buffer
<1> QED BY <1>1, <1>2 DEF Block

\* The sender and the line leave the copy to the receiver.
LEMMA Elsewhere ==
    ASSUME InTime, Inv, Next, UNCHANGED <<copy, receiver>>, Numbered', receiver.ending = "none" => (Off \/ Asked \/ Underway)'
    PROVE  Step
<1>1. Phases'
  BY DEF Inv, Phases
<1>2. Inv' /\ UNCHANGED transfer
  BY <1>1, Keeps, FaultsKept DEF Inv
<1> QED BY <1>2, Stutters

LEMMA StartsSending ==
    ASSUME InTime, Inv, Sending, StartSending
    PROVE  Step
<1>1. UNCHANGED <<transfer, copy, receiver, toReceiver, toSender, faults>> /\ Next
  BY DEF Sending, StartSending, Next
<1>2. file # <<>> /\ SenderType /\ sender.read = 0 /\ sender.block_cnt = 1
  <2>1. file # <<>> /\ SenderType /\ sender.read = 0
    BY DEF Inv, TypeInv, InTime, file, Numbered, StartSending
  <2>2. sender.block_cnt = 1 % 256
    BY <2>1 DEF Inv, Numbered
  <2> QED BY <2>1, <2>2
<1>3. sender' = [sender EXCEPT !.at = "waiting", !.read = 1]
  BY <1>2 DEF StartSending
<1>4. sender'.at = "waiting" /\ sender'.read = 1 /\ sender'.block_cnt = 1 /\ sender'.ending = sender.ending
  BY <1>2, <1>3 DEF SenderType
<1>5. Numbered'
  BY <1>4 DEF Numbered
<1>6. ASSUME Ends(toReceiver) PROVE Ends(toReceiver)'
  BY <1>1, <1>4, <1>6 DEF Ends, file
<1>7. Len(copy) \in Nat /\ (copy # <<>> => Len(copy) # 0)
  BY EmptySeq DEF Inv, Copied
<1>8. ASSUME receiver.ending = "none" PROVE (Off \/ Asked \/ Underway)'
  <2>1. CASE Off
    BY <1>1, <1>4, <1>6, <2>1 DEF Off
  <2>2. CASE Asked
    BY <1>1, <1>2, <1>4, <1>6, <1>7, <2>2 DEF Asked
  <2>3. CASE Underway
    BY <1>2, <1>7, <2>3 DEF Underway
  <2> QED BY <1>8, <2>1, <2>2, <2>3 DEF Inv, Phases
<1> QED BY <1>1, <1>5, <1>8, Elsewhere

\* What xmodem_send() sends is a block, whatever it has read.
LEMMA SendsABlock == TypeInv => Block(sender) \in Seq(Values) /\ Len(Block(sender)) = BlockSize + 4
<1> SUFFICES ASSUME TypeInv PROVE Block(sender) \in Seq(Values) /\ Len(Block(sender)) = BlockSize + 4
  OBVIOUS
<1>1. sender.read \in 0 .. Len(file) /\ sender.block_cnt \in Octets
  BY FileType DEF TypeInv, SenderType
<1> QED BY <1>1, BlockType

\* The sender's block is on an empty line.
LEMMA BlockIsSent ==
    ASSUME Inv, TypeInv', receiver.at = "polling", toSender' = <<>>, UNCHANGED <<receiver, copy, transfer>>,
           sender'.read = Len(copy) + 1, NEW t, Ends(t)', toReceiver' = Block(sender)' \o t
    PROVE  Underway'
<1> DEFINE W == Block(sender)' \o t  n == BlockSize + 4 + Len(t)
<1>1. Block(sender)' \in Seq(Values) /\ Len(Block(sender)') = BlockSize + 4
  <2>1. (TypeInv => Block(sender) \in Seq(Values) /\ Len(Block(sender)) = BlockSize + 4)'
    BY SendsABlock, PTL
  <2> QED BY <2>1
<1>2. t \in Seq(Values) /\ Len(t) \in Nat
  <2>1. t \in {<<>>, <<CAN>>, <<EOT>>}
    BY DEF Ends
  <2> QED BY <2>1, EndingType
<1>3. W \in Seq(Values) /\ Len(W) = n
  BY <1>1, <1>2, Joined
<1>4. W = SubSeq(W, 1, n)
  <2> HIDE DEF W, n
  <2> QED BY <1>3, SubSeqFull
<1>5. Place' = 1
  BY DEF Place
<1>6. Left(t)' = SubSeq(W, 1, n)
  BY <1>5 DEF Left
<1>7. \E u : Ends(u)' /\ toReceiver' = Left(u)'
  BY <1>4, <1>6
<1> QED BY <1>7 DEF Underway

LEMMA FitsBlock ==
    ASSUME Roomy, Inv, NEW s, s.read \in 0 .. Len(file), s.block_cnt \in Octets
    PROVE  Put(<<>>, Block(s)) = Block(s) /\ Put(<<>>, Block(s) \o <<CAN>>) = Block(s) \o <<CAN>>
<1> DEFINE b == Block(s)  c == Block(s) \o <<CAN>>
<1>1. b \in Seq(Values) /\ Len(b) = BlockSize + 4
  BY BlockType DEF Inv
<1>2. <<CAN>> \in Seq(Values) /\ Len(<<CAN>>) = 1
  BY Constants
<1>3. c \in Seq(Values) /\ Len(c) = BlockSize + 5
  <2> HIDE DEF b
  <2>1. b \o <<CAN>> \in Seq(Values) /\ Len(b \o <<CAN>>) = BlockSize + 5
    BY <1>1, <1>2, Joined, SizeIsNat
  <2> QED BY <2>1 DEF b
<1> HIDE DEF b, c
<1>4. Len(<<>>) + Len(b) <= Capacity /\ Len(<<>>) + Len(c) <= Capacity
  BY <1>1, <1>3, SizeIsNat, XmodemAssumption DEF Roomy
<1>5. <<>> \o b = b /\ <<>> \o c = c
  BY <1>1, <1>3, ConcatEmptySeq
<1> QED BY <1>4, <1>5 DEF Put, b, c

\* The receiver is waiting for the sender whenever there is an answer.
LEMMA AnAnswerIsThere ==
    ASSUME Inv, toSender # <<>>, receiver.ending = "none"
    PROVE  /\ receiver.at = "polling" /\ toSender = <<receiver.outp>> /\ Head(toSender) = receiver.outp
           /\ Tail(toSender) = <<>> /\ Ends(toReceiver) /\ Len(copy) \in Nat
           /\ \/ receiver.outp = NAK /\ copy = <<>> /\ sender.read <= 1
              \/ receiver.outp = ACK /\ copy # <<>> /\ sender.read = Len(copy)
<1>1. Asked
  BY DEF Inv, Phases, Off, Underway
<1>2. toSender = <<receiver.outp>> /\ receiver.at = "polling"
  BY <1>1 DEF Asked
<1>3. Head(toSender) = receiver.outp /\ Tail(toSender) = <<>>
  BY <1>2
<1>4. Len(copy) \in Nat
  BY DEF Inv, Copied
<1> QED BY <1>1, <1>2, <1>3, <1>4 DEF Asked

LEMMA SendsAgain ==
    ASSUME InTime, Roomy, Inv, Sending, Answer, Resend
    PROVE  Step
<1> DEFINE s == [sender EXCEPT !.nak_cnt = @ + 1]
<1>1. UNCHANGED <<transfer, copy, receiver, faults>> /\ Next /\ toSender' = Tail(toSender) /\ toSender # <<>>
      /\ sender.at = "waiting" /\ Head(toSender) = NAK
  BY DEF Sending, Answer, Next, Send, Resend
<1>2. SenderType /\ sender.ending = "none" /\ sender.read # 0 /\ sender.read \in 0 .. Len(file) /\ sender.block_cnt \in Octets
  BY <1>1, FileType DEF Inv, TypeInv, SenderType, Numbered
<1>3. s.read = sender.read /\ s.block_cnt = sender.block_cnt
  BY <1>2 DEF SenderType
<1>4. \/ sender' = [s EXCEPT !.at = "terminal", !.ending = "cancelled"] /\ toReceiver' = Put(toReceiver, Block(s) \o <<CAN>>)
      \/ sender' = s /\ toReceiver' = Put(toReceiver, Block(s))
  BY DEF Resend, EndSending
<1>5. sender'.read = sender.read /\ sender'.block_cnt = sender.block_cnt
  BY <1>2, <1>4 DEF SenderType
<1>6. Numbered'
  BY <1>1, <1>2, <1>4, <1>5 DEF Numbered, Inv, SenderType
<1>7. Block(sender)' = Block(sender) /\ Block(s) = Block(sender) /\ file' = file
  BY <1>1, <1>3, <1>5, BlockSame, ZenonT(60) DEF Block, Buffer
<1>8. ASSUME receiver.ending = "none" PROVE Underway'
  <2>1. /\ receiver.at = "polling" /\ toSender' = <<>> /\ Ends(toReceiver) /\ copy = <<>> /\ sender.read <= 1
    BY <1>1, <1>8, AnAnswerIsThere DEF ACK, NAK
  <2>2. toReceiver = <<>> /\ Len(copy) = 0 /\ sender.read = 1
    BY <1>2, <2>1, EndsType DEF SenderType
  <2>3. TypeInv'
    BY <1>1, TypesKept DEF Inv
  <2>4. Put(<<>>, Block(s)) = Block(s) /\ Put(<<>>, Block(s) \o <<CAN>>) = Block(s) \o <<CAN>>
    BY <1>2, <1>3, FitsBlock
  <2> HIDE DEF s
  <2>5. CASE toReceiver' = Put(toReceiver, Block(s) \o <<CAN>>) /\ sender' = [s EXCEPT !.at = "terminal", !.ending = "cancelled"]
    <3>1. Ends(<<CAN>>)'
      <4>1. sender'.ending = "cancelled"
        BY <1>2, <2>5 DEF SenderType, s
      <4> QED BY <4>1 DEF Ends
    <3> DEFINE t == <<CAN>>
    <3>2. Ends(t)' /\ toReceiver' = Block(sender)' \o t
      BY <1>7, <2>2, <2>4, <2>5, <3>1
    <3> HIDE DEF t
    <3> QED BY <1>1, <1>5, <2>1, <2>2, <2>3, <3>2, BlockIsSent
  <2>6. CASE toReceiver' = Put(toReceiver, Block(s))
    <3> DEFINE t == <<>>
    <3>1. Block(s) \in Seq(Values)
      BY <1>2, <1>7, BlockType DEF Inv
    <3>2. Block(s) \o t = Block(s)
      BY <3>1, ConcatEmptySeq
    <3>3. Ends(t)' /\ toReceiver' = Block(sender)' \o t
      BY <1>7, <2>2, <2>4, <2>6, <3>2 DEF Ends
    <3> HIDE DEF t
    <3> QED BY <1>1, <1>5, <2>1, <2>2, <2>3, <3>3, BlockIsSent
  <2> QED BY <1>4, <2>5, <2>6
<1> QED BY <1>1, <1>6, <1>8, Elsewhere
LEMMA SendsTheNext ==
    ASSUME InTime, Roomy, Inv, Sending, Answer, SendNext
    PROVE  Step
<1>1. UNCHANGED <<transfer, copy, receiver, faults>> /\ Next /\ toSender' = Tail(toSender) /\ toSender # <<>>
      /\ sender.at = "waiting" /\ Head(toSender) = ACK
  BY DEF Sending, Answer, Next, Send, SendNext
<1>2. /\ SenderType /\ sender.ending = "none" /\ sender.read # 0 /\ sender.read \in 0 .. Len(file)
      /\ sender.block_cnt \in Octets /\ sender.block_cnt = sender.read % 256 /\ Len(file) \in Nat
  BY <1>1, FileType DEF Inv, TypeInv, SenderType, Numbered
<1>3. ASSUME receiver.ending = "none"
      PROVE  /\ receiver.at = "polling" /\ toSender' = <<>> /\ toReceiver = <<>>
             /\ receiver.outp = ACK /\ copy # <<>> /\ sender.read = Len(copy) /\ Len(copy) \in Nat
  <2>1. /\ receiver.at = "polling" /\ toSender' = <<>> /\ Ends(toReceiver)
        /\ receiver.outp = ACK /\ copy # <<>> /\ sender.read = Len(copy) /\ Len(copy) \in Nat
    BY <1>1, <1>3, AnAnswerIsThere DEF ACK, NAK
  <2> QED BY <1>2, <2>1, EndsType
<1>4. TypeInv' /\ file' = file
  BY <1>1, TypesKept DEF Inv, file
<1>5. CASE sender.read >= Len(file) /\ EndSending(sender, "done", <<EOT>>)
  <2>1. sender'.read = sender.read /\ sender'.block_cnt = sender.block_cnt /\ sender'.ending = "done" /\ sender'.at = "terminal"
    BY <1>2, <1>5 DEF SenderType, EndSending
  <2>2. Numbered'
    BY <1>2, <2>1 DEF Numbered
  <2>3. ASSUME receiver.ending = "none" PROVE Asked'
    <3>1. Len(copy) = Len(file)
      BY <1>2, <1>3, <1>5, <2>3
    <3>2. copy = file
      <4>1. file \in Seq([1 .. BlockSize -> Octets]) /\ copy = SubSeq(file, 1, Len(file))
        BY <3>1, FileType DEF Inv, Copied, TypeInv
      <4> QED BY <4>1, SubSeqFull
    <3>3. toReceiver' = <<EOT>>
      BY <1>3, <1>5, <2>3, PutsOne, Constants DEF EndSending
    <3>4. Ends(toReceiver)'
      BY <1>1, <1>4, <2>1, <3>2, <3>3 DEF Ends
    <3> QED BY <1>1, <1>3, <2>1, <2>3, <3>4 DEF Asked
  <2> QED BY <1>1, <2>2, <2>3, Elsewhere
<1> DEFINE s == [sender EXCEPT !.read = @ + 1, !.block_cnt = (@ + 1) % 256]
<1>6. CASE sender.read < Len(file) /\ sender' = s /\ toReceiver' = Put(toReceiver, Block(s))
  <2>1. /\ sender'.read = sender.read + 1 /\ sender'.block_cnt = (sender.block_cnt + 1) % 256
        /\ sender'.at = "waiting" /\ sender'.ending = "none"
    BY <1>1, <1>2, <1>6 DEF SenderType
  <2>2. sender'.block_cnt = sender'.read % 256 /\ sender'.read # 0
    <3>1. \A n \in Nat : ((n % 256) + 1) % 256 = (n + 1) % 256 /\ n + 1 # 0
      OBVIOUS
    <3>2. sender.read \in Nat
      BY <1>2
    <3> QED BY <1>2, <2>1, <3>1, <3>2
  <2>3. Numbered'
    BY <2>1, <2>2 DEF Numbered
  <2>4. ASSUME receiver.ending = "none" PROVE Underway'
    <3>1. s.read \in 0 .. Len(file) /\ s.block_cnt \in Octets
      <4>1. s.read = sender.read + 1 /\ s.block_cnt \in Octets
        BY <1>2, <1>4, <1>6 DEF TypeInv, SenderType
      <4> QED BY <1>2, <1>6, <4>1
    <3> DEFINE t == <<>>
    <3>2. Block(s) \in Seq(Values) /\ Put(<<>>, Block(s)) = Block(s)
      BY <3>1, FitsBlock, BlockType DEF Inv
    <3>3. Block(s) \o t = Block(s)
      BY <3>2, ConcatEmptySeq
    <3>4. Block(sender)' = Block(s)
      BY <1>4, <1>6 DEF Block, Buffer
    <3>5. Ends(t)' /\ toReceiver' = Block(sender)' \o t
      BY <1>3, <1>6, <2>4, <3>2, <3>3, <3>4 DEF Ends
    <3>6. sender'.read = Len(copy) + 1 /\ receiver.at = "polling" /\ toSender' = <<>>
      BY <1>3, <2>1, <2>4
    <3> HIDE DEF t
    <3> QED BY <1>1, <1>4, <3>5, <3>6, BlockIsSent
  <2> QED BY <1>1, <2>3, <2>4, Elsewhere
<1>7. sender.read >= Len(file) \/ sender.read < Len(file)
  BY <1>2
<1> QED BY <1>5, <1>6, <1>7 DEF SendNext

LEMMA IgnoresOthers ==
    ASSUME InTime, Inv, Sending, Answer, Head(toSender) \notin {ACK, NAK}, UNCHANGED <<sender, toReceiver>>
    PROVE  Step
<1>1. UNCHANGED <<transfer, copy, receiver, sender>> /\ Next /\ toSender # <<>>
  BY DEF Sending, Answer, Next, Send
<1>2. receiver.ending # "none"
  BY <1>1, AnAnswerIsThere DEF Inv, TypeInv, ReceiverType
<1>3. Numbered'
  BY <1>1, SenderSame DEF Inv
<1> QED BY <1>1, <1>2, <1>3, Elsewhere

\* A cancellation joins the line, or finds it full.
LEMMA Cancels ==
    ASSUME InTime, Roomy, Inv, Sending, SenderKey
    PROVE  Step
<1>1. UNCHANGED <<transfer, copy, receiver, toSender>> /\ Next /\ sender.at = "waiting"
  BY DEF Sending, SenderKey, Next, Send
<1>2. SenderType /\ sender.ending = "none"
  BY <1>1 DEF Inv, TypeInv, SenderType
<1>3. /\ sender'.read = sender.read /\ sender'.block_cnt = sender.block_cnt /\ sender'.ending = "cancelled"
      /\ sender'.at = "terminal" /\ toReceiver' = Put(toReceiver, <<CAN>>)
  BY <1>2 DEF SenderType, EndSending, SenderKey
<1>4. Numbered'
  BY <1>3 DEF Numbered, Inv
<1>5. ASSUME Ends(toReceiver) PROVE Ends(toReceiver)'
  <2>1. toReceiver = <<>>
    BY <1>2, <1>5, EndsType
  <2>2. toReceiver' = <<CAN>>
    BY <1>3, <2>1, PutsOne, Constants
  <2> QED BY <1>3, <2>2 DEF Ends
<1>6. Place' = Place
  BY <1>1 DEF Place
<1>7. Block(sender)' = Block(sender) /\ Buffer(sender)' = Buffer(sender)
  BY <1>1, <1>3, BlockSame
<1>8. ASSUME Underway PROVE Underway'
  <2> DEFINE none == <<>>  can == <<CAN>>  W == Whole(none)  n == BlockSize + 4
  <2>1. PICK t : Ends(t) /\ toReceiver = Left(t)
    BY <1>8 DEF Underway
  <2>2. t = none
    BY <1>2, <2>1, EndsType
  <2>3. none \in Seq(Values) /\ Len(none) = 0 /\ can \in Seq(Values) /\ Len(can) = 1
    BY Constants
  <2>4. W \in Seq(Values) /\ Len(W) = n /\ W = Block(sender) /\ Block(sender) \in Seq(Values)
    <3>1. Block(sender) \in Seq(Values) /\ Len(Block(sender)) = BlockSize + 4
      BY SendsABlock DEF Inv
    <3>2. Block(sender) \o <<>> = Block(sender)
      BY <3>1, ConcatEmptySeq
    <3> QED BY <3>1, <3>2 DEF Whole
  <2>5. toReceiver = SubSeq(W, Place, n) /\ Place \in 1 .. n + 1
    <3>1. BlockSize + 4 + Len(none) = n /\ n \in Nat
      BY <2>3, SizeIsNat
    <3>2. Place \in 1 .. n
      BY PlaceIs DEF Inv
    <3>3. toReceiver = SubSeq(W, Place, BlockSize + 4 + Len(none))
      BY <2>1, <2>2 DEF Left, Whole
    <3>4. toReceiver = SubSeq(W, Place, n)
      BY <3>1, <3>3
    <3> QED BY <3>1, <3>2, <3>4
  <2>6. \E u : Ends(u)' /\ toReceiver' = Left(u)'
    <3>1. CASE toReceiver' = toReceiver
      <4>1. Ends(t)'
        BY <2>2 DEF Ends
      <4>2. Left(t)' = Left(t)
        BY <1>6, <1>7 DEF Left
      <4> QED BY <2>1, <3>1, <4>1, <4>2
    <3>2. CASE toReceiver' = toReceiver \o can
      <4>1. Ends(can)'
        BY <1>3 DEF Ends
      <4>2. Left(can)' = SubSeq(Block(sender) \o can, Place, BlockSize + 4 + Len(can))
        BY <1>6, <1>7 DEF Left
      <4> DEFINE B == Block(sender)  k == Place
      <4> HIDE DEF can, none, W, n, B, k
      <4>3. B \in Seq(Values) /\ n = Len(B) /\ k \in 1 .. n + 1 /\ toReceiver = SubSeq(B, k, n)
        BY <2>4, <2>5 DEF B, k
      <4>4. SubSeq(B, k, n) \o can = SubSeq(B \o can, k, n + Len(can))
        BY <2>3, <4>3, AddLast
      <4>5. toReceiver' = Left(can)'
        BY <3>2, <4>2, <4>3, <4>4 DEF B, k, n
      <4> QED BY <4>1, <4>5
    <3> QED BY <1>3, <3>1, <3>2 DEF Put
  <2> QED BY <1>1, <1>3, <1>7, <1>8, <2>6 DEF Underway
<1>9. ASSUME receiver.ending = "none" PROVE (Off \/ Asked \/ Underway)'
  <2>1. CASE Off
    BY <1>1, <1>3, <1>5, <2>1 DEF Off
  <2>2. CASE Asked
    BY <1>1, <1>3, <1>5, <2>2 DEF Asked
  <2> QED BY <1>8, <1>9, <2>1, <2>2 DEF Inv, Phases
<1> QED BY <1>1, <1>4, <1>9, Elsewhere

\* An answer is taken off the line, by the terminal or by a fault.
LEMMA AnswerGoes ==
    ASSUME InTime, Inv, Next, UNCHANGED <<transfer, copy, receiver, sender, toReceiver>>,
           toSender # <<>>, toSender' = Tail(toSender)
    PROVE  Step
<1>1. Numbered' /\ (Ends(toReceiver) => Ends(toReceiver)')
  BY SenderSame DEF Inv, Ends
<1>2. ASSUME receiver.ending = "none" PROVE Asked'
  <2>1. Asked
    BY <1>2 DEF Inv, Phases, Off, Underway
  <2>2. toSender' = <<>>
    BY <1>2, AnAnswerIsThere
  <2> QED BY <1>1, <2>1, <2>2 DEF Asked
<1> QED BY <1>1, <1>2, Elsewhere

LEMMA Shows ==
    ASSUME InTime, Inv, Showing
    PROVE  Step
<1>1. Next /\ UNCHANGED <<transfer, copy, receiver, sender, faults>>
  BY DEF Next, Showing
<1>2. CASE receiver.at = "terminal" /\ toReceiver # <<>> /\ toReceiver' = Tail(toReceiver) /\ UNCHANGED toSender
  <2>1. Numbered'
    BY <1>1, SenderSame DEF Inv
  <2>2. ASSUME receiver.ending = "none" PROVE Off'
    <3>1. Off
      BY <1>2, <2>2 DEF Inv, Phases, Asked, Underway
    <3>2. toReceiver = <<CAN>> \/ toReceiver = <<EOT>>
      BY <1>2, <3>1 DEF Off, Ends
    <3>3. toReceiver' = <<>>
      <4>1. \A v : Tail(<<v>>) = <<>>
        OBVIOUS
      <4> QED BY <1>2, <3>2, <4>1
    <3>4. Ends(toReceiver)'
      BY <3>3 DEF Ends
    <3> QED BY <1>1, <1>2, <3>1, <3>4 DEF Off
  <2> QED BY <1>1, <2>1, <2>2, Elsewhere
<1>3. CASE toSender # <<>> /\ toSender' = Tail(toSender) /\ UNCHANGED toReceiver
  BY <1>1, <1>3, AnswerGoes
<1> QED BY <1>2, <1>3 DEF Showing, ShowText

LEMMA LineFails ==
    ASSUME InTime, Inv, Line
    PROVE  Step
<1>1. Next /\ UNCHANGED <<transfer, copy, receiver, sender>>
  BY DEF Next, Line
<1>2. ~DamageBlock
  BY DEF DamageBlock, Fault, InTime, Inv, TypeInv
<1>3. toSender # <<>> /\ toSender' = Tail(toSender) /\ UNCHANGED toReceiver
  BY <1>2 DEF Line, LoseAnswer
<1> QED BY <1>1, <1>3, AnswerGoes

LEMMA StepIs ==
    ASSUME InTime, Roomy, Inv, [Next]_vars
    PROVE  Step
<1>1. CASE UNCHANGED vars
  <2>1. TypeInv'
    BY <1>1, TypesKept DEF Inv
  <2>2. \A t : Ends(t) => Ends(t)'
    BY <1>1, SenderSame DEF vars
  <2>3. Block(sender)' = Block(sender) /\ Buffer(sender)' = Buffer(sender) /\ file' = file /\ Numbered'
    BY <1>1, SenderSame DEF vars, Inv
  <2>4. Place' = Place
    BY <1>1 DEF vars, Place
  <2>5. Copied' /\ faults' \in Seq(transfer.faults)'
    BY <1>1, <2>3 DEF Copied, vars, Inv
  <2>6. Off => Off'
    BY <1>1, <2>2 DEF vars, Off
  <2>7. Asked => Asked'
    BY <1>1, <2>2 DEF vars, Asked
  <2>8. Underway => Underway'
    <3>1. ASSUME NEW t PROVE Left(t)' = Left(t)
      BY <2>3, <2>4 DEF Left
    <3> QED BY <1>1, <2>2, <2>3, <3>1 DEF vars, Underway
  <2>9. Phases'
    BY <1>1, <2>6, <2>7, <2>8 DEF Phases, Inv, vars
  <2>10. Inv'
    BY <2>1, <2>3, <2>5, <2>9 DEF Inv
  <2> QED BY <1>1, <2>10, Stutters DEF vars
<1>2. CASE Receiving
  BY <1>2, Starts, Turns, TakesControl, TakesNumber, TakesInverse, TakesData, TakesChecksum DEF Receiving, Receive
<1>3. CASE Sending
  <2>1. CASE Answer
    BY <1>3, <2>1, SendsAgain, SendsTheNext, IgnoresOthers DEF Answer
  <2> QED BY <1>3, <2>1, StartsSending, Cancels DEF Sending, Send
<1> QED BY <1>1, <1>2, <1>3, Shows, LineFails DEF Next

-----------------------------------------------------------------------------

LEMMA InitInv ==
    ASSUME Init
    PROVE  Inv
<1>1. TypeInv
  BY InitTypes
<1>2. faults \in Seq(transfer.faults) /\ copy = <<>> /\ Len(copy) = 0
  BY DEF Init
<1>3. Copied
  <2>1. SubSeq(file, 1, 0) = <<>>
    BY SubSeqEmpty
  <2>2. Len(file) \in Nat
    BY <1>1, FileType DEF TypeInv
  <2>3. receiver.block_exp = 1 /\ (0 + 1) % 256 = 1
    BY DEF Init
  <2>4. copy \in Seq([1 .. BlockSize -> Octets])
    BY <1>2, EmptySeq
  <2> QED BY <1>2, <2>1, <2>2, <2>3, <2>4 DEF Copied
<1>4. Numbered
  BY DEF Init, Numbered
<1>5. Phases
  BY DEF Init, Phases, Off, Ends
<1> QED BY <1>1, <1>2, <1>3, <1>4, <1>5 DEF Inv

LEMMA InitMaps ==
    ASSUME InTime, Init
    PROVE  Transfer!Init
<1>1. transfer \in Transfers /\ faults = <<>> /\ copy = <<>> /\ receiver.ending = "none"
  BY DEF Init
<1>2. file \in {t.file : t \in Transfers}
  BY <1>1 DEF file
<1>3. (prompt /\ "damaged block" \notin ToSet(faults)) \in BOOLEAN
  OBVIOUS
<1> QED BY <1>1, <1>2, <1>3 DEF Transfer!Init

\* Between parties that answer in time, however often answers are lost,
\* whenever either party starts and whoever cancels, what xmodem_receive()
\* writes is the file that xmodem_send() reads, block by block and past every
\* wrap of the numbers, and it says that it is done of the whole file only.
THEOREM FileArrives ==
    ASSUME InTime, Roomy
    PROVE  Spec => ImplementsFileTransfer
<1>1. Init => Inv /\ Transfer!Init
  BY InitInv, InitMaps
<1>2. Inv /\ [Next]_vars => Inv' /\ [Transfer!Next]_(Transfer!vars)
  BY StepIs DEF Step
<1> QED BY <1>1, <1>2, PTL DEF Spec, ImplementsFileTransfer, Transfer!Spec
=============================================================================
