-------------------------------- MODULE Pipe --------------------------------
(***************************************************************************)
(* The frames of serice/Pipe.cpp. A message is a record of a type, the id  *)
(* of its sender, a number and its data, a sequence of bytes. On the fifo  *)
(* it is a frame: ff, the header and the data with every 00 and ff         *)
(* doubled, and 00 ff 00. SendMessage writes a frame in one write, which   *)
(* is atomic up to PipeBuf bytes (PIPE_BUF).                               *)
(*                                                                         *)
(* The branch of SendMessage for longer messages is left out: it calls     *)
(* PSend with the whole message once for every part, which does not fit    *)
(* the buffer of PSend, and the types LONG_START and LONG_END it prepares  *)
(* are never written. See FrameFits in PipeService.                        *)
(***************************************************************************)
EXTENDS Integers, FiniteSets, Sequences, SequencesExt

CONSTANT PipeBuf

Byte == 0 .. 255
TYPE_LONG_START == 254
TYPE_LONG_END == 253
TYPE_MESSAGE == 252
TYPE_REGISTER == 251
HeaderLen == 7

PMessage(type, sender, mid, data) ==
  [type |-> type, sender |-> sender, mid |-> mid, data |-> data]

Doubled == {0, 255}

\* Only ff is doubled, as in what PReceive makes of a frame; as Encode a mutant.
DoubleMarks(src) ==
  LET from[i \in 1 .. Len(src) + 1] ==
        IF i > Len(src) THEN <<>>
        ELSE (IF src[i] = 255 THEN <<src[i], src[i]>> ELSE <<src[i]>>) \o from[i + 1]
  IN from[1]

Encode(src) ==
  LET from[i \in 1 .. Len(src) + 1] ==
        IF i > Len(src) THEN <<>>
        ELSE (IF src[i] \in Doubled THEN <<src[i], src[i]>> ELSE <<src[i]>>) \o from[i + 1]
  IN from[1]

CountDoubled(src) == Cardinality({i \in 1 .. Len(src) : src[i] \in Doubled})

GetEncodeLength(src) == Len(src) + CountDoubled(src)

GetDecodeLength(src) ==
  LET doubled == CountDoubled(src) IN
  IF doubled % 2 = 0 THEN Len(src) - doubled \div 2 ELSE 0

\* What Decode returns, <<>> where it fails.
Decode(src) ==
  LET IsPair(i) == i < Len(src) /\ src[i] \in Doubled /\ src[i + 1] = src[i]
      from[i \in 1 .. Len(src) + 2] ==
        IF i > Len(src) THEN <<>>
        ELSE <<src[i]>> \o from[IF IsPair(i) THEN i + 2 ELSE i + 1]
  IN IF GetDecodeLength(src) > 0 THEN from[1] ELSE <<>>

\* The two's complement bytes of value, the highest first.
WriteShort(value) == <<(value \div 256) % 256, value % 256>>
WriteInt(value) == WriteShort(value \div 65536) \o WriteShort(value)
ReadShort(buf) == buf[1] * 256 + buf[2]
ReadInt(buf) == ReadShort(buf) * 65536 + ReadShort(SubSeq(buf, 3, 4))

Header(message) ==
  <<message.type>> \o WriteShort(message.sender) \o WriteInt(message.mid)

\* The bytes PSend hands to write.
PSend(message) ==
  <<255>> \o Encode(Header(message)) \o Encode(message.data) \o <<0, 255, 0>>

\* The condition under which SendMessage sends the message as one frame.
SendsWhole(message) ==
  /\ message.data # <<>>
  /\ GetEncodeLength(message.data) + 4 <= PipeBuf

\* The message in the bytes of a header and data.
ReadMessage(bytes) ==
  PMessage(bytes[1], ReadShort(SubSeq(bytes, 2, 3)), ReadInt(SubSeq(bytes, 4, 7)),
           SubSeq(bytes, HeaderLen + 1, Len(bytes)))

-----------------------------------------------------------------------------
(***************************************************************************)
(* PReceive reads the fifo byte by byte. Up to a mark it skips; a frame    *)
(* begins after an ff that is not followed by another one, and the frame   *)
(* ends after a 00 that is not. Of a doubled 00 it keeps one, of a doubled *)
(* ff both; it keeps the 00 that ends the frame and leaves the last 00 of  *)
(* the frame in the fifo.                                                  *)
(***************************************************************************)
\* Mutant: the byte after a 00 is not looked at, a doubled one ends the frame.
PReceiveByteHasty(s, byte) ==
  CASE s.at = "skip"  -> [s EXCEPT !.at = IF byte = 255 THEN "mark" ELSE "skip"]
    [] s.at = "mark"  -> [s EXCEPT !.at = IF byte = 255 THEN "skip" ELSE "frame",
                                   !.buf = Append(@, byte)]
    [] s.at = "frame" -> [s EXCEPT !.at = IF byte = 0 THEN "zero" ELSE "frame",
                                   !.buf = Append(@, byte)]
    [] s.at = "zero"  -> [s EXCEPT !.at = "end"]

PReceiveByte(s, byte) ==
  CASE s.at = "skip"  -> [s EXCEPT !.at = IF byte = 255 THEN "mark" ELSE "skip"]
    [] s.at = "mark"  -> [s EXCEPT !.at = IF byte = 255 THEN "skip" ELSE "frame",
                                   !.buf = Append(@, byte)]
    [] s.at = "frame" -> [s EXCEPT !.at = IF byte = 0 THEN "zero" ELSE "frame",
                                   !.buf = Append(@, byte)]
    [] s.at = "zero"  -> [s EXCEPT !.at = IF byte = 0 THEN "frame" ELSE "end"]

\* PReceive over the bytes that are there: what it holds, how many it took, and
\* at = "end" if it got to the end of a frame.
PReceiveRun(bytes) ==
  LET States == [at : {"skip", "mark", "frame", "zero", "end"}, buf : Seq(Byte), taken : Nat]
      run[s \in States] ==
        IF s.at = "end" \/ s.taken = Len(bytes) THEN s
        ELSE run[[PReceiveByte(s, bytes[s.taken + 1]) EXCEPT !.taken = @ + 1]]
  IN run[[at |-> "skip", buf |-> <<>>, taken |-> 0]]

-----------------------------------------------------------------------------
(***************************************************************************)
(* The loop of TMQPipe::OnExecute over the bytes of its ring, from start   *)
(* to end. It looks at a byte and the one after it and stops before the    *)
(* last two. found holds data of a message, out what went to OnPipeMessage *)
(* and done the number of bytes before the new start.                      *)
(***************************************************************************)
\* Mutant: a doubled zero is looked at byte by byte.
DetectNoPairs(bytes, s) ==
  LET byte == bytes[s.at]  next == bytes[s.at + 1] IN
  CASE byte = 255 /\ next # 255 ->
         [s EXCEPT !.at = @ + 1, !.found = TRUE,
                   !.data = IF s.found THEN Append(@, byte) ELSE @]
    [] byte = 0 /\ next # 0 ->
         [s EXCEPT !.at = @ + 1, !.found = FALSE, !.data = <<>>, !.done = s.at,
                   !.out = Append(@, s.data)]
    [] OTHER -> [s EXCEPT !.at = @ + 1, !.data = IF s.found THEN Append(@, byte) ELSE @]

Detect(bytes, s) ==
  LET byte == bytes[s.at]  next == bytes[s.at + 1] IN
  CASE byte = 255 /\ next # 255 ->
         [s EXCEPT !.at = @ + 1, !.found = TRUE,
                   !.data = IF s.found THEN Append(@, byte) ELSE @]
    [] s.found /\ byte = 0 /\ next = 0 ->
         [s EXCEPT !.at = @ + 2, !.data = @ \o <<0, 0>>]
    [] byte = 0 /\ next # 0 ->
         [s EXCEPT !.at = @ + 1, !.found = FALSE, !.data = <<>>, !.done = s.at,
                   !.out = Append(@, s.data)]
    [] OTHER -> [s EXCEPT !.at = @ + 1, !.data = IF s.found THEN Append(@, byte) ELSE @]

DetectMessages(bytes) ==
  LET States == [at : Nat \ {0}, found : BOOLEAN, data : Seq(Byte), done : Nat, out : Seq(Seq(Byte))]
      run[s \in States] == IF s.at > Len(bytes) - 2 THEN s ELSE run[Detect(bytes, s)]
  IN run[[at |-> 1, found |-> FALSE, data |-> <<>>, done |-> 0, out |-> <<>>]]
=============================================================================
