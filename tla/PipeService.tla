----------------------------- MODULE PipeService -----------------------------
(***************************************************************************)
(* A server (TMQPipe) that reads one fifo through a ring of PipeBuf bytes, *)
(* publishes what plugins (TMQPlugin) send, and writes what is published   *)
(* to the fifos of those that registered for the topic.                    *)
(*                                                                         *)
(* fifo[f] is what is in a fifo. A write of a frame is one action, since   *)
(* it is atomic; a read returns any number of the bytes there. Both ends   *)
(* of a fifo are opened and closed by calls of their own. A writer opens   *)
(* it, writes one frame and closes it: with block the open waits for a     *)
(* reader, without it fails if there is none; a write is lost if the       *)
(* reader has closed the fifo meanwhile; and SendMessage returns true all  *)
(* the same. A reader closes a fifo after it has read the end of the file, *)
(* a plugin also when Receive returns. When nobody has a fifo open any     *)
(* more, what is left in it is thrown away.                                *)
(*                                                                         *)
(* sent and asked are what was written while the server had its fifo open  *)
(* and was not thrown away when it was closed.                             *)
(***************************************************************************)
EXTENDS Pipe

CONSTANTS Plugins,       \* plugins, each with a fifo of its own
          Server,        \* the fifo the server reads
          FifoByte,      \* the byte that names a plugin's fifo
          Topics,        \* names of topics, sequences of bytes
          Payloads,      \* what is sent, sequences of bytes
          Registrations, \* what a plugin puts into a register message
          MaxSends,      \* bound: calls of Send and Register
          Longest        \* bound: longest frame that is sent

VARIABLES fifo,          \* bytes in each fifo
          reader,        \* of each fifo: "closed", "waits" in open, "open", or
                         \* "eof", when read has returned 0
          writer,        \* "closed", "open" or "written": the pipe of each plugin
                         \* to the server, and the server's to a plugin
          letter,        \* what each plugin is about to write
          queue,         \* the ring, a function on 0 .. PipeBuf - 1
          start, end,    \* the server's positions in it
          receivers,     \* pipeReceivers: records of a name and a pipe
          topic,         \* messages published and not yet dispatched
          payload,       \* of the message being dispatched
          targets,       \* plugins it has yet to be written to
          pluginId, mid, \* of each plugin
          doing,         \* each plugin: "idle", "registers" or "receives"
          sends,         \* calls of Send and Register
          sent,          \* messages written to the server, in this order
          asked,         \* topic and data of each Send, in this order
          kept,          \* history: sent and asked at the last end of the file
          overrun,       \* history: PSend was given more than its buffer holds
          dispatched,    \* messages given to DispatchMessage
          published,     \* topic and data of each Publish
          replies,       \* messages written to each plugin
          parsed,        \* what PReceive returned to each plugin
          received       \* the data Receive returned to each plugin

server == <<queue, start, end>>
dispatcher == <<payload, targets>>
plugin == <<pluginId, mid, doing, sends>>
writers == <<writer, letter>>
calls == <<sent, asked>>
outcomes == <<dispatched, published>>
results == <<parsed, received>>
vars == <<fifo, reader, writers, server, receivers, topic, dispatcher, plugin, calls,
          kept, overrun, outcomes, replies, results>>

NoLetter == [message |-> PMessage(0, 0, 0, <<>>), ask |-> <<>>]

Init ==
  /\ fifo = [f \in Plugins \cup {Server} |-> <<>>]
  /\ reader = [f \in Plugins \cup {Server} |-> "closed"]
  /\ writer = [f \in Plugins \cup {Server} |-> "closed"]
  /\ letter = [p \in Plugins |-> NoLetter]
  /\ queue = [i \in 0 .. PipeBuf - 1 |-> 0]
  /\ start = 0 /\ end = 0
  /\ receivers = <<>> /\ topic = <<>> /\ payload = <<>> /\ targets = <<>>
  /\ pluginId = [p \in Plugins |-> -1]
  /\ mid = [p \in Plugins |-> -1]
  /\ doing = [p \in Plugins |-> "idle"]
  /\ sends = 0 /\ kept = [sent |-> <<>>, asked |-> <<>>] /\ overrun = FALSE
  /\ sent = <<>> /\ asked = <<>> /\ dispatched = <<>> /\ published = <<>>
  /\ replies = [p \in Plugins |-> <<>>]
  /\ parsed = [p \in Plugins |-> <<>>]
  /\ received = [p \in Plugins |-> <<>>]

-----------------------------------------------------------------------------
AT == 64   \* '@'

\* Mutant: OnReceive takes the last '@' for the separator.
SplitLast(data) ==
  LET ats == {i \in DOMAIN data : data[i] = AT} IN
  IF ats = {} THEN [ok |-> FALSE]
  ELSE LET at == CHOOSE i \in ats : \A j \in ats : i >= j IN
       IF at = 1 \/ at = Len(data) THEN [ok |-> FALSE]
       ELSE [ok |-> TRUE, name |-> SubSeq(data, 1, at - 1),
             rest |-> SubSeq(data, at + 1, Len(data))]

\* Before and after the first '@' of data; an empty topic, or nothing after
\* the '@', is refused.
Split(data) ==
  LET ats == {i \in DOMAIN data : data[i] = AT} IN
  IF ats = {} THEN [ok |-> FALSE]
  ELSE LET at == CHOOSE i \in ats : \A j \in ats : i <= j IN
       IF at = 1 \/ at = Len(data) THEN [ok |-> FALSE]
       ELSE [ok |-> TRUE, name |-> SubSeq(data, 1, at - 1),
             rest |-> SubSeq(data, at + 1, Len(data))]

\* The plugin with a fifo of this name.
FifoOf(pipe) == {p \in Plugins : pipe = <<FifoByte[p]>>}

TMQ_TOPIC_MAX_LENGTH == 128

\* A C string: no 0 in it.
IsString(bytes) == bytes \in Seq(Byte) /\ \A i \in 1 .. Len(bytes) : bytes[i] # 0

\* A topic is a C string with an '@' nowhere, and who registers names a fifo
\* there is. The names are shorter than Publish and Subscribe allow: a longer
\* one is refused, and one of 255 bytes or more runs over OnReceive's name. No
\* topic begins like TOPIC_SETTINGS, whose data Publish takes for settings.
ASSUME PipeAssumption ==
  /\ PipeBuf \in Nat /\ PipeBuf >= 8 /\ Longest \in Nat
  /\ Server \notin Plugins
  /\ FifoByte \in [Plugins -> Byte \ {0, AT}]
  /\ \A name \in Topics : /\ IsString(name) /\ name # <<>>
                          /\ Len(name) < TMQ_TOPIC_MAX_LENGTH
                          /\ \A i \in 1 .. Len(name) : name[i] # AT
  /\ \A data \in Payloads : data \in Seq(Byte) /\ data # <<>>
  /\ \A info \in Registrations :
       /\ IsString(info)
       /\ Split(info).ok => /\ Len(Split(info).name) < TMQ_TOPIC_MAX_LENGTH
                            /\ FifoOf(Split(info).rest) # {}

Fits(message) == SendsWhole(message) /\ Len(PSend(message)) <= Longest

Overruns(message) == Len(PSend(message)) > PipeBuf

\* The fifos after the frame is written to f.
Written(fifos, f, message) == [fifos EXCEPT ![f] = @ \o PSend(message)]

\* A writer opens f: a reader that waits in its open goes on.
Met(readers, f) == [readers EXCEPT ![f] = IF @ = "waits" THEN "open" ELSE @]

\* Some reader, some writer has f open.
HasReader(f) == reader[f] \in {"open", "eof"}
HasWriter(f) == IF f = Server THEN \E p \in Plugins : writer[p] # "closed"
                ELSE writer[Server] # "closed" /\ f = Head(targets)

\* What is in f goes with the last one that closes it.
ThrowAway(f) ==
  /\ fifo' = [fifo EXCEPT ![f] = <<>>]
  /\ IF f = Server THEN sent' = kept.sent /\ asked' = kept.asked
                   ELSE UNCHANGED calls

\* SendMessage before it writes: the pipe of p to the server is opened and the
\* letter is ready.
Opens(p, message, ask) ==
  /\ reader' = Met(reader, Server)
  /\ writer' = [writer EXCEPT ![p] = "open"]
  /\ letter' = [letter EXCEPT ![p] = [message |-> message, ask |-> ask]]

\* A new call of Send or Register.
Calls(p, message) ==
  /\ doing[p] = "idle" /\ writer[p] = "closed"
  /\ sends < MaxSends
  /\ Fits(message)
  /\ sends' = sends + 1
  /\ overrun' = (overrun \/ Overruns(message))

\* TMQPlugin::Send up to the open of the server's fifo, which waits for its
\* reader.
Send(p, name, data) ==
  LET message == PMessage(TYPE_MESSAGE, pluginId[p] % 65536, mid[p] + 1,
                          name \o <<AT>> \o data)
  IN /\ Calls(p, message)
     /\ reader[Server] # "closed"
     /\ mid' = [mid EXCEPT ![p] = @ + 1]
     /\ Opens(p, message, <<[name |-> name, data |-> data]>>)
     /\ UNCHANGED <<fifo, server, receivers, topic, dispatcher, pluginId, doing,
                    calls, kept, outcomes, replies, results>>

\* TMQPlugin::Register up to the open, which does not wait for a reader. Its
\* data is the name of the plugin's fifo; OnRegister expects a topic and an '@'
\* before it, as another program that writes to the fifo may send.
Register(p, info) ==
  LET message == PMessage(TYPE_REGISTER, 0, 0, info) IN
  /\ Calls(p, message)
  /\ IF reader[Server] = "closed" THEN UNCHANGED <<reader, writers>>
     ELSE Opens(p, message, <<>>)
  /\ doing' = [doing EXCEPT ![p] = "registers"]
  /\ UNCHANGED <<fifo, server, receivers, topic, dispatcher, pluginId, mid,
                 calls, kept, outcomes, replies, results>>

\* The write of PSend. Without a reader it fails and the frame is lost; the
\* SIGPIPE then ends a plugin that does not ignore it, which is a plugin that
\* calls nothing any more.
Write(p) ==
  /\ writer[p] = "open"
  /\ IF HasReader(Server)
     THEN /\ fifo' = Written(fifo, Server, letter[p].message)
          /\ sent' = Append(sent, letter[p].message)
          /\ asked' = asked \o letter[p].ask
     ELSE UNCHANGED <<fifo, calls>>
  /\ writer' = [writer EXCEPT ![p] = "written"]
  /\ letter' = [letter EXCEPT ![p] = NoLetter]
  /\ UNCHANGED <<reader, server, receivers, topic, dispatcher, plugin,
                 kept, overrun, outcomes, replies, results>>

\* Send or Register returns: the destructor of Pipe closes the server's fifo.
Close(p) ==
  /\ writer[p] = "written" /\ doing[p] = "idle"
  /\ writer' = [writer EXCEPT ![p] = "closed"]
  /\ IF HasReader(Server) \/ \E q \in Plugins \ {p} : writer[q] # "closed"
     THEN UNCHANGED <<fifo, calls>>
     ELSE ThrowAway(Server)
  /\ UNCHANGED <<reader, letter, server, receivers, topic, dispatcher, plugin,
                 kept, overrun, outcomes, replies, results>>

\* Pipe::Read opens its fifo, in the server's thread or in a Receive, and waits
\* for a writer.
Open(f) ==
  /\ reader[f] = "closed"
  /\ f # Server => doing[f] = "receives"
  /\ reader' = [reader EXCEPT ![f] = IF HasWriter(f) THEN "open" ELSE "waits"]
  /\ UNCHANGED <<fifo, writers, server, receivers, topic, dispatcher, plugin, calls,
                 kept, overrun, outcomes, replies, results>>

\* read returns 0, since the fifo is empty and no writer has it open, ...
EndOfFile(f) ==
  /\ reader[f] = "open" /\ fifo[f] = <<>> /\ ~HasWriter(f)
  /\ reader' = [reader EXCEPT ![f] = "eof"]
  /\ kept' = IF f = Server THEN [sent |-> sent, asked |-> asked] ELSE kept
  /\ UNCHANGED <<fifo, writers, server, receivers, topic, dispatcher, plugin, calls,
                 overrun, outcomes, replies, results>>

\* ... and Pipe::Read closes the fifo, to open it again.
CloseReader(f) ==
  /\ reader[f] = "eof"
  /\ reader' = [reader EXCEPT ![f] = "closed"]
  /\ IF HasWriter(f) THEN UNCHANGED <<fifo, calls>> ELSE ThrowAway(f)
  /\ UNCHANGED <<writers, server, receivers, topic, dispatcher, plugin,
                 kept, overrun, outcomes, replies, results>>

-----------------------------------------------------------------------------
\* The server's variables that a message changes, as a record.
State == [fifo |-> fifo, reader |-> reader, receivers |-> receivers, topic |-> topic,
          dispatched |-> dispatched, published |-> published, replies |-> replies]

\* Pipe::SendMessage without block to the fifo of p, in one step: a Receive that
\* returns between its open, its write and its close loses the answer, as it
\* does if it returns right before or right after them.
Reply(s, p, message) ==
  IF s.reader[p] = "closed" THEN s
  ELSE [s EXCEPT !.fifo = Written(@, p, message), !.reader = Met(@, p),
                 !.replies[p] = Append(@, message)]

\* TMQPipe::OnReceive; Publish appends to the queue of the topic.
OnReceive(s, data) ==
  LET parts == Split(data)
      entry == [name |-> parts.name, data |-> parts.rest]
  IN IF ~parts.ok THEN s
     ELSE [s EXCEPT !.topic = Append(@, entry), !.published = Append(@, entry)]

\* TMQPipe::OnRegister: a second registration of the same name and pipe gets
\* the id of the first.
OnRegister(s, info) ==
  LET parts == Split(info)
      receiver == [name |-> parts.name, pipe |-> parts.rest]
      known == \E i \in DOMAIN s.receivers : s.receivers[i] = receiver
      now == IF known THEN s.receivers ELSE Append(s.receivers, receiver)
      id == CHOOSE i \in DOMAIN now : now[i] = receiver
      p == CHOOSE q \in FifoOf(receiver.pipe) : TRUE
  IN IF ~parts.ok THEN s
     ELSE Reply([s EXCEPT !.receivers = now], p,
                PMessage(TYPE_REGISTER, 0, 0, WriteShort(id)))

\* TMQPipe::DispatchMessage. A part of a long message would be kept; none is
\* ever sent.
DispatchMessage(s, message) ==
  LET d == [s EXCEPT !.dispatched = Append(@, message)] IN
  CASE message.data = <<>>           -> d
    [] message.type = TYPE_MESSAGE   -> OnReceive(d, message.data)
    [] message.type = TYPE_REGISTER  -> OnRegister(d, message.data)
    [] OTHER                         -> d

\* TMQPipe::OnPipeMessage.
OnPipeMessage(s, origin) ==
  LET bytes == Decode(origin) IN
  IF Len(bytes) < HeaderLen THEN s ELSE DispatchMessage(s, ReadMessage(bytes))

\* OnPipeMessage for one after the other.
OnPipeMessages(s, out) ==
  LET after[i \in 0 .. Len(out)] ==
        IF i = 0 THEN s ELSE OnPipeMessage(after[i - 1], out[i])
  IN after[Len(out)]

\* Mutant: the free part of the ring is computed as if it did not wrap around.
LeftToTheEnd == PipeBuf - end

\* How many bytes OnExecute asks for: up to the end of the ring or to start.
Left == IF end >= start THEN PipeBuf - end ELSE start - end

\* Mutant: start moves behind the last byte that was read.
NewStartAtEnd(done, newEnd) == newEnd

NewStart(done, newEnd) == (start + done) % PipeBuf

\* The bytes of a ring from one position to another; it is full if they are equal.
Bytes(ring, from, to) ==
  LET length == ((to - from - 1) % PipeBuf) + 1 IN
  <<>> \o [i \in 1 .. length |-> ring[(from + i - 1) % PipeBuf]]

\* One turn of TMQPipe::OnExecute: a read of count bytes, then every message
\* that is complete in the ring.
OnExecute(count) ==
  /\ reader[Server] = "open"
  /\ count <= Left /\ count <= Len(fifo[Server])
  /\ queue' = [i \in 0 .. PipeBuf - 1 |->
                IF i >= end /\ i < end + count THEN fifo[Server][i - end + 1] ELSE queue[i]]
  /\ end' = (end + count) % PipeBuf
  /\ \E bytes \in {Bytes(queue', start, end')} :
     \E detected \in {DetectMessages(bytes)} :
     \E read \in {[State EXCEPT !.fifo[Server] = SubSeq(@, count + 1, Len(@))]} :
     \E s \in {OnPipeMessages(read, detected.out)} :
         /\ start' = NewStart(detected.done, end')
         /\ fifo' = s.fifo
         /\ reader' = s.reader
         /\ receivers' = s.receivers
         /\ topic' = s.topic
         /\ dispatched' = s.dispatched
         /\ published' = s.published
         /\ replies' = s.replies
  /\ UNCHANGED <<writers, dispatcher, plugin, calls, kept, overrun, results>>

-----------------------------------------------------------------------------
\* The plugins that have registered for a name, in this order.
Subscribed(name) ==
  LET from[i \in 1 .. Len(receivers) + 1] ==
        IF i > Len(receivers) THEN <<>>
        ELSE (IF receivers[i].name = name
              THEN <<CHOOSE p \in FifoOf(receivers[i].pipe) : TRUE>> ELSE <<>>)
             \o from[i + 1]
  IN from[1]

\* An executor of the topic picks the next message and finds its receivers.
Pick ==
  /\ targets = <<>> /\ topic # <<>>
  /\ topic' = Tail(topic)
  /\ payload' = Head(topic).data
  /\ targets' = Subscribed(Head(topic).name)
  /\ UNCHANGED <<fifo, reader, writers, server, receivers, plugin, calls,
                 kept, overrun, outcomes, replies, results>>

Notice == PMessage(TYPE_MESSAGE, 0, 0, payload)

\* PipeReceiver::OnReceive: its open waits until the plugin has its fifo open, ...
Forward ==
  /\ targets # <<>> /\ writer[Server] = "closed"
  /\ reader[Head(targets)] # "closed"
  /\ reader' = Met(reader, Head(targets))
  /\ writer' = [writer EXCEPT ![Server] = "open"]
  /\ overrun' = (overrun \/ Overruns(Notice))
  /\ UNCHANGED <<fifo, letter, server, receivers, topic, dispatcher, plugin, calls,
                 kept, outcomes, replies, results>>

\* ... the write fails if the plugin has closed it again, ...
ForwardWrite ==
  /\ writer[Server] = "open"
  /\ LET p == Head(targets) IN
     IF HasReader(p)
     THEN /\ fifo' = Written(fifo, p, Notice)
          /\ replies' = [replies EXCEPT ![p] = Append(@, Notice)]
     ELSE UNCHANGED <<fifo, replies>>
  /\ writer' = [writer EXCEPT ![Server] = "written"]
  /\ UNCHANGED <<reader, letter, server, receivers, topic, dispatcher, plugin, calls,
                 kept, overrun, outcomes, results>>

\* ... and the destructor of Pipe closes it.
ForwardClose ==
  /\ writer[Server] = "written"
  /\ writer' = [writer EXCEPT ![Server] = "closed"]
  /\ IF HasReader(Head(targets)) THEN UNCHANGED <<fifo, calls>>
     ELSE ThrowAway(Head(targets))
  /\ targets' = Tail(targets)
  /\ UNCHANGED <<reader, letter, server, receivers, topic, payload, plugin,
                 kept, overrun, outcomes, replies, results>>

\* TMQPlugin::Receive is called, by Register, or by the application when the
\* last call has returned.
ReceiveBegin(p) ==
  /\ \/ doing[p] = "idle" /\ writer[p] = "closed"
     \/ doing[p] = "registers" /\ writer[p] # "open"
  /\ doing' = [doing EXCEPT ![p] = "receives"]
  /\ UNCHANGED <<fifo, reader, writers, server, receivers, topic, dispatcher, pluginId,
                 mid, sends, calls, kept, overrun, outcomes, replies, results>>

\* PReceive skips what is left of a frame another Receive has read.
Skip(p) ==
  /\ doing[p] = "receives" /\ reader[p] = "open"
  /\ fifo[p] # <<>> /\ PReceiveRun(fifo[p]).at = "skip"
  /\ fifo' = [fifo EXCEPT ![p] = <<>>]
  /\ UNCHANGED <<reader, writers, server, receivers, topic, dispatcher, plugin, calls,
                 kept, overrun, outcomes, replies, results>>

\* Receive returns. ReceiveMessage parses into a message of its own and leaves
\* the caller's as it was made, of the type MESSAGE and without data. The
\* destructor of Pipe closes the fifo.
ReceiveEnd(p) ==
  /\ doing[p] = "receives" /\ reader[p] = "open"
  /\ \E run \in {PReceiveRun(fifo[p])} :
       /\ run.at = "end"
       /\ parsed' = [parsed EXCEPT ![p] = Append(@, run.buf)]
       /\ fifo' = [fifo EXCEPT ![p] = IF HasWriter(p)
                                     THEN SubSeq(@, run.taken + 1, Len(@)) ELSE <<>>]
  /\ received' = [received EXCEPT ![p] = Append(@, <<>>)]
  /\ reader' = [reader EXCEPT ![p] = "closed"]
  /\ doing' = [doing EXCEPT ![p] = "idle"]
  /\ UNCHANGED <<writers, server, receivers, topic, dispatcher, pluginId, mid, sends,
                 calls, kept, overrun, outcomes, replies>>

-----------------------------------------------------------------------------
Next ==
  \/ \E p \in Plugins, name \in Topics, data \in Payloads : Send(p, name, data)
  \/ \E p \in Plugins, info \in Registrations : Register(p, info)
  \/ \E p \in Plugins : Write(p) \/ Close(p)
  \/ \E f \in Plugins \cup {Server} : Open(f) \/ EndOfFile(f) \/ CloseReader(f)
  \/ \E count \in 1 .. PipeBuf : OnExecute(count)
  \/ Pick \/ Forward \/ ForwardWrite \/ ForwardClose
  \/ \E p \in Plugins : ReceiveBegin(p) \/ Skip(p) \/ ReceiveEnd(p)

Spec == Init /\ [][Next]_vars

\* The server and the plugins open their fifos and read what is there. Sends
\* are bounded, so that all is read unless OnExecute(1) stays enabled.
FairSpec ==
  /\ Spec
  /\ WF_vars(OnExecute(1))
  /\ \A f \in Plugins \cup {Server} : WF_vars(Open(f) \/ CloseReader(f))
  /\ \A p \in Plugins : /\ WF_vars(Write(p) \/ Close(p) \/ ReceiveBegin(p))
                        /\ WF_vars(Skip(p) \/ ReceiveEnd(p))

-----------------------------------------------------------------------------
TypeOK ==
  /\ fifo \in [Plugins \cup {Server} -> Seq(Byte)]
  /\ reader \in [Plugins \cup {Server} -> {"closed", "waits", "open", "eof"}]
  /\ writer \in [Plugins \cup {Server} -> {"closed", "open", "written"}]
  /\ queue \in [0 .. PipeBuf - 1 -> Byte]
  /\ start \in 0 .. PipeBuf - 1 /\ end \in 0 .. PipeBuf - 1
  /\ doing \in [Plugins -> {"idle", "registers", "receives"}]
  /\ \A i \in DOMAIN receivers : receivers[i] \in [name : Seq(Byte), pipe : Seq(Byte)]

\* What Send was given comes out of the server's Publish: every topic and
\* payload, whatever bytes they have, in the order of the writes, none twice
\* and none made up, wherever the reads cut the frames and the ring wraps around
\* (PSend, OnExecute, Decode, OnReceive). None is lost but those that are
\* written when the server has closed its fifo, or has found its end and is
\* about to close it (Pipe::Read).
PublishedAsAsked == IsPrefix(published, asked)

\* Once the server has read what is in its fifo it has dispatched every message
\* that was not thrown away: no frame waits in the ring until another one
\* follows, although OnExecute stops two bytes before the end, and a close of
\* the fifo leaves no frame half read.
CaughtUp == fifo[Server] = <<>> => Len(dispatched) = Len(sent)

\* What PReceive hands over is one whole frame somebody wrote to the fifo:
\* header and data with each ff doubled, and the zero that ends the frame. It
\* begins and ends nowhere else, whatever the data, also behind a byte that the
\* last Receive has left in the fifo.
ParsedWhole ==
  \A p \in Plugins : \A i \in DOMAIN parsed[p] :
    \E k \in DOMAIN replies[p] :
      parsed[p][i] = DoubleMarks(Header(replies[p][k]) \o replies[p][k].data) \o <<0>>

-----------------------------------------------------------------------------
(* Expectations the code does not meet. *)

\* A call of Receive returns the data of the message.
ReceivesData ==
  \A p \in Plugins : \A i \in DOMAIN received[p] : received[p][i] # <<>>

\* Every frame SendMessage writes as one fits the PIPE_BUF bytes PSend keeps
\* for it; the condition of SendMessage leaves out the header.
FrameFits == ~overrun

\* What is written to the server's fifo while it has it open is not thrown away
\* when it closes it.
SentStays == [][IsPrefix(sent, sent')]_vars

\* Register returns if the server reads its fifo and the plugin waits for the answer.
RegisterReturns == \A p \in Plugins : doing[p] = "registers" ~> doing[p] = "idle"

\* No frame is thrown away when a plugin closes its fifo.
NothingThrownAway ==
  [][\A p \in Plugins : fifo'[p] = <<>> /\ fifo[p] # <<>>
       => Len(fifo[p]) - PReceiveRun(fifo[p]).taken <= 1]_vars
=============================================================================
