---- MODULE Bgcp ----
(***************************************************************************)
(* The BGCP protocol library (bgcp/): the writer that packs a chain of     *)
(* requests or responses into one buffer (bgcp_queue.c), the parser that   *)
(* takes a packet apart (bgcp_data_processor.c) and the handlers that      *)
(* update and send a bound parameter (bgcp_data_descriptor.c).             *)
(*                                                                         *)
(* Two nodes run the library: the master asks, the device answers, and the *)
(* master's parser takes the answer into its own copies.  The transport is *)
(* external: it hands a full buffer to the other node's parse, may lose    *)
(* it, and may hand over packets that no writer made (Noise).              *)
(*                                                                         *)
(* A byte is a number below Base (256 in the code).  Parameters are bound  *)
(* once, before any traffic, and fewer than the table holds; parameters    *)
(* bound to functions (PARAM_TYPE_ACTION) and time_update, which GET_TIME  *)
(* makes a constant 0, are left out.                                       *)
(***************************************************************************)
EXTENDS Integers, Sequences

CONSTANTS
    Base,             \* number of values of a byte
    QUEUE_BUF_SIZE,
    Table,            \* param_num -> descriptor of the bound parameters
    Start,            \* value of each bound parameter at the start
    Requests,         \* what the master may ask for
    Noise,            \* packets from elsewhere
    MaxEntries,       \* bound: requests in one packet
    MaxRounds         \* bound: packets before both nodes restart

Byte == 0..(Base - 1)

\* Bytes with a meaning of their own.
BGCP_CMD_PAGE == Base - 1
BGCP_CMD_SIZE == Base - 2
BGCP_CMD_NOT_SUP == Base - 3
BGCP_CMD_FUNC == Base - 4

NO_FUNC == 0
BGCP_FUNC_R == 1
BGCP_FUNC_W == 2
BGCP_FUNC_RW == 3
BGCP_FUNC_INC_RW == 4
BGCP_FUNC_DEC_RW == 5
BGCP_FUNC_RESP == 6
Functions == 1..6

NO_PARAM == 0
Params == DOMAIN Table
ParamNums == 0..(Base * Base - 1)
Types == {"8B", "16B", "1B", "BIN", "CONST_BIN", "8B_RANGE"}

\* The numbers of n bytes.
Words(n) == IF n = 1 THEN Byte ELSE 0..(Base * Base - 1)

\* The values that a parameter's descriptor allows.
Values(p) == CASE Table[p].type \in {"8B", "16B"} -> Table[p].min..Table[p].max
               [] Table[p].type = "1B" -> 0..1
               [] Table[p].type = "8B_RANGE" -> {Table[p].list[i] : i \in DOMAIN Table[p].list}
               [] Table[p].type \in {"BIN", "CONST_BIN"} -> [1..Table[p].size -> Byte]

Entries == [func : Functions, param : ParamNums, data : Seq(Byte)]
Entry(func, param, data) == [func |-> func, param |-> param, data |-> data]

ASSUME BaseAssumption == Base \in Nat /\ Base >= 11
ASSUME QueueAssumption == QUEUE_BUF_SIZE \in Nat \ {0}
ASSUME TableAssumption ==
    /\ Params \subseteq ParamNums \ {NO_PARAM}
    /\ \A p \in Params :
          /\ Table[p].type \in Types
          /\ Table[p].size \in Byte \ {0}
          /\ Table[p].type \in {"8B", "1B", "8B_RANGE"} => Table[p].size = 1
          /\ Table[p].type = "16B" => Table[p].size = 2
          /\ Table[p].min \in Words(Table[p].size)
          /\ Table[p].max \in Words(Table[p].size)
          /\ Table[p].min <= Table[p].max
          /\ Table[p].list \in Seq(Byte)
ASSUME StartAssumption == \A p \in Params : Start[p] \in Values(p)
ASSUME RequestsAssumption == Requests \subseteq {e \in Entries : Len(e.data) \in Byte}
ASSUME NoiseAssumption == Noise \subseteq Seq(Byte)

VARIABLES
    queue,      \* each node's BGCPQueue
    vals,       \* each node's values of the bound parameters
    parser,     \* ParserData of the node that parses: what is left of the
                \* packet, page, function, increment and data size
    at,         \* the node that parses, or "none"
    from,       \* who sent the packet that is parsed
    rounds,
    said,       \* history: what each node has put into its queue
    sent,       \* history: what the packet that is parsed says
    heard,      \* history: what the parser has made of it so far
    asked       \* history: the last request of the master

vars == <<queue, vals, parser, at, from, rounds, said, sent, heard, asked>>

Nodes == {"master", "device"}
Peer(n) == IF n = "master" THEN "device" ELSE "master"

Queue(func, page, buf) == [func |-> func, page |-> page, buf |-> buf]
Parser(in, page, func, size) == [in |-> in, page |-> page, func |-> func, size |-> size]

EmptyQueue == Queue(NO_FUNC, 0, <<>>)
IdleParser == Parser(<<>>, 0, NO_FUNC, 0)

Init == /\ queue = [n \in Nodes |-> EmptyQueue]
        /\ vals = [n \in Nodes |-> [p \in Params |-> Start[p]]]
        /\ parser = IdleParser
        /\ at = "none"
        /\ from = "noise"
        /\ rounds = 0
        /\ said = [n \in Nodes |-> <<>>]
        /\ sent = <<>>
        /\ heard = <<>>
        /\ asked = <<>>

----
(* bgcp_queue.c: every part of an entry is dropped when it does not fit. *)

Push(q, bytes) ==
    IF QUEUE_BUF_SIZE > Len(q.buf) + Len(bytes)
    THEN Queue(q.func, q.page, q.buf \o bytes) ELSE q

PushFunc(q, func) ==
    IF func = q.func THEN q
    ELSE LET marked == IF Len(q.buf) # 0 THEN Push(q, <<BGCP_CMD_FUNC>>) ELSE q
         IN  Queue(func, q.page, Push(marked, <<func>>).buf)

\* Mutant: a step back to page 0 is forgotten.
PushPageForward(q, num) ==
    LET page == num \div Base
    IN  IF page <= q.page THEN q
        ELSE Queue(q.func, page, Push(Push(q, <<BGCP_CMD_PAGE>>), <<page>>).buf)

PushPage(q, num) ==
    LET page == num \div Base
    IN  IF page = q.page THEN q
        ELSE Queue(q.func, page, Push(Push(q, <<BGCP_CMD_PAGE>>), <<page>>).buf)

PushSize(q, size) ==
    IF size > 1 THEN Push(Push(q, <<BGCP_CMD_SIZE>>), <<size>>) ELSE q

PushParamData(q, func, num, data) ==
    LET addressed == PushSize(PushPage(PushFunc(q, func), num), Len(data))
    IN  Push(Push(addressed, <<num % Base>>), data)

PushNoSupParam(q, num) ==
    Push(Push(PushPage(PushFunc(q, BGCP_FUNC_RESP), num), <<BGCP_CMD_NOT_SUP>>), <<num % Base>>)

----
(* bgcp_data_descriptor.c: the handlers of the data types *)

\* The bytes of a number, little-endian as the processor stores it.
Encode(p, v) == CASE Table[p].type \in {"BIN", "CONST_BIN"} -> v
                  [] Table[p].type = "16B" -> <<v % Base, v \div Base>>
                  [] Table[p].type \in {"8B", "1B", "8B_RANGE"} -> <<v>>

Decode(data) == IF Len(data) = 1 THEN data[1] ELSE data[1] + Base * data[2]

\* Mutant: the lower limit is forgotten.
ClampHigh(v, min, max) == IF v > max THEN max ELSE v

Clamp(v, min, max) == IF v > max THEN max ELSE IF v < min THEN min ELSE v

Wrap(v, min, max) == IF v > max THEN min ELSE IF v < min THEN max ELSE v

UpdateNum(p, v, inc, data) ==
    IF inc # 0 THEN Wrap((v + inc) % (IF Table[p].size = 1 THEN Base ELSE Base * Base),
                         Table[p].min, Table[p].max)
    ELSE IF Len(data) = Table[p].size THEN Clamp(Decode(data), Table[p].min, Table[p].max)
    ELSE v

UpdateBool(v, data) ==
    CASE data = <<0>> -> 0
      [] data = <<1>> -> 1
      [] data = <<2>> -> 1 - v
      [] data \notin {<<0>>, <<1>>, <<2>>} -> v

\* seek_val_in_range_list finds the first place of a value.
Places(list, v) == {i \in DOMAIN list : list[i] = v /\ \A j \in 1..(i - 1) : list[j] # v}

UpdateRange(p, v, inc, data) ==
    LET list == Table[p].list
    IN  IF Len(data) = 1
        THEN IF \E i \in DOMAIN list : list[i] = data[1] THEN data[1] ELSE v
        ELSE IF inc # 0 /\ \E i \in Places(list, v) : i + inc \in DOMAIN list
        THEN list[(CHOOSE i \in Places(list, v) : i + inc \in DOMAIN list) + inc]
        ELSE v

Update(p, v, inc, data) ==
    CASE Table[p].type \in {"8B", "16B"} -> UpdateNum(p, v, inc, data)
      [] Table[p].type = "1B" -> UpdateBool(v, data)
      [] Table[p].type = "8B_RANGE" -> UpdateRange(p, v, inc, data)
      [] Table[p].type = "BIN" -> IF Len(data) = Table[p].size THEN data ELSE v
      [] Table[p].type = "CONST_BIN" -> v

----
(* bgcp_data_processor.c *)

TakesData(func) == func \in {BGCP_FUNC_W, BGCP_FUNC_RW, BGCP_FUNC_RESP}

is_write_func(func) == func \notin {BGCP_FUNC_R, NO_FUNC}

\* Mutant: a response is answered as well.
is_read_func_resp(func) == func \notin {BGCP_FUNC_W, NO_FUNC}

is_read_func(func) ==
    func \in {BGCP_FUNC_R, BGCP_FUNC_RW, BGCP_FUNC_DEC_RW, BGCP_FUNC_INC_RW}

inc_val(func) == CASE func = BGCP_FUNC_DEC_RW -> -1
                   [] func = BGCP_FUNC_INC_RW -> 1
                   [] func \notin {BGCP_FUNC_DEC_RW, BGCP_FUNC_INC_RW} -> 0

DefaultBlockSize(func) == IF TakesData(func) THEN 1 ELSE 0

Skip(in, n) == SubSeq(in, n + 1, Len(in))

ReadByte(in) == IF in = <<>> THEN 0 ELSE Head(in)

ReadFunc(in) == IF ReadByte(in) \in Functions THEN ReadByte(in) ELSE NO_FUNC

\* The start of parse: with an unknown function it returns at once and
\* leaves the queue as it is.
BeginParse(n, packet, sender, entries) ==
    /\ at' = n
    /\ from' = sender
    /\ sent' = entries
    /\ heard' = <<>>
    /\ parser' = IF ReadFunc(packet) = NO_FUNC THEN IdleParser
                 ELSE Parser(Skip(packet, 1), 0, ReadFunc(packet), DefaultBlockSize(ReadFunc(packet)))
    /\ queue' = IF ReadFunc(packet) = NO_FUNC THEN queue ELSE [queue EXCEPT ![n] = EmptyQueue]
    /\ said' = IF ReadFunc(packet) = NO_FUNC THEN said ELSE [said EXCEPT ![n] = <<>>]
    /\ UNCHANGED <<vals, rounds>>

Parsing(n) == at = n /\ parser.in # <<>>

SetNewPage(n) ==
    /\ Parsing(n)
    /\ Head(parser.in) = BGCP_CMD_PAGE
    /\ parser' = Parser(Skip(parser.in, 2), ReadByte(Tail(parser.in)), parser.func, parser.size)
    /\ UNCHANGED <<queue, vals, at, from, rounds, said, sent, heard, asked>>

SetNewFunc(n) ==
    /\ Parsing(n)
    /\ Head(parser.in) = BGCP_CMD_FUNC
    /\ LET func == ReadFunc(Tail(parser.in))
       IN  parser' = Parser(Skip(parser.in, 2), parser.page, func, DefaultBlockSize(func))
    /\ UNCHANGED <<queue, vals, at, from, rounds, said, sent, heard, asked>>

SetDataSize(n) ==
    /\ Parsing(n)
    /\ Head(parser.in) = BGCP_CMD_SIZE
    /\ parser' = Parser(Skip(parser.in, 2), parser.page, parser.func,
                        IF TakesData(parser.func) THEN ReadByte(Tail(parser.in)) ELSE parser.size)
    /\ UNCHANGED <<queue, vals, at, from, rounds, said, sent, heard, asked>>

\* What perform does with the queue and the values of its node: an unknown
\* parameter is answered with NOT_SUP; NO_PARAM finds an empty place of the
\* table, which is bound to nothing and neither updated nor sent.
Unknown(num) == num \notin Params /\ num # NO_PARAM

\* Mutant: the answer is built before the update.
ProcessedSendFirst(n, num, data) ==
    LET new == IF is_write_func(parser.func)
               THEN Update(num, vals[n][num], inc_val(parser.func), data) ELSE vals[n][num]
        answer == Encode(num, vals[n][num])
    IN  /\ vals' = [vals EXCEPT ![n] = [@ EXCEPT ![num] = new]]
        /\ IF is_read_func(parser.func)
           THEN /\ queue' = [queue EXCEPT ![n] = PushParamData(@, BGCP_FUNC_RESP, num, answer)]
                /\ said' = [said EXCEPT ![n] = Append(@, Entry(BGCP_FUNC_RESP, num, answer))]
           ELSE UNCHANGED <<queue, said>>

Processed(n, num, data) ==
    LET new == IF is_write_func(parser.func)
               THEN Update(num, vals[n][num], inc_val(parser.func), data) ELSE vals[n][num]
        answer == Encode(num, new)
    IN  /\ vals' = [vals EXCEPT ![n] = [@ EXCEPT ![num] = new]]
        /\ IF is_read_func(parser.func)
           THEN /\ queue' = [queue EXCEPT ![n] = PushParamData(@, BGCP_FUNC_RESP, num, answer)]
                /\ said' = [said EXCEPT ![n] = Append(@, Entry(BGCP_FUNC_RESP, num, answer))]
           ELSE UNCHANGED <<queue, said>>

NotSupported(n, num) ==
    /\ UNCHANGED vals
    /\ IF is_read_func(parser.func)
       THEN /\ queue' = [queue EXCEPT ![n] = PushNoSupParam(@, num)]
            /\ said' = [said EXCEPT ![n] = Append(@, Entry(BGCP_FUNC_RESP, num, <<>>))]
       ELSE UNCHANGED <<queue, said>>

\* The parameter at the head of in, with size bytes of data after it, of
\* which nothing is used unless all are there.
PerformParam(n, num, in, size, complete) ==
    LET data == IF complete /\ TakesData(parser.func) THEN SubSeq(in, 1, size) ELSE <<>>
    IN  /\ \/ Unknown(num) /\ NotSupported(n, num)
           \/ num \in Params /\ complete /\ Processed(n, num, data)
           \/ ~Unknown(num) /\ (num = NO_PARAM \/ ~complete) /\ UNCHANGED <<vals, queue, said>>
        /\ heard' = IF complete \/ (Head(parser.in) = BGCP_CMD_NOT_SUP /\ Len(parser.in) > 1)
                    THEN Append(heard, Entry(parser.func, num, data)) ELSE heard
        /\ parser' = Parser(Skip(in, size), parser.page, parser.func, DefaultBlockSize(parser.func))
        /\ UNCHANGED <<at, from, rounds, sent, asked>>

Perform(n) ==
    /\ Parsing(n)
    /\ Head(parser.in) \notin {BGCP_CMD_PAGE, BGCP_CMD_FUNC, BGCP_CMD_SIZE, BGCP_CMD_NOT_SUP}
    /\ PerformParam(n, parser.page * Base + Head(parser.in), Tail(parser.in), parser.size,
                    parser.func # NO_FUNC /\ parser.size <= Len(parser.in) - 1)

PerformNotSup(n) ==
    /\ Parsing(n)
    /\ Head(parser.in) = BGCP_CMD_NOT_SUP
    /\ PerformParam(n, parser.page * Base + ReadByte(Tail(parser.in)), Skip(parser.in, 2), 0, FALSE)

----
(* The users of the library and the transport, external *)

\* reset_req_queue was called, and the master builds its next packet.
Ask(e) ==
    /\ at = "none"
    /\ rounds < MaxRounds
    /\ Len(said["master"]) < MaxEntries
    /\ queue' = [queue EXCEPT !["master"] = PushParamData(@, e.func, e.param, e.data)]
    /\ said' = [said EXCEPT !["master"] = Append(@, e)]
    /\ UNCHANGED <<vals, parser, at, from, rounds, sent, heard, asked>>

SendRequest ==
    /\ at = "none"
    /\ said["master"] # <<>>
    /\ asked' = said["master"]
    /\ BeginParse("device", queue["master"].buf, "master", said["master"])

SendNoise(packet) ==
    /\ at = "none"
    /\ rounds < MaxRounds
    /\ said["master"] = <<>>
    /\ asked' = <<>>
    /\ BeginParse("device", packet, "noise", <<>>)

\* An answer goes to the node that asked, if there is one.
SendResponse(n) ==
    /\ at = n
    /\ parser.in = <<>>
    /\ from = Peer(n)
    /\ queue[n].buf # <<>>
    /\ asked' = asked
    /\ BeginParse(Peer(n), queue[n].buf, n, said[n])

\* Nothing to answer, or the answer is lost: the master starts a new packet.
EndRound(n) ==
    /\ at = n
    /\ parser.in = <<>>
    /\ at' = "none"
    /\ rounds' = rounds + 1
    /\ queue' = [queue EXCEPT !["master"] = EmptyQueue]
    /\ said' = [said EXCEPT !["master"] = <<>>]
    /\ parser' = IdleParser
    /\ from' = "noise"
    /\ sent' = <<>>
    /\ heard' = <<>>
    /\ asked' = <<>>
    /\ UNCHANGED vals

\* After MaxRounds packets both nodes restart.
Restart ==
    /\ at = "none"
    /\ rounds = MaxRounds
    /\ queue' = [n \in Nodes |-> EmptyQueue]
    /\ vals' = [n \in Nodes |-> [p \in Params |-> Start[p]]]
    /\ parser' = IdleParser
    /\ at' = "none"
    /\ from' = "noise"
    /\ rounds' = 0
    /\ said' = [n \in Nodes |-> <<>>]
    /\ sent' = <<>>
    /\ heard' = <<>>
    /\ asked' = <<>>

ParseStep(n) == SetNewPage(n) \/ SetNewFunc(n) \/ SetDataSize(n) \/ Perform(n) \/ PerformNotSup(n)

Next == \/ \E n \in Nodes : ParseStep(n) \/ SendResponse(n) \/ EndRound(n)
        \/ \E e \in Requests : Ask(e)
        \/ \E packet \in Noise : SendNoise(packet)
        \/ SendRequest
        \/ Restart

Spec == Init /\ [][Next]_vars

\* parse is a loop without waiting, and its caller answers or gives up.
FairSpec == /\ Spec
            /\ \A n \in Nodes : WF_vars(ParseStep(n) \/ SendResponse(n) \/ EndRound(n))

----
(* Properties *)

\* The writer never passes the end of queue_buf.
Queues == {q \in [func : 0..6, page : Byte, buf : Seq(Byte)] : Len(q.buf) <= QUEUE_BUF_SIZE}

\* The packet, the page and the data size are bytes, the function is known.
Parsers == [in : Seq(Byte), page : Byte, func : 0..6, size : Byte]

\* Types, and the bound of queue_buf that queue_push_req_data keeps.
TypeOK == /\ queue \in [Nodes -> Queues]
          /\ parser \in Parsers
          /\ DOMAIN vals = Nodes /\ \A n \in Nodes : DOMAIN vals[n] = Params
          /\ at \in Nodes \union {"none"}
          /\ from \in Nodes \union {"noise"}
          /\ rounds \in Nat
          /\ said \in [Nodes -> Seq(Entries)]
          /\ asked \in Seq(Entries)

\* Whatever packets arrive, well-formed or not, a bound parameter keeps to
\* the limits, the list or the width that its descriptor gives.
InRange == \A n \in Nodes, p \in Params : vals[n][p] \in Values(p)

\* Every part of the chain that is parsed found room in the sender's queue.
Fitted == \A i \in DOMAIN sent : Len(queue[from].buf) + 1 + Len(sent[i].data) < QUEUE_BUF_SIZE

\* The parser of one node hears what the writer of the other said, in order:
\* functions, pages, sizes and data that look like commands included.  Only
\* a chain that does not fit loses entries, and only at its end: what is left
\* of an entry whose data were dropped is never taken for another one.
Understood ==
    at # "none" /\ from # "noise" =>
        /\ Len(heard) <= Len(sent)
        /\ heard = SubSeq(sent, 1, Len(heard))
        /\ Fitted /\ parser.in = <<>> => heard = sent

\* When every entry of a request that only read, or wrote and read, has been
\* answered, the master's copies of the parameters in it equal the device's.
Mirrored ==
    /\ at = "master" /\ parser.in = <<>> /\ Len(heard) = Len(asked)
    /\ \A i \in DOMAIN asked : is_read_func(asked[i].func)
    => \A i \in DOMAIN asked : asked[i].param \in Params =>
           vals["master"][asked[i].param] = vals["device"][asked[i].param]

\* A response is never answered: every exchange ends, and with at most one
\* packet in each direction.
ExchangeEnds == at # "none" ~> at = "none"

----
\* The inductive invariant: what a node sends are bytes because its values
\* are in range, and its values stay in range because it parses bytes.
BgcpInv == TypeOK /\ InRange

====
