---- MODULE BgcpProofs ----
(***************************************************************************)
(* Proofs about the BGCP library for every width of a byte, every table of *)
(* parameters, every buffer size and every packet.                         *)
(***************************************************************************)
EXTENDS Bgcp, TLAPS

LEMMA Bytes ==
    /\ Base \in Int /\ Base >= 11
    /\ \A f \in 0..6 : f \in Byte
    /\ BGCP_CMD_PAGE \in Byte /\ BGCP_CMD_SIZE \in Byte
    /\ BGCP_CMD_NOT_SUP \in Byte /\ BGCP_CMD_FUNC \in Byte
  BY BaseAssumption DEF Byte, BGCP_CMD_PAGE, BGCP_CMD_SIZE, BGCP_CMD_NOT_SUP, BGCP_CMD_FUNC

\* The page and the low byte of a parameter number are bytes.
LEMMA Halves ==
    ASSUME NEW num \in ParamNums
    PROVE  num % Base \in Byte /\ num \div Base \in Byte
<1>1. num \in Int /\ 0 <= num /\ num < Base * Base /\ Base \in Int /\ Base > 0
  <2>1. Base * Base \in Int
    BY BaseAssumption
  <2> QED
    BY <2>1, BaseAssumption DEF ParamNums
<1>2. num % Base \in Int /\ 0 <= num % Base /\ num % Base < Base
  BY <1>1, Z3
<1>3. num \div Base \in Int /\ 0 <= num \div Base
  BY <1>1, Z3
<1>4. num \div Base < Base
  BY <1>1, Z3
<1> QED
  BY <1>1, <1>2, <1>3, <1>4 DEF Byte

LEMMA Number ==
    ASSUME NEW page \in Byte, NEW low \in Byte
    PROVE  page * Base + low \in ParamNums
<1>1. Base \in Int /\ page \in Int /\ low \in Int /\ 0 <= page /\ page <= Base - 1 /\ 0 <= low /\ low <= Base - 1
  BY BaseAssumption DEF Byte
<1>2. page * Base \in Int /\ 0 <= page * Base /\ page * Base <= (Base - 1) * Base
  BY <1>1, BaseAssumption, Z3
<1>3. (Base - 1) * Base = Base * Base - Base /\ Base * Base \in Int
  BY <1>1, Z3
<1> QED
  BY <1>1, <1>2, <1>3 DEF ParamNums

----
(* The writer *)

LEMMA QueueType ==
    ASSUME NEW func \in 0..6, NEW page \in Byte, NEW buf \in Seq(Byte), Len(buf) <= QUEUE_BUF_SIZE
    PROVE  Queue(func, page, buf) \in Queues
  BY DEF Queue, Queues

LEMMA QueueParts ==
    ASSUME NEW q \in Queues
    PROVE  /\ q.func \in 0..6 /\ q.page \in Byte
           /\ q.buf \in Seq(Byte) /\ Len(q.buf) \in Nat /\ Len(q.buf) <= QUEUE_BUF_SIZE
  BY DEF Queues

LEMMA EmptyQueueType == EmptyQueue \in Queues
<1>1. 0 \in Byte /\ NO_FUNC \in 0..6
  BY Bytes DEF NO_FUNC
<1>2. <<>> \in Seq(Byte) /\ Len(<<>>) <= QUEUE_BUF_SIZE
  BY QueueAssumption
<1> QED
  BY <1>1, <1>2, QueueType DEF EmptyQueue

LEMMA PushType ==
    ASSUME NEW q \in Queues, NEW bytes \in Seq(Byte)
    PROVE  Push(q, bytes) \in Queues
<1>1. CASE QUEUE_BUF_SIZE > Len(q.buf) + Len(bytes)
  <2>1. q.buf \o bytes \in Seq(Byte) /\ Len(q.buf \o bytes) = Len(q.buf) + Len(bytes)
    BY QueueParts
  <2>2. Len(q.buf \o bytes) <= QUEUE_BUF_SIZE
    BY <1>1, <2>1, QueueParts, QueueAssumption
  <2> QED
    BY <1>1, <2>1, <2>2, QueueParts, QueueType DEF Push
<1>2. CASE ~(QUEUE_BUF_SIZE > Len(q.buf) + Len(bytes))
  BY <1>2 DEF Push
<1> QED
  BY <1>1, <1>2

LEMMA PushFuncType ==
    ASSUME NEW q \in Queues, NEW func \in 0..6
    PROVE  PushFunc(q, func) \in Queues
<1>1. <<BGCP_CMD_FUNC>> \in Seq(Byte) /\ <<func>> \in Seq(Byte)
  BY Bytes
<1>2. PICK marked : marked = IF Len(q.buf) # 0 THEN Push(q, <<BGCP_CMD_FUNC>>) ELSE q
  OBVIOUS
<1>3. marked \in Queues
  BY <1>1, <1>2, PushType
<1>4. Push(marked, <<func>>) \in Queues
  BY <1>1, <1>3, PushType
<1>5. Queue(func, q.page, Push(marked, <<func>>).buf) \in Queues
  BY <1>4, QueueParts, QueueType
<1> QED
  BY <1>2, <1>5 DEF PushFunc

LEMMA PushPageType ==
    ASSUME NEW q \in Queues, NEW num \in ParamNums
    PROVE  PushPage(q, num) \in Queues
<1>1. PICK page \in Byte : page = num \div Base
  BY Halves
<1>2. <<BGCP_CMD_PAGE>> \in Seq(Byte) /\ <<page>> \in Seq(Byte)
  BY Bytes
<1>3. Push(Push(q, <<BGCP_CMD_PAGE>>), <<page>>) \in Queues
  BY <1>2, PushType
<1>4. Queue(q.func, page, Push(Push(q, <<BGCP_CMD_PAGE>>), <<page>>).buf) \in Queues
  BY <1>3, QueueParts, QueueType
<1> QED
  BY <1>1, <1>4 DEF PushPage

LEMMA PushSizeType ==
    ASSUME NEW q \in Queues, NEW size \in Byte
    PROVE  PushSize(q, size) \in Queues
<1>1. <<BGCP_CMD_SIZE>> \in Seq(Byte) /\ <<size>> \in Seq(Byte)
  BY Bytes
<1> QED
  BY <1>1, PushType DEF PushSize

LEMMA PushParamDataType ==
    ASSUME NEW q \in Queues, NEW func \in 0..6, NEW num \in ParamNums, NEW data \in Seq(Byte), Len(data) \in Byte
    PROVE  PushParamData(q, func, num, data) \in Queues
<1>1. <<num % Base>> \in Seq(Byte)
  BY Halves
<1>2. PushPage(PushFunc(q, func), num) \in Queues
  BY PushFuncType, PushPageType
<1>3. PushSize(PushPage(PushFunc(q, func), num), Len(data)) \in Queues
  BY <1>2, PushSizeType
<1> QED
  BY <1>1, <1>3, PushType DEF PushParamData

LEMMA PushNoSupParamType ==
    ASSUME NEW q \in Queues, NEW num \in ParamNums
    PROVE  PushNoSupParam(q, num) \in Queues
<1>1. <<num % Base>> \in Seq(Byte) /\ <<BGCP_CMD_NOT_SUP>> \in Seq(Byte)
  BY Halves, Bytes
<1>2. BGCP_FUNC_RESP \in 0..6
  BY DEF BGCP_FUNC_RESP
<1>3. PushPage(PushFunc(q, BGCP_FUNC_RESP), num) \in Queues
  BY <1>2, PushFuncType, PushPageType
<1> QED
  BY <1>1, <1>3, PushType DEF PushNoSupParam

----
(* The handlers of the data types *)

LEMMA Limits ==
    ASSUME NEW p \in Params, Table[p].type \in {"8B", "16B"}
    PROVE  /\ Table[p].size \in {1, 2}
           /\ Table[p].min \in Int /\ Table[p].max \in Int /\ Table[p].min <= Table[p].max
           /\ Table[p].min \in Words(Table[p].size) /\ Table[p].max \in Words(Table[p].size)
<1>1. Table[p].size \in {1, 2}
  BY TableAssumption
<1>2. Table[p].min \in Words(Table[p].size) /\ Table[p].max \in Words(Table[p].size) /\ Table[p].min <= Table[p].max
  BY TableAssumption
<1>3. \A n \in {1, 2} : \A w \in Words(n) : w \in Int
  <2>1. Base * Base \in Int
    BY BaseAssumption
  <2> QED
    BY <2>1, BaseAssumption DEF Words, Byte
<1> QED
  BY <1>1, <1>2, <1>3

LEMMA UpdateNumInRange ==
    ASSUME NEW p \in Params, Table[p].type \in {"8B", "16B"}, NEW v \in Values(p),
           NEW inc \in {-1, 0, 1}, NEW data \in Seq(Byte)
    PROVE  UpdateNum(p, v, inc, data) \in Values(p)
<1>1. Values(p) = Table[p].min..Table[p].max
  BY DEF Values
<1>2. PICK min \in Int, max \in Int : min = Table[p].min /\ max = Table[p].max /\ min <= max
  BY Limits
<1>3. v \in Int /\ min <= v /\ v <= max
  BY <1>1, <1>2
<1>4. CASE inc # 0
  <2>1. PICK m \in Int : m = (IF Table[p].size = 1 THEN Base ELSE Base * Base) /\ m > 0
    <3>1. Base \in Int /\ Base > 0 /\ Base * Base \in Int /\ Base * Base > 0
      BY BaseAssumption, Z3
    <3> QED
      BY <3>1
  <2>2. (v + inc) % m \in Int
    BY <1>3, <2>1
  <2>3. UpdateNum(p, v, inc, data) = Wrap((v + inc) % m, min, max)
    BY <1>2, <1>4, <2>1 DEF UpdateNum
  <2>4. \A x \in Int : Wrap(x, min, max) \in min..max
    BY <1>2 DEF Wrap
  <2> QED
    BY <1>1, <1>2, <2>2, <2>3, <2>4
<1>5. CASE inc = 0 /\ Len(data) = Table[p].size
  <2>1. Decode(data) \in Int
    <3>1. \A i \in 1..Len(data) : data[i] \in Int
      BY BaseAssumption DEF Byte
    <3>2. Len(data) \in {1, 2}
      BY <1>5, Limits
    <3> QED
      BY <3>1, <3>2, BaseAssumption DEF Decode
  <2>2. UpdateNum(p, v, inc, data) = Clamp(Decode(data), min, max)
    BY <1>2, <1>5 DEF UpdateNum
  <2>3. \A x \in Int : Clamp(x, min, max) \in min..max
    BY <1>2 DEF Clamp
  <2> QED
    BY <1>1, <1>2, <2>1, <2>2, <2>3
<1>6. CASE inc = 0 /\ Len(data) # Table[p].size
  BY <1>6 DEF UpdateNum
<1> QED
  BY <1>4, <1>5, <1>6

LEMMA UpdateRangeInRange ==
    ASSUME NEW p \in Params, Table[p].type = "8B_RANGE", NEW v \in Values(p),
           NEW inc \in {-1, 0, 1}, NEW data \in Seq(Byte)
    PROVE  UpdateRange(p, v, inc, data) \in Values(p)
<1>1. PICK list : list = Table[p].list
  OBVIOUS
<1>2. Values(p) = {list[i] : i \in DOMAIN list}
  BY <1>1 DEF Values
<1>3. CASE Len(data) = 1
  BY <1>1, <1>2, <1>3 DEF UpdateRange
<1>4. CASE Len(data) # 1 /\ inc # 0 /\ \E i \in Places(list, v) : i + inc \in DOMAIN list
  <2>1. PICK k : k = (CHOOSE i \in Places(list, v) : i + inc \in DOMAIN list)
    OBVIOUS
  <2>2. k + inc \in DOMAIN list
    BY <1>4, <2>1
  <2>3. UpdateRange(p, v, inc, data) = list[k + inc]
    BY <1>1, <1>4, <2>1 DEF UpdateRange
  <2> QED
    BY <1>2, <2>2, <2>3
<1>5. CASE Len(data) # 1 /\ ~(inc # 0 /\ \E i \in Places(list, v) : i + inc \in DOMAIN list)
  BY <1>1, <1>5 DEF UpdateRange
<1> QED
  BY <1>3, <1>4, <1>5

\* Whatever data and function arrive, a handler keeps its parameter's limits.
LEMMA UpdateInRange ==
    ASSUME NEW p \in Params, NEW v \in Values(p), NEW inc \in {-1, 0, 1}, NEW data \in Seq(Byte)
    PROVE  Update(p, v, inc, data) \in Values(p)
<1>1. Table[p].type \in Types
  BY TableAssumption
<1>2. CASE Table[p].type \in {"8B", "16B"}
  <2>1. Update(p, v, inc, data) = UpdateNum(p, v, inc, data)
    BY <1>2 DEF Update
  <2> QED
    BY <1>2, <2>1, UpdateNumInRange
<1>3. CASE Table[p].type = "1B"
  <2>1. Update(p, v, inc, data) = UpdateBool(v, data) /\ Values(p) = 0..1
    BY <1>3 DEF Update, Values
  <2> QED
    BY <2>1 DEF UpdateBool
<1>4. CASE Table[p].type = "8B_RANGE"
  <2>1. Update(p, v, inc, data) = UpdateRange(p, v, inc, data)
    BY <1>4 DEF Update
  <2> QED
    BY <1>4, <2>1, UpdateRangeInRange
<1>5. CASE Table[p].type = "BIN"
  <2>1. Update(p, v, inc, data) = IF Len(data) = Table[p].size THEN data ELSE v
    BY <1>5 DEF Update
  <2>2. Values(p) = [1..Table[p].size -> Byte]
    BY <1>5 DEF Values
  <2>3. data \in [1..Len(data) -> Byte]
    OBVIOUS
  <2> QED
    BY <2>1, <2>2, <2>3
<1>6. CASE Table[p].type = "CONST_BIN"
  BY <1>6 DEF Update
<1> QED
  BY <1>1, <1>2, <1>3, <1>4, <1>5, <1>6 DEF Types

\* What a parameter sends is a sequence of bytes whose length is a byte.
LEMMA EncodeType ==
    ASSUME NEW p \in Params, NEW v \in Values(p)
    PROVE  Encode(p, v) \in Seq(Byte) /\ Len(Encode(p, v)) \in Byte
<1>1. Table[p].type \in Types /\ Table[p].size \in Byte /\ 1 \in Byte /\ 2 \in Byte
  BY TableAssumption, Bytes
<1>2. CASE Table[p].type \in {"BIN", "CONST_BIN"}
  <2>1. v \in [1..Table[p].size -> Byte] /\ Table[p].size \in Nat
    BY <1>1, <1>2, BaseAssumption DEF Values, Byte
  <2>2. Encode(p, v) = v
    BY <1>2 DEF Encode
  <2>3. v \in Seq(Byte) /\ Len(v) = Table[p].size
    BY <2>1
  <2> QED
    BY <1>1, <2>2, <2>3
<1>3. CASE Table[p].type = "16B"
  <2>1. Table[p].size = 2
    BY <1>3, TableAssumption
  <2>2. v \in ParamNums
    <3>1. Base * Base \in Int
      BY BaseAssumption
    <3> QED
      BY <1>3, <2>1, <3>1, Limits DEF Values, Words, ParamNums
  <2>3. Encode(p, v) = <<v % Base, v \div Base>>
    BY <1>3 DEF Encode
  <2>4. v % Base \in Byte /\ v \div Base \in Byte
    BY <2>2, Halves
  <2> QED
    BY <1>1, <2>3, <2>4
<1>4. CASE Table[p].type \in {"8B", "1B", "8B_RANGE"}
  <2>1. v \in Byte
    <3>1. CASE Table[p].type = "8B"
      <4>1. Table[p].size = 1
        BY <3>1, TableAssumption
      <4> QED
        BY <3>1, <4>1, Limits, BaseAssumption DEF Values, Words, Byte
    <3>2. CASE Table[p].type = "1B"
      BY <3>2, BaseAssumption DEF Values, Byte
    <3>3. CASE Table[p].type = "8B_RANGE"
      <4>1. Table[p].list \in Seq(Byte)
        BY TableAssumption
      <4> QED
        BY <3>3, <4>1 DEF Values
    <3> QED
      BY <1>4, <3>1, <3>2, <3>3
  <2>2. Encode(p, v) = <<v>>
    BY <1>4 DEF Encode
  <2> QED
    BY <1>1, <2>1, <2>2
<1> QED
  BY <1>1, <1>2, <1>3, <1>4 DEF Types

----
(* The parser *)

LEMMA ParserType ==
    ASSUME NEW in \in Seq(Byte), NEW page \in Byte, NEW func \in 0..6, NEW size \in Byte
    PROVE  Parser(in, page, func, size) \in Parsers
  BY DEF Parser, Parsers

LEMMA ParserParts ==
    ASSUME TypeOK
    PROVE  /\ parser.in \in Seq(Byte) /\ parser.page \in Byte
           /\ parser.func \in 0..6 /\ parser.size \in Byte
  BY DEF TypeOK, Parsers

LEMMA Reading ==
    /\ 0 \in Byte
    /\ \A in \in Seq(Byte) : ReadByte(in) \in Byte /\ ReadFunc(in) \in 0..6
    /\ \A func : DefaultBlockSize(func) \in Byte
    /\ \A func : inc_val(func) \in {-1, 0, 1}
<1>1. 0 \in Byte /\ 1 \in Byte
  BY Bytes
<1>2. \A in \in Seq(Byte) : ReadByte(in) \in Byte
  BY <1>1 DEF ReadByte
<1>3. \A in \in Seq(Byte) : ReadFunc(in) \in 0..6
  BY DEF ReadFunc, Functions, NO_FUNC
<1>4. \A func : DefaultBlockSize(func) \in Byte
  BY <1>1 DEF DefaultBlockSize
<1>5. \A func : inc_val(func) \in {-1, 0, 1}
  BY DEF inc_val
<1> QED
  BY <1>1, <1>2, <1>3, <1>4, <1>5

LEMMA SkipType ==
    ASSUME NEW in \in Seq(Byte), NEW n \in Nat
    PROVE  Skip(in, n) \in Seq(Byte)
  BY DEF Skip

LEMMA IdleParserType == IdleParser \in Parsers
<1>1. <<>> \in Seq(Byte) /\ NO_FUNC \in 0..6
  BY DEF NO_FUNC
<1> QED
  BY <1>1, Reading, ParserType DEF IdleParser

LEMMA PeerType == \A n \in Nodes : Peer(n) \in Nodes
  BY DEF Peer, Nodes

LEMMA InitBgcpInv == Init => BgcpInv
<1> SUFFICES ASSUME Init PROVE BgcpInv
  OBVIOUS
<1>1. TypeOK
  <2>1. queue \in [Nodes -> Queues]
    BY EmptyQueueType DEF Init
  <2>2. parser \in Parsers
    BY IdleParserType DEF Init
  <2>3. DOMAIN vals = Nodes /\ \A n \in Nodes : DOMAIN vals[n] = Params
    BY DEF Init
  <2>4. said \in [Nodes -> Seq(Entries)] /\ asked \in Seq(Entries)
    BY DEF Init
  <2> QED
    BY <2>1, <2>2, <2>3, <2>4 DEF Init, TypeOK
<1>2. InRange
  BY StartAssumption DEF Init, InRange
<1> QED
  BY <1>1, <1>2 DEF BgcpInv

LEMMA BeginParseInv ==
    ASSUME BgcpInv, NEW n \in Nodes, NEW packet \in Seq(Byte), NEW sender \in Nodes \union {"noise"},
           NEW entries, BeginParse(n, packet, sender, entries), asked' \in Seq(Entries)
    PROVE  BgcpInv'
<1>1. queue' \in [Nodes -> Queues]
  <2>1. queue \in [Nodes -> Queues]
    BY DEF BgcpInv, TypeOK
  <2>2. queue' = queue \/ queue' = [queue EXCEPT ![n] = EmptyQueue]
    BY DEF BeginParse
  <2> QED
    BY <2>1, <2>2, EmptyQueueType
<1>2. parser' \in Parsers
  <2>1. Parser(Skip(packet, 1), 0, ReadFunc(packet), DefaultBlockSize(ReadFunc(packet))) \in Parsers
    BY SkipType, Reading, ParserType
  <2> QED
    BY <2>1, IdleParserType DEF BeginParse
<1>3. vals' = vals /\ rounds' = rounds /\ at' = n /\ from' = sender
  BY DEF BeginParse
<1>4. said' \in [Nodes -> Seq(Entries)]
  <2>1. said \in [Nodes -> Seq(Entries)]
    BY DEF BgcpInv, TypeOK
  <2>2. said' = said \/ said' = [said EXCEPT ![n] = <<>>]
    BY DEF BeginParse
  <2>3. <<>> \in Seq(Entries)
    OBVIOUS
  <2> QED
    BY <2>1, <2>2, <2>3
<1>5. TypeOK'
  BY <1>1, <1>2, <1>3, <1>4 DEF BgcpInv, TypeOK
<1>6. InRange'
  BY <1>3 DEF BgcpInv, InRange
<1> QED
  BY <1>5, <1>6 DEF BgcpInv

\* The commands of the protocol change only the parser.
LEMMA CommandInv ==
    ASSUME BgcpInv, parser' \in Parsers,
           UNCHANGED <<queue, vals, at, from, rounds, said, sent, heard, asked>>
    PROVE  BgcpInv'
  BY DEF BgcpInv, TypeOK, InRange

LEMMA ProcessedInv ==
    ASSUME BgcpInv, NEW n \in Nodes, NEW num \in Params, NEW data \in Seq(Byte), Processed(n, num, data)
    PROVE  /\ queue' \in [Nodes -> Queues] /\ said' \in [Nodes -> Seq(Entries)]
           /\ DOMAIN vals' = Nodes /\ \A m \in Nodes : DOMAIN vals'[m] = Params
           /\ InRange'
<1>1. /\ queue \in [Nodes -> Queues] /\ said \in [Nodes -> Seq(Entries)]
      /\ DOMAIN vals = Nodes /\ \A m \in Nodes : DOMAIN vals[m] = Params
  BY DEF BgcpInv, TypeOK
<1>2. \A m \in Nodes, p \in Params : vals[m][p] \in Values(p)
  BY DEF BgcpInv, InRange
<1>3. PICK new : new = IF is_write_func(parser.func)
                       THEN Update(num, vals[n][num], inc_val(parser.func), data) ELSE vals[n][num]
  OBVIOUS
<1>4. PICK answer : answer = Encode(num, new)
  OBVIOUS
<1>5. /\ vals' = [vals EXCEPT ![n] = [@ EXCEPT ![num] = new]]
      /\ \/ /\ queue' = [queue EXCEPT ![n] = PushParamData(@, BGCP_FUNC_RESP, num, answer)]
            /\ said' = [said EXCEPT ![n] = Append(@, Entry(BGCP_FUNC_RESP, num, answer))]
         \/ queue' = queue /\ said' = said
  BY <1>3, <1>4 DEF Processed
<1>6. new \in Values(num)
  BY <1>2, <1>3, UpdateInRange, Reading
<1>7. answer \in Seq(Byte) /\ Len(answer) \in Byte
  BY <1>4, <1>6, EncodeType
<1>8. num \in ParamNums /\ BGCP_FUNC_RESP \in 0..6 /\ BGCP_FUNC_RESP \in Functions
  BY TableAssumption DEF BGCP_FUNC_RESP, Functions
<1>9. queue' \in [Nodes -> Queues]
  <2>1. PushParamData(queue[n], BGCP_FUNC_RESP, num, answer) \in Queues
    BY <1>1, <1>7, <1>8, PushParamDataType
  <2> QED
    BY <1>1, <1>5, <2>1
<1>10. said' \in [Nodes -> Seq(Entries)]
  <2>1. Entry(BGCP_FUNC_RESP, num, answer) \in Entries
    BY <1>7, <1>8 DEF Entry, Entries
  <2>2. Append(said[n], Entry(BGCP_FUNC_RESP, num, answer)) \in Seq(Entries)
    BY <1>1, <2>1
  <2> QED
    BY <1>1, <1>5, <2>2
<1>11. DOMAIN vals' = Nodes /\ \A m \in Nodes : DOMAIN vals'[m] = Params
  BY <1>1, <1>5
<1>12. \A m \in Nodes, p \in Params : vals'[m][p] = IF m = n /\ p = num THEN new ELSE vals[m][p]
  BY <1>1, <1>5
<1>13. InRange'
  BY <1>2, <1>6, <1>12 DEF InRange
<1> QED
  BY <1>9, <1>10, <1>11, <1>13

LEMMA NotSupportedInv ==
    ASSUME BgcpInv, NEW n \in Nodes, NEW num \in ParamNums, NotSupported(n, num)
    PROVE  queue' \in [Nodes -> Queues] /\ said' \in [Nodes -> Seq(Entries)]
<1>1. queue \in [Nodes -> Queues] /\ said \in [Nodes -> Seq(Entries)]
  BY DEF BgcpInv, TypeOK
<1>2. \/ /\ queue' = [queue EXCEPT ![n] = PushNoSupParam(@, num)]
         /\ said' = [said EXCEPT ![n] = Append(@, Entry(BGCP_FUNC_RESP, num, <<>>))]
      \/ queue' = queue /\ said' = said
  BY DEF NotSupported
<1>3. PushNoSupParam(queue[n], num) \in Queues
  BY <1>1, PushNoSupParamType
<1>4. Entry(BGCP_FUNC_RESP, num, <<>>) \in Entries
  BY DEF Entry, Entries, BGCP_FUNC_RESP, Functions
<1>5. Append(said[n], Entry(BGCP_FUNC_RESP, num, <<>>)) \in Seq(Entries)
  BY <1>1, <1>4
<1> QED
  BY <1>1, <1>2, <1>3, <1>5

LEMMA PerformParamInv ==
    ASSUME BgcpInv, NEW n \in Nodes, NEW num \in ParamNums, NEW in \in Seq(Byte), NEW size \in Nat,
           NEW complete \in BOOLEAN, complete => size <= Len(in), PerformParam(n, num, in, size, complete)
    PROVE  BgcpInv'
<1>1. PICK data : data = IF complete /\ TakesData(parser.func) THEN SubSeq(in, 1, size) ELSE <<>>
  OBVIOUS
<1>2. data \in Seq(Byte)
  BY <1>1
<1>3. parser' \in Parsers
  <2>1. parser' = Parser(Skip(in, size), parser.page, parser.func, DefaultBlockSize(parser.func))
    BY DEF PerformParam
  <2>2. TypeOK
    BY DEF BgcpInv
  <2> QED
    BY <2>1, <2>2, ParserParts, SkipType, Reading, ParserType
<1>4. /\ queue' \in [Nodes -> Queues] /\ said' \in [Nodes -> Seq(Entries)]
      /\ DOMAIN vals' = Nodes /\ \A m \in Nodes : DOMAIN vals'[m] = Params
      /\ InRange'
  <2>1. CASE Unknown(num) /\ NotSupported(n, num)
    <3>1. vals' = vals
      BY <2>1 DEF NotSupported
    <3> QED
      BY <2>1, <3>1, NotSupportedInv DEF BgcpInv, TypeOK, InRange
  <2>2. CASE num \in Params /\ Processed(n, num, data)
    BY <1>2, <2>2, ProcessedInv
  <2>3. CASE UNCHANGED <<vals, queue, said>>
    BY <2>3 DEF BgcpInv, TypeOK, InRange
  <2> QED
    BY <1>1, <2>1, <2>2, <2>3 DEF PerformParam
<1>5. UNCHANGED <<at, from, rounds, asked>>
  BY DEF PerformParam
<1>6. TypeOK'
  BY <1>3, <1>4, <1>5 DEF BgcpInv, TypeOK
<1> QED
  BY <1>4, <1>6 DEF BgcpInv

----
(* The steps and the theorems *)

LEMMA NextBgcpInv == BgcpInv /\ [Next]_vars => BgcpInv'
<1> SUFFICES ASSUME BgcpInv, [Next]_vars PROVE BgcpInv'
  OBVIOUS
<1>0. TypeOK
  BY DEF BgcpInv
<1>1. parser.in \in Seq(Byte) /\ parser.page \in Byte /\ parser.func \in 0..6 /\ parser.size \in Byte
  BY <1>0, ParserParts
<1>2. parser.size \in Nat
  BY <1>1, BaseAssumption DEF Byte
<1>3. ASSUME NEW n \in Nodes, ParseStep(n) PROVE BgcpInv'
  <2>0. CASE ~Parsing(n)
    BY <1>3, <2>0 DEF ParseStep, SetNewPage, SetNewFunc, SetDataSize, Perform, PerformNotSup
  <2>1. SUFFICES ASSUME Parsing(n) PROVE BgcpInv'
    BY <2>0
  <2>2. Head(parser.in) \in Byte /\ Tail(parser.in) \in Seq(Byte) /\ Len(Tail(parser.in)) = Len(parser.in) - 1
    BY <1>1, <2>1 DEF Parsing
  <2>3. Skip(parser.in, 2) \in Seq(Byte) /\ ReadByte(Tail(parser.in)) \in Byte /\ ReadFunc(Tail(parser.in)) \in 0..6
    BY <1>1, <2>2, SkipType, Reading
  <2>4. CASE SetNewPage(n)
    <3>1. Parser(Skip(parser.in, 2), ReadByte(Tail(parser.in)), parser.func, parser.size) \in Parsers
      BY <1>1, <2>3, ParserType
    <3> QED
      BY <2>4, <3>1, CommandInv DEF SetNewPage
  <2>5. CASE SetNewFunc(n)
    <3>1. Parser(Skip(parser.in, 2), parser.page, ReadFunc(Tail(parser.in)),
                 DefaultBlockSize(ReadFunc(Tail(parser.in)))) \in Parsers
      BY <1>1, <2>3, Reading, ParserType
    <3> QED
      BY <2>5, <3>1, CommandInv DEF SetNewFunc
  <2>6. CASE SetDataSize(n)
    <3>1. \A size \in Byte : Parser(Skip(parser.in, 2), parser.page, parser.func, size) \in Parsers
      BY <1>1, <2>3, ParserType
    <3>2. parser' \in Parsers
      BY <1>1, <2>3, <2>6, <3>1 DEF SetDataSize
    <3> QED
      BY <2>6, <3>2, CommandInv DEF SetDataSize
  <2>7. CASE Perform(n)
    <3>1. parser.page * Base + Head(parser.in) \in ParamNums
      BY <1>1, <2>2, Number
    <3>2. PICK complete \in BOOLEAN : complete = (parser.func # NO_FUNC /\ parser.size <= Len(parser.in) - 1)
      OBVIOUS
    <3>3. complete => parser.size <= Len(Tail(parser.in))
      BY <2>2, <3>2
    <3>4. PerformParam(n, parser.page * Base + Head(parser.in), Tail(parser.in), parser.size, complete)
      BY <2>7, <3>2 DEF Perform
    <3> QED
      BY <1>2, <2>2, <3>1, <3>3, <3>4, PerformParamInv
  <2>8. CASE PerformNotSup(n)
    <3>1. parser.page * Base + ReadByte(Tail(parser.in)) \in ParamNums
      BY <1>1, <2>3, Number
    <3>2. PerformParam(n, parser.page * Base + ReadByte(Tail(parser.in)), Skip(parser.in, 2), 0, FALSE)
      BY <2>8 DEF PerformNotSup
    <3> QED
      BY <2>3, <3>1, <3>2, PerformParamInv
  <2> QED
    BY <1>3, <2>4, <2>5, <2>6, <2>7, <2>8 DEF ParseStep
<1>4. \A n \in Nodes : queue[n].buf \in Seq(Byte) /\ said[n] \in Seq(Entries)
  BY <1>0, QueueParts DEF TypeOK
<1>5. ASSUME NEW n \in Nodes, SendResponse(n) PROVE BgcpInv'
  <2>1. BeginParse(Peer(n), queue[n].buf, n, said[n]) /\ asked' \in Seq(Entries)
    BY <1>0, <1>5 DEF SendResponse, TypeOK
  <2> QED
    BY <1>4, <2>1, PeerType, BeginParseInv
<1>6. ASSUME NEW n \in Nodes, EndRound(n) PROVE BgcpInv'
  <2>1. queue' \in [Nodes -> Queues] /\ said' \in [Nodes -> Seq(Entries)]
    <3>1. /\ queue' = [queue EXCEPT !["master"] = EmptyQueue]
          /\ said' = [said EXCEPT !["master"] = <<>>]
      BY <1>6 DEF EndRound
    <3>2. queue \in [Nodes -> Queues] /\ said \in [Nodes -> Seq(Entries)]
      BY <1>0 DEF TypeOK
    <3>3. queue' \in [Nodes -> Queues]
      BY <3>1, <3>2, EmptyQueueType
    <3>4. said' \in [Nodes -> Seq(Entries)]
      <4>1. <<>> \in Seq(Entries)
        OBVIOUS
      <4> QED
        BY <3>1, <3>2, <4>1
    <3> QED
      BY <3>3, <3>4
  <2>2. parser' \in Parsers /\ vals' = vals /\ rounds' = rounds + 1 /\ asked' = <<>> /\ from' = "noise" /\ at' = "none"
    BY <1>6, IdleParserType DEF EndRound
  <2> QED
    BY <2>1, <2>2 DEF BgcpInv, TypeOK, InRange
<1>7. ASSUME NEW e \in Requests, Ask(e) PROVE BgcpInv'
  <2>1. e \in Entries /\ e.func \in 0..6 /\ e.param \in ParamNums /\ e.data \in Seq(Byte) /\ Len(e.data) \in Byte
    BY RequestsAssumption DEF Entries, Functions
  <2>2. "master" \in Nodes
    BY DEF Nodes
  <2>3. PushParamData(queue["master"], e.func, e.param, e.data) \in Queues
    BY <1>0, <2>1, <2>2, PushParamDataType DEF TypeOK
  <2>4. queue' \in [Nodes -> Queues]
    <3>1. queue' = [queue EXCEPT !["master"] = PushParamData(queue["master"], e.func, e.param, e.data)]
      BY <1>7 DEF Ask
    <3>2. queue \in [Nodes -> Queues]
      BY <1>0 DEF TypeOK
    <3> QED
      BY <2>3, <3>1, <3>2
  <2>5. said' \in [Nodes -> Seq(Entries)]
    <3>1. Append(said["master"], e) \in Seq(Entries)
      BY <1>4, <2>1, <2>2
    <3> QED
      BY <1>0, <1>7, <3>1 DEF Ask, TypeOK
  <2>6. UNCHANGED <<vals, parser, at, from, rounds, asked>>
    BY <1>7 DEF Ask
  <2> QED
    BY <2>4, <2>5, <2>6 DEF BgcpInv, TypeOK, InRange
<1>8. ASSUME NEW packet \in Noise, SendNoise(packet) PROVE BgcpInv'
  <2>1. packet \in Seq(Byte) /\ "device" \in Nodes /\ asked' \in Seq(Entries)
    BY <1>8, NoiseAssumption DEF Nodes, SendNoise
  <2> QED
    BY <1>8, <2>1, BeginParseInv DEF SendNoise
<1>9. ASSUME SendRequest PROVE BgcpInv'
  <2>1. "device" \in Nodes /\ "master" \in Nodes
    BY DEF Nodes
  <2>2. queue["master"].buf \in Seq(Byte) /\ asked' \in Seq(Entries)
    BY <1>4, <1>9, <2>1 DEF SendRequest
  <2> QED
    BY <1>9, <2>1, <2>2, BeginParseInv DEF SendRequest
<1>10. ASSUME Restart PROVE BgcpInv'
  <2>1. queue' \in [Nodes -> Queues] /\ parser' \in Parsers
    BY <1>10, EmptyQueueType, IdleParserType DEF Restart
  <2>2. DOMAIN vals' = Nodes /\ \A n \in Nodes : DOMAIN vals'[n] = Params
    BY <1>10 DEF Restart
  <2>3. said' \in [Nodes -> Seq(Entries)] /\ asked' \in Seq(Entries) /\ rounds' \in Nat
    BY <1>10 DEF Restart
  <2>4. at' = "none" /\ from' = "noise"
    BY <1>10 DEF Restart
  <2>5. InRange'
    BY <1>10, StartAssumption DEF Restart, InRange
  <2> QED
    BY <2>1, <2>2, <2>3, <2>4, <2>5 DEF BgcpInv, TypeOK
<1>11. CASE UNCHANGED vars
  BY <1>11 DEF vars, BgcpInv, TypeOK, InRange
<1> QED
  BY <1>3, <1>5, <1>6, <1>7, <1>8, <1>9, <1>10, <1>11 DEF Next

\* queue_push_req_data never writes past queue_buf, and what the parser takes
\* for a page, a function or a size always has that type.
THEOREM BgcpTypeCorrect == Spec => []TypeOK
<1>1. BgcpInv => TypeOK
  BY DEF BgcpInv
<1> QED
  BY <1>1, InitBgcpInv, NextBgcpInv, PTL DEF Spec

\* No packet, whoever made it, moves a bound parameter out of the limits that
\* bind_*_param gave it: the update functions clamp, wrap or ignore.
THEOREM InRangeHolds == Spec => []InRange
<1>1. BgcpInv => InRange
  BY DEF BgcpInv
<1> QED
  BY <1>1, InitBgcpInv, NextBgcpInv, PTL DEF Spec

----
(***************************************************************************)
(* What the parser hears is what the writer said.                          *)
(*                                                                         *)
(* The buffer of a node is described by the places where its entries end:  *)
(* off[i] for the i-th, up to the last one that found room.  What an entry *)
(* puts before its data, its lead, depends only on the entry before it.    *)
(***************************************************************************)
Commands == {BGCP_CMD_PAGE, BGCP_CMD_FUNC, BGCP_CMD_SIZE, BGCP_CMD_NOT_SUP}
Page(num) == num \div Base
Low(num) == num % Base

\* The answer for a parameter that is not supported.
Refusal(e) == e.func = BGCP_FUNC_RESP /\ e.data = <<>>

\* An entry whose function says whether it has data, and whose parameter is
\* not called like a command.
Plain(e) ==
    /\ e \in Entries /\ Len(e.data) \in Byte
    /\ Refusal(e) \/ (Low(e.param) \notin Commands /\ (e.data # <<>> <=> TakesData(e.func)))

\* The parts of a lead for a parser that is at function f and page g and
\* expects z bytes of data.
PartFunc(f, e) == IF f = e.func THEN <<>> ELSE <<BGCP_CMD_FUNC, e.func>>
PartPage(g, e) == IF g = Page(e.param) THEN <<>> ELSE <<BGCP_CMD_PAGE, Page(e.param)>>
PartSize(z, e) ==
    IF Len(e.data) <= 1 \/ z = Len(e.data) THEN <<>> ELSE <<BGCP_CMD_SIZE, Len(e.data)>>
PartParam(e) ==
    IF Refusal(e) THEN <<BGCP_CMD_NOT_SUP, Low(e.param)>> ELSE <<Low(e.param)>>

LeadSize(z, e) == PartSize(z, e) \o PartParam(e)
LeadPage(g, z, e) == PartPage(g, e) \o LeadSize(z, e)
Lead(f, g, z, e) == PartFunc(f, e) \o LeadPage(g, z, e)

FuncBefore(s, i) == IF i = 1 THEN s[1].func ELSE s[i - 1].func
PageBefore(s, i) == IF i = 1 THEN 0 ELSE Page(s[i - 1].param)
LeadOf(s, i) == Lead(FuncBefore(s, i), PageBefore(s, i), 0, s[i])

\* w stands in b behind place k, as far as b goes.
Shows(b, k, w) == \A i \in 1..Len(w) : k + i <= Len(b) => b[k + i] = w[i]

\* The i-th entry is in b with all its data.
Placed(b, s, off, i) ==
    /\ off[i] = off[i - 1] + Len(LeadOf(s, i)) + Len(s[i].data)
    /\ off[i] <= Len(b)
    /\ Shows(b, off[i - 1], LeadOf(s, i))
    /\ Shows(b, off[i - 1] + Len(LeadOf(s, i)), s[i].data)

\* The i-th entry did not find room, and nothing behind it will be taken for
\* its data: its lead is cut at the end of the buffer, or more data are
\* announced than the buffer will ever hold.
Cut(b, s, off, i) ==
    /\ Shows(b, off[i - 1], LeadOf(s, i))
    /\ QUEUE_BUF_SIZE <= off[i - 1] + Len(LeadOf(s, i)) + Len(s[i].data)
    /\ Len(b) < off[i - 1] + Len(LeadOf(s, i)) => Len(b) = QUEUE_BUF_SIZE - 1

Laid(b, s, m, off) ==
    /\ off[0] = 1
    /\ b # <<>> => b[1] = s[1].func
    /\ \A i \in 1..m : Placed(b, s, off, i)
    /\ m = Len(s) => off[m] = Len(b)
    /\ m < Len(s) => Cut(b, s, off, m + 1)

Written(q, s) ==
    /\ \A i \in 1..Len(s) : Plain(s[i])
    /\ Len(q.buf) < QUEUE_BUF_SIZE
    /\ s = <<>> => q = EmptyQueue
    /\ s # <<>> =>
         /\ q.func = s[Len(s)].func /\ q.page = Page(s[Len(s)].param)
         /\ \E m \in 0..Len(s) : \E off \in [0..m -> Nat] : Laid(q.buf, s, m, off)

WriterInv == \A n \in Nodes : Written(queue[n], said[n])

LEMMA LeadType ==
    ASSUME NEW e \in Entries, Len(e.data) \in Byte, NEW f, NEW g, NEW z
    PROVE  /\ PartFunc(f, e) \in Seq(Byte) /\ PartPage(g, e) \in Seq(Byte)
           /\ PartSize(z, e) \in Seq(Byte) /\ PartParam(e) \in Seq(Byte)
           /\ LeadSize(z, e) \in Seq(Byte) /\ LeadPage(g, z, e) \in Seq(Byte)
           /\ Lead(f, g, z, e) \in Seq(Byte)
           /\ Len(PartParam(e)) >= 1 /\ Len(Lead(f, g, z, e)) \in Nat
           /\ Len(Lead(f, g, z, e)) >= 1
<1>1. e.func \in 0..6 /\ e.param \in ParamNums /\ e.data \in Seq(Byte)
  BY DEF Entries, Functions
<1>2. Low(e.param) \in Byte /\ Page(e.param) \in Byte /\ e.func \in Byte
  BY <1>1, Halves, Bytes DEF Low, Page
<1>3. PartFunc(f, e) \in Seq(Byte)
  BY <1>2, Bytes DEF PartFunc
<1>4. PartPage(g, e) \in Seq(Byte)
  BY <1>2, Bytes DEF PartPage
<1>5. PartSize(z, e) \in Seq(Byte)
  BY Bytes DEF PartSize
<1>6. PartParam(e) \in Seq(Byte) /\ Len(PartParam(e)) >= 1
  BY <1>2, Bytes DEF PartParam
<1>7. LeadSize(z, e) \in Seq(Byte) /\ Len(LeadSize(z, e)) >= 1
  BY <1>5, <1>6 DEF LeadSize
<1>8. LeadPage(g, z, e) \in Seq(Byte) /\ Len(LeadPage(g, z, e)) >= 1
  BY <1>4, <1>7 DEF LeadPage
<1>9. Lead(f, g, z, e) \in Seq(Byte) /\ Len(Lead(f, g, z, e)) >= 1
  BY <1>3, <1>8 DEF Lead
<1> QED
  BY <1>3, <1>4, <1>5, <1>6, <1>7, <1>8, <1>9

\* c is b with w behind it, as far as there was room.
Grown(b, w, c) ==
    /\ b \in Seq(Byte) /\ c \in Seq(Byte) /\ w \in Seq(Byte)
    /\ Len(b) <= Len(c) /\ Len(c) <= Len(b) + Len(w)
    /\ Len(c) < QUEUE_BUF_SIZE
    /\ \A i \in 1..Len(b) : c[i] = b[i]
    /\ Shows(c, Len(b), w)
    /\ Len(c) < Len(b) + Len(w) => Len(c) = QUEUE_BUF_SIZE - 1

LEMMA GrownNothing ==
    ASSUME NEW b \in Seq(Byte), Len(b) < QUEUE_BUF_SIZE
    PROVE  Grown(b, <<>>, b)
  BY DEF Grown, Shows

LEMMA GrownTrans ==
    ASSUME NEW b, NEW u, NEW c, NEW w, NEW d, Grown(b, u, c), Grown(c, w, d)
    PROVE  Grown(b, u \o w, d)
<1>1. /\ b \in Seq(Byte) /\ c \in Seq(Byte) /\ d \in Seq(Byte)
      /\ u \in Seq(Byte) /\ w \in Seq(Byte)
      /\ Len(b) \in Nat /\ Len(c) \in Nat /\ Len(d) \in Nat
      /\ Len(u) \in Nat /\ Len(w) \in Nat
      /\ Len(b) <= Len(c) /\ Len(c) <= Len(b) + Len(u)
      /\ Len(c) <= Len(d) /\ Len(d) <= Len(c) + Len(w)
      /\ Len(d) < QUEUE_BUF_SIZE
      /\ Len(c) < Len(b) + Len(u) => Len(c) = QUEUE_BUF_SIZE - 1
      /\ Len(d) < Len(c) + Len(w) => Len(d) = QUEUE_BUF_SIZE - 1
      /\ QUEUE_BUF_SIZE \in Nat
  BY QueueAssumption DEF Grown
<1>2. /\ u \o w \in Seq(Byte) /\ Len(u \o w) = Len(u) + Len(w)
      /\ \A i \in 1..Len(u) + Len(w) :
           (u \o w)[i] = IF i <= Len(u) THEN u[i] ELSE w[i - Len(u)]
  BY <1>1
<1>3. \A i \in 1..Len(b) : d[i] = b[i]
  BY <1>1 DEF Grown
<1>4. Shows(d, Len(b), u \o w)
  <2> SUFFICES ASSUME NEW i \in 1..Len(u) + Len(w), Len(b) + i <= Len(d)
               PROVE  d[Len(b) + i] = (u \o w)[i]
    BY <1>2 DEF Shows
  <2>1. CASE i <= Len(u)
    <3>1. Len(b) + i <= Len(c)
      BY <1>1, <2>1
    <3>2. d[Len(b) + i] = c[Len(b) + i]
      BY <1>1, <3>1 DEF Grown
    <3>3. c[Len(b) + i] = u[i]
      BY <1>1, <2>1, <3>1 DEF Grown, Shows
    <3> QED
      BY <1>2, <2>1, <3>2, <3>3
  <2>2. CASE ~(i <= Len(u))
    <3>1. Len(c) = Len(b) + Len(u)
      BY <1>1, <2>2
    <3>2. /\ i - Len(u) \in 1..Len(w)
          /\ Len(c) + (i - Len(u)) = Len(b) + i
      BY <1>1, <2>2, <3>1
    <3>3. d[Len(c) + (i - Len(u))] = w[i - Len(u)]
      BY <1>1, <3>2 DEF Grown, Shows
    <3> QED
      BY <1>2, <2>2, <3>2, <3>3
  <2> QED
    BY <2>1, <2>2
<1> QED
  BY <1>1, <1>2, <1>3, <1>4 DEF Grown

\* A byte is pushed, or the buffer is full.
LEMMA PushByte ==
    ASSUME NEW q \in Queues, Len(q.buf) < QUEUE_BUF_SIZE, NEW x \in Byte
    PROVE  /\ Push(q, <<x>>) \in Queues /\ Grown(q.buf, <<x>>, Push(q, <<x>>).buf)
           /\ Len(Push(q, <<x>>).buf) < QUEUE_BUF_SIZE
           /\ Push(q, <<x>>).func = q.func /\ Push(q, <<x>>).page = q.page
<1>1. q.buf \in Seq(Byte) /\ Len(q.buf) \in Nat /\ QUEUE_BUF_SIZE \in Nat
  BY QueueParts, QueueAssumption
<1>2. <<x>> \in Seq(Byte) /\ Len(<<x>>) = 1
  OBVIOUS
<1>3. CASE QUEUE_BUF_SIZE > Len(q.buf) + 1
  <2>1. Push(q, <<x>>) = Queue(q.func, q.page, q.buf \o <<x>>)
    BY <1>2, <1>3 DEF Push
  <2>2. /\ Push(q, <<x>>).buf = q.buf \o <<x>>
        /\ Push(q, <<x>>).func = q.func /\ Push(q, <<x>>).page = q.page
    BY <2>1 DEF Queue
  <2>3. Grown(q.buf, <<x>>, q.buf \o <<x>>)
    BY <1>1, <1>2, <1>3 DEF Grown, Shows
  <2>4. Len(q.buf \o <<x>>) < QUEUE_BUF_SIZE
    BY <1>1, <1>2, <1>3
  <2> QED
    BY <1>2, <2>2, <2>3, <2>4, PushType
<1>4. CASE ~(QUEUE_BUF_SIZE > Len(q.buf) + 1)
  <2>1. Push(q, <<x>>) = q
    BY <1>2, <1>4 DEF Push
  <2>2. Grown(q.buf, <<x>>, q.buf)
    BY <1>1, <1>2, <1>4 DEF Grown, Shows
  <2> QED
    BY <2>1, <2>2
<1> QED
  BY <1>3, <1>4

LEMMA PushTwo ==
    ASSUME NEW q \in Queues, Len(q.buf) < QUEUE_BUF_SIZE, NEW x \in Byte, NEW y \in Byte
    PROVE  LET r == Push(Push(q, <<x>>), <<y>>)
           IN  /\ r \in Queues /\ Grown(q.buf, <<x, y>>, r.buf)
               /\ Len(r.buf) < QUEUE_BUF_SIZE
               /\ r.func = q.func /\ r.page = q.page
<1>1. PICK p : p = Push(q, <<x>>)
  OBVIOUS
<1>2. /\ p \in Queues /\ Grown(q.buf, <<x>>, p.buf) /\ Len(p.buf) < QUEUE_BUF_SIZE
      /\ p.func = q.func /\ p.page = q.page
  BY <1>1, PushByte
<1>3. PICK r : r = Push(p, <<y>>)
  OBVIOUS
<1>4. /\ r \in Queues /\ Grown(p.buf, <<y>>, r.buf) /\ Len(r.buf) < QUEUE_BUF_SIZE
      /\ r.func = p.func /\ r.page = p.page
  BY <1>2, <1>3, PushByte
<1>5. Grown(q.buf, <<x>> \o <<y>>, r.buf)
  BY <1>2, <1>4, GrownTrans
<1>6. Grown(q.buf, <<x, y>>, r.buf)
  <2>1. /\ Len(<<x>> \o <<y>>) = 2 /\ Len(<<x, y>>) = 2 /\ <<x, y>> \in Seq(Byte)
        /\ \A i \in 1..2 : (<<x>> \o <<y>>)[i] = <<x, y>>[i]
    OBVIOUS
  <2> QED
    BY <1>5, <2>1 DEF Grown, Shows
<1> QED
  BY <1>1, <1>2, <1>3, <1>4, <1>5, <1>6

LEMMA PushFuncGrows ==
    ASSUME NEW q \in Queues, Len(q.buf) < QUEUE_BUF_SIZE, q.buf # <<>> \/ QUEUE_BUF_SIZE = 1,
           NEW e \in Entries
    PROVE  LET r == PushFunc(q, e.func)
           IN  /\ r \in Queues /\ Grown(q.buf, PartFunc(q.func, e), r.buf)
               /\ Len(r.buf) < QUEUE_BUF_SIZE
               /\ r.func = e.func /\ r.page = q.page
<1>1. e.func \in 0..6 /\ e.func \in Byte /\ q.buf \in Seq(Byte) /\ Len(q.buf) \in Nat
  BY Bytes, QueueParts DEF Entries, Functions
<1>2. PushFunc(q, e.func) \in Queues
  BY <1>1, PushFuncType
<1>3. CASE e.func = q.func
  BY <1>1, <1>2, <1>3, GrownNothing DEF PushFunc, PartFunc
<1>4. CASE e.func # q.func /\ Len(q.buf) # 0
  <2>1. PICK p : p = Push(Push(q, <<BGCP_CMD_FUNC>>), <<e.func>>)
    OBVIOUS
  <2>2. /\ p \in Queues /\ Grown(q.buf, <<BGCP_CMD_FUNC, e.func>>, p.buf)
        /\ Len(p.buf) < QUEUE_BUF_SIZE
    BY <1>1, <2>1, Bytes, PushTwo
  <2>3. PushFunc(q, e.func) = Queue(e.func, q.page, p.buf)
    BY <1>4, <2>1 DEF PushFunc
  <2>4. PartFunc(q.func, e) = <<BGCP_CMD_FUNC, e.func>>
    BY <1>4 DEF PartFunc
  <2> QED
    BY <1>2, <2>2, <2>3, <2>4 DEF Queue
<1>5. CASE e.func # q.func /\ Len(q.buf) = 0
  <2>1. QUEUE_BUF_SIZE = 1
    BY <1>1, <1>5
  <2>2. PICK p : p = Push(q, <<e.func>>)
    OBVIOUS
  <2>3. p \in Queues /\ Len(p.buf) < QUEUE_BUF_SIZE /\ p.buf \in Seq(Byte) /\ Len(p.buf) = 0
    BY <1>1, <2>1, <2>2, PushByte, QueueParts
  <2>4. PushFunc(q, e.func) = Queue(e.func, q.page, p.buf)
    BY <1>5, <2>2 DEF PushFunc
  <2>5. /\ <<BGCP_CMD_FUNC, e.func>> \in Seq(Byte)
        /\ Len(<<BGCP_CMD_FUNC, e.func>>) = 2
    BY <1>1, Bytes
  <2>6. Grown(q.buf, <<BGCP_CMD_FUNC, e.func>>, p.buf)
    BY <1>1, <1>5, <2>1, <2>3, <2>5 DEF Grown, Shows
  <2>7. PartFunc(q.func, e) = <<BGCP_CMD_FUNC, e.func>>
    BY <1>5 DEF PartFunc
  <2> QED
    BY <1>2, <2>3, <2>4, <2>6, <2>7 DEF Queue
<1> QED
  BY <1>3, <1>4, <1>5

LEMMA PushPageGrows ==
    ASSUME NEW q \in Queues, Len(q.buf) < QUEUE_BUF_SIZE, NEW e \in Entries
    PROVE  LET r == PushPage(q, e.param)
           IN  /\ r \in Queues /\ Grown(q.buf, PartPage(q.page, e), r.buf)
               /\ Len(r.buf) < QUEUE_BUF_SIZE
               /\ r.func = q.func /\ r.page = Page(e.param)
<1>1. e.param \in ParamNums /\ q.buf \in Seq(Byte)
  BY QueueParts DEF Entries
<1>2. PushPage(q, e.param) \in Queues /\ Page(e.param) \in Byte
  BY <1>1, PushPageType, Halves DEF Page
<1>3. CASE Page(e.param) = q.page
  BY <1>1, <1>2, <1>3, GrownNothing DEF PushPage, PartPage, Page
<1>4. CASE Page(e.param) # q.page
  <2>1. PICK p : p = Push(Push(q, <<BGCP_CMD_PAGE>>), <<Page(e.param)>>)
    OBVIOUS
  <2>2. /\ p \in Queues /\ Grown(q.buf, <<BGCP_CMD_PAGE, Page(e.param)>>, p.buf)
        /\ Len(p.buf) < QUEUE_BUF_SIZE
    BY <1>2, <2>1, Bytes, PushTwo
  <2>3. PushPage(q, e.param) = Queue(q.func, Page(e.param), p.buf)
    BY <1>4, <2>1 DEF PushPage, Page
  <2>4. PartPage(q.page, e) = <<BGCP_CMD_PAGE, Page(e.param)>>
    BY <1>4 DEF PartPage
  <2> QED
    BY <1>2, <2>2, <2>3, <2>4 DEF Queue
<1> QED
  BY <1>3, <1>4

LEMMA PushSizeGrows ==
    ASSUME NEW q \in Queues, Len(q.buf) < QUEUE_BUF_SIZE,
           NEW e \in Entries, Len(e.data) \in Byte
    PROVE  LET r == PushSize(q, Len(e.data))
           IN  /\ r \in Queues /\ Grown(q.buf, PartSize(0, e), r.buf)
               /\ Len(r.buf) < QUEUE_BUF_SIZE
               /\ r.func = q.func /\ r.page = q.page
<1>1. q.buf \in Seq(Byte) /\ Len(e.data) \in Nat
  BY QueueParts, BaseAssumption DEF Entries, Byte
<1>2. CASE Len(e.data) > 1
  <2>1. PICK p : p = Push(Push(q, <<BGCP_CMD_SIZE>>), <<Len(e.data)>>)
    OBVIOUS
  <2>2. /\ p \in Queues /\ Grown(q.buf, <<BGCP_CMD_SIZE, Len(e.data)>>, p.buf)
        /\ Len(p.buf) < QUEUE_BUF_SIZE /\ p.func = q.func /\ p.page = q.page
    BY <2>1, Bytes, PushTwo
  <2>3. PushSize(q, Len(e.data)) = p
    BY <1>2, <2>1 DEF PushSize
  <2>4. PartSize(0, e) = <<BGCP_CMD_SIZE, Len(e.data)>>
    BY <1>1, <1>2 DEF PartSize
  <2> QED
    BY <2>2, <2>3, <2>4
<1>3. CASE ~(Len(e.data) > 1)
  BY <1>1, <1>3, GrownNothing DEF PushSize, PartSize
<1> QED
  BY <1>2, <1>3

\* The lead of an entry is written as far as there is room.
LEMMA LeadGrows ==
    ASSUME NEW q \in Queues, Len(q.buf) < QUEUE_BUF_SIZE, q.buf # <<>> \/ QUEUE_BUF_SIZE = 1,
           NEW e \in Entries, Len(e.data) \in Byte
    PROVE  \E c \in Queues :
             /\ Grown(q.buf, Lead(q.func, q.page, 0, e), c.buf)
             /\ Len(c.buf) < QUEUE_BUF_SIZE
             /\ c.func = e.func /\ c.page = Page(e.param)
             /\ ~Refusal(e) => PushParamData(q, e.func, e.param, e.data) = Push(c, e.data)
             /\ Refusal(e) => PushNoSupParam(q, e.param) = c
<1>0. e.param \in ParamNums /\ Low(e.param) \in Byte
  BY Halves DEF Entries, Low
<1>1. PICK a : a = PushFunc(q, e.func)
  OBVIOUS
<1>2. /\ a \in Queues /\ Grown(q.buf, PartFunc(q.func, e), a.buf)
      /\ Len(a.buf) < QUEUE_BUF_SIZE /\ a.func = e.func /\ a.page = q.page
  BY <1>1, PushFuncGrows
<1>3. PICK p : p = PushPage(a, e.param)
  OBVIOUS
<1>4. /\ p \in Queues /\ Grown(a.buf, PartPage(q.page, e), p.buf)
      /\ Len(p.buf) < QUEUE_BUF_SIZE /\ p.func = e.func /\ p.page = Page(e.param)
  BY <1>2, <1>3, PushPageGrows
<1>5. CASE ~Refusal(e)
  <2>1. PICK s : s = PushSize(p, Len(e.data))
    OBVIOUS
  <2>2. /\ s \in Queues /\ Grown(p.buf, PartSize(0, e), s.buf)
        /\ Len(s.buf) < QUEUE_BUF_SIZE /\ s.func = e.func /\ s.page = Page(e.param)
    BY <1>4, <2>1, PushSizeGrows
  <2>3. PICK c : c = Push(s, <<Low(e.param)>>)
    OBVIOUS
  <2>4. /\ c \in Queues /\ Grown(s.buf, PartParam(e), c.buf)
        /\ Len(c.buf) < QUEUE_BUF_SIZE /\ c.func = e.func /\ c.page = Page(e.param)
    BY <1>0, <1>5, <2>2, <2>3, PushByte DEF PartParam
  <2>5. Grown(q.buf, Lead(q.func, q.page, 0, e), c.buf)
    BY <1>2, <1>4, <2>2, <2>4, GrownTrans DEF Lead, LeadPage, LeadSize
  <2>6. PushParamData(q, e.func, e.param, e.data) = Push(c, e.data)
    BY <1>1, <1>3, <2>1, <2>3 DEF PushParamData, Low
  <2> QED
    BY <1>5, <2>4, <2>5, <2>6
<1>6. CASE Refusal(e)
  <2>1. PartSize(0, e) = <<>>
    BY <1>6 DEF PartSize, Refusal
  <2>2. Grown(p.buf, PartSize(0, e), p.buf)
    BY <1>4, <2>1, QueueParts, GrownNothing
  <2>3. PICK c : c = Push(Push(p, <<BGCP_CMD_NOT_SUP>>), <<Low(e.param)>>)
    OBVIOUS
  <2>4. /\ c \in Queues /\ Grown(p.buf, PartParam(e), c.buf)
        /\ Len(c.buf) < QUEUE_BUF_SIZE /\ c.func = e.func /\ c.page = Page(e.param)
    BY <1>0, <1>4, <1>6, <2>3, Bytes, PushTwo DEF PartParam
  <2>5. Grown(q.buf, Lead(q.func, q.page, 0, e), c.buf)
    BY <1>2, <1>4, <2>2, <2>4, GrownTrans DEF Lead, LeadPage, LeadSize
  <2>6. PushNoSupParam(q, e.param) = c
    BY <1>1, <1>3, <1>6, <2>3 DEF PushNoSupParam, Low, Refusal
  <2> QED
    BY <1>6, <2>4, <2>5, <2>6
<1> QED
  BY <1>5, <1>6

\* d goes on where b ends.
Extends(b, d) == Len(b) <= Len(d) /\ \A i \in 1..Len(b) : d[i] = b[i]

LEMMA LeadKept ==
    ASSUME NEW s \in Seq(Entries), NEW e \in Entries
    PROVE  LET t == Append(s, e)
           IN  /\ t \in Seq(Entries) /\ Len(t) = Len(s) + 1 /\ t[Len(s) + 1] = e
               /\ t # <<>> /\ Len(s) \in Nat
               /\ \A i \in 1..Len(s) : t[i] = s[i] /\ LeadOf(t, i) = LeadOf(s, i)
               /\ s # <<>> => LeadOf(t, Len(s) + 1) = Lead(s[Len(s)].func, Page(s[Len(s)].param), 0, e)
               /\ s = <<>> => LeadOf(t, Len(s) + 1) = Lead(e.func, 0, 0, e)
<1> DEFINE t == Append(s, e)
<1>1. /\ t \in Seq(Entries) /\ Len(t) = Len(s) + 1 /\ t[Len(s) + 1] = e
      /\ Len(s) \in Nat /\ \A i \in 1..Len(s) : t[i] = s[i]
  OBVIOUS
<1>2. s = <<>> <=> Len(s) = 0
  OBVIOUS
<1> HIDE DEF t
<1>3. t # <<>>
  <2>1. Len(<<>>) = 0
    OBVIOUS
  <2> QED
    BY <1>1, <2>1
<1>4. ASSUME NEW i \in 1..Len(s) PROVE LeadOf(t, i) = LeadOf(s, i)
  <2>1. i = 1 \/ (i - 1 \in 1..Len(s) /\ 1 \in 1..Len(s))
    BY <1>1
  <2>2. 1 \in 1..Len(s)
    BY <1>1
  <2>3. t[i] = s[i] /\ t[1] = s[1] /\ (i # 1 => t[i - 1] = s[i - 1])
    BY <1>1, <2>1, <2>2
  <2> QED
    BY <2>3 DEF LeadOf, FuncBefore, PageBefore
<1>5. ASSUME s # <<>>
      PROVE  LeadOf(t, Len(s) + 1) = Lead(s[Len(s)].func, Page(s[Len(s)].param), 0, e)
  <2>1. Len(s) \in 1..Len(s) /\ (Len(s) + 1) - 1 = Len(s) /\ Len(s) + 1 # 1
    BY <1>1, <1>2, <1>5
  <2>2. t[(Len(s) + 1) - 1] = s[Len(s)]
    BY <1>1, <2>1
  <2> QED
    BY <1>1, <2>1, <2>2 DEF LeadOf, FuncBefore, PageBefore
<1>6. ASSUME s = <<>> PROVE LeadOf(t, Len(s) + 1) = Lead(e.func, 0, 0, e)
  <2>1. Len(s) + 1 = 1 /\ t[1] = e
    BY <1>1, <1>2, <1>6
  <2> QED
    BY <2>1 DEF LeadOf, FuncBefore, PageBefore
<1> QED
  BY <1>1, <1>3, <1>4, <1>5, <1>6 DEF t

LEMMA LeadOfType ==
    ASSUME NEW s \in Seq(Entries), NEW i \in 1..Len(s), Len(s[i].data) \in Byte
    PROVE  /\ LeadOf(s, i) \in Seq(Byte) /\ Len(LeadOf(s, i)) \in Nat
           /\ Len(LeadOf(s, i)) >= 1
<1>1. s[i] \in Entries
  OBVIOUS
<1> QED
  BY <1>1, LeadType DEF LeadOf

LEMMA ShowsExtends ==
    ASSUME NEW b \in Seq(Byte), NEW d \in Seq(Byte), Extends(b, d), NEW k \in Nat,
           NEW w \in Seq(Byte), Shows(b, k, w), k + Len(w) <= Len(b)
    PROVE  Shows(d, k, w)
<1> SUFFICES ASSUME NEW i \in 1..Len(w), k + i <= Len(d) PROVE d[k + i] = w[i]
  BY DEF Shows
<1>1. Len(w) \in Nat /\ Len(b) \in Nat
  OBVIOUS
<1>2. k + i <= Len(b) /\ k + i \in 1..Len(b)
  BY <1>1
<1> QED
  BY <1>2 DEF Shows, Extends

\* Entries stay where they are when the buffer and the chain go on.
LEMMA PlacedExtends ==
    ASSUME NEW s \in Seq(Entries), NEW t \in Seq(Entries),
           NEW i \in 1..Len(s), t[i] = s[i], LeadOf(t, i) = LeadOf(s, i),
           Len(s[i].data) \in Byte,
           NEW b \in Seq(Byte), NEW d \in Seq(Byte), Extends(b, d),
           NEW off, off[i] \in Nat, off[i - 1] \in Nat, Placed(b, s, off, i)
    PROVE  Placed(d, t, off, i)
<1>1. s[i].data \in Seq(Byte) /\ Len(s[i].data) \in Nat
  <2>1. s[i] \in Entries
    OBVIOUS
  <2> QED
    BY <2>1 DEF Entries
<1>2. LeadOf(s, i) \in Seq(Byte) /\ Len(LeadOf(s, i)) \in Nat
  BY LeadOfType
<1>3. /\ off[i] = off[i - 1] + Len(LeadOf(s, i)) + Len(s[i].data)
      /\ off[i] <= Len(b) /\ Len(b) <= Len(d)
      /\ Len(b) \in Nat /\ Len(d) \in Nat
  BY DEF Placed, Extends
<1>4. Shows(d, off[i - 1], LeadOf(s, i))
  <2>1. off[i - 1] + Len(LeadOf(s, i)) <= Len(b)
    BY <1>1, <1>2, <1>3
  <2> QED
    BY <1>2, <2>1, ShowsExtends DEF Placed
<1>5. Shows(d, off[i - 1] + Len(LeadOf(s, i)), s[i].data)
  <2>1. /\ off[i - 1] + Len(LeadOf(s, i)) + Len(s[i].data) <= Len(b)
        /\ off[i - 1] + Len(LeadOf(s, i)) \in Nat
    BY <1>1, <1>2, <1>3
  <2> QED
    BY <1>1, <2>1, ShowsExtends DEF Placed
<1>6. off[i] <= Len(d)
  BY <1>3
<1> QED
  BY <1>3, <1>4, <1>5, <1>6 DEF Placed

\* The buffer b of the chain s just before the lead of the entry e is pushed.
Ready(b, s, e, m, off) ==
    /\ off[0] = 1
    /\ b = <<>> => QUEUE_BUF_SIZE = 1
    /\ b # <<>> => b[1] = Append(s, e)[1].func
    /\ \A i \in 1..m : Placed(b, s, off, i)
    /\ m = Len(s) => off[m] = Len(b) \/ (off[m] = 1 /\ QUEUE_BUF_SIZE = 1)
    /\ m < Len(s) => Cut(b, s, off, m + 1)

\* d is c with the data behind it, if they fit.
WithData(c, data, d) ==
    d = IF QUEUE_BUF_SIZE > Len(c) + Len(data) THEN c \o data ELSE c

Sized(s) == \A i \in 1..Len(s) : Len(s[i].data) \in Byte

LEMMA WithDataType ==
    ASSUME NEW c \in Seq(Byte), NEW data \in Seq(Byte), NEW d, WithData(c, data, d),
           Len(c) < QUEUE_BUF_SIZE
    PROVE  /\ d \in Seq(Byte) /\ Len(d) \in Nat /\ Len(c) <= Len(d)
           /\ Len(d) < QUEUE_BUF_SIZE
           /\ \A i \in 1..Len(c) : d[i] = c[i]
           /\ \/ Len(d) = Len(c) /\ (QUEUE_BUF_SIZE <= Len(c) + Len(data) \/ Len(data) = 0)
              \/ /\ Len(d) = Len(c) + Len(data) /\ Len(data) > 0
                 /\ \A i \in 1..Len(data) : d[Len(c) + i] = data[i]
<1>1. Len(c) \in Nat /\ Len(data) \in Nat /\ QUEUE_BUF_SIZE \in Nat
  BY QueueAssumption
<1>2. CASE QUEUE_BUF_SIZE > Len(c) + Len(data)
  <2>1. d = c \o data
    BY <1>2 DEF WithData
  <2>2. /\ c \o data \in Seq(Byte) /\ Len(c \o data) = Len(c) + Len(data)
        /\ \A i \in 1..Len(c) + Len(data) :
             (c \o data)[i] = IF i <= Len(c) THEN c[i] ELSE data[i - Len(c)]
    OBVIOUS
  <2>3. \A i \in 1..Len(c) : d[i] = c[i]
    <3>1. \A i \in 1..Len(c) : i \in 1..Len(c) + Len(data) /\ i <= Len(c)
      BY <1>1
    <3> QED
      BY <2>1, <2>2, <3>1
  <2>4. \A i \in 1..Len(data) : d[Len(c) + i] = data[i]
    <3>1. \A i \in 1..Len(data) :
            /\ Len(c) + i \in 1..Len(c) + Len(data) /\ ~(Len(c) + i <= Len(c))
            /\ (Len(c) + i) - Len(c) = i
      BY <1>1
    <3> QED
      BY <2>1, <2>2, <3>1
  <2> QED
    BY <1>1, <1>2, <2>1, <2>2, <2>3, <2>4
<1>3. CASE ~(QUEUE_BUF_SIZE > Len(c) + Len(data))
  <2>1. d = c
    BY <1>3 DEF WithData
  <2> QED
    BY <1>1, <1>3, <2>1
<1> QED
  BY <1>2, <1>3

\* What becomes of the lead and the data of an entry that is pushed at place k.
LEMMA EntryPushed ==
    ASSUME NEW b \in Seq(Byte), NEW lead \in Seq(Byte), Len(lead) >= 1, NEW data \in Seq(Byte),
           NEW c, Grown(b, lead, c), NEW d, WithData(c, data, d),
           NEW k \in Nat, k = Len(b) \/ (k = 1 /\ QUEUE_BUF_SIZE = 1)
    PROVE  /\ d \in Seq(Byte) /\ Len(d) < QUEUE_BUF_SIZE /\ Extends(b, d)
           /\ Shows(d, k, lead)
           /\ \/ Len(d) = k + Len(lead) + Len(data) /\ Shows(d, k + Len(lead), data)
              \/ /\ QUEUE_BUF_SIZE <= k + Len(lead) + Len(data)
                 /\ Len(d) < k + Len(lead) => Len(d) = QUEUE_BUF_SIZE - 1
<1>1. Len(lead) \in Nat /\ Len(data) \in Nat /\ Len(b) \in Nat /\ QUEUE_BUF_SIZE \in Nat
  BY QueueAssumption
<1>2. /\ c \in Seq(Byte) /\ Len(c) \in Nat
      /\ Len(b) <= Len(c) /\ Len(c) <= Len(b) + Len(lead) /\ Len(c) < QUEUE_BUF_SIZE
      /\ \A i \in 1..Len(b) : c[i] = b[i]
      /\ Shows(c, Len(b), lead)
      /\ Len(c) < Len(b) + Len(lead) => Len(c) = QUEUE_BUF_SIZE - 1
  BY DEF Grown
<1>3. /\ d \in Seq(Byte) /\ Len(d) \in Nat /\ Len(c) <= Len(d) /\ Len(d) < QUEUE_BUF_SIZE
      /\ \A i \in 1..Len(c) : d[i] = c[i]
      /\ \/ Len(d) = Len(c) /\ (QUEUE_BUF_SIZE <= Len(c) + Len(data) \/ Len(data) = 0)
         \/ /\ Len(d) = Len(c) + Len(data) /\ Len(data) > 0
            /\ \A i \in 1..Len(data) : d[Len(c) + i] = data[i]
  BY <1>2, WithDataType
<1>4. Extends(b, d)
  BY <1>1, <1>2, <1>3 DEF Extends
<1>5. k = Len(b) \/ (k = Len(b) + 1 /\ QUEUE_BUF_SIZE = 1 /\ Len(b) = 0 /\ Len(d) = 0)
  BY <1>1, <1>2, <1>3
<1>6. Shows(d, k, lead)
  <2> SUFFICES ASSUME NEW i \in 1..Len(lead), k + i <= Len(d) PROVE d[k + i] = lead[i]
    BY DEF Shows
  <2>1. k = Len(b)
    BY <1>1, <1>5
  <2>2. k + i \in 1..Len(c)
    BY <1>1, <1>2, <1>3, <2>1
  <2> QED
    BY <1>1, <1>2, <1>3, <2>1, <2>2 DEF Shows
<1>7. \/ k = Len(b) /\ Len(c) = Len(b) + Len(lead) /\ Len(d) = Len(c) + Len(data)
      \/ /\ QUEUE_BUF_SIZE <= k + Len(lead) + Len(data)
         /\ Len(d) < k + Len(lead) => Len(d) = QUEUE_BUF_SIZE - 1
  BY <1>1, <1>2, <1>3, <1>5
<1>8. CASE k = Len(b) /\ Len(c) = Len(b) + Len(lead) /\ Len(d) = Len(c) + Len(data)
  <2>1. k + Len(lead) = Len(c)
    BY <1>8
  <2>2. Shows(d, k + Len(lead), data)
    <3> SUFFICES ASSUME NEW i \in 1..Len(data) PROVE d[Len(c) + i] = data[i]
      BY <2>1 DEF Shows
    <3>1. Len(data) > 0 /\ Len(d) # Len(c)
      BY <1>1, <1>2, <1>8
    <3> QED
      BY <1>3, <3>1
  <2> QED
    BY <1>3, <1>4, <1>6, <1>8, <2>1, <2>2
<1> QED
  BY <1>3, <1>4, <1>6, <1>7, <1>8

LEMMA CutExtends ==
    ASSUME NEW s \in Seq(Entries), NEW t \in Seq(Entries),
           NEW i \in 1..Len(s), t[i] = s[i], LeadOf(t, i) = LeadOf(s, i),
           Len(s[i].data) \in Byte,
           NEW b \in Seq(Byte), NEW d \in Seq(Byte), Extends(b, d), Len(d) < QUEUE_BUF_SIZE,
           NEW off, off[i - 1] \in Nat, Cut(b, s, off, i)
    PROVE  Cut(d, t, off, i)
<1>1. LeadOf(s, i) \in Seq(Byte) /\ Len(LeadOf(s, i)) \in Nat
  BY LeadOfType
<1>2. /\ Len(b) \in Nat /\ Len(d) \in Nat /\ Len(b) <= Len(d) /\ QUEUE_BUF_SIZE \in Nat
  BY QueueAssumption DEF Extends
<1>3. PICK lead \in Seq(Byte) : lead = LeadOf(s, i) /\ Len(lead) \in Nat
  BY <1>1
<1>4. PICK k \in Nat : k = off[i - 1]
  OBVIOUS
<1>5. Shows(b, k, lead) /\ (Len(b) < k + Len(lead) => Len(b) = QUEUE_BUF_SIZE - 1)
  BY <1>3, <1>4 DEF Cut
<1>6. Shows(d, k, lead)
  <2>1. CASE k + Len(lead) <= Len(b)
    BY <1>3, <1>5, <2>1, ShowsExtends
  <2>2. CASE ~(k + Len(lead) <= Len(b))
    <3>1. Len(d) = Len(b)
      BY <1>2, <1>3, <1>5, <2>2
    <3> SUFFICES ASSUME NEW j \in 1..Len(lead), k + j <= Len(d) PROVE d[k + j] = lead[j]
      BY DEF Shows
    <3>2. k + j \in 1..Len(b) /\ k + j <= Len(b)
      BY <1>2, <1>3, <3>1
    <3> QED
      BY <1>5, <3>2 DEF Shows, Extends
  <2> QED
    BY <2>1, <2>2
<1>7. Len(d) < k + Len(lead) => Len(d) = QUEUE_BUF_SIZE - 1
  BY <1>2, <1>3, <1>5
<1>8. QUEUE_BUF_SIZE <= off[i - 1] + Len(LeadOf(s, i)) + Len(s[i].data)
  BY DEF Cut
<1>9. lead = LeadOf(t, i) /\ Len(t[i].data) = Len(s[i].data)
  BY <1>3
<1> QED
  BY <1>3, <1>4, <1>6, <1>7, <1>8, <1>9 DEF Cut

\* What is in the buffer of a chain stays when the buffer goes on.
LEMMA ReadyExtends ==
    ASSUME NEW s \in Seq(Entries), Sized(s), NEW e \in Entries,
           NEW b \in Seq(Byte), NEW m \in 0..Len(s), NEW off \in [0..m -> Nat],
           Ready(b, s, e, m, off),
           NEW d \in Seq(Byte), Extends(b, d), Len(d) < QUEUE_BUF_SIZE
    PROVE  /\ \A i \in 1..m : Placed(d, Append(s, e), off, i)
           /\ b # <<>> => d[1] = Append(s, e)[1].func
           /\ m < Len(s) => Cut(d, Append(s, e), off, m + 1)
<1> DEFINE t == Append(s, e)
<1>1. /\ t \in Seq(Entries) /\ Len(s) \in Nat
      /\ \A i \in 1..Len(s) : t[i] = s[i] /\ LeadOf(t, i) = LeadOf(s, i)
  BY LeadKept
<1> HIDE DEF t
<1>2. /\ m \in Nat /\ m <= Len(s) /\ \A i \in 0..m : off[i] \in Nat
  BY <1>1
<1>3. ASSUME NEW i \in 1..m PROVE Placed(d, t, off, i)
  <2>1. i \in 1..Len(s) /\ i \in 0..m /\ i - 1 \in 0..m
    BY <1>2
  <2>2. Placed(b, s, off, i) /\ Len(s[i].data) \in Byte
    BY <2>1 DEF Ready, Sized
  <2>3. t[i] = s[i] /\ LeadOf(t, i) = LeadOf(s, i)
    BY <1>1, <2>1
  <2>4. off[i] \in Nat /\ off[i - 1] \in Nat
    BY <1>2, <2>1
  <2> QED
    BY <1>1, <2>1, <2>2, <2>3, <2>4, PlacedExtends
<1>4. ASSUME b # <<>> PROVE d[1] = t[1].func
  <2>1. 1 \in 1..Len(b)
    BY <1>4
  <2> QED
    BY <1>4, <2>1 DEF Extends, t, Ready
<1>5. ASSUME m < Len(s) PROVE Cut(d, t, off, m + 1)
  <2>1. m + 1 \in 1..Len(s) /\ (m + 1) - 1 = m /\ m \in 0..m
    BY <1>2, <1>5
  <2>2. off[(m + 1) - 1] \in Nat /\ Len(s[m + 1].data) \in Byte
    BY <1>2, <2>1 DEF Sized
  <2>3. Cut(b, s, off, m + 1)
    BY <1>5 DEF Ready
  <2>4. t[m + 1] = s[m + 1] /\ LeadOf(t, m + 1) = LeadOf(s, m + 1)
    BY <1>1, <2>1
  <2> QED
    BY <1>1, <2>1, <2>2, <2>3, <2>4, CutExtends
<1> QED
  BY <1>3, <1>4, <1>5 DEF t

\* One more entry: behind the last one if there is room for it, cut if not.
LEMMA LaidStep ==
    ASSUME NEW s \in Seq(Entries), Sized(s), NEW e \in Entries, Len(e.data) \in Byte,
           NEW b \in Seq(Byte), Len(b) < QUEUE_BUF_SIZE,
           NEW m \in 0..Len(s), NEW off \in [0..m -> Nat], Ready(b, s, e, m, off),
           NEW c, Grown(b, LeadOf(Append(s, e), Len(s) + 1), c),
           NEW d, WithData(c, e.data, d)
    PROVE  /\ d \in Seq(Byte) /\ Len(d) < QUEUE_BUF_SIZE
           /\ \E n \in 0..Len(s) + 1 : \E off2 \in [0..n -> Nat] :
                Laid(d, Append(s, e), n, off2)
<1>1. PICK t : t = Append(s, e)
  OBVIOUS
<1>2. PICK z : z = Len(s)
  OBVIOUS
<1>3. t \in Seq(Entries) /\ Len(t) = z + 1 /\ t[z + 1] = e /\ z \in Nat
  BY <1>1, <1>2, LeadKept
<1>4. PICK lead : lead = LeadOf(t, z + 1)
  OBVIOUS
<1>5. lead \in Seq(Byte) /\ Len(lead) \in Nat /\ Len(lead) >= 1
  <2>1. z + 1 \in 1..Len(t) /\ Len(t[z + 1].data) \in Byte
    BY <1>3
  <2> QED
    BY <1>3, <1>4, <2>1, LeadOfType
<1>6. PICK data : data = e.data
  OBVIOUS
<1>7. data \in Seq(Byte) /\ Len(data) \in Nat /\ QUEUE_BUF_SIZE \in Nat
  BY <1>6, QueueAssumption DEF Entries
<1>8. Grown(b, lead, c) /\ WithData(c, data, d)
  BY <1>1, <1>2, <1>4, <1>6
<1>9. /\ m \in Nat /\ m <= z /\ off[m] \in Nat /\ m \in 0..z + 1
      /\ \A i \in 0..m : off[i] \in Nat
  BY <1>2, <1>3
<1>10. off[0] = 1 /\ (b = <<>> => QUEUE_BUF_SIZE = 1)
       /\ (m = z => off[m] = Len(b) \/ (off[m] = 1 /\ QUEUE_BUF_SIZE = 1))
  BY <1>2 DEF Ready
<1>11. d \in Seq(Byte) /\ Len(d) < QUEUE_BUF_SIZE /\ Extends(b, d)
  <2>1. Len(b) \in Nat /\ Len(b) = Len(b)
    OBVIOUS
  <2> QED
    BY <1>5, <1>7, <1>8, <2>1, EntryPushed
<1>12. /\ \A i \in 1..m : Placed(d, t, off, i)
       /\ b # <<>> => d[1] = t[1].func
       /\ m < z => Cut(d, t, off, m + 1)
  BY <1>1, <1>2, <1>11, ReadyExtends
<1>13. d # <<>> => d[1] = t[1].func
  <2>1. b = <<>> => d = <<>>
    BY <1>7, <1>10, <1>11
  <2> QED
    BY <1>12, <2>1
<1>14. CASE m < z
  <2>1. Cut(d, t, off, m + 1) /\ m # Len(t)
    BY <1>3, <1>9, <1>12, <1>14
  <2>2. Laid(d, t, m, off)
    BY <1>10, <1>12, <1>13, <2>1 DEF Laid
  <2> QED
    BY <1>1, <1>2, <1>9, <1>11, <2>2
<1>15. CASE m = z
  <2>1. /\ Shows(d, off[m], lead)
        /\ \/ /\ Len(d) = off[m] + Len(lead) + Len(data)
              /\ Shows(d, off[m] + Len(lead), data)
           \/ /\ QUEUE_BUF_SIZE <= off[m] + Len(lead) + Len(data)
              /\ Len(d) < off[m] + Len(lead) => Len(d) = QUEUE_BUF_SIZE - 1
    BY <1>5, <1>7, <1>8, <1>9, <1>10, <1>15, EntryPushed
  <2>2. lead = LeadOf(t, m + 1) /\ data = t[m + 1].data /\ (m + 1) - 1 = m
    BY <1>3, <1>4, <1>6, <1>9, <1>15
  <2>3. CASE /\ Len(d) = off[m] + Len(lead) + Len(data)
             /\ Shows(d, off[m] + Len(lead), data)
    <3>1. PICK off2 : off2 = [i \in 0..m + 1 |-> IF i <= m THEN off[i] ELSE Len(d)]
      OBVIOUS
    <3>2. /\ off2 \in [0..m + 1 -> Nat] /\ off2[m + 1] = Len(d)
          /\ \A i \in 0..m : off2[i] = off[i]
      BY <1>9, <1>11, <3>1
    <3>3. off2[m] = off[m] /\ off2[0] = 1
      BY <1>9, <1>10, <3>2
    <3>4. Placed(d, t, off2, m + 1)
      <4>1. Len(d) <= Len(d)
        BY <1>11
      <4> QED
        BY <2>1, <2>2, <2>3, <3>2, <3>3, <4>1 DEF Placed
    <3>5. ASSUME NEW i \in 1..m PROVE Placed(d, t, off2, i)
      <4>1. i \in 0..m /\ i - 1 \in 0..m
        BY <1>9
      <4>2. off2[i] = off[i] /\ off2[i - 1] = off[i - 1]
        BY <3>2, <4>1
      <4> QED
        BY <1>12, <4>2 DEF Placed
    <3>6. \A i \in 1..m + 1 : i \in 1..m \/ i = m + 1
      BY <1>9
    <3>7. m + 1 = Len(t) /\ ~(m + 1 < Len(t)) /\ m + 1 \in 0..z + 1
      BY <1>3, <1>9, <1>15
    <3>8. Laid(d, t, m + 1, off2)
      BY <1>13, <3>2, <3>3, <3>4, <3>5, <3>6, <3>7 DEF Laid
    <3> QED
      BY <1>1, <1>2, <1>11, <3>2, <3>7, <3>8
  <2>4. CASE /\ QUEUE_BUF_SIZE <= off[m] + Len(lead) + Len(data)
             /\ Len(d) < off[m] + Len(lead) => Len(d) = QUEUE_BUF_SIZE - 1
    <3>1. Cut(d, t, off, m + 1) /\ m # Len(t)
      BY <1>3, <1>15, <2>1, <2>2, <2>4 DEF Cut
    <3>2. Laid(d, t, m, off)
      BY <1>10, <1>12, <1>13, <3>1 DEF Laid
    <3> QED
      BY <1>1, <1>2, <1>9, <1>11, <3>2
  <2> QED
    BY <2>1, <2>3, <2>4
<1> QED
  <2>1. m < z \/ m = z
    BY <1>3, <1>9
  <2> QED
    BY <1>14, <1>15, <2>1

\* A chain leaves the buffer empty only if nothing fits at all.
LEMMA LaidNotEmpty ==
    ASSUME NEW s \in Seq(Entries), Sized(s), NEW b \in Seq(Byte), b = <<>>,
           NEW m \in 0..Len(s), NEW off \in [0..m -> Nat], Laid(b, s, m, off)
    PROVE  QUEUE_BUF_SIZE = 1
<1>1. Len(b) = 0 /\ Len(s) \in Nat /\ QUEUE_BUF_SIZE \in Nat
  BY QueueAssumption
<1>2. /\ m \in Nat /\ m <= Len(s) /\ \A i \in 0..m : off[i] \in Nat
  BY <1>1
<1>3. CASE m < Len(s)
  <2>1. m + 1 \in 1..Len(s) /\ (m + 1) - 1 = m /\ off[m] \in Nat
    BY <1>2, <1>3
  <2>2. Len(LeadOf(s, m + 1)) \in Nat /\ Len(LeadOf(s, m + 1)) >= 1
    BY <2>1, LeadOfType DEF Sized
  <2>3. Cut(b, s, off, m + 1)
    BY <1>3 DEF Laid
  <2> QED
    BY <1>1, <2>1, <2>2, <2>3 DEF Cut
<1>4. CASE m = Len(s) /\ m = 0
  BY <1>1, <1>4 DEF Laid
<1>5. CASE m = Len(s) /\ m # 0
  <2>1. m \in 1..m /\ m - 1 \in 0..m /\ m \in 1..Len(s)
    BY <1>2, <1>5
  <2>2. s[m] \in Entries /\ Len(s[m].data) \in Byte
    BY <2>1 DEF Sized
  <2>3. off[m - 1] \in Nat /\ Len(s[m].data) \in Nat
    BY <1>2, <2>1, <2>2 DEF Entries
  <2>4. Len(LeadOf(s, m)) \in Nat /\ Len(LeadOf(s, m)) >= 1
    BY <2>1, <2>2, LeadOfType
  <2>5. off[m] = off[m - 1] + Len(LeadOf(s, m)) + Len(s[m].data) /\ off[m] <= Len(b)
    BY <2>1 DEF Placed, Laid
  <2> QED
    BY <1>1, <2>3, <2>4, <2>5
<1> QED
  BY <1>2, <1>3, <1>4, <1>5

\* One more entry for a queue whose buffer is ready for it.
LEMMA PushedStep ==
    ASSUME NEW s \in Seq(Entries), Sized(s), NEW e \in Entries, Len(e.data) \in Byte,
           NEW q \in Queues, Len(q.buf) < QUEUE_BUF_SIZE,
           NEW m \in 0..Len(s), NEW off \in [0..m -> Nat], Ready(q.buf, s, e, m, off),
           LeadOf(Append(s, e), Len(s) + 1) = Lead(q.func, q.page, 0, e),
           NEW r,
           ~Refusal(e) => r = PushParamData(q, e.func, e.param, e.data),
           Refusal(e) => r = PushNoSupParam(q, e.param)
    PROVE  /\ Len(r.buf) < QUEUE_BUF_SIZE
           /\ r.func = e.func /\ r.page = Page(e.param)
           /\ \E n \in 0..Len(s) + 1 : \E off2 \in [0..n -> Nat] :
                Laid(r.buf, Append(s, e), n, off2)
<1>1. q.buf \in Seq(Byte) /\ (q.buf # <<>> \/ QUEUE_BUF_SIZE = 1)
  BY QueueParts DEF Ready
<1>2. PICK c \in Queues :
             /\ Grown(q.buf, Lead(q.func, q.page, 0, e), c.buf)
             /\ Len(c.buf) < QUEUE_BUF_SIZE
             /\ c.func = e.func /\ c.page = Page(e.param)
             /\ ~Refusal(e) => PushParamData(q, e.func, e.param, e.data) = Push(c, e.data)
             /\ Refusal(e) => PushNoSupParam(q, e.param) = c
  BY <1>1, LeadGrows
<1>3. c.buf \in Seq(Byte)
  BY QueueParts
<1>4. WithData(c.buf, e.data, r.buf) /\ r.func = c.func /\ r.page = c.page
  <2>1. CASE Refusal(e)
    <3>1. r = c /\ e.data = <<>>
      BY <1>2, <2>1 DEF Refusal
    <3>2. c.buf \o <<>> = c.buf
      BY <1>3
    <3> QED
      BY <3>1, <3>2 DEF WithData
  <2>2. CASE ~Refusal(e)
    <3>1. r = Push(c, e.data)
      BY <1>2, <2>2
    <3> QED
      BY <3>1 DEF Push, Queue, WithData
  <2> QED
    BY <2>1, <2>2
<1>5. Grown(q.buf, LeadOf(Append(s, e), Len(s) + 1), c.buf)
  BY <1>2
<1>6. PICK b, x, d : b = q.buf /\ x = c.buf /\ d = r.buf
  OBVIOUS
<1>7. /\ Len(d) < QUEUE_BUF_SIZE
      /\ \E n \in 0..Len(s) + 1 : \E off2 \in [0..n -> Nat] : Laid(d, Append(s, e), n, off2)
  <2>1. /\ b \in Seq(Byte) /\ Len(b) < QUEUE_BUF_SIZE /\ Ready(b, s, e, m, off)
        /\ Grown(b, LeadOf(Append(s, e), Len(s) + 1), x)
        /\ WithData(x, e.data, d)
    BY <1>1, <1>4, <1>5, <1>6
  <2> QED
    BY <2>1, LaidStep
<1> QED
  BY <1>2, <1>4, <1>6, <1>7

LEMMA WrittenSized ==
    ASSUME NEW q, NEW s \in Seq(Entries), Written(q, s)
    PROVE  Sized(s)
  BY DEF Written, Plain, Sized

\* What PushParamData and PushNoSupParam do to the buffer of a chain.
LEMMA WrittenStep ==
    ASSUME NEW q \in Queues, NEW s \in Seq(Entries), Written(q, s), NEW e, Plain(e), NEW r,
           ~Refusal(e) => r = PushParamData(q, e.func, e.param, e.data),
           Refusal(e) => r = PushNoSupParam(q, e.param)
    PROVE  Written(r, Append(s, e))
<1>0. e \in Entries /\ Len(e.data) \in Byte /\ Sized(s)
  BY WrittenSized DEF Plain
<1>1. PICK t : t = Append(s, e)
  OBVIOUS
<1>2. /\ t \in Seq(Entries) /\ Len(t) = Len(s) + 1 /\ t[Len(s) + 1] = e /\ t # <<>>
      /\ Len(s) \in Nat /\ \A i \in 1..Len(s) : t[i] = s[i]
      /\ s # <<>> => LeadOf(t, Len(s) + 1) = Lead(s[Len(s)].func, Page(s[Len(s)].param), 0, e)
      /\ s = <<>> => LeadOf(t, Len(s) + 1) = Lead(e.func, 0, 0, e)
  BY <1>0, <1>1, LeadKept
<1>3. \A i \in 1..Len(t) : Plain(t[i])
  <2>1. \A i \in 1..Len(t) : i \in 1..Len(s) \/ i = Len(s) + 1
    BY <1>2
  <2> QED
    BY <1>2, <2>1 DEF Written
<1>4. ASSUME NEW p \in Queues, Len(p.buf) < QUEUE_BUF_SIZE,
             NEW m \in 0..Len(s), NEW off \in [0..m -> Nat], Ready(p.buf, s, e, m, off),
             LeadOf(t, Len(s) + 1) = Lead(p.func, p.page, 0, e),
             ~Refusal(e) => r = PushParamData(p, e.func, e.param, e.data),
             Refusal(e) => r = PushNoSupParam(p, e.param)
      PROVE  Written(r, t)
  <2>1. /\ Len(r.buf) < QUEUE_BUF_SIZE
        /\ r.func = e.func /\ r.page = Page(e.param)
        /\ \E n \in 0..Len(s) + 1 : \E off2 \in [0..n -> Nat] :
             Laid(r.buf, Append(s, e), n, off2)
    <3>1. LeadOf(Append(s, e), Len(s) + 1) = Lead(p.func, p.page, 0, e)
      BY <1>1, <1>4
    <3>2. e \in Entries /\ Len(e.data) \in Byte /\ Sized(s)
      BY <1>0
    <3> QED
      BY <1>4, <3>1, <3>2, PushedStep
  <2>2. \E n \in 0..Len(t) : \E off2 \in [0..n -> Nat] : Laid(r.buf, t, n, off2)
    BY <1>1, <1>2, <2>1
  <2> QED
    BY <1>2, <1>3, <2>1, <2>2 DEF Written
<1>5. CASE s # <<>>
  <2>1. PICK m \in 0..Len(s) : \E off \in [0..m -> Nat] : Laid(q.buf, s, m, off)
    BY <1>5 DEF Written
  <2>2. PICK off \in [0..m -> Nat] : Laid(q.buf, s, m, off)
    BY <2>1
  <2>3. q.buf = <<>> => QUEUE_BUF_SIZE = 1
    BY <1>0, <2>2, LaidNotEmpty, QueueParts
  <2>4. t[1] = s[1]
    <3>1. 1 \in 1..Len(s)
      BY <1>2, <1>5
    <3> QED
      BY <1>2, <3>1
  <2>5. Ready(q.buf, s, e, m, off)
    BY <1>1, <2>2, <2>3, <2>4 DEF Ready, Laid
  <2>6. LeadOf(t, Len(s) + 1) = Lead(q.func, q.page, 0, e) /\ Len(q.buf) < QUEUE_BUF_SIZE
    BY <1>2, <1>5 DEF Written
  <2> QED
    BY <1>1, <1>4, <2>5, <2>6
<1>6. CASE s = <<>>
  <2>1. q = EmptyQueue /\ Len(s) = 0
    BY <1>6 DEF Written
  <2>2. PICK p : p = PushFunc(EmptyQueue, e.func)
    OBVIOUS
  <2>3. e.func \in Functions /\ e.func \in Byte /\ e.func # NO_FUNC
    BY <1>0, Bytes DEF Entries, Functions, NO_FUNC
  <2>4. /\ EmptyQueue \in Queues /\ EmptyQueue.buf = <<>> /\ EmptyQueue.page = 0
        /\ EmptyQueue.func = NO_FUNC
    BY EmptyQueueType DEF EmptyQueue, Queue
  <2>5. p \in Queues /\ Len(<<>>) = 0
    BY <2>2, <2>3, <2>4, PushFuncType DEF Functions
  <2>6. p.func = e.func /\ p.page = 0 /\ p.buf = Push(EmptyQueue, <<e.func>>).buf
    BY <2>2, <2>3, <2>4, <2>5 DEF PushFunc, Queue
  <2>7. Len(p.buf) < QUEUE_BUF_SIZE /\ (p.buf = <<e.func>> \/ (p.buf = <<>> /\ QUEUE_BUF_SIZE = 1))
    <3>1. Len(<<e.func>>) = 1 /\ <<>> \o <<e.func>> = <<e.func>> /\ QUEUE_BUF_SIZE \in Nat \ {0}
      BY QueueAssumption
    <3>2. p.buf = IF QUEUE_BUF_SIZE > 1 THEN <<e.func>> ELSE <<>>
      BY <2>4, <2>5, <2>6, <3>1 DEF Push, Queue
    <3> QED
      BY <2>5, <3>1, <3>2
  <2>8. PICK off : off = [i \in 0..0 |-> 1]
    OBVIOUS
  <2>9. off \in [0..0 -> Nat] /\ off[0] = 1 /\ 0 \in 0..Len(s)
    BY <2>1, <2>8
  <2>10. Ready(p.buf, s, e, 0, off)
    <3>1. t[1] = e /\ Len(<<e.func>>) = 1 /\ <<e.func>>[1] = e.func /\ <<e.func>> # <<>>
      BY <1>2, <2>1
    <3>2. p.buf # <<>> => p.buf[1] = Append(s, e)[1].func
      BY <1>1, <2>7, <3>1
    <3>3. off[0] = Len(p.buf) \/ (off[0] = 1 /\ QUEUE_BUF_SIZE = 1)
      BY <2>7, <2>9, <3>1
    <3>4. p.buf = <<>> => QUEUE_BUF_SIZE = 1
      BY <2>7, <3>1
    <3>5. 1..0 = {} /\ ~(0 < Len(s))
      BY <2>1
    <3> QED
      BY <2>9, <3>2, <3>3, <3>4, <3>5 DEF Ready
  <2>11. LeadOf(t, Len(s) + 1) = Lead(p.func, p.page, 0, e)
    BY <1>2, <1>6, <2>6
  <2>12. PushFunc(q, e.func) = PushFunc(p, e.func)
    BY <2>1, <2>2, <2>6 DEF PushFunc
  <2>13. /\ ~Refusal(e) => r = PushParamData(p, e.func, e.param, e.data)
         /\ Refusal(e) => r = PushNoSupParam(p, e.param)
    BY <2>12 DEF PushParamData, PushNoSupParam, Refusal
  <2> QED
    BY <1>1, <1>4, <2>5, <2>7, <2>9, <2>10, <2>11, <2>13
<1> QED
  BY <1>5, <1>6

----
\* What is left of the packet b.
Suffix(in, b) ==
    Len(in) <= Len(b) /\ \A i \in 1..Len(in) : in[i] = b[Len(b) - Len(in) + i]

\* The parser p stands before the rest of the lead of e, which ends at mid: it
\* has read nothing of it, or its parts up to the data size.
Facing(p, b, mid, e) ==
    LET k == Len(b) - Len(p.in)
        lead == Lead(p.func, p.page, p.size, e)
    IN  /\ k + Len(lead) = mid
        /\ Shows(b, k, lead)
        /\ \/ p.size = DefaultBlockSize(p.func)
           \/ p.func = e.func /\ p.page = Page(e.param) /\ p.size = Len(e.data)

\* From the packet b of the chain s the parser p has heard h.
ParsedTo(p, h, b, s, m, off) ==
    /\ h \in Seq(Entries) /\ Len(h) <= m
    /\ \A i \in 1..Len(h) : h[i] = s[i]
    /\ Suffix(p.in, b)
    /\ Len(h) < m => p.in # <<>>
    /\ Len(h) = Len(s) => p.in = <<>>
    /\ Len(h) < Len(s) /\ p.in # <<>> =>
          Facing(p, b, off[Len(h)] + Len(LeadOf(s, Len(h) + 1)), s[Len(h) + 1])

LEMMA SkipSuffix ==
    ASSUME NEW in \in Seq(Byte), NEW b \in Seq(Byte), Suffix(in, b), NEW n \in Nat
    PROVE  /\ Skip(in, n) \in Seq(Byte) /\ Suffix(Skip(in, n), b)
           /\ n <= Len(in) => Len(Skip(in, n)) = Len(in) - n
           /\ n >= Len(in) => Skip(in, n) = <<>>
<1>1. Len(in) \in Nat /\ Len(b) \in Nat /\ Len(in) <= Len(b)
  BY DEF Suffix
<1>2. PICK x : x = Skip(in, n)
  OBVIOUS
<1>3. /\ x \in Seq(Byte) /\ Len(x) \in Nat
      /\ Len(x) = IF n < Len(in) THEN Len(in) - n ELSE 0
      /\ \A i \in 1..Len(x) : x[i] = in[n + i]
  <2>1. SubSeq(in, n + 1, Len(in)) \in Seq(Byte)
    BY <1>1
  <2>2. Len(SubSeq(in, n + 1, Len(in))) = IF n < Len(in) THEN Len(in) - n ELSE 0
    BY <1>1
  <2>3. \A i \in 1..Len(SubSeq(in, n + 1, Len(in))) :
          SubSeq(in, n + 1, Len(in))[i] = in[n + i]
    BY <1>1
  <2> QED
    BY <1>2, <2>1, <2>2, <2>3 DEF Skip
<1>4. Suffix(x, b)
  <2>1. CASE n < Len(in)
    <3>1. Len(x) = Len(in) - n /\ Len(x) <= Len(b)
      BY <1>1, <1>3, <2>1
    <3>2. ASSUME NEW i \in 1..Len(x) PROVE x[i] = b[Len(b) - Len(x) + i]
      <4>1. n + i \in 1..Len(in) /\ Len(b) - Len(in) + (n + i) = Len(b) - Len(x) + i
        BY <1>1, <3>1
      <4> QED
        BY <1>3, <4>1 DEF Suffix
    <3> QED
      BY <3>1, <3>2 DEF Suffix
  <2>2. CASE ~(n < Len(in))
    BY <1>1, <1>3, <2>2 DEF Suffix
  <2> QED
    BY <2>1, <2>2
<1>5. n >= Len(in) => x = <<>>
  BY <1>1, <1>3
<1> QED
  BY <1>1, <1>2, <1>3, <1>4, <1>5

LEMMA ReadSuffix ==
    ASSUME NEW in \in Seq(Byte), in # <<>>, NEW b \in Seq(Byte), Suffix(in, b)
    PROVE  /\ Len(in) \in Nat /\ Len(in) >= 1 /\ Len(b) \in Nat /\ Len(in) <= Len(b)
           /\ Head(in) \in Byte /\ Head(in) = b[Len(b) - Len(in) + 1]
           /\ Tail(in) = Skip(in, 1) /\ Tail(in) \in Seq(Byte)
           /\ Len(Tail(in)) = Len(in) - 1 /\ Suffix(Tail(in), b)
           /\ Len(in) >= 2 => ReadByte(Tail(in)) = b[Len(b) - Len(in) + 2]
<1>1. Len(in) \in Nat /\ Len(in) >= 1 /\ Len(b) \in Nat /\ Len(in) <= Len(b)
  BY DEF Suffix
<1>2. Head(in) = in[1] /\ 1 \in 1..Len(in) /\ in[1] \in Byte
  BY <1>1
<1>3. Tail(in) = Skip(in, 1)
  BY <1>1 DEF Skip
<1>4. /\ Tail(in) \in Seq(Byte) /\ Len(Tail(in)) = Len(in) - 1
      /\ \A i \in 1..Len(in) - 1 : Tail(in)[i] = in[i + 1]
  BY <1>1
<1>5. Suffix(Tail(in), b)
  BY <1>3, SkipSuffix
<1>6. ASSUME Len(in) >= 2 PROVE ReadByte(Tail(in)) = b[Len(b) - Len(in) + 2]
  <2>1. 2 \in 1..Len(in) /\ 1 \in 1..Len(in) - 1
    BY <1>1, <1>6
  <2>2. Tail(in) # <<>> /\ Head(Tail(in)) = Tail(in)[1]
    <3>1. \A x \in Seq(Byte) : Len(x) >= 1 => x # <<>> /\ Head(x) = x[1]
      OBVIOUS
    <3>2. Len(Tail(in)) >= 1
      BY <1>1, <1>4, <1>6
    <3> QED
      BY <1>4, <3>1, <3>2
  <2>3. Tail(in)[1] = in[2]
    BY <1>4, <2>1
  <2> QED
    BY <2>1, <2>2, <2>3 DEF ReadByte, Suffix
<1> QED
  BY <1>1, <1>2, <1>3, <1>4, <1>5, <1>6 DEF Suffix

\* x and y, and w behind them.
Pair(x, y, w) == <<x, y>> \o w

LEMMA ShowsTwo ==
    ASSUME NEW b \in Seq(Byte), NEW k \in Nat, NEW x \in Byte, NEW y \in Byte,
           NEW w \in Seq(Byte), Shows(b, k, Pair(x, y, w))
    PROVE  /\ Len(Pair(x, y, w)) = 2 + Len(w)
           /\ k + 1 <= Len(b) => b[k + 1] = x
           /\ k + 2 <= Len(b) => b[k + 2] = y
           /\ Shows(b, k + 2, w)
<1>1. PICK u : u = Pair(x, y, w)
  OBVIOUS
<1>2. /\ Len(u) = 2 + Len(w) /\ Len(w) \in Nat /\ u[1] = x /\ u[2] = y
      /\ \A i \in 1..Len(w) : u[2 + i] = w[i]
  <2>1. <<x, y>> \in Seq(Byte) /\ Len(<<x, y>>) = 2 /\ <<x, y>>[1] = x /\ <<x, y>>[2] = y
    OBVIOUS
  <2>2. PICK v \in Seq(Byte) : v = <<x, y>> /\ Len(v) = 2 /\ v[1] = x /\ v[2] = y
    BY <2>1
  <2>3. u = v \o w
    BY <1>1, <2>2 DEF Pair
  <2> QED
    BY <2>2, <2>3
<1>3. \A i \in 1..Len(u) : k + i <= Len(b) => b[k + i] = u[i]
  BY <1>1 DEF Shows
<1>4. 1 \in 1..Len(u) /\ 2 \in 1..Len(u)
  BY <1>2
<1>5. Shows(b, k + 2, w)
  <2> SUFFICES ASSUME NEW i \in 1..Len(w), (k + 2) + i <= Len(b) PROVE b[(k + 2) + i] = w[i]
    BY DEF Shows
  <2>1. 2 + i \in 1..Len(u) /\ k + (2 + i) = (k + 2) + i
    BY <1>2
  <2> QED
    BY <1>2, <1>3, <2>1
<1> QED
  BY <1>1, <1>2, <1>3, <1>4, <1>5

\* Two bytes of a lead are read, and more of it follows.
LEMMA TwoRead ==
    ASSUME NEW in \in Seq(Byte), in # <<>>, NEW b \in Seq(Byte), Suffix(in, b),
           NEW x \in Byte, NEW y \in Byte, NEW w \in Seq(Byte), Len(w) >= 1,
           NEW k \in Nat, k + Len(in) = Len(b), Shows(b, k, Pair(x, y, w))
    PROVE  /\ Head(in) = x /\ Skip(in, 2) \in Seq(Byte) /\ Suffix(Skip(in, 2), b)
           /\ Skip(in, 2) # <<>> =>
                /\ (k + 2) + Len(Skip(in, 2)) = Len(b)
                /\ ReadByte(Tail(in)) = y
           /\ Shows(b, k + 2, w)
           /\ k + Len(Pair(x, y, w)) = (k + 2) + Len(w)
           /\ k + Len(Pair(x, y, w)) <= Len(b) => Skip(in, 2) # <<>>
<1>1. /\ Len(in) \in Nat /\ Len(in) >= 1 /\ Len(b) \in Nat /\ Len(in) <= Len(b)
      /\ Head(in) = b[k + 1]
      /\ Len(in) >= 2 => ReadByte(Tail(in)) = b[k + 2]
  <2>1. /\ Len(in) \in Nat /\ Len(in) >= 1 /\ Len(b) \in Nat /\ Len(in) <= Len(b)
        /\ Head(in) = b[Len(b) - Len(in) + 1]
        /\ Len(in) >= 2 => ReadByte(Tail(in)) = b[Len(b) - Len(in) + 2]
    BY ReadSuffix
  <2>2. Len(b) - Len(in) = k
    BY <2>1
  <2> QED
    BY <2>1, <2>2
<1>2. PICK n : n = Skip(in, 2)
  OBVIOUS
<1>3. /\ n \in Seq(Byte) /\ Suffix(n, b)
      /\ 2 <= Len(in) => Len(n) = Len(in) - 2
      /\ 2 >= Len(in) => n = <<>>
  BY <1>2, SkipSuffix
<1>4. k \in Nat /\ k + 1 <= Len(b) /\ Len(w) \in Nat
  BY <1>1
<1>5. /\ Len(Pair(x, y, w)) = 2 + Len(w)
      /\ k + 1 <= Len(b) => b[k + 1] = x
      /\ k + 2 <= Len(b) => b[k + 2] = y
      /\ Shows(b, k + 2, w)
  BY ShowsTwo
<1>6. ASSUME n # <<>> PROVE (k + 2) + Len(n) = Len(b) /\ ReadByte(Tail(in)) = y
  <2>1. Len(in) > 2
    BY <1>1, <1>3, <1>6
  <2>2. k + 2 <= Len(b) /\ (k + 2) + (Len(in) - 2) = Len(b)
    BY <1>1, <2>1
  <2>3. Len(n) = Len(in) - 2
    BY <1>1, <1>3, <2>1
  <2>4. ReadByte(Tail(in)) = b[k + 2]
    BY <1>1, <2>1
  <2>5. b[k + 2] = y
    BY <1>5, <2>2
  <2> QED
    BY <2>2, <2>3, <2>4, <2>5
<1>7. ASSUME k + (2 + Len(w)) <= Len(b) PROVE n # <<>>
  <2>1. Len(in) > 2
    BY <1>1, <1>4, <1>7
  <2>2. Len(n) > 0 /\ Len(<<>>) = 0
    BY <1>1, <1>3, <2>1
  <2> QED
    BY <2>2
<1> QED
  <2>1. k + Len(Pair(x, y, w)) = (k + 2) + Len(w)
    BY <1>4, <1>5
  <2> QED
    BY <1>1, <1>2, <1>3, <1>4, <1>5, <1>6, <1>7, <2>1

LEMMA CommandsDiffer ==
    /\ BGCP_CMD_PAGE # BGCP_CMD_FUNC /\ BGCP_CMD_PAGE # BGCP_CMD_SIZE
    /\ BGCP_CMD_PAGE # BGCP_CMD_NOT_SUP /\ BGCP_CMD_FUNC # BGCP_CMD_SIZE
    /\ BGCP_CMD_FUNC # BGCP_CMD_NOT_SUP /\ BGCP_CMD_SIZE # BGCP_CMD_NOT_SUP
    /\ BGCP_CMD_PAGE \in Commands /\ BGCP_CMD_FUNC \in Commands
    /\ BGCP_CMD_SIZE \in Commands /\ BGCP_CMD_NOT_SUP \in Commands
  BY BaseAssumption
     DEF Commands, BGCP_CMD_PAGE, BGCP_CMD_SIZE, BGCP_CMD_NOT_SUP, BGCP_CMD_FUNC

\* A data size of 0 and the default size are announced alike.
LEMMA LeadDefault ==
    ASSUME NEW e \in Entries, NEW f, NEW g, NEW func
    PROVE  Lead(f, g, DefaultBlockSize(func), e) = Lead(f, g, 0, e)
<1>1. Len(e.data) \in Nat
  BY DEF Entries
<1>2. DefaultBlockSize(func) \in {0, 1}
  BY DEF DefaultBlockSize
<1>3. PartSize(DefaultBlockSize(func), e) = PartSize(0, e)
  BY <1>1, <1>2 DEF PartSize
<1> QED
  BY <1>3 DEF Lead, LeadPage, LeadSize

\* A lead part by part, as the parser takes it.
LEMMA LeadParts ==
    ASSUME NEW e, Plain(e), NEW f, NEW g, NEW z
    PROVE  \/ /\ f # e.func
              /\ Lead(f, g, z, e) = Pair(BGCP_CMD_FUNC, e.func, Lead(e.func, g, z, e))
           \/ /\ f = e.func /\ g # Page(e.param)
              /\ Lead(f, g, z, e) = Pair(BGCP_CMD_PAGE, Page(e.param), Lead(f, Page(e.param), z, e))
           \/ /\ f = e.func /\ g = Page(e.param) /\ Len(e.data) > 1 /\ z # Len(e.data)
              /\ Lead(f, g, z, e) = Pair(BGCP_CMD_SIZE, Len(e.data), Lead(f, g, Len(e.data), e))
           \/ /\ f = e.func /\ g = Page(e.param) /\ (Len(e.data) <= 1 \/ z = Len(e.data))
              /\ Lead(f, g, z, e) = PartParam(e)
<1>1. e \in Entries /\ Len(e.data) \in Byte /\ Len(e.data) \in Nat
  BY DEF Plain, Entries
<1>2. \A w \in Seq(Byte) : <<>> \o w = w
  OBVIOUS
<1>3. \A y : /\ PartSize(y, e) \in Seq(Byte) /\ PartParam(e) \in Seq(Byte)
             /\ LeadSize(y, e) \in Seq(Byte)
             /\ \A h : LeadPage(h, y, e) \in Seq(Byte)
  BY <1>1, LeadType
<1>4. CASE f # e.func
  <2>1. PartFunc(f, e) = <<BGCP_CMD_FUNC, e.func>> /\ PartFunc(e.func, e) = <<>>
    BY <1>4 DEF PartFunc
  <2>2. Lead(e.func, g, z, e) = LeadPage(g, z, e)
    BY <1>2, <1>3, <2>1 DEF Lead
  <2> QED
    BY <1>4, <2>1, <2>2 DEF Lead, Pair
<1>5. CASE f = e.func /\ g # Page(e.param)
  <2>1. /\ PartFunc(f, e) = <<>> /\ PartPage(g, e) = <<BGCP_CMD_PAGE, Page(e.param)>>
        /\ PartPage(Page(e.param), e) = <<>>
    BY <1>5 DEF PartFunc, PartPage
  <2>2. /\ Lead(f, g, z, e) = LeadPage(g, z, e)
        /\ Lead(f, Page(e.param), z, e) = LeadPage(Page(e.param), z, e)
        /\ LeadPage(Page(e.param), z, e) = LeadSize(z, e)
    BY <1>2, <1>3, <2>1 DEF Lead, LeadPage
  <2> QED
    BY <1>5, <2>1, <2>2 DEF LeadPage, Pair
<1>6. CASE f = e.func /\ g = Page(e.param)
  <2>1. PartFunc(f, e) = <<>> /\ PartPage(g, e) = <<>>
    BY <1>6 DEF PartFunc, PartPage
  <2>2. \A y : Lead(f, g, y, e) = LeadSize(y, e)
    BY <1>2, <1>3, <2>1 DEF Lead, LeadPage
  <2>3. CASE Len(e.data) > 1 /\ z # Len(e.data)
    <3>1. PartSize(z, e) = <<BGCP_CMD_SIZE, Len(e.data)>> /\ PartSize(Len(e.data), e) = <<>>
      BY <1>1, <2>3 DEF PartSize
    <3>2. LeadSize(Len(e.data), e) = PartParam(e)
      BY <1>2, <1>3, <3>1 DEF LeadSize
    <3> QED
      BY <1>6, <2>2, <2>3, <3>1, <3>2 DEF LeadSize, Pair
  <2>4. CASE ~(Len(e.data) > 1 /\ z # Len(e.data))
    <3>1. PartSize(z, e) = <<>>
      BY <1>1, <2>4 DEF PartSize
    <3>2. LeadSize(z, e) = PartParam(e)
      BY <1>2, <1>3, <3>1 DEF LeadSize
    <3> QED
      BY <1>1, <1>6, <2>2, <2>4, <3>2
  <2> QED
    BY <2>3, <2>4
<1> QED
  BY <1>4, <1>5, <1>6

LEMMA ParamRead ==
    ASSUME NEW in \in Seq(Byte), in # <<>>, NEW b \in Seq(Byte), Suffix(in, b),
           NEW e, Plain(e), NEW k \in Nat, k + Len(in) = Len(b), Shows(b, k, PartParam(e))
    PROVE  /\ Refusal(e) =>
                /\ Head(in) = BGCP_CMD_NOT_SUP /\ Len(PartParam(e)) = 2
                /\ Len(in) >= 2 => ReadByte(Tail(in)) = Low(e.param)
           /\ ~Refusal(e) =>
                /\ Head(in) = Low(e.param) /\ Low(e.param) \notin Commands
                /\ Len(PartParam(e)) = 1
<1>1. /\ Len(in) \in Nat /\ Len(in) >= 1 /\ Len(b) \in Nat /\ Len(in) <= Len(b)
      /\ Head(in) = b[k + 1]
      /\ Len(in) >= 2 => ReadByte(Tail(in)) = b[k + 2]
  BY ReadSuffix
<1>2. k + 1 <= Len(b) /\ (Len(in) >= 2 => k + 2 <= Len(b))
  BY <1>1
<1>3. PICK w : w = PartParam(e)
  OBVIOUS
<1>4. \A i \in 1..Len(w) : k + i <= Len(b) => b[k + i] = w[i]
  BY <1>3 DEF Shows
<1>5. ASSUME Refusal(e)
      PROVE  /\ Head(in) = BGCP_CMD_NOT_SUP /\ Len(w) = 2
             /\ Len(in) >= 2 => ReadByte(Tail(in)) = Low(e.param)
  <2>1. Len(w) = 2 /\ w[1] = BGCP_CMD_NOT_SUP /\ w[2] = Low(e.param)
    BY <1>3, <1>5 DEF PartParam
  <2>2. 1 \in 1..Len(w) /\ 2 \in 1..Len(w)
    BY <2>1
  <2> QED
    BY <1>1, <1>2, <1>4, <2>1, <2>2
<1>6. ASSUME ~Refusal(e)
      PROVE  Head(in) = Low(e.param) /\ Low(e.param) \notin Commands /\ Len(w) = 1
  <2>1. Len(w) = 1 /\ w[1] = Low(e.param)
    BY <1>3, <1>6 DEF PartParam
  <2>2. 1 \in 1..Len(w)
    BY <2>1
  <2>3. Low(e.param) \notin Commands
    BY <1>6 DEF Plain
  <2> QED
    BY <1>1, <1>2, <1>4, <2>1, <2>2, <2>3
<1> QED
  BY <1>3, <1>5, <1>6

\* The handlers of the commands, as functions of the parser.
FuncRead(p) == LET func == ReadFunc(Tail(p.in))
               IN  Parser(Skip(p.in, 2), p.page, func, DefaultBlockSize(func))
PageRead(p) == Parser(Skip(p.in, 2), ReadByte(Tail(p.in)), p.func, p.size)
SizeRead(p) == Parser(Skip(p.in, 2), p.page, p.func,
                      IF TakesData(p.func) THEN ReadByte(Tail(p.in)) ELSE p.size)

CommandRead(p, r) ==
    \/ Head(p.in) = BGCP_CMD_FUNC /\ r = FuncRead(p)
    \/ Head(p.in) = BGCP_CMD_PAGE /\ r = PageRead(p)
    \/ Head(p.in) = BGCP_CMD_SIZE /\ r = SizeRead(p)

\* A command brings the parser on, in the same lead.
LEMMA CommandStep ==
    ASSUME NEW e, Plain(e), NEW b \in Seq(Byte), NEW p \in Parsers, p.in # <<>>,
           Suffix(p.in, b), NEW mid, Facing(p, b, mid, e), NEW r, CommandRead(p, r)
    PROVE  /\ Suffix(r.in, b)
           /\ r.in # <<>> => Facing(r, b, mid, e)
           /\ mid <= Len(b) => r.in # <<>>
<1>1. e \in Entries /\ Len(e.data) \in Byte /\ e.func \in Functions /\ e.func \in Byte /\ Page(e.param) \in Byte
  BY Halves, Bytes DEF Plain, Entries, Functions, Page
<1>2. PICK in, f, g, z : in = p.in /\ f = p.func /\ g = p.page /\ z = p.size
  OBVIOUS
<1>3. in \in Seq(Byte) /\ in # <<>> /\ Suffix(in, b)
  BY <1>2 DEF Parsers
<1>4. PICK k \in Nat : k + Len(in) = Len(b) /\ Len(b) - Len(in) = k
  <2>1. Len(in) \in Nat /\ Len(b) \in Nat /\ Len(in) <= Len(b)
    BY <1>3, ReadSuffix
  <2>2. Len(b) - Len(in) \in Nat /\ (Len(b) - Len(in)) + Len(in) = Len(b)
    BY <2>1
  <2> QED
    BY <2>2
<1>5. /\ k + Len(Lead(f, g, z, e)) = mid /\ Shows(b, k, Lead(f, g, z, e))
      /\ \/ z = DefaultBlockSize(f)
         \/ f = e.func /\ g = Page(e.param) /\ z = Len(e.data)
  BY <1>2, <1>4 DEF Facing
<1>6. ASSUME NEW x \in Byte, NEW y \in Byte, NEW f1, NEW g1, NEW z1,
             Lead(f, g, z, e) = Pair(x, y, Lead(f1, g1, z1, e)),
             Head(in) = x => r.in = Skip(in, 2),
             Head(in) = x /\ ReadByte(Tail(in)) = y =>
               /\ r.func = f1 /\ r.page = g1
               /\ Lead(f1, g1, r.size, e) = Lead(f1, g1, z1, e)
               /\ \/ r.size = DefaultBlockSize(f1)
                  \/ f1 = e.func /\ g1 = Page(e.param) /\ r.size = Len(e.data)
      PROVE  /\ Suffix(r.in, b)
             /\ r.in # <<>> => Facing(r, b, mid, e)
             /\ mid <= Len(b) => r.in # <<>>
  <2>1. PICK w, n, u : w = Lead(f1, g1, z1, e) /\ n = r.in /\ u = Lead(f, g, z, e)
    OBVIOUS
  <2>2. w \in Seq(Byte) /\ Len(w) >= 1
    BY <1>1, <2>1, LeadType
  <2>3. /\ u = Pair(x, y, w) /\ Shows(b, k, Pair(x, y, w))
        /\ k + Len(Pair(x, y, w)) = mid /\ (Head(in) = x => n = Skip(in, 2))
    BY <1>4, <1>5, <1>6, <2>1
  <2>4. /\ Head(in) = x /\ Skip(in, 2) \in Seq(Byte) /\ Suffix(Skip(in, 2), b)
        /\ Skip(in, 2) # <<>> =>
             /\ (k + 2) + Len(Skip(in, 2)) = Len(b)
             /\ ReadByte(Tail(in)) = y
        /\ Shows(b, k + 2, w)
        /\ k + Len(Pair(x, y, w)) = (k + 2) + Len(w)
        /\ k + Len(Pair(x, y, w)) <= Len(b) => Skip(in, 2) # <<>>
    <3>1. k + Len(in) = Len(b) /\ Shows(b, k, Pair(x, y, w))
      BY <1>4, <2>3
    <3> QED
      BY <1>3, <2>2, <3>1, TwoRead, Zenon
  <2>5. n = Skip(in, 2) /\ Suffix(n, b) /\ (mid <= Len(b) => n # <<>>)
    BY <2>3, <2>4
  <2>6. ASSUME n # <<>> PROVE Facing(r, b, mid, e)
    <3>1. Len(b) - Len(n) = k + 2
      BY <1>4, <2>4, <2>5, <2>6
    <3>2. Lead(r.func, r.page, r.size, e) = w
      BY <1>6, <2>1, <2>4, <2>5, <2>6
    <3> QED
      BY <1>6, <2>1, <2>3, <2>4, <2>5, <2>6, <3>1, <3>2 DEF Facing
  <2> QED
    BY <2>1, <2>5, <2>6
<1>7. CASE /\ f # e.func
           /\ Lead(f, g, z, e) = Pair(BGCP_CMD_FUNC, e.func, Lead(e.func, g, z, e))
  <2>1. ASSUME Head(in) = BGCP_CMD_FUNC PROVE r = FuncRead(p)
    BY <1>2, <2>1, CommandsDiffer DEF CommandRead
  <2>2. ASSUME ReadByte(Tail(in)) = e.func PROVE ReadFunc(Tail(in)) = e.func
    BY <1>1, <2>2 DEF ReadFunc
  <2>3. \A n, pg, func, size : /\ Parser(n, pg, func, size).in = n /\ Parser(n, pg, func, size).page = pg
                               /\ Parser(n, pg, func, size).func = func
                               /\ Parser(n, pg, func, size).size = size
    BY DEF Parser
  <2>4. Head(in) = BGCP_CMD_FUNC => r.in = Skip(in, 2)
    BY <1>2, <2>1, <2>3 DEF FuncRead
  <2>5. ASSUME Head(in) = BGCP_CMD_FUNC, ReadByte(Tail(in)) = e.func
        PROVE  r.func = e.func /\ r.page = g /\ r.size = DefaultBlockSize(e.func)
    BY <1>2, <2>1, <2>2, <2>3, <2>5 DEF FuncRead
  <2>6. z = DefaultBlockSize(f)
    BY <1>5, <1>7
  <2>7. Lead(e.func, g, DefaultBlockSize(e.func), e) = Lead(e.func, g, z, e)
    BY <1>1, <2>6, LeadDefault
  <2> QED
    BY <1>1, <1>6, <1>7, <2>4, <2>5, <2>7, Bytes
<1>8. CASE /\ f = e.func /\ g # Page(e.param)
           /\ Lead(f, g, z, e) = Pair(BGCP_CMD_PAGE, Page(e.param), Lead(f, Page(e.param), z, e))
  <2>1. ASSUME Head(in) = BGCP_CMD_PAGE PROVE r = PageRead(p)
    BY <1>2, <2>1, CommandsDiffer DEF CommandRead
  <2>2. Head(in) = BGCP_CMD_PAGE => r.in = Skip(in, 2)
    BY <1>2, <2>1 DEF PageRead, Parser
  <2>3. ASSUME Head(in) = BGCP_CMD_PAGE, ReadByte(Tail(in)) = Page(e.param)
        PROVE  r.func = f /\ r.page = Page(e.param) /\ r.size = z
    BY <1>2, <2>1, <2>3 DEF PageRead, Parser
  <2>4. z = DefaultBlockSize(f)
    BY <1>5, <1>8
  <2> QED
    BY <1>1, <1>6, <1>8, <2>2, <2>3, <2>4, Bytes
<1>9. CASE /\ f = e.func /\ g = Page(e.param) /\ Len(e.data) > 1 /\ z # Len(e.data)
           /\ Lead(f, g, z, e) = Pair(BGCP_CMD_SIZE, Len(e.data), Lead(f, g, Len(e.data), e))
  <2>1. ASSUME Head(in) = BGCP_CMD_SIZE PROVE r = SizeRead(p)
    BY <1>2, <2>1, CommandsDiffer DEF CommandRead
  <2>2. TakesData(f)
    <3>1. e.data # <<>>
      BY <1>1, <1>9
    <3> QED
      BY <1>9, <3>1 DEF Plain, Refusal
  <2>3. Head(in) = BGCP_CMD_SIZE => r.in = Skip(in, 2)
    BY <1>2, <2>1 DEF SizeRead, Parser
  <2>4. ASSUME Head(in) = BGCP_CMD_SIZE, ReadByte(Tail(in)) = Len(e.data)
        PROVE  r.func = f /\ r.page = g /\ r.size = Len(e.data)
    BY <1>2, <2>1, <2>2, <2>4 DEF SizeRead, Parser
  <2> QED
    BY <1>1, <1>6, <1>9, <2>3, <2>4, Bytes
<1>10. CASE Lead(f, g, z, e) = PartParam(e)
  <2>1. Shows(b, k, PartParam(e))
    BY <1>5, <1>10
  <2>2. Head(in) = BGCP_CMD_NOT_SUP \/ Head(in) \notin Commands
    BY <1>3, <1>4, <2>1, ParamRead
  <2> QED
    BY <1>2, <2>2, CommandsDiffer DEF CommandRead
<1> QED
  BY <1>7, <1>8, <1>9, <1>10, LeadParts

\* A parser that has taken j entries and stands where the j-th one ends.
LEMMA FacedNext ==
    ASSUME NEW s \in Seq(Entries), \A i \in 1..Len(s) : Plain(s[i]),
           NEW b \in Seq(Byte), NEW m \in 0..Len(s), NEW off \in [0..m -> Nat],
           Laid(b, s, m, off),
           NEW h \in Seq(Entries), Len(h) <= m, \A i \in 1..Len(h) : h[i] = s[i],
           NEW p, NEW in \in Seq(Byte), in = p.in, Suffix(in, b),
           Len(b) - Len(in) = off[Len(h)],
           Len(h) < Len(s) => /\ p.func = FuncBefore(s, Len(h) + 1)
                              /\ p.page = PageBefore(s, Len(h) + 1),
           p.size = DefaultBlockSize(p.func)
    PROVE  ParsedTo(p, h, b, s, m, off)
<1>1. PICK j : j = Len(h)
  OBVIOUS
<1>2. /\ j \in Nat /\ j <= m /\ m \in Nat /\ m <= Len(s) /\ Len(s) \in Nat
      /\ off[j] \in Nat /\ j \in 0..m
  BY <1>1
<1>3. Len(in) \in Nat /\ Len(b) \in Nat /\ Len(in) <= Len(b)
  BY DEF Suffix
<1>4. Len(b) - Len(in) = off[j]
  BY <1>1
<1>5. ASSUME j < m PROVE in # <<>> /\ Shows(b, off[j], LeadOf(s, j + 1))
  <2>1. j + 1 \in 1..m /\ j + 1 \in 1..Len(s) /\ (j + 1) - 1 = j
    BY <1>2, <1>5
  <2>2. Placed(b, s, off, j + 1) /\ Plain(s[j + 1])
    BY <2>1 DEF Laid
  <2>3. /\ Len(LeadOf(s, j + 1)) \in Nat /\ Len(LeadOf(s, j + 1)) >= 1
        /\ Len(s[j + 1].data) \in Nat
    <3>1. Len(s[j + 1].data) \in Byte /\ s[j + 1] \in Entries
      BY <2>2 DEF Plain
    <3>2. Len(s[j + 1].data) \in Nat
      BY <3>1 DEF Entries
    <3> QED
      BY <2>1, <3>1, <3>2, LeadOfType
  <2>4. /\ off[j + 1] = off[j] + Len(LeadOf(s, j + 1)) + Len(s[j + 1].data)
        /\ off[j + 1] <= Len(b) /\ Shows(b, off[j], LeadOf(s, j + 1))
    BY <2>1, <2>2 DEF Placed
  <2>5. off[j] < Len(b)
    <3>1. \A o, l, d, n, w \in Nat : l >= 1 /\ w = o + l + d /\ w <= n => o < n
      OBVIOUS
    <3>2. PICK l, d \in Nat : l = Len(LeadOf(s, j + 1)) /\ d = Len(s[j + 1].data) /\ l >= 1
      BY <2>3
    <3>3. PICK n \in Nat : n = Len(b)
      BY <1>3
    <3>4. PICK o, w \in Nat : o = off[j] /\ w = off[j + 1]
      BY <1>2, <2>1
    <3>5. w = o + l + d /\ w <= n
      BY <2>4, <3>2, <3>3, <3>4, Zenon
    <3>6. o < n
      BY <3>1, <3>2, <3>5, Zenon
    <3> QED
      BY <3>3, <3>4, <3>6, Zenon
  <2>6. Len(in) # 0
    BY <1>3, <1>4, <2>5
  <2> QED
    BY <2>4, <2>6
<1>6. ASSUME j = Len(s) PROVE in = <<>>
  <2>1. m = Len(s) /\ off[j] = Len(b)
    BY <1>2, <1>6 DEF Laid
  <2>2. Len(in) = 0
    BY <1>3, <1>4, <2>1
  <2> QED
    BY <2>2
<1>7. ASSUME j < Len(s)
      PROVE  Facing(p, b, off[j] + Len(LeadOf(s, j + 1)), s[j + 1])
  <2>1. Shows(b, off[j], LeadOf(s, j + 1))
    <3>1. CASE j < m
      BY <1>5, <3>1
    <3>2. CASE j = m
      <4>1. Cut(b, s, off, m + 1) /\ (m + 1) - 1 = m
        BY <1>2, <1>7, <3>2 DEF Laid
      <4> QED
        BY <3>2, <4>1 DEF Cut
    <3> QED
      BY <1>2, <3>1, <3>2
  <2>2. s[j + 1] \in Entries
    BY <1>2, <1>7
  <2>3. Lead(p.func, p.page, p.size, s[j + 1]) = LeadOf(s, j + 1)
    BY <1>1, <1>7, <2>2, LeadDefault DEF LeadOf
  <2> QED
    BY <1>4, <2>1, <2>3 DEF Facing
<1> QED
  BY <1>1, <1>2, <1>5, <1>6, <1>7 DEF ParsedTo

\* A parser that does not stand before one of the first three commands stands
\* before the parameter itself.
LEMMA FacingParam ==
    ASSUME NEW e, Plain(e), NEW b \in Seq(Byte), NEW p \in Parsers, p.in # <<>>,
           Suffix(p.in, b), NEW mid, Facing(p, b, mid, e),
           Head(p.in) \notin {BGCP_CMD_PAGE, BGCP_CMD_FUNC, BGCP_CMD_SIZE}
    PROVE  /\ p.func = e.func /\ p.page = Page(e.param)
           /\ ~Refusal(e) =>
                /\ p.size = Len(e.data)
                /\ Head(p.in) = Low(e.param) /\ Head(p.in) \notin Commands
                /\ Len(b) - Len(p.in) + 1 = mid
           /\ Refusal(e) =>
                /\ Head(p.in) = BGCP_CMD_NOT_SUP
                /\ Len(p.in) >= 2 => ReadByte(Tail(p.in)) = Low(e.param)
                /\ Len(b) - Len(p.in) + 2 = mid
<1>1. e \in Entries /\ Len(e.data) \in Byte /\ Len(e.data) \in Nat /\ e.func \in Byte /\ Page(e.param) \in Byte
  BY Halves, Bytes DEF Plain, Entries, Functions, Page
<1>2. PICK in, f, g, z : in = p.in /\ f = p.func /\ g = p.page /\ z = p.size
  OBVIOUS
<1>0. in \in Seq(Byte) /\ in # <<>> /\ Suffix(in, b)
  BY <1>2 DEF Parsers
<1>3. PICK k \in Nat : k + Len(in) = Len(b) /\ Len(b) - Len(in) = k
  <2>1. Len(in) \in Nat /\ Len(b) \in Nat /\ Len(in) <= Len(b)
    BY <1>0, ReadSuffix
  <2>2. Len(b) - Len(in) \in Nat /\ (Len(b) - Len(in)) + Len(in) = Len(b)
    BY <2>1
  <2> QED
    BY <2>2
<1>4. /\ k + Len(Lead(f, g, z, e)) = mid /\ Shows(b, k, Lead(f, g, z, e))
      /\ \/ z = DefaultBlockSize(f)
         \/ f = e.func /\ g = Page(e.param) /\ z = Len(e.data)
  BY <1>2, <1>3 DEF Facing
<1>5. ASSUME NEW x \in Byte, NEW y \in Byte, NEW f1, NEW g1, NEW z1,
             Lead(f, g, z, e) = Pair(x, y, Lead(f1, g1, z1, e))
      PROVE  Head(in) = x
  <2>1. PICK w : w = Lead(f1, g1, z1, e)
    OBVIOUS
  <2>2. w \in Seq(Byte) /\ Len(w) >= 1
    BY <1>1, <2>1, LeadType
  <2>3. k + Len(in) = Len(b) /\ Shows(b, k, Pair(x, y, w))
    BY <1>3, <1>4, <1>5, <2>1
  <2>4. /\ Head(in) = x /\ Skip(in, 2) \in Seq(Byte) /\ Suffix(Skip(in, 2), b)
        /\ Skip(in, 2) # <<>> =>
             /\ (k + 2) + Len(Skip(in, 2)) = Len(b)
             /\ ReadByte(Tail(in)) = y
        /\ Shows(b, k + 2, w)
        /\ k + Len(Pair(x, y, w)) = (k + 2) + Len(w)
        /\ k + Len(Pair(x, y, w)) <= Len(b) => Skip(in, 2) # <<>>
    BY <1>0, <2>2, <2>3, TwoRead, Zenon
  <2> QED
    BY <2>4
<1>10. Head(in) \notin {BGCP_CMD_PAGE, BGCP_CMD_FUNC, BGCP_CMD_SIZE}
  BY <1>2
<1>6. /\ f = e.func /\ g = Page(e.param) /\ (Len(e.data) <= 1 \/ z = Len(e.data))
      /\ Lead(f, g, z, e) = PartParam(e)
  <2>1. CASE Lead(f, g, z, e) = Pair(BGCP_CMD_FUNC, e.func, Lead(e.func, g, z, e))
    BY <1>1, <1>5, <1>10, <2>1, Bytes
  <2>2. CASE Lead(f, g, z, e) = Pair(BGCP_CMD_PAGE, Page(e.param), Lead(f, Page(e.param), z, e))
    BY <1>1, <1>5, <1>10, <2>2, Bytes
  <2>3. CASE Lead(f, g, z, e) = Pair(BGCP_CMD_SIZE, Len(e.data), Lead(f, g, Len(e.data), e))
    BY <1>1, <1>5, <1>10, <2>3, Bytes
  <2> QED
    BY <2>1, <2>2, <2>3, LeadParts
<1>7. k + Len(in) = Len(b) /\ Shows(b, k, PartParam(e)) /\ k + Len(PartParam(e)) = mid
  BY <1>3, <1>4, <1>6
<1>8. /\ Refusal(e) =>
           /\ Head(in) = BGCP_CMD_NOT_SUP /\ Len(PartParam(e)) = 2
           /\ Len(in) >= 2 => ReadByte(Tail(in)) = Low(e.param)
      /\ ~Refusal(e) =>
           /\ Head(in) = Low(e.param) /\ Low(e.param) \notin Commands
           /\ Len(PartParam(e)) = 1
  BY <1>0, <1>3, <1>7, ParamRead, Zenon
<1>9. ASSUME ~Refusal(e) PROVE z = Len(e.data)
  <2>1. e.data # <<>> <=> TakesData(e.func)
    BY <1>9 DEF Plain
  <2>2. e.data = <<>> <=> Len(e.data) = 0
    BY <1>1 DEF Entries
  <2>3. DefaultBlockSize(f) = IF TakesData(f) THEN 1 ELSE 0
    BY DEF DefaultBlockSize
  <2> QED
    BY <1>1, <1>4, <1>6, <2>1, <2>2, <2>3
<1> QED
  BY <1>2, <1>3, <1>6, <1>7, <1>8, <1>9

LEMMA TakenNext ==
    ASSUME NEW s \in Seq(Entries), \A i \in 1..Len(s) : Plain(s[i]),
           NEW b \in Seq(Byte), NEW m \in 0..Len(s), NEW off \in [0..m -> Nat],
           Laid(b, s, m, off),
           NEW h \in Seq(Entries), Len(h) < m, \A i \in 1..Len(h) : h[i] = s[i],
           NEW e, e = s[Len(h) + 1],
           NEW r, NEW in \in Seq(Byte), in = r.in, Suffix(in, b),
           Len(b) - Len(in) = off[Len(h) + 1],
           r.func = e.func, r.page = Page(e.param), r.size = DefaultBlockSize(r.func)
    PROVE  ParsedTo(r, Append(h, e), b, s, m, off)
<1>1. Len(h) \in Nat /\ m \in Nat /\ m <= Len(s) /\ Len(s) \in Nat
  OBVIOUS
<1>2. Len(h) + 1 \in 1..Len(s)
  BY <1>1
<1>3. e \in Entries
  BY <1>2
<1>4. PICK g : g = Append(h, e)
  OBVIOUS
<1>5. /\ g \in Seq(Entries) /\ Len(g) = Len(h) + 1 /\ Len(g) <= m
      /\ g[Len(h) + 1] = e /\ \A i \in 1..Len(h) : g[i] = h[i]
  BY <1>1, <1>3, <1>4
<1>6. \A i \in 1..Len(g) : g[i] = s[i]
  <2>1. \A i \in 1..Len(g) : i \in 1..Len(h) \/ i = Len(h) + 1
    BY <1>1, <1>5
  <2> QED
    BY <1>5, <2>1
<1>7. r.func = FuncBefore(s, Len(g) + 1) /\ r.page = PageBefore(s, Len(g) + 1)
  <2>1. Len(g) + 1 # 1 /\ (Len(g) + 1) - 1 = Len(h) + 1
    BY <1>1, <1>5
  <2> QED
    BY <2>1 DEF FuncBefore, PageBefore
<1>8. Len(b) - Len(in) = off[Len(g)]
  BY <1>5
<1>9. ParsedTo(r, g, b, s, m, off)
  BY <1>5, <1>6, <1>7, <1>8, FacedNext
<1> QED
  BY <1>4, <1>9

LEMMA Recombined ==
    ASSUME NEW num \in ParamNums
    PROVE  Page(num) * Base + Low(num) = num
<1>1. num \in Int /\ Base \in Int /\ Base > 0
  <2>1. Base * Base \in Int
    BY BaseAssumption
  <2> QED
    BY <2>1, BaseAssumption DEF ParamNums
<1>2. (num \div Base) * Base + (num % Base) = num
  BY <1>1, SMT
<1> QED
  BY <1>2 DEF Page, Low

\* The data behind the parameter are the bytes that were written there.
LEMMA DataShown ==
    ASSUME NEW in \in Seq(Byte), NEW b \in Seq(Byte), Suffix(in, b), NEW data \in Seq(Byte),
           NEW mid \in Nat, mid + Len(in) = Len(b), mid + Len(data) <= Len(b),
           Shows(b, mid, data)
    PROVE  SubSeq(in, 1, Len(data)) = data
<1>1. Len(in) \in Nat /\ Len(data) \in Nat /\ Len(b) \in Nat
  OBVIOUS
<1>2. Len(data) <= Len(in)
  BY <1>1
<1>3. Len(b) - Len(in) = mid
  BY <1>1
<1>4. PICK x : x = SubSeq(in, 1, Len(data))
  OBVIOUS
<1>5. x \in Seq(Byte) /\ Len(x) = Len(data) /\ \A i \in 1..Len(data) : x[i] = in[i]
  BY <1>1, <1>2, <1>4
<1>6. ASSUME NEW i \in 1..Len(data) PROVE x[i] = data[i]
  <2>1. i \in 1..Len(in)
    BY <1>1, <1>2
  <2>2. mid + i <= Len(b)
    BY <1>1
  <2>3. in[i] = b[mid + i]
    BY <1>3, <2>1 DEF Suffix
  <2> QED
    BY <1>5, <2>2, <2>3 DEF Shows
<1> QED
  <2>1. \A u, v \in Seq(Byte) : Len(u) = Len(v) /\ (\A i \in 1..Len(v) : u[i] = v[i]) => u = v
    OBVIOUS
  <2> QED
    BY <1>4, <1>5, <1>6, <2>1

\* The buffer b of the chain s, of whose entries the first m have room.
Chain(b, s, m, off) ==
    /\ s \in Seq(Entries) /\ \A i \in 1..Len(s) : Plain(s[i])
    /\ b \in Seq(Byte) /\ Len(b) < QUEUE_BUF_SIZE
    /\ m \in 0..Len(s) /\ off \in [0..m -> Nat]
    /\ Laid(b, s, m, off)

\* What PerformParam does to the parser p and to what was heard, h.
Taken(p, h, num, in, size, complete, r, g) ==
    LET data == IF complete /\ TakesData(p.func) THEN SubSeq(in, 1, size) ELSE <<>>
    IN  /\ g = IF complete \/ (Head(p.in) = BGCP_CMD_NOT_SUP /\ Len(p.in) > 1)
               THEN Append(h, Entry(p.func, num, data)) ELSE h
        /\ r = Parser(Skip(in, size), p.page, p.func, DefaultBlockSize(p.func))

\* The entry that comes next, and where its lead ends.
LEMMA NextEntry ==
    ASSUME NEW b, NEW s, NEW m, NEW off, Chain(b, s, m, off),
           NEW p \in Parsers, p.in # <<>>, NEW h, ParsedTo(p, h, b, s, m, off)
    PROVE  \E e, mid, dlen :
             /\ e = s[Len(h) + 1] /\ Plain(e) /\ e \in Entries /\ Facing(p, b, mid, e)
             /\ mid \in Nat /\ dlen \in Nat /\ dlen = Len(e.data)
             /\ mid = off[Len(h)] + Len(LeadOf(s, Len(h) + 1))
             /\ Len(h) \in Nat /\ Len(h) <= m /\ m \in Nat /\ m <= Len(s) /\ Len(s) \in Nat
             /\ Len(h) < Len(s)
             /\ Len(h) < m => /\ off[Len(h) + 1] = mid + dlen /\ mid + dlen <= Len(b)
                              /\ Shows(b, mid, e.data)
             /\ Len(h) = m => QUEUE_BUF_SIZE <= mid + dlen
             /\ b \in Seq(Byte) /\ p.in \in Seq(Byte) /\ Suffix(p.in, b)
             /\ Len(b) < QUEUE_BUF_SIZE
<1>1. PICK j : j = Len(h)
  OBVIOUS
<1>2. /\ s \in Seq(Entries) /\ Len(s) \in Nat /\ \A i \in 1..Len(s) : Plain(s[i])
      /\ b \in Seq(Byte) /\ Len(b) < QUEUE_BUF_SIZE
      /\ m \in Nat /\ m <= Len(s) /\ off \in [0..m -> Nat] /\ Laid(b, s, m, off)
  BY DEF Chain
<1>3. /\ j \in Nat /\ j <= m /\ j # Len(s) /\ Suffix(p.in, b) /\ p.in \in Seq(Byte)
      /\ j < Len(s) => Facing(p, b, off[j] + Len(LeadOf(s, j + 1)), s[j + 1])
  BY <1>1 DEF ParsedTo, Parsers
<1>4. j < Len(s) /\ j + 1 \in 1..Len(s) /\ (j + 1) - 1 = j /\ off[j] \in Nat
  BY <1>2, <1>3
<1>5. PICK e : e = s[j + 1]
  OBVIOUS
<1>6. Plain(e) /\ e \in Entries /\ Len(e.data) \in Byte /\ Len(e.data) \in Nat
  <2>1. Plain(e)
    BY <1>2, <1>4, <1>5
  <2> QED
    BY <2>1 DEF Plain, Entries
<1>7. Len(LeadOf(s, j + 1)) \in Nat
  BY <1>2, <1>4, <1>5, <1>6, LeadOfType
<1>8. PICK mid : mid = off[j] + Len(LeadOf(s, j + 1))
  OBVIOUS
<1>9. mid \in Nat
  BY <1>4, <1>7, <1>8
<1>10. ASSUME j < m
       PROVE  /\ off[j + 1] = mid + Len(e.data) /\ mid + Len(e.data) <= Len(b)
              /\ Shows(b, mid, e.data)
  <2>1. j + 1 \in 1..m
    BY <1>2, <1>3, <1>10
  <2>2. Placed(b, s, off, j + 1)
    BY <1>2, <2>1 DEF Laid
  <2> QED
    BY <1>4, <1>5, <1>8, <2>2 DEF Placed
<1>11. ASSUME j = m PROVE QUEUE_BUF_SIZE <= mid + Len(e.data)
  <2>1. Cut(b, s, off, j + 1)
    BY <1>2, <1>4, <1>11 DEF Laid
  <2> QED
    BY <1>4, <1>5, <1>8, <2>1 DEF Cut
<1> QED
  BY <1>1, <1>2, <1>3, <1>4, <1>5, <1>6, <1>8, <1>9, <1>10, <1>11

LEMMA ChainNext ==
    ASSUME NEW b, NEW s, NEW m, NEW off, Chain(b, s, m, off),
           NEW p, NEW h, ParsedTo(p, h, b, s, m, off), Len(h) < m,
           NEW e, e = s[Len(h) + 1],
           NEW r, r.in \in Seq(Byte), Suffix(r.in, b),
           Len(b) - Len(r.in) = off[Len(h) + 1],
           r.func = e.func, r.page = Page(e.param), r.size = DefaultBlockSize(r.func)
    PROVE  ParsedTo(r, Append(h, e), b, s, m, off)
<1>1. PICK in : in = r.in
  OBVIOUS
<1>2. /\ s \in Seq(Entries) /\ \A i \in 1..Len(s) : Plain(s[i])
      /\ b \in Seq(Byte) /\ m \in 0..Len(s) /\ off \in [0..m -> Nat]
      /\ Laid(b, s, m, off)
  BY DEF Chain
<1>3. h \in Seq(Entries) /\ \A i \in 1..Len(h) : h[i] = s[i]
  BY DEF ParsedTo
<1> QED
  BY <1>1, <1>2, <1>3, TakenNext

LEMMA ChainEnds ==
    ASSUME NEW b, NEW s, NEW m, NEW off, Chain(b, s, m, off),
           NEW p, NEW h, ParsedTo(p, h, b, s, m, off), Len(h) = m, NEW r, r.in = <<>>
    PROVE  ParsedTo(r, h, b, s, m, off)
<1>1. Suffix(<<>>, b)
  <2>1. b \in Seq(Byte) /\ Len(<<>>) = 0
    BY DEF Chain
  <2> QED
    BY <2>1 DEF Suffix
<1>2. Len(h) <= m /\ ~(Len(h) < m)
  <2>1. m \in Nat
    <3>1. s \in Seq(Entries) /\ m \in 0..Len(s)
      BY DEF Chain
    <3> QED
      BY <3>1
  <2> QED
    BY <2>1
<1> QED
  BY <1>1, <1>2 DEF ParsedTo

\* The parameter of an entry with its data: all of it is heard, or it was cut.
LEMMA PerformStep ==
    ASSUME NEW b, NEW s, NEW m, NEW off, Chain(b, s, m, off),
           NEW p \in Parsers, p.in # <<>>, NEW h, ParsedTo(p, h, b, s, m, off),
           Head(p.in) \notin Commands, NEW r, NEW g,
           Taken(p, h, p.page * Base + Head(p.in), Tail(p.in), p.size,
                 p.func # NO_FUNC /\ p.size <= Len(p.in) - 1, r, g)
    PROVE  ParsedTo(r, g, b, s, m, off)
<1>1. PICK e, mid, dlen :
             /\ e = s[Len(h) + 1] /\ Plain(e) /\ e \in Entries /\ Facing(p, b, mid, e)
             /\ mid \in Nat /\ dlen \in Nat /\ dlen = Len(e.data)
             /\ mid = off[Len(h)] + Len(LeadOf(s, Len(h) + 1))
             /\ Len(h) \in Nat /\ Len(h) <= m /\ m \in Nat /\ m <= Len(s) /\ Len(s) \in Nat
             /\ Len(h) < Len(s)
             /\ Len(h) < m => /\ off[Len(h) + 1] = mid + dlen /\ mid + dlen <= Len(b)
                              /\ Shows(b, mid, e.data)
             /\ Len(h) = m => QUEUE_BUF_SIZE <= mid + dlen
             /\ b \in Seq(Byte) /\ p.in \in Seq(Byte) /\ Suffix(p.in, b)
             /\ Len(b) < QUEUE_BUF_SIZE
  BY NextEntry
<1>2. Head(p.in) \notin {BGCP_CMD_PAGE, BGCP_CMD_FUNC, BGCP_CMD_SIZE} /\ Head(p.in) # BGCP_CMD_NOT_SUP
  BY DEF Commands
<1>3. /\ p.func = e.func /\ p.page = Page(e.param)
      /\ ~Refusal(e) =>
           /\ p.size = Len(e.data)
           /\ Head(p.in) = Low(e.param) /\ Head(p.in) \notin Commands
           /\ Len(b) - Len(p.in) + 1 = mid
      /\ Refusal(e) =>
           /\ Head(p.in) = BGCP_CMD_NOT_SUP
           /\ Len(p.in) >= 2 => ReadByte(Tail(p.in)) = Low(e.param)
           /\ Len(b) - Len(p.in) + 2 = mid
  <2>1. Plain(e) /\ b \in Seq(Byte) /\ Suffix(p.in, b) /\ Facing(p, b, mid, e)
    BY <1>1
  <2>2. Head(p.in) \notin {BGCP_CMD_PAGE, BGCP_CMD_FUNC, BGCP_CMD_SIZE}
    BY <1>2
  <2> QED
    BY <2>1, <2>2, FacingParam, Zenon
<1>4. PICK in, rest, func, complete :
        /\ in = p.in /\ rest = Tail(p.in) /\ func = p.func
        /\ complete = (p.func # NO_FUNC /\ p.size <= Len(p.in) - 1)
  OBVIOUS
<1>5. ~Refusal(e) /\ p.size = dlen /\ Head(in) = Low(e.param) /\ Len(b) - Len(in) + 1 = mid
  BY <1>1, <1>2, <1>3, <1>4
<1>6. /\ in \in Seq(Byte) /\ Len(in) \in Nat /\ Len(in) >= 1 /\ Len(b) \in Nat
      /\ rest \in Seq(Byte) /\ Len(rest) = Len(in) - 1 /\ Suffix(rest, b)
  <2>1. in \in Seq(Byte) /\ in # <<>> /\ b \in Seq(Byte) /\ Suffix(in, b)
    BY <1>1, <1>4
  <2>2. rest = Tail(in)
    BY <1>4
  <2> QED
    BY <2>1, <2>2, ReadSuffix
<1>7. mid + Len(rest) = Len(b)
  BY <1>5, <1>6
<1>8. e.func # NO_FUNC /\ e.param \in ParamNums /\ e.data \in Seq(Byte)
      /\ e = Entry(e.func, e.param, e.data)
  BY <1>1 DEF Entries, Functions, NO_FUNC, Entry
<1>9. complete <=> mid + dlen <= Len(b)
  <2>1. complete = (p.size <= Len(in) - 1)
    BY <1>3, <1>4, <1>8
  <2>2. p.size = dlen /\ dlen \in Nat /\ mid \in Nat
    BY <1>1, <1>5
  <2>3. \A n, k, t, d \in Nat : k + t = n => (d <= t <=> k + d <= n)
    OBVIOUS
  <2>4. Len(rest) \in Nat /\ Len(b) \in Nat
    BY <1>6
  <2>5. dlen <= Len(rest) <=> mid + dlen <= Len(b)
    BY <1>7, <2>2, <2>3, <2>4, Zenon
  <2>6. dlen <= Len(in) - 1 <=> mid + dlen <= Len(b)
    BY <1>6, <2>5
  <2> QED
    BY <2>1, <2>2, <2>6
<1>10. p.page * Base + Head(p.in) = e.param
  BY <1>3, <1>4, <1>5, <1>8, Recombined
<1>11. /\ Skip(rest, dlen) \in Seq(Byte) /\ Suffix(Skip(rest, dlen), b)
       /\ dlen <= Len(rest) => Len(Skip(rest, dlen)) = Len(rest) - dlen
       /\ dlen >= Len(rest) => Skip(rest, dlen) = <<>>
  BY <1>1, <1>6, SkipSuffix
<1>12. /\ r.in = Skip(rest, dlen) /\ r.page = Page(e.param) /\ r.func = e.func
       /\ r.size = DefaultBlockSize(r.func)
  BY <1>3, <1>4, <1>5 DEF Taken, Parser
<1>13. g = IF complete
           THEN Append(h, Entry(e.func, e.param,
                                IF TakesData(e.func) THEN SubSeq(rest, 1, dlen) ELSE <<>>))
           ELSE h
  BY <1>2, <1>3, <1>4, <1>5, <1>10 DEF Taken
<1>14. CASE Len(h) < m
  <2>1. complete /\ off[Len(h) + 1] = mid + dlen /\ mid + dlen <= Len(b) /\ Shows(b, mid, e.data)
    BY <1>1, <1>9, <1>14
  <2>2. SubSeq(rest, 1, dlen) = e.data
    BY <1>1, <1>6, <1>7, <1>8, <2>1, DataShown
  <2>3. ~TakesData(e.func) => e.data = <<>>
    BY <1>1, <1>5 DEF Plain
  <2>4. g = Append(h, e)
    BY <1>8, <1>13, <2>1, <2>2, <2>3
  <2>5. Len(b) - Len(r.in) = off[Len(h) + 1]
    <3>1. dlen <= Len(rest)
      BY <1>1, <1>6, <1>7, <2>1
    <3>2. Len(r.in) = Len(rest) - dlen
      BY <1>11, <1>12, <3>1
    <3>3. \A n, t, k, l \in Nat : k + t = n => n - (t - l) = k + l
      OBVIOUS
    <3>4. Len(b) \in Nat /\ Len(rest) \in Nat /\ mid \in Nat /\ dlen \in Nat
      BY <1>1, <1>6
    <3>5. Len(b) - (Len(rest) - dlen) = mid + dlen
      BY <1>7, <3>3, <3>4
    <3> QED
      BY <2>1, <3>2, <3>5
  <2>6. r.in \in Seq(Byte) /\ Suffix(r.in, b) /\ e = s[Len(h) + 1]
    BY <1>1, <1>11, <1>12
  <2>7. ParsedTo(r, Append(h, e), b, s, m, off)
    BY <1>12, <1>14, <2>5, <2>6, ChainNext
  <2> QED
    BY <2>4, <2>7
<1>15. CASE Len(h) = m
  <2>1. ~(mid + dlen <= Len(b))
    BY <1>1, <1>6, <1>15, QueueAssumption
  <2>2. ~complete /\ dlen >= Len(rest)
    BY <1>1, <1>6, <1>7, <1>9, <2>1
  <2>3. g = h /\ r.in = <<>>
    BY <1>11, <1>12, <1>13, <2>2
  <2> QED
    BY <1>15, <2>3, ChainEnds
<1> QED
  <2>1. Len(h) < m \/ Len(h) = m
    BY <1>1
  <2> QED
    BY <1>14, <1>15, <2>1

\* A parameter that is not supported: its number is heard, or it was cut.
LEMMA NotSupStep ==
    ASSUME NEW b, NEW s, NEW m, NEW off, Chain(b, s, m, off),
           NEW p \in Parsers, p.in # <<>>, NEW h, ParsedTo(p, h, b, s, m, off),
           Head(p.in) = BGCP_CMD_NOT_SUP, NEW r, NEW g,
           Taken(p, h, p.page * Base + ReadByte(Tail(p.in)), Skip(p.in, 2), 0, FALSE, r, g)
    PROVE  ParsedTo(r, g, b, s, m, off)
<1>1. PICK e, mid, dlen :
             /\ e = s[Len(h) + 1] /\ Plain(e) /\ e \in Entries /\ Facing(p, b, mid, e)
             /\ mid \in Nat /\ dlen \in Nat /\ dlen = Len(e.data)
             /\ mid = off[Len(h)] + Len(LeadOf(s, Len(h) + 1))
             /\ Len(h) \in Nat /\ Len(h) <= m /\ m \in Nat /\ m <= Len(s) /\ Len(s) \in Nat
             /\ Len(h) < Len(s)
             /\ Len(h) < m => /\ off[Len(h) + 1] = mid + dlen /\ mid + dlen <= Len(b)
                              /\ Shows(b, mid, e.data)
             /\ Len(h) = m => QUEUE_BUF_SIZE <= mid + dlen
             /\ b \in Seq(Byte) /\ p.in \in Seq(Byte) /\ Suffix(p.in, b)
             /\ Len(b) < QUEUE_BUF_SIZE
  BY NextEntry
<1>2. /\ Head(p.in) \notin {BGCP_CMD_PAGE, BGCP_CMD_FUNC, BGCP_CMD_SIZE}
      /\ Head(p.in) \in Commands
  BY CommandsDiffer
<1>3. /\ p.func = e.func /\ p.page = Page(e.param)
      /\ ~Refusal(e) =>
           /\ p.size = Len(e.data)
           /\ Head(p.in) = Low(e.param) /\ Head(p.in) \notin Commands
           /\ Len(b) - Len(p.in) + 1 = mid
      /\ Refusal(e) =>
           /\ Head(p.in) = BGCP_CMD_NOT_SUP
           /\ Len(p.in) >= 2 => ReadByte(Tail(p.in)) = Low(e.param)
           /\ Len(b) - Len(p.in) + 2 = mid
  <2>1. Plain(e) /\ b \in Seq(Byte) /\ Suffix(p.in, b) /\ Facing(p, b, mid, e)
    BY <1>1
  <2>2. Head(p.in) \notin {BGCP_CMD_PAGE, BGCP_CMD_FUNC, BGCP_CMD_SIZE}
    BY <1>2
  <2> QED
    BY <2>1, <2>2, FacingParam, Zenon
<1>4. PICK in, rest : in = p.in /\ rest = Skip(p.in, 2)
  OBVIOUS
<1>5. /\ Refusal(e) /\ e.data = <<>> /\ dlen = 0 /\ Len(b) - Len(in) + 2 = mid
      /\ Len(in) >= 2 => ReadByte(Tail(in)) = Low(e.param)
  BY <1>1, <1>2, <1>3, <1>4 DEF Refusal
<1>6. in \in Seq(Byte) /\ Len(in) \in Nat /\ Len(in) >= 1 /\ Len(b) \in Nat /\ Len(in) <= Len(b)
  <2>1. in \in Seq(Byte) /\ in # <<>> /\ b \in Seq(Byte) /\ Suffix(in, b)
    BY <1>1, <1>4
  <2> QED
    BY <2>1, ReadSuffix
<1>7. /\ rest \in Seq(Byte) /\ Suffix(rest, b)
      /\ 2 <= Len(in) => Len(rest) = Len(in) - 2
      /\ 2 >= Len(in) => rest = <<>>
  <2>1. in \in Seq(Byte) /\ b \in Seq(Byte) /\ Suffix(in, b) /\ rest = Skip(in, 2)
    BY <1>1, <1>4
  <2> QED
    BY <2>1, SkipSuffix
<1>8. PICK last : last = Skip(rest, 0)
  OBVIOUS
<1>9. last \in Seq(Byte) /\ Suffix(last, b) /\ Len(last) = Len(rest) /\ (Len(rest) = 0 => last = <<>>)
  <2>1. b \in Seq(Byte) /\ Len(rest) \in Nat /\ 0 <= Len(rest)
    BY <1>1, <1>7
  <2>2. Skip(rest, 0) \in Seq(Byte) /\ Suffix(Skip(rest, 0), b) /\ Len(Skip(rest, 0)) = Len(rest) - 0
    BY <1>7, <2>1, SkipSuffix
  <2> QED
    BY <1>8, <2>1, <2>2
<1>10. /\ r.in = last /\ r.page = Page(e.param) /\ r.func = e.func
       /\ r.size = DefaultBlockSize(r.func)
  BY <1>3, <1>4, <1>8 DEF Taken, Parser
<1>11. g = IF Len(in) > 1
           THEN Append(h, Entry(e.func, p.page * Base + ReadByte(Tail(in)), <<>>)) ELSE h
  BY <1>3, <1>4 DEF Taken
<1>12. CASE Len(in) >= 2
  <2>1. e.param \in ParamNums /\ e = Entry(e.func, e.param, <<>>)
    BY <1>1, <1>5 DEF Entries, Entry
  <2>2. p.page * Base + ReadByte(Tail(in)) = e.param
    BY <1>3, <1>5, <1>12, <2>1, Recombined
  <2>3. g = Append(h, e)
    BY <1>6, <1>11, <1>12, <2>1, <2>2
  <2>4. mid <= Len(b)
    <3>1. \A n, l \in Nat : l >= 2 /\ l <= n => n - l + 2 <= n
      OBVIOUS
    <3> QED
      BY <1>5, <1>6, <1>12, <3>1
  <2>5. Len(h) < m /\ off[Len(h) + 1] = mid
    BY <1>1, <1>5, <1>6, <2>4, QueueAssumption
  <2>6. Len(b) - Len(r.in) = off[Len(h) + 1]
    <3>1. Len(r.in) = Len(in) - 2
      BY <1>7, <1>9, <1>10, <1>12
    <3>2. \A n, l \in Nat : n - (l - 2) = n - l + 2
      OBVIOUS
    <3> QED
      BY <1>5, <1>6, <2>5, <3>1, <3>2
  <2>7. r.in \in Seq(Byte) /\ Suffix(r.in, b) /\ e = s[Len(h) + 1]
    BY <1>1, <1>9, <1>10
  <2>8. ParsedTo(r, Append(h, e), b, s, m, off)
    BY <1>10, <2>5, <2>6, <2>7, ChainNext
  <2> QED
    BY <2>3, <2>8
<1>13. CASE ~(Len(in) >= 2)
  <2>1. ~(mid <= Len(b))
    <3>1. Len(in) = 1
      <4>1. \A l \in Nat : l >= 1 /\ ~(l >= 2) => l = 1
        OBVIOUS
      <4> QED
        BY <1>6, <1>13, <4>1
    <3>2. \A n \in Nat : ~(n - 1 + 2 <= n)
      OBVIOUS
    <3> QED
      BY <1>5, <1>6, <3>1, <3>2
  <2>2. Len(h) = m
    BY <1>1, <1>5, <2>1
  <2>3. g = h /\ r.in = <<>>
    <3>1. rest = <<>> /\ Len(<<>>) = 0
      BY <1>6, <1>7, <1>13
    <3>2. ~(Len(in) > 1)
      BY <1>6, <1>13
    <3> QED
      BY <1>9, <1>10, <1>11, <3>1, <3>2
  <2> QED
    BY <2>2, <2>3, ChainEnds
<1> QED
  BY <1>12, <1>13

LEMMA ChainCommand ==
    ASSUME NEW b, NEW s, NEW m, NEW off, Chain(b, s, m, off),
           NEW p \in Parsers, p.in # <<>>, NEW h, ParsedTo(p, h, b, s, m, off),
           NEW r, CommandRead(p, r)
    PROVE  ParsedTo(r, h, b, s, m, off)
<1>1. PICK e, mid, dlen :
             /\ e = s[Len(h) + 1] /\ Plain(e) /\ e \in Entries /\ Facing(p, b, mid, e)
             /\ mid \in Nat /\ dlen \in Nat /\ dlen = Len(e.data)
             /\ mid = off[Len(h)] + Len(LeadOf(s, Len(h) + 1))
             /\ Len(h) \in Nat /\ Len(h) <= m /\ m \in Nat /\ m <= Len(s) /\ Len(s) \in Nat
             /\ Len(h) < Len(s)
             /\ Len(h) < m => /\ off[Len(h) + 1] = mid + dlen /\ mid + dlen <= Len(b)
                              /\ Shows(b, mid, e.data)
             /\ Len(h) = m => QUEUE_BUF_SIZE <= mid + dlen
             /\ b \in Seq(Byte) /\ p.in \in Seq(Byte) /\ Suffix(p.in, b)
             /\ Len(b) < QUEUE_BUF_SIZE
  BY NextEntry
<1>2. /\ Suffix(r.in, b)
      /\ r.in # <<>> => Facing(r, b, mid, e)
      /\ mid <= Len(b) => r.in # <<>>
  <2>1. Plain(e) /\ b \in Seq(Byte) /\ Suffix(p.in, b) /\ Facing(p, b, mid, e)
    BY <1>1
  <2> QED
    BY <2>1, CommandStep, Zenon
<1>3. ASSUME Len(h) < m PROVE r.in # <<>>
  <2>1. mid + dlen <= Len(b) /\ mid \in Nat /\ dlen \in Nat /\ Len(b) \in Nat
    BY <1>1, <1>3
  <2>2. mid <= Len(b)
    BY <2>1
  <2> QED
    BY <1>2, <2>2
<1>4. Len(h) # Len(s)
  BY <1>1
<1> QED
  BY <1>1, <1>2, <1>3, <1>4 DEF ParsedTo

\* The parser starts behind the first byte, which is the function of the first
\* entry.
LEMMA ChainBegins ==
    ASSUME NEW q \in Queues, NEW s \in Seq(Entries), Written(q, s), s # <<>>, NEW p,
           p = IF ReadFunc(q.buf) = NO_FUNC THEN IdleParser
               ELSE Parser(Skip(q.buf, 1), 0, ReadFunc(q.buf), DefaultBlockSize(ReadFunc(q.buf)))
    PROVE  \E m : \E off : Chain(q.buf, s, m, off) /\ ParsedTo(p, <<>>, q.buf, s, m, off)
<1>1. PICK m \in 0..Len(s) : \E off \in [0..m -> Nat] : Laid(q.buf, s, m, off)
  BY DEF Written
<1>2. PICK off \in [0..m -> Nat] : Laid(q.buf, s, m, off)
  BY <1>1
<1>3. PICK b : b = q.buf
  OBVIOUS
<1>4. /\ b \in Seq(Byte) /\ Len(b) \in Nat /\ Len(b) < QUEUE_BUF_SIZE /\ Laid(b, s, m, off)
      /\ \A i \in 1..Len(s) : Plain(s[i])
      /\ s \in Seq(Entries) /\ Len(s) \in Nat /\ Len(s) >= 1 /\ m \in Nat /\ m <= Len(s)
  <2>1. b \in Seq(Byte) /\ Len(b) \in Nat
    BY <1>3, QueueParts
  <2>2. Len(s) \in Nat /\ Len(s) >= 1
    OBVIOUS
  <2> QED
    BY <1>2, <1>3, <2>1, <2>2 DEF Written
<1>5. Chain(b, s, m, off)
  BY <1>1, <1>2, <1>4 DEF Chain
<1>6. /\ <<>> \in Seq(Entries) /\ Len(<<>>) = 0 /\ 0 <= m
      /\ \A i \in 1..0 : <<>>[i] = s[i]
  BY <1>4
<1>7. CASE b = <<>>
  <2>1. p.in = <<>>
    BY <1>3, <1>7 DEF ReadFunc, ReadByte, Functions, NO_FUNC, IdleParser, Parser
  <2>2. m = 0
    <3> SUFFICES ASSUME m # 0 PROVE FALSE
      OBVIOUS
    <3>1. 1 \in 1..m /\ 1 \in 1..Len(s) /\ 1 - 1 = 0
      BY <1>4
    <3>2. Placed(b, s, off, 1) /\ off[0] = 1
      BY <1>4, <3>1 DEF Laid
    <3>3. Plain(s[1])
      BY <1>4, <3>1
    <3>4. s[1] \in Entries /\ Len(s[1].data) \in Byte /\ Len(s[1].data) \in Nat
      BY <3>3 DEF Plain, Entries
    <3>5. Len(LeadOf(s, 1)) \in Nat /\ Len(LeadOf(s, 1)) >= 1
      BY <1>4, <3>1, <3>4, LeadOfType
    <3>6. \E l, d \in Nat : l >= 1 /\ 1 + l + d <= 0
      BY <1>7, <3>1, <3>2, <3>4, <3>5 DEF Placed
    <3>7. \A l, d \in Nat : ~(l >= 1 /\ 1 + l + d <= 0)
      OBVIOUS
    <3> QED
      BY <3>6, <3>7, Zenon
  <2>3. ParsedTo(p, <<>>, b, s, m, off)
    <3>1. Chain(b, s, m, off) /\ Len(<<>>) = m /\ p.in = <<>>
      BY <1>5, <1>6, <2>1, <2>2
    <3>2. Suffix(<<>>, b)
      BY <1>4, <1>6 DEF Suffix
    <3> QED
      BY <1>6, <2>1, <2>2, <3>2 DEF ParsedTo
  <2> QED
    BY <1>3, <1>5, <2>3
<1>8. CASE b # <<>>
  <2>1. b[1] = s[1].func /\ Head(b) = b[1]
    BY <1>4, <1>8 DEF Laid
  <2>2. s[1].func \in Functions /\ s[1].func # NO_FUNC
    <3>1. s[1] \in Entries
      BY <1>4
    <3> QED
      BY <3>1 DEF Entries, Functions, NO_FUNC
  <2>3. ReadFunc(b) = s[1].func
    BY <1>8, <2>1, <2>2 DEF ReadFunc, ReadByte
  <2>4. /\ p.in = Skip(b, 1) /\ p.page = 0 /\ p.func = s[1].func
        /\ p.size = DefaultBlockSize(p.func)
    BY <1>3, <2>2, <2>3 DEF Parser
  <2>5. Suffix(b, b)
    <3>1. \A i \in 1..Len(b) : Len(b) - Len(b) + i = i
      BY <1>4
    <3> QED
      BY <1>4, <3>1 DEF Suffix
  <2>6. PICK in : in = p.in
    OBVIOUS
  <2>7. in \in Seq(Byte) /\ Suffix(in, b) /\ Len(in) = Len(b) - 1
    <3>1. 1 \in Nat /\ 1 <= Len(b)
      BY <1>4, <1>8
    <3> QED
      BY <1>4, <2>4, <2>5, <2>6, <3>1, SkipSuffix
  <2>8. Len(b) - Len(in) = off[Len(<<>>)]
    BY <1>4, <1>6, <2>7 DEF Laid
  <2>9. p.func = FuncBefore(s, Len(<<>>) + 1) /\ p.page = PageBefore(s, Len(<<>>) + 1)
    BY <1>6, <2>4 DEF FuncBefore, PageBefore
  <2>10. PICK h : h = <<>>
    OBVIOUS
  <2>11. h \in Seq(Entries) /\ Len(h) <= m /\ \A i \in 1..Len(h) : h[i] = s[i]
    BY <1>6, <2>10
  <2>12. ParsedTo(p, h, b, s, m, off)
    BY <1>2, <1>4, <2>4, <2>6, <2>7, <2>8, <2>9, <2>10, <2>11, FacedNext
  <2> QED
    BY <1>3, <1>5, <2>10, <2>12
<1> QED
  BY <1>7, <1>8

AllFit(b, s) == \A i \in DOMAIN s : Len(b) + 1 + Len(s[i].data) < QUEUE_BUF_SIZE

\* What was heard is the beginning of the chain, and all of it when every entry
\* found room.
LEMMA ChainHeard ==
    ASSUME NEW b, NEW s, NEW m, NEW off, Chain(b, s, m, off),
           NEW p, NEW h, ParsedTo(p, h, b, s, m, off)
    PROVE  /\ Len(h) <= Len(s)
           /\ h = SubSeq(s, 1, Len(h))
           /\ AllFit(b, s) /\ p.in = <<>> => h = s
<1>1. /\ s \in Seq(Entries) /\ Len(s) \in Nat /\ m \in Nat /\ m <= Len(s)
      /\ b \in Seq(Byte) /\ Len(b) \in Nat /\ Laid(b, s, m, off) /\ off \in [0..m -> Nat]
      /\ \A i \in 1..Len(s) : Plain(s[i])
  BY DEF Chain
<1>2. /\ h \in Seq(Entries) /\ Len(h) \in Nat /\ Len(h) <= m
      /\ \A i \in 1..Len(h) : h[i] = s[i]
      /\ Len(h) < m => p.in # <<>>
  BY DEF ParsedTo
<1>3. Len(h) <= Len(s)
  BY <1>1, <1>2
<1>4. \A u, v \in Seq(Entries) : Len(u) = Len(v) /\ (\A i \in 1..Len(u) : u[i] = v[i]) => u = v
  OBVIOUS
<1>5. h = SubSeq(s, 1, Len(h))
  <2>1. PICK x : x = SubSeq(s, 1, Len(h))
    OBVIOUS
  <2>2. x \in Seq(Entries) /\ Len(x) = Len(h) /\ \A i \in 1..Len(h) : x[i] = s[i]
    BY <1>1, <1>2, <1>3, <2>1
  <2>3. h = x
    BY <1>2, <1>4, <2>2
  <2> QED
    BY <2>1, <2>3
<1>6. ASSUME AllFit(b, s), p.in = <<>>
      PROVE  h = s
  <2>1. m = Len(s)
    <3> SUFFICES ASSUME m < Len(s) PROVE FALSE
      BY <1>1
    <3>1. m + 1 \in 1..Len(s) /\ m + 1 \in DOMAIN s /\ (m + 1) - 1 = m /\ off[m] \in Nat
      BY <1>1
    <3>2. Plain(s[m + 1])
      BY <1>1, <3>1
    <3>3. Len(s[m + 1].data) \in Byte /\ Len(s[m + 1].data) \in Nat
      BY <3>2 DEF Plain, Entries
    <3>4. Len(LeadOf(s, m + 1)) \in Nat
      BY <1>1, <3>1, <3>3, LeadOfType
    <3>5. PICK mid : mid = off[m] + Len(LeadOf(s, m + 1))
      OBVIOUS
    <3>6. /\ QUEUE_BUF_SIZE <= mid + Len(s[m + 1].data)
          /\ Len(b) < mid => Len(b) = QUEUE_BUF_SIZE - 1
      BY <1>1, <3>1, <3>5 DEF Laid, Cut
    <3>7. Len(b) + 1 + Len(s[m + 1].data) < QUEUE_BUF_SIZE
      BY <1>6, <3>1 DEF AllFit
    <3>8. \A n, k, d, size \in Nat :
            /\ size <= k + d
            /\ n < k => n = size - 1
            /\ n + 1 + d < size
            => FALSE
      OBVIOUS
    <3>9. mid \in Nat /\ QUEUE_BUF_SIZE \in Nat
      BY <3>1, <3>4, <3>5, QueueAssumption
    <3>10. PICK d \in Nat : d = Len(s[m + 1].data)
      BY <3>3
    <3>11. /\ Len(b) \in Nat /\ mid \in Nat /\ QUEUE_BUF_SIZE \in Nat /\ d \in Nat
           /\ QUEUE_BUF_SIZE <= mid + d
           /\ Len(b) < mid => Len(b) = QUEUE_BUF_SIZE - 1
           /\ Len(b) + 1 + d < QUEUE_BUF_SIZE
      BY <1>1, <3>6, <3>7, <3>9, <3>10, Zenon
    <3> QED
      BY <3>8, <3>11, Zenon
  <2>2. Len(h) = Len(s)
    BY <1>1, <1>2, <1>6, <2>1
  <2> QED
    BY <1>1, <1>2, <1>4, <2>2
<1> QED
  BY <1>3, <1>5, <1>6

----
(* The two nodes: what a node has written, and what its peer makes of it *)

\* While a packet of a node is parsed, that node's queue still holds it, and
\* the parser has followed its chain so far.
ParserInv ==
    at # "none" /\ from # "noise" =>
        /\ from = Peer(at) /\ sent = said[from]
        /\ \E m : \E off : /\ Chain(queue[from].buf, sent, m, off)
                           /\ ParsedTo(parser, heard, queue[from].buf, sent, m, off)

\* Callers of the library name no parameter whose low byte is a command, and
\* give data to the functions that take them and to no other.
PlainRequests ==
    \A e \in Requests : Low(e.param) \notin Commands /\ (e.data # <<>> <=> TakesData(e.func))

LEMMA LowOf ==
    ASSUME NEW page \in Byte, NEW low \in Byte
    PROVE  Low(page * Base + low) = low
<1>1. Base \in Int /\ page \in Int /\ low \in Int /\ Base > 0 /\ 0 <= low /\ low < Base
  BY BaseAssumption DEF Byte
<1>2. (page * Base + low) % Base = low
  BY <1>1, Z3
<1> QED
  BY <1>2 DEF Low

LEMMA EncodeNotEmpty ==
    ASSUME NEW p \in Params, NEW v \in Values(p)
    PROVE  Encode(p, v) # <<>>
<1>1. Table[p].type \in Types /\ Table[p].size \in Byte \ {0}
  BY TableAssumption
<1>2. CASE Table[p].type \in {"BIN", "CONST_BIN"}
  <2>1. v \in [1..Table[p].size -> Byte] /\ Table[p].size \in Nat /\ Table[p].size # 0
    BY <1>1, <1>2, BaseAssumption DEF Values, Byte
  <2>2. Encode(p, v) = v
    BY <1>2 DEF Encode
  <2>3. Len(v) = Table[p].size
    BY <2>1
  <2> QED
    BY <2>1, <2>2, <2>3
<1>3. CASE Table[p].type = "16B"
  BY <1>3 DEF Encode
<1>4. CASE Table[p].type \in {"8B", "1B", "8B_RANGE"}
  BY <1>4 DEF Encode
<1> QED
  BY <1>1, <1>2, <1>3, <1>4 DEF Types

LEMMA AnswerPlain ==
    ASSUME NEW num \in ParamNums, NEW answer \in Seq(Byte), Len(answer) \in Byte,
           answer # <<>> => Low(num) \notin Commands
    PROVE  /\ Plain(Entry(BGCP_FUNC_RESP, num, answer))
           /\ Refusal(Entry(BGCP_FUNC_RESP, num, answer)) <=> answer = <<>>
<1>1. PICK e : e = Entry(BGCP_FUNC_RESP, num, answer)
  OBVIOUS
<1>2. e \in Entries /\ e.func = BGCP_FUNC_RESP /\ e.param = num /\ e.data = answer
  BY <1>1 DEF Entry, Entries, BGCP_FUNC_RESP, Functions
<1>3. Refusal(e) <=> answer = <<>>
  BY <1>2 DEF Refusal
<1>4. TakesData(e.func)
  BY <1>2 DEF TakesData
<1>5. Plain(e)
  BY <1>2, <1>3, <1>4 DEF Plain
<1> QED
  BY <1>1, <1>3, <1>5

LEMMA NothingWritten == Written(EmptyQueue, <<>>)
<1>1. EmptyQueue.buf = <<>> /\ Len(<<>>) = 0 /\ 0 < QUEUE_BUF_SIZE
  BY QueueAssumption DEF EmptyQueue, Queue
<1> QED
  BY <1>1 DEF Written

\* perform and its answers keep the chain of their node's queue, and touch no
\* other queue.
LEMMA PerformWritten ==
    ASSUME BgcpInv, WriterInv, NEW n \in Nodes, NEW num \in ParamNums, NEW in \in Seq(Byte),
           NEW size \in Nat, NEW complete \in BOOLEAN,
           complete => size <= Len(in) /\ Low(num) \notin Commands,
           PerformParam(n, num, in, size, complete)
    PROVE  /\ WriterInv'
           /\ \A k \in Nodes : k # n => queue'[k] = queue[k] /\ said'[k] = said[k]
<1>1. /\ queue \in [Nodes -> Queues] /\ said \in [Nodes -> Seq(Entries)]
      /\ \A k \in Nodes : Written(queue[k], said[k])
  BY DEF BgcpInv, TypeOK, WriterInv
<1>2. ASSUME NEW answer \in Seq(Byte), Len(answer) \in Byte,
             answer # <<>> => Low(num) \notin Commands,
             NEW r, NEW e, e = Entry(BGCP_FUNC_RESP, num, answer),
             answer # <<>> => r = PushParamData(queue[n], BGCP_FUNC_RESP, num, answer),
             answer = <<>> => r = PushNoSupParam(queue[n], num),
             queue' = [queue EXCEPT ![n] = r],
             said' = [said EXCEPT ![n] = Append(said[n], e)]
      PROVE  /\ WriterInv'
             /\ \A k \in Nodes : k # n => queue'[k] = queue[k] /\ said'[k] = said[k]
  <2>1. Plain(e) /\ (Refusal(e) <=> answer = <<>>)
    BY <1>2, AnswerPlain
  <2>2. e.func = BGCP_FUNC_RESP /\ e.param = num /\ e.data = answer
    BY <1>2 DEF Entry
  <2>3. /\ queue[n] \in Queues /\ said[n] \in Seq(Entries) /\ Written(queue[n], said[n])
        /\ ~Refusal(e) => r = PushParamData(queue[n], e.func, e.param, e.data)
        /\ Refusal(e) => r = PushNoSupParam(queue[n], e.param)
    BY <1>1, <1>2, <2>1, <2>2
  <2>4. Written(r, Append(said[n], e))
    BY <2>1, <2>3, WrittenStep
  <2>5. queue'[n] = r /\ said'[n] = Append(said[n], e)
    BY <1>1, <1>2
  <2>6. \A k \in Nodes : k # n => queue'[k] = queue[k] /\ said'[k] = said[k]
    BY <1>1, <1>2
  <2> QED
    BY <1>1, <2>4, <2>5, <2>6 DEF WriterInv
<1>3. CASE UNCHANGED <<queue, said>>
  BY <1>1, <1>3 DEF WriterInv
<1>4. CASE Unknown(num) /\ NotSupported(n, num)
  <2>1. <<>> \in Seq(Byte) /\ Len(<<>>) \in Byte
    BY Bytes
  <2>2. CASE UNCHANGED <<queue, said>>
    BY <1>3, <2>2
  <2>3. CASE ~UNCHANGED <<queue, said>>
    <3>1. PICK r, e : r = PushNoSupParam(queue[n], num) /\ e = Entry(BGCP_FUNC_RESP, num, <<>>)
      OBVIOUS
    <3>2. /\ queue' = [queue EXCEPT ![n] = r]
          /\ said' = [said EXCEPT ![n] = Append(said[n], e)]
      BY <1>4, <2>3, <3>1 DEF NotSupported
    <3> QED
      BY <1>2, <2>1, <3>1, <3>2
  <2> QED
    BY <2>2, <2>3
<1>5. PICK data : data = IF complete /\ TakesData(parser.func) THEN SubSeq(in, 1, size) ELSE <<>>
  OBVIOUS
<1>6. data \in Seq(Byte)
  BY <1>5
<1>7. CASE num \in Params /\ complete /\ Processed(n, num, data)
  <2>1. CASE UNCHANGED <<queue, said>>
    BY <1>3, <2>1
  <2>2. CASE ~UNCHANGED <<queue, said>>
    <3>1. PICK new : new = IF is_write_func(parser.func)
                           THEN Update(num, vals[n][num], inc_val(parser.func), data)
                           ELSE vals[n][num]
      OBVIOUS
    <3>2. vals[n][num] \in Values(num)
      BY <1>7 DEF BgcpInv, InRange
    <3>3. new \in Values(num)
      BY <1>6, <1>7, <3>1, <3>2, UpdateInRange, Reading
    <3>4. PICK answer : answer = Encode(num, new)
      OBVIOUS
    <3>5. answer \in Seq(Byte) /\ Len(answer) \in Byte /\ answer # <<>>
      BY <1>7, <3>3, <3>4, EncodeType, EncodeNotEmpty
    <3>6. PICK r, e : /\ r = PushParamData(queue[n], BGCP_FUNC_RESP, num, answer)
                      /\ e = Entry(BGCP_FUNC_RESP, num, answer)
      OBVIOUS
    <3>7. /\ queue' = [queue EXCEPT ![n] = r]
          /\ said' = [said EXCEPT ![n] = Append(said[n], e)]
      BY <1>7, <2>2, <3>1, <3>4, <3>6 DEF Processed
    <3>8. Low(num) \notin Commands
      BY <1>7
    <3> QED
      BY <1>2, <3>5, <3>6, <3>7, <3>8
  <2> QED
    BY <2>1, <2>2
<1> QED
  BY <1>3, <1>4, <1>5, <1>7 DEF PerformParam

\* A step of the parser that follows the chain, whichever it is, keeps to it.
LEMMA ParserKept ==
    ASSUME BgcpInv, ParserInv, at # "none", UNCHANGED <<at, from, sent>>,
           \A k \in Nodes : k # at => queue'[k] = queue[k] /\ said'[k] = said[k],
           \A b, m, off : Chain(b, sent, m, off) /\ ParsedTo(parser, heard, b, sent, m, off)
                          => ParsedTo(parser', heard', b, sent, m, off)
    PROVE  ParserInv'
<1> SUFFICES ASSUME from # "noise"
             PROVE  /\ from' = Peer(at') /\ sent' = said'[from']
                    /\ \E m : \E off :
                          /\ Chain(queue'[from'].buf, sent', m, off)
                          /\ ParsedTo(parser', heard', queue'[from'].buf, sent', m, off)
  BY DEF ParserInv
<1>1. at \in Nodes /\ from = Peer(at) /\ from \in Nodes /\ from # at
  BY DEF ParserInv, BgcpInv, TypeOK, Peer, Nodes
<1>2. queue'[from] = queue[from] /\ said'[from] = said[from]
  BY <1>1
<1>3. sent = said[from]
  BY DEF ParserInv
<1>4. PICK m : \E off : /\ Chain(queue[from].buf, sent, m, off)
                        /\ ParsedTo(parser, heard, queue[from].buf, sent, m, off)
  BY DEF ParserInv
<1>5. PICK off : /\ Chain(queue[from].buf, sent, m, off)
                 /\ ParsedTo(parser, heard, queue[from].buf, sent, m, off)
  BY <1>4
<1>6. ParsedTo(parser', heard', queue[from].buf, sent, m, off)
  BY <1>5
<1> QED
  BY <1>1, <1>2, <1>3, <1>5, <1>6

\* parse empties the queue of its own node only, and begins behind the
\* function of the first entry.
LEMMA BeginParseKept ==
    ASSUME BgcpInv, WriterInv, NEW n \in Nodes, NEW packet, NEW sender, NEW entries,
           BeginParse(n, packet, sender, entries),
           sender # "noise" => /\ sender = Peer(n) /\ entries = said[sender] /\ entries # <<>>
                               /\ packet = queue[sender].buf
    PROVE  WriterInv' /\ ParserInv'
<1>1. /\ queue \in [Nodes -> Queues] /\ said \in [Nodes -> Seq(Entries)]
      /\ \A k \in Nodes : Written(queue[k], said[k])
  BY DEF BgcpInv, TypeOK, WriterInv
<1>2. \A k \in Nodes : /\ k # n => queue'[k] = queue[k] /\ said'[k] = said[k]
                       /\ \/ queue'[k] = queue[k] /\ said'[k] = said[k]
                          \/ queue'[k] = EmptyQueue /\ said'[k] = <<>>
  BY <1>1 DEF BeginParse
<1>3. WriterInv'
  BY <1>1, <1>2, NothingWritten DEF WriterInv
<1>4. ParserInv'
  <2> SUFFICES ASSUME sender # "noise"
               PROVE  /\ from' = Peer(at') /\ sent' = said'[from']
                      /\ \E m : \E off :
                            /\ Chain(queue'[from'].buf, sent', m, off)
                            /\ ParsedTo(parser', heard', queue'[from'].buf, sent', m, off)
    BY DEF ParserInv, BeginParse
  <2>1. at' = n /\ from' = sender /\ sent' = entries /\ heard' = <<>>
    BY DEF BeginParse
  <2>2. sender = Peer(n) /\ sender \in Nodes /\ sender # n
    BY DEF Peer, Nodes
  <2>3. queue'[sender] = queue[sender] /\ said'[sender] = said[sender]
    BY <1>2, <2>2
  <2>4. PICK q, s : q = queue[sender] /\ s = said[sender]
    OBVIOUS
  <2>5. /\ q \in Queues /\ s \in Seq(Entries) /\ Written(q, s) /\ s # <<>>
        /\ packet = q.buf /\ entries = s
    BY <1>1, <2>2, <2>4
  <2>6. parser' = IF ReadFunc(q.buf) = NO_FUNC THEN IdleParser
                  ELSE Parser(Skip(q.buf, 1), 0, ReadFunc(q.buf), DefaultBlockSize(ReadFunc(q.buf)))
    BY <2>5 DEF BeginParse
  <2>7. \E m : \E off : Chain(q.buf, s, m, off) /\ ParsedTo(parser', <<>>, q.buf, s, m, off)
    BY <2>5, <2>6, ChainBegins
  <2> QED
    BY <2>1, <2>2, <2>3, <2>4, <2>5, <2>7
<1> QED
  BY <1>3, <1>4

LEMMA ParseStepKept ==
    ASSUME BgcpInv, WriterInv, ParserInv, NEW n \in Nodes, ParseStep(n)
    PROVE  WriterInv' /\ ParserInv'
<1>1. /\ at = n /\ at # "none" /\ parser.in # <<>> /\ parser \in Parsers
      /\ UNCHANGED <<at, from, sent>>
  BY DEF ParseStep, SetNewPage, SetNewFunc, SetDataSize, Perform, PerformNotSup, PerformParam,
         Parsing, Nodes, BgcpInv, TypeOK
<1>2. /\ parser.in \in Seq(Byte) /\ parser.page \in Byte /\ parser.size \in Nat
      /\ Head(parser.in) \in Byte /\ Tail(parser.in) \in Seq(Byte)
      /\ Len(Tail(parser.in)) = Len(parser.in) - 1
      /\ Skip(parser.in, 2) \in Seq(Byte) /\ ReadByte(Tail(parser.in)) \in Byte
  <2>1. parser.in \in Seq(Byte) /\ parser.page \in Byte /\ parser.size \in Byte
    BY ParserParts DEF BgcpInv
  <2>2. /\ Head(parser.in) \in Byte /\ Tail(parser.in) \in Seq(Byte)
        /\ Len(Tail(parser.in)) = Len(parser.in) - 1
    BY <1>1, <2>1
  <2>3. parser.size \in Nat
    BY <2>1, BaseAssumption DEF Byte
  <2> QED
    BY <2>1, <2>2, <2>3, SkipType, Reading
<1>3. CASE SetNewPage(n) \/ SetNewFunc(n) \/ SetDataSize(n)
  <2>1. CommandRead(parser, parser') /\ UNCHANGED <<queue, said, heard>>
    BY <1>3 DEF SetNewPage, SetNewFunc, SetDataSize, CommandRead, FuncRead, PageRead, SizeRead
  <2>2. WriterInv'
    BY <2>1 DEF WriterInv
  <2>3. \A b, m, off : Chain(b, sent, m, off) /\ ParsedTo(parser, heard, b, sent, m, off)
                       => ParsedTo(parser', heard', b, sent, m, off)
    BY <1>1, <2>1, ChainCommand
  <2> QED
    BY <1>1, <2>1, <2>2, <2>3, ParserKept
<1>4. CASE Perform(n)
  <2>1. PICK num : num = parser.page * Base + Head(parser.in)
    OBVIOUS
  <2>2. PICK complete \in BOOLEAN :
            complete = (parser.func # NO_FUNC /\ parser.size <= Len(parser.in) - 1)
    OBVIOUS
  <2>3. Head(parser.in) \notin Commands
    BY <1>4 DEF Perform, Commands
  <2>4. num \in ParamNums /\ Low(num) \notin Commands
    BY <1>2, <2>1, <2>3, Number, LowOf
  <2>5. PerformParam(n, num, Tail(parser.in), parser.size, complete)
    BY <1>4, <2>1, <2>2 DEF Perform
  <2>6. complete => parser.size <= Len(Tail(parser.in)) /\ Low(num) \notin Commands
    BY <1>2, <2>2, <2>4
  <2>7. WriterInv' /\ \A k \in Nodes : k # n => queue'[k] = queue[k] /\ said'[k] = said[k]
    BY <1>2, <2>4, <2>5, <2>6, PerformWritten
  <2>8. Taken(parser, heard, num, Tail(parser.in), parser.size, complete, parser', heard')
    BY <2>5 DEF PerformParam, Taken
  <2>9. Taken(parser, heard, parser.page * Base + Head(parser.in), Tail(parser.in), parser.size,
              parser.func # NO_FUNC /\ parser.size <= Len(parser.in) - 1, parser', heard')
    BY <2>1, <2>2, <2>8
  <2>10. \A b, m, off : Chain(b, sent, m, off) /\ ParsedTo(parser, heard, b, sent, m, off)
                        => ParsedTo(parser', heard', b, sent, m, off)
    BY <1>1, <2>3, <2>9, PerformStep
  <2> QED
    BY <1>1, <2>7, <2>10, ParserKept
<1>5. CASE PerformNotSup(n)
  <2>1. PICK num : num = parser.page * Base + ReadByte(Tail(parser.in))
    OBVIOUS
  <2>2. num \in ParamNums
    BY <1>2, <2>1, Number
  <2>3. PerformParam(n, num, Skip(parser.in, 2), 0, FALSE)
    BY <1>5, <2>1 DEF PerformNotSup
  <2>4. WriterInv' /\ \A k \in Nodes : k # n => queue'[k] = queue[k] /\ said'[k] = said[k]
    BY <1>2, <2>2, <2>3, PerformWritten
  <2>5. Taken(parser, heard, parser.page * Base + ReadByte(Tail(parser.in)), Skip(parser.in, 2),
              0, FALSE, parser', heard')
    BY <2>1, <2>3 DEF PerformParam, Taken
  <2>6. Head(parser.in) = BGCP_CMD_NOT_SUP
    BY <1>5 DEF PerformNotSup
  <2>7. \A b, m, off : Chain(b, sent, m, off) /\ ParsedTo(parser, heard, b, sent, m, off)
                       => ParsedTo(parser', heard', b, sent, m, off)
    BY <1>1, <2>5, <2>6, NotSupStep
  <2> QED
    BY <1>1, <2>4, <2>7, ParserKept
<1> QED
  BY <1>3, <1>4, <1>5 DEF ParseStep

LEMMA InitUnderstoodInv == Init => WriterInv /\ ParserInv
  BY NothingWritten DEF Init, WriterInv, ParserInv

LEMMA NextUnderstoodInv ==
    ASSUME PlainRequests, BgcpInv, WriterInv, ParserInv, [Next]_vars
    PROVE  WriterInv' /\ ParserInv'
<1>1. /\ queue \in [Nodes -> Queues] /\ said \in [Nodes -> Seq(Entries)]
      /\ \A k \in Nodes : Written(queue[k], said[k])
      /\ "master" \in Nodes /\ "device" \in Nodes
  BY DEF BgcpInv, TypeOK, WriterInv, Nodes
<1>2. ASSUME NEW n \in Nodes, ParseStep(n) PROVE WriterInv' /\ ParserInv'
  BY <1>2, ParseStepKept
<1>3. ASSUME NEW n \in Nodes, SendResponse(n) PROVE WriterInv' /\ ParserInv'
  <2>1. BeginParse(Peer(n), queue[n].buf, n, said[n]) /\ queue[n].buf # <<>>
    BY <1>3 DEF SendResponse
  <2>2. n = Peer(Peer(n)) /\ Peer(n) \in Nodes
    BY DEF Peer, Nodes
  <2>3. said[n] # <<>>
    <3>1. EmptyQueue.buf = <<>>
      BY DEF EmptyQueue, Queue
    <3> QED
      BY <1>1, <2>1, <3>1 DEF Written
  <2> QED
    BY <2>1, <2>2, <2>3, BeginParseKept
<1>4. ASSUME NEW n \in Nodes, EndRound(n) PROVE WriterInv' /\ ParserInv'
  <2>1. /\ queue' = [queue EXCEPT !["master"] = EmptyQueue]
        /\ said' = [said EXCEPT !["master"] = <<>>] /\ at' = "none"
    BY <1>4 DEF EndRound
  <2>2. \A k \in Nodes : \/ queue'[k] = queue[k] /\ said'[k] = said[k]
                         \/ queue'[k] = EmptyQueue /\ said'[k] = <<>>
    BY <1>1, <2>1
  <2> QED
    BY <1>1, <2>1, <2>2, NothingWritten DEF WriterInv, ParserInv
<1>5. ASSUME NEW e \in Requests, Ask(e) PROVE WriterInv' /\ ParserInv'
  <2>1. PICK r : r = PushParamData(queue["master"], e.func, e.param, e.data)
    OBVIOUS
  <2>2. /\ queue' = [queue EXCEPT !["master"] = r] /\ at' = "none"
        /\ said' = [said EXCEPT !["master"] = Append(said["master"], e)]
    BY <1>5, <2>1 DEF Ask
  <2>3. Plain(e) /\ ~Refusal(e)
    BY RequestsAssumption DEF PlainRequests, Plain, Refusal, TakesData
  <2>4. Written(r, Append(said["master"], e))
    BY <1>1, <2>1, <2>3, WrittenStep
  <2>5. \A k \in Nodes : \/ queue'[k] = queue[k] /\ said'[k] = said[k]
                         \/ queue'[k] = r /\ said'[k] = Append(said["master"], e)
    BY <1>1, <2>2
  <2> QED
    BY <1>1, <2>2, <2>4, <2>5 DEF WriterInv, ParserInv
<1>6. ASSUME NEW packet \in Noise, SendNoise(packet) PROVE WriterInv' /\ ParserInv'
  BY <1>1, <1>6, BeginParseKept DEF SendNoise
<1>7. ASSUME SendRequest PROVE WriterInv' /\ ParserInv'
  <2>1. BeginParse("device", queue["master"].buf, "master", said["master"]) /\ said["master"] # <<>>
    BY <1>7 DEF SendRequest
  <2>2. "master" = Peer("device")
    BY DEF Peer
  <2> QED
    BY <1>1, <2>1, <2>2, BeginParseKept
<1>8. ASSUME Restart PROVE WriterInv' /\ ParserInv'
  BY <1>8, NothingWritten DEF Restart, WriterInv, ParserInv
<1>9. CASE UNCHANGED vars
  BY <1>1, <1>9 DEF vars, WriterInv, ParserInv
<1> QED
  BY <1>2, <1>3, <1>4, <1>5, <1>6, <1>7, <1>8, <1>9 DEF Next

LEMMA ParserInvUnderstood == ParserInv => Understood
<1> SUFFICES ASSUME ParserInv, at # "none", from # "noise"
             PROVE  /\ Len(heard) <= Len(sent)
                    /\ heard = SubSeq(sent, 1, Len(heard))
                    /\ Fitted /\ parser.in = <<>> => heard = sent
  BY DEF Understood
<1>1. PICK b, s, p, h : b = queue[from].buf /\ s = sent /\ p = parser /\ h = heard
  OBVIOUS
<1>2. PICK m : \E off : Chain(b, s, m, off) /\ ParsedTo(p, h, b, s, m, off)
  BY <1>1 DEF ParserInv
<1>3. PICK off : Chain(b, s, m, off) /\ ParsedTo(p, h, b, s, m, off)
  BY <1>2
<1>4. /\ Len(h) <= Len(s)
      /\ h = SubSeq(s, 1, Len(h))
      /\ AllFit(b, s) /\ p.in = <<>> => h = s
  BY <1>3, ChainHeard
<1>5. Fitted => AllFit(b, s)
  BY <1>1 DEF Fitted, AllFit
<1> QED
  BY <1>1, <1>4, <1>5

\* What bgcp_data_processor.c makes of a packet is the beginning of what
\* bgcp_queue.c was told to put there, entry by entry, and all of it when every
\* entry found room; answers and refusals of a device that is also fed with
\* packets of no writer included.
THEOREM UnderstoodHolds == PlainRequests => (Spec => []Understood)
<1> SUFFICES ASSUME PlainRequests PROVE Spec => []Understood
  OBVIOUS
<1>1. Init => BgcpInv /\ WriterInv /\ ParserInv
  BY InitBgcpInv, InitUnderstoodInv
<1>2. BgcpInv /\ WriterInv /\ ParserInv /\ [Next]_vars => (BgcpInv /\ WriterInv /\ ParserInv)'
  BY NextBgcpInv, NextUnderstoodInv
<1>3. BgcpInv /\ WriterInv /\ ParserInv => Understood
  BY ParserInvUnderstood
<1> QED
  BY <1>1, <1>2, <1>3, PTL DEF Spec

----
(***************************************************************************)
(* The master's copies after an answer.                                    *)
(***************************************************************************)
\* The entries of a and s, as far as a goes, are about the same parameters.
FirstSame(a, s) == \A i \in 1..Len(a) : a[i].param = s[i].param

\* The answers a to the request s, of which h has been heard and in is left:
\* at most one for each entry, and if none is missing they are in order.
Matched(a, s, h, in) ==
    /\ Len(a) <= Len(s)
    /\ in # <<>> => Len(a) <= Len(h)
    /\ in # <<>> /\ Len(a) = Len(h) => FirstSame(a, s)
    /\ Len(a) = Len(s) => FirstSame(a, s)

OnlyReads == \A i \in DOMAIN asked : is_read_func(asked[i].func)

\* A parameter without an update function keeps its first value.
ConstKept == \A n \in Nodes, p \in Params : Table[p].type = "CONST_BIN" => vals[n][p] = Start[p]

\* An answer about a bound parameter holds one of its values.
ValueIn(e) ==
    e.param \in Params =>
        \E v \in Values(e.param) : /\ e.data = Encode(e.param, v)
                                   /\ Table[e.param].type = "CONST_BIN" => v = Start[e.param]

AnswersMade ==
    \A i \in 1..Len(said["device"]) :
        said["device"][i].func = BGCP_FUNC_RESP /\ ValueIn(said["device"][i])

\* The last entry about p in the answers a holds v.
LastIs(a, p, v) ==
    \E i \in 1..Len(a) : /\ a[i].param = p /\ a[i].data = Encode(p, v)
                         /\ \A j \in 1..Len(a) : j > i => a[j].param # p

\* The last answer about a parameter holds the value that the device has now.
LastTells ==
    \A p \in Params : (\E i \in 1..Len(said["device"]) : said["device"][i].param = p)
                      => LastIs(said["device"], p, vals["device"][p])

\* The last answer about a parameter that the master has heard is its copy.
Learned(h, v) ==
    \A i \in 1..Len(h) :
        h[i].param \in Params /\ (\A j \in 1..Len(h) : j > i => h[j].param # h[i].param)
        => Encode(h[i].param, v[h[i].param]) = h[i].data

AskedInv ==
    at = "device" /\ from = "master" /\ QUEUE_BUF_SIZE > 1 =>
        /\ sent = asked
        /\ Matched(said["device"], asked, heard, parser.in)
        /\ OnlyReads => LastTells

LearnedInv ==
    at = "master" =>
        /\ QUEUE_BUF_SIZE > 1 /\ from = "device" /\ queue["master"] = EmptyQueue
        /\ Len(said["device"]) <= Len(asked)
        /\ Len(said["device"]) = Len(asked) => FirstSame(said["device"], asked)
        /\ OnlyReads => LastTells
        /\ Learned(heard, vals["master"])

MirrorInv == ConstKept /\ AnswersMade /\ AskedInv /\ LearnedInv

LEMMA MatchedStep ==
    ASSUME NEW s \in Seq(Entries), NEW a \in Seq(Entries), NEW h \in Seq(Entries), Len(h) < Len(s),
           NEW in, in # <<>>, Matched(a, s, h, in),
           NEW e \in Entries, e.param = s[Len(h) + 1].param,
           NEW c, c = a \/ c = Append(a, e),
           NEW g, NEW out, Len(g) = Len(h) + 1 \/ (Len(g) = Len(h) /\ out = <<>>)
    PROVE  Matched(c, s, g, out)
<1>1. /\ Len(s) \in Nat /\ Len(a) \in Nat /\ Len(h) \in Nat /\ Len(a) <= Len(h)
      /\ Len(a) = Len(h) => FirstSame(a, s)
  BY DEF Matched
<1>2. CASE c = a
  BY <1>1, <1>2 DEF Matched
<1>3. CASE c = Append(a, e)
  <2>1. /\ Len(c) = Len(a) + 1 /\ c[Len(a) + 1] = e
        /\ \A i \in 1..Len(a) : c[i] = a[i]
        /\ \A i \in 1..Len(c) : i \in 1..Len(a) \/ i = Len(a) + 1
    BY <1>1, <1>3
  <2>2. Len(a) = Len(h) => FirstSame(c, s)
    BY <1>1, <2>1 DEF FirstSame
  <2> QED
    BY <1>1, <2>1, <2>2 DEF Matched
<1> QED
  BY <1>2, <1>3

LEMMA MatchedNothing ==
    ASSUME NEW s \in Seq(Entries), NEW in
    PROVE  Matched(<<>>, s, <<>>, in)
  BY DEF Matched, FirstSame

\* Two values that are sent alike are the same.
LEMMA EncodeInjective ==
    ASSUME NEW p \in Params, NEW v \in Values(p), NEW w \in Values(p), Encode(p, v) = Encode(p, w)
    PROVE  v = w
<1>1. Table[p].type \in Types
  BY TableAssumption
<1>2. CASE Table[p].type \in {"BIN", "CONST_BIN"}
  BY <1>2 DEF Encode
<1>3. CASE Table[p].type = "16B"
  <2>1. Encode(p, v) = <<v % Base, v \div Base>> /\ Encode(p, w) = <<w % Base, w \div Base>>
    BY <1>3 DEF Encode
  <2>2. v % Base = w % Base /\ v \div Base = w \div Base
    <3>1. \A a, b, c, d : <<a, b>> = <<c, d>> => a = c /\ b = d
      OBVIOUS
    <3>2. <<v % Base, v \div Base>> = <<w % Base, w \div Base>>
      BY <2>1
    <3> QED
      BY <3>1, <3>2, Zenon
  <2>3. v \in ParamNums /\ w \in ParamNums
    <3>1. Base * Base \in Int /\ Table[p].size = 2
      BY <1>3, BaseAssumption, TableAssumption
    <3> QED
      BY <1>3, <3>1, Limits DEF Values, Words, ParamNums
  <2> QED
    BY <2>2, <2>3, Recombined DEF Page, Low
<1>4. CASE Table[p].type \in {"8B", "1B", "8B_RANGE"}
  BY <1>4 DEF Encode
<1> QED
  BY <1>1, <1>2, <1>3, <1>4 DEF Types

\* Taking over a value that another copy has sent makes the copies equal.
LEMMA UpdateTells ==
    ASSUME NEW p \in Params, NEW v \in Values(p), NEW w \in Values(p),
           Table[p].type = "CONST_BIN" => v = w
    PROVE  Update(p, v, 0, Encode(p, w)) = w
<1>1. Table[p].type \in Types /\ Table[p].size \in Byte \ {0}
  BY TableAssumption
<1>2. CASE Table[p].type = "BIN"
  <2>1. w \in [1..Table[p].size -> Byte] /\ Table[p].size \in Nat
    BY <1>1, <1>2, BaseAssumption DEF Values, Byte
  <2>2. Len(w) = Table[p].size
    BY <2>1
  <2> QED
    BY <1>2, <2>2 DEF Update, Encode
<1>3. CASE Table[p].type = "CONST_BIN"
  BY <1>3 DEF Update
<1>4. CASE Table[p].type = "1B"
  <2>1. w = 0 \/ w = 1
    BY <1>4 DEF Values
  <2>2. Encode(p, w) = <<w>> /\ Update(p, v, 0, Encode(p, w)) = UpdateBool(v, <<w>>)
    BY <1>4 DEF Encode, Update
  <2>3. <<0>> # <<1>>
    OBVIOUS
  <2> QED
    BY <2>1, <2>2, <2>3 DEF UpdateBool
<1>5. CASE Table[p].type = "8B_RANGE"
  <2>1. \E i \in DOMAIN Table[p].list : Table[p].list[i] = w
    BY <1>5 DEF Values
  <2>2. Encode(p, w) = <<w>> /\ Update(p, v, 0, Encode(p, w)) = UpdateRange(p, v, 0, <<w>>)
    BY <1>5 DEF Encode, Update
  <2>3. Len(<<w>>) = 1 /\ <<w>>[1] = w
    OBVIOUS
  <2> QED
    BY <2>1, <2>2, <2>3 DEF UpdateRange
<1>6. CASE Table[p].type \in {"8B", "16B"}
  <2>1. /\ w \in Int /\ Table[p].min \in Int /\ Table[p].max \in Int
        /\ Table[p].min <= w /\ w <= Table[p].max
    BY <1>6, Limits DEF Values
  <2>2. Clamp(w, Table[p].min, Table[p].max) = w
    BY <2>1 DEF Clamp
  <2>3. Len(Encode(p, w)) = Table[p].size /\ Decode(Encode(p, w)) = w
    <3>1. CASE Table[p].type = "8B"
      <4>1. Encode(p, w) = <<w>> /\ Table[p].size = 1
        BY <3>1, TableAssumption DEF Encode
      <4> QED
        BY <4>1 DEF Decode
    <3>2. CASE Table[p].type = "16B"
      <4>1. Encode(p, w) = <<w % Base, w \div Base>> /\ Table[p].size = 2
        BY <3>2, TableAssumption DEF Encode
      <4>2. w \in ParamNums
        <5>1. Base * Base \in Int
          BY BaseAssumption
        <5> QED
          BY <2>1, <3>2, <4>1, <5>1, Limits DEF Words, ParamNums
      <4>3. Page(w) * Base + Low(w) = w /\ Page(w) \in Int /\ Low(w) \in Int
        BY <4>2, Recombined, Halves, BaseAssumption DEF Page, Low, Byte
      <4>4. Page(w) * Base = Base * Page(w) /\ Base * Page(w) \in Int
        BY <4>3, BaseAssumption
      <4>5. Low(w) + Base * Page(w) = w
        BY <4>3, <4>4
      <4>6. Decode(Encode(p, w)) = Low(w) + Base * Page(w)
        BY <4>1 DEF Decode, Low, Page
      <4> QED
        BY <4>1, <4>5, <4>6
    <3> QED
      BY <1>6, <3>1, <3>2
  <2> QED
    BY <1>6, <2>2, <2>3 DEF Update, UpdateNum
<1> QED
  BY <1>1, <1>2, <1>3, <1>4, <1>5, <1>6 DEF Types

\* The value that perform gives to a parameter.
NewValue(n, num, data) ==
    IF is_write_func(parser.func) THEN Update(num, vals[n][num], inc_val(parser.func), data)
    ELSE vals[n][num]

\* Only the value of num at node n changes.
Became(n, num, new) ==
    \A k \in Nodes, p \in Params : vals'[k][p] = IF k = n /\ p = num THEN new ELSE vals[k][p]

\* What perform may do: answer with the new value, refuse, take a value over,
\* or nothing.
Effect(n, num, in, size, complete, data, new) ==
    /\ data = IF complete /\ TakesData(parser.func) THEN SubSeq(in, 1, size) ELSE <<>>
    /\ heard' = IF complete \/ (Head(parser.in) = BGCP_CMD_NOT_SUP /\ Len(parser.in) > 1)
                THEN Append(heard, Entry(parser.func, num, data)) ELSE heard
    /\ parser'.in = Skip(in, size)
    /\ UNCHANGED <<at, from, sent, asked>>
    /\ \A k \in Nodes : k # n => queue'[k] = queue[k] /\ said'[k] = said[k]
    /\ num \in Params => new \in Values(num) /\ new = NewValue(n, num, data)
    /\ \/ /\ num \in Params /\ complete /\ is_read_func(parser.func)
          /\ Became(n, num, new)
          /\ said'[n] = Append(said[n], Entry(BGCP_FUNC_RESP, num, Encode(num, new)))
       \/ /\ num \notin Params /\ is_read_func(parser.func) /\ UNCHANGED vals
          /\ said'[n] = Append(said[n], Entry(BGCP_FUNC_RESP, num, <<>>))
       \/ /\ num \in Params /\ complete /\ ~is_read_func(parser.func)
          /\ Became(n, num, new) /\ UNCHANGED <<queue, said>>
       \/ (num \notin Params \/ ~complete) /\ UNCHANGED <<vals, queue, said>>

LEMMA PerformEffect ==
    ASSUME BgcpInv, NEW n \in Nodes, NEW num \in ParamNums, NEW in \in Seq(Byte), NEW size \in Nat,
           NEW complete \in BOOLEAN, complete => size <= Len(in),
           PerformParam(n, num, in, size, complete)
    PROVE  \E data, new : Effect(n, num, in, size, complete, data, new)
<1>1. /\ queue \in [Nodes -> Queues] /\ said \in [Nodes -> Seq(Entries)]
      /\ DOMAIN vals = Nodes /\ \A k \in Nodes : DOMAIN vals[k] = Params
      /\ \A k \in Nodes, p \in Params : vals[k][p] \in Values(p)
  BY DEF BgcpInv, TypeOK, InRange
<1>2. PICK data : data = IF complete /\ TakesData(parser.func) THEN SubSeq(in, 1, size) ELSE <<>>
  OBVIOUS
<1>3. data \in Seq(Byte)
  BY <1>2
<1>4. PICK new : new = NewValue(n, num, data)
  OBVIOUS
<1>5. num \in Params => new \in Values(num)
  BY <1>1, <1>3, <1>4, UpdateInRange, Reading DEF NewValue
<1>6. /\ heard' = IF complete \/ (Head(parser.in) = BGCP_CMD_NOT_SUP /\ Len(parser.in) > 1)
                  THEN Append(heard, Entry(parser.func, num, data)) ELSE heard
      /\ parser'.in = Skip(in, size)
      /\ UNCHANGED <<at, from, sent, asked>>
  BY <1>2 DEF PerformParam, Parser
<1>7. CASE Unknown(num) /\ NotSupported(n, num)
  <2>1. num \notin Params /\ UNCHANGED vals
    BY <1>7 DEF Unknown, NotSupported
  <2>2. CASE is_read_func(parser.func)
    <3>1. /\ queue' = [queue EXCEPT ![n] = PushNoSupParam(queue[n], num)]
          /\ said' = [said EXCEPT ![n] = Append(said[n], Entry(BGCP_FUNC_RESP, num, <<>>))]
      BY <1>7, <2>2 DEF NotSupported
    <3>2. /\ \A k \in Nodes : k # n => queue'[k] = queue[k] /\ said'[k] = said[k]
          /\ said'[n] = Append(said[n], Entry(BGCP_FUNC_RESP, num, <<>>))
      BY <1>1, <3>1
    <3> QED
      BY <1>2, <1>4, <1>5, <1>6, <2>1, <2>2, <3>2 DEF Effect
  <2>3. CASE ~is_read_func(parser.func)
    <3>1. UNCHANGED <<queue, said>>
      BY <1>7, <2>3 DEF NotSupported
    <3> QED
      BY <1>2, <1>4, <1>5, <1>6, <2>1, <3>1 DEF Effect
  <2> QED
    BY <2>2, <2>3
<1>8. CASE num \in Params /\ complete /\ Processed(n, num, data)
  <2>1. vals' = [vals EXCEPT ![n] = [vals[n] EXCEPT ![num] = new]]
    BY <1>4, <1>8 DEF Processed, NewValue
  <2>2. Became(n, num, new)
    BY <1>1, <1>8, <2>1 DEF Became
  <2>3. CASE is_read_func(parser.func)
    <3>1. PICK answer : answer = Encode(num, new)
      OBVIOUS
    <3>2. /\ queue' = [queue EXCEPT ![n] = PushParamData(queue[n], BGCP_FUNC_RESP, num, answer)]
          /\ said' = [said EXCEPT ![n] = Append(said[n], Entry(BGCP_FUNC_RESP, num, answer))]
      BY <1>4, <1>8, <2>3, <3>1 DEF Processed, NewValue
    <3>3. /\ \A k \in Nodes : k # n => queue'[k] = queue[k] /\ said'[k] = said[k]
          /\ said'[n] = Append(said[n], Entry(BGCP_FUNC_RESP, num, Encode(num, new)))
      BY <1>1, <3>1, <3>2
    <3> QED
      BY <1>2, <1>4, <1>5, <1>6, <1>8, <2>2, <2>3, <3>3 DEF Effect
  <2>4. CASE ~is_read_func(parser.func)
    <3>1. UNCHANGED <<queue, said>>
      BY <1>8, <2>4 DEF Processed
    <3> QED
      BY <1>2, <1>4, <1>5, <1>6, <1>8, <2>2, <2>4, <3>1 DEF Effect
  <2> QED
    BY <2>3, <2>4
<1>9. CASE ~Unknown(num) /\ (num = NO_PARAM \/ ~complete) /\ UNCHANGED <<vals, queue, said>>
  <2>1. num \notin Params \/ ~complete
    BY <1>9, TableAssumption DEF NO_PARAM
  <2> QED
    BY <1>2, <1>4, <1>5, <1>6, <1>9, <2>1 DEF Effect
<1> QED
  BY <1>2, <1>7, <1>8, <1>9 DEF PerformParam

\* At a parameter of the chain the parser knows whose it is.
LEMMA ParamKnown ==
    ASSUME NEW b, NEW s, NEW m, NEW off, Chain(b, s, m, off),
           NEW p \in Parsers, p.in # <<>>, NEW h, ParsedTo(p, h, b, s, m, off),
           Head(p.in) \notin Commands
    PROVE  /\ h \in Seq(Entries) /\ s \in Seq(Entries) /\ Len(h) < Len(s)
           /\ s[Len(h) + 1] \in Entries
           /\ p.func = s[Len(h) + 1].func
           /\ p.page * Base + Head(p.in) = s[Len(h) + 1].param
<1>1. PICK e, mid, dlen :
             /\ e = s[Len(h) + 1] /\ Plain(e) /\ e \in Entries /\ Facing(p, b, mid, e)
             /\ mid \in Nat /\ dlen \in Nat /\ dlen = Len(e.data)
             /\ mid = off[Len(h)] + Len(LeadOf(s, Len(h) + 1))
             /\ Len(h) \in Nat /\ Len(h) <= m /\ m \in Nat /\ m <= Len(s) /\ Len(s) \in Nat
             /\ Len(h) < Len(s)
             /\ Len(h) < m => /\ off[Len(h) + 1] = mid + dlen /\ mid + dlen <= Len(b)
                              /\ Shows(b, mid, e.data)
             /\ Len(h) = m => QUEUE_BUF_SIZE <= mid + dlen
             /\ b \in Seq(Byte) /\ p.in \in Seq(Byte) /\ Suffix(p.in, b)
             /\ Len(b) < QUEUE_BUF_SIZE
  BY NextEntry
<1>2. Head(p.in) \notin {BGCP_CMD_PAGE, BGCP_CMD_FUNC, BGCP_CMD_SIZE} /\ Head(p.in) # BGCP_CMD_NOT_SUP
  BY DEF Commands
<1>3. /\ p.func = e.func /\ p.page = Page(e.param)
      /\ ~Refusal(e) =>
           /\ p.size = Len(e.data)
           /\ Head(p.in) = Low(e.param) /\ Head(p.in) \notin Commands
           /\ Len(b) - Len(p.in) + 1 = mid
      /\ Refusal(e) =>
           /\ Head(p.in) = BGCP_CMD_NOT_SUP
           /\ Len(p.in) >= 2 => ReadByte(Tail(p.in)) = Low(e.param)
           /\ Len(b) - Len(p.in) + 2 = mid
  <2>1. Plain(e) /\ b \in Seq(Byte) /\ Suffix(p.in, b) /\ Facing(p, b, mid, e)
    BY <1>1
  <2>2. Head(p.in) \notin {BGCP_CMD_PAGE, BGCP_CMD_FUNC, BGCP_CMD_SIZE}
    BY <1>2
  <2> QED
    BY <2>1, <2>2, FacingParam, Zenon
<1>4. Head(p.in) = Low(e.param) /\ e.param \in ParamNums
  BY <1>1, <1>2, <1>3 DEF Entries
<1>5. p.page * Base + Head(p.in) = e.param
  BY <1>3, <1>4, Recombined
<1>6. h \in Seq(Entries) /\ s \in Seq(Entries)
  BY DEF Chain, ParsedTo
<1> QED
  BY <1>1, <1>3, <1>5, <1>6

\* At NOT_SUP the parser is at a refusal.
LEMMA RefusalKnown ==
    ASSUME NEW b, NEW s, NEW m, NEW off, Chain(b, s, m, off),
           NEW p \in Parsers, p.in # <<>>, NEW h, ParsedTo(p, h, b, s, m, off),
           Head(p.in) = BGCP_CMD_NOT_SUP
    PROVE  /\ h \in Seq(Entries) /\ s \in Seq(Entries) /\ Len(h) < Len(s)
           /\ s[Len(h) + 1] \in Entries /\ Refusal(s[Len(h) + 1])
           /\ p.func = BGCP_FUNC_RESP
<1>1. PICK e, mid, dlen :
             /\ e = s[Len(h) + 1] /\ Plain(e) /\ e \in Entries /\ Facing(p, b, mid, e)
             /\ mid \in Nat /\ dlen \in Nat /\ dlen = Len(e.data)
             /\ mid = off[Len(h)] + Len(LeadOf(s, Len(h) + 1))
             /\ Len(h) \in Nat /\ Len(h) <= m /\ m \in Nat /\ m <= Len(s) /\ Len(s) \in Nat
             /\ Len(h) < Len(s)
             /\ Len(h) < m => /\ off[Len(h) + 1] = mid + dlen /\ mid + dlen <= Len(b)
                              /\ Shows(b, mid, e.data)
             /\ Len(h) = m => QUEUE_BUF_SIZE <= mid + dlen
             /\ b \in Seq(Byte) /\ p.in \in Seq(Byte) /\ Suffix(p.in, b)
             /\ Len(b) < QUEUE_BUF_SIZE
  BY NextEntry
<1>2. /\ Head(p.in) \notin {BGCP_CMD_PAGE, BGCP_CMD_FUNC, BGCP_CMD_SIZE}
      /\ Head(p.in) \in Commands
  BY CommandsDiffer
<1>3. /\ p.func = e.func /\ p.page = Page(e.param)
      /\ ~Refusal(e) =>
           /\ p.size = Len(e.data)
           /\ Head(p.in) = Low(e.param) /\ Head(p.in) \notin Commands
           /\ Len(b) - Len(p.in) + 1 = mid
      /\ Refusal(e) =>
           /\ Head(p.in) = BGCP_CMD_NOT_SUP
           /\ Len(p.in) >= 2 => ReadByte(Tail(p.in)) = Low(e.param)
           /\ Len(b) - Len(p.in) + 2 = mid
  <2>1. Plain(e) /\ b \in Seq(Byte) /\ Suffix(p.in, b) /\ Facing(p, b, mid, e)
    BY <1>1
  <2>2. Head(p.in) \notin {BGCP_CMD_PAGE, BGCP_CMD_FUNC, BGCP_CMD_SIZE}
    BY <1>2
  <2> QED
    BY <2>1, <2>2, FacingParam, Zenon
<1>4. Refusal(e)
  BY <1>2, <1>3
<1>5. e.func = BGCP_FUNC_RESP
  BY <1>4 DEF Refusal
<1>6. h \in Seq(Entries) /\ s \in Seq(Entries)
  BY DEF Chain, ParsedTo
<1> QED
  BY <1>1, <1>3, <1>4, <1>5, <1>6

LEMMA HeardIsSent ==
    ASSUME ParserInv', at' # "none", from' # "noise"
    PROVE  heard' \in Seq(Entries) /\ \A i \in 1..Len(heard') : heard'[i] = sent'[i]
<1>1. PICK m : \E off : /\ Chain(queue'[from'].buf, sent', m, off)
                        /\ ParsedTo(parser', heard', queue'[from'].buf, sent', m, off)
  BY DEF ParserInv
<1>2. PICK off : ParsedTo(parser', heard', queue'[from'].buf, sent', m, off)
  BY <1>1
<1> QED
  BY <1>2 DEF ParsedTo

\* Whatever is performed, for whichever packet.
LEMMA PerformKeepsValues ==
    ASSUME BgcpInv, ConstKept, AnswersMade, NEW n \in Nodes, NEW num \in ParamNums,
           NEW in \in Seq(Byte), NEW size \in Nat, NEW complete \in BOOLEAN,
           complete => size <= Len(in), PerformParam(n, num, in, size, complete)
    PROVE  ConstKept' /\ AnswersMade'
<1>1. /\ said \in [Nodes -> Seq(Entries)] /\ "device" \in Nodes
      /\ \A k \in Nodes, p \in Params : vals[k][p] \in Values(p)
  BY DEF BgcpInv, TypeOK, InRange, Nodes
<1>2. PICK data, new :
        /\ Effect(n, num, in, size, complete, data, new)
        /\ num \in Params => new \in Values(num) /\ new = NewValue(n, num, data)
  <2>1. PICK data, new : Effect(n, num, in, size, complete, data, new)
    BY PerformEffect
  <2> QED
    BY <2>1 DEF Effect
<1>3. num \in Params /\ Table[num].type = "CONST_BIN" => new = Start[num]
  <2> SUFFICES ASSUME num \in Params, Table[num].type = "CONST_BIN" PROVE new = Start[num]
    OBVIOUS
  <2>1. new = vals[n][num]
    BY <1>2 DEF NewValue, Update
  <2> QED
    BY <2>1 DEF ConstKept
<1>4. ConstKept'
  <2>1. CASE UNCHANGED vals
    BY <2>1 DEF ConstKept
  <2>2. CASE num \in Params /\ Became(n, num, new)
    BY <1>3, <2>2 DEF ConstKept, Became
  <2> QED
    BY <1>2, <2>1, <2>2 DEF Effect
<1>5. AnswersMade'
  <2>1. PICK a : a = said["device"]
    OBVIOUS
  <2>2. a \in Seq(Entries) /\ \A i \in 1..Len(a) : a[i].func = BGCP_FUNC_RESP /\ ValueIn(a[i])
    BY <1>1, <2>1 DEF AnswersMade
  <2>3. ASSUME NEW e \in Entries, e.func = BGCP_FUNC_RESP, ValueIn(e), said'["device"] = Append(a, e)
        PROVE  AnswersMade'
    <3>1. PICK c : c = Append(a, e)
      OBVIOUS
    <3>2. \A i \in 1..Len(c) : c[i].func = BGCP_FUNC_RESP /\ ValueIn(c[i])
      <4>1. /\ \A i \in 1..Len(c) : i \in 1..Len(a) \/ i = Len(a) + 1
            /\ \A i \in 1..Len(a) : c[i] = a[i]
            /\ c[Len(a) + 1] = e
        BY <2>2, <3>1
      <4> QED
        BY <2>2, <2>3, <4>1
    <3>3. said'["device"] = c
      BY <2>3, <3>1
    <3> QED
      BY <3>2, <3>3 DEF AnswersMade
  <2>4. CASE said'["device"] = said["device"]
    BY <2>4 DEF AnswersMade
  <2>5. CASE n = "device" /\ num \in Params
             /\ said'[n] = Append(said[n], Entry(BGCP_FUNC_RESP, num, Encode(num, new)))
    <3>1. PICK e : e = Entry(BGCP_FUNC_RESP, num, Encode(num, new))
      OBVIOUS
    <3>2. Encode(num, new) \in Seq(Byte)
      BY <1>2, <2>5, EncodeType
    <3>3. e \in Entries /\ e.func = BGCP_FUNC_RESP /\ e.param = num /\ e.data = Encode(num, new)
      BY <3>1, <3>2 DEF Entry, Entries, BGCP_FUNC_RESP, Functions
    <3>4. ValueIn(e)
      BY <1>2, <1>3, <2>5, <3>3 DEF ValueIn
    <3> QED
      BY <2>1, <2>3, <2>5, <3>1, <3>3, <3>4
  <2>6. CASE n = "device" /\ num \notin Params
             /\ said'[n] = Append(said[n], Entry(BGCP_FUNC_RESP, num, <<>>))
    <3>1. PICK e : e = Entry(BGCP_FUNC_RESP, num, <<>>)
      OBVIOUS
    <3>2. e \in Entries /\ e.func = BGCP_FUNC_RESP /\ e.param = num
      BY <3>1 DEF Entry, Entries, BGCP_FUNC_RESP, Functions
    <3>3. ValueIn(e)
      BY <2>6, <3>2 DEF ValueIn
    <3> QED
      BY <2>1, <2>3, <2>6, <3>1, <3>2, <3>3
  <2> QED
    BY <1>1, <1>2, <2>4, <2>5, <2>6 DEF Effect
<1> QED
  BY <1>4, <1>5

\* c tells of e's parameter what e does, and of any other what a does.
TellsAfter(a, e, c) ==
    /\ \A p, v : e.param = p /\ e.data = Encode(p, v) => LastIs(c, p, v)
    /\ \A p, v : e.param # p /\ LastIs(a, p, v) => LastIs(c, p, v)
    /\ \A p : (\E i \in 1..Len(c) : c[i].param = p)
              => e.param = p \/ \E i \in 1..Len(a) : a[i].param = p

LEMMA LastAppended ==
    ASSUME NEW a \in Seq(Entries), NEW e, NEW c, c = Append(a, e)
    PROVE  TellsAfter(a, e, c)
<1>1. /\ Len(a) \in Nat /\ Len(c) = Len(a) + 1
      /\ \A i \in 1..Len(c) : i \in 1..Len(a) \/ i = Len(a) + 1
      /\ \A i \in 1..Len(a) : c[i] = a[i] /\ i \in 1..Len(c)
      /\ c[Len(a) + 1] = e
  OBVIOUS
<1>2. ASSUME NEW p, NEW v, e.param = p, e.data = Encode(p, v) PROVE LastIs(c, p, v)
  <2>1. Len(a) + 1 \in 1..Len(c) /\ \A j \in 1..Len(c) : ~(j > Len(a) + 1)
    BY <1>1
  <2> QED
    BY <1>1, <1>2, <2>1 DEF LastIs
<1>3. ASSUME NEW p, NEW v, e.param # p, LastIs(a, p, v) PROVE LastIs(c, p, v)
  <2>1. PICK i \in 1..Len(a) : /\ a[i].param = p /\ a[i].data = Encode(p, v)
                               /\ \A j \in 1..Len(a) : j > i => a[j].param # p
    BY <1>3 DEF LastIs
  <2>2. c[i].param = p /\ c[i].data = Encode(p, v) /\ i \in 1..Len(c)
    BY <1>1, <2>1
  <2>3. \A j \in 1..Len(c) : j > i => c[j].param # p
    BY <1>1, <1>3, <2>1
  <2> QED
    BY <2>2, <2>3 DEF LastIs
<1>4. ASSUME NEW p, NEW i \in 1..Len(c), c[i].param = p
      PROVE  e.param = p \/ \E j \in 1..Len(a) : a[j].param = p
  BY <1>1, <1>4
<1> QED
  BY <1>2, <1>3, <1>4 DEF TellsAfter

\* The same for what has been heard.
LEMMA LearnedNext ==
    ASSUME NEW h \in Seq(Entries), NEW e, NEW g, g = Append(h, e), NEW v, NEW w, Learned(h, v),
           \A p \in Params : p # e.param => w[p] = v[p],
           e.param \in Params => Encode(e.param, w[e.param]) = e.data
    PROVE  Learned(g, w)
<1>1. /\ Len(h) \in Nat /\ Len(g) = Len(h) + 1
      /\ \A i \in 1..Len(g) : i \in 1..Len(h) \/ i = Len(h) + 1
      /\ \A i \in 1..Len(h) : g[i] = h[i] /\ i \in 1..Len(g) /\ Len(h) + 1 > i
      /\ g[Len(h) + 1] = e /\ Len(h) + 1 \in 1..Len(g)
  OBVIOUS
<1> SUFFICES ASSUME NEW i \in 1..Len(g), g[i].param \in Params,
                    \A j \in 1..Len(g) : j > i => g[j].param # g[i].param
             PROVE  Encode(g[i].param, w[g[i].param]) = g[i].data
  BY DEF Learned
<1>2. CASE i = Len(h) + 1
  BY <1>1, <1>2
<1>3. CASE i \in 1..Len(h)
  <2>1. g[i] = h[i] /\ e.param # g[i].param
    BY <1>1, <1>3
  <2>2. \A j \in 1..Len(h) : j > i => h[j].param # h[i].param
    BY <1>1, <1>3
  <2>3. Encode(h[i].param, v[h[i].param]) = h[i].data
    BY <1>3, <2>1, <2>2 DEF Learned
  <2> QED
    BY <2>1, <2>3
<1> QED
  BY <1>1, <1>2, <1>3

\* A parameter is performed for the next entry of the chain, and it is heard,
\* or nothing is left of the packet.
Follows(n, num, in, size, complete) ==
    /\ complete => size <= Len(in)
    /\ PerformParam(n, num, in, size, complete)
    /\ heard \in Seq(Entries) /\ sent \in Seq(Entries) /\ Len(heard) < Len(sent)
    /\ sent[Len(heard) + 1] \in Entries
    /\ parser.func = sent[Len(heard) + 1].func
    /\ \/ /\ num = sent[Len(heard) + 1].param
          /\ heard' = IF complete THEN Append(heard, sent[Len(heard) + 1]) ELSE heard
       \/ /\ Refusal(sent[Len(heard) + 1]) /\ ~complete
          /\ heard' = Append(heard, sent[Len(heard) + 1]) \/ heard' = heard
    /\ heard' = heard => parser'.in = <<>>

LEMMA PerformFollows ==
    ASSUME BgcpInv, ParserInv, ParserInv', at # "none", from # "noise", NEW n \in Nodes,
           Perform(n) \/ PerformNotSup(n)
    PROVE  \E num \in ParamNums, in \in Seq(Byte), size \in Nat, complete \in BOOLEAN :
              Follows(n, num, in, size, complete)
<1>1. /\ at = n /\ parser.in # <<>> /\ parser \in Parsers
      /\ UNCHANGED <<at, from, sent>>
  BY DEF Perform, PerformNotSup, PerformParam, Parsing, BgcpInv, TypeOK
<1>2. /\ parser.in \in Seq(Byte) /\ Len(parser.in) \in Nat /\ parser.page \in Byte
      /\ parser.size \in Nat
      /\ Head(parser.in) \in Byte /\ Tail(parser.in) \in Seq(Byte)
      /\ Len(Tail(parser.in)) = Len(parser.in) - 1
      /\ Skip(parser.in, 2) \in Seq(Byte) /\ ReadByte(Tail(parser.in)) \in Byte
  <2>1. parser.in \in Seq(Byte) /\ parser.page \in Byte /\ parser.size \in Byte
    BY ParserParts DEF BgcpInv
  <2>2. /\ Head(parser.in) \in Byte /\ Tail(parser.in) \in Seq(Byte)
        /\ Len(Tail(parser.in)) = Len(parser.in) - 1
    BY <1>1, <2>1
  <2>3. parser.size \in Nat
    BY <2>1, BaseAssumption DEF Byte
  <2>4. Skip(parser.in, 2) \in Seq(Byte)
    BY <2>1, SkipType
  <2>5. ReadByte(Tail(parser.in)) \in Byte
    BY <2>2, Reading
  <2> QED
    BY <2>1, <2>2, <2>3, <2>4, <2>5
<1>3. heard' \in Seq(Entries) /\ \A i \in 1..Len(heard') : heard'[i] = sent[i]
  <2>1. at' # "none" /\ from' # "noise" /\ sent' = sent
    BY <1>1
  <2>2. heard' \in Seq(Entries) /\ \A i \in 1..Len(heard') : heard'[i] = sent'[i]
    BY <2>1, HeardIsSent
  <2> QED
    BY <2>1, <2>2
<1>4. ASSUME NEW x, heard \in Seq(Entries), heard' = Append(heard, x)
      PROVE  heard' = Append(heard, sent[Len(heard) + 1])
  <2>1. Len(heard') = Len(heard) + 1 /\ Len(heard) + 1 \in 1..Len(heard') /\ heard'[Len(heard) + 1] = x
    BY <1>4
  <2> QED
    BY <1>3, <1>4, <2>1
<1>5. PICK b : b = queue[from].buf
  OBVIOUS
<1>6. PICK m : \E off : Chain(b, sent, m, off) /\ ParsedTo(parser, heard, b, sent, m, off)
  BY <1>5 DEF ParserInv
<1>7. PICK off : Chain(b, sent, m, off) /\ ParsedTo(parser, heard, b, sent, m, off)
  BY <1>6
<1>8. \A w \in Seq(Byte), k \in Nat : Len(w) <= k => Skip(w, k) = <<>>
  BY DEF Skip
<1>9. CASE Perform(n)
  <2>1. PICK num : num = parser.page * Base + Head(parser.in)
    OBVIOUS
  <2>2. PICK complete \in BOOLEAN :
            complete = (parser.func # NO_FUNC /\ parser.size <= Len(parser.in) - 1)
    OBVIOUS
  <2>3. Head(parser.in) \notin Commands /\ Head(parser.in) # BGCP_CMD_NOT_SUP
    BY <1>9 DEF Perform, Commands
  <2>4. num \in ParamNums
    BY <1>2, <2>1, Number
  <2>5. PICK in, size : in = Tail(parser.in) /\ size = parser.size
    OBVIOUS
  <2>6. PerformParam(n, num, in, size, complete) /\ in \in Seq(Byte) /\ size \in Nat
    BY <1>2, <1>9, <2>1, <2>2, <2>5 DEF Perform
  <2>7. /\ heard \in Seq(Entries) /\ sent \in Seq(Entries) /\ Len(heard) < Len(sent)
        /\ sent[Len(heard) + 1] \in Entries
        /\ parser.func = sent[Len(heard) + 1].func
        /\ num = sent[Len(heard) + 1].param
    BY <1>1, <1>7, <2>1, <2>3, ParamKnown
  <2>8. complete => size <= Len(in)
    BY <1>2, <2>2, <2>5
  <2>9. ~complete => Skip(in, size) = <<>>
    <3>1. parser.func # NO_FUNC
      BY <2>7 DEF Entries, Functions, NO_FUNC
    <3> SUFFICES ASSUME ~complete PROVE Skip(in, size) = <<>>
      OBVIOUS
    <3>2. ~(parser.size <= Len(parser.in) - 1)
      BY <2>2, <3>1, Zenon
    <3>3. Len(in) <= size
      BY <1>2, <2>5, <3>2
    <3> QED
      BY <1>8, <2>6, <3>3
  <2>10. /\ complete => \E x : heard' = Append(heard, x)
         /\ ~complete => heard' = heard /\ parser'.in = <<>>
    BY <2>3, <2>6, <2>9 DEF PerformParam, Parser
  <2>11. complete => heard' = Append(heard, sent[Len(heard) + 1]) /\ heard' # heard
    <3> SUFFICES ASSUME complete
                 PROVE  heard' = Append(heard, sent[Len(heard) + 1]) /\ heard' # heard
      OBVIOUS
    <3>1. heard' = Append(heard, sent[Len(heard) + 1])
      BY <1>4, <2>7, <2>10
    <3>2. \A h \in Seq(Entries), e \in Entries : Append(h, e) # h
      OBVIOUS
    <3> QED
      BY <2>7, <3>1, <3>2
  <2>12. Follows(n, num, in, size, complete)
    BY <2>6, <2>7, <2>8, <2>10, <2>11 DEF Follows
  <2> QED
    BY <2>4, <2>6, <2>12
<1>10. CASE PerformNotSup(n)
  <2>1. PICK num : num = parser.page * Base + ReadByte(Tail(parser.in))
    OBVIOUS
  <2>2. num \in ParamNums
    BY <1>2, <2>1, Number
  <2>3. PICK in : in = Skip(parser.in, 2)
    OBVIOUS
  <2>4. PerformParam(n, num, in, 0, FALSE) /\ in \in Seq(Byte)
    BY <1>2, <1>10, <2>1, <2>3 DEF PerformNotSup
  <2>5. Head(parser.in) = BGCP_CMD_NOT_SUP
    BY <1>10 DEF PerformNotSup
  <2>6. /\ heard \in Seq(Entries) /\ sent \in Seq(Entries) /\ Len(heard) < Len(sent)
        /\ sent[Len(heard) + 1] \in Entries /\ Refusal(sent[Len(heard) + 1])
        /\ parser.func = BGCP_FUNC_RESP
    BY <1>1, <1>7, <2>5, RefusalKnown
  <2>7. parser.func = sent[Len(heard) + 1].func
    BY <2>6 DEF Refusal
  <2>8. /\ Len(parser.in) > 1 => \E x : heard' = Append(heard, x)
        /\ ~(Len(parser.in) > 1) => heard' = heard
        /\ parser'.in = Skip(in, 0)
    BY <2>4, <2>5 DEF PerformParam, Parser
  <2>9. Len(parser.in) > 1 => heard' = Append(heard, sent[Len(heard) + 1]) /\ heard' # heard
    <3> SUFFICES ASSUME Len(parser.in) > 1
                 PROVE  heard' = Append(heard, sent[Len(heard) + 1]) /\ heard' # heard
      OBVIOUS
    <3>1. heard' = Append(heard, sent[Len(heard) + 1])
      BY <1>4, <2>6, <2>8
    <3>2. \A h \in Seq(Entries), e \in Entries : Append(h, e) # h
      OBVIOUS
    <3> QED
      BY <2>6, <3>1, <3>2
  <2>10. ~(Len(parser.in) > 1) => parser'.in = <<>>
    <3> SUFFICES ASSUME ~(Len(parser.in) > 1) PROVE parser'.in = <<>>
      OBVIOUS
    <3>1. Len(parser.in) <= 2 /\ 2 \in Nat
      BY <1>2
    <3>2. in = <<>>
      BY <1>2, <1>8, <2>3, <3>1
    <3>3. Len(<<>>) <= 0 /\ <<>> \in Seq(Byte) /\ 0 \in Nat
      OBVIOUS
    <3>4. Skip(<<>>, 0) = <<>>
      BY <1>8, <3>3, Zenon
    <3> QED
      BY <2>8, <3>2, <3>4
  <2>11. Follows(n, num, in, 0, FALSE)
    BY <2>4, <2>6, <2>7, <2>8, <2>9, <2>10 DEF Follows
  <2> QED
    BY <2>2, <2>4, <2>11
<1> QED
  BY <1>9, <1>10


\* While the device parses a request, its answers keep up with the entries.
LEMMA AskedStep ==
    ASSUME BgcpInv, ParserInv, MirrorInv, ParserInv', ParseStep("device"), from = "master",
           QUEUE_BUF_SIZE > 1
    PROVE  AskedInv'
<1>1. /\ at = "device" /\ parser.in # <<>> /\ UNCHANGED <<at, from, sent, asked>>
      /\ "device" \in Nodes
  BY DEF ParseStep, SetNewPage, SetNewFunc, SetDataSize, Perform, PerformNotSup, PerformParam,
         Parsing, Nodes
<1>2. /\ sent = asked /\ Matched(said["device"], asked, heard, parser.in)
      /\ OnlyReads => LastTells
  BY <1>1 DEF MirrorInv, AskedInv
<1>3. OnlyReads' <=> OnlyReads
  BY <1>1 DEF OnlyReads
<1>4. CASE SetNewPage("device") \/ SetNewFunc("device") \/ SetDataSize("device")
  <2>1. UNCHANGED <<said, vals, heard>>
    BY <1>4 DEF SetNewPage, SetNewFunc, SetDataSize
  <2>2. Matched(said["device"], asked, heard, parser'.in)
    BY <1>1, <1>2 DEF Matched
  <2>3. LastTells => LastTells'
    BY <2>1 DEF LastTells
  <2> QED
    BY <1>1, <1>2, <1>3, <2>1, <2>2, <2>3 DEF AskedInv
<1>5. CASE Perform("device") \/ PerformNotSup("device")
  <2>1. PICK num \in ParamNums, in \in Seq(Byte), size \in Nat, complete \in BOOLEAN :
                Follows("device", num, in, size, complete)
    BY <1>1, <1>5, PerformFollows
  <2>2. PICK data, new : Effect("device", num, in, size, complete, data, new)
    BY <1>1, <2>1, PerformEffect DEF Follows
  <2>3. PICK a, s, h, e : a = said["device"] /\ s = asked /\ h = heard /\ e = s[Len(h) + 1]
    OBVIOUS
  <2>4. a \in Seq(Entries) /\ s \in Seq(Entries) /\ h \in Seq(Entries) /\ Len(h) < Len(s)
    BY <1>1, <1>2, <2>1, <2>3 DEF Follows, BgcpInv, TypeOK
  <2>5. /\ parser.func = e.func
        /\ Len(heard') = Len(h) + 1 \/ (Len(heard') = Len(h) /\ parser'.in = <<>>)
        /\ num = e.param \/ Refusal(e)
    <3>1. /\ heard' = Append(h, e) \/ heard' = h
          /\ heard' = h => parser'.in = <<>>
          /\ parser.func = e.func
          /\ num = e.param \/ Refusal(e)
      BY <1>2, <2>1, <2>3 DEF Follows
    <3> QED
      BY <2>4, <3>1
  <2>6. is_read_func(parser.func) => num = e.param
    BY <2>5 DEF Refusal, is_read_func, BGCP_FUNC_RESP, BGCP_FUNC_R, BGCP_FUNC_RW,
                BGCP_FUNC_DEC_RW, BGCP_FUNC_INC_RW
  <2>7. OnlyReads => is_read_func(parser.func)
    <3>1. Len(h) + 1 \in DOMAIN s
      BY <2>4
    <3> QED
      BY <2>3, <2>5, <3>1 DEF OnlyReads
  <2>8. \/ /\ num \in Params /\ is_read_func(parser.func) /\ Became("device", num, new)
           /\ said'["device"] = Append(a, Entry(BGCP_FUNC_RESP, num, Encode(num, new)))
        \/ /\ num \notin Params /\ is_read_func(parser.func) /\ UNCHANGED vals
           /\ said'["device"] = Append(a, Entry(BGCP_FUNC_RESP, num, <<>>))
        \/ ~is_read_func(parser.func) /\ said'["device"] = a
        \/ UNCHANGED vals /\ said'["device"] = a
    BY <2>2, <2>3 DEF Effect
  <2>9. num \in Params => new \in Values(num)
    BY <2>2 DEF Effect
  <2>10. ASSUME NEW x, said'["device"] = Append(a, x), x \in Entries, x.param = num,
                is_read_func(parser.func),
                num \in Params => Became("device", num, new) /\ x.data = Encode(num, new),
                num \notin Params => UNCHANGED vals
         PROVE  AskedInv'
    <3>1. PICK c : c = Append(a, x)
      OBVIOUS
    <3>2. Matched(c, s, heard', parser'.in)
      <4>1. /\ parser.in # <<>> /\ Matched(a, s, h, parser.in)
            /\ x.param = s[Len(h) + 1].param
        BY <1>1, <1>2, <2>3, <2>6, <2>10
      <4> QED
        BY <2>4, <2>5, <2>10, <3>1, <4>1, MatchedStep
    <3>3. /\ \A p, v : x.param = p /\ x.data = Encode(p, v) => LastIs(c, p, v)
          /\ \A p, v : x.param # p /\ LastIs(a, p, v) => LastIs(c, p, v)
          /\ \A p : (\E i \in 1..Len(c) : c[i].param = p)
                    => x.param = p \/ \E i \in 1..Len(a) : a[i].param = p
      <4>1. TellsAfter(a, x, c)
        BY <2>4, <3>1, LastAppended
      <4> QED
        BY <4>1 DEF TellsAfter
    <3>4. ASSUME LastTells, NEW p \in Params, \E i \in 1..Len(c) : c[i].param = p
          PROVE  LastIs(c, p, vals'["device"][p])
      <4>1. CASE p = num
        <5>1. vals'["device"][p] = new /\ x.data = Encode(p, new)
          BY <1>1, <2>10, <4>1 DEF Became
        <5> QED
          BY <2>10, <3>3, <4>1, <5>1
      <4>2. CASE p # num
        <5>1. vals'["device"][p] = vals["device"][p]
          BY <1>1, <2>10, <4>2 DEF Became
        <5>2. \E i \in 1..Len(a) : a[i].param = p
          BY <2>10, <3>3, <3>4, <4>2
        <5>3. LastIs(a, p, vals["device"][p])
          BY <2>3, <3>4, <5>2 DEF LastTells
        <5> QED
          BY <2>10, <3>3, <4>2, <5>1, <5>3
      <4> QED
        BY <4>1, <4>2
    <3>5. LastTells => LastTells'
      BY <2>10, <3>1, <3>4 DEF LastTells
    <3>6. sent' = asked' /\ s = asked' /\ said'["device"] = c
      BY <1>1, <1>2, <2>3, <2>10, <3>1
    <3> QED
      BY <1>2, <1>3, <3>2, <3>5, <3>6 DEF AskedInv
  <2>11. CASE said'["device"] = a /\ (~is_read_func(parser.func) \/ UNCHANGED vals)
    <3>1. Matched(a, s, heard', parser'.in)
      <4>1. parser.in # <<>> /\ Matched(a, s, h, parser.in) /\ e \in Entries /\ e.param = s[Len(h) + 1].param
        BY <1>1, <1>2, <2>1, <2>3 DEF Follows
      <4> QED
        BY <2>4, <2>5, <4>1, MatchedStep
    <3>2. UNCHANGED vals => (LastTells => LastTells')
      BY <2>3, <2>11 DEF LastTells
    <3>3. OnlyReads => UNCHANGED vals
      BY <2>7, <2>11
    <3>4. sent' = asked' /\ s = asked'
      BY <1>1, <1>2, <2>3
    <3> QED
      BY <1>2, <1>3, <2>11, <3>1, <3>2, <3>3, <3>4 DEF AskedInv
  <2>12. CASE /\ num \in Params /\ is_read_func(parser.func) /\ Became("device", num, new)
              /\ said'["device"] = Append(a, Entry(BGCP_FUNC_RESP, num, Encode(num, new)))
    <3>1. PICK x : x = Entry(BGCP_FUNC_RESP, num, Encode(num, new))
      OBVIOUS
    <3>2. Encode(num, new) \in Seq(Byte)
      BY <2>9, <2>12, EncodeType
    <3>3. x \in Entries /\ x.param = num /\ x.data = Encode(num, new)
      BY <3>1, <3>2 DEF Entry, Entries, BGCP_FUNC_RESP, Functions
    <3> QED
      BY <2>10, <2>12, <3>1, <3>3
  <2>13. CASE /\ num \notin Params /\ is_read_func(parser.func) /\ UNCHANGED vals
              /\ said'["device"] = Append(a, Entry(BGCP_FUNC_RESP, num, <<>>))
    <3>1. PICK x : x = Entry(BGCP_FUNC_RESP, num, <<>>)
      OBVIOUS
    <3>2. x \in Entries /\ x.param = num
      BY <3>1 DEF Entry, Entries, BGCP_FUNC_RESP, Functions
    <3> QED
      BY <2>10, <2>13, <3>1, <3>2
  <2> QED
    BY <2>8, <2>11, <2>12, <2>13
<1> QED
  BY <1>4, <1>5 DEF ParseStep

\* While the master parses the answer, it takes over what it hears.
LEMMA LearnedStep ==
    ASSUME BgcpInv, ParserInv, MirrorInv, ParserInv', ParseStep("master")
    PROVE  LearnedInv'
<1>1. /\ at = "master" /\ parser.in # <<>> /\ UNCHANGED <<at, from, sent, asked>>
      /\ "master" \in Nodes /\ "device" \in Nodes
  BY DEF ParseStep, SetNewPage, SetNewFunc, SetDataSize, Perform, PerformNotSup, PerformParam,
         Parsing, Nodes
<1>2. /\ QUEUE_BUF_SIZE > 1 /\ from = "device" /\ queue["master"] = EmptyQueue
      /\ Len(said["device"]) <= Len(asked)
      /\ Len(said["device"]) = Len(asked) => FirstSame(said["device"], asked)
      /\ OnlyReads => LastTells
      /\ Learned(heard, vals["master"])
  BY <1>1 DEF MirrorInv, LearnedInv
<1>3. OnlyReads' <=> OnlyReads
  BY <1>1 DEF OnlyReads
<1>4. ASSUME UNCHANGED <<queue, said>>, \A p \in Params : vals'["device"][p] = vals["device"][p],
             Learned(heard', vals'["master"])
      PROVE  LearnedInv'
  <2>1. LastTells => LastTells'
    BY <1>4 DEF LastTells
  <2> QED
    BY <1>1, <1>2, <1>3, <1>4, <2>1 DEF LearnedInv
<1>5. CASE SetNewPage("master") \/ SetNewFunc("master") \/ SetDataSize("master")
  <2>1. UNCHANGED <<queue, said, vals, heard>>
    BY <1>5 DEF SetNewPage, SetNewFunc, SetDataSize
  <2> QED
    BY <1>2, <1>4, <2>1
<1>6. CASE Perform("master") \/ PerformNotSup("master")
  <2>1. PICK num \in ParamNums, in \in Seq(Byte), size \in Nat, complete \in BOOLEAN :
                Follows("master", num, in, size, complete)
    BY <1>1, <1>2, <1>6, PerformFollows
  <2>2. PICK data, new : Effect("master", num, in, size, complete, data, new)
    BY <1>1, <2>1, PerformEffect DEF Follows
  <2>3. PICK h, e, v : h = heard /\ e = sent[Len(heard) + 1] /\ v = vals["master"]
    OBVIOUS
  <2>4. sent = said["device"]
    BY <1>1, <1>2 DEF ParserInv
  <2>5. /\ h \in Seq(Entries) /\ e \in Entries /\ e.func = BGCP_FUNC_RESP /\ ValueIn(e)
        /\ parser.func = BGCP_FUNC_RESP
    <3>1. /\ h \in Seq(Entries) /\ sent \in Seq(Entries) /\ Len(h) < Len(sent) /\ e \in Entries
          /\ parser.func = e.func
      BY <2>1, <2>3 DEF Follows
    <3>2. Len(h) + 1 \in 1..Len(sent)
      BY <3>1
    <3>3. e.func = BGCP_FUNC_RESP /\ ValueIn(e)
      BY <2>3, <2>4, <3>2 DEF MirrorInv, AnswersMade
    <3> QED
      BY <3>1, <3>3
  <2>6. ~is_read_func(parser.func) /\ is_write_func(parser.func) /\ inc_val(parser.func) = 0
    BY <2>5 DEF is_read_func, is_write_func, inc_val, BGCP_FUNC_RESP, BGCP_FUNC_R, BGCP_FUNC_W,
                BGCP_FUNC_RW, BGCP_FUNC_DEC_RW, BGCP_FUNC_INC_RW, NO_FUNC
  <2>7. /\ UNCHANGED <<queue, said>>
        /\ \/ num \in Params /\ complete /\ Became("master", num, new)
           \/ (num \notin Params \/ ~complete) /\ UNCHANGED vals
    BY <2>2, <2>6 DEF Effect
  <2>8. /\ \A p \in Params : vals'["device"][p] = vals["device"][p]
        /\ \A p \in Params : p # num => vals'["master"][p] = v[p]
    BY <1>1, <2>3, <2>7 DEF Became
  <2>9. /\ \/ /\ num = e.param
              /\ heard' = IF complete THEN Append(h, e) ELSE h
           \/ Refusal(e) /\ ~complete /\ (heard' = Append(h, e) \/ heard' = h)
    BY <2>1, <2>3 DEF Follows
  <2>10. CASE complete
    <3>1. num = e.param /\ heard' = Append(h, e)
      BY <2>9, <2>10
    <3>2. heard' = Append(h, Entry(parser.func, num, data))
      BY <2>2, <2>3, <2>10 DEF Effect
    <3>3. e.data = data
      <4>1. \A x, y : Append(h, x) = Append(h, y) => x = y
        <5> SUFFICES ASSUME NEW x, NEW y, Append(h, x) = Append(h, y) PROVE x = y
          OBVIOUS
        <5>1. Append(h, x)[Len(h) + 1] = x /\ Append(h, y)[Len(h) + 1] = y
          BY <2>5
        <5> QED
          BY <5>1
      <4>2. e = Entry(parser.func, num, data)
        BY <3>1, <3>2, <4>1, Zenon
      <4> QED
        BY <4>2 DEF Entry
    <3>4. num \in Params => Encode(num, vals'["master"][num]) = e.data
      <4> SUFFICES ASSUME num \in Params PROVE Encode(num, vals'["master"][num]) = e.data
        OBVIOUS
      <4>1. vals'["master"][num] = new
        BY <1>1, <2>7, <2>10 DEF Became
      <4>2. new = Update(num, v[num], 0, e.data)
        BY <2>2, <2>3, <2>6, <3>3 DEF Effect, NewValue
      <4>3. PICK w \in Values(num) : /\ e.data = Encode(num, w)
                                     /\ Table[num].type = "CONST_BIN" => w = Start[num]
        BY <2>5, <3>1 DEF ValueIn
      <4>4. v[num] \in Values(num) /\ (Table[num].type = "CONST_BIN" => v[num] = Start[num])
        BY <1>1, <2>3 DEF BgcpInv, InRange, MirrorInv, ConstKept
      <4>5. Update(num, v[num], 0, Encode(num, w)) = w
        BY <4>3, <4>4, UpdateTells
      <4> QED
        BY <4>1, <4>2, <4>3, <4>5
    <3>5. Learned(heard', vals'["master"])
      <4>1. /\ \A p \in Params : p # e.param => vals'["master"][p] = v[p]
            /\ e.param \in Params => Encode(e.param, vals'["master"][e.param]) = e.data
            /\ Learned(h, v)
        BY <1>2, <2>3, <2>8, <3>1, <3>4
      <4> QED
        BY <2>5, <3>1, <4>1, LearnedNext
    <3> QED
      BY <1>4, <2>7, <2>8, <3>5
  <2>11. CASE ~complete
    <3>1. UNCHANGED vals
      BY <2>7, <2>11
    <3>2. CASE heard' = h
      BY <1>2, <1>4, <2>3, <2>7, <3>1, <3>2
    <3>3. CASE Refusal(e) /\ heard' = Append(h, e)
      <4>1. e.param \notin Params
        <5> SUFFICES ASSUME e.param \in Params PROVE FALSE
          OBVIOUS
        <5>1. PICK w \in Values(e.param) : e.data = Encode(e.param, w)
          BY <2>5 DEF ValueIn
        <5> QED
          BY <3>3, <5>1, EncodeNotEmpty DEF Refusal
      <4>2. Learned(heard', v)
        <5>1. Learned(h, v)
          BY <1>2, <2>3
        <5> QED
          BY <2>5, <3>3, <4>1, <5>1, LearnedNext
      <4> QED
        BY <1>4, <2>3, <2>7, <3>1, <4>2
    <3> QED
      BY <2>9, <2>11, <3>2, <3>3
  <2> QED
    BY <2>10, <2>11
<1> QED
  BY <1>5, <1>6 DEF ParseStep

\* Into a buffer of more than one byte at least the first function fits.
LEMMA BufferBegins ==
    ASSUME NEW q \in Queues, NEW s \in Seq(Entries), Written(q, s), s # <<>>, QUEUE_BUF_SIZE > 1
    PROVE  q.buf # <<>> /\ ReadFunc(q.buf) # NO_FUNC
<1>1. PICK b : b = q.buf
  OBVIOUS
<1>2. b \in Seq(Byte) /\ Sized(s)
  BY <1>1, QueueParts, WrittenSized
<1>3. PICK m \in 0..Len(s) : \E off \in [0..m -> Nat] : Laid(b, s, m, off)
  BY <1>1 DEF Written
<1>4. PICK off \in [0..m -> Nat] : Laid(b, s, m, off)
  BY <1>3
<1>5. b # <<>>
  <2> SUFFICES ASSUME b = <<>> PROVE FALSE
    OBVIOUS
  <2>1. QUEUE_BUF_SIZE = 1
    BY <1>2, <1>4, LaidNotEmpty
  <2> QED
    BY <2>1
<1>6. s[1].func \in Functions
  <2>1. s[1] \in Entries
    OBVIOUS
  <2> QED
    BY <2>1 DEF Entries
<1>7. ReadByte(b) = s[1].func
  BY <1>2, <1>4, <1>5 DEF Laid, ReadByte
<1> QED
  BY <1>1, <1>5, <1>6, <1>7 DEF ReadFunc, Functions, NO_FUNC

\* Whoever sent the packet, constants stay constant and answers hold values.
LEMMA ParseKeepsValues ==
    ASSUME BgcpInv, ConstKept, AnswersMade, NEW n \in Nodes, ParseStep(n)
    PROVE  ConstKept' /\ AnswersMade'
<1>1. /\ parser.in \in Seq(Byte) /\ parser.in # <<>> /\ parser.page \in Byte /\ parser.size \in Nat
      /\ Head(parser.in) \in Byte /\ Tail(parser.in) \in Seq(Byte)
      /\ Len(Tail(parser.in)) = Len(parser.in) - 1
      /\ Skip(parser.in, 2) \in Seq(Byte) /\ ReadByte(Tail(parser.in)) \in Byte
  <2>1. parser.in \in Seq(Byte) /\ parser.page \in Byte /\ parser.size \in Byte
    BY ParserParts DEF BgcpInv
  <2>2. parser.in # <<>>
    BY DEF ParseStep, SetNewPage, SetNewFunc, SetDataSize, Perform, PerformNotSup, Parsing
  <2>3. /\ Head(parser.in) \in Byte /\ Tail(parser.in) \in Seq(Byte)
        /\ Len(Tail(parser.in)) = Len(parser.in) - 1
    BY <2>1, <2>2
  <2>4. parser.size \in Nat
    BY <2>1, BaseAssumption DEF Byte
  <2>5. Skip(parser.in, 2) \in Seq(Byte)
    BY <2>1, SkipType
  <2>6. ReadByte(Tail(parser.in)) \in Byte
    BY <2>3, Reading
  <2> QED
    BY <2>1, <2>2, <2>3, <2>4, <2>5, <2>6
<1>2. CASE SetNewPage(n) \/ SetNewFunc(n) \/ SetDataSize(n)
  <2>1. UNCHANGED <<vals, said>>
    BY <1>2 DEF SetNewPage, SetNewFunc, SetDataSize
  <2> QED
    BY <2>1 DEF ConstKept, AnswersMade
<1>3. CASE Perform(n)
  <2>1. PICK num : num = parser.page * Base + Head(parser.in)
    OBVIOUS
  <2>2. PICK complete \in BOOLEAN :
            complete = (parser.func # NO_FUNC /\ parser.size <= Len(parser.in) - 1)
    OBVIOUS
  <2>3. num \in ParamNums
    BY <1>1, <2>1, Number
  <2>4. PerformParam(n, num, Tail(parser.in), parser.size, complete)
    BY <1>3, <2>1, <2>2 DEF Perform
  <2>5. complete => parser.size <= Len(Tail(parser.in))
    BY <1>1, <2>2
  <2> QED
    BY <1>1, <2>3, <2>4, <2>5, PerformKeepsValues
<1>4. CASE PerformNotSup(n)
  <2>1. PICK num : num = parser.page * Base + ReadByte(Tail(parser.in))
    OBVIOUS
  <2>2. num \in ParamNums
    BY <1>1, <2>1, Number
  <2>3. PerformParam(n, num, Skip(parser.in, 2), 0, FALSE)
    BY <1>4, <2>1 DEF PerformNotSup
  <2> QED
    BY <1>1, <2>2, <2>3, PerformKeepsValues
<1> QED
  BY <1>2, <1>3, <1>4 DEF ParseStep

\* A request reaches the device, which has no answer yet.
LEMMA RequestMirror ==
    ASSUME BgcpInv, WriterInv, MirrorInv, SendRequest
    PROVE  MirrorInv'
<1>1. /\ said \in [Nodes -> Seq(Entries)] /\ queue \in [Nodes -> Queues]
      /\ "master" \in Nodes /\ "device" \in Nodes
  BY DEF BgcpInv, TypeOK, Nodes
<1>2. /\ at' = "device" /\ sent' = said["master"] /\ asked' = said["master"] /\ heard' = <<>>
      /\ UNCHANGED vals /\ said["master"] # <<>>
      /\ said' = IF ReadFunc(queue["master"].buf) = NO_FUNC THEN said
                 ELSE [said EXCEPT !["device"] = <<>>]
  BY DEF SendRequest, BeginParse
<1>3. ConstKept'
  BY <1>2 DEF MirrorInv, ConstKept
<1>4. AnswersMade'
  <2>1. said'["device"] = said["device"] \/ said'["device"] = <<>>
    BY <1>1, <1>2
  <2>2. CASE said'["device"] = said["device"]
    BY <2>2 DEF MirrorInv, AnswersMade
  <2>3. CASE said'["device"] = <<>>
    BY <2>3 DEF AnswersMade
  <2> QED
    BY <2>1, <2>2, <2>3
<1>5. AskedInv'
  <2> SUFFICES ASSUME QUEUE_BUF_SIZE > 1
               PROVE  /\ Matched(said'["device"], asked', heard', parser'.in)
                      /\ LastTells'
    BY <1>2 DEF AskedInv
  <2>1. Written(queue["master"], said["master"])
    BY <1>1 DEF WriterInv
  <2>2. ReadFunc(queue["master"].buf) # NO_FUNC
    BY <1>1, <1>2, <2>1, BufferBegins
  <2>3. said'["device"] = <<>>
    BY <1>1, <1>2, <2>2
  <2>4. asked' \in Seq(Entries)
    BY <1>1, <1>2
  <2>5. Matched(<<>>, asked', <<>>, parser'.in)
    BY <2>4, MatchedNothing
  <2>6. LastTells'
    BY <2>3 DEF LastTells
  <2> QED
    BY <1>2, <2>3, <2>5, <2>6
<1>6. LearnedInv'
  BY <1>2 DEF LearnedInv
<1> QED
  BY <1>3, <1>4, <1>5, <1>6 DEF MirrorInv

\* The answer of the device reaches the master.  The master itself never
\* answers: its queue stays empty.
LEMMA ResponseMirror ==
    ASSUME BgcpInv, WriterInv, ParserInv, MirrorInv, NEW n \in Nodes, SendResponse(n)
    PROVE  MirrorInv'
<1>1. /\ said \in [Nodes -> Seq(Entries)] /\ queue \in [Nodes -> Queues]
      /\ "master" \in Nodes /\ "device" \in Nodes
  BY DEF BgcpInv, TypeOK, Nodes
<1>2. EmptyQueue.buf = <<>>
  BY DEF EmptyQueue, Queue
<1>3. /\ at = n /\ parser.in = <<>> /\ from = Peer(n) /\ queue[n].buf # <<>> /\ asked' = asked
      /\ BeginParse(Peer(n), queue[n].buf, n, said[n])
  BY DEF SendResponse
<1>4. n = "device"
  <2>1. n # "master"
    BY <1>2, <1>3 DEF MirrorInv, LearnedInv
  <2> QED
    BY <2>1 DEF Nodes
<1>5. /\ at = "device" /\ from = "master" /\ Peer(n) = "master"
  BY <1>3, <1>4 DEF Peer
<1>6. PICK q, a : q = queue["device"] /\ a = said["device"]
  OBVIOUS
<1>7. q \in Queues /\ a \in Seq(Entries) /\ Written(q, a) /\ q.buf # <<>>
  BY <1>1, <1>3, <1>4, <1>6 DEF WriterInv
<1>8. QUEUE_BUF_SIZE > 1
  <2>1. q.buf \in Seq(Byte) /\ Len(q.buf) < QUEUE_BUF_SIZE /\ Len(q.buf) \in Nat
    BY <1>7, QueueParts DEF Written
  <2>2. Len(q.buf) >= 1
    BY <1>7, <2>1
  <2> QED
    BY <2>1, <2>2, QueueAssumption
<1>9. a # <<>>
  BY <1>2, <1>7 DEF Written
<1>10. ReadFunc(q.buf) # NO_FUNC
  BY <1>7, <1>8, <1>9, BufferBegins
<1>11. /\ at' = "master" /\ from' = "device" /\ heard' = <<>> /\ UNCHANGED <<vals, asked>>
       /\ queue' = [queue EXCEPT !["master"] = EmptyQueue]
       /\ said' = [said EXCEPT !["master"] = <<>>]
  BY <1>3, <1>4, <1>5, <1>6, <1>10 DEF BeginParse
<1>12. said'["device"] = said["device"] /\ queue'["master"] = EmptyQueue
  BY <1>1, <1>11
<1>13. ConstKept' /\ AnswersMade'
  BY <1>11, <1>12 DEF MirrorInv, ConstKept, AnswersMade
<1>14. AskedInv'
  BY <1>11 DEF AskedInv
<1>15. LearnedInv'
  <2>1. /\ Matched(said["device"], asked, heard, parser.in)
        /\ OnlyReads => LastTells
    BY <1>5, <1>8 DEF MirrorInv, AskedInv
  <2>2. /\ Len(said["device"]) <= Len(asked)
        /\ Len(said["device"]) = Len(asked) => FirstSame(said["device"], asked)
    BY <2>1 DEF Matched
  <2>3. OnlyReads' => LastTells'
    BY <1>11, <1>12, <2>1 DEF OnlyReads, LastTells
  <2>4. Learned(heard', vals'["master"])
    BY <1>11 DEF Learned
  <2> QED
    BY <1>8, <1>11, <1>12, <2>2, <2>3, <2>4 DEF LearnedInv
<1> QED
  BY <1>13, <1>14, <1>15 DEF MirrorInv

\* The steps after which no request of the master is parsed.
LEMMA ElsewhereMirror ==
    ASSUME MirrorInv, at' = "none" \/ (at' = "device" /\ from' = "noise"),
           UNCHANGED vals \/ \A k \in Nodes, p \in Params : vals'[k][p] = Start[p],
           said'["device"] = said["device"] \/ said'["device"] = <<>>
    PROVE  MirrorInv'
<1>1. ConstKept'
  BY DEF MirrorInv, ConstKept
<1>2. AnswersMade'
  <2>1. CASE said'["device"] = said["device"]
    BY <2>1 DEF MirrorInv, AnswersMade
  <2>2. CASE said'["device"] = <<>>
    BY <2>2 DEF AnswersMade
  <2> QED
    BY <2>1, <2>2
<1>3. AskedInv' /\ LearnedInv'
  BY DEF AskedInv, LearnedInv
<1> QED
  BY <1>1, <1>2, <1>3 DEF MirrorInv

LEMMA InitMirrorInv == Init => MirrorInv
<1> SUFFICES ASSUME Init PROVE MirrorInv
  OBVIOUS
<1>1. "device" \in Nodes
  BY DEF Nodes
<1>2. ConstKept
  BY DEF Init, ConstKept
<1>3. AnswersMade
  <2>1. said["device"] = <<>>
    BY <1>1 DEF Init
  <2> QED
    BY <2>1 DEF AnswersMade
<1>4. AskedInv /\ LearnedInv
  BY DEF Init, AskedInv, LearnedInv
<1> QED
  BY <1>2, <1>3, <1>4 DEF MirrorInv

LEMMA NextMirrorInv ==
    ASSUME BgcpInv, WriterInv, ParserInv, MirrorInv, ParserInv', [Next]_vars
    PROVE  MirrorInv'
<1>1. /\ said \in [Nodes -> Seq(Entries)] /\ "master" \in Nodes /\ "device" \in Nodes
      /\ \A k \in Nodes : k = "master" \/ k = "device"
  BY DEF BgcpInv, TypeOK, Nodes
<1>2. ASSUME NEW n \in Nodes, ParseStep(n) PROVE MirrorInv'
  <2>1. ConstKept' /\ AnswersMade'
    BY <1>2, ParseKeepsValues DEF MirrorInv
  <2>2. at' = n /\ from' = from
    BY <1>2 DEF ParseStep, SetNewPage, SetNewFunc, SetDataSize, Perform, PerformNotSup,
                PerformParam, Parsing
  <2>3. CASE n = "device"
    <3>1. AskedInv'
      <4>1. CASE from = "master" /\ QUEUE_BUF_SIZE > 1
        BY <1>2, <2>3, <4>1, AskedStep
      <4>2. CASE ~(from = "master" /\ QUEUE_BUF_SIZE > 1)
        BY <2>2, <4>2 DEF AskedInv
      <4> QED
        BY <4>1, <4>2
    <3>2. LearnedInv'
      BY <2>2, <2>3 DEF LearnedInv
    <3> QED
      BY <2>1, <3>1, <3>2 DEF MirrorInv
  <2>4. CASE n = "master"
    <3>1. LearnedInv'
      BY <1>2, <2>4, LearnedStep
    <3>2. AskedInv'
      BY <2>2, <2>4 DEF AskedInv
    <3> QED
      BY <2>1, <3>1, <3>2 DEF MirrorInv
  <2> QED
    BY <1>1, <2>3, <2>4
<1>3. ASSUME NEW n \in Nodes, EndRound(n) PROVE MirrorInv'
  <2>1. at' = "none" /\ UNCHANGED vals /\ said'["device"] = said["device"]
    BY <1>1, <1>3 DEF EndRound
  <2> QED
    BY <2>1, ElsewhereMirror
<1>4. ASSUME NEW e \in Requests, Ask(e) PROVE MirrorInv'
  <2>1. at' = "none" /\ UNCHANGED vals /\ said'["device"] = said["device"]
    BY <1>1, <1>4 DEF Ask
  <2> QED
    BY <2>1, ElsewhereMirror
<1>5. ASSUME NEW packet \in Noise, SendNoise(packet) PROVE MirrorInv'
  <2>1. /\ at' = "device" /\ from' = "noise" /\ UNCHANGED vals
        /\ said'["device"] = said["device"] \/ said'["device"] = <<>>
    BY <1>1, <1>5 DEF SendNoise, BeginParse
  <2> QED
    BY <2>1, ElsewhereMirror
<1>6. ASSUME Restart PROVE MirrorInv'
  <2>1. /\ at' = "none" /\ \A k \in Nodes, p \in Params : vals'[k][p] = Start[p]
        /\ said'["device"] = <<>>
    BY <1>1, <1>6 DEF Restart
  <2> QED
    BY <2>1, ElsewhereMirror
<1>7. CASE UNCHANGED vars
  <2>1. ConstKept' /\ AnswersMade'
    BY <1>7 DEF MirrorInv, ConstKept, AnswersMade, vars
  <2>2. (OnlyReads => LastTells) => (OnlyReads' => LastTells')
    BY <1>7 DEF OnlyReads, LastTells, vars
  <2>3. AskedInv'
    BY <1>7, <2>2 DEF MirrorInv, AskedInv, vars
  <2>4. LearnedInv'
    BY <1>7, <2>2 DEF MirrorInv, LearnedInv, vars
  <2> QED
    BY <2>1, <2>3, <2>4 DEF MirrorInv
<1> QED
  BY <1>2, <1>3, <1>4, <1>5, <1>6, <1>7, RequestMirror, ResponseMirror DEF Next

LEMMA MirrorInvMirrored == BgcpInv /\ ParserInv /\ MirrorInv => Mirrored
<1> SUFFICES ASSUME BgcpInv, ParserInv, MirrorInv,
                    at = "master", Len(heard) = Len(asked), OnlyReads,
                    NEW i \in DOMAIN asked, asked[i].param \in Params
             PROVE  vals["master"][asked[i].param] = vals["device"][asked[i].param]
  BY DEF Mirrored, OnlyReads
<1>1. PICK h, a, s, p : h = heard /\ a = said["device"] /\ s = asked /\ p = asked[i].param
  OBVIOUS
<1>2. a \in Seq(Entries) /\ s \in Seq(Entries) /\ "master" \in Nodes /\ "device" \in Nodes
  BY <1>1 DEF BgcpInv, TypeOK, Nodes
<1>3. /\ from = "device" /\ Len(a) <= Len(s)
      /\ Len(a) = Len(s) => FirstSame(a, s)
      /\ LastTells /\ Learned(h, vals["master"])
  BY <1>1 DEF MirrorInv, LearnedInv
<1>4. h \in Seq(Entries) /\ Len(h) <= Len(a) /\ \A k \in 1..Len(h) : h[k] = a[k]
  <2>1. sent = a
    BY <1>1, <1>3 DEF ParserInv
  <2>2. PICK b, r : b = queue[from].buf /\ r = parser
    OBVIOUS
  <2>3. PICK m : \E off : Chain(b, a, m, off) /\ ParsedTo(r, h, b, a, m, off)
    BY <1>1, <1>3, <2>1, <2>2 DEF ParserInv
  <2>4. PICK off : Chain(b, a, m, off) /\ ParsedTo(r, h, b, a, m, off)
    BY <2>3
  <2>5. h \in Seq(Entries) /\ Len(h) <= m /\ \A k \in 1..Len(h) : h[k] = a[k]
    BY <2>4 DEF ParsedTo
  <2>6. m \in 0..Len(a)
    BY <2>4 DEF Chain
  <2> QED
    BY <1>2, <2>5, <2>6
<1>5. Len(h) = Len(s) /\ Len(h) = Len(a) /\ i \in 1..Len(a) /\ FirstSame(a, s)
  <2>1. Len(h) = Len(s) /\ i \in DOMAIN s
    BY <1>1
  <2>2. Len(a) \in Nat /\ Len(s) \in Nat /\ Len(h) \in Nat /\ DOMAIN s = 1..Len(s)
    BY <1>2, <1>4
  <2>3. Len(h) = Len(a) /\ Len(a) = Len(s)
    BY <1>3, <1>4, <2>1, <2>2
  <2> QED
    BY <1>3, <2>1, <2>2, <2>3
<1>6. a[i].param = p
  BY <1>1, <1>5 DEF FirstSame
<1>7. LastIs(a, p, vals["device"][p])
  BY <1>1, <1>3, <1>5, <1>6 DEF LastTells
<1>8. PICK k \in 1..Len(a) : /\ a[k].param = p /\ a[k].data = Encode(p, vals["device"][p])
                             /\ \A j \in 1..Len(a) : j > k => a[j].param # p
  BY <1>7 DEF LastIs
<1>9. Encode(p, vals["master"][p]) = Encode(p, vals["device"][p])
  <2>1. /\ k \in 1..Len(h) /\ h[k].param = p /\ h[k].data = Encode(p, vals["device"][p])
        /\ \A j \in 1..Len(h) : j > k => h[j].param # p
    BY <1>4, <1>5, <1>8
  <2>2. p \in Params
    BY <1>1
  <2>3. Encode(h[k].param, vals["master"][h[k].param]) = h[k].data
    BY <1>3, <2>1, <2>2 DEF Learned
  <2> QED
    BY <2>1, <2>3
<1>10. vals["master"][p] \in Values(p) /\ vals["device"][p] \in Values(p) /\ p \in Params
  BY <1>1, <1>2 DEF BgcpInv, InRange
<1> QED
  BY <1>1, <1>9, <1>10, EncodeInjective

\* After an exchange that answered every entry of a reading request, the
\* master's copies are the device's values, for every table of parameters,
\* every packet before it and every answer lost before it.
THEOREM MirroredHolds == PlainRequests => (Spec => []Mirrored)
<1> SUFFICES ASSUME PlainRequests PROVE Spec => []Mirrored
  OBVIOUS
<1>1. Init => BgcpInv /\ WriterInv /\ ParserInv /\ MirrorInv
  BY InitBgcpInv, InitUnderstoodInv, InitMirrorInv
<1>2. BgcpInv /\ WriterInv /\ ParserInv /\ MirrorInv /\ [Next]_vars
      => (BgcpInv /\ WriterInv /\ ParserInv /\ MirrorInv)'
  BY NextBgcpInv, NextUnderstoodInv, NextMirrorInv
<1>3. BgcpInv /\ WriterInv /\ ParserInv /\ MirrorInv => Mirrored
  BY MirrorInvMirrored
<1> QED
  BY <1>1, <1>2, <1>3, PTL DEF Spec

====
