---------------------------- MODULE ServerTasks ----------------------------
(***************************************************************************)
(* The UDP services of device_network: the echo ("ping"), DNS and BGCP     *)
(* servers, which share udp_server.c, and the client of udp_client.c.      *)
(* Starting a service allocates a configuration, sets the service's bit    *)
(* and creates a task that owns the configuration; clearing the bit is     *)
(* the only way to stop it, and the task sees that only between two        *)
(* receives.  Several application tasks may start and stop services; every *)
(* call of the system that another task can notice is a step.              *)
(*                                                                         *)
(* A slot i stands for one configuration and for the task that it is       *)
(* passed to.                                                              *)
(***************************************************************************)
EXTENDS Integers, Sequences, FiniteSets

CONSTANTS Apps,            \* application tasks
          Services,        \* a subset of {"echo", "dns", "bgcp", "client"}
          Slots,           \* configurations that exist at once
          Queries,         \* datagrams for DNS: the bytes behind the header
          Fill,            \* what an uninitialised buffer may hold
          Hostname,        \* DEF_LOCAL_HOSTNAME, as character codes
          QUERY_SIZE,      \* UDP_RECV_BUF_SIZE without the header
          MAX_CALLS        \* bound on the calls of the application

\* Octets, and a C string, in which no character is 0.
ASSUME NameAssumption ==
    Hostname \in Seq(1..255) /\ Queries \subseteq Seq(0..255) /\ Fill \subseteq 0..255

ASSUME SizeAssumption == QUERY_SIZE \in Nat /\ \A q \in Queries : Len(q) <= QUERY_SIZE

VARIABLES bit,      \* the control bits of the device
          starting, \* by application task: the start that it is in
          task,     \* by slot: the state of the task
          conf,     \* by slot: "none", "live" or "freed"
          sock,     \* by slot: whether the task has a (bound) socket
          buf,      \* by slot: the receive buffer
          answer,   \* what a DNS server has just answered
          calls     \* history: calls made

serviceVars == <<bit, starting, task, conf, sock, buf, answer, calls>>

Idle == [step |-> "idle"]
Free(i) == conf[i] \in {"none", "freed"} /\ task[i].pc = "none"
NoTask == [pc |-> "none"]
NoAnswer == [sent |-> FALSE]
Servers == Services \ {"client"}

ServiceInit ==
    /\ bit = [s \in Services |-> FALSE]
    /\ starting = [a \in Apps |-> Idle]
    /\ task = [i \in Slots |-> NoTask]
    /\ conf = [i \in Slots |-> "none"]
    /\ sock = [i \in Slots |-> FALSE]
    /\ buf = [i \in Slots |-> <<>>]
    /\ answer = NoAnswer
    /\ calls = 0

-----------------------------------------------------------------------------
(* Starting and stopping. *)

Call(a) == starting[a] = Idle /\ calls < MAX_CALLS /\ calls' = calls + 1
Proceed(a, step) == starting' = [starting EXCEPT ![a].step = step]

\* What the fields of the configuration make of the task: start_bgcp_server leaves the
\* handler as malloc delivers it; a client's caller may leave out a handler.
Handlers(s) ==
    CASE s = "bgcp" -> {"null", "wild"}
      [] s = "client" -> {"set", "null"}
      [] OTHER -> {"set"}

\* start_...: malloc fills a free slot or fails.
StartAlloc(a, s) ==
    /\ Call(a)
    /\ \/ \E i \in Slots, h \in Handlers(s) :
            /\ Free(i) /\ \A j \in Slots : Free(j) => i <= j     \* slots are alike
            /\ conf' = [conf EXCEPT ![i] = "live"]
            /\ starting' = [starting EXCEPT ![a] = [step |-> "set", svc |-> s, slot |-> i,
                                                    handler |-> h]]
       \/ /\ starting' = [starting EXCEPT ![a] = [step |-> "clear", svc |-> s]]
          /\ UNCHANGED conf
    /\ UNCHANGED <<bit, task, sock, buf, answer>>

StartSetBit(a) ==
    /\ starting[a].step = "set"
    /\ bit' = [bit EXCEPT ![starting[a].svc] = TRUE]
    /\ Proceed(a, "create")
    /\ UNCHANGED <<task, conf, sock, buf, answer, calls>>

\* start_udp_server, start_udp_client: xTaskCreate succeeds, or it fails (for a client
\* also because there is no host name or no port).
StartCreate(a) ==
    LET i == starting[a].slot
    IN  /\ starting[a].step = "create"
        /\ \/ /\ \E f \in (IF starting[a].svc = "dns" THEN Fill ELSE {0}) :
                   buf' = [buf EXCEPT ![i] = [k \in 1..QUERY_SIZE |-> f]]
              /\ task' = [task EXCEPT ![i] = [pc |-> "begin", svc |-> starting[a].svc,
                                              handler |-> starting[a].handler]]
              /\ starting' = [starting EXCEPT ![a] = Idle]
           \/ /\ Proceed(a, "free")
              /\ UNCHANGED <<task, buf>>
        /\ UNCHANGED <<bit, conf, sock, answer, calls>>

StartFree(a) ==
    /\ starting[a].step = "free"
    /\ conf' = [conf EXCEPT ![starting[a].slot] = "freed"]
    /\ Proceed(a, "clear")
    /\ UNCHANGED <<bit, task, sock, buf, answer, calls>>

\* Mutant of StartClear: the bit stays set when the start fails.
StartClearForgets(a) ==
    /\ starting[a].step = "clear"
    /\ starting' = [starting EXCEPT ![a] = Idle]
    /\ UNCHANGED <<bit, task, conf, sock, buf, answer, calls>>

\* The start reports failure.
StartClear(a) ==
    /\ starting[a].step = "clear"
    /\ bit' = [bit EXCEPT ![starting[a].svc] = FALSE]
    /\ starting' = [starting EXCEPT ![a] = Idle]
    /\ UNCHANGED <<task, conf, sock, buf, answer, calls>>

\* A service is stopped by device_clear_bits.
Stop(a, s) ==
    /\ Call(a)
    /\ bit' = [bit EXCEPT ![s] = FALSE]
    /\ UNCHANGED <<starting, task, conf, sock, buf, answer>>

-----------------------------------------------------------------------------
(* The tasks. *)

At(i, pc) == task[i].pc = pc
Continue(i, pc) == task' = [task EXCEPT ![i].pc = pc]

\* A configuration without a handler ends the task, and so does a client whose host
\* name is not resolved; the configuration stays allocated.
TaskBegin(i) ==
    /\ At(i, "begin")
    /\ \/ task[i].handler # "null" /\ Continue(i, "test")
       \/ task[i].handler = "null" /\ Continue(i, "refused")
       \/ task[i].svc = "client" /\ Continue(i, "refused")
    /\ UNCHANGED <<bit, starting, conf, sock, buf, answer, calls>>

\* The condition of the loop.
TaskTest(i) ==
    /\ At(i, "test")
    /\ Continue(i, IF bit[task[i].svc] THEN "socket" ELSE "end")
    /\ answer' = NoAnswer
    /\ UNCHANGED <<bit, starting, conf, sock, buf, calls>>

\* External: a second socket cannot be bound to the port of a server.
PortFree(i) ==
    task[i].svc = "client" \/ \A j \in Slots \ {i} : sock[j] => task[j].svc # task[i].svc

\* udp_socket_create may fail; the task then starts the loop anew.
TaskSocket(i) ==
    /\ At(i, "socket")
    /\ \/ sock[i] /\ Continue(i, "talk") /\ UNCHANGED sock
       \/ ~sock[i] /\ PortFree(i) /\ sock' = [sock EXCEPT ![i] = TRUE] /\ Continue(i, "talk")
       \/ ~sock[i] /\ Continue(i, "test") /\ UNCHANGED sock
    /\ UNCHANGED <<bit, starting, conf, buf, answer, calls>>

\* Mutant of ServerReceive: a time-out goes on without looking at the bit.
ServerReceiveStays(i) ==
    /\ At(i, "talk") /\ task[i].svc \in Servers
    /\ Continue(i, "socket")
    /\ UNCHANGED <<bit, starting, conf, sock, buf, answer, calls>>

\* recvfrom: a time-out starts the loop anew; an error closes the socket as well.
ServerReceive(i) ==
    /\ At(i, "talk") /\ task[i].svc \in Servers
    /\ \/ \E q \in (IF task[i].svc = "dns" THEN Queries ELSE {<<>>}) :
            /\ buf' = [buf EXCEPT ![i] = [k \in DOMAIN @ |-> IF k <= Len(q) THEN q[k] ELSE @[k]]]
            /\ task' = [task EXCEPT ![i] = [pc |-> "answer", svc |-> task[i].svc,
                                            handler |-> task[i].handler, len |-> Len(q)]]
            /\ UNCHANGED sock
       \/ Continue(i, "test") /\ UNCHANGED <<sock, buf>>
       \/ Continue(i, "test") /\ sock' = [sock EXCEPT ![i] = FALSE] /\ UNCHANGED buf
    /\ UNCHANGED <<bit, starting, conf, answer, calls>>

\* The client sends its request and looks once for an answer; whatever comes of either,
\* the socket stays and the loop goes on.
ClientRound(i) ==
    /\ At(i, "talk") /\ task[i].svc = "client"
    /\ Continue(i, "test")
    /\ UNCHANGED <<bit, starting, conf, sock, buf, answer, calls>>

-----------------------------------------------------------------------------
(* DNS names.  Byte o of the query (from 0, behind the header) is read     *)
(* from the buffer; the one behind the buffer is whatever lies there.      *)

DOT == 46
tolower(c) == IF c \in 65..90 THEN c + 32 ELSE c
ByteAt(b, o, beyond) == IF o < Len(b) THEN b[o + 1] ELSE beyond
HostChar(h) == IF h < Len(Hostname) THEN Hostname[h + 1] ELSE 0

\* A label of n characters must be within the datagram and agree with the host name.
LabelFits(b, len, o, n, h) ==
    /\ o + 1 + n <= len
    /\ \A k \in 0..(n - 1) : tolower(b[o + k + 2]) = tolower(HostChar(h + k))

\* A dot of the host name behind a label is passed over.
PassDot(h) == IF HostChar(h) = DOT THEN h + 1 ELSE h

\* Mutant of dns_hostname_match: letters must have the case of the host name.
MatchCaseSensitive(b, len, beyond) ==
    LET walk[p \in Nat \X Nat] ==
            IF p[1] < len /\ b[p[1] + 1] # 0 /\ p[2] < Len(Hostname)
            THEN /\ p[1] + 1 + b[p[1] + 1] <= len
                 /\ \A k \in 0..(b[p[1] + 1] - 1) : b[p[1] + k + 2] = HostChar(p[2] + k)
                 /\ walk[<<p[1] + 1 + b[p[1] + 1], PassDot(p[2] + b[p[1] + 1])>>]
            ELSE ByteAt(b, p[1], beyond) = 0 /\ p[2] = Len(Hostname)
    IN  walk[<<0, 0>>]

\* The walk over the labels at p: an offset into the query and one into the host name.
dns_hostname_match(b, len, beyond) ==
    LET walk[p \in Nat \X Nat] ==
            LET n == b[p[1] + 1]
            IN  IF p[1] < len /\ n # 0 /\ p[2] < Len(Hostname)
                THEN /\ LabelFits(b, len, p[1], n, p[2])
                     /\ walk[<<p[1] + 1 + n, PassDot(p[2] + n)>>]
                ELSE ByteAt(b, p[1], beyond) = 0 /\ p[2] = Len(Hostname)
    IN  walk[<<0, 0>>]

\* The handlers: an echo, a DNS server that answers for its own name, and whatever
\* an uninitialised pointer points to, which restarts the device.
TaskAnswer(i) ==
    /\ At(i, "answer") /\ task[i].handler = "set"
    /\ task' = [task EXCEPT ![i] = [pc |-> "test", svc |-> task[i].svc, handler |-> "set"]]
    /\ answer' \in IF task[i].svc # "dns" THEN {answer}
                   ELSE {[sent |-> dns_hostname_match(buf[i], task[i].len, beyond),
                          query |-> SubSeq(buf[i], 1, task[i].len),
                          rest |-> SubSeq(buf[i], task[i].len + 1, QUERY_SIZE)] : beyond \in Fill}
    /\ UNCHANGED <<bit, starting, conf, sock, buf, calls>>

WildHandler(i) ==
    /\ At(i, "answer") /\ task[i].handler = "wild"
    /\ bit' = [s \in Services |-> FALSE]
    /\ starting' = [a \in Apps |-> Idle]
    /\ task' = [j \in Slots |-> NoTask]
    /\ conf' = [j \in Slots |-> "none"]
    /\ sock' = [j \in Slots |-> FALSE]
    /\ buf' = [j \in Slots |-> <<>>]
    /\ answer' = NoAnswer
    /\ UNCHANGED calls

\* Mutant of TaskEnd: the configuration is not freed.
TaskEndLeaks(i) ==
    /\ At(i, "end")
    /\ sock' = [sock EXCEPT ![i] = FALSE]
    /\ task' = [task EXCEPT ![i] = NoTask]
    /\ buf' = [buf EXCEPT ![i] = <<>>]
    /\ UNCHANGED <<bit, starting, conf, answer, calls>>

\* Close the socket, free the configuration, delete the task.
TaskEnd(i) ==
    /\ At(i, "end")
    /\ sock' = [sock EXCEPT ![i] = FALSE]
    /\ conf' = [conf EXCEPT ![i] = "freed"]
    /\ task' = [task EXCEPT ![i] = NoTask]
    /\ buf' = [buf EXCEPT ![i] = <<>>]
    /\ UNCHANGED <<bit, starting, answer, calls>>

-----------------------------------------------------------------------------
AppStep(a) == StartSetBit(a) \/ StartCreate(a) \/ StartFree(a) \/ StartClear(a)
TaskStep(i) ==
    TaskBegin(i) \/ TaskTest(i) \/ TaskSocket(i) \/ ServerReceive(i) \/ ClientRound(i)
    \/ TaskAnswer(i) \/ WildHandler(i) \/ TaskEnd(i)

ServiceNext ==
    \/ \E a \in Apps, s \in Services : StartAlloc(a, s) \/ Stop(a, s)
    \/ \E a \in Apps : AppStep(a)
    \/ \E i \in Slots : TaskStep(i)

\* The scheduler runs every task; waits have time limits.
Fairness == /\ \A a \in Apps : WF_serviceVars(AppStep(a))
            /\ \A i \in Slots : WF_serviceVars(TaskStep(i))

ServiceSpec == ServiceInit /\ [][ServiceNext]_serviceVars /\ Fairness

-----------------------------------------------------------------------------
(* Properties. *)

Running(i) == task[i].pc \notin {"none", "refused"}

\* No task uses a configuration that was freed, no two owners hold the same one, and a
\* configuration is abandoned only by a task that refused it.
ConfOwned ==
    \A i \in Slots :
        LET starters == {a \in Apps : starting[a].step \in {"set", "create", "free"}
                                      /\ starting[a].slot = i}
        IN  IF conf[i] = "live"
            THEN Cardinality(starters) + (IF task[i].pc # "none" THEN 1 ELSE 0) = 1
            ELSE starters = {} /\ task[i].pc = "none"

\* A bit that is set has a task that will see it cleared, or a start that is still
\* under way, unless the task has refused its configuration: a start that fails, a stop
\* and a second start in any order do not leave a service that is only said to run.
BitBacked ==
    \A s \in Services : bit[s] =>
        \/ \E a \in Apps :
              starting[a].step \in {"create", "free", "clear"} /\ starting[a].svc = s
        \/ \E i \in Slots : task[i].pc \notin {"none", "end"} /\ task[i].svc = s

\* The name in a datagram: its labels up to the empty one or the end, with dots between.
Label(q, o) ==
    LET e == o + 1 + q[o + 1] IN SubSeq(q, o + 2, IF e <= Len(q) THEN e ELSE Len(q))
NameIn(q) ==
    LET name[o \in Nat] ==
            IF o >= Len(q) \/ q[o + 1] = 0 THEN <<>>
            ELSE LET tail == name[o + 1 + q[o + 1]]
                 IN  Label(q, o) \o (IF tail = <<>> THEN <<>> ELSE <<DOT>> \o tail)
    IN  name[0]
Lower(s) == [k \in DOMAIN s |-> tolower(s[k])]
\* s in lower case and without its dots.
NoDots(s) ==
    LET letters[i \in Nat] ==
            IF i >= Len(s) THEN <<>>
            ELSE (IF s[i + 1] = DOT THEN <<>> ELSE <<tolower(s[i + 1])>>) \o letters[i + 1]
    IN  letters[0]
Ended(q) == \E k \in DOMAIN q : q[k] = 0

\* A DNS server answers every query for its host name, in any case, and no query for a
\* name that differs in more than its dots, whatever earlier queries left in the buffer.
DnsAnswersHost ==
    answer # NoAnswer =>
        /\ Ended(answer.query) /\ Lower(NameIn(answer.query)) = Lower(Hostname) => answer.sent
        /\ answer.sent => NoDots(NameIn(answer.query)) = NoDots(Hostname)

\* If a service stays stopped, all its tasks end and its port becomes free, however
\* many of them a stop and a start in quick succession have created.
StopEnds ==
    \A s \in Services :
        <>[](~bit[s]) => <>[](\A i \in Slots : Running(i) => task[i].svc # s)

=============================================================================
