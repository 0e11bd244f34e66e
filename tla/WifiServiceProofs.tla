-------------------------- MODULE WifiServiceProofs --------------------------
(***************************************************************************)
(* The Wi-Fi service, proved for any number of retries and of stations:    *)
(* the types and ModeAsRequested under every interleaving of the           *)
(* application task, the event task and the network; ScanUndisturbed,      *)
(* BitsTruthful and GivesUpLate, with calls that follow each other while   *)
(* events are pending and with calls of esp_wifi_connect that fail.  The   *)
(* last parts are about the UDP services above it: ConfOwned, BitBacked    *)
(* and DnsAnswersHost of ServerTasks.                                      *)
(*                                                                         *)
(* The invariant of the Wi-Fi service relates the events that are still in *)
(* the queue to what the driver has done since it posted them.             *)
(***************************************************************************)
EXTENDS WifiService, ServerTasks, TLAPS, FiniteSetTheorems,
        SequenceTheorems, WellFoundedInduction

\* An event is pending.
Has(q, e) == \E i \in 1 .. Len(q) : q[i] = e

\* No b comes behind an a.
NeverAfter(q, a, b) == \A i, j \in 1 .. Len(q) : q[i] = a /\ q[j] = b => j < i

\* The events upon which the handler may call esp_wifi_connect.
Tokens == {"STA_START", "STA_DISCONNECTED"}
OneToken(q) == \A i, j \in 1 .. Len(q) : q[i] \in Tokens /\ q[j] \in Tokens => i = j
NoToken(q) == ~Has(q, "STA_START") /\ ~Has(q, "STA_DISCONNECTED")

Station == drv.started /\ HasSta(drv.mode)

\* The events of a scan made in mode NULL: a start, then a stop.
Stale == {"STA_START", "STA_STOP"}
OnlyStale(q) == \A e \in Events \ Stale : ~Has(q, e)
EndsInStop(q) == q # <<>> => q[Len(q)] = "STA_STOP"

\* A stop is pending, and before it nothing but starts and stops.
StopFirst(q) ==
  \E i \in 1 .. Len(q) :
    q[i] = "STA_STOP" /\ \A j \in 1 .. Len(q) : j < i => q[j] \in Stale

\* A stop is pending that no address follows.
StopLast(q) ==
  \E i \in 1 .. Len(q) :
    q[i] = "STA_STOP" /\ \A j \in 1 .. Len(q) : i < j => q[j] # "STA_GOT_IP"

\* The driver is stopped, or started for a scan.
Resting ==
  \/ app.pc \in {"scan", "scanning", "mode", "config", "on"}
  \/ app.pc \in {"idle", "finish"} /\ drv.mode = "NULL"

\* A reconnection was decided with an attempt left.
CtrlInv ==
  /\ handler = "reconnect" => ctrl < WIFI_MAX_RETRY
  /\ handler = "connect" => ctrl = 0

\* The mode the application is on its way to.
ModeInv ==
  /\ ModeAsRequested
  /\ app.pc # "idle" /\ app.op # "set" =>
       app.mode \in Modes /\ (result => app.mode = get_wifi_mode(cur_mode))
  /\ app.pc # "idle" /\ app.op = "restore" => app.mode # "NULL"
  /\ app.pc \in {"scan", "scanning"} => app.op = "scan"
  /\ app.pc \in {"config", "on", "start", "finish"} =>
       drv.mode = get_wifi_mode(app.mode)
  /\ app.pc \in {"config", "on", "start"} => drv.mode # "NULL"
  /\ app.pc # "idle" => init = "done"
  /\ init = "none" => cur_mode = "NOT_INIT"

\* While the driver rests nothing but the events of scans can be pending.
RestInv ==
  Resting =>
    /\ OnlyStale(evq) /\ handler = "idle" /\ ~overtaken
    /\ "AUTO_CONN" \notin bits /\ "STA_CONNECTED" \notin bits
    /\ drv.link = "down" /\ clients = 0
    /\ IF app.pc = "scanning" THEN drv.started /\ drv.mode = "STA"
       ELSE ~drv.started /\ EndsInStop(evq)

\* What the application may rely on at each of its steps.
PhaseInv ==
  /\ app.pc \in {"delay", "start"} => ~drv.started
  /\ drv.link # "down" => Station
  /\ clients > 0 => drv.started
  /\ app.pc \in {"stop", "delay"} => "AUTO_CONN" \notin bits
  /\ app.pc = "delay" /\ ("STA_CONNECTED" \in bits \/ Has(evq, "STA_GOT_IP")) =>
       StopLast(evq)
  /\ ~Station /\ app.pc # "delay" =>
       "STA_CONNECTED" \notin bits /\ ~Has(evq, "STA_GOT_IP")

\* What set_wifi_on finds when nothing of an earlier scan is pending.
FreshInv ==
  ~overtaken =>
    /\ app.pc = "start" => "AUTO_CONN" \in bits
    /\ app.pc \in {"idle", "finish", "off"} /\ Station => "AUTO_CONN" \in bits
    /\ app.pc # "scanning" /\ Has(evq, "STA_STOP") => ~drv.started
    /\ ~drv.started /\ "AUTO_CONN" \in bits => evq = <<>> /\ handler = "idle"

\* And when its events are: they are the first, and one of them will clear
\* automatic connection before the handler gives up anything.
OvertakenInv ==
  overtaken =>
    /\ "AUTO_CONN" \in bits => StopFirst(evq)
    /\ app.pc # "delay" =>
         /\ NeverAfter(evq, "STA_GOT_IP", "STA_STOP")
         /\ Has(evq, "STA_STOP") => "STA_CONNECTED" \notin bits

\* One attempt to connect at a time.
TokenInv ==
  ~overtaken =>
    /\ drv.link # "down" => handler = "idle" /\ NoToken(evq)
    /\ handler # "idle" => NoToken(evq)
    /\ drv.started /\ app.pc # "scanning" => OneToken(evq)

\* What the bits will say once the pending events are handled.
LinkInv ==
  /\ drv.link = "up" /\ app.pc # "stop" =>
       "STA_CONNECTED" \in bits \/ Has(evq, "STA_GOT_IP")
  /\ ~overtaken => NeverAfter(evq, "STA_DISCONNECTED", "STA_GOT_IP")
  /\ ~overtaken /\ Station /\ drv.link = "down" /\ app.pc # "scanning" =>
       \/ "STA_CONNECTED" \notin bits /\ ~Has(evq, "STA_GOT_IP")
       \/ handler # "idle" \/ Has(evq, "STA_DISCONNECTED")
       \/ app.pc = "stop" \/ refused

ClientsInv ==
  /\ clients = 0 =>
       \/ "CONNECTED" \notin bits /\ ~Has(evq, "AP_STACONNECTED")
       \/ Has(evq, "AP_STADISCONNECTED")
  /\ NeverAfter(evq, "AP_STADISCONNECTED", "AP_STACONNECTED")

\* The counter of the handler is never ahead of the failures there have been,
\* but for a success the handler has yet to hear of.
LostInv ==
  ~overtaken =>
    /\ drv.link # "down" => lost >= ctrl \/ Has(evq, "STA_GOT_IP")
    /\ drv.started /\ Has(evq, "STA_DISCONNECTED") =>
         lost >= 1 /\ (lost >= ctrl + 1 \/ Has(evq, "STA_GOT_IP"))
    /\ drv.started /\ handler = "reconnect" => lost >= ctrl + 1

-----------------------------------------------------------------------------
(***************************************************************************)
(* The queue of events.                                                    *)
(***************************************************************************)
LEMMA EmptyHas ==
  /\ <<>> \in Seq(Events)
  /\ \A e : ~Has(<<>>, e)
  /\ \A a, b : NeverAfter(<<>>, a, b)
  /\ OneToken(<<>>)
BY DEF Has, NeverAfter, OneToken

LEMMA AppendHas ==
  ASSUME NEW q \in Seq(Events), NEW x \in Events
  PROVE  /\ Append(q, x) \in Seq(Events)
         /\ \A e : Has(Append(q, x), e) <=> Has(q, e) \/ x = e
         /\ \A a, b : NeverAfter(q, a, b) /\ (x = b => ~Has(q, a) /\ a # b)
                       => NeverAfter(Append(q, x), a, b)
         /\ NoToken(q) \/ (OneToken(q) /\ x \notin Tokens)
              => OneToken(Append(q, x))
<1>1. /\ Append(q, x) \in Seq(Events) /\ Len(Append(q, x)) = Len(q) + 1
      /\ Len(q) \in Nat /\ Append(q, x)[Len(q) + 1] = x
      /\ \A i \in 1 .. Len(q) : Append(q, x)[i] = q[i]
  OBVIOUS
<1>2. 1 .. Len(q) + 1 = (1 .. Len(q)) \union {Len(q) + 1}
  BY <1>1
<1>3. \A e : Has(Append(q, x), e) <=> Has(q, e) \/ x = e
  BY <1>1, <1>2 DEF Has
<1>4. ASSUME NEW a, NEW b, NeverAfter(q, a, b), x = b => ~Has(q, a) /\ a # b
      PROVE  NeverAfter(Append(q, x), a, b)
  <2> SUFFICES ASSUME NEW i \in 1 .. Len(q) + 1, NEW j \in 1 .. Len(q) + 1,
                      Append(q, x)[i] = a, Append(q, x)[j] = b
               PROVE  j < i
    BY <1>1 DEF NeverAfter
  <2>1. CASE j \in 1 .. Len(q) /\ i \in 1 .. Len(q)
    BY <1>1, <1>4, <2>1 DEF NeverAfter
  <2>2. CASE j \in 1 .. Len(q) /\ i = Len(q) + 1
    BY <1>1, <2>2
  <2>3. CASE j = Len(q) + 1
    <3>1. x = b
      BY <1>1, <2>3
    <3>2. ~Has(q, a) /\ i # j
      BY <1>1, <1>4, <2>3, <3>1
    <3> QED
      BY <1>1, <1>2, <2>3, <3>2 DEF Has
  <2> QED BY <1>2, <2>1, <2>2, <2>3
<1>5. ASSUME NoToken(q) \/ (OneToken(q) /\ x \notin Tokens)
      PROVE  OneToken(Append(q, x))
  <2>1. NoToken(q) => \A i \in 1 .. Len(q) : q[i] \notin Tokens
    BY DEF NoToken, Has, Tokens
  <2> SUFFICES ASSUME NEW i \in 1 .. Len(q) + 1, NEW j \in 1 .. Len(q) + 1,
                      Append(q, x)[i] \in Tokens, Append(q, x)[j] \in Tokens
               PROVE  i = j
    BY <1>1 DEF OneToken
  <2>2. CASE NoToken(q)
    BY <1>1, <1>2, <2>1, <2>2
  <2>3. CASE OneToken(q) /\ x \notin Tokens
    BY <1>1, <1>2, <2>3 DEF OneToken
  <2> QED BY <1>5, <2>2, <2>3
<1>6. \A a, b : NeverAfter(q, a, b) /\ (x = b => ~Has(q, a) /\ a # b)
                  => NeverAfter(Append(q, x), a, b)
  BY <1>4
<1> QED BY <1>1, <1>3, <1>5, <1>6

LEMMA ConcatHas ==
  ASSUME NEW q \in Seq(Events), NEW r \in Seq(Events)
  PROVE  /\ q \o r \in Seq(Events)
         /\ \A e : Has(q \o r, e) <=> Has(q, e) \/ Has(r, e)
         /\ \A a, b : NeverAfter(q, a, b) /\ ~Has(r, b) => NeverAfter(q \o r, a, b)
         /\ \/ NoToken(q) /\ OneToken(r)
            \/ OneToken(q) /\ NoToken(r)
            => OneToken(q \o r)
<1>1. /\ q \o r \in Seq(Events) /\ Len(q \o r) = Len(q) + Len(r)
      /\ Len(q) \in Nat /\ Len(r) \in Nat
      /\ \A i \in 1 .. Len(q) + Len(r) :
           (q \o r)[i] = IF i <= Len(q) THEN q[i] ELSE r[i - Len(q)]
  OBVIOUS
<1>2. \A i \in 1 .. Len(q) + Len(r) :
        IF i <= Len(q) THEN i \in 1 .. Len(q) ELSE i - Len(q) \in 1 .. Len(r)
  BY <1>1
<1>3. ASSUME NEW e PROVE Has(q \o r, e) <=> Has(q, e) \/ Has(r, e)
  <2>1. Has(q \o r, e) => Has(q, e) \/ Has(r, e)
    BY <1>1, <1>2 DEF Has
  <2>2. Has(q, e) => Has(q \o r, e)
    <3> SUFFICES ASSUME NEW i \in 1 .. Len(q), q[i] = e PROVE Has(q \o r, e)
      BY DEF Has
    <3>1. i \in 1 .. Len(q) + Len(r) /\ i <= Len(q)
      BY <1>1
    <3> QED BY <1>1, <3>1 DEF Has
  <2>3. Has(r, e) => Has(q \o r, e)
    <3> SUFFICES ASSUME NEW i \in 1 .. Len(r), r[i] = e PROVE Has(q \o r, e)
      BY DEF Has
    <3>1. /\ i + Len(q) \in 1 .. Len(q) + Len(r) /\ ~(i + Len(q) <= Len(q))
          /\ (i + Len(q)) - Len(q) = i
      BY <1>1
    <3> QED BY <1>1, <3>1 DEF Has
  <2> QED BY <2>1, <2>2, <2>3
<1>4. ASSUME NEW a, NEW b, NeverAfter(q, a, b), ~Has(r, b)
      PROVE  NeverAfter(q \o r, a, b)
  <2> SUFFICES ASSUME NEW i \in 1 .. Len(q) + Len(r),
                      NEW j \in 1 .. Len(q) + Len(r),
                      (q \o r)[i] = a, (q \o r)[j] = b
               PROVE  j < i
    BY <1>1 DEF NeverAfter
  <2>1. j <= Len(q)
    BY <1>1, <1>2, <1>4 DEF Has
  <2>2. CASE i <= Len(q)
    BY <1>1, <1>2, <1>4, <2>1, <2>2 DEF NeverAfter
  <2>3. CASE ~(i <= Len(q))
    BY <1>1, <2>1, <2>3
  <2> QED BY <2>2, <2>3
<1>5. ASSUME NEW s \in Seq(Events), NoToken(s)
      PROVE  \A i \in 1 .. Len(s) : s[i] \notin Tokens
  BY <1>5 DEF NoToken, Has, Tokens
<1>6. ASSUME NoToken(q), OneToken(r) PROVE OneToken(q \o r)
  <2> SUFFICES ASSUME NEW i \in 1 .. Len(q) + Len(r),
                      NEW j \in 1 .. Len(q) + Len(r),
                      (q \o r)[i] \in Tokens, (q \o r)[j] \in Tokens
               PROVE  i = j
    BY <1>1 DEF OneToken
  <2>1. ~(i <= Len(q)) /\ ~(j <= Len(q))
    BY <1>1, <1>2, <1>5, <1>6
  <2>2. i - Len(q) = j - Len(q)
    BY <1>1, <1>2, <1>6, <2>1 DEF OneToken
  <2> QED BY <1>1, <2>2
<1>7. ASSUME OneToken(q), NoToken(r) PROVE OneToken(q \o r)
  <2> SUFFICES ASSUME NEW i \in 1 .. Len(q) + Len(r),
                      NEW j \in 1 .. Len(q) + Len(r),
                      (q \o r)[i] \in Tokens, (q \o r)[j] \in Tokens
               PROVE  i = j
    BY <1>1 DEF OneToken
  <2>1. i <= Len(q) /\ j <= Len(q)
    BY <1>1, <1>2, <1>5, <1>7
  <2> QED BY <1>1, <1>2, <1>7, <2>1 DEF OneToken
<1> QED BY <1>1, <1>3, <1>4, <1>6, <1>7

LEMMA TailHas ==
  ASSUME NEW q \in Seq(Events), q # <<>>
  PROVE  /\ Head(q) \in Events /\ Tail(q) \in Seq(Events)
         /\ \A e : Has(q, e) <=> Head(q) = e \/ Has(Tail(q), e)
         /\ \A a, b : NeverAfter(q, a, b) =>
              /\ NeverAfter(Tail(q), a, b)
              /\ Head(q) = a => ~Has(Tail(q), b)
         /\ OneToken(q) => /\ OneToken(Tail(q))
                           /\ Head(q) \in Tokens => NoToken(Tail(q))
<1>1. /\ Head(q) \in Events /\ Tail(q) \in Seq(Events) /\ Head(q) = q[1]
      /\ Len(q) \in Nat /\ Len(q) >= 1 /\ Len(Tail(q)) = Len(q) - 1
      /\ \A i \in 1 .. Len(q) - 1 : Tail(q)[i] = q[i + 1]
  OBVIOUS
<1>2. /\ \A i \in 1 .. Len(q) - 1 : i + 1 \in 1 .. Len(q)
      /\ \A i \in 1 .. Len(q) : i = 1 \/ (i - 1 \in 1 .. Len(q) - 1 /\ (i - 1) + 1 = i)
      /\ 1 \in 1 .. Len(q)
  BY <1>1
<1>3. ASSUME NEW e PROVE Has(q, e) <=> Head(q) = e \/ Has(Tail(q), e)
  <2>1. Has(q, e) => Head(q) = e \/ Has(Tail(q), e)
    <3> SUFFICES ASSUME NEW i \in 1 .. Len(q), q[i] = e
                 PROVE  Head(q) = e \/ Has(Tail(q), e)
      BY DEF Has
    <3>1. CASE i = 1
      BY <1>1, <3>1
    <3>2. CASE i - 1 \in 1 .. Len(q) - 1 /\ (i - 1) + 1 = i
      BY <1>1, <3>2 DEF Has
    <3> QED BY <1>2, <3>1, <3>2
  <2> QED BY <1>1, <1>2, <2>1 DEF Has
<1>4. ASSUME NEW a, NEW b, NeverAfter(q, a, b)
      PROVE  /\ NeverAfter(Tail(q), a, b)
             /\ Head(q) = a => ~Has(Tail(q), b)
  <2>1. NeverAfter(Tail(q), a, b)
    <3> SUFFICES ASSUME NEW i \in 1 .. Len(q) - 1, NEW j \in 1 .. Len(q) - 1,
                        Tail(q)[i] = a, Tail(q)[j] = b
                 PROVE  j < i
      BY <1>1 DEF NeverAfter
    <3>1. j + 1 < i + 1
      BY <1>1, <1>2, <1>4 DEF NeverAfter
    <3> QED BY <1>1, <3>1
  <2>2. Head(q) = a => ~Has(Tail(q), b)
    <3> SUFFICES ASSUME q[1] = a, NEW j \in 1 .. Len(q) - 1, Tail(q)[j] = b
                 PROVE  FALSE
      BY <1>1 DEF Has
    <3>1. j + 1 < 1
      BY <1>1, <1>2, <1>4 DEF NeverAfter
    <3> QED BY <1>1, <3>1
  <2> QED BY <2>1, <2>2
<1>5. ASSUME OneToken(q)
      PROVE  OneToken(Tail(q)) /\ (Head(q) \in Tokens => NoToken(Tail(q)))
  <2>1. OneToken(Tail(q))
    <3> SUFFICES ASSUME NEW i \in 1 .. Len(q) - 1, NEW j \in 1 .. Len(q) - 1,
                        Tail(q)[i] \in Tokens, Tail(q)[j] \in Tokens
                 PROVE  i = j
      BY <1>1 DEF OneToken
    <3>1. i + 1 = j + 1
      BY <1>1, <1>2, <1>5 DEF OneToken
    <3> QED BY <1>1, <3>1
  <2>2. ASSUME Head(q) \in Tokens, NEW e \in Tokens, Has(Tail(q), e)
        PROVE  FALSE
    <3>1. PICK j \in 1 .. Len(q) - 1 : Tail(q)[j] = e
      BY <1>1, <2>2 DEF Has
    <3>2. j + 1 = 1
      BY <1>1, <1>2, <1>5, <2>2, <3>1 DEF OneToken
    <3> QED BY <1>1, <3>2
  <2> QED BY <2>1, <2>2 DEF NoToken, Tokens
<1> QED BY <1>1, <1>3, <1>4, <1>5

\* The pending stop, in queues that grow and shrink.
LEMMA StopGrows ==
  ASSUME NEW q \in Seq(Events), NEW r \in Seq(Events)
  PROVE  /\ StopFirst(q) => StopFirst(q \o r)
         /\ Has(r, "STA_STOP") /\ ~Has(r, "STA_GOT_IP") => StopLast(q \o r)
<1>1. /\ Len(q \o r) = Len(q) + Len(r) /\ Len(q) \in Nat /\ Len(r) \in Nat
      /\ \A i \in 1 .. Len(q) + Len(r) :
           (q \o r)[i] = IF i <= Len(q) THEN q[i] ELSE r[i - Len(q)]
  OBVIOUS
<1>2. ASSUME StopFirst(q) PROVE StopFirst(q \o r)
  <2>1. PICK i \in 1 .. Len(q) :
          q[i] = "STA_STOP" /\ \A j \in 1 .. Len(q) : j < i => q[j] \in Stale
    BY <1>2 DEF StopFirst
  <2>2. i \in 1 .. Len(q) + Len(r) /\ (q \o r)[i] = "STA_STOP"
    BY <1>1, <2>1
  <2>3. ASSUME NEW j \in 1 .. Len(q) + Len(r), j < i
        PROVE  (q \o r)[j] \in Stale
    BY <1>1, <2>1, <2>3
  <2> QED
    BY <1>1, <2>2, <2>3 DEF StopFirst
<1>3. ASSUME Has(r, "STA_STOP"), ~Has(r, "STA_GOT_IP") PROVE StopLast(q \o r)
  <2>1. PICK i \in 1 .. Len(r) : r[i] = "STA_STOP"
    BY <1>3 DEF Has
  <2>2. /\ i + Len(q) \in 1 .. Len(q) + Len(r) /\ ~(i + Len(q) <= Len(q))
        /\ (i + Len(q)) - Len(q) = i
    BY <1>1
  <2>3. (q \o r)[i + Len(q)] = "STA_STOP"
    BY <1>1, <2>1, <2>2
  <2>4. ASSUME NEW j \in 1 .. Len(q) + Len(r), i + Len(q) < j
        PROVE  (q \o r)[j] # "STA_GOT_IP"
    <3>1. ~(j <= Len(q)) /\ j - Len(q) \in 1 .. Len(r)
      BY <1>1, <2>4
    <3> QED
      BY <1>1, <1>3, <3>1 DEF Has
  <2> QED
    BY <1>1, <2>2, <2>3, <2>4 DEF StopLast
<1> QED BY <1>2, <1>3

LEMMA StopFirstAppend ==
  ASSUME NEW q \in Seq(Events), NEW x \in Events, StopFirst(q)
  PROVE  StopFirst(Append(q, x))
<1>1. <<x>> \in Seq(Events) /\ Append(q, x) = q \o <<x>>
  OBVIOUS
<1> QED BY <1>1, StopGrows

LEMMA StopShrinks ==
  ASSUME NEW q \in Seq(Events), q # <<>>
  PROVE  /\ EndsInStop(q) => EndsInStop(Tail(q))
         /\ StopFirst(q) => /\ Head(q) \in Stale
                            /\ Head(q) = "STA_STOP" \/ StopFirst(Tail(q))
         /\ StopLast(q) => \/ StopLast(Tail(q))
                           \/ Head(q) = "STA_STOP" /\ ~Has(Tail(q), "STA_GOT_IP")
<1>1. /\ Head(q) = q[1] /\ Len(q) \in Nat /\ Len(q) >= 1
      /\ Len(Tail(q)) = Len(q) - 1 /\ 1 \in 1 .. Len(q)
      /\ \A i \in 1 .. Len(q) - 1 : Tail(q)[i] = q[i + 1] /\ i + 1 \in 1 .. Len(q)
      /\ Tail(q) # <<>> => Len(q) - 1 >= 1
  OBVIOUS
<1>2. ASSUME EndsInStop(q) PROVE EndsInStop(Tail(q))
  <2> SUFFICES ASSUME Tail(q) # <<>> PROVE Tail(q)[Len(q) - 1] = "STA_STOP"
    BY <1>1 DEF EndsInStop
  <2>1. Len(q) - 1 \in 1 .. Len(q) - 1 /\ (Len(q) - 1) + 1 = Len(q)
    BY <1>1
  <2> QED
    BY <1>1, <1>2, <2>1 DEF EndsInStop
<1>3. ASSUME StopFirst(q)
      PROVE  Head(q) \in Stale /\ (Head(q) = "STA_STOP" \/ StopFirst(Tail(q)))
  <2>1. PICK i \in 1 .. Len(q) :
          q[i] = "STA_STOP" /\ \A j \in 1 .. Len(q) : j < i => q[j] \in Stale
    BY <1>3 DEF StopFirst
  <2>2. CASE i = 1
    BY <1>1, <2>1, <2>2 DEF Stale
  <2>3. CASE i # 1
    <3>1. Head(q) \in Stale /\ i - 1 \in 1 .. Len(q) - 1 /\ (i - 1) + 1 = i
      BY <1>1, <2>1, <2>3
    <3>2. Tail(q)[i - 1] = "STA_STOP"
      BY <1>1, <2>1, <3>1
    <3>3. ASSUME NEW j \in 1 .. Len(q) - 1, j < i - 1
          PROVE  Tail(q)[j] \in Stale
      BY <1>1, <2>1, <3>3
    <3> QED
      BY <1>1, <3>1, <3>2, <3>3 DEF StopFirst
  <2> QED BY <2>2, <2>3
<1>4. ASSUME StopLast(q)
      PROVE  \/ StopLast(Tail(q))
             \/ Head(q) = "STA_STOP" /\ ~Has(Tail(q), "STA_GOT_IP")
  <2>1. PICK i \in 1 .. Len(q) :
          /\ q[i] = "STA_STOP"
          /\ \A j \in 1 .. Len(q) : i < j => q[j] # "STA_GOT_IP"
    BY <1>4 DEF StopLast
  <2>2. ASSUME NEW j \in 1 .. Len(q) - 1, i < j + 1
        PROVE  Tail(q)[j] # "STA_GOT_IP"
    BY <1>1, <2>1, <2>2
  <2>3. CASE i = 1
    BY <1>1, <2>1, <2>2, <2>3 DEF Has
  <2>4. CASE i # 1
    <3>1. i - 1 \in 1 .. Len(q) - 1 /\ (i - 1) + 1 = i
      BY <1>1, <2>4
    <3>2. Tail(q)[i - 1] = "STA_STOP"
      BY <1>1, <2>1, <3>1
    <3>3. ASSUME NEW j \in 1 .. Len(q) - 1, i - 1 < j
          PROVE  Tail(q)[j] # "STA_GOT_IP"
      BY <2>2, <3>3
    <3> QED
      BY <1>1, <3>1, <3>2, <3>3 DEF StopLast
  <2> QED BY <2>3, <2>4
<1> QED BY <1>2, <1>3, <1>4

\* The events of a finished scan end in a stop, and it comes first.
LEMMA StaleStops ==
  ASSUME NEW q \in Seq(Events), q # <<>>, OnlyStale(q), EndsInStop(q)
  PROVE  StopFirst(q)
<1>1. Len(q) \in 1 .. Len(q) /\ \A j \in 1 .. Len(q) : q[j] \in Events
  OBVIOUS
<1> QED
  BY <1>1 DEF OnlyStale, EndsInStop, StopFirst, Has

LEMMA ScanStopEvents ==
  ASSUME Station, drv.link = "down", clients = 0, NEW q \in Seq(Events)
  PROVE  EndsInStop(q \o StopEvents)
<1>1. [i \in 1 .. clients |-> "AP_STADISCONNECTED"] = <<>>
  OBVIOUS
<1>2. StopEvents = <<"STA_STOP">>
  BY <1>1 DEF StopEvents, Station
<1>3. /\ Len(q \o <<"STA_STOP">>) = Len(q) + 1 /\ Len(q) \in Nat
      /\ (q \o <<"STA_STOP">>)[Len(q) + 1] = "STA_STOP"
  OBVIOUS
<1> QED
  BY <1>2, <1>3 DEF EndsInStop

LEMMA OneHas ==
  ASSUME NEW x \in Events
  PROVE  /\ <<x>> \in Seq(Events)
         /\ \A e : Has(<<x>>, e) <=> x = e
         /\ OneToken(<<x>>)
BY DEF Has, OneToken

LEMMA OptionalHas ==
  ASSUME NEW x \in Events, NEW c \in BOOLEAN
  PROVE  LET p == IF c THEN <<x>> ELSE <<>>
         IN  /\ p \in Seq(Events) /\ OneToken(p)
             /\ \A e : Has(p, e) <=> c /\ e = x
<1>1. CASE c
  BY <1>1, OneHas
<1>2. CASE ~c
  BY <1>2, EmptyHas
<1> QED BY <1>1, <1>2

\* What starting and stopping the driver posts.
LEMMA StartEventsHas ==
  ASSUME NEW m \in Modes
  PROVE  /\ StartEvents(m) \in Seq(Events)
         /\ \A e : Has(StartEvents(m), e) <=>
              \/ HasSta(m) /\ e = "STA_START"
              \/ HasAp(m) /\ e = "AP_START"
         /\ OneToken(StartEvents(m))
<1> DEFINE p == IF HasSta(m) THEN <<"STA_START">> ELSE <<>>
           r == IF HasAp(m) THEN <<"AP_START">> ELSE <<>>
<1>0. HasSta(m) \in BOOLEAN /\ HasAp(m) \in BOOLEAN
  BY DEF HasSta, HasAp
<1>1. /\ p \in Seq(Events) /\ OneToken(p)
      /\ \A e : Has(p, e) <=> HasSta(m) /\ e = "STA_START"
  BY <1>0, OptionalHas DEF Events
<1>2. /\ r \in Seq(Events)
      /\ \A e : Has(r, e) <=> HasAp(m) /\ e = "AP_START"
  BY <1>0, OptionalHas DEF Events
<1>3. NoToken(r)
  BY <1>2 DEF NoToken
<1>4. StartEvents(m) = p \o r
  BY DEF StartEvents
<1> HIDE DEF p, r
<1> QED
  BY <1>1, <1>2, <1>3, <1>4, ConcatHas

LEMMA StopEventsHas ==
  ASSUME clients \in Nat, drv.started \in BOOLEAN
  PROVE  /\ StopEvents \in Seq(Events)
         /\ \A e : Has(StopEvents, e) <=>
              \/ drv.link = "up" /\ e = "STA_DISCONNECTED"
              \/ drv.started /\ HasSta(drv.mode) /\ e = "STA_STOP"
              \/ clients > 0 /\ e = "AP_STADISCONNECTED"
         /\ OneToken(StopEvents)
<1> DEFINE p == IF drv.link = "up" THEN <<"STA_DISCONNECTED">> ELSE <<>>
           r == IF drv.started /\ HasSta(drv.mode) THEN <<"STA_STOP">> ELSE <<>>
           s == [i \in 1 .. clients |-> "AP_STADISCONNECTED"]
<1>0. (drv.link = "up") \in BOOLEAN /\ (drv.started /\ HasSta(drv.mode)) \in BOOLEAN
  BY DEF HasSta
<1>1. /\ p \in Seq(Events) /\ OneToken(p)
      /\ \A e : Has(p, e) <=> drv.link = "up" /\ e = "STA_DISCONNECTED"
  BY <1>0, OptionalHas DEF Events
<1>2. /\ r \in Seq(Events)
      /\ \A e : Has(r, e) <=> drv.started /\ HasSta(drv.mode) /\ e = "STA_STOP"
  BY <1>0, OptionalHas DEF Events
<1>3. /\ s \in Seq(Events) /\ Len(s) = clients
      /\ \A i \in 1 .. clients : s[i] = "AP_STADISCONNECTED"
  BY DEF Events
<1>4. \A e : Has(s, e) <=> clients > 0 /\ e = "AP_STADISCONNECTED"
  <2>1. clients > 0 => 1 \in 1 .. clients
    OBVIOUS
  <2>2. \A i \in 1 .. clients : clients > 0
    OBVIOUS
  <2> HIDE DEF s
  <2> QED
    BY <1>3, <2>1, <2>2 DEF Has
<1>5. NoToken(r) /\ NoToken(s)
  BY <1>2, <1>4 DEF NoToken
<1>6. StopEvents = (p \o r) \o s
  BY DEF StopEvents
<1> HIDE DEF p, r, s
<1>7. /\ p \o r \in Seq(Events) /\ OneToken(p \o r)
      /\ \A e : Has(p \o r, e) <=> Has(p, e) \/ Has(r, e)
  BY <1>1, <1>2, <1>5, ConcatHas
<1> DEFINE t == p \o r
<1>8. /\ t \in Seq(Events) /\ OneToken(t)
      /\ \A e : Has(t, e) <=> Has(p, e) \/ Has(r, e)
      /\ StopEvents = t \o s
  BY <1>6, <1>7
<1> HIDE DEF t
<1> QED
  BY <1>1, <1>2, <1>3, <1>4, <1>5, <1>8, ConcatHas

-----------------------------------------------------------------------------
(***************************************************************************)
(* What the operators of the model do to the records.                      *)
(***************************************************************************)
Pcs == {"idle", "off", "stop", "delay", "scan", "scanning", "mode", "config",
        "on", "start", "finish"}
AppStates == [pc : Pcs, op : {"set", "scan", "restore"}, mode : DevModes]
Drvs == [mode : Modes, started : BOOLEAN, link : {"down", "connecting", "up"}]

LEMMA TypeFacts ==
  ASSUME TypeOK
  PROVE  /\ app \in AppStates /\ drv \in Drvs /\ evq \in Seq(Events)
         /\ app.pc \in Pcs /\ app.op \in {"set", "scan", "restore"}
         /\ app.mode \in DevModes /\ cur_mode \in DevModes
         /\ drv.mode \in Modes /\ drv.started \in BOOLEAN
         /\ drv.link \in {"down", "connecting", "up"}
         /\ clients \in Nat /\ ctrl \in Nat /\ ctrl <= WIFI_MAX_RETRY
         /\ lost \in Nat /\ lost <= WIFI_MAX_RETRY + 1
         /\ handler \in {"idle", "connect", "reconnect"}
         /\ refused \in BOOLEAN /\ overtaken \in BOOLEAN
<1>1. app \in AppStates /\ drv \in Drvs
  BY DEF TypeOK, AppStates, Drvs, Pcs
<1>2. /\ app.pc \in Pcs /\ app.op \in {"set", "scan", "restore"}
      /\ app.mode \in DevModes
  BY <1>1 DEF AppStates
<1>3. /\ drv.mode \in Modes /\ drv.started \in BOOLEAN
      /\ drv.link \in {"down", "connecting", "up"}
  BY <1>1 DEF Drvs
<1>4. /\ clients \in Nat /\ ctrl \in Nat /\ ctrl <= WIFI_MAX_RETRY
      /\ lost \in Nat /\ lost <= WIFI_MAX_RETRY + 1
  BY ClientsAssumption, RetryAssumption DEF TypeOK
<1> QED
  BY <1>1, <1>2, <1>3, <1>4 DEF TypeOK

LEMMA AppTypes ==
  ASSUME app' \in AppStates
  PROVE  app' \in [pc : {"idle", "off", "stop", "delay", "scan", "scanning", "mode",
                    "config", "on", "start", "finish"},
                   op : {"set", "scan", "restore"}, mode : DevModes]
BY DEF AppStates, Pcs

LEMMA DrvTypes ==
  ASSUME drv' \in Drvs
  PROVE  drv' \in [mode : Modes, started : BOOLEAN,
                   link : {"down", "connecting", "up"}]
BY DEF Drvs

LEMMA ModeOf ==
  ASSUME NEW m \in DevModes
  PROVE  /\ get_wifi_mode(m) \in Modes
         /\ m \in Modes => get_wifi_mode(m) = m
BY DEF get_wifi_mode, DevModes, Modes

LEMMA GotoEffect ==
  ASSUME app \in AppStates, NEW p \in Pcs, Goto(p)
  PROVE  /\ app' \in AppStates /\ app'.pc = p
         /\ app'.op = app.op /\ app'.mode = app.mode
BY DEF Goto, AppStates

LEMMA LinkEffect ==
  ASSUME drv \in Drvs, NEW l \in {"down", "connecting", "up"},
         drv' = [drv EXCEPT !.link = l]
  PROVE  /\ drv' \in Drvs /\ drv'.link = l
         /\ drv'.mode = drv.mode /\ drv'.started = drv.started
BY DEF Drvs

LEMMA ConnectEffect ==
  ASSUME drv \in Drvs, HandlerConnect
  PROVE  /\ drv' \in Drvs /\ drv'.mode = drv.mode /\ drv'.started = drv.started
         /\ \/ drv.link = "down" /\ Station /\ drv'.link = "connecting"
               /\ refused' = refused
            \/ ~(drv.link = "down" /\ Station) /\ drv'.link = drv.link
               /\ refused' = refused
            \/ drv.link = "down" /\ Station /\ drv'.link = "down" /\ refused'
<1>0. CASE ConnectRefused
  BY <1>0 DEF ConnectRefused, Station
<1> SUFFICES ASSUME DriverConnect, refused' = refused
             PROVE  /\ drv' \in Drvs /\ drv'.mode = drv.mode
                    /\ drv'.started = drv.started
                    /\ \/ drv.link = "down" /\ Station /\ drv'.link = "connecting"
                       \/ ~(drv.link = "down" /\ Station) /\ drv'.link = drv.link
  BY <1>0 DEF HandlerConnect
<1> DEFINE l == IF drv.link = "down" /\ drv.started /\ HasSta(drv.mode)
                THEN "connecting" ELSE drv.link
<1>1. l \in {"down", "connecting", "up"}
  BY DEF Drvs
<1>2. drv' = [drv EXCEPT !.link = l]
  BY DEF DriverConnect
<1>3. /\ drv' \in Drvs /\ drv'.link = l
      /\ drv'.mode = drv.mode /\ drv'.started = drv.started
  BY <1>1, <1>2, LinkEffect
<1> QED
  BY <1>3 DEF Station

LEMMA StartEffect ==
  ASSUME TypeOK, NEW m \in Modes, DriverStart(m)
  PROVE  /\ drv' \in Drvs /\ drv'.mode = m /\ drv'.started
         /\ drv'.link = "down" /\ lost' = 0 /\ refused' = FALSE
         /\ evq' = evq \o StartEvents(m) /\ evq' \in Seq(Events)
<1>1. StartEvents(m) \in Seq(Events) /\ evq \in Seq(Events)
  BY StartEventsHas DEF TypeOK
<1> QED
  BY <1>1, ConcatHas DEF DriverStart, Drvs

LEMMA StopEffect ==
  ASSUME TypeOK, NEW m \in Modes, DriverStop(m)
  PROVE  /\ drv' \in Drvs /\ drv'.mode = m /\ ~drv'.started
         /\ drv'.link = "down" /\ clients' = 0
         /\ evq' = evq \o StopEvents /\ evq' \in Seq(Events)
<1>1. StopEvents \in Seq(Events) /\ evq \in Seq(Events)
  BY TypeFacts, StopEventsHas
<1> QED
  BY <1>1, ConcatHas DEF DriverStop, Drvs

\* One event of the driver is handled.
LEMMA HandleEffect ==
  ASSUME TypeOK, HandleEvent
  PROVE  /\ handler = "idle" /\ evq # <<>> /\ evq' = Tail(evq)
         /\ UNCHANGED <<init, app, cur_mode, result, drv, clients, lost, refused,
                        overtaken>>
         /\ \/ /\ Head(evq) = "STA_START" /\ "AUTO_CONN" \in bits
               /\ ctrl' = 0 /\ handler' = "connect" /\ bits' = bits
            \/ /\ Head(evq) = "STA_START" /\ "AUTO_CONN" \notin bits
               /\ ctrl' = ctrl /\ handler' = handler /\ bits' = bits
            \/ /\ Head(evq) = "STA_DISCONNECTED" /\ "AUTO_CONN" \notin bits
               /\ ctrl' = ctrl /\ handler' = handler /\ bits' = bits
            \/ /\ Head(evq) = "STA_DISCONNECTED" /\ "AUTO_CONN" \in bits
               /\ ctrl < WIFI_MAX_RETRY
               /\ ctrl' = ctrl /\ handler' = "reconnect" /\ bits' = bits
            \/ /\ Head(evq) = "STA_DISCONNECTED" /\ "AUTO_CONN" \in bits
               /\ ~(ctrl < WIFI_MAX_RETRY)
               /\ ctrl' = ctrl /\ handler' = handler
               /\ bits' = (bits \ {"STA_CONNECTED"}) \union {"STA_CONN_FAIL"}
            \/ /\ Head(evq) = "STA_STOP"
               /\ ctrl' = ctrl /\ handler' = handler
               /\ bits' = bits \ {"STA_CONNECTED", "AUTO_CONN"}
            \/ /\ Head(evq) = "STA_GOT_IP"
               /\ ctrl' = 0 /\ handler' = handler
               /\ bits' = bits \union {"STA_CONNECTED"}
            \/ /\ Head(evq) = "AP_START"
               /\ ctrl' = ctrl /\ handler' = handler
               /\ bits' = bits \union {"AP_START"}
            \/ /\ Head(evq) = "AP_STACONNECTED"
               /\ ctrl' = ctrl /\ handler' = handler
               /\ bits' = bits \union {"CONNECTED"}
            \/ /\ Head(evq) = "AP_STADISCONNECTED"
               /\ ctrl' = ctrl /\ handler' = handler
               /\ bits' = bits \ {"CONNECTED"}
BY DEF HandleEvent, OnStaStart, OnStaDisconnected, OnStaStop, OnGotIp, OnAp,
       history

-----------------------------------------------------------------------------
(***************************************************************************)
(* Types.                                                                  *)
(***************************************************************************)
TypeInv == TypeOK /\ CtrlInv

LEMMA InitType == Init => TypeInv
<1> SUFFICES ASSUME Init PROVE TypeInv
  OBVIOUS
<1>1. evq \in Seq(Events) /\ clients \in 0 .. AP_MAX_CONNECTION
      /\ ctrl \in 0 .. WIFI_MAX_RETRY /\ lost \in 0 .. WIFI_MAX_RETRY + 1
  BY EmptyHas, RetryAssumption, ClientsAssumption DEF Init
<1>2. app \in AppStates
  BY DEF Init, IdleApp, AppStates, Pcs, DevModes
<1>3. drv \in Drvs
  BY DEF Init, Drvs, Modes
<1> QED
  BY <1>1, <1>2, <1>3 DEF Init, TypeInv, TypeOK, CtrlInv, AppStates, Pcs, Drvs, DevModes

LEMMA NetworkType == TypeInv /\ Network => TypeInv'
<1> SUFFICES ASSUME TypeInv, Network PROVE TypeInv'
  OBVIOUS
<1>1. TypeOK /\ CtrlInv
  BY DEF TypeInv
<1>2. evq' \in Seq(Events)
  BY <1>1, TypeFacts, AppendHas
  DEF Network, Associate, LoseLink, Join, Leave, Events
<1>3. drv' \in Drvs
  BY <1>1, TypeFacts, LinkEffect
  DEF Network, Associate, LoseLink, Join, Leave
<1>4. clients' \in 0 .. AP_MAX_CONNECTION
  BY <1>1, ClientsAssumption
  DEF TypeOK, Network, Associate, LoseLink, Join, Leave
<1>5. lost' \in 0 .. WIFI_MAX_RETRY + 1
  BY <1>1, RetryAssumption
  DEF TypeOK, Network, Associate, LoseLink, Join, Leave, Lost, history
<1>6. UNCHANGED <<init, bits, ctrl, handler, app, cur_mode, result, refused,
                  overtaken>>
  BY DEF Network, Associate, LoseLink, Join, Leave, code, history
<1> QED
  BY <1>1, <1>2, <1>3, <1>4, <1>5, <1>6, DrvTypes DEF TypeInv, TypeOK, CtrlInv

LEMMA EventTaskType == TypeInv /\ EventTask => TypeInv'
<1> SUFFICES ASSUME TypeInv, EventTask PROVE TypeInv'
  OBVIOUS
<1>1. TypeOK /\ CtrlInv
  BY DEF TypeInv
<1>2. CASE HandleEvent
  <2>1. evq' \in Seq(Events)
    BY <1>1, <1>2, HandleEffect, TypeFacts, TailHas
  <2>2. bits' \subseteq WifiBits
    BY <1>1, <1>2, HandleEffect DEF TypeOK, WifiBits
  <2>3. ctrl' \in 0 .. WIFI_MAX_RETRY
    BY <1>1, <1>2, HandleEffect, RetryAssumption DEF TypeOK
  <2>4. handler' \in {"idle", "connect", "reconnect"} /\ CtrlInv'
    BY <1>1, <1>2, HandleEffect DEF CtrlInv
  <2>5. UNCHANGED <<init, app, cur_mode, result, drv, clients, lost, refused,
                    overtaken>>
    BY <1>2 DEF HandleEvent, history
  <2> QED
    BY <1>1, <2>1, <2>2, <2>3, <2>4, <2>5 DEF TypeInv, TypeOK
<1>3. CASE HandlerConnect
  <2>1. drv' \in Drvs
    BY <1>1, <1>3, TypeFacts, ConnectEffect
  <2>2. ctrl' \in 0 .. WIFI_MAX_RETRY
    BY <1>1, <1>3, RetryAssumption DEF HandlerConnect, TypeOK, CtrlInv
  <2>3. /\ handler' = "idle" /\ refused' \in BOOLEAN
        /\ UNCHANGED <<init, bits, app, cur_mode, result, evq, clients, lost,
                       overtaken>>
    BY <1>1, <1>3, TypeFacts DEF HandlerConnect, ConnectRefused
  <2> QED
    BY <1>1, <2>1, <2>2, <2>3, DrvTypes DEF TypeInv, TypeOK, CtrlInv
<1> QED
  BY <1>2, <1>3 DEF EventTask

\* The application task, which leaves the counter to the handler.
LEMMA AppType ==
  TypeInv /\ (Working \/ Preinit \/ SetModeRefused \/ ScanCall
                \/ \E m \in DevModes : SetModeCall(m)) => TypeInv'
<1> SUFFICES ASSUME TypeInv,
                    Working \/ Preinit \/ SetModeRefused \/ ScanCall
                      \/ \E m \in DevModes : SetModeCall(m)
             PROVE  TypeInv'
  OBVIOUS
<1>1. TypeOK /\ CtrlInv
  BY DEF TypeInv
<1>2. 0 \in 0 .. AP_MAX_CONNECTION /\ 0 \in 0 .. WIFI_MAX_RETRY + 1
  BY RetryAssumption, ClientsAssumption
<1>3. ASSUME UNCHANGED <<ctrl, handler>>,
             init' \in {"none", "partial", "done"}, bits' \subseteq WifiBits,
             app' \in AppStates, drv' \in Drvs, cur_mode' \in DevModes,
             result' \in BOOLEAN, evq' \in Seq(Events),
             clients' \in 0 .. AP_MAX_CONNECTION,
             lost' \in 0 .. WIFI_MAX_RETRY + 1,
             refused' \in BOOLEAN, overtaken' \in BOOLEAN
      PROVE  TypeInv'
  BY <1>1, <1>3, AppTypes, DrvTypes DEF TypeInv, TypeOK, CtrlInv
<1>4. CASE Preinit
  BY <1>1, <1>3, <1>4, TypeFacts DEF Preinit, TypeOK, DevModes, history
<1>5. CASE SetModeRefused
  BY <1>1, <1>3, <1>5, TypeFacts DEF SetModeRefused, TypeOK, history
<1>6. CASE ScanCall
  <2>1. app' \in AppStates
    BY <1>1, <1>6, TypeFacts DEF ScanCall, AppStates, Pcs, Modes, DevModes
  <2> QED
    BY <1>1, <1>3, <1>6, <2>1, TypeFacts DEF ScanCall, TypeOK, history
<1>7. CASE \E m \in DevModes : SetModeCall(m)
  <2>1. app' \in AppStates
    BY <1>1, <1>7 DEF SetModeCall, AppStates, Pcs
  <2> QED
    BY <1>1, <1>3, <1>7, <2>1, TypeFacts DEF SetModeCall, TypeOK, history
<1>8. CASE SetWifiOffBits
  <2>1. app' \in AppStates
    BY <1>1, <1>8, TypeFacts, GotoEffect DEF SetWifiOffBits, Pcs
  <2> QED
    BY <1>1, <1>3, <1>8, <2>1, TypeFacts DEF SetWifiOffBits, TypeOK, history
<1>9. CASE SetWifiOffStop
  <2>1. app' \in AppStates
    BY <1>1, <1>9, TypeFacts, GotoEffect DEF SetWifiOffStop, Pcs
  <2>2. drv' \in Drvs /\ evq' \in Seq(Events) /\ clients' = 0
    BY <1>1, <1>9, TypeFacts, StopEffect DEF SetWifiOffStop
  <2> QED
    BY <1>1, <1>2, <1>3, <1>9, <2>1, <2>2 DEF SetWifiOffStop, TypeOK, history
<1>10. CASE Delay \/ SetConfig \/ SetModeFails \/ SetWifiOnFails \/ Finish
  <2>1. app' \in AppStates
    BY <1>1, <1>10, TypeFacts, GotoEffect
    DEF Delay, SetConfig, SetModeFails, SetWifiOnFails, Finish, Pcs
  <2>2. cur_mode' \in DevModes /\ result' \in BOOLEAN
    BY <1>1, <1>10, TypeFacts
    DEF Delay, SetConfig, SetModeFails, SetWifiOnFails, Finish, TypeOK
  <2>3. UNCHANGED <<init, bits, ctrl, handler, drv, evq, clients, lost, refused>>
    BY <1>10 DEF Delay, SetConfig, SetModeFails, SetWifiOnFails, Finish, history
  <2>4. overtaken' \in BOOLEAN
    BY <1>1, <1>10, TypeFacts
    DEF Delay, SetConfig, SetModeFails, SetWifiOnFails, Finish, history
  <2> QED
    BY <1>1, <1>3, <2>1, <2>2, <2>3, <2>4, TypeFacts DEF TypeOK
<1>11. CASE Scan
  <2>1. app' \in AppStates
    BY <1>1, <1>11, TypeFacts, GotoEffect DEF Scan, Pcs
  <2>2. drv' \in Drvs /\ evq' \in Seq(Events) /\ lost' = 0 /\ refused' = FALSE
    BY <1>1, <1>11, StartEffect DEF Scan, Modes
  <2> QED
    BY <1>1, <1>2, <1>3, <1>11, <2>1, <2>2 DEF Scan, TypeOK
<1>12. CASE ScanDone
  <2>1. app' \in AppStates
    BY <1>1, <1>12, TypeFacts DEF ScanDone, AppStates, Pcs
  <2>2. drv' \in Drvs /\ evq' \in Seq(Events) /\ clients' = 0
    BY <1>1, <1>12, StopEffect DEF ScanDone, Modes
  <2> QED
    BY <1>1, <1>2, <1>3, <1>12, <2>1, <2>2 DEF ScanDone, TypeOK, history
<1>13. CASE SetMode
  <2>1. app' \in AppStates
    BY <1>1, <1>13, TypeFacts, GotoEffect DEF SetMode, Pcs
  <2>2. drv' \in Drvs
    BY <1>1, <1>13, TypeFacts, ModeOf DEF SetMode, Drvs
  <2> QED
    BY <1>1, <1>3, <1>13, <2>1, <2>2 DEF SetMode, TypeOK, history
<1>14. CASE SetWifiOnBits
  <2>1. app' \in AppStates
    BY <1>1, <1>14, TypeFacts, GotoEffect DEF SetWifiOnBits, Pcs
  <2> QED
    BY <1>1, <1>3, <1>14, <2>1, TypeFacts DEF SetWifiOnBits, TypeOK, WifiBits
<1>15. CASE SetWifiOnStart
  <2>1. app' \in AppStates
    BY <1>1, <1>15, TypeFacts, GotoEffect DEF SetWifiOnStart, Pcs
  <2>2. drv' \in Drvs /\ evq' \in Seq(Events) /\ lost' = 0 /\ refused' = FALSE
    BY <1>1, <1>15, TypeFacts, StartEffect DEF SetWifiOnStart
  <2> QED
    BY <1>1, <1>2, <1>3, <1>15, <2>1, <2>2 DEF SetWifiOnStart, TypeOK
<1> QED
  BY <1>4, <1>5, <1>6, <1>7, <1>8, <1>9, <1>10, <1>11, <1>12, <1>13, <1>14, <1>15
  DEF Working

LEMMA RebootIsInit == Reboot => Init'
BY DEF Reboot, Init

LEMMA NextType == TypeInv /\ [Next]_vars => TypeInv'
<1>1. Init' => TypeInv'
  BY InitType, PTL
<1>2. TypeInv /\ UNCHANGED vars => TypeInv'
  BY DEF vars, code, history, TypeInv, TypeOK, CtrlInv
<1> QED
  BY <1>1, <1>2, NetworkType, EventTaskType, AppType, RebootIsInit DEF Next

LEMMA TypesAlways == Spec => []TypeInv
BY InitType, NextType, PTL DEF Spec

\* Whatever the application, the event task and the network do in any order,
\* the variables keep their types; the handler's count of reconnections never
\* exceeds WIFI_MAX_RETRY.
THEOREM TypeCorrect == Spec => []TypeOK
<1>1. TypeInv => TypeOK
  BY DEF TypeInv
<1> QED
  BY <1>1, TypesAlways, PTL

-----------------------------------------------------------------------------
(***************************************************************************)
(* The mode.                                                               *)
(***************************************************************************)
AppTask == Working \/ Preinit \/ SetModeRefused \/ ScanCall
             \/ \E m \in DevModes : SetModeCall(m)

\* What one step of the application task does: CallStep of the callers,
\* StopStep and StartStep of the driver, OnStep of the bit, and steps that
\* only go on.
CallStep ==
  /\ app.pc = "idle" /\ init = "done"
  /\ app'.pc = IF drv.mode # "NULL" THEN "off"
               ELSE IF app'.op = "set" THEN "mode" ELSE "scan"
  /\ app'.op = "set" \/ (app'.op = "scan" /\ app'.mode = drv.mode)
  /\ UNCHANGED <<init, bits, cur_mode, result, drv, evq, clients, history>>

OffStep ==
  /\ app.pc = "off" /\ app'.pc = "stop"
  /\ app'.op = app.op /\ app'.mode = app.mode
  /\ bits' = bits \ {"STA_CONNECTED", "AUTO_CONN"}
  /\ UNCHANGED <<init, cur_mode, result, drv, evq, clients, history>>

StopStep ==
  /\ \/ /\ app.pc = "stop" /\ app'.pc = "delay"
        /\ app'.op = app.op /\ app'.mode = app.mode
        /\ drv'.mode = drv.mode
     \/ /\ app.pc = "scanning" /\ app'.mode = app.mode
        /\ drv'.mode = "NULL"
        /\ \/ app.mode = "NULL" /\ app'.pc = "idle" /\ app'.op = app.op
           \/ app.mode # "NULL" /\ app'.pc = "delay" /\ app'.op = "restore"
  /\ ~drv'.started /\ drv'.link = "down"
  /\ evq' = evq \o StopEvents /\ clients' = 0
  /\ UNCHANGED <<init, bits, cur_mode, result, history>>

DelayStep ==
  /\ app.pc = "delay" /\ evq = <<>> /\ handler = "idle" /\ overtaken' = FALSE
  /\ app'.pc = IF app.op = "scan" THEN "scan" ELSE "mode"
  /\ app'.op = app.op /\ app'.mode = app.mode
  /\ UNCHANGED <<init, bits, cur_mode, result, drv, evq, clients, lost, refused>>

StartStep ==
  /\ \/ app.pc = "scan" /\ app'.pc = "scanning" /\ drv'.mode = "STA"
     \/ app.pc = "start" /\ app'.pc = "finish" /\ drv'.mode = drv.mode
  /\ app'.op = app.op /\ app'.mode = app.mode
  /\ drv'.started /\ drv'.link = "down" /\ lost' = 0 /\ refused' = FALSE
  /\ evq' = evq \o StartEvents(drv'.mode)
  /\ UNCHANGED <<init, bits, cur_mode, result, clients, overtaken>>

ModeStep ==
  /\ app.pc = "mode"
  /\ app'.pc = IF app.op = "restore" THEN "on"
               ELSE IF get_wifi_mode(app.mode) = "NULL" THEN "finish" ELSE "config"
  /\ app'.op = app.op /\ app'.mode = app.mode
  /\ drv'.mode = get_wifi_mode(app.mode)
  /\ drv'.started = drv.started /\ drv'.link = drv.link
  /\ UNCHANGED <<init, bits, cur_mode, result, evq, clients, history>>

OnStep ==
  /\ app.pc = "on" /\ app'.pc = "start"
  /\ app'.op = app.op /\ app'.mode = app.mode
  /\ bits' = bits \union {"AUTO_CONN"}
  /\ overtaken' = (evq # <<>>)
  /\ UNCHANGED <<init, cur_mode, result, drv, evq, clients, lost, refused>>

\* SetConfig, SetWifiOnFails, Finish, SetModeFails, SetModeRefused, Preinit.
GoStep ==
  /\ \/ /\ app.pc = "config" /\ app'.pc = "on"
        /\ UNCHANGED <<init, cur_mode, result>>
     \/ /\ app.pc = "start" /\ app'.pc = "finish"
        /\ UNCHANGED <<init, cur_mode, result>>
     \/ /\ app.pc = "finish" /\ app'.pc = "idle" /\ UNCHANGED init
        /\ \/ app.op = "set" /\ cur_mode' = app.mode /\ result' = TRUE
           \/ app.op # "set" /\ UNCHANGED <<cur_mode, result>>
     \/ /\ app.pc \in {"mode", "config"} /\ app.op = "set" /\ app'.pc = "idle"
        /\ result' = FALSE /\ UNCHANGED <<init, cur_mode>>
     \/ /\ app.pc = "idle" /\ app'.pc = "idle" /\ result' = FALSE
        /\ UNCHANGED <<init, cur_mode>>
     \/ /\ app.pc = "idle" /\ app'.pc = "idle" /\ init = "none"
        /\ init' # "none" /\ UNCHANGED result
        /\ cur_mode' \in {cur_mode, "NULL"}
  /\ app'.op = app.op /\ app'.mode = app.mode
  /\ UNCHANGED <<bits, drv, evq, clients, history>>

LEMMA AppSteps ==
  ASSUME TypeOK, AppTask
  PROVE  /\ UNCHANGED <<ctrl, handler>>
         /\ \/ CallStep \/ OffStep \/ StopStep \/ DelayStep \/ StartStep
            \/ ModeStep \/ OnStep \/ GoStep
<1> USE TypeFacts
<1>0. UNCHANGED <<ctrl, handler>>
  BY DEF AppTask, Working, Preinit, SetModeRefused, ScanCall, SetModeCall,
         SetWifiOffBits, SetWifiOffStop, Delay, Scan, ScanDone, SetMode,
         SetConfig, SetModeFails, SetWifiOnBits, SetWifiOnStart,
         SetWifiOnFails, Finish
<1>1. CASE Preinit
  BY <1>1 DEF Preinit, GoStep
<1>2. CASE SetModeRefused
  BY <1>2 DEF SetModeRefused, GoStep
<1>3. CASE ScanCall
  BY <1>3 DEF ScanCall, CallStep
<1>4. CASE \E m \in DevModes : SetModeCall(m)
  BY <1>4 DEF SetModeCall, CallStep
<1>5. CASE SetWifiOffBits
  BY <1>5, GotoEffect DEF SetWifiOffBits, OffStep, Pcs
<1>6. CASE SetWifiOffStop
  BY <1>6, GotoEffect, StopEffect DEF SetWifiOffStop, StopStep, Pcs
<1>7. CASE Delay
  BY <1>7, GotoEffect DEF Delay, DelayStep, Pcs
<1>8. CASE Scan
  BY <1>8, GotoEffect, StartEffect DEF Scan, StartStep, Pcs, Modes
<1>9. CASE ScanDone
  <2>1. /\ app'.mode = app.mode
        /\ \/ app.mode = "NULL" /\ app'.pc = "idle" /\ app'.op = app.op
           \/ app.mode # "NULL" /\ app'.pc = "delay" /\ app'.op = "restore"
    BY <1>9 DEF ScanDone, AppStates
  <2> QED
    BY <1>9, <2>1, StopEffect DEF ScanDone, StopStep, Modes
<1>10. CASE SetMode
  <2>1. /\ drv'.mode = get_wifi_mode(app.mode)
        /\ drv'.started = drv.started /\ drv'.link = drv.link
    BY <1>10 DEF SetMode, Drvs
  <2> QED
    BY <1>10, <2>1, GotoEffect DEF SetMode, ModeStep, Pcs
<1>11. CASE SetConfig
  BY <1>11, GotoEffect DEF SetConfig, GoStep, Pcs
<1>12. CASE SetModeFails
  BY <1>12, GotoEffect DEF SetModeFails, GoStep, Pcs
<1>13. CASE SetWifiOnBits
  BY <1>13, GotoEffect DEF SetWifiOnBits, OnStep, Pcs
<1>14. CASE SetWifiOnStart
  BY <1>14, GotoEffect, StartEffect DEF SetWifiOnStart, StartStep, Pcs
<1>15. CASE SetWifiOnFails
  BY <1>15, GotoEffect DEF SetWifiOnFails, GoStep, Pcs
<1>16. CASE Finish
  BY <1>16, GotoEffect DEF Finish, GoStep, Pcs
<1> QED
  BY <1>0, <1>1, <1>2, <1>3, <1>4, <1>5, <1>6, <1>7, <1>8, <1>9, <1>10, <1>11,
     <1>12, <1>13, <1>14, <1>15, <1>16 DEF AppTask, Working

\* The event task and the network never change what ModeInv speaks of.
LEMMA ModeStays ==
  ASSUME TypeOK, EventTask \/ Network
  PROVE  UNCHANGED <<init, app, cur_mode, result>> /\ drv'.mode = drv.mode
<1>1. CASE HandleEvent
  BY <1>1 DEF HandleEvent
<1>2. CASE HandlerConnect
  BY <1>2, TypeFacts, ConnectEffect DEF HandlerConnect
<1>3. CASE Network
  BY <1>3, TypeFacts, LinkEffect
  DEF Network, Associate, LoseLink, Join, Leave, code
<1> QED BY <1>1, <1>2, <1>3 DEF EventTask

LEMMA InitMode == Init => ModeInv
BY DEF Init, IdleApp, ModeInv, ModeAsRequested

LEMMA AppMode == TypeOK /\ ModeInv /\ AppTask => ModeInv'
<1> SUFFICES ASSUME TypeOK, ModeInv, AppTask PROVE ModeInv'
  OBVIOUS
<1> USE TypeFacts, ModeOf DEF ModeInv, ModeAsRequested
<1>1. CASE CallStep
  BY <1>1 DEF CallStep
<1>2. CASE OffStep
  BY <1>2 DEF OffStep
<1>3. CASE StopStep
  BY <1>3 DEF StopStep, Modes
<1>4. CASE DelayStep
  BY <1>4 DEF DelayStep
<1>5. CASE StartStep
  BY <1>5 DEF StartStep
<1>6. CASE ModeStep
  BY <1>6 DEF ModeStep, Modes
<1>7. CASE OnStep
  BY <1>7 DEF OnStep
<1>8. CASE GoStep
  <2>0. get_wifi_mode("NOT_INIT") = "NULL" /\ get_wifi_mode("NULL") = "NULL"
    BY DEF get_wifi_mode
  <2>1. app'.op = app.op /\ app'.mode = app.mode /\ drv' = drv
    BY <1>8 DEF GoStep
  <2>2. CASE app'.pc # "idle"
    BY <1>8, <2>1, <2>2 DEF GoStep
  <2>3. CASE app'.pc = "idle"
    <3>1. result' => drv'.mode = get_wifi_mode(cur_mode')
      BY <1>8, <2>0, <2>1, <2>3 DEF GoStep
    <3>2. init' = "none" => cur_mode' = "NOT_INIT"
      BY <1>8, <2>3 DEF GoStep
    <3> QED
      BY <2>3, <3>1, <3>2
  <2> QED BY <2>2, <2>3
<1> QED BY AppSteps, <1>1, <1>2, <1>3, <1>4, <1>5, <1>6, <1>7, <1>8

LEMMA NextMode == TypeOK /\ ModeInv /\ [Next]_vars => ModeInv'
<1>1. Init' => ModeInv'
  BY InitMode, PTL
<1>2. TypeOK /\ ModeInv /\ (EventTask \/ Network) => ModeInv'
  BY ModeStays DEF ModeInv, ModeAsRequested
<1>3. ModeInv /\ UNCHANGED vars => ModeInv'
  BY DEF vars, code, ModeInv, ModeAsRequested
<1> QED
  BY <1>1, <1>2, <1>3, AppMode, RebootIsInit DEF Next, AppTask

\* After a call of wifi_set_mode that returned true, and after any number of
\* scans of get_best_wifi_ch since, the driver is in the mode that was asked
\* for, whichever events are still on their way.
THEOREM ModeAlwaysAsRequested == Spec => []ModeAsRequested
<1>1. ModeInv => ModeAsRequested
  BY DEF ModeInv
<1>2. Spec => []ModeInv
  BY InitMode, NextMode, TypeCorrect, PTL DEF Spec
<1> QED
  BY <1>1, <1>2, PTL

-----------------------------------------------------------------------------
(***************************************************************************)
(* The bits, the queue and the link together, at each step of every task.  *)
(***************************************************************************)
WifiInv ==
  /\ RestInv /\ PhaseInv /\ FreshInv /\ OvertakenInv
  /\ TokenInv /\ LinkInv /\ ClientsInv /\ LostInv

LEMMA InitWifi == Init => WifiInv
<1> SUFFICES ASSUME Init PROVE WifiInv
  OBVIOUS
<1>1. /\ bits = {} /\ handler = "idle" /\ app.pc = "idle" /\ evq = <<>>
      /\ drv.mode = "NULL" /\ ~drv.started /\ drv.link = "down"
      /\ clients = 0 /\ ctrl = 0 /\ lost = 0 /\ ~overtaken
  BY DEF Init, IdleApp
<1>2. RestInv
  BY <1>1, EmptyHas DEF RestInv, OnlyStale, EndsInStop
<1>3. PhaseInv
  BY <1>1, EmptyHas DEF PhaseInv, Station
<1>4. FreshInv /\ OvertakenInv
  BY <1>1, EmptyHas DEF FreshInv, OvertakenInv, Station
<1>5. TokenInv /\ LinkInv
  BY <1>1, EmptyHas DEF TokenInv, LinkInv
<1>6. ClientsInv /\ LostInv
  BY <1>1, EmptyHas DEF ClientsInv, LostInv
<1> QED BY <1>2, <1>3, <1>4, <1>5, <1>6 DEF WifiInv

LEMMA AssociateWifi == TypeInv /\ WifiInv /\ Associate => WifiInv'
<1> SUFFICES ASSUME TypeInv, WifiInv, Associate PROVE WifiInv'
  OBVIOUS
<1>0. /\ TypeOK /\ RestInv /\ PhaseInv /\ FreshInv /\ OvertakenInv
      /\ TokenInv /\ LinkInv /\ ClientsInv /\ LostInv
      /\ UNCHANGED <<bits, ctrl, handler, app, clients, refused, overtaken>>
      /\ lost' = 0 /\ drv.link = "connecting"
  BY DEF TypeInv, WifiInv, Associate, code
<1>1. /\ drv'.link = "up" /\ drv'.mode = drv.mode /\ drv'.started = drv.started
      /\ Station' = Station
  BY <1>0, TypeFacts, LinkEffect DEF Associate, Station
<1>2. /\ Station /\ drv.started /\ ~Resting /\ app.pc # "scanning"
      /\ app.pc \notin {"delay", "start"}
      /\ ~overtaken =>
           handler = "idle" /\ NoToken(evq) /\ ~Has(evq, "STA_STOP")
  BY <1>0 DEF RestInv, Resting, PhaseInv, FreshInv, TokenInv, Station
<1>3. /\ \A e : Has(evq', e) <=> Has(evq, e) \/ e = "STA_GOT_IP"
      /\ ~overtaken => /\ NeverAfter(evq', "STA_DISCONNECTED", "STA_GOT_IP")
                       /\ OneToken(evq')
      /\ overtaken => NeverAfter(evq', "STA_GOT_IP", "STA_STOP")
      /\ NeverAfter(evq', "AP_STADISCONNECTED", "AP_STACONNECTED")
  BY <1>0, <1>2, TypeFacts, AppendHas
  DEF Associate, Events, LinkInv, ClientsInv, NoToken, OvertakenInv
<1>4. StopFirst(evq) => StopFirst(evq')
  BY <1>0, TypeFacts, StopFirstAppend DEF Associate, Events
<1>5. RestInv'
  BY <1>0, <1>1, <1>2 DEF RestInv, Resting
<1>6. PhaseInv'
  BY <1>0, <1>1, <1>2 DEF PhaseInv
<1>7. FreshInv'
  BY <1>0, <1>1, <1>2, <1>3 DEF FreshInv
<1>8. OvertakenInv'
  BY <1>0, <1>2, <1>3, <1>4 DEF OvertakenInv
<1>9. TokenInv'
  BY <1>0, <1>1, <1>2, <1>3 DEF TokenInv, NoToken
<1>10. LinkInv'
  BY <1>0, <1>1, <1>3 DEF LinkInv
<1>11. ClientsInv'
  BY <1>0, <1>3 DEF ClientsInv
<1>12. LostInv'
  BY <1>0, <1>1, <1>2, <1>3 DEF LostInv, NoToken
<1> QED
  BY <1>5, <1>6, <1>7, <1>8, <1>9, <1>10, <1>11, <1>12 DEF WifiInv

LEMMA LoseLinkWifi == TypeInv /\ WifiInv /\ LoseLink => WifiInv'
<1> SUFFICES ASSUME TypeInv, WifiInv, LoseLink PROVE WifiInv'
  OBVIOUS
<1>0. /\ TypeOK /\ RestInv /\ PhaseInv /\ FreshInv /\ OvertakenInv
      /\ TokenInv /\ LinkInv /\ ClientsInv /\ LostInv
      /\ UNCHANGED <<bits, ctrl, handler, app, clients, refused, overtaken>>
      /\ lost' = Lost(lost) /\ drv.link # "down"
  BY DEF TypeInv, WifiInv, LoseLink, code
<1>1. /\ drv'.link = "down" /\ drv'.mode = drv.mode /\ drv'.started = drv.started
      /\ Station' = Station
  BY <1>0, TypeFacts, LinkEffect DEF LoseLink, Station
<1>2. /\ Station /\ drv.started /\ ~Resting /\ app.pc # "scanning"
      /\ app.pc \notin {"delay", "start"}
      /\ ~overtaken =>
           handler = "idle" /\ NoToken(evq) /\ ~Has(evq, "STA_STOP")
  BY <1>0 DEF RestInv, Resting, PhaseInv, FreshInv, TokenInv, Station
<1>3. /\ \A e : Has(evq', e) <=> Has(evq, e) \/ e = "STA_DISCONNECTED"
      /\ ~overtaken => /\ NeverAfter(evq', "STA_DISCONNECTED", "STA_GOT_IP")
                       /\ OneToken(evq')
      /\ overtaken => NeverAfter(evq', "STA_GOT_IP", "STA_STOP")
      /\ NeverAfter(evq', "AP_STADISCONNECTED", "AP_STACONNECTED")
  BY <1>0, <1>2, TypeFacts, AppendHas
  DEF LoseLink, Events, LinkInv, ClientsInv, OvertakenInv
<1>4. StopFirst(evq) => StopFirst(evq')
  BY <1>0, TypeFacts, StopFirstAppend DEF LoseLink, Events
<1>5. RestInv'
  BY <1>0, <1>1, <1>2 DEF RestInv, Resting
<1>6. PhaseInv'
  BY <1>0, <1>1, <1>2 DEF PhaseInv
<1>7. FreshInv'
  BY <1>0, <1>1, <1>2, <1>3 DEF FreshInv
<1>8. OvertakenInv'
  BY <1>0, <1>2, <1>3, <1>4 DEF OvertakenInv
<1>9. TokenInv'
  BY <1>0, <1>1, <1>2, <1>3 DEF TokenInv
<1>10. LinkInv'
  BY <1>0, <1>1, <1>2, <1>3 DEF LinkInv
<1>11. ClientsInv'
  BY <1>0, <1>3 DEF ClientsInv
<1>12. LostInv'
  <2>1. lost' >= 1 /\ (lost >= ctrl => lost' >= ctrl + 1)
    BY <1>0, TypeFacts, RetryAssumption DEF Lost
  <2> QED
    BY <1>0, <1>1, <1>2, <1>3, <2>1 DEF LostInv
<1> QED
  BY <1>5, <1>6, <1>7, <1>8, <1>9, <1>10, <1>11, <1>12 DEF WifiInv

\* A client comes or goes.
LEMMA ClientsWifi == TypeInv /\ WifiInv /\ (Join \/ Leave) => WifiInv'
<1> SUFFICES ASSUME TypeInv, WifiInv, Join \/ Leave PROVE WifiInv'
  OBVIOUS
<1>0. /\ TypeOK /\ RestInv /\ PhaseInv /\ FreshInv /\ OvertakenInv
      /\ TokenInv /\ LinkInv /\ ClientsInv /\ LostInv
      /\ UNCHANGED <<bits, ctrl, handler, app, drv, lost, refused, overtaken>>
      /\ evq = <<>>
  BY DEF TypeInv, WifiInv, Join, Leave, code, history
<1>1. /\ drv.started /\ ~Resting /\ Station' = Station
      /\ app.pc \notin {"delay", "start"}
  BY <1>0, TypeFacts DEF Join, Leave, RestInv, PhaseInv, HasAp, Station
<1>2. PICK x \in {"AP_STACONNECTED", "AP_STADISCONNECTED"} :
        /\ evq' = Append(evq, x)
        /\ clients' > 0 \/ x = "AP_STADISCONNECTED"
  BY <1>0, TypeFacts DEF Join, Leave
<1>3. /\ \A e : Has(evq', e) <=> e = x
      /\ \A a, b : a # b => NeverAfter(evq', a, b)
      /\ OneToken(evq')
  BY <1>0, <1>2, AppendHas, EmptyHas DEF Events, NoToken
<1>4. ~StopFirst(evq)
  BY <1>0 DEF StopFirst
<1>5. RestInv'
  BY <1>0, <1>1 DEF RestInv, Resting
<1>6. PhaseInv'
  BY <1>0, <1>1, <1>2, <1>3 DEF PhaseInv
<1>7. FreshInv'
  BY <1>0, <1>1, <1>2, <1>3 DEF FreshInv
<1>8. OvertakenInv'
  BY <1>0, <1>1, <1>2, <1>3, <1>4 DEF OvertakenInv
<1>9. TokenInv'
  BY <1>0, <1>2, <1>3 DEF TokenInv, NoToken
<1>10. LinkInv'
  BY <1>0, <1>1, <1>2, <1>3, EmptyHas DEF LinkInv
<1>11. ClientsInv'
  BY <1>2, <1>3 DEF ClientsInv
<1>12. LostInv'
  BY <1>0, <1>2, <1>3, EmptyHas DEF LostInv
<1> QED
  BY <1>5, <1>6, <1>7, <1>8, <1>9, <1>10, <1>11, <1>12 DEF WifiInv

\* The handler calls esp_wifi_connect, which may fail.
LEMMA HandlerConnectWifi == TypeInv /\ WifiInv /\ HandlerConnect => WifiInv'
<1> SUFFICES ASSUME TypeInv, WifiInv, HandlerConnect PROVE WifiInv'
  OBVIOUS
<1>0. /\ TypeOK /\ CtrlInv /\ RestInv /\ PhaseInv /\ FreshInv /\ OvertakenInv
      /\ TokenInv /\ LinkInv /\ ClientsInv /\ LostInv
      /\ UNCHANGED <<bits, app, evq, clients, lost, overtaken>>
      /\ handler # "idle" /\ handler' = "idle"
      /\ ctrl' = IF handler = "reconnect" THEN ctrl + 1 ELSE ctrl
  BY DEF TypeInv, WifiInv, HandlerConnect
<1>1. /\ drv'.mode = drv.mode /\ drv'.started = drv.started /\ Station' = Station
      /\ \/ drv.link = "down" /\ Station /\ drv'.link = "connecting"
            /\ refused' = refused
         \/ ~(drv.link = "down" /\ Station) /\ drv'.link = drv.link
            /\ refused' = refused
         \/ drv.link = "down" /\ Station /\ drv'.link = "down" /\ refused'
  BY <1>0, TypeFacts, ConnectEffect DEF Station
<1>2. /\ ~Resting
      /\ ~overtaken => NoToken(evq) /\ drv.link = "down"
  BY <1>0 DEF RestInv, TokenInv
<1>3. RestInv'
  BY <1>0, <1>1, <1>2 DEF RestInv, Resting
<1>4. PhaseInv'
  BY <1>0, <1>1 DEF PhaseInv
<1>5. FreshInv'
  BY <1>0, <1>1 DEF FreshInv
<1>6. OvertakenInv'
  BY <1>0 DEF OvertakenInv
<1>7. TokenInv'
  BY <1>0, <1>1, <1>2 DEF TokenInv
<1>8. LinkInv'
  BY <1>0, <1>1 DEF LinkInv
<1>9. ClientsInv'
  BY <1>0 DEF ClientsInv
<1>10. LostInv'
  <2>1. ~overtaken /\ Station => lost >= ctrl'
    BY <1>0, TypeFacts DEF LostInv, CtrlInv, Station
  <2> QED
    BY <1>0, <1>1, <1>2, <2>1 DEF LostInv, NoToken, PhaseInv
<1> QED
  BY <1>3, <1>4, <1>5, <1>6, <1>7, <1>8, <1>9, <1>10 DEF WifiInv

\* What handling the event h does to the bits and to the handler.
Handled(h) ==
  /\ "AUTO_CONN" \in bits' <=> "AUTO_CONN" \in bits /\ h # "STA_STOP"
  /\ "STA_CONNECTED" \in bits' =>
       h = "STA_GOT_IP" \/ ("STA_CONNECTED" \in bits /\ h # "STA_STOP")
  /\ "STA_CONNECTED" \in bits /\ "STA_CONNECTED" \notin bits' =>
       h = "STA_STOP" \/ (h = "STA_DISCONNECTED" /\ "AUTO_CONN" \in bits)
  /\ h = "STA_GOT_IP" => "STA_CONNECTED" \in bits' /\ ctrl' = 0
  /\ h = "STA_DISCONNECTED" /\ "AUTO_CONN" \in bits =>
       handler' # "idle" \/ "STA_CONNECTED" \notin bits'
  /\ handler' # "idle" => h \in Tokens /\ "AUTO_CONN" \in bits
  /\ handler' = "reconnect" => h = "STA_DISCONNECTED" /\ ctrl' = ctrl
  /\ ctrl' = ctrl \/ ctrl' = 0
  /\ "CONNECTED" \in bits' =>
       h = "AP_STACONNECTED" \/ ("CONNECTED" \in bits /\ h # "AP_STADISCONNECTED")

LEMMA HandledEffect == TypeOK /\ HandleEvent => Handled(Head(evq))
<1> SUFFICES ASSUME TypeOK, HandleEvent PROVE Handled(Head(evq))
  OBVIOUS
<1>1. CASE Head(evq) \in Tokens
  BY <1>1, HandleEffect DEF Handled, Tokens
<1>2. CASE Head(evq) \notin Tokens
  BY <1>2, HandleEffect DEF Handled, Tokens
<1> QED BY <1>1, <1>2

\* The handler takes the first event of the queue.
LEMMA HandleEventWifi == TypeInv /\ WifiInv /\ HandleEvent => WifiInv'
<1> SUFFICES ASSUME TypeInv, WifiInv, HandleEvent PROVE WifiInv'
  OBVIOUS
<1> DEFINE h == Head(evq)
<1>0. /\ TypeOK /\ RestInv /\ PhaseInv /\ FreshInv /\ OvertakenInv
      /\ TokenInv /\ LinkInv /\ ClientsInv /\ LostInv
      /\ UNCHANGED <<app, drv, clients, lost, refused, overtaken>>
      /\ Station' = Station /\ Resting' = Resting
      /\ handler = "idle" /\ evq # <<>> /\ Handled(h)
  BY HandledEffect DEF TypeInv, WifiInv, HandleEvent, Station, Resting, history
<1>1. evq \in Seq(Events) /\ evq' = Tail(evq)
  BY <1>0, TypeFacts DEF HandleEvent
<1>2. /\ h \in Events
      /\ \A e : Has(evq, e) <=> h = e \/ Has(evq', e)
      /\ \A a, b : NeverAfter(evq, a, b) =>
           NeverAfter(evq', a, b) /\ (h = a => ~Has(evq', b))
      /\ OneToken(evq) => /\ OneToken(evq')
                          /\ h \in Tokens => NoToken(evq')
  BY <1>0, <1>1, TailHas
<1>3. /\ EndsInStop(evq) => EndsInStop(evq')
      /\ StopFirst(evq) => /\ h \in Stale
                           /\ h = "STA_STOP" \/ StopFirst(evq')
      /\ StopLast(evq) => \/ StopLast(evq')
                          \/ h = "STA_STOP" /\ ~Has(evq', "STA_GOT_IP")
  BY <1>0, <1>1, StopShrinks
<1> HIDE DEF h
<1>4. RestInv'
  <2>1. Resting => h \in Stale /\ OnlyStale(evq')
    BY <1>0, <1>2 DEF RestInv, OnlyStale
  <2> QED
    BY <1>0, <1>3, <2>1 DEF RestInv, Handled, Stale
<1>5. PhaseInv'
  BY <1>0, <1>2, <1>3 DEF PhaseInv, Handled
<1>6. FreshInv'
  BY <1>0, <1>2 DEF FreshInv, Handled, Station
<1>7. OvertakenInv'
  BY <1>0, <1>2, <1>3 DEF OvertakenInv, Handled
<1>8. TokenInv'
  <2>1. ~overtaken /\ handler' # "idle" => NoToken(evq')
    BY <1>0, <1>2 DEF TokenInv, FreshInv, RestInv, Resting, Handled
  <2>2. ~overtaken /\ drv.link # "down" => handler' = "idle" /\ NoToken(evq')
    BY <1>0, <1>2 DEF TokenInv, NoToken, Tokens, Handled
  <2> QED
    BY <1>0, <1>2, <2>1, <2>2 DEF TokenInv
<1>9. LinkInv'
  <2>1. ASSUME drv.link = "up", app.pc # "stop"
        PROVE  "STA_CONNECTED" \in bits' \/ Has(evq', "STA_GOT_IP")
    <3>1. CASE Has(evq, "STA_GOT_IP")
      BY <1>0, <1>2, <3>1 DEF Handled
    <3>2. CASE "STA_CONNECTED" \in bits
      <4>1. drv.started /\ app.pc \notin {"delay", "scanning"}
        BY <1>0, <2>1 DEF PhaseInv, Station, RestInv, Resting
      <4>2. h # "STA_STOP"
        BY <1>0, <1>2, <3>2, <4>1 DEF FreshInv, OvertakenInv
      <4>3. ~(h = "STA_DISCONNECTED" /\ "AUTO_CONN" \in bits)
        BY <1>0, <1>2, <1>3, <2>1
        DEF TokenInv, NoToken, OvertakenInv, Stale
      <4> QED
        BY <1>0, <3>2, <4>2, <4>3 DEF Handled
    <3> QED BY <1>0, <2>1, <3>1, <3>2 DEF LinkInv
  <2>2. ~overtaken => NeverAfter(evq', "STA_DISCONNECTED", "STA_GOT_IP")
    BY <1>0, <1>2 DEF LinkInv
  <2>3. ASSUME ~overtaken, Station, drv.link = "down", app.pc # "scanning"
        PROVE  \/ "STA_CONNECTED" \notin bits' /\ ~Has(evq', "STA_GOT_IP")
               \/ handler' # "idle" \/ Has(evq', "STA_DISCONNECTED")
               \/ app.pc = "stop" \/ refused
    <3>1. CASE "STA_CONNECTED" \notin bits /\ ~Has(evq, "STA_GOT_IP")
      BY <1>0, <1>2, <3>1 DEF Handled
    <3>2. CASE h = "STA_DISCONNECTED"
      <4>1. ~Has(evq', "STA_GOT_IP")
        BY <1>0, <1>2, <2>3, <3>2 DEF LinkInv
      <4>2. "AUTO_CONN" \in bits \/ app.pc = "stop"
        BY <1>0, <2>3, TypeFacts
        DEF FreshInv, PhaseInv, RestInv, Resting, Station, Pcs
      <4> QED
        BY <1>0, <3>2, <4>1, <4>2 DEF Handled
    <3>3. CASE Has(evq', "STA_DISCONNECTED") \/ app.pc = "stop" \/ refused
      BY <3>3
    <3> QED BY <1>0, <1>2, <2>3, <3>1, <3>2, <3>3 DEF LinkInv
  <2> QED
    BY <1>0, <2>1, <2>2, <2>3 DEF LinkInv
<1>10. ClientsInv'
  BY <1>0, <1>2 DEF ClientsInv, Handled
<1>11. LostInv'
  <2>1. lost \in Nat /\ ctrl \in Nat
    BY <1>0, TypeFacts
  <2>2. ~overtaken /\ h = "STA_DISCONNECTED" => ~Has(evq, "STA_GOT_IP")
    BY <1>0, <1>2 DEF LinkInv
  <2> QED
    BY <1>0, <1>2, <2>1, <2>2 DEF LostInv, Handled
<1> QED
  BY <1>4, <1>5, <1>6, <1>7, <1>8, <1>9, <1>10, <1>11 DEF WifiInv

\* The application task stops the driver.
LEMMA StopWifi ==
  TypeInv /\ WifiInv /\ StopStep /\ UNCHANGED <<ctrl, handler>> => WifiInv'
<1> SUFFICES ASSUME TypeInv, WifiInv, StopStep, UNCHANGED <<ctrl, handler>>
             PROVE  WifiInv'
  OBVIOUS
<1>0. /\ TypeOK /\ RestInv /\ PhaseInv /\ FreshInv /\ OvertakenInv
      /\ TokenInv /\ LinkInv /\ ClientsInv /\ LostInv
      /\ UNCHANGED <<bits, lost, refused, overtaken>>
      /\ ~drv'.started /\ drv'.link = "down" /\ clients' = 0
      /\ app.pc \in {"stop", "scanning"} /\ app'.pc \in {"delay", "idle"}
      /\ app'.pc = "idle" => app.pc = "scanning"
  BY DEF TypeInv, WifiInv, StopStep, history
<1>1. /\ StopEvents \in Seq(Events) /\ evq \in Seq(Events)
      /\ evq' = evq \o StopEvents
      /\ \A e : Has(StopEvents, e) <=>
           \/ drv.link = "up" /\ e = "STA_DISCONNECTED"
           \/ Station /\ e = "STA_STOP"
           \/ clients > 0 /\ e = "AP_STADISCONNECTED"
  BY <1>0, TypeFacts, StopEventsHas DEF StopStep, Station
<1>2. /\ \A e : Has(evq', e) <=> Has(evq, e) \/ Has(StopEvents, e)
      /\ ~overtaken => NeverAfter(evq', "STA_DISCONNECTED", "STA_GOT_IP")
      /\ NeverAfter(evq', "AP_STADISCONNECTED", "AP_STACONNECTED")
  BY <1>0, <1>1, ConcatHas DEF LinkInv, ClientsInv
<1>3. "AUTO_CONN" \notin bits /\ ~Station'
  BY <1>0 DEF PhaseInv, RestInv, Resting, Station
<1>4. ASSUME app.pc = "scanning"
      PROVE  /\ OnlyStale(evq') /\ EndsInStop(evq') /\ ~overtaken
             /\ handler = "idle" /\ "STA_CONNECTED" \notin bits
             /\ ~Has(evq', "STA_GOT_IP")
  <2>1. /\ OnlyStale(evq) /\ handler = "idle" /\ ~overtaken /\ Station
        /\ "STA_CONNECTED" \notin bits /\ drv.link = "down" /\ clients = 0
    BY <1>0, <1>4 DEF RestInv, Resting, Station, HasSta
  <2>2. OnlyStale(evq')
    BY <1>1, <1>2, <2>1 DEF OnlyStale, Stale
  <2>3. EndsInStop(evq')
    BY <1>1, <2>1, ScanStopEvents
  <2> QED
    BY <2>1, <2>2, <2>3 DEF OnlyStale, Stale, Events
<1>5. RestInv'
  BY <1>0, <1>3, <1>4 DEF RestInv, Resting
<1>6. PhaseInv'
  <2>1. ASSUME "STA_CONNECTED" \in bits \/ Has(evq', "STA_GOT_IP")
        PROVE  StopLast(evq')
    <3>1. Station
      BY <1>0, <1>1, <1>2, <2>1 DEF PhaseInv
    <3> QED
      BY <1>1, <3>1, StopGrows
  <2> QED
    BY <1>0, <1>3, <1>4, <2>1 DEF PhaseInv
<1>7. FreshInv' /\ OvertakenInv'
  BY <1>0, <1>3, <1>4 DEF FreshInv, OvertakenInv
<1>8. TokenInv'
  BY <1>0, <1>1, <1>2 DEF TokenInv, NoToken
<1>9. LinkInv'
  BY <1>0, <1>2, <1>3 DEF LinkInv
<1>10. ClientsInv'
  BY <1>0, <1>1, <1>2, TypeFacts DEF ClientsInv
<1>11. LostInv'
  BY <1>0 DEF LostInv
<1> QED
  BY <1>5, <1>6, <1>7, <1>8, <1>9, <1>10, <1>11 DEF WifiInv

\* The application task starts the driver: for the station, or for a scan.
LEMMA StartWifi ==
  TypeInv /\ ModeInv /\ WifiInv /\ StartStep /\ UNCHANGED <<ctrl, handler>>
    => WifiInv'
<1> SUFFICES ASSUME TypeInv, ModeInv, WifiInv, StartStep,
                    UNCHANGED <<ctrl, handler>>
             PROVE  WifiInv'
  OBVIOUS
<1>0. /\ TypeOK /\ RestInv /\ PhaseInv /\ FreshInv /\ OvertakenInv
      /\ TokenInv /\ LinkInv /\ ClientsInv
      /\ UNCHANGED <<bits, clients, overtaken>> /\ lost' = 0
      /\ drv'.started /\ drv'.link = "down"
      /\ \/ app.pc = "scan" /\ app'.pc = "scanning" /\ drv'.mode = "STA"
         \/ app.pc = "start" /\ app'.pc = "finish" /\ drv'.mode = drv.mode
  BY DEF TypeInv, WifiInv, StartStep
<1>1. /\ ~drv.started /\ ~Station /\ drv.link = "down"
      /\ "STA_CONNECTED" \notin bits /\ ~Has(evq, "STA_GOT_IP")
      /\ app.pc = "start" => drv.mode # "NULL"
      /\ ~overtaken => handler = "idle"
      /\ ~overtaken /\ app.pc = "start" => "AUTO_CONN" \in bits /\ evq = <<>>
      /\ app.pc = "scan" =>
           /\ OnlyStale(evq) /\ ~overtaken /\ clients = 0
           /\ "AUTO_CONN" \notin bits
  BY <1>0, TypeFacts
  DEF PhaseInv, RestInv, Resting, FreshInv, ModeInv, Station
<1>2. /\ drv'.mode \in Modes /\ StartEvents(drv'.mode) \in Seq(Events)
      /\ OneToken(StartEvents(drv'.mode)) /\ evq \in Seq(Events)
      /\ evq' = evq \o StartEvents(drv'.mode)
      /\ \A e : Has(StartEvents(drv'.mode), e) <=>
           \/ HasSta(drv'.mode) /\ e = "STA_START"
           \/ HasAp(drv'.mode) /\ e = "AP_START"
  <2>1. drv'.mode \in Modes
    BY <1>0, TypeFacts DEF Modes
  <2> QED
    BY <1>0, <2>1, TypeFacts, StartEventsHas DEF StartStep
<1>3. /\ \A e : Has(evq', e) <=>
           \/ Has(evq, e)
           \/ HasSta(drv'.mode) /\ e = "STA_START"
           \/ HasAp(drv'.mode) /\ e = "AP_START"
      /\ \A a : \A b \in Events \ {"STA_START", "AP_START"} :
           NeverAfter(evq, a, b) => NeverAfter(evq', a, b)
      /\ evq = <<>> => OneToken(evq')
      /\ StopFirst(evq) => StopFirst(evq')
  <2> DEFINE r == StartEvents(drv'.mode)
  <2>1. NoToken(<<>>)
    BY EmptyHas DEF NoToken
  <2>2. /\ r \in Seq(Events) /\ OneToken(r) /\ evq \in Seq(Events)
        /\ evq' = evq \o r
        /\ \A b \in Events \ {"STA_START", "AP_START"} : ~Has(r, b)
    BY <1>2
  <2> HIDE DEF r
  <2>3. /\ \A e : Has(evq', e) <=> Has(evq, e) \/ Has(r, e)
        /\ \A a : \A b \in Events \ {"STA_START", "AP_START"} :
             NeverAfter(evq, a, b) => NeverAfter(evq', a, b)
        /\ evq = <<>> => OneToken(evq')
    BY <2>1, <2>2, ConcatHas
  <2>4. StopFirst(evq) => StopFirst(evq')
    BY <2>2, StopGrows
  <2> QED
    BY <1>2, <2>3, <2>4 DEF r
<1>4. drv'.mode = "STA" => ~HasAp(drv'.mode)
  BY DEF HasAp
<1>5. RestInv'
  <2>1. app.pc = "scan" => OnlyStale(evq')
    BY <1>0, <1>1, <1>3, <1>4 DEF OnlyStale, Stale
  <2> QED
    BY <1>0, <1>1, <2>1 DEF RestInv, Resting
<1>6. PhaseInv'
  BY <1>0, <1>1, <1>3 DEF PhaseInv
<1>7. FreshInv'
  BY <1>0, <1>1, <1>3, EmptyHas DEF FreshInv
<1>8. OvertakenInv'
  BY <1>0, <1>1, <1>3 DEF OvertakenInv, Events
<1>9. TokenInv'
  BY <1>0, <1>1, <1>3 DEF TokenInv
<1>10. LinkInv'
  BY <1>0, <1>1, <1>3 DEF LinkInv, Events
<1>11. ClientsInv'
  BY <1>0, <1>3 DEF ClientsInv, Events
<1>12. LostInv'
  <2>1. ~overtaken => ~Has(evq', "STA_DISCONNECTED")
    BY <1>0, <1>1, <1>3, EmptyHas DEF OnlyStale, Stale, Events
  <2> QED
    BY <1>0, <1>1, <2>1 DEF LostInv
<1> QED
  BY <1>5, <1>6, <1>7, <1>8, <1>9, <1>10, <1>11, <1>12 DEF WifiInv

\* The pause: whatever was pending has been handled.
LEMMA DelayWifi ==
  TypeInv /\ WifiInv /\ DelayStep /\ UNCHANGED <<ctrl, handler>> => WifiInv'
<1> SUFFICES ASSUME TypeInv, WifiInv, DelayStep, UNCHANGED <<ctrl, handler>>
             PROVE  WifiInv'
  OBVIOUS
<1>0. /\ TypeOK /\ PhaseInv /\ ClientsInv
      /\ UNCHANGED <<bits, drv, evq, clients, ctrl, handler>>
      /\ app.pc = "delay" /\ app'.pc \in {"scan", "mode"}
      /\ evq = <<>> /\ handler = "idle" /\ overtaken' = FALSE
  BY DEF TypeInv, WifiInv, DelayStep
<1>1. ~StopLast(evq)
  BY <1>0 DEF StopLast
<1>2. /\ ~drv.started /\ ~Station /\ ~Station' /\ drv.link = "down"
      /\ clients = 0 /\ "AUTO_CONN" \notin bits /\ "STA_CONNECTED" \notin bits
  BY <1>0, <1>1, TypeFacts DEF PhaseInv, Station
<1>3. OnlyStale(evq) /\ EndsInStop(evq)
  BY <1>0, EmptyHas DEF OnlyStale, EndsInStop
<1>4. RestInv' /\ PhaseInv'
  BY <1>0, <1>2, <1>3, EmptyHas DEF RestInv, PhaseInv
<1>5. FreshInv' /\ OvertakenInv'
  BY <1>0, <1>2, EmptyHas DEF FreshInv, OvertakenInv
<1>6. TokenInv' /\ LinkInv'
  BY <1>0, <1>2, EmptyHas DEF TokenInv, LinkInv
<1>7. ClientsInv' /\ LostInv'
  BY <1>0, <1>2 DEF ClientsInv, LostInv
<1> QED BY <1>4, <1>5, <1>6, <1>7 DEF WifiInv

\* set_wifi_on announces the connection, perhaps before the events of a scan.
LEMMA OnWifi ==
  TypeInv /\ WifiInv /\ OnStep /\ UNCHANGED <<ctrl, handler>> => WifiInv'
<1> SUFFICES ASSUME TypeInv, WifiInv, OnStep, UNCHANGED <<ctrl, handler>>
             PROVE  WifiInv'
  OBVIOUS
<1>0. /\ TypeOK /\ RestInv /\ ClientsInv
      /\ UNCHANGED <<drv, evq, clients, ctrl, handler>>
      /\ app.pc = "on" /\ app'.pc = "start" /\ overtaken' = (evq # <<>>)
      /\ bits' = bits \union {"AUTO_CONN"}
  BY DEF TypeInv, WifiInv, OnStep
<1>1. /\ ~drv.started /\ ~Station /\ ~Station' /\ drv.link = "down"
      /\ clients = 0 /\ handler = "idle" /\ "STA_CONNECTED" \notin bits'
      /\ OnlyStale(evq) /\ EndsInStop(evq)
  BY <1>0 DEF RestInv, Resting, Station
<1>2. ~Has(evq, "STA_GOT_IP")
  BY <1>1 DEF OnlyStale, Stale, Events
<1>3. evq # <<>> => StopFirst(evq)
  BY <1>0, <1>1, TypeFacts, StaleStops
<1>4. NeverAfter(evq, "STA_GOT_IP", "STA_STOP")
  BY <1>2 DEF NeverAfter, Has
<1>5. RestInv' /\ PhaseInv'
  BY <1>0, <1>1, <1>2 DEF RestInv, Resting, PhaseInv
<1>6. FreshInv' /\ OvertakenInv'
  BY <1>0, <1>1, <1>3, <1>4, EmptyHas DEF FreshInv, OvertakenInv
<1>7. TokenInv' /\ LinkInv'
  BY <1>0, <1>1, EmptyHas DEF TokenInv, LinkInv
<1>8. ClientsInv' /\ LostInv'
  BY <1>0, <1>1 DEF ClientsInv, LostInv
<1> QED BY <1>5, <1>6, <1>7, <1>8 DEF WifiInv

\* The steps of the application task that leave the queue alone.
LEMMA OtherAppWifi ==
  TypeInv /\ ModeInv /\ WifiInv /\ UNCHANGED <<ctrl, handler>>
    /\ (CallStep \/ OffStep \/ ModeStep \/ GoStep)
  => WifiInv'
<1> SUFFICES ASSUME TypeInv, ModeInv, WifiInv, UNCHANGED <<ctrl, handler>>,
                    CallStep \/ OffStep \/ ModeStep \/ GoStep
             PROVE  WifiInv'
  OBVIOUS
<1>0. /\ TypeOK /\ RestInv /\ PhaseInv /\ FreshInv /\ OvertakenInv
      /\ TokenInv /\ LinkInv /\ ClientsInv /\ LostInv
      /\ UNCHANGED <<evq, clients, ctrl, handler, lost, refused, overtaken>>
      /\ drv'.started = drv.started /\ drv'.link = drv.link
      /\ app.pc \notin {"stop", "scanning", "delay"}
      /\ app'.pc \notin {"scanning", "delay"}
  BY DEF TypeInv, WifiInv, CallStep, OffStep, ModeStep, GoStep, history
<1>1. /\ Station' = Station
      /\ ModeStep => ~Station
  BY <1>0 DEF Station, RestInv, Resting, CallStep, OffStep, ModeStep, GoStep
<1>2. /\ bits' \subseteq bits
      /\ "CONNECTED" \in bits' <=> "CONNECTED" \in bits
      /\ app'.pc = "stop" => "AUTO_CONN" \notin bits'
      /\ app'.pc # "stop" => bits' = bits
  BY DEF CallStep, OffStep, ModeStep, GoStep
<1>3. Resting' => Resting
  <2>1. CASE CallStep
    BY <2>1 DEF CallStep, Resting
  <2>2. CASE OffStep
    BY <2>2 DEF OffStep, Resting
  <2>3. CASE ModeStep
    BY <2>3 DEF ModeStep, Resting
  <2>4. CASE GoStep
    BY <2>4 DEF GoStep, Resting, ModeInv
  <2> QED BY <2>1, <2>2, <2>3, <2>4
<1>4. RestInv'
  BY <1>0, <1>2, <1>3 DEF RestInv
<1>5. PhaseInv'
  <2>1. app'.pc # "start"
    BY DEF CallStep, OffStep, ModeStep, GoStep
  <2> QED
    BY <1>0, <1>1, <1>2, <2>1 DEF PhaseInv
<1>6. FreshInv'
  <2>1. CASE CallStep
    BY <1>0, <1>1, <2>1 DEF CallStep, FreshInv
  <2>2. CASE OffStep
    BY <1>0, <1>1, <2>2 DEF OffStep, FreshInv
  <2>3. CASE ModeStep
    BY <1>0, <1>1, <2>3 DEF ModeStep, FreshInv
  <2>4. CASE GoStep
    BY <1>0, <1>1, <2>4 DEF GoStep, FreshInv, RestInv, Resting, PhaseInv, Station
  <2> QED BY <2>1, <2>2, <2>3, <2>4
<1>7. OvertakenInv'
  BY <1>0, <1>2 DEF OvertakenInv
<1>8. TokenInv'
  BY <1>0 DEF TokenInv
<1>9. LinkInv'
  BY <1>0, <1>1, <1>2 DEF LinkInv
<1>10. ClientsInv'
  BY <1>0, <1>2 DEF ClientsInv
<1>11. LostInv'
  BY <1>0 DEF LostInv
<1> QED
  BY <1>4, <1>5, <1>6, <1>7, <1>8, <1>9, <1>10, <1>11 DEF WifiInv

LEMMA NextWifi == TypeInv /\ ModeInv /\ WifiInv /\ [Next]_vars => WifiInv'
<1> SUFFICES ASSUME TypeInv, ModeInv, WifiInv, [Next]_vars
             PROVE  WifiInv'
  OBVIOUS
<1>1. Init' => WifiInv'
  BY InitWifi, PTL
<1>2. CASE UNCHANGED vars
  BY <1>2 DEF vars, code, history, WifiInv, RestInv, PhaseInv, FreshInv,
              OvertakenInv, TokenInv, LinkInv, ClientsInv, LostInv, Station,
              Resting
<1>3. CASE AppTask
  <2>1. /\ UNCHANGED <<ctrl, handler>>
        /\ \/ CallStep \/ OffStep \/ StopStep \/ DelayStep \/ StartStep
           \/ ModeStep \/ OnStep \/ GoStep
    BY <1>3, AppSteps DEF TypeInv
  <2> QED
    BY <2>1, StopWifi, StartWifi, DelayWifi, OnWifi, OtherAppWifi
<1>4. CASE EventTask
  BY <1>4, HandleEventWifi, HandlerConnectWifi DEF EventTask
<1>5. CASE Network
  BY <1>5, AssociateWifi, LoseLinkWifi, ClientsWifi DEF Network
<1>6. CASE Reboot
  BY <1>1, <1>6, RebootIsInit
<1> QED
  BY <1>2, <1>3, <1>4, <1>5, <1>6 DEF Next, AppTask

LEMMA WifiAlways == Spec => [](TypeInv /\ ModeInv /\ WifiInv)
<1>1. Init => ModeInv /\ WifiInv
  BY InitMode, InitWifi
<1>2. TypeInv /\ ModeInv /\ [Next]_vars => ModeInv'
  BY NextMode DEF TypeInv
<1> QED
  BY <1>1, <1>2, NextWifi, TypesAlways, PTL DEF Spec

\* While get_best_wifi_ch scans, no esp_wifi_connect of the event handler
\* disturbs it, whatever events of earlier calls are still pending:
\* set_wifi_off has cleared BIT_WIFI_AUTO_CONN, the pause behind it lets the
\* calls pass that were already decided, and a scan made in mode NULL finds
\* nothing but the events of other scans.
THEOREM ScanAlwaysUndisturbed == Spec => []ScanUndisturbed
<1>1. WifiInv => ScanUndisturbed
  BY DEF WifiInv, RestInv, Resting, ScanUndisturbed
<1> QED
  BY <1>1, WifiAlways, PTL

\* With nothing pending a station with an address has BIT_WIFI_STA_CONNECTED,
\* and BIT_WIFI_CONNECTED of the access point is set only with a client, in
\* every order of events and calls.  BIT_WIFI_STA_CONNECTED goes with the link
\* and a started station has BIT_WIFI_AUTO_CONN, but for the two cases in which
\* the code loses them: esp_wifi_connect has failed unseen, or set_wifi_on has
\* overtaken the events of a scan.
THEOREM BitsAlwaysTruthful == Spec => []BitsTruthful
<1>1. TypeInv /\ WifiInv => BitsTruthful
  <2> SUFFICES ASSUME TypeOK, PhaseInv, FreshInv, LinkInv, ClientsInv
               PROVE  BitsTruthful
    BY DEF TypeInv, WifiInv
  <2>1. app.pc = "idle" /\ drv.started /\ HasSta(drv.mode) =>
          "AUTO_CONN" \in bits \/ overtaken
    BY DEF FreshInv, Station
  <2>2. ASSUME Quiet
        PROVE  /\ drv.link = "up" => "STA_CONNECTED" \in bits
               /\ "STA_CONNECTED" \in bits =>
                    drv.link # "down" \/ refused \/ overtaken
               /\ "CONNECTED" \in bits => clients > 0
    BY <2>2, EmptyHas, TypeFacts DEF Quiet, PhaseInv, LinkInv, ClientsInv
  <2> QED
    BY <2>1, <2>2 DEF BitsTruthful
<1> QED
  BY <1>1, WifiAlways, PTL

\* The handler of WIFI_EVENT_STA_DISCONNECTED sets BIT_WIFI_STA_CONN_FAIL only
\* after WIFI_MAX_RETRY + 1 failures since the last connection or start.
THEOREM AlwaysGivesUpLate == Spec => GivesUpLate
<1>1. ASSUME TypeInv, WifiInv, [Next]_vars,
             "STA_CONN_FAIL" \notin bits, "STA_CONN_FAIL" \in bits'
      PROVE  lost = WIFI_MAX_RETRY + 1
  <2>0. TypeOK
    BY <1>1 DEF TypeInv
  <2>1. HandleEvent
    <3>1. ~AppTask
      <4> SUFFICES ASSUME AppTask PROVE FALSE
        OBVIOUS
      <4>1. bits' \subseteq bits \union {"AUTO_CONN"}
        BY <2>0, AppSteps
        DEF CallStep, OffStep, StopStep, DelayStep, StartStep, ModeStep, OnStep,
            GoStep
      <4> QED
        BY <1>1, <4>1
    <3>2. ~Reboot
      BY <1>1 DEF Reboot
    <3>3. ~Network /\ ~HandlerConnect
      BY <1>1
      DEF Network, Associate, LoseLink, Join, Leave, HandlerConnect, code
    <3> QED
      BY <1>1, <3>1, <3>2, <3>3 DEF Next, vars, code, EventTask, AppTask
  <2>2. /\ Head(evq) = "STA_DISCONNECTED" /\ "AUTO_CONN" \in bits
        /\ ~(ctrl < WIFI_MAX_RETRY) /\ evq # <<>>
    BY <1>1, <2>0, <2>1, HandleEffect
  <2>3. evq \in Seq(Events) /\ Has(evq, "STA_DISCONNECTED")
    BY <2>0, <2>2, TypeFacts, TailHas
  <2>4. ~overtaken
    BY <1>1, <2>2, <2>3, StopShrinks DEF WifiInv, OvertakenInv, Stale
  <2>5. drv.started /\ ~Has(evq, "STA_GOT_IP")
    BY <1>1, <2>2, <2>3, <2>4, TailHas DEF WifiInv, LinkInv, FreshInv
  <2>6. lost >= ctrl + 1
    BY <1>1, <2>3, <2>4, <2>5 DEF WifiInv, LostInv
  <2> QED
    BY <2>0, <2>2, <2>6, TypeFacts, RetryAssumption
<1>2. TypeInv /\ WifiInv /\ [Next]_vars =>
        [("STA_CONN_FAIL" \notin bits /\ "STA_CONN_FAIL" \in bits') =>
           lost = WIFI_MAX_RETRY + 1]_vars
  BY <1>1
<1> QED
  BY <1>2, WifiAlways, PTL DEF Spec, GivesUpLate

-----------------------------------------------------------------------------
(* The UDP services, proved for every number of application tasks,         *)
(* services and slots.  A configuration has one owner all the time: the    *)
(* start that filled it, then the task that the start has created.  What   *)
(* backs a bit needs that too, since a new task must not replace another.  *)

AnyHandler == {"set", "null", "wild"}
Lens == {Len(q) : q \in Queries \union {<<>>}}

\* A start under way, and one that failed before it had a configuration.
Starts == [step : {"set", "create", "free", "clear"}, svc : Services,
           slot : Slots, handler : AnyHandler]
Failures == [step : {"clear"}, svc : Services]

\* A task, but for a server that has a datagram to answer.
TaskPcs == {"begin", "test", "socket", "talk", "refused", "end"}
Waiting == [pc : TaskPcs, svc : Services, handler : AnyHandler]
Answering == [pc : {"answer"}, svc : Services, handler : AnyHandler, len : Lens]

\* The types of what the properties are about.
StateInv ==
  /\ bit \in [Services -> BOOLEAN]
  /\ starting \in [Apps -> {Idle} \union Starts \union Failures]
  /\ task \in [Slots -> {NoTask} \union Waiting \union Answering]
  /\ conf \in [Slots -> {"none", "live", "freed"}]

\* The start of task a owns the configuration in slot i.
Holds(a, i) == starting[a].step \in {"set", "create", "free"} /\ starting[a].slot = i

\* A configuration that a start owns is live and has no task yet, and no other start
\* owns it; a task has a live configuration; a live one has an owner.
OwnInv ==
  /\ \A i \in Slots, a \in Apps :
       Holds(a, i) => conf[i] = "live" /\ task[i].pc = "none"
  /\ \A i \in Slots, a, b \in Apps : Holds(a, i) /\ Holds(b, i) => a = b
  /\ \A i \in Slots : task[i].pc # "none" => conf[i] = "live"
  /\ \A i \in Slots : conf[i] = "live" =>
       task[i].pc # "none" \/ \E a \in Apps : Holds(a, i)

ServInv == StateInv /\ OwnInv /\ BitBacked

\* What is known of a start and of a task by the point where it is.
LEMMA StartRecord ==
  ASSUME StateInv, NEW a \in Apps, starting[a].step \in {"set", "create", "free"}
  PROVE  /\ starting[a] \in Starts
         /\ starting[a].slot \in Slots /\ starting[a].svc \in Services
         /\ starting[a].handler \in AnyHandler
BY DEF StateInv, Starts, Failures, Idle

LEMMA ClearStep ==
  ASSUME StateInv, NEW a \in Apps, starting[a].step = "clear"
  PROVE  starting[a].svc \in Services
BY DEF StateInv, Starts, Failures, Idle

LEMMA TaskAt ==
  ASSUME StateInv, NEW i \in Slots, task[i].pc # "none"
  PROVE  /\ task[i] \in Waiting \union Answering
         /\ task[i].svc \in Services /\ task[i].handler \in AnyHandler
BY DEF StateInv, NoTask, Waiting, Answering

LEMMA SomeTask ==
  ASSUME NEW t \in Waiting \union Answering
  PROVE  t.pc \in TaskPcs \union {"answer"} /\ t.pc # "none" /\ t.svc \in Services
BY DEF Waiting, Answering, TaskPcs

LEMMA Handling ==
  ASSUME NEW s, NEW h \in Handlers(s)
  PROVE  h \in AnyHandler
BY DEF Handlers, AnyHandler

\* an application task moves on in its start
LEMMA GotoStep ==
  ASSUME StateInv, NEW a \in Apps, starting[a] \in Starts,
         NEW step \in {"create", "free", "clear"}, Proceed(a, step)
  PROVE  /\ starting'[a] \in Starts /\ starting'[a].step = step
         /\ starting'[a].slot = starting[a].slot /\ starting'[a].svc = starting[a].svc
         /\ starting' \in [Apps -> {Idle} \union Starts \union Failures]
         /\ \A b \in Apps : b # a => starting'[b] = starting[b]
<1>1. starting' = [starting EXCEPT ![a] = [starting[a] EXCEPT !.step = step]]
  BY DEF Proceed
<1>2. /\ [starting[a] EXCEPT !.step = step] \in Starts
      /\ [starting[a] EXCEPT !.step = step].step = step
      /\ [starting[a] EXCEPT !.step = step].slot = starting[a].slot
      /\ [starting[a] EXCEPT !.step = step].svc = starting[a].svc
  BY DEF Starts
<1> DEFINE r == [starting[a] EXCEPT !.step = step]
<1> HIDE DEF r
<1>3. starting' = [starting EXCEPT ![a] = r]
  BY <1>1 DEF r
<1>4. starting'[a] = r /\ \A b \in Apps : b # a => starting'[b] = starting[b]
  BY <1>3 DEF StateInv
<1>5. starting' \in [Apps -> {Idle} \union Starts \union Failures]
  BY <1>2, <1>3 DEF StateInv, r
<1> QED BY <1>2, <1>4, <1>5 DEF r

\* a task that is about to do something moves to another point of its loop
LEMMA ContinueStep ==
  ASSUME StateInv, NEW i \in Slots, task[i] \in Waiting,
         NEW pc \in TaskPcs, Continue(i, pc)
  PROVE  /\ task'[i].pc = pc /\ task'[i].svc = task[i].svc
         /\ task' \in [Slots -> {NoTask} \union Waiting \union Answering]
         /\ \A j \in Slots : j # i => task'[j] = task[j]
<1> DEFINE t == [task[i] EXCEPT !.pc = pc]
<1>1. t \in Waiting /\ t.pc = pc /\ t.svc = task[i].svc
  BY DEF Waiting
<1>2. task' = [task EXCEPT ![i] = t]
  BY DEF Continue
<1> HIDE DEF t
<1>3. task'[i] = t /\ \A j \in Slots : j # i => task'[j] = task[j]
  BY <1>2 DEF StateInv
<1>4. task' \in [Slots -> {NoTask} \union Waiting \union Answering]
  BY <1>1, <1>2 DEF StateInv
<1> QED BY <1>1, <1>3, <1>4

\* A turn of the loop of a task.
Turn(i) ==
  /\ task[i].pc # "none" /\ task'[i].pc # "none"
  /\ task'[i].svc = task[i].svc
  /\ task'[i].pc = "end" => ~bit[task[i].svc]
  /\ task' \in [Slots -> {NoTask} \union Waiting \union Answering]
  /\ \A j \in Slots : j # i => task'[j] = task[j]
  /\ UNCHANGED <<bit, starting, conf>>

LEMMA ContinueTurn ==
  ASSUME StateInv, NEW i \in Slots, task[i].pc \in TaskPcs, NEW pc \in TaskPcs,
         Continue(i, pc), pc = "end" => ~bit[task[i].svc],
         UNCHANGED <<bit, starting, conf>>
  PROVE  Turn(i)
<1>1. task[i].pc # "none" /\ task[i] \in Waiting \union Answering
  BY TaskAt DEF TaskPcs
<1>2. task[i] \in Waiting
  BY <1>1 DEF Answering, TaskPcs
<1>3. pc # "none"
  BY DEF TaskPcs
<1> QED BY <1>1, <1>2, <1>3, ContinueStep DEF Turn

LEMMA SetTurn ==
  ASSUME StateInv, NEW i \in Slots, task[i].pc # "none",
         NEW t \in Waiting \union Answering, task' = [task EXCEPT ![i] = t],
         t.pc # "end", t.svc = task[i].svc, UNCHANGED <<bit, starting, conf>>
  PROVE  Turn(i)
<1>1. task'[i] = t /\ \A j \in Slots : j # i => task'[j] = task[j]
  BY DEF StateInv
<1>2. task' \in [Slots -> {NoTask} \union Waiting \union Answering]
  BY DEF StateInv
<1>3. t.pc # "none"
  BY SomeTask
<1> QED BY <1>1, <1>2, <1>3 DEF Turn

LEMMA TaskTurns ==
  ASSUME StateInv, NEW i \in Slots, TaskStep(i), ~WildHandler(i), ~TaskEnd(i)
  PROVE  Turn(i)
<1>1. CASE TaskBegin(i)
  <2>1. task[i].pc \in TaskPcs
    BY <1>1 DEF TaskBegin, At, TaskPcs
  <2>2. PICK pc \in {"test", "refused"} : Continue(i, pc)
    BY <1>1 DEF TaskBegin
  <2>3. pc \in TaskPcs /\ pc # "end"
    BY <2>2 DEF TaskPcs
  <2>4. UNCHANGED <<bit, starting, conf>>
    BY <1>1 DEF TaskBegin
  <2> QED BY <2>1, <2>2, <2>3, <2>4, ContinueTurn
<1>2. CASE TaskTest(i)
  <2>1. task[i].pc \in TaskPcs
    BY <1>2 DEF TaskTest, At, TaskPcs
  <2>2. PICK pc \in {"socket", "end"} : /\ Continue(i, pc)
                                        /\ pc = "end" => ~bit[task[i].svc]
    <3>1. CASE bit[task[i].svc]
      BY <1>2, <3>1 DEF TaskTest
    <3>2. CASE ~bit[task[i].svc]
      BY <1>2, <3>2 DEF TaskTest
    <3> QED BY <3>1, <3>2
  <2>3. pc \in TaskPcs
    BY <2>2 DEF TaskPcs
  <2>4. UNCHANGED <<bit, starting, conf>>
    BY <1>2 DEF TaskTest
  <2> QED BY <2>1, <2>2, <2>3, <2>4, ContinueTurn
<1>3. CASE TaskSocket(i) \/ ClientRound(i)
  <2>1. task[i].pc \in TaskPcs
    BY <1>3 DEF TaskSocket, ClientRound, At, TaskPcs
  <2>2. PICK pc \in {"talk", "test"} : Continue(i, pc)
    BY <1>3 DEF TaskSocket, ClientRound
  <2>3. pc \in TaskPcs /\ pc # "end"
    BY <2>2 DEF TaskPcs
  <2>4. UNCHANGED <<bit, starting, conf>>
    BY <1>3 DEF TaskSocket, ClientRound
  <2> QED BY <2>1, <2>2, <2>3, <2>4, ContinueTurn
<1>4. CASE ServerReceive(i)
  <2>1. task[i].pc = "talk" /\ UNCHANGED <<bit, starting, conf>>
    BY <1>4 DEF ServerReceive, At
  <2>2. /\ task[i].pc \in TaskPcs /\ task[i].pc # "none" /\ "test" \in TaskPcs
        /\ task[i].svc \in Services /\ task[i].handler \in AnyHandler
    BY <2>1, TaskAt DEF TaskPcs
  <2>3. CASE Continue(i, "test")
    BY <2>1, <2>2, <2>3, ContinueTurn
  <2>4. CASE ~Continue(i, "test")
    <3>1. PICK q \in Queries \union {<<>>} :
            task' = [task EXCEPT ![i] = [pc |-> "answer", svc |-> task[i].svc,
                                         handler |-> task[i].handler, len |-> Len(q)]]
      <4>1. \A q \in (IF task[i].svc = "dns" THEN Queries ELSE {<<>>}) :
              q \in Queries \union {<<>>}
        OBVIOUS
      <4> QED BY <1>4, <2>4, <4>1 DEF ServerReceive
    <3> DEFINE t == [pc |-> "answer", svc |-> task[i].svc,
                     handler |-> task[i].handler, len |-> Len(q)]
    <3>2. t \in Answering /\ t.pc # "end" /\ t.svc = task[i].svc
      <4>1. Len(q) \in Lens
        BY <3>1 DEF Lens
      <4> QED BY <2>2, <4>1 DEF Answering
    <3> HIDE DEF t
    <3>3. task' = [task EXCEPT ![i] = t]
      BY <3>1 DEF t
    <3> QED BY <2>1, <2>2, <3>2, <3>3, SetTurn
  <2> QED BY <2>3, <2>4
<1>5. CASE TaskAnswer(i)
  <2> DEFINE t == [pc |-> "test", svc |-> task[i].svc, handler |-> "set"]
  <2>1. /\ task[i].pc = "answer" /\ UNCHANGED <<bit, starting, conf>>
        /\ task' = [task EXCEPT ![i] = t]
    BY <1>5 DEF TaskAnswer, At
  <2>2. task[i].pc # "none" /\ task[i].svc \in Services
    BY <2>1, TaskAt
  <2>3. t \in Waiting /\ t.pc # "end" /\ t.svc = task[i].svc
    BY <2>2 DEF Waiting, TaskPcs, AnyHandler
  <2> HIDE DEF t
  <2> QED BY <2>1, <2>2, <2>3, SetTurn
<1> QED BY <1>1, <1>2, <1>3, <1>4, <1>5 DEF TaskStep

LEMMA TurnKeeps ==
  ASSUME ServInv, NEW i \in Slots, Turn(i)
  PROVE  ServInv'
<1>1. StateInv'
  BY DEF ServInv, StateInv, Turn
<1>2. /\ \A j \in Slots : conf'[j] = conf[j]
      /\ \A j \in Slots : (task'[j].pc = "none") = (task[j].pc = "none")
      /\ \A a \in Apps, j \in Slots : (Holds(a, j)' <=> Holds(a, j))
  BY DEF Turn, Holds
<1>3. OwnInv'
  BY <1>2 DEF ServInv, OwnInv
<1>4. BitBacked'
  <2> SUFFICES ASSUME NEW s \in Services, bit[s]
               PROVE  \/ \E a \in Apps : starting[a].step \in {"create", "free", "clear"}
                                         /\ starting[a].svc = s
                      \/ \E j \in Slots : task'[j].pc \notin {"none", "end"}
                                          /\ task'[j].svc = s
    BY DEF BitBacked, Turn
  <2>1. CASE \E a \in Apps : starting[a].step \in {"create", "free", "clear"}
                             /\ starting[a].svc = s
    BY <2>1
  <2>2. CASE \E j \in Slots : task[j].pc \notin {"none", "end"} /\ task[j].svc = s
    <3>1. PICK j \in Slots : task[j].pc \notin {"none", "end"} /\ task[j].svc = s
      BY <2>2
    <3>2. task'[j].svc = s /\ task'[j].pc \notin {"none", "end"}
      BY <3>1 DEF Turn
    <3> QED BY <3>2
  <2> QED BY <2>1, <2>2 DEF ServInv, BitBacked
<1> QED BY <1>1, <1>3, <1>4 DEF ServInv

\* A new start either takes a slot that nobody has or fails at once.
LEMMA AllocKeeps ==
  ASSUME ServInv, NEW a \in Apps, NEW s \in Services, StartAlloc(a, s)
  PROVE  ServInv'
<1>0. StateInv /\ OwnInv /\ BitBacked /\ starting[a] = Idle
  BY DEF ServInv, StartAlloc, Call
<1>1. ~(starting[a].step \in {"set", "create", "free", "clear"})
  BY <1>0 DEF Idle
<1>2. UNCHANGED <<bit, task>>
  BY DEF StartAlloc
<1>3. PICK r \in Starts \union Failures : starting' = [starting EXCEPT ![a] = r] /\
        \/ /\ r \in Starts /\ r.step = "set" /\ Free(r.slot)
           /\ conf' = [conf EXCEPT ![r.slot] = "live"]
        \/ r.step = "clear" /\ conf' = conf
  <2>1. CASE \E i \in Slots, h \in Handlers(s) :
               /\ Free(i) /\ conf' = [conf EXCEPT ![i] = "live"]
               /\ starting' = [starting EXCEPT ![a] = [step |-> "set", svc |-> s,
                                             slot |-> i, handler |-> h]]
    <3>1. PICK i \in Slots, h \in Handlers(s) :
               /\ Free(i) /\ conf' = [conf EXCEPT ![i] = "live"]
               /\ starting' = [starting EXCEPT ![a] = [step |-> "set", svc |-> s,
                                             slot |-> i, handler |-> h]]
      BY <2>1
    <3>2. h \in AnyHandler
      BY Handling
    <3> DEFINE r == [step |-> "set", svc |-> s, slot |-> i, handler |-> h]
    <3>3. r \in Starts /\ r.step = "set" /\ r.slot = i
      BY <3>2 DEF Starts
    <3>4. starting' = [starting EXCEPT ![a] = r]
      BY <3>1
    <3> HIDE DEF r
    <3> QED BY <3>1, <3>3, <3>4
  <2>2. CASE starting' = [starting EXCEPT ![a] = [step |-> "clear", svc |-> s]] /\ conf' = conf
    <3> DEFINE r == [step |-> "clear", svc |-> s]
    <3>1. r \in Failures /\ r.step = "clear"
      BY DEF Failures
    <3>2. starting' = [starting EXCEPT ![a] = r]
      BY <2>2
    <3> HIDE DEF r
    <3> QED BY <2>2, <3>1, <3>2
  <2> QED BY <2>1, <2>2 DEF StartAlloc
<1>4. starting'[a] = r /\ \A b \in Apps : b # a => starting'[b] = starting[b]
  BY <1>0, <1>3 DEF StateInv
<1>5. starting' \in [Apps -> {Idle} \union Starts \union Failures]
  BY <1>0, <1>3 DEF StateInv
<1>6. BitBacked'
  <2> SUFFICES ASSUME NEW z \in Services, bit[z]
               PROVE  \/ \E b \in Apps : starting'[b].step \in {"create", "free", "clear"}
                                         /\ starting'[b].svc = z
                      \/ \E j \in Slots : task[j].pc \notin {"none", "end"}
                                          /\ task[j].svc = z
    BY <1>2 DEF BitBacked
  <2>1. CASE \E b \in Apps : starting[b].step \in {"create", "free", "clear"}
                             /\ starting[b].svc = z
    <3>1. PICK b \in Apps : starting[b].step \in {"create", "free", "clear"}
                            /\ starting[b].svc = z
      BY <2>1
    <3>2. b # a
      BY <3>1, <1>1
    <3> QED BY <3>1, <3>2, <1>4
  <2> QED BY <2>1, <1>0 DEF BitBacked
<1>7. CASE r.step = "clear" /\ conf' = conf
  <2>1. \A b \in Apps, j \in Slots : (Holds(b, j)' <=> Holds(b, j))
    <3> SUFFICES ASSUME NEW b \in Apps, NEW j \in Slots
                 PROVE  (Holds(b, j)' <=> Holds(b, j))
      OBVIOUS
    <3>1. CASE b = a
      BY <3>1, <1>7, <1>4, <1>1 DEF Holds
    <3>2. CASE b # a
      BY <3>2, <1>4 DEF Holds
    <3> QED BY <3>1, <3>2
  <2>2. StateInv' /\ OwnInv'
    BY <1>0, <1>2, <1>5, <1>7, <2>1 DEF StateInv, OwnInv
  <2> QED BY <1>6, <2>2 DEF ServInv
<1>8. CASE /\ r \in Starts /\ r.step = "set" /\ Free(r.slot)
           /\ conf' = [conf EXCEPT ![r.slot] = "live"]
  <2> DEFINE i == r.slot
  <2>1. i \in Slots /\ conf[i] # "live" /\ task[i].pc = "none"
    BY <1>8 DEF Starts, Free
  <2>2. conf'[i] = "live" /\ \A j \in Slots : j # i => conf'[j] = conf[j]
    BY <1>8, <1>0, <2>1 DEF StateInv
  <2>3. Holds(a, i)' /\ \A j \in Slots : j # i => ~Holds(a, j)'
    BY <1>4, <1>8 DEF Holds
  <2>4. \A b \in Apps, j \in Slots : b # a => (Holds(b, j)' <=> Holds(b, j))
    BY <1>4 DEF Holds
  <2>5. \A b \in Apps : ~Holds(b, i)
    BY <1>0, <2>1 DEF OwnInv
  <2>6. \A j \in Slots : ~Holds(a, j)
    BY <1>1 DEF Holds
  <2> HIDE DEF i
  <2>7. OwnInv'
    <3>1. \A j \in Slots, b \in Apps :
            Holds(b, j)' => conf'[j] = "live" /\ task[j].pc = "none"
      <4> TAKE j \in Slots, b \in Apps
      <4>1. CASE j = i
        BY <4>1, <2>1, <2>2
      <4>2. CASE j # i
        BY <4>2, <1>0, <2>2, <2>3, <2>4 DEF OwnInv
      <4> QED BY <4>1, <4>2
    <3>2. \A j \in Slots, b, c \in Apps : Holds(b, j)' /\ Holds(c, j)' => b = c
      <4> TAKE j \in Slots, b \in Apps, c \in Apps
      <4>1. CASE j = i
        BY <4>1, <2>1, <2>4, <2>5
      <4>2. CASE j # i
        BY <4>2, <1>0, <2>3, <2>4 DEF OwnInv
      <4> QED BY <4>1, <4>2
    <3>3. \A j \in Slots : task[j].pc # "none" => conf'[j] = "live"
      BY <1>0, <2>2 DEF OwnInv
    <3>4. \A j \in Slots : conf'[j] = "live" =>
            task[j].pc # "none" \/ \E b \in Apps : Holds(b, j)'
      <4> TAKE j \in Slots
      <4>1. CASE j = i
        BY <4>1, <2>3
      <4>2. CASE j # i
        <5>1. conf'[j] = "live" =>
                task[j].pc # "none" \/ \E b \in Apps : Holds(b, j)
          BY <4>2, <1>0, <2>2 DEF OwnInv
        <5> QED BY <5>1, <2>4, <2>6
      <4> QED BY <4>1, <4>2
    <3> QED BY <3>1, <3>2, <3>3, <3>4, <1>2 DEF OwnInv
  <2>8. StateInv'
    BY <1>0, <1>2, <1>5, <1>8, <2>1 DEF StateInv, i
  <2> QED BY <1>6, <2>7, <2>8 DEF ServInv
<1> QED BY <1>3, <1>7, <1>8

\* A configuration is given up by its owner, a start or a task, and the rest stays.
Released(i) ==
  /\ conf' = [conf EXCEPT ![i] = "freed"]
  /\ \A j \in Slots : j # i => task'[j] = task[j]
  /\ task'[i].pc = "none"
  /\ \A a \in Apps : ~Holds(a, i)'
  /\ \A a \in Apps, j \in Slots : j # i => (Holds(a, j)' <=> Holds(a, j))

LEMMA ReleaseKeeps ==
  ASSUME StateInv, OwnInv, NEW i \in Slots, Released(i)
  PROVE  OwnInv'
<1>1. conf'[i] = "freed" /\ \A j \in Slots : j # i => conf'[j] = conf[j]
  BY DEF StateInv, Released
<1> SUFFICES ASSUME NEW j \in Slots
             PROVE  /\ \A a \in Apps : Holds(a, j)' => conf'[j] = "live" /\ task'[j].pc = "none"
                    /\ \A a, b \in Apps : Holds(a, j)' /\ Holds(b, j)' => a = b
                    /\ task'[j].pc # "none" => conf'[j] = "live"
                    /\ conf'[j] = "live" =>
                         task'[j].pc # "none" \/ \E a \in Apps : Holds(a, j)'
  BY DEF OwnInv
<1>2. CASE j = i
  BY <1>1, <1>2 DEF Released
<1>3. CASE j # i
  <2>1. /\ conf'[j] = conf[j] /\ task'[j] = task[j]
        /\ \A a \in Apps : (Holds(a, j)' <=> Holds(a, j))
    BY <1>1, <1>3 DEF Released
  <2> QED BY <2>1 DEF OwnInv
<1> QED BY <1>2, <1>3

\* What a start has done so far does not get lost with the next step.
LEMMA SetBitKeeps ==
  ASSUME ServInv, NEW a \in Apps, StartSetBit(a)
  PROVE  ServInv'
<1>0. StateInv /\ OwnInv /\ BitBacked /\ starting[a].step = "set"
  BY DEF ServInv, StartSetBit
<1>1. starting[a] \in Starts /\ starting[a].svc \in Services
  BY <1>0, StartRecord
<1>2. /\ starting'[a] \in Starts /\ starting'[a].step = "create"
      /\ starting'[a].slot = starting[a].slot /\ starting'[a].svc = starting[a].svc
      /\ starting' \in [Apps -> {Idle} \union Starts \union Failures]
      /\ \A b \in Apps : b # a => starting'[b] = starting[b]
  BY <1>0, <1>1, GotoStep DEF StartSetBit
<1>3. UNCHANGED <<task, conf>> /\ bit' = [bit EXCEPT ![starting[a].svc] = TRUE]
  BY DEF StartSetBit
<1>4. \A b \in Apps, j \in Slots : (Holds(b, j)' <=> Holds(b, j))
  <2> SUFFICES ASSUME NEW b \in Apps, NEW j \in Slots
               PROVE  (Holds(b, j)' <=> Holds(b, j))
    OBVIOUS
  <2>1. CASE b = a
    BY <2>1, <1>0, <1>2 DEF Holds
  <2>2. CASE b # a
    BY <2>2, <1>2 DEF Holds
  <2> QED BY <2>1, <2>2
<1>5. OwnInv'
  BY <1>0, <1>3, <1>4 DEF OwnInv
<1>6. StateInv'
  BY <1>0, <1>1, <1>2, <1>3 DEF StateInv
<1>7. BitBacked'
  <2> SUFFICES ASSUME NEW s \in Services, bit'[s]
               PROVE  \/ \E b \in Apps : starting'[b].step \in {"create", "free", "clear"}
                                         /\ starting'[b].svc = s
                      \/ \E j \in Slots : task[j].pc \notin {"none", "end"}
                                          /\ task[j].svc = s
    BY <1>3 DEF BitBacked
  <2>1. CASE s = starting[a].svc
    BY <2>1, <1>2
  <2>2. CASE s # starting[a].svc
    <3>1. bit[s]
      BY <2>2, <1>0, <1>3 DEF StateInv
    <3>2. CASE \E b \in Apps : starting[b].step \in {"create", "free", "clear"}
                               /\ starting[b].svc = s
      <4>1. PICK b \in Apps : starting[b].step \in {"create", "free", "clear"}
                              /\ starting[b].svc = s
        BY <3>2
      <4>2. b # a
        BY <4>1, <1>0
      <4> QED BY <4>1, <4>2, <1>2
    <3> QED BY <3>1, <3>2, <1>0 DEF BitBacked
  <2> QED BY <2>1, <2>2
<1> QED BY <1>5, <1>6, <1>7 DEF ServInv

\* The configuration passes from the start to the task, or nothing is created.
LEMMA CreateKeeps ==
  ASSUME ServInv, NEW a \in Apps, StartCreate(a)
  PROVE  ServInv'
<1>0. StateInv /\ OwnInv /\ BitBacked /\ starting[a].step = "create"
  BY DEF ServInv, StartCreate
<1>1. /\ starting[a] \in Starts /\ starting[a].slot \in Slots /\ starting[a].svc \in Services
      /\ starting[a].handler \in AnyHandler
  BY <1>0, StartRecord
<1> PICK i \in Slots : i = starting[a].slot
  BY <1>1
<1>2. UNCHANGED <<bit, conf>>
  BY DEF StartCreate
<1>3. Holds(a, i) /\ task[i].pc = "none" /\ conf[i] = "live"
  BY <1>0, <1>1 DEF Holds, OwnInv
<1>4. CASE Proceed(a, "free") /\ UNCHANGED task
  <2>1. /\ starting'[a] \in Starts /\ starting'[a].step = "free"
        /\ starting'[a].slot = starting[a].slot /\ starting'[a].svc = starting[a].svc
        /\ starting' \in [Apps -> {Idle} \union Starts \union Failures]
        /\ \A b \in Apps : b # a => starting'[b] = starting[b]
    BY <1>0, <1>1, <1>4, GotoStep
  <2>2. \A b \in Apps, j \in Slots : (Holds(b, j)' <=> Holds(b, j))
    <3> SUFFICES ASSUME NEW b \in Apps, NEW j \in Slots
                 PROVE  (Holds(b, j)' <=> Holds(b, j))
      OBVIOUS
    <3>1. CASE b = a
      BY <3>1, <1>0, <2>1 DEF Holds
    <3>2. CASE b # a
      BY <3>2, <2>1 DEF Holds
    <3> QED BY <3>1, <3>2
  <2>3. StateInv' /\ OwnInv'
    BY <1>0, <1>2, <1>4, <2>1, <2>2 DEF StateInv, OwnInv
  <2>4. \A b \in Apps : starting[b].step \in {"create", "free", "clear"} =>
          starting'[b].step \in {"create", "free", "clear"} /\ starting'[b].svc = starting[b].svc
    <3> TAKE b \in Apps
    <3>1. CASE b = a
      BY <3>1, <2>1
    <3>2. CASE b # a
      BY <3>2, <2>1
    <3> QED BY <3>1, <3>2
  <2>5. BitBacked'
    BY <1>0, <1>2, <1>4, <2>4 DEF BitBacked
  <2> QED BY <2>3, <2>5 DEF ServInv
<1>5. CASE /\ task' = [task EXCEPT ![i] = [pc |-> "begin", svc |-> starting[a].svc,
                                           handler |-> starting[a].handler]]
           /\ starting' = [starting EXCEPT ![a] = Idle]
  <2> DEFINE t == [pc |-> "begin", svc |-> starting[a].svc, handler |-> starting[a].handler]
  <2>1. t \in Waiting /\ t.pc = "begin" /\ t.svc = starting[a].svc
    BY <1>1 DEF Waiting, TaskPcs
  <2>2. task' = [task EXCEPT ![i] = t]
    BY <1>5
  <2> HIDE DEF t
  <2>3. task'[i] = t /\ \A j \in Slots : j # i => task'[j] = task[j]
    BY <1>0, <1>1, <2>2 DEF StateInv
  <2>4. starting'[a] = Idle /\ \A b \in Apps : b # a => starting'[b] = starting[b]
    BY <1>0, <1>5 DEF StateInv
  <2>5. StateInv'
    BY <1>0, <1>2, <1>5, <2>1, <2>2 DEF StateInv
  <2>6. /\ \A j \in Slots : ~Holds(a, j)'
        /\ \A b \in Apps, j \in Slots : b # a => (Holds(b, j)' <=> Holds(b, j))
    BY <2>4 DEF Holds, Idle
  <2>7. \A j \in Slots : Holds(a, j) => j = i
    BY DEF Holds
  <2>8. \A b \in Apps : ~Holds(b, i)'
    <3>1. \A b \in Apps : Holds(b, i) => b = a
      BY <1>0, <1>3 DEF OwnInv
    <3> QED BY <3>1, <2>6
  <2>9. OwnInv'
    <3> SUFFICES ASSUME NEW j \in Slots
                 PROVE  /\ \A b \in Apps : Holds(b, j)' => conf[j] = "live" /\ task'[j].pc = "none"
                        /\ \A b, c \in Apps : Holds(b, j)' /\ Holds(c, j)' => b = c
                        /\ task'[j].pc # "none" => conf[j] = "live"
                        /\ conf[j] = "live" =>
                             task'[j].pc # "none" \/ \E b \in Apps : Holds(b, j)'
      BY <1>2 DEF OwnInv
    <3>1. CASE j = i
      <4>1. conf[j] = "live" /\ task'[j].pc = "begin"
        BY <3>1, <1>3, <2>1, <2>3
      <4>2. \A b \in Apps : ~Holds(b, j)'
        BY <3>1, <2>8
      <4> QED BY <4>1, <4>2
    <3>2. CASE j # i
      <4>1. task'[j] = task[j]
        BY <3>2, <2>3
      <4>2. ~Holds(a, j) /\ ~Holds(a, j)'
        BY <3>2, <2>6, <2>7
      <4>3. \A b \in Apps : (Holds(b, j)' <=> Holds(b, j))
        BY <4>2, <2>6
      <4> QED BY <4>1, <4>3, <1>0 DEF OwnInv
    <3> QED BY <3>1, <3>2
  <2>10. BitBacked'
    <3> SUFFICES ASSUME NEW s \in Services, bit[s]
                 PROVE  \/ \E b \in Apps : starting'[b].step \in {"create", "free", "clear"}
                                           /\ starting'[b].svc = s
                        \/ \E j \in Slots : task'[j].pc \notin {"none", "end"}
                                            /\ task'[j].svc = s
      BY <1>2 DEF BitBacked
    <3>1. CASE s = starting[a].svc
      BY <3>1, <1>1, <2>1, <2>3
    <3>2. CASE /\ s # starting[a].svc
               /\ \E b \in Apps : starting[b].step \in {"create", "free", "clear"}
                                  /\ starting[b].svc = s
      <4>1. PICK b \in Apps : starting[b].step \in {"create", "free", "clear"}
                              /\ starting[b].svc = s
        BY <3>2
      <4>2. starting'[b] = starting[b]
        BY <3>2, <4>1, <2>4
      <4> QED BY <4>1, <4>2
    <3>3. CASE \E j \in Slots : task[j].pc \notin {"none", "end"} /\ task[j].svc = s
      <4>1. PICK j \in Slots : task[j].pc \notin {"none", "end"} /\ task[j].svc = s
        BY <3>3
      <4>2. task'[j] = task[j]
        BY <4>1, <1>3, <2>3
      <4> QED BY <4>1, <4>2
    <3> QED BY <3>1, <3>2, <3>3, <1>0 DEF BitBacked
  <2> QED BY <2>5, <2>9, <2>10 DEF ServInv
<1> QED BY <1>4, <1>5 DEF StartCreate

LEMMA FreeKeeps ==
  ASSUME ServInv, NEW a \in Apps, StartFree(a)
  PROVE  ServInv'
<1>0. StateInv /\ OwnInv /\ BitBacked /\ starting[a].step = "free"
  BY DEF ServInv, StartFree
<1>1. starting[a] \in Starts /\ starting[a].slot \in Slots
  BY <1>0, StartRecord
<1> PICK i \in Slots : i = starting[a].slot
  BY <1>1
<1>2. /\ UNCHANGED <<bit, task>> /\ conf' = [conf EXCEPT ![i] = "freed"]
      /\ Proceed(a, "clear")
  BY DEF StartFree
<1>3. /\ starting'[a] \in Starts /\ starting'[a].step = "clear" /\ starting'[a].svc = starting[a].svc
      /\ starting' \in [Apps -> {Idle} \union Starts \union Failures]
      /\ \A b \in Apps : b # a => starting'[b] = starting[b]
  BY <1>0, <1>1, <1>2, GotoStep
<1>4. Holds(a, i) /\ task[i].pc = "none"
  BY <1>0, <1>1 DEF Holds, OwnInv
<1>5. /\ \A j \in Slots : ~Holds(a, j)'
      /\ \A b \in Apps, j \in Slots : b # a => (Holds(b, j)' <=> Holds(b, j))
      /\ \A j \in Slots : Holds(a, j) => j = i
  BY <1>3 DEF Holds
<1>7. \A b \in Apps : ~Holds(b, i)'
  <2>1. \A b \in Apps : Holds(b, i) => b = a
    BY <1>0, <1>4 DEF OwnInv
  <2> QED BY <2>1, <1>5
<1>8. \A b \in Apps, j \in Slots : j # i => (Holds(b, j)' <=> Holds(b, j))
  <2> TAKE b \in Apps, j \in Slots
  <2>1. CASE b = a
    BY <2>1, <1>5
  <2>2. CASE b # a
    BY <2>2, <1>5
  <2> QED BY <2>1, <2>2
<1>9. Released(i)
  BY <1>2, <1>4, <1>7, <1>8 DEF Released
<1>10. OwnInv'
  BY <1>0, <1>9, ReleaseKeeps
<1>11. StateInv'
  BY <1>0, <1>2, <1>3 DEF StateInv
<1>12. \A b \in Apps : starting[b].step \in {"create", "free", "clear"} =>
         starting'[b].step \in {"create", "free", "clear"} /\ starting'[b].svc = starting[b].svc
  <2> TAKE b \in Apps
  <2>1. CASE b = a
    BY <2>1, <1>3
  <2>2. CASE b # a
    BY <2>2, <1>3
  <2> QED BY <2>1, <2>2
<1>13. BitBacked'
  BY <1>0, <1>2, <1>12 DEF BitBacked
<1> QED BY <1>10, <1>11, <1>13 DEF ServInv

\* A failed start and a stop clear a bit, and nothing else that concerns others.
LEMMA ClearKeeps ==
  ASSUME ServInv, NEW a \in Apps, StartClear(a)
  PROVE  ServInv'
<1>0. StateInv /\ OwnInv /\ BitBacked /\ starting[a].step = "clear"
  BY DEF ServInv, StartClear
<1>1. starting[a].svc \in Services
  BY <1>0, ClearStep
<1>2. /\ UNCHANGED <<task, conf>> /\ bit' = [bit EXCEPT ![starting[a].svc] = FALSE]
      /\ starting' = [starting EXCEPT ![a] = Idle]
  BY DEF StartClear
<1>3. starting'[a] = Idle /\ \A b \in Apps : b # a => starting'[b] = starting[b]
  BY <1>0, <1>2 DEF StateInv
<1>4. \A b \in Apps, j \in Slots : (Holds(b, j)' <=> Holds(b, j))
  <2> SUFFICES ASSUME NEW b \in Apps, NEW j \in Slots
               PROVE  (Holds(b, j)' <=> Holds(b, j))
    OBVIOUS
  <2>1. CASE b = a
    BY <2>1, <1>0, <1>3 DEF Holds, Idle
  <2>2. CASE b # a
    BY <2>2, <1>3 DEF Holds
  <2> QED BY <2>1, <2>2
<1>5. StateInv' /\ OwnInv'
  BY <1>0, <1>1, <1>2, <1>4 DEF StateInv, OwnInv
<1>6. BitBacked'
  <2> SUFFICES ASSUME NEW s \in Services, bit'[s]
               PROVE  \/ \E b \in Apps : starting'[b].step \in {"create", "free", "clear"}
                                         /\ starting'[b].svc = s
                      \/ \E j \in Slots : task[j].pc \notin {"none", "end"}
                                          /\ task[j].svc = s
    BY <1>2 DEF BitBacked
  <2>1. s # starting[a].svc /\ bit[s]
    BY <1>0, <1>2 DEF StateInv
  <2>2. CASE \E b \in Apps : starting[b].step \in {"create", "free", "clear"}
                             /\ starting[b].svc = s
    <3>1. PICK b \in Apps : starting[b].step \in {"create", "free", "clear"}
                            /\ starting[b].svc = s
      BY <2>2
    <3>2. starting'[b] = starting[b]
      BY <2>1, <3>1, <1>3
    <3> QED BY <3>1, <3>2
  <2> QED BY <2>1, <2>2, <1>0 DEF BitBacked
<1> QED BY <1>5, <1>6 DEF ServInv

LEMMA StopKeeps ==
  ASSUME ServInv, NEW a \in Apps, NEW z \in Services, Stop(a, z)
  PROVE  ServInv'
<1>0. StateInv /\ OwnInv /\ BitBacked
  BY DEF ServInv
<1>1. UNCHANGED <<starting, task, conf>> /\ bit' = [bit EXCEPT ![z] = FALSE]
  BY DEF Stop
<1>2. \A s \in Services : bit'[s] => bit[s]
  BY <1>0, <1>1 DEF StateInv
<1>3. StateInv' /\ OwnInv'
  BY <1>0, <1>1 DEF StateInv, OwnInv, Holds
<1>4. BitBacked'
  BY <1>0, <1>1, <1>2 DEF BitBacked
<1> QED BY <1>3, <1>4 DEF ServInv

\* A task that ends is not one that a bit relies on.
LEMMA EndKeeps ==
  ASSUME ServInv, NEW i \in Slots, TaskEnd(i)
  PROVE  ServInv'
<1>0. StateInv /\ OwnInv /\ BitBacked /\ task[i].pc = "end"
  BY DEF ServInv, TaskEnd, At
<1>1. /\ UNCHANGED <<bit, starting>> /\ conf' = [conf EXCEPT ![i] = "freed"]
      /\ task' = [task EXCEPT ![i] = NoTask]
  BY DEF TaskEnd
<1>2. task'[i] = NoTask /\ \A j \in Slots : j # i => task'[j] = task[j]
  BY <1>0, <1>1 DEF StateInv
<1>3. \A a \in Apps, j \in Slots : (Holds(a, j)' <=> Holds(a, j))
  BY <1>1 DEF Holds
<1>4. \A a \in Apps : ~Holds(a, i)
  BY <1>0 DEF OwnInv
<1>5. Released(i)
  BY <1>1, <1>2, <1>3, <1>4 DEF Released, NoTask
<1>6. OwnInv'
  BY <1>0, <1>5, ReleaseKeeps
<1>7. StateInv'
  BY <1>0, <1>1 DEF StateInv
<1>8. \A j \in Slots : task[j].pc \notin {"none", "end"} => task'[j] = task[j]
  BY <1>0, <1>2
<1>9. BitBacked'
  <2> SUFFICES ASSUME NEW s \in Services, bit[s],
                      ~\E a \in Apps : starting[a].step \in {"create", "free", "clear"}
                                       /\ starting[a].svc = s
               PROVE  \E j \in Slots : task'[j].pc \notin {"none", "end"}
                                       /\ task'[j].svc = s
    BY <1>1 DEF BitBacked
  <2>1. PICK j \in Slots : task[j].pc \notin {"none", "end"} /\ task[j].svc = s
    BY <1>0 DEF BitBacked
  <2> QED BY <2>1, <1>8
<1> QED BY <1>6, <1>7, <1>9 DEF ServInv

LEMMA NothingRuns ==
  ASSUME bit = [s \in Services |-> FALSE], starting = [a \in Apps |-> Idle],
         task = [i \in Slots |-> NoTask], conf = [i \in Slots |-> "none"]
  PROVE  ServInv
<1>1. StateInv
  BY DEF StateInv
<1>2. \A i \in Slots : task[i].pc = "none" /\ conf[i] = "none"
  BY DEF NoTask
<1>3. \A a \in Apps, i \in Slots : ~Holds(a, i)
  BY DEF Holds, Idle
<1>4. OwnInv
  BY <1>2, <1>3 DEF OwnInv
<1>5. BitBacked
  BY DEF BitBacked
<1> QED BY <1>1, <1>4, <1>5 DEF ServInv

\* The restart after a wild handler begins anew.
LEMMA RestartKeeps ==
  ASSUME NEW i \in Slots, WildHandler(i)
  PROVE  ServInv'
<1>1. /\ bit' = [s \in Services |-> FALSE] /\ starting' = [a \in Apps |-> Idle]
      /\ task' = [j \in Slots |-> NoTask] /\ conf' = [j \in Slots |-> "none"]
  BY DEF WildHandler
<1>2. StateInv'
  BY <1>1 DEF StateInv
<1>3. \A j \in Slots : task'[j].pc = "none" /\ conf'[j] = "none"
  BY <1>1 DEF NoTask
<1>4. \A a \in Apps, j \in Slots : ~Holds(a, j)'
  BY <1>1 DEF Holds, Idle
<1>5. OwnInv'
  BY <1>3, <1>4 DEF OwnInv
<1>6. BitBacked'
  BY <1>1 DEF BitBacked
<1> QED BY <1>2, <1>5, <1>6 DEF ServInv

LEMMA ServInit == ServiceInit => ServInv
BY NothingRuns DEF ServiceInit

LEMMA ServNext ==
  ASSUME ServInv, [ServiceNext]_serviceVars
  PROVE  ServInv'
<1>1. CASE UNCHANGED serviceVars
  BY <1>1 DEF serviceVars, ServInv, StateInv, OwnInv, Holds, BitBacked
<1>2. ASSUME NEW a \in Apps, NEW s \in Services, StartAlloc(a, s)
      PROVE  ServInv'
  BY <1>2, AllocKeeps
<1>3. ASSUME NEW a \in Apps, NEW s \in Services, Stop(a, s)
      PROVE  ServInv'
  BY <1>3, StopKeeps
<1>4. ASSUME NEW a \in Apps, AppStep(a)
      PROVE  ServInv'
  BY <1>4, SetBitKeeps, CreateKeeps, FreeKeeps, ClearKeeps DEF AppStep
<1>5. ASSUME NEW i \in Slots, TaskStep(i)
      PROVE  ServInv'
  <2>1. CASE ~WildHandler(i) /\ ~TaskEnd(i)
    BY <1>5, <2>1, TaskTurns, TurnKeeps DEF ServInv
  <2>2. CASE WildHandler(i)
    BY <2>2, RestartKeeps
  <2>3. CASE TaskEnd(i)
    BY <2>3, EndKeeps
  <2> QED BY <2>1, <2>2, <2>3
<1> QED BY <1>1, <1>2, <1>3, <1>4, <1>5 DEF ServiceNext

LEMMA OwnersCounted == ServInv => ConfOwned
<1> SUFFICES ASSUME ServInv, NEW i \in Slots
             PROVE  LET starters == {a \in Apps : starting[a].step \in {"set", "create", "free"}
                                                  /\ starting[a].slot = i}
                    IN  IF conf[i] = "live"
                        THEN Cardinality(starters) + (IF task[i].pc # "none" THEN 1 ELSE 0) = 1
                        ELSE starters = {} /\ task[i].pc = "none"
  BY DEF ConfOwned
<1> DEFINE starters == {a \in Apps : starting[a].step \in {"set", "create", "free"}
                                     /\ starting[a].slot = i}
<1>1. \A a \in Apps : a \in starters <=> Holds(a, i)
  BY DEF Holds
<1>2. starters \subseteq Apps
  OBVIOUS
<1> HIDE DEF starters
<1>3. CASE conf[i] # "live"
  BY <1>1, <1>2, <1>3 DEF ServInv, OwnInv, starters
<1>4. CASE conf[i] = "live" /\ task[i].pc # "none"
  <2>1. starters = {}
    BY <1>1, <1>2, <1>4 DEF ServInv, OwnInv
  <2>2. Cardinality(starters) = 0
    BY <2>1, FS_EmptySet
  <2> QED BY <1>4, <2>2 DEF starters
<1>5. CASE conf[i] = "live" /\ task[i].pc = "none"
  <2>1. PICK a \in Apps : Holds(a, i)
    BY <1>5 DEF ServInv, OwnInv
  <2>2. starters = {a}
    BY <1>1, <1>2, <2>1 DEF ServInv, OwnInv
  <2>3. Cardinality(starters) = 1
    BY <2>2, FS_Singleton
  <2> QED BY <1>5, <2>3 DEF starters
<1> QED BY <1>3, <1>4, <1>5

\* No configuration is used after it was freed, leaked by a failed start or shared by two
\* owners, for every number of starts and stops at once and every failure on the way.
THEOREM ConfAlwaysOwned == ServiceSpec => []ConfOwned
<1>1. ServInv => ConfOwned
  BY OwnersCounted
<1> QED BY ServInit, ServNext, <1>1, PTL DEF ServiceSpec

\* A service whose bit is set has a task that has not ended or a start under way, in
\* every order of starts that fail, stops and restarts.
THEOREM BitAlwaysBacked == ServiceSpec => []BitBacked
<1>1. ServInv => BitBacked
  BY DEF ServInv
<1> QED BY ServInit, ServNext, <1>1, PTL DEF ServiceSpec

-----------------------------------------------------------------------------
(* Recursive functions.  TLA+ defines one as CHOOSE f : f = [x \in S |-> e] *)
(* and nothing is known of it before such an f is known to exist.  It does *)
(* if e depends on f at smaller arguments only; that is proved here from   *)
(* the well-foundedness of the natural numbers.                            *)

\* Induction over the natural numbers, for a set.
LEMMA LeastOne ==
  ASSUME NEW T \in SUBSET Nat, \A n \in Nat : (\A m \in Nat : m < n => m \in T) => n \in T
  PROVE  T = Nat
<1>1. SUFFICES ASSUME Nat \ T # {} PROVE FALSE
  OBVIOUS
<1>2. IsWellFoundedOn(OpToRel(<, Nat), Nat)
  BY NatLessThanWellFounded
<1>3. PICK x \in Nat \ T : \A y \in Nat \ T : <<y, x>> \notin OpToRel(<, Nat)
  <2>1. Nat \ T \subseteq Nat
    OBVIOUS
  <2> QED BY <1>1, <1>2, <2>1, WFMin, Zenon
<1>4. \A y \in Nat \ T : ~(y < x)
  BY <1>3 DEF OpToRel
<1> QED BY <1>4

\* m gives every argument of a recursive function a height, and G its value from
\* the function's values at arguments of lower height.
Descends(D, S, m, G) ==
  /\ m \in [D -> Nat] /\ G \in [D \X [D -> S] -> S]
  /\ \A d \in D, f, g \in [D -> S] :
       (\A e \in D : m[e] < m[d] => f[e] = g[e]) => G[<<d, f>>] = G[<<d, g>>]

\* f is the function as far as the height n.
UpToHeight(D, S, m, G, f, n) ==
  f \in [D -> S] /\ \A d \in D : m[d] < n => f[d] = G[<<d, f>>]

\* Up to a height there is one such function at most, and one at least.
LEMMA HeightsAgree ==
  ASSUME NEW D, NEW S, NEW m, NEW G, Descends(D, S, m, G),
         NEW n \in Nat, NEW f, NEW g,
         UpToHeight(D, S, m, G, f, n), UpToHeight(D, S, m, G, g, n)
  PROVE  \A d \in D : m[d] < n => f[d] = g[d]
<1> DEFINE T == {k \in Nat : \A d \in D : m[d] = k /\ k < n => f[d] = g[d]}
<1>1. ASSUME NEW k \in Nat, \A j \in Nat : j < k => j \in T
      PROVE  k \in T
  <2>1. SUFFICES ASSUME NEW d \in D, m[d] = k, k < n PROVE f[d] = g[d]
    OBVIOUS
  <2>2. f \in [D -> S] /\ g \in [D -> S]
    BY DEF UpToHeight
  <2>3. \A e \in D : m[e] \in Nat
    BY DEF Descends
  <2>4. \A e \in D : m[e] < m[d] => f[e] = g[e]
    BY <1>1, <2>1, <2>3
  <2>5. G[<<d, f>>] = G[<<d, g>>]
    BY <2>2, <2>4 DEF Descends
  <2> QED BY <2>1, <2>5 DEF UpToHeight
<1>2. T = Nat
  <2>1. T \in SUBSET Nat
    OBVIOUS
  <2> HIDE DEF T
  <2> QED BY <1>1, <2>1, LeastOne
<1> QED BY <1>2 DEF Descends

LEMMA EveryHeight ==
  ASSUME NEW D, NEW S, S # {}, NEW m, NEW G, Descends(D, S, m, G), NEW n \in Nat
  PROVE  \E f : UpToHeight(D, S, m, G, f, n)
<1> DEFINE T == {k \in Nat : \E f : UpToHeight(D, S, m, G, f, k)}
<1>1. ASSUME NEW k \in Nat, \A j \in Nat : j < k => j \in T
      PROVE  k \in T
  <2>1. CASE k = 0
    <3>1. PICK x \in S : TRUE
      OBVIOUS
    <3>2. PICK f : f = [d \in D |-> x]
      OBVIOUS
    <3>3. UpToHeight(D, S, m, G, f, k)
      BY <2>1, <3>2 DEF UpToHeight, Descends
    <3> QED BY <3>3
  <2>2. CASE k # 0
    <3>1. k - 1 \in Nat /\ k - 1 < k
      BY <2>2
    <3>2. PICK f : UpToHeight(D, S, m, G, f, k - 1)
      BY <1>1, <3>1
    <3>3. PICK g : g = [d \in D |-> G[<<d, f>>]]
      OBVIOUS
    <3>4. f \in [D -> S] /\ g \in [D -> S]
      BY <3>2, <3>3 DEF UpToHeight, Descends
    <3>5. ASSUME NEW d \in D, m[d] < k PROVE g[d] = G[<<d, g>>]
      <4>1. \A e \in D : m[e] \in Nat
        BY DEF Descends
      <4>2. \A e \in D : m[e] < m[d] => f[e] = g[e]
        BY <3>2, <3>3, <3>5, <4>1 DEF UpToHeight
      <4>3. G[<<d, f>>] = G[<<d, g>>]
        BY <3>4, <4>2 DEF Descends
      <4> QED BY <3>3, <4>3
    <3>6. UpToHeight(D, S, m, G, g, k)
      BY <3>4, <3>5 DEF UpToHeight
    <3> QED BY <3>6
  <2> QED BY <2>1, <2>2
<1>2. T = Nat
  <2>1. T \in SUBSET Nat
    OBVIOUS
  <2> HIDE DEF T
  <2> QED BY <1>1, <2>1, LeastOne
<1> QED BY <1>2

\* f is the function that G gives its values.
Solves(D, S, G, f) == f \in [D -> S] /\ \A d \in D : f[d] = G[<<d, f>>]

\* A function whose recursion descends exists.
LEMMA RecursionExists ==
  ASSUME NEW D, NEW S, S # {}, NEW m, NEW G, Descends(D, S, m, G)
  PROVE  \E f : Solves(D, S, G, f)
<1> DEFINE Part(d) == CHOOSE f : UpToHeight(D, S, m, G, f, m[d] + 1)
<1>1. \A d \in D : m[d] \in Nat /\ m[d] + 1 \in Nat
  BY DEF Descends
<1>2. \A d \in D : UpToHeight(D, S, m, G, Part(d), m[d] + 1)
  BY <1>1, EveryHeight
<1> HIDE DEF Part
<1>3. PICK f : f = [d \in D |-> Part(d)[d]]
  OBVIOUS
<1>4. \A d \in D : Part(d) \in [D -> S]
  BY <1>2 DEF UpToHeight
<1>5. f \in [D -> S]
  BY <1>3, <1>4
<1>6. ASSUME NEW d \in D PROVE f[d] = G[<<d, f>>]
  <2>1. ASSUME NEW e \in D, m[e] < m[d] PROVE f[e] = Part(d)[e]
    <3>1. UpToHeight(D, S, m, G, Part(d), m[e] + 1)
      <4>1. m[d] \in Nat /\ m[e] \in Nat /\ \A x \in D : m[x] \in Nat
        BY <1>1
      <4>2. \A x \in D : m[x] < m[e] + 1 => m[x] < m[d] + 1
        BY <2>1, <4>1
      <4> QED BY <1>2, <4>2 DEF UpToHeight
    <3>2. m[e] < m[e] + 1
      BY <1>1
    <3>3. Part(e)[e] = Part(d)[e]
      BY <1>1, <1>2, <3>1, <3>2, HeightsAgree
    <3> QED BY <1>3, <3>3
  <2>2. G[<<d, f>>] = G[<<d, Part(d)>>]
    BY <1>4, <1>5, <2>1 DEF Descends
  <2>3. m[d] < m[d] + 1
    BY <1>1
  <2>4. Part(d)[d] = G[<<d, Part(d)>>]
    BY <1>2, <2>3 DEF UpToHeight
  <2> QED BY <1>3, <2>2, <2>4
<1>7. Solves(D, S, G, f)
  BY <1>5, <1>6 DEF Solves
<1> QED BY <1>7

\* A recursion over offsets that goes on only to higher ones, and only below n.
GoesAhead(S, n, G) ==
  /\ G \in [Nat \X [Nat -> S] -> S]
  /\ \A d \in Nat, f, g \in [Nat -> S] :
       (d < n => \A e \in Nat : d < e => f[e] = g[e]) => G[<<d, f>>] = G[<<d, g>>]

\* It has a solution: the height of an offset is its distance from n.
LEMMA OffsetRecursion ==
  ASSUME NEW S, S # {}, NEW n \in Nat, NEW G, GoesAhead(S, n, G)
  PROVE  \E f : Solves(Nat, S, G, f)
<1>1. PICK m : m = [i \in Nat |-> IF i < n THEN n - i ELSE 0]
  OBVIOUS
<1>2. m \in [Nat -> Nat]
  BY <1>1
<1>3. ASSUME NEW d \in Nat, NEW f \in [Nat -> S], NEW g \in [Nat -> S],
             \A e \in Nat : m[e] < m[d] => f[e] = g[e]
      PROVE  G[<<d, f>>] = G[<<d, g>>]
  <2>1. ASSUME d < n, NEW e \in Nat, d < e PROVE f[e] = g[e]
    <3>1. m[d] = n - d /\ m[e] = IF e < n THEN n - e ELSE 0
      BY <1>1, <2>1
    <3>2. m[e] < m[d]
      BY <2>1, <3>1
    <3> QED BY <3>2, <1>3
  <2> QED BY <2>1 DEF GoesAhead
<1>4. Descends(Nat, S, m, G)
  BY <1>2, <1>3 DEF Descends, GoesAhead
<1> QED BY <1>4, RecursionExists, Zenon

-----------------------------------------------------------------------------
(* The names.  Letters without case and dots, the labels of a query and    *)
(* the walk over them, each with the equations that its recursion gives.   *)

\* The case of a character tells neither the end nor a dot.
LEMMA LowerFacts ==
  /\ \A c \in Nat : tolower(c) \in Nat
  /\ \A c \in Nat : tolower(c) = 0 <=> c = 0
  /\ \A c \in Nat : tolower(c) = DOT <=> c = DOT
BY DEF tolower, DOT

\* What the character at i contributes to NoDots.
LetterAt(s, i) == IF s[i + 1] = DOT THEN <<>> ELSE <<tolower(s[i + 1])>>

\* The characters from an offset on, without case and dots: the recursion of NoDots.
LettersOf(s) ==
  CHOOSE letters : letters =
    [i \in Nat |-> IF i >= Len(s) THEN <<>> ELSE LetterAt(s, i) \o letters[i + 1]]

LEMMA NoDotsIsLetters ==
  ASSUME NEW s
  PROVE  NoDots(s) = LettersOf(s)[0]
BY DEF NoDots, LettersOf, LetterAt

LEMMA LettersUnfold ==
  ASSUME NEW s \in Seq(Nat)
  PROVE  \A i \in Nat : /\ i >= Len(s) => LettersOf(s)[i] = <<>>
                        /\ i < Len(s) => LettersOf(s)[i] = LetterAt(s, i) \o LettersOf(s)[i + 1]
<1>1. PICK n \in Nat : n = Len(s)
  OBVIOUS
<1>2. PICK S : S = Seq(Nat)
  OBVIOUS
<1>3. \A i \in Nat : i < n => LetterAt(s, i) \in S
  <2> TAKE i \in Nat
  <2> HAVE i < n
  <2>1. s[i + 1] \in Nat
    BY <1>1
  <2>2. tolower(s[i + 1]) \in Nat
    BY <2>1, LowerFacts
  <2> QED BY <1>2, <2>2 DEF LetterAt
<1>4. PICK G : G = [x \in Nat \X [Nat -> S] |->
                      IF x[1] >= n THEN <<>> ELSE LetterAt(s, x[1]) \o x[2][x[1] + 1]]
  OBVIOUS
<1>5. \A i \in Nat, f \in [Nat -> S] :
        G[<<i, f>>] = IF i >= n THEN <<>> ELSE LetterAt(s, i) \o f[i + 1]
  BY <1>4
<1>6. G \in [Nat \X [Nat -> S] -> S]
  <2>1. ASSUME NEW i \in Nat, NEW f \in [Nat -> S]
        PROVE  (IF i >= n THEN <<>> ELSE LetterAt(s, i) \o f[i + 1]) \in S
    <3>1. CASE i >= n
      BY <1>2, <3>1
    <3>2. CASE i < n
      <4>1. LetterAt(s, i) \in S /\ f[i + 1] \in S
        BY <1>3, <3>2
      <4> QED BY <1>2, <4>1, <3>2
    <3> QED BY <1>1, <3>1, <3>2
  <2> QED BY <1>4, <2>1
<1>7. ASSUME NEW d \in Nat, NEW f \in [Nat -> S], NEW g \in [Nat -> S],
             d < n => \A e \in Nat : d < e => f[e] = g[e]
      PROVE  G[<<d, f>>] = G[<<d, g>>]
  <2>1. CASE d >= n
    BY <2>1, <1>5
  <2>2. CASE d < n
    <3>1. f[d + 1] = g[d + 1]
      BY <2>2, <1>7
    <3> QED BY <3>1, <1>5
  <2> QED BY <2>1, <2>2
<1>8. PICK f : Solves(Nat, S, G, f)
  <2>1. S # {}
    BY <1>2
  <2>2. GoesAhead(S, n, G)
    BY <1>6, <1>7 DEF GoesAhead
  <2> QED BY <1>1, <2>1, <2>2, OffsetRecursion, Zenon
<1>9. f = [i \in Nat |-> IF i >= Len(s) THEN <<>> ELSE LetterAt(s, i) \o f[i + 1]]
  BY <1>1, <1>5, <1>8 DEF Solves
<1>10. LettersOf(s) =
         [i \in Nat |-> IF i >= Len(s) THEN <<>> ELSE LetterAt(s, i) \o LettersOf(s)[i + 1]]
  BY <1>9, Zenon DEF LettersOf
<1>11. \A i \in Nat : LettersOf(s)[i] =
         IF i >= Len(s) THEN <<>> ELSE LetterAt(s, i) \o LettersOf(s)[i + 1]
  <2>1. PICK l : l = LettersOf(s)
    OBVIOUS
  <2>2. l = [i \in Nat |-> IF i >= Len(s) THEN <<>> ELSE LetterAt(s, i) \o l[i + 1]]
    BY <1>10, <2>1
  <2> QED BY <2>1, <2>2
<1>12. \A i \in Nat : i < Len(s) => ~(i >= Len(s))
  BY <1>1
<1> QED BY <1>11, <1>12, Zenon

LEMMA LettersType ==
  ASSUME NEW s \in Seq(Nat)
  PROVE  \A i \in Nat : LettersOf(s)[i] \in Seq(Nat)
<1>1. PICK n \in Nat : n = Len(s)
  OBVIOUS
<1>2. PICK l : l = LettersOf(s)
  OBVIOUS
<1> DEFINE T == {k \in Nat : \A i \in Nat : n <= i + k => l[i] \in Seq(Nat)}
<1>3. ASSUME NEW k \in Nat, \A j \in Nat : j < k => j \in T
      PROVE  k \in T
  <2>1. SUFFICES ASSUME NEW i \in Nat, n <= i + k PROVE l[i] \in Seq(Nat)
    OBVIOUS
  <2>2. CASE i >= n
    <3>1. l[i] = <<>>
      BY <1>1, <1>2, <2>2, LettersUnfold
    <3> QED BY <3>1
  <2>3. CASE i < n
    <3>1. k - 1 \in Nat /\ k - 1 < k /\ n <= (i + 1) + (k - 1)
      BY <2>1, <2>3
    <3>2. l[i + 1] \in Seq(Nat)
      BY <1>3, <3>1
    <3>3. s[i + 1] \in Nat
      BY <1>1, <2>3
    <3>4. tolower(s[i + 1]) \in Nat
      BY <3>3, LowerFacts
    <3>5. LetterAt(s, i) \in Seq(Nat)
      BY <3>4 DEF LetterAt
    <3>6. l[i] = LetterAt(s, i) \o l[i + 1]
      BY <1>1, <1>2, <2>3, LettersUnfold
    <3>7. LetterAt(s, i) \o l[i + 1] \in Seq(Nat)
      BY <3>2, <3>5
    <3> QED BY <3>6, <3>7
  <2> QED BY <2>2, <2>3
<1>4. T = Nat
  <2>1. T \in SUBSET Nat
    OBVIOUS
  <2> HIDE DEF T
  <2> QED BY <1>3, <2>1, LeastOne
<1>5. n \in T
  BY <1>4
<1> QED BY <1>2, <1>5

\* Two characters that differ in case at most contribute the same.
LEMMA SameLetter ==
  ASSUME NEW s \in Seq(Nat), NEW t \in Seq(Nat), NEW i \in Nat, NEW j \in Nat,
         i < Len(s), j < Len(t), tolower(s[i + 1]) = tolower(t[j + 1])
  PROVE  LetterAt(s, i) = LetterAt(t, j)
<1>1. s[i + 1] \in Nat /\ t[j + 1] \in Nat
  <2>1. i + 1 \in 1 .. Len(s) /\ j + 1 \in 1 .. Len(t)
    OBVIOUS
  <2>2. \A k \in 1 .. Len(s) : s[k] \in Nat
    OBVIOUS
  <2>3. \A k \in 1 .. Len(t) : t[k] \in Nat
    OBVIOUS
  <2> QED BY <2>1, <2>2, <2>3
<1>2. s[i + 1] = DOT <=> t[j + 1] = DOT
  BY <1>1, LowerFacts
<1> QED BY <1>2 DEF LetterAt

\* The n characters of s behind i are those of t behind j, in any case.
Agree(s, i, t, j, n) ==
  /\ i + n <= Len(s) /\ j + n <= Len(t)
  /\ \A k \in 0 .. n - 1 : tolower(s[i + k + 1]) = tolower(t[j + k + 1])

\* Two texts that agree on n characters and then have the same letters, have the
\* same letters.
LEMMA LettersShift ==
  ASSUME NEW s \in Seq(Nat), NEW t \in Seq(Nat), NEW i \in Nat, NEW j \in Nat, NEW n \in Nat,
         Agree(s, i, t, j, n),
         LettersOf(s)[i + n] = LettersOf(t)[j + n]
  PROVE  LettersOf(s)[i] = LettersOf(t)[j]
<1> DEFINE T == {k \in Nat : k <= n => LettersOf(s)[i + n - k] = LettersOf(t)[j + n - k]}
<1>1. ASSUME NEW k \in Nat, \A l \in Nat : l < k => l \in T
      PROVE  k \in T
  <2>1. CASE k = 0
    <3>1. i + n - 0 = i + n /\ j + n - 0 = j + n
      OBVIOUS
    <3> QED BY <2>1, <3>1
  <2>2. CASE k > n
    BY <2>2
  <2>3. CASE k # 0 /\ k <= n
    <3>1. PICK x \in Nat, y \in Nat : x = i + n - k /\ y = j + n - k
      BY <2>3
    <3>2. k - 1 \in Nat /\ k - 1 < k /\ k - 1 <= n
      BY <2>3
    <3>3. LettersOf(s)[i + n - (k - 1)] = LettersOf(t)[j + n - (k - 1)]
      BY <1>1, <3>2
    <3>4. i + n - (k - 1) = x + 1 /\ j + n - (k - 1) = y + 1
      BY <3>1
    <3>5. LettersOf(s)[x + 1] = LettersOf(t)[y + 1]
      BY <3>3, <3>4
    <3>6. x < Len(s) /\ y < Len(t)
      BY <2>3, <3>1 DEF Agree
    <3>7. tolower(s[x + 1]) = tolower(t[y + 1])
      <4>1. n - k \in 0 .. n - 1 /\ i + (n - k) + 1 = x + 1 /\ j + (n - k) + 1 = y + 1
        BY <2>3, <3>1
      <4> QED BY <4>1 DEF Agree
    <3>8. LetterAt(s, x) = LetterAt(t, y)
      BY <3>6, <3>7, SameLetter
    <3>9. /\ LettersOf(s)[x] = LetterAt(s, x) \o LettersOf(s)[x + 1]
          /\ LettersOf(t)[y] = LetterAt(t, y) \o LettersOf(t)[y + 1]
      BY <3>6, LettersUnfold
    <3>10. LettersOf(s)[x] = LettersOf(t)[y]
      BY <3>5, <3>8, <3>9
    <3> QED BY <3>1, <3>10
  <2> QED BY <2>1, <2>2, <2>3
<1>2. T = Nat
  <2>1. T \in SUBSET Nat
    OBVIOUS
  <2> HIDE DEF T
  <2> QED BY <1>1, <2>1, LeastOne
<1>3. LettersOf(s)[i + n - n] = LettersOf(t)[j + n - n]
  <2>1. n \in T
    BY <1>2
  <2> QED BY <2>1
<1>4. i + n - n = i /\ j + n - n = j
  OBVIOUS
<1> QED BY <1>3, <1>4

\* The labels of a name from an offset on.
NamesOf(q) ==
  CHOOSE name : name =
    [o \in Nat |->
       IF o >= Len(q) \/ q[o + 1] = 0 THEN <<>>
       ELSE LET tail == name[o + 1 + q[o + 1]]
            IN  Label(q, o) \o (IF tail = <<>> THEN <<>> ELSE <<DOT>> \o tail)]

LEMMA NameInIsNames ==
  ASSUME NEW q
  PROVE  NameIn(q) = NamesOf(q)[0]
BY DEF NameIn, NamesOf

\* At o there is no further label; the labels behind a label, with a dot before them.
NameEnds(q, o) == o >= Len(q) \/ q[o + 1] = 0
Dotted(tail) == IF tail = <<>> THEN <<>> ELSE <<DOT>> \o tail

\* A label has the characters its length byte announces, unless the query cuts it off.
LEMMA LabelFacts ==
  ASSUME NEW q \in Seq(Nat), NEW o \in Nat, o < Len(q)
  PROVE  /\ Label(q, o) \in Seq(Nat)
         /\ o + 1 + q[o + 1] <= Len(q) => Len(Label(q, o)) = q[o + 1]
         /\ o + 1 + q[o + 1] > Len(q) => Len(Label(q, o)) = Len(q) - o - 1
         /\ \A k \in 1 .. Len(Label(q, o)) : Label(q, o)[k] = q[o + 1 + k]
<1>1. PICK n \in Nat : n = Len(q)
  OBVIOUS
<1>2. PICK z \in Nat : z = q[o + 1]
  BY <1>1
<1>3. PICK e \in Nat : e = IF o + 1 + z <= n THEN o + 1 + z ELSE n
  BY <1>2
<1>4. Label(q, o) = SubSeq(q, o + 2, e)
  BY <1>1, <1>2, <1>3 DEF Label
<1>5. e >= o + 1 /\ e <= n
  BY <1>1, <1>2, <1>3
<1>6. /\ SubSeq(q, o + 2, e) \in Seq(Nat) /\ Len(SubSeq(q, o + 2, e)) = e - o - 1
      /\ \A k \in 1 .. e - o - 1 : SubSeq(q, o + 2, e)[k] = q[o + 1 + k]
  <2>1. PICK a \in Nat : a = o + 2
    OBVIOUS
  <2>2. /\ SubSeq(q, a, e) \in Seq(Nat)
        /\ Len(SubSeq(q, a, e)) = IF a <= e THEN e - a + 1 ELSE 0
        /\ \A k \in 1 .. e - a + 1 : SubSeq(q, a, e)[k] = q[a + k - 1]
    <3>1. \A i \in a .. e : q[i] \in Nat
      BY <1>1, <1>5, <2>1
    <3> QED BY <2>1, <3>1, SubSeqProperties, SMTT(30)
  <2>3. (IF a <= e THEN e - a + 1 ELSE 0) = e - o - 1 /\ e - a + 1 = e - o - 1
    BY <1>5, <2>1
  <2>4. \A k \in 1 .. e - o - 1 : a + k - 1 = o + 1 + k
    BY <2>1
  <2> QED BY <2>1, <2>2, <2>3, <2>4
<1>7. /\ o + 1 + z <= n => e - o - 1 = z
      /\ o + 1 + z > n => e - o - 1 = n - o - 1
  BY <1>3
<1>8. PICK l : l = Label(q, o)
  OBVIOUS
<1>9. /\ l \in Seq(Nat) /\ Len(l) = e - o - 1
      /\ \A k \in 1 .. Len(l) : l[k] = q[o + 1 + k]
  BY <1>4, <1>6, <1>8
<1> QED BY <1>1, <1>2, <1>7, <1>8, <1>9

\* What stands behind a label.
LEMMA DottedIsSeq ==
  ASSUME NEW tail \in Seq(Nat)
  PROVE  /\ Dotted(tail) \in Seq(Nat)
         /\ tail # <<>> => /\ Len(Dotted(tail)) = 1 + Len(tail) /\ Dotted(tail)[1] = DOT
                           /\ \A k \in 1 .. Len(tail) : Dotted(tail)[1 + k] = tail[k]
<1>1. CASE tail = <<>>
  BY <1>1 DEF Dotted
<1>2. CASE tail # <<>>
  <2>1. <<DOT>> \in Seq(Nat) /\ Len(<<DOT>>) = 1 /\ <<DOT>>[1] = DOT
    BY DEF DOT
  <2>2. PICK d : d = <<DOT>>
    OBVIOUS
  <2>3. PICK n \in Nat : n = Len(tail)
    OBVIOUS
  <2>4. /\ d \o tail \in Seq(Nat) /\ Len(d \o tail) = 1 + n
        /\ \A i \in 1 .. 1 + n : (d \o tail)[i] = IF i <= 1 THEN d[i] ELSE tail[i - 1]
    BY <2>1, <2>2, <2>3, ConcatProperties
  <2>5. (d \o tail)[1] = DOT /\ \A k \in 1 .. n : (d \o tail)[1 + k] = tail[k]
    <3>1. /\ 1 \in 1 .. 1 + n
          /\ \A k \in 1 .. n : 1 + k \in 1 .. 1 + n /\ ~(1 + k <= 1) /\ 1 + k - 1 = k
      OBVIOUS
    <3> QED BY <2>1, <2>2, <2>4, <3>1
  <2>6. Dotted(tail) = d \o tail
    BY <1>2, <2>2 DEF Dotted
  <2> QED BY <2>3, <2>4, <2>5, <2>6
<1> QED BY <1>1, <1>2

\* The labels from an offset on: none at the end, else one and those behind it.
LEMMA NamesUnfold ==
  ASSUME NEW q \in Seq(Nat)
  PROVE  \A o \in Nat :
           /\ NamesOf(q)[o] \in Seq(Nat)
           /\ NameEnds(q, o) => NamesOf(q)[o] = <<>>
           /\ ~NameEnds(q, o) =>
                NamesOf(q)[o] = Label(q, o) \o Dotted(NamesOf(q)[o + 1 + q[o + 1]])
<1>1. PICK n \in Nat : n = Len(q)
  OBVIOUS
<1>2. PICK S : S = Seq(Nat)
  OBVIOUS
<1>3. \A o \in Nat : ~NameEnds(q, o) => Label(q, o) \in S /\ o + 1 + q[o + 1] \in Nat /\ o < n
                                        /\ o + 1 + q[o + 1] > o
  <2> TAKE o \in Nat
  <2> HAVE ~NameEnds(q, o)
  <2>1. o < n
    BY <1>1 DEF NameEnds
  <2>2. q[o + 1] \in Nat
    BY <1>1, <2>1
  <2> QED BY <1>1, <1>2, <2>1, <2>2, LabelFacts
<1>4. PICK G : G = [x \in Nat \X [Nat -> S] |->
                      IF NameEnds(q, x[1]) THEN <<>>
                      ELSE Label(q, x[1]) \o Dotted(x[2][x[1] + 1 + q[x[1] + 1]])]
  OBVIOUS
<1>5. \A o \in Nat, f \in [Nat -> S] :
        G[<<o, f>>] = IF NameEnds(q, o) THEN <<>>
                      ELSE Label(q, o) \o Dotted(f[o + 1 + q[o + 1]])
  BY <1>4
<1>6. G \in [Nat \X [Nat -> S] -> S]
  <2>1. ASSUME NEW o \in Nat, NEW f \in [Nat -> S]
        PROVE  (IF NameEnds(q, o) THEN <<>>
                ELSE Label(q, o) \o Dotted(f[o + 1 + q[o + 1]])) \in S
    <3>1. CASE NameEnds(q, o)
      BY <1>2, <3>1
    <3>2. CASE ~NameEnds(q, o)
      <4>1. Label(q, o) \in Seq(Nat) /\ f[o + 1 + q[o + 1]] \in Seq(Nat)
        BY <1>2, <1>3, <3>2
      <4>2. Dotted(f[o + 1 + q[o + 1]]) \in Seq(Nat)
        BY <4>1, DottedIsSeq
      <4>3. Label(q, o) \o Dotted(f[o + 1 + q[o + 1]]) \in Seq(Nat)
        BY <4>1, <4>2
      <4> QED BY <1>2, <4>3, <3>2
    <3> QED BY <3>1, <3>2
  <2> QED BY <1>4, <2>1
<1>7. ASSUME NEW d \in Nat, NEW f \in [Nat -> S], NEW g \in [Nat -> S],
             d < n => \A e \in Nat : d < e => f[e] = g[e]
      PROVE  G[<<d, f>>] = G[<<d, g>>]
  <2>1. CASE NameEnds(q, d)
    BY <2>1, <1>5
  <2>2. CASE ~NameEnds(q, d)
    <3>1. f[d + 1 + q[d + 1]] = g[d + 1 + q[d + 1]]
      <4>1. d + 1 + q[d + 1] \in Nat /\ d < n /\ d < d + 1 + q[d + 1]
        BY <2>2, <1>3
      <4> QED BY <4>1, <1>7
    <3> QED BY <3>1, <1>5
  <2> QED BY <2>1, <2>2
<1>8. PICK f : Solves(Nat, S, G, f)
  <2>1. S # {}
    BY <1>2
  <2>2. GoesAhead(S, n, G)
    BY <1>6, <1>7 DEF GoesAhead
  <2> QED BY <1>1, <2>1, <2>2, OffsetRecursion, Zenon
<1>9. f = [o \in Nat |-> IF NameEnds(q, o) THEN <<>>
                         ELSE Label(q, o) \o Dotted(f[o + 1 + q[o + 1]])]
  BY <1>5, <1>8 DEF Solves
<1>10. NamesOf(q) = [o \in Nat |-> IF NameEnds(q, o) THEN <<>>
                         ELSE Label(q, o) \o Dotted(NamesOf(q)[o + 1 + q[o + 1]])]
  BY <1>9, Zenon DEF NamesOf, NameEnds, Dotted
<1>11. PICK l : l = NamesOf(q)
  OBVIOUS
<1>12. \A o \in Nat : l[o] = IF NameEnds(q, o) THEN <<>>
                             ELSE Label(q, o) \o Dotted(l[o + 1 + q[o + 1]])
  <2>1. l = [o \in Nat |-> IF NameEnds(q, o) THEN <<>>
                           ELSE Label(q, o) \o Dotted(l[o + 1 + q[o + 1]])]
    BY <1>10, <1>11
  <2> QED BY <2>1
<1>13. \A o \in Nat : l[o] \in Seq(Nat)
  <2> DEFINE T == {k \in Nat : \A o \in Nat : n <= o + k => l[o] \in Seq(Nat)}
  <2>1. ASSUME NEW k \in Nat, \A j \in Nat : j < k => j \in T
        PROVE  k \in T
    <3>1. SUFFICES ASSUME NEW o \in Nat, n <= o + k PROVE l[o] \in Seq(Nat)
      OBVIOUS
    <3>2. CASE NameEnds(q, o)
      <4>1. l[o] = <<>>
        BY <3>2, <1>12
      <4> QED BY <4>1
    <3>3. CASE ~NameEnds(q, o)
      <4>1. PICK e \in Nat : e = o + 1 + q[o + 1] /\ e > o /\ o < n
        BY <1>3, <3>3
      <4>2. k - 1 \in Nat /\ k - 1 < k /\ n <= e + (k - 1)
        BY <3>1, <4>1
      <4>3. l[e] \in Seq(Nat)
        BY <2>1, <4>2
      <4>4. Dotted(l[e]) \in Seq(Nat) /\ Label(q, o) \in Seq(Nat)
        BY <4>3, <1>2, <1>3, <3>3, DottedIsSeq
      <4>5. Label(q, o) \o Dotted(l[e]) \in Seq(Nat)
        BY <4>4
      <4>6. l[o] = Label(q, o) \o Dotted(l[e])
        BY <1>12, <3>3, <4>1
      <4> QED BY <4>5, <4>6
    <3> QED BY <3>2, <3>3
  <2>2. T = Nat
    <3>1. T \in SUBSET Nat
      OBVIOUS
    <3> HIDE DEF T
    <3> QED BY <2>1, <3>1, LeastOne
  <2>3. n \in T
    BY <2>2
  <2> QED BY <2>3
<1> QED BY <1>11, <1>12, <1>13, Zenon

\* The walk of dns_hostname_match.
WalksOf(b, len, beyond) ==
  CHOOSE walk : walk =
    [p \in Nat \X Nat |->
       LET n == b[p[1] + 1]
       IN  IF p[1] < len /\ n # 0 /\ p[2] < Len(Hostname)
           THEN /\ LabelFits(b, len, p[1], n, p[2])
                /\ walk[<<p[1] + 1 + n, PassDot(p[2] + n)>>]
           ELSE ByteAt(b, p[1], beyond) = 0 /\ p[2] = Len(Hostname)]

LEMMA MatchIsWalk ==
  ASSUME NEW b, NEW len, NEW beyond
  PROVE  dns_hostname_match(b, len, beyond) = WalksOf(b, len, beyond)[<<0, 0>>]
BY DEF dns_hostname_match, WalksOf

\* Another label is compared; nothing is left of the query nor of the host name.
GoesOn(b, len, o, h) == o < len /\ b[o + 1] # 0 /\ h < Len(Hostname)
Over(b, o, h, beyond) == ByteAt(b, o, beyond) = 0 /\ h = Len(Hostname)

\* What a sequence is, and what makes one.
LEMMA SeqOf ==
  ASSUME NEW S, NEW s \in Seq(S)
  PROVE  /\ Len(s) \in Nat /\ s = [k \in 1 .. Len(s) |-> s[k]]
         /\ \A k \in 1 .. Len(s) : s[k] \in S
OBVIOUS

LEMMA NatSeq ==
  ASSUME NEW s, NEW n \in Nat, s = [k \in 1 .. n |-> s[k]], \A k \in 1 .. n : s[k] \in Nat
  PROVE  s \in Seq(Nat) /\ Len(s) = n
OBVIOUS

\* The host name, its characters and its end, as the walk sees them.
LEMMA HostFacts ==
  /\ Hostname \in Seq(Nat) /\ Len(Hostname) \in Nat
  /\ \A k \in 1 .. Len(Hostname) : Hostname[k] \in Nat /\ Hostname[k] # 0
  /\ \A h \in Nat : /\ h < Len(Hostname) => HostChar(h) = Hostname[h + 1]
                    /\ h >= Len(Hostname) => HostChar(h) = 0 /\ PassDot(h) = h
                    /\ HostChar(h) \in Nat
                    /\ PassDot(h) \in {h, h + 1}
                    /\ PassDot(h) = h + 1 <=> h < Len(Hostname) /\ Hostname[h + 1] = DOT
<1>1. PICK C : Hostname \in Seq(C) /\ \A c \in C : c \in Nat /\ c # 0
  <2>1. \A c \in 1 .. 255 : c \in Nat /\ c # 0
    OBVIOUS
  <2> QED BY <2>1, NameAssumption
<1>2. /\ Len(Hostname) \in Nat /\ Hostname = [k \in 1 .. Len(Hostname) |-> Hostname[k]]
      /\ \A k \in 1 .. Len(Hostname) : Hostname[k] \in C
  BY <1>1, SeqOf, Zenon
<1>3. Hostname \in Seq(Nat)
  <2>1. \A k \in 1 .. Len(Hostname) : Hostname[k] \in Nat
    BY <1>1, <1>2, Zenon
  <2> QED BY <1>2, <2>1, NatSeq, Zenon
<1>4. \A k \in 1 .. Len(Hostname) : Hostname[k] \in Nat /\ Hostname[k] # 0
  BY <1>1, <1>2, Zenon
<1>5. PICK n \in Nat : n = Len(Hostname)
  BY <1>2
<1>6. ASSUME NEW h \in Nat
      PROVE  /\ h < Len(Hostname) => HostChar(h) = Hostname[h + 1]
             /\ h >= Len(Hostname) => HostChar(h) = 0 /\ PassDot(h) = h
             /\ HostChar(h) \in Nat
             /\ PassDot(h) \in {h, h + 1}
             /\ PassDot(h) = h + 1 <=> h < Len(Hostname) /\ Hostname[h + 1] = DOT
  <2>1. CASE h < n
    <3>1. h + 1 \in 1 .. n
      BY <2>1
    <3> QED BY <2>1, <3>1, <1>4, <1>5 DEF HostChar, PassDot, DOT
  <2>2. CASE h >= n
    <3>1. HostChar(h) = 0
      BY <2>2, <1>5 DEF HostChar
    <3>2. PassDot(h) = h
      BY <3>1 DEF PassDot, DOT
    <3> QED BY <2>2, <3>1, <3>2, <1>5
  <2> QED BY <2>1, <2>2
<1> QED BY <1>2, <1>3, <1>4, <1>6

\* The buffer of a task, and a number of bytes in it.
BufferOf(b, len) ==
  /\ len \in Nat /\ len <= QUERY_SIZE /\ b = [k \in 1 .. QUERY_SIZE |-> b[k]]
  /\ \A k \in 1 .. QUERY_SIZE : b[k] \in Nat

\* The buffer and the query in it as sequences.
LEMMA BufferFacts ==
  ASSUME NEW b, NEW len, BufferOf(b, len)
  PROVE  /\ b \in Seq(Nat) /\ Len(b) = QUERY_SIZE /\ len \in Nat /\ len <= Len(b)
         /\ \A o \in Nat : o < len => b[o + 1] \in Nat
         /\ SubSeq(b, 1, len) \in Seq(Nat) /\ Len(SubSeq(b, 1, len)) = len
         /\ \A k \in 1 .. len : SubSeq(b, 1, len)[k] = b[k]
<1>1. QUERY_SIZE \in Nat
  BY SizeAssumption
<1>2. b \in Seq(Nat) /\ Len(b) = QUERY_SIZE
  BY <1>1, NatSeq, Zenon DEF BufferOf
<1>3. /\ len \in Nat /\ len <= QUERY_SIZE
      /\ \A k \in 1 .. QUERY_SIZE : b[k] \in Nat
  BY DEF BufferOf
<1>4. \A o \in Nat : o < len => b[o + 1] \in Nat
  <2> TAKE o \in Nat
  <2> HAVE o < len
  <2>1. o + 1 \in 1 .. QUERY_SIZE
    BY <1>1, <1>3
  <2> QED BY <2>1, <1>3
<1>5. /\ SubSeq(b, 1, len) \in Seq(Nat) /\ Len(SubSeq(b, 1, len)) = len
      /\ \A k \in 1 .. len : SubSeq(b, 1, len)[k] = b[k]
  <2>1. \A i \in 1 .. len : b[i] \in Nat
    BY <1>1, <1>3
  <2>2. /\ SubSeq(b, 1, len) \in Seq(Nat)
        /\ Len(SubSeq(b, 1, len)) = IF 1 <= len THEN len - 1 + 1 ELSE 0
        /\ \A i \in 1 .. len - 1 + 1 : SubSeq(b, 1, len)[i] = b[1 + i - 1]
    BY <1>3, <2>1, SubSeqProperties
  <2>3. (IF 1 <= len THEN len - 1 + 1 ELSE 0) = len /\ len - 1 + 1 = len
    BY <1>3
  <2>4. \A i \in 1 .. len : 1 + i - 1 = i
    BY <1>3
  <2> QED BY <2>2, <2>3, <2>4
<1> QED BY <1>2, <1>3, <1>4, <1>5

\* The walk: over, or past a label that fits.  Its offset grows with every label.
LEMMA WalksUnfold ==
  ASSUME NEW b, NEW len, NEW beyond, BufferOf(b, len)
  PROVE  \A o, h \in Nat :
           /\ ~GoesOn(b, len, o, h) =>
                (WalksOf(b, len, beyond)[<<o, h>>] <=> Over(b, o, h, beyond))
           /\ GoesOn(b, len, o, h) =>
                (WalksOf(b, len, beyond)[<<o, h>>] <=>
                   /\ LabelFits(b, len, o, b[o + 1], h)
                   /\ WalksOf(b, len, beyond)[<<o + 1 + b[o + 1], PassDot(h + b[o + 1])>>])
<1>1. len \in Nat /\ \A o \in Nat : o < len => b[o + 1] \in Nat
  BY BufferFacts, Zenon
<1>2. PICK D : D = Nat \X Nat
  OBVIOUS
<1> DEFINE Next2(p) == <<p[1] + 1 + b[p[1] + 1], PassDot(p[2] + b[p[1] + 1])>>
           Value(p, f) ==
             IF GoesOn(b, len, p[1], p[2])
             THEN LabelFits(b, len, p[1], b[p[1] + 1], p[2]) /\ f[Next2(p)]
             ELSE Over(b, p[1], p[2], beyond)
<1>3. PICK m : m = [p \in D |-> IF p[1] < len THEN len - p[1] ELSE 0]
  OBVIOUS
<1>4. m \in [D -> Nat]
  BY <1>1, <1>2, <1>3
<1>5. ASSUME NEW p \in D, GoesOn(b, len, p[1], p[2])
      PROVE  Next2(p) \in D /\ m[Next2(p)] < m[p]
  <2>1. PICK o \in Nat, h \in Nat : p = <<o, h>>
    BY <1>2
  <2>2. o < len /\ b[o + 1] # 0 /\ h < Len(Hostname)
    BY <1>5, <2>1 DEF GoesOn
  <2>3. PICK n \in Nat : n = b[o + 1]
    BY <1>1, <2>2
  <2>4. PassDot(h + n) \in Nat
    <3>1. PassDot(h + n) \in {h + n, h + n + 1}
      BY HostFacts
    <3> QED BY <3>1
  <2>5. PICK e \in Nat : e = o + 1 + n
    OBVIOUS
  <2>6. Next2(p) = <<e, PassDot(h + n)>>
    BY <2>1, <2>3, <2>5
  <2>7. Next2(p) \in D
    BY <1>2, <2>4, <2>6
  <2>8. m[Next2(p)] = (IF e < len THEN len - e ELSE 0) /\ m[p] = len - o
    BY <1>3, <2>1, <2>2, <2>6, <2>7
  <2> QED BY <1>1, <2>2, <2>5, <2>7, <2>8
<1> HIDE DEF Next2
<1>6. PICK G : G = [x \in D \X [D -> BOOLEAN] |-> Value(x[1], x[2])]
  OBVIOUS
<1>7. \A p \in D, f \in [D -> BOOLEAN] : G[<<p, f>>] = Value(p, f)
  BY <1>6
<1>8. \A p \in D, f \in [D -> BOOLEAN] : Value(p, f) \in BOOLEAN
  <2> TAKE p \in D, f \in [D -> BOOLEAN]
  <2>1. CASE GoesOn(b, len, p[1], p[2])
    <3>1. Next2(p) \in D
      BY <1>5, <2>1
    <3>2. f[Next2(p)] \in BOOLEAN
      BY <3>1
    <3>3. LabelFits(b, len, p[1], b[p[1] + 1], p[2]) \in BOOLEAN
      BY DEF LabelFits
    <3> QED BY <2>1, <3>2, <3>3
  <2>2. CASE ~GoesOn(b, len, p[1], p[2])
    BY <2>2 DEF Over
  <2> QED BY <2>1, <2>2
<1>9. G \in [D \X [D -> BOOLEAN] -> BOOLEAN]
  <2> HIDE DEF Value
  <2> QED BY <1>6, <1>8
<1>10. ASSUME NEW p \in D, NEW f \in [D -> BOOLEAN], NEW g \in [D -> BOOLEAN],
              \A e \in D : m[e] < m[p] => f[e] = g[e]
       PROVE  G[<<p, f>>] = G[<<p, g>>]
  <2>1. CASE GoesOn(b, len, p[1], p[2])
    <3>1. f[Next2(p)] = g[Next2(p)]
      BY <1>5, <1>10, <2>1
    <3> QED BY <1>7, <3>1
  <2>2. CASE ~GoesOn(b, len, p[1], p[2])
    BY <1>7, <2>2
  <2> QED BY <2>1, <2>2
<1>11. PICK f : Solves(D, BOOLEAN, G, f)
  <2>1. Descends(D, BOOLEAN, m, G)
    BY <1>4, <1>9, <1>10 DEF Descends
  <2>2. BOOLEAN # {}
    OBVIOUS
  <2> QED BY <2>1, <2>2, RecursionExists, Zenon
<1>12. f = [p \in Nat \X Nat |-> Value(p, f)]
  <2> HIDE DEF Value
  <2> QED BY <1>2, <1>7, <1>11 DEF Solves
<1>13. WalksOf(b, len, beyond) = [p \in Nat \X Nat |-> Value(p, WalksOf(b, len, beyond))]
  BY <1>12, Zenon DEF WalksOf, Value, Next2, GoesOn, Over
<1>14. \A o, h \in Nat :
         WalksOf(b, len, beyond)[<<o, h>>] = Value(<<o, h>>, WalksOf(b, len, beyond))
  <2>1. PICK w : w = WalksOf(b, len, beyond)
    OBVIOUS
  <2>2. w = [p \in Nat \X Nat |-> Value(p, w)]
    BY <1>13, <2>1
  <2> HIDE DEF Value
  <2> QED BY <2>1, <2>2
<1> QED BY <1>14, Zenon DEF Value, Next2

\* The rest of s from i on and that of t from j on have the same letters.
SameLetters(s, i, t, j) == LettersOf(s)[i] = LettersOf(t)[j]

\* A label that agrees with the host name, and the labels behind it.
LEMMA LettersOfName ==
  ASSUME NEW lab \in Seq(Nat), NEW tail \in Seq(Nat), NEW h \in Nat, NEW n \in Nat,
         Len(lab) = n, Agree(lab, 0, Hostname, h, n),
         SameLetters(tail, 0, Hostname, PassDot(h + n))
  PROVE  SameLetters(lab \o Dotted(tail), 0, Hostname, h)
<1>0. LettersOf(tail)[0] = LettersOf(Hostname)[PassDot(h + n)]
  BY DEF SameLetters
<1>1. PICK d \in Seq(Nat) : d = Dotted(tail)
  BY DottedIsSeq
<1>2. PICK u : u = lab \o d
  OBVIOUS
<1>3. PICK nd \in Nat : nd = Len(d)
  OBVIOUS
<1>4. /\ u \in Seq(Nat) /\ Len(u) = n + nd
      /\ \A i \in 1 .. n + nd : u[i] = IF i <= n THEN lab[i] ELSE d[i - n]
  BY <1>2, <1>3, ConcatProperties
<1>5. LettersOf(Hostname)[h + n] = LettersOf(Hostname)[PassDot(h + n)]
  <2>1. PICK g \in Nat : g = h + n
    OBVIOUS
  <2>2. PassDot(g) \in {g, g + 1}
        /\ (PassDot(g) = g + 1 <=> g < Len(Hostname) /\ Hostname[g + 1] = DOT)
    BY HostFacts
  <2>3. CASE PassDot(g) = g
    BY <2>1, <2>3
  <2>4. CASE PassDot(g) = g + 1
    <3>1. g < Len(Hostname) /\ Hostname[g + 1] = DOT
      BY <2>2, <2>4
    <3>2. LettersOf(Hostname)[g] = LetterAt(Hostname, g) \o LettersOf(Hostname)[g + 1]
      BY <3>1, HostFacts, LettersUnfold
    <3>3. LetterAt(Hostname, g) = <<>>
      BY <3>1 DEF LetterAt
    <3>4. LettersOf(Hostname)[g + 1] = LettersOf(tail)[0]
      BY <1>0, <2>1, <2>4
    <3>5. LettersOf(tail)[0] \in Seq(Nat)
      BY LettersType
    <3>6. <<>> \o LettersOf(tail)[0] = LettersOf(tail)[0]
      BY <3>5, ConcatEmptySeq
    <3> QED BY <2>1, <2>4, <3>2, <3>3, <3>4, <3>6
  <2> QED BY <2>2, <2>3, <2>4
<1>6. LettersOf(u)[n] = LettersOf(tail)[0]
  <2>1. CASE tail = <<>>
    <3>1. d = <<>> /\ nd = 0
      BY <1>1, <1>3, <2>1 DEF Dotted
    <3>2. LettersOf(u)[n] = <<>>
      <4>1. n >= Len(u)
        BY <1>4, <3>1
      <4> QED BY <1>4, <4>1, LettersUnfold
    <3>3. tail \in Seq(Nat) /\ 0 >= Len(tail)
      BY <2>1
    <3>4. LettersOf(tail)[0] = <<>>
      BY <3>3, LettersUnfold
    <3> QED BY <3>2, <3>4
  <2>2. CASE tail # <<>>
    <3>1. PICK nt \in Nat : nt = Len(tail)
      OBVIOUS
    <3>2. nd = 1 + nt /\ d[1] = DOT /\ \A k \in 1 .. nt : d[1 + k] = tail[k]
      BY <1>1, <1>3, <2>2, <3>1, DottedIsSeq
    <3>3. u[n + 1] = DOT
      <4>1. n + 1 \in 1 .. n + nd /\ ~(n + 1 <= n) /\ n + 1 - n = 1
        BY <3>2
      <4> QED BY <1>4, <3>2, <4>1
    <3>4. LettersOf(u)[n] = LetterAt(u, n) \o LettersOf(u)[n + 1]
      <4>1. n < Len(u)
        BY <1>4, <3>2
      <4> QED BY <1>4, <4>1, LettersUnfold
    <3>5. LetterAt(u, n) = <<>>
      BY <3>3 DEF LetterAt
    <3>6. LettersOf(u)[n + 1] = LettersOf(tail)[0]
      <4>1. \A k \in 0 .. nt - 1 : tolower(u[n + 1 + k + 1]) = tolower(tail[0 + k + 1])
        <5> TAKE k \in 0 .. nt - 1
        <5>1. /\ n + 1 + k + 1 \in 1 .. n + nd /\ ~(n + 1 + k + 1 <= n)
              /\ n + 1 + k + 1 - n = 1 + (k + 1) /\ k + 1 \in 1 .. nt /\ 0 + k + 1 = k + 1
          BY <3>2
        <5>2. u[n + 1 + k + 1] = d[1 + (k + 1)]
          BY <1>4, <5>1, SMTT(30)
        <5>3. d[1 + (k + 1)] = tail[k + 1]
          BY <3>2, <5>1
        <5> QED BY <5>1, <5>2, <5>3
      <4>2. LettersOf(u)[n + 1 + nt] = <<>> /\ LettersOf(tail)[0 + nt] = <<>>
        <5>1. PICK w \in Nat : w = n + 1 + nt
          OBVIOUS
        <5>2. w >= Len(u) /\ nt >= Len(tail) /\ 0 + nt = nt
          BY <1>4, <3>1, <3>2, <5>1
        <5>3. LettersOf(u)[w] = <<>> /\ LettersOf(tail)[nt] = <<>>
          BY <1>4, <5>2, LettersUnfold
        <5> QED BY <5>1, <5>2, <5>3
      <4>3. n + 1 \in Nat /\ n + 1 + nt <= Len(u) /\ 0 + nt <= Len(tail) /\ 0 \in Nat
        BY <1>4, <3>1, <3>2
      <4>4. Agree(u, n + 1, tail, 0, nt)
        BY <4>1, <4>3 DEF Agree
      <4>5. LettersOf(u)[n + 1] = LettersOf(tail)[0]
        <5>1. u \in Seq(Nat)
          BY <1>4
        <5>2. LettersOf(u)[n + 1 + nt] = LettersOf(tail)[0 + nt]
          BY <4>2
        <5> QED BY <4>3, <4>4, <5>1, <5>2, LettersShift
      <4> QED BY <4>5
    <3>7. LettersOf(tail)[0] \in Seq(Nat)
      BY LettersType
    <3>8. <<>> \o LettersOf(tail)[0] = LettersOf(tail)[0]
      BY <3>7, ConcatEmptySeq
    <3> QED BY <3>4, <3>5, <3>6, <3>8
  <2> QED BY <2>1, <2>2
<1>7. LettersOf(u)[0 + n] = LettersOf(Hostname)[h + n]
  BY <1>0, <1>5, <1>6
<1>8. \A k \in 0 .. n - 1 : tolower(u[0 + k + 1]) = tolower(Hostname[h + k + 1])
  <2> TAKE k \in 0 .. n - 1
  <2>1. 0 + k + 1 \in 1 .. n + nd /\ 0 + k + 1 <= n /\ 0 + k + 1 = k + 1
    OBVIOUS
  <2>2. u[0 + k + 1] = lab[k + 1]
    BY <1>4, <2>1
  <2>3. tolower(lab[0 + k + 1]) = tolower(Hostname[h + k + 1])
    BY DEF Agree
  <2> QED BY <2>1, <2>2, <2>3
<1>9. Agree(u, 0, Hostname, h, n)
  <2>1. h + n <= Len(Hostname)
    BY DEF Agree
  <2> QED BY <1>4, <1>8, <2>1 DEF Agree
<1>10. LettersOf(u)[0] = LettersOf(Hostname)[h]
  <2>1. 0 \in Nat
    OBVIOUS
  <2>2. u \in Seq(Nat) /\ Hostname \in Seq(Nat)
    BY <1>4, HostFacts
  <2> QED BY <1>7, <1>9, <2>1, <2>2, LettersShift
<1> QED BY <1>1, <1>2, <1>10 DEF SameLetters

-----------------------------------------------------------------------------
(* What the walk tells, both ways, by induction over the distance from the *)
(* end of the query.                                                       *)

\* A walk that succeeds has passed the letters of the host name.
WalkTold(b, len, beyond, q, o, h) ==
  WalksOf(b, len, beyond)[<<o, h>>] =>
    /\ h <= Len(Hostname)
    /\ LettersOf(NamesOf(q)[o])[0] = LettersOf(Hostname)[h]

\* It does where no further label is compared, ...
LEMMA WalkEnds ==
  ASSUME NEW b, NEW len, NEW beyond, BufferOf(b, len), NEW q, q = SubSeq(b, 1, len),
         NEW o \in Nat, NEW h \in Nat, ~GoesOn(b, len, o, h)
  PROVE  WalkTold(b, len, beyond, q, o, h)
<1>1. SUFFICES ASSUME WalksOf(b, len, beyond)[<<o, h>>]
      PROVE  /\ h <= Len(Hostname)
             /\ LettersOf(NamesOf(q)[o])[0] = LettersOf(Hostname)[h]
  BY DEF WalkTold
<1>2. Over(b, o, h, beyond)
  BY <1>1, WalksUnfold, Zenon
<1>3. q \in Seq(Nat) /\ Len(q) = len /\ \A k \in 1 .. len : q[k] = b[k]
  BY BufferFacts
<1>4. len \in Nat /\ len <= Len(b) /\ Len(b) \in Nat
  BY BufferFacts
<1>5. h = Len(Hostname)
  BY <1>2 DEF Over
<1>6. NameEnds(q, o)
  <2>1. CASE o >= len
    BY <1>3, <2>1 DEF NameEnds
  <2>2. CASE o < len
    <3>1. b[o + 1] = 0
      BY <1>2, <1>4, <2>2 DEF Over, ByteAt
    <3>2. q[o + 1] = b[o + 1]
      BY <1>3, <1>4, <2>2
    <3> QED BY <3>1, <3>2 DEF NameEnds
  <2> QED BY <1>4, <2>1, <2>2
<1>7. NamesOf(q)[o] = <<>>
  BY <1>3, <1>6, NamesUnfold, Zenon
<1>8. LettersOf(<<>>)[0] = <<>>
  <2>0. <<>> \in Seq(Nat)
    OBVIOUS
  <2>1. PICK e \in Seq(Nat) : e = <<>>
    BY <2>0
  <2>2. 0 >= Len(e) /\ 0 \in Nat
    BY <2>1
  <2>3. LettersOf(e)[0] = <<>>
    BY <2>2, LettersUnfold
  <2> QED BY <2>1, <2>3
<1>9. LettersOf(Hostname)[h] = <<>>
  <2>1. h >= Len(Hostname) /\ Hostname \in Seq(Nat)
    BY <1>5, HostFacts
  <2> QED BY <2>1, LettersUnfold
<1>10. h <= Len(Hostname)
  BY <1>5
<1> QED BY <1>7, <1>8, <1>9, <1>10

\* ... and where one is, if it does behind that label.
LEMMA WalkStep ==
  ASSUME NEW b, NEW len, NEW beyond, BufferOf(b, len), NEW q, q = SubSeq(b, 1, len),
         NEW o \in Nat, NEW h \in Nat, GoesOn(b, len, o, h),
         \A e, g \in Nat : e > o => WalkTold(b, len, beyond, q, e, g)
  PROVE  WalkTold(b, len, beyond, q, o, h)
<1>1. SUFFICES ASSUME WalksOf(b, len, beyond)[<<o, h>>]
      PROVE  /\ h <= Len(Hostname)
             /\ LettersOf(NamesOf(q)[o])[0] = LettersOf(Hostname)[h]
  BY DEF WalkTold
<1>2. /\ LabelFits(b, len, o, b[o + 1], h)
      /\ WalksOf(b, len, beyond)[<<o + 1 + b[o + 1], PassDot(h + b[o + 1])>>]
  BY <1>1, WalksUnfold, Zenon
<1>3. q \in Seq(Nat) /\ Len(q) = len /\ \A k \in 1 .. len : q[k] = b[k]
  BY BufferFacts
<1>4. len \in Nat /\ o < len /\ b[o + 1] # 0 /\ b[o + 1] \in Nat /\ h < Len(Hostname)
  BY BufferFacts DEF GoesOn
<1>5. PICK n \in Nat : n = b[o + 1] /\ n # 0
  BY <1>4
<1>6. q[o + 1] = n
  BY <1>3, <1>4, <1>5
<1>7. PICK e \in Nat : e = o + 1 + n /\ e > o
  OBVIOUS
<1>8. e <= len /\ \A k \in 0 .. n - 1 : tolower(b[o + k + 2]) = tolower(HostChar(h + k))
  BY <1>2, <1>5, <1>7 DEF LabelFits
<1>9. PICK g \in Nat : g = PassDot(h + n) /\ g >= h + n
  <2>1. h + n \in Nat
    OBVIOUS
  <2>2. PassDot(h + n) \in {h + n, h + n + 1}
    BY <2>1, HostFacts
  <2> QED BY <2>2
<1>10. /\ g <= Len(Hostname)
       /\ LettersOf(NamesOf(q)[e])[0] = LettersOf(Hostname)[g]
  <2>1. WalksOf(b, len, beyond)[<<e, g>>]
    BY <1>2, <1>5, <1>7, <1>9
  <2>2. WalkTold(b, len, beyond, q, e, g)
    BY <1>7
  <2> QED BY <2>1, <2>2 DEF WalkTold
<1>11. h + n <= Len(Hostname) /\ Len(Hostname) \in Nat
  BY <1>9, <1>10, HostFacts
<1>12. PICK lab \in Seq(Nat) : lab = Label(q, o) /\ Len(lab) = n
                               /\ \A k \in 1 .. n : lab[k] = q[o + 1 + k]
  <2>1. o < Len(q) /\ o + 1 + q[o + 1] <= Len(q)
    BY <1>3, <1>4, <1>6, <1>7, <1>8
  <2>2. PICK l : l = Label(q, o)
    OBVIOUS
  <2>3. /\ l \in Seq(Nat) /\ Len(l) = q[o + 1]
        /\ \A k \in 1 .. Len(l) : l[k] = q[o + 1 + k]
    BY <1>3, <2>1, <2>2, LabelFacts
  <2> QED BY <1>6, <2>2, <2>3
<1>13. PICK tail \in Seq(Nat) : tail = NamesOf(q)[e]
  BY <1>3, NamesUnfold
<1>14. NamesOf(q)[o] = lab \o Dotted(tail)
  <2>1. ~NameEnds(q, o)
    BY <1>3, <1>4, <1>5, <1>6 DEF NameEnds
  <2>2. NamesOf(q)[o] = Label(q, o) \o Dotted(NamesOf(q)[o + 1 + q[o + 1]])
    BY <1>3, <2>1, NamesUnfold, Zenon
  <2> QED BY <1>6, <1>7, <1>12, <1>13, <2>2
<1>15. Agree(lab, 0, Hostname, h, n)
  <2>1. ASSUME NEW k \in 0 .. n - 1
        PROVE  tolower(lab[0 + k + 1]) = tolower(Hostname[h + k + 1])
    <3>1. 0 + k + 1 \in 1 .. n /\ o + 1 + (0 + k + 1) = o + k + 2 /\ o + k + 2 \in 1 .. len
      <4>1. k \in Int /\ 0 <= k /\ k <= n - 1 /\ o + 1 + n <= len
        BY <1>7, <1>8
      <4> QED BY <1>4, <4>1
    <3>2. lab[0 + k + 1] = b[o + k + 2]
      BY <1>3, <1>12, <3>1
    <3>3. h + k \in Nat /\ h + k < Len(Hostname)
      BY <1>11
    <3>4. HostChar(h + k) = Hostname[h + k + 1]
      BY <3>3, HostFacts
    <3>5. tolower(b[o + k + 2]) = tolower(HostChar(h + k))
      BY <1>8
    <3> QED BY <3>2, <3>4, <3>5
  <2>2. 0 + n <= Len(lab)
    BY <1>12
  <2> QED BY <1>11, <2>1, <2>2 DEF Agree
<1>16. LettersOf(lab \o Dotted(tail))[0] = LettersOf(Hostname)[h]
  <2>1. SameLetters(tail, 0, Hostname, PassDot(h + n))
    BY <1>9, <1>10, <1>13 DEF SameLetters
  <2>2. Len(lab) = n
    BY <1>12
  <2>3. SameLetters(lab \o Dotted(tail), 0, Hostname, h)
    BY <1>15, <2>1, <2>2, LettersOfName
  <2> QED BY <2>3 DEF SameLetters
<1>17. h <= Len(Hostname)
  BY <1>4, <1>11
<1> QED BY <1>14, <1>16, <1>17

\* A query that is answered asks for the host name, but for its dots.
LEMMA MatchTells ==
  ASSUME NEW b, NEW len, NEW beyond, BufferOf(b, len), dns_hostname_match(b, len, beyond)
  PROVE  NoDots(NameIn(SubSeq(b, 1, len))) = NoDots(Hostname)
<1>1. PICK q : q = SubSeq(b, 1, len)
  OBVIOUS
<1>2. len \in Nat
  BY BufferFacts
<1> DEFINE T == {k \in Nat : \A o, h \in Nat : len <= o + k =>
                                              WalkTold(b, len, beyond, q, o, h)}
<1>3. ASSUME NEW k \in Nat, \A j \in Nat : j < k => j \in T
      PROVE  k \in T
  <2>1. SUFFICES ASSUME NEW o \in Nat, NEW h \in Nat, len <= o + k
                 PROVE  WalkTold(b, len, beyond, q, o, h)
    OBVIOUS
  <2>2. CASE ~GoesOn(b, len, o, h)
    BY <1>1, <2>2, WalkEnds
  <2>3. CASE GoesOn(b, len, o, h)
    <3>1. o < len
      BY <2>3 DEF GoesOn
    <3>2. k - 1 \in Nat /\ k - 1 < k
      BY <1>2, <2>1, <3>1
    <3>3. ASSUME NEW e \in Nat, NEW g \in Nat, e > o
          PROVE  WalkTold(b, len, beyond, q, e, g)
      <4>1. len <= e + (k - 1)
        BY <1>2, <2>1, <3>3
      <4> QED BY <1>3, <3>2, <4>1
    <3> QED BY <1>1, <2>3, <3>3, WalkStep
  <2> QED BY <2>2, <2>3
<1>4. T = Nat
  <2>1. T \in SUBSET Nat
    OBVIOUS
  <2> HIDE DEF T
  <2> QED BY <1>3, <2>1, LeastOne
<1>5. WalkTold(b, len, beyond, q, 0, 0)
  <2>1. len \in T
    BY <1>2, <1>4, Zenon
  <2>2. 0 \in Nat /\ len <= 0 + len
    BY <1>2
  <2> QED BY <2>1, <2>2
<1>6. WalksOf(b, len, beyond)[<<0, 0>>]
  BY MatchIsWalk, Zenon
<1> QED BY <1>1, <1>5, <1>6, NoDotsIsLetters, NameInIsNames DEF WalkTold

\* A byte of the query behind o is 0.
ZeroBehind(q, o) == \E k \in Nat : k > o /\ k <= Len(q) /\ q[k] = 0

\* s is the host name from h on, in any case.
IsHostFrom(s, h) ==
  /\ Len(s) = Len(Hostname) - h
  /\ \A k \in 1 .. Len(s) : tolower(s[k]) = tolower(Hostname[h + k])

\* The walk succeeds on the rest of the host name.
WalkSucceeds(b, len, beyond, q, o, h) ==
  ZeroBehind(q, o) /\ IsHostFrom(NamesOf(q)[o], h) => WalksOf(b, len, beyond)[<<o, h>>]

\* No character of it is 0, which is why a label that the query cuts off is none of its.
LEMMA NoZeroInHost ==
  ASSUME NEW s \in Seq(Nat), NEW h \in Nat, IsHostFrom(s, h), NEW k \in 1 .. Len(s)
  PROVE  s[k] # 0
<1>1. PICK n \in Nat : n = Len(s)
  OBVIOUS
<1>2. s[k] \in Nat
  BY <1>1
<1>3. PICK j \in 1 .. Len(Hostname) : j = h + k
  BY <1>1, HostFacts DEF IsHostFrom
<1>4. Hostname[j] \in Nat /\ Hostname[j] # 0
  BY HostFacts
<1>5. tolower(s[k]) = tolower(Hostname[j])
  BY <1>3 DEF IsHostFrom
<1> QED BY <1>2, <1>4, <1>5, LowerFacts

\* It does at the end of the name, ...
LEMMA WalkSucceedsEnds ==
  ASSUME NEW b, NEW len, NEW beyond, BufferOf(b, len), NEW q, q = SubSeq(b, 1, len),
         NEW o \in Nat, NEW h \in Nat, NameEnds(q, o)
  PROVE  WalkSucceeds(b, len, beyond, q, o, h)
<1>1. SUFFICES ASSUME ZeroBehind(q, o), IsHostFrom(NamesOf(q)[o], h)
      PROVE  WalksOf(b, len, beyond)[<<o, h>>]
  BY DEF WalkSucceeds
<1>2. q \in Seq(Nat) /\ Len(q) = len /\ \A k \in 1 .. len : q[k] = b[k]
  BY BufferFacts
<1>3. len \in Nat /\ len <= Len(b) /\ Len(b) \in Nat
  BY BufferFacts
<1>4. o < len
  BY <1>1, <1>2, <1>3 DEF ZeroBehind
<1>5. q[o + 1] = 0 /\ b[o + 1] = 0
  BY <1>2, <1>3, <1>4 DEF NameEnds
<1>6. NamesOf(q)[o] = <<>>
  BY <1>2, NamesUnfold, Zenon
<1>7. h = Len(Hostname)
  <2>1. PICK t : t = NamesOf(q)[o]
    OBVIOUS
  <2>2. Len(t) = 0
    BY <1>6, <2>1
  <2>3. PICK m \in Nat : m = Len(Hostname)
    BY HostFacts
  <2>4. IsHostFrom(t, h)
    BY <1>1, <2>1
  <2>5. 0 = m - h
    BY <2>2, <2>3, <2>4 DEF IsHostFrom
  <2> QED BY <2>3, <2>5
<1>8. ~GoesOn(b, len, o, h)
  BY <1>5 DEF GoesOn
<1>9. Over(b, o, h, beyond)
  BY <1>3, <1>4, <1>5, <1>7 DEF Over, ByteAt
<1> QED BY <1>8, <1>9, WalksUnfold, Zenon

\* What is behind a label of the host name.
LEMMA HostGoesOn ==
  ASSUME NEW lab \in Seq(Nat), NEW tail \in Seq(Nat), NEW h \in Nat, NEW n \in Nat,
         Len(lab) = n, n # 0, IsHostFrom(lab \o Dotted(tail), h)
  PROVE  /\ h + n <= Len(Hostname)
         /\ \A k \in 1 .. n : tolower(lab[k]) = tolower(Hostname[h + k]) /\ lab[k] # 0
         /\ IsHostFrom(tail, PassDot(h + n))
<1>1. PICK d \in Seq(Nat) : d = Dotted(tail)
  BY DottedIsSeq
<1>2. PICK u : u = lab \o d
  OBVIOUS
<1>3. PICK nd \in Nat : nd = Len(d)
  OBVIOUS
<1>4. /\ u \in Seq(Nat) /\ Len(u) = n + nd
      /\ \A i \in 1 .. n + nd : u[i] = IF i <= n THEN lab[i] ELSE d[i - n]
  BY <1>2, <1>3, ConcatProperties
<1>5. IsHostFrom(u, h)
  BY <1>1, <1>2
<1>6. /\ n + nd = Len(Hostname) - h
      /\ \A k \in 1 .. n + nd : tolower(u[k]) = tolower(Hostname[h + k])
  BY <1>4, <1>5 DEF IsHostFrom
<1>7. PICK m \in Nat : m = Len(Hostname)
  BY HostFacts
<1>8. ASSUME NEW k \in 1 .. n
      PROVE  tolower(lab[k]) = tolower(Hostname[h + k]) /\ lab[k] # 0
  <2>1. k \in 1 .. n + nd /\ k <= n
    OBVIOUS
  <2>2. u[k] = lab[k] /\ k \in 1 .. Len(u)
    BY <1>4, <2>1
  <2>3. u[k] # 0
    BY <1>4, <1>5, <2>2, NoZeroInHost
  <2> QED BY <1>6, <2>1, <2>2, <2>3
<1>9. PICK g \in Nat : g = h + n
  OBVIOUS
<1>10. IsHostFrom(tail, PassDot(g))
  <2>1. CASE tail = <<>>
    <3>1. d = <<>> /\ nd = 0
      BY <1>1, <1>3, <2>1 DEF Dotted
    <3>2. g = m
      BY <1>6, <1>7, <1>9, <3>1
    <3>3. PassDot(g) = g
      <4>1. ~(g < Len(Hostname))
        BY <1>7, <3>2
      <4> QED BY <4>1, HostFacts
    <3>4. Len(tail) = 0
      BY <2>1
    <3> QED BY <1>7, <3>2, <3>3, <3>4 DEF IsHostFrom
  <2>2. CASE tail # <<>>
    <3>1. PICK nt \in Nat : nt = Len(tail)
      OBVIOUS
    <3>2. nd = 1 + nt /\ d[1] = DOT /\ \A k \in 1 .. nt : d[1 + k] = tail[k]
      BY <1>1, <1>3, <2>2, <3>1, DottedIsSeq
    <3>3. u[n + 1] = DOT
      <4>1. n + 1 \in 1 .. n + nd /\ ~(n + 1 <= n) /\ n + 1 - n = 1
        BY <3>2
      <4> QED BY <1>4, <3>2, <4>1
    <3>4. Hostname[g + 1] = DOT /\ g < m
      <4>1. n + 1 \in 1 .. n + nd /\ h + (n + 1) = g + 1 /\ g + 1 \in 1 .. m
        BY <1>6, <1>7, <1>9, <3>2
      <4>2. tolower(u[n + 1]) = tolower(Hostname[g + 1])
        BY <1>6, <4>1
      <4>3. PICK c \in Nat : c = Hostname[g + 1]
        BY <1>7, <4>1, HostFacts
      <4>4. DOT \in Nat /\ tolower(DOT) = tolower(c)
        BY <3>3, <4>2, <4>3 DEF DOT
      <4>5. c = DOT
        BY <4>3, <4>4, LowerFacts
      <4>6. g < m
        BY <1>7, <4>1
      <4> QED BY <4>3, <4>5, <4>6
    <3>5. PassDot(g) = g + 1
      BY <1>7, <3>4, HostFacts
    <3>6. ASSUME NEW k \in 1 .. nt
          PROVE  tolower(tail[k]) = tolower(Hostname[g + 1 + k])
      <4>1. /\ n + 1 + k \in 1 .. n + nd /\ ~(n + 1 + k <= n) /\ n + 1 + k - n = 1 + k
            /\ h + (n + 1 + k) = g + 1 + k
        BY <1>9, <3>2
      <4>2. u[n + 1 + k] = tail[k]
        <5>1. u[n + 1 + k] = d[n + 1 + k - n]
          BY <1>4, <4>1
        <5>2. d[1 + k] = tail[k]
          BY <3>2
        <5> QED BY <4>1, <5>1, <5>2
      <4>3. tolower(u[n + 1 + k]) = tolower(Hostname[g + 1 + k])
        BY <1>6, <4>1
      <4> QED BY <4>2, <4>3
    <3>7. nt = m - (g + 1)
      <4>1. n + nd = m - h
        BY <1>6, <1>7
      <4> QED BY <1>9, <3>2, <4>1
    <3> QED BY <1>7, <3>1, <3>5, <3>6, <3>7 DEF IsHostFrom
  <2> QED BY <2>1, <2>2
<1> QED BY <1>6, <1>7, <1>8, <1>9, <1>10

\* ... and at a label, if it does behind that label.
LEMMA WalkSucceedsStep ==
  ASSUME NEW b, NEW len, NEW beyond, BufferOf(b, len), NEW q, q = SubSeq(b, 1, len),
         NEW o \in Nat, NEW h \in Nat, ~NameEnds(q, o),
         \A e, g \in Nat : e > o => WalkSucceeds(b, len, beyond, q, e, g)
  PROVE  WalkSucceeds(b, len, beyond, q, o, h)
<1>1. SUFFICES ASSUME ZeroBehind(q, o), IsHostFrom(NamesOf(q)[o], h)
      PROVE  WalksOf(b, len, beyond)[<<o, h>>]
  BY DEF WalkSucceeds
<1>2. q \in Seq(Nat) /\ Len(q) = len /\ \A k \in 1 .. len : q[k] = b[k]
  BY BufferFacts
<1>3. len \in Nat /\ o < len /\ q[o + 1] # 0 /\ q[o + 1] \in Nat
  <2>1. len \in Nat
    BY BufferFacts
  <2>2. o < len /\ q[o + 1] # 0
    BY <1>2, <2>1 DEF NameEnds
  <2> QED BY <1>2, <2>1, <2>2
<1>4. PICK n \in Nat : n = q[o + 1] /\ n # 0
  BY <1>3
<1>5. b[o + 1] = n /\ n > 0
  BY <1>2, <1>3, <1>4
<1>6. PICK e \in Nat : e = o + 1 + n /\ e > o
  OBVIOUS
<1>7. PICK lab \in Seq(Nat) : /\ lab = Label(q, o)
                              /\ e <= len => Len(lab) = n
                              /\ e > len => Len(lab) = len - o - 1
                              /\ \A k \in 1 .. Len(lab) : lab[k] = q[o + 1 + k]
  <2>1. PICK l : l = Label(q, o)
    OBVIOUS
  <2>2. o < Len(q) /\ o + 1 + q[o + 1] = e
    BY <1>2, <1>3, <1>4, <1>6
  <2>3. /\ l \in Seq(Nat)
        /\ e <= Len(q) => Len(l) = q[o + 1]
        /\ e > Len(q) => Len(l) = Len(q) - o - 1
        /\ \A k \in 1 .. Len(l) : l[k] = q[o + 1 + k]
    BY <1>2, <2>1, <2>2, LabelFacts, ZenonT(30)
  <2> QED BY <1>2, <1>4, <2>1, <2>3
<1>8. PICK tail \in Seq(Nat) : tail = NamesOf(q)[e]
  BY <1>2, NamesUnfold
<1>9. NamesOf(q)[o] = lab \o Dotted(tail)
  <2>1. NamesOf(q)[o] = Label(q, o) \o Dotted(NamesOf(q)[o + 1 + q[o + 1]])
    BY <1>2, NamesUnfold, Zenon
  <2> QED BY <1>4, <1>6, <1>7, <1>8, <2>1
<1>10. PICK z \in Nat : z > o + 1 /\ z <= len /\ q[z] = 0
  <2>1. PICK z \in Nat : z > o /\ z <= len /\ q[z] = 0
    BY <1>1, <1>2 DEF ZeroBehind
  <2>2. z # o + 1
    <3>1. SUFFICES ASSUME z = o + 1 PROVE FALSE
      OBVIOUS
    <3>2. q[o + 1] = 0
      BY <2>1, <3>1
    <3> QED BY <1>3, <3>2
  <2>3. z > o + 1
    BY <2>1, <2>2
  <2> QED BY <2>1, <2>3
<1>11. e <= len
  <2>1. SUFFICES ASSUME e > len PROVE FALSE
    BY <1>3
  <2>2. tail = <<>>
    <3>1. NameEnds(q, e)
      BY <1>2, <2>1 DEF NameEnds
    <3> QED BY <1>2, <1>8, <3>1, NamesUnfold, Zenon
  <2>3. IsHostFrom(lab, h)
    <3>1. lab \o Dotted(tail) = lab
      BY <2>2 DEF Dotted
    <3> QED BY <1>1, <1>9, <3>1
  <2>4. PICK k \in Nat : k = z - o - 1
    BY <1>10
  <2>5. k \in 1 .. Len(lab) /\ o + 1 + k = z
    BY <1>3, <1>7, <1>10, <2>1, <2>4
  <2>6. lab[k] # 0
    BY <2>3, <2>5, NoZeroInHost
  <2>7. lab[k] = q[z]
    BY <1>7, <2>5
  <2> QED BY <1>10, <2>6, <2>7
<1>12. Len(lab) = n
  BY <1>7, <1>11
<1>13. /\ h + n <= Len(Hostname)
       /\ \A k \in 1 .. n : tolower(lab[k]) = tolower(Hostname[h + k]) /\ lab[k] # 0
       /\ IsHostFrom(tail, PassDot(h + n))
  <2>1. IsHostFrom(lab \o Dotted(tail), h)
    BY <1>1, <1>9
  <2> QED BY <1>4, <1>12, <2>1, HostGoesOn
<1>14. PICK m \in Nat : m = Len(Hostname)
  BY HostFacts
<1>15. GoesOn(b, len, o, h)
  <2>1. h < m
    <3>1. h + n <= m
      BY <1>13, <1>14
    <3>2. n > 0
      BY <1>5
    <3> QED BY <3>1, <3>2
  <2>2. h < Len(Hostname)
    BY <1>14, <2>1
  <2>3. o < len /\ b[o + 1] # 0
    BY <1>3, <1>4, <1>5
  <2> QED BY <2>2, <2>3 DEF GoesOn
<1>16. LabelFits(b, len, o, n, h)
  <2>1. ASSUME NEW k \in 0 .. n - 1
        PROVE  tolower(b[o + k + 2]) = tolower(HostChar(h + k))
    <3>1. /\ k \in Nat /\ k + 1 \in 1 .. n /\ o + 1 + (k + 1) = o + k + 2
          /\ o + k + 2 \in 1 .. len /\ h + (k + 1) = h + k + 1 /\ h + k \in Nat
      BY <1>3, <1>6, <1>11
    <3>2. h + k < Len(Hostname)
      BY <1>13, <1>14, <3>1
    <3>3. HostChar(h + k) = Hostname[h + k + 1]
      BY <3>1, <3>2, HostFacts
    <3>4. lab[k + 1] = q[o + k + 2]
      BY <1>7, <1>12, <3>1
    <3>5. b[o + k + 2] = lab[k + 1]
      BY <1>2, <3>1, <3>4
    <3>6. tolower(lab[k + 1]) = tolower(Hostname[h + k + 1])
      BY <1>13, <3>1
    <3> QED BY <3>3, <3>5, <3>6
  <2> QED BY <1>6, <1>11, <2>1 DEF LabelFits
<1>17. ZeroBehind(q, e)
  <2>1. z > e
    <3>1. SUFFICES ASSUME z <= e PROVE FALSE
      BY <1>10
    <3>2. PICK k \in Nat : k = z - o - 1
      BY <1>10
    <3>3. k \in 1 .. n /\ o + 1 + k = z
      BY <1>6, <1>10, <3>1, <3>2
    <3>4. lab[k] = q[z]
      BY <1>7, <1>12, <3>3
    <3>5. lab[k] # 0
      BY <1>13, <3>3
    <3> QED BY <1>10, <3>4, <3>5
  <2> QED BY <1>2, <1>10, <2>1 DEF ZeroBehind
<1>18. PICK g \in Nat : g = PassDot(h + n)
  <2>1. h + n \in Nat
    OBVIOUS
  <2>2. PassDot(h + n) \in {h + n, h + n + 1}
    BY <2>1, HostFacts
  <2> QED BY <2>2
<1>19. WalksOf(b, len, beyond)[<<e, g>>]
  <2>1. WalkSucceeds(b, len, beyond, q, e, g)
    BY <1>6
  <2>2. IsHostFrom(NamesOf(q)[e], g)
    BY <1>8, <1>13, <1>18
  <2> QED BY <1>17, <2>1, <2>2 DEF WalkSucceeds
<1>20. WalksOf(b, len, beyond)[<<o + 1 + b[o + 1], PassDot(h + b[o + 1])>>]
  BY <1>5, <1>6, <1>18, <1>19
<1>21. LabelFits(b, len, o, b[o + 1], h)
  BY <1>5, <1>16
<1> QED BY <1>15, <1>20, <1>21, WalksUnfold, Zenon

\* The host name, in any case and with an end in the query, is answered.
LEMMA NameMatches ==
  ASSUME NEW b, NEW len, NEW beyond, BufferOf(b, len), Ended(SubSeq(b, 1, len)),
         Lower(NameIn(SubSeq(b, 1, len))) = Lower(Hostname)
  PROVE  dns_hostname_match(b, len, beyond)
<1>1. PICK q : q = SubSeq(b, 1, len)
  OBVIOUS
<1>2. len \in Nat /\ q \in Seq(Nat) /\ Len(q) = len
  BY <1>1, BufferFacts
<1> DEFINE T == {k \in Nat : \A o, h \in Nat : len <= o + k =>
                                              WalkSucceeds(b, len, beyond, q, o, h)}
<1>3. ASSUME NEW k \in Nat, \A j \in Nat : j < k => j \in T
      PROVE  k \in T
  <2>1. SUFFICES ASSUME NEW o \in Nat, NEW h \in Nat, len <= o + k
                 PROVE  WalkSucceeds(b, len, beyond, q, o, h)
    OBVIOUS
  <2>2. CASE NameEnds(q, o)
    BY <1>1, <2>2, WalkSucceedsEnds
  <2>3. CASE ~NameEnds(q, o)
    <3>1. o < len
      BY <1>2, <2>3 DEF NameEnds
    <3>2. k - 1 \in Nat /\ k - 1 < k
      BY <1>2, <2>1, <3>1
    <3>3. ASSUME NEW e \in Nat, NEW g \in Nat, e > o
          PROVE  WalkSucceeds(b, len, beyond, q, e, g)
      <4>1. len <= e + (k - 1)
        BY <1>2, <2>1, <3>3
      <4> QED BY <1>3, <3>2, <4>1
    <3> QED BY <1>1, <2>3, <3>3, WalkSucceedsStep
  <2> QED BY <2>2, <2>3
<1>4. T = Nat
  <2>1. T \in SUBSET Nat
    OBVIOUS
  <2> HIDE DEF T
  <2> QED BY <1>3, <2>1, LeastOne
<1>5. WalkSucceeds(b, len, beyond, q, 0, 0)
  <2>1. len \in T
    BY <1>2, <1>4, Zenon
  <2>2. 0 \in Nat /\ len <= 0 + len
    BY <1>2
  <2> QED BY <2>1, <2>2
<1>6. ZeroBehind(q, 0)
  <2>1. PICK k \in DOMAIN q : q[k] = 0
    BY <1>1 DEF Ended
  <2>2. k \in Nat /\ k > 0 /\ k <= Len(q)
    BY <1>2, <2>1
  <2> QED BY <2>1, <2>2 DEF ZeroBehind
<1>7. IsHostFrom(NamesOf(q)[0], 0)
  <2>1. PICK s \in Seq(Nat) : s = NamesOf(q)[0]
    <3>1. 0 \in Nat
      OBVIOUS
    <3> QED BY <1>2, <3>1, NamesUnfold
  <2>2. Lower(s) = Lower(Hostname)
    BY <1>1, <2>1, NameInIsNames
  <2>3. PICK t \in Seq(Nat) : t = Hostname
    BY HostFacts
  <2>4. PICK n \in Nat, m \in Nat : n = Len(s) /\ m = Len(t)
    OBVIOUS
  <2>5. [k \in 1 .. n |-> tolower(s[k])] = [k \in 1 .. m |-> tolower(t[k])]
    BY <2>2, <2>3, <2>4 DEF Lower
  <2>6. 1 .. n = 1 .. m
    BY <2>5
  <2>7. n = m
    BY <2>6
  <2>8. \A k \in 1 .. n : tolower(s[k]) = tolower(t[k])
    BY <2>5, <2>7
  <2>9. \A k \in 1 .. n : 0 + k = k
    OBVIOUS
  <2> QED BY <2>1, <2>3, <2>4, <2>7, <2>8, <2>9 DEF IsHostFrom
<1>8. WalksOf(b, len, beyond)[<<0, 0>>]
  BY <1>5, <1>6, <1>7 DEF WalkSucceeds
<1> QED BY <1>8, MatchIsWalk, Zenon

-----------------------------------------------------------------------------
(* The state of a server that answers: its buffer is full of bytes, those  *)
(* of earlier queries and of the fill included.                            *)

\* QUERY_SIZE bytes.
Filled(b) ==
  /\ b = [k \in 1 .. QUERY_SIZE |-> b[k]]
  /\ \A k \in 1 .. QUERY_SIZE : b[k] \in Nat

\* Every task has its buffer.
FilledInv ==
  /\ buf = [i \in Slots |-> buf[i]]
  /\ \A i \in Slots : task[i].pc # "none" => Filled(buf[i])

\* What DnsAnswersHost says of an answer.
AnswerRight(a) ==
  a # NoAnswer =>
    /\ Ended(a.query) /\ Lower(NameIn(a.query)) = Lower(Hostname) => a.sent
    /\ a.sent => NoDots(NameIn(a.query)) = NoDots(Hostname)

DnsInv == FilledInv /\ AnswerRight(answer)

LEMMA RightIsDns == AnswerRight(answer) <=> DnsAnswersHost
BY DEF AnswerRight, DnsAnswersHost

LEMMA NoAnswerRight == AnswerRight(NoAnswer)
BY DEF AnswerRight

\* A datagram over what was in the buffer.
LEMMA FilledOver ==
  ASSUME NEW b, Filled(b), NEW q \in Seq(Nat)
  PROVE  Filled([k \in DOMAIN b |-> IF k <= Len(q) THEN q[k] ELSE b[k]])
<1>1. PICK D : D = 1 .. QUERY_SIZE
  OBVIOUS
<1>2. PICK c : c = [k \in D |-> IF k <= Len(q) THEN q[k] ELSE b[k]]
  OBVIOUS
<1>3. DOMAIN b = D
  BY <1>1, Zenon DEF Filled
<1>4. \A k \in D : c[k] \in Nat
  <2> TAKE k \in D
  <2>1. CASE k <= Len(q)
    <3>1. k \in 1 .. Len(q)
      BY <1>1, <2>1, SizeAssumption
    <3> QED BY <1>2, <2>1, <3>1
  <2>2. CASE ~(k <= Len(q))
    <3>1. b[k] \in Nat
      BY <1>1 DEF Filled
    <3> QED BY <1>2, <2>2, <3>1
  <2> QED BY <2>1, <2>2
<1>5. c = [k \in D |-> c[k]]
  BY <1>2
<1>6. Filled(c)
  BY <1>1, <1>4, <1>5, Zenon DEF Filled
<1> QED BY <1>2, <1>3, <1>6

\* A datagram is a sequence of bytes that fits the buffer.
LEMMA ByteSeq ==
  ASSUME NEW q \in Queries \union {<<>>}
  PROVE  q \in Seq(Nat) /\ Len(q) \in Nat /\ Len(q) <= QUERY_SIZE
<1>1. CASE q \in Queries
  <2>1. PICK C : q \in Seq(C) /\ \A c \in C : c \in Nat
    <3>1. \A c \in 0 .. 255 : c \in Nat
      OBVIOUS
    <3> QED BY <1>1, <3>1, NameAssumption
  <2>2. /\ Len(q) \in Nat /\ q = [k \in 1 .. Len(q) |-> q[k]]
        /\ \A k \in 1 .. Len(q) : q[k] \in C
    BY <2>1, SeqOf, Zenon
  <2>3. \A k \in 1 .. Len(q) : q[k] \in Nat
    BY <2>1, <2>2, Zenon
  <2> QED BY <1>1, <2>2, <2>3, NatSeq, SizeAssumption, Zenon
<1>2. CASE q = <<>>
  BY <1>2, SizeAssumption
<1> QED BY <1>1, <1>2

\* A turn of a task that leaves the buffers alone.
LEMMA TurnFilled ==
  ASSUME FilledInv, NEW i \in Slots, Turn(i), buf' = buf
  PROVE  FilledInv'
<1>1. \A j \in Slots : task'[j].pc # "none" => task[j].pc # "none"
  BY DEF Turn
<1> QED BY <1>1 DEF FilledInv

LEMMA ReceiveFilled ==
  ASSUME StateInv, FilledInv, NEW i \in Slots, Turn(i), ServerReceive(i)
  PROVE  FilledInv'
<1>1. CASE buf' = buf
  BY <1>1, TurnFilled
<1>2. CASE buf' # buf
  <2>1. PICK q \in Queries \union {<<>>} :
          buf' = [buf EXCEPT ![i] = [k \in DOMAIN buf[i] |-> IF k <= Len(q) THEN q[k]
                                                             ELSE buf[i][k]]]
    <3>1. \A q \in (IF task[i].svc = "dns" THEN Queries ELSE {<<>>}) :
            q \in Queries \union {<<>>}
      OBVIOUS
    <3> QED BY <1>2, <3>1 DEF ServerReceive
  <2>2. task[i].pc # "none" /\ \A j \in Slots : j # i => task'[j] = task[j]
    BY DEF Turn
  <2>3. Filled(buf[i])
    BY <2>2 DEF FilledInv
  <2>4. PICK c : c = [k \in DOMAIN buf[i] |-> IF k <= Len(q) THEN q[k] ELSE buf[i][k]]
    OBVIOUS
  <2>5. Filled(c)
    <3>1. PICK b : b = buf[i]
      OBVIOUS
    <3>2. Filled(b) /\ q \in Seq(Nat)
      BY <2>3, <3>1, ByteSeq
    <3> QED BY <2>4, <3>1, <3>2, FilledOver
  <2>6. buf' = [buf EXCEPT ![i] = c]
    BY <2>1, <2>4
  <2>7. buf'[i] = c /\ \A j \in Slots : j # i => buf'[j] = buf[j]
    BY <2>6 DEF FilledInv
  <2>8. buf' = [j \in Slots |-> buf'[j]]
    BY <2>6 DEF FilledInv
  <2>9. \A j \in Slots : task'[j].pc # "none" => Filled(buf'[j])
    BY <2>2, <2>5, <2>7 DEF FilledInv
  <2> QED BY <2>8, <2>9 DEF FilledInv
<1> QED BY <1>1, <1>2

\* What a DNS server makes of a query is right, whatever lies behind the query.
LEMMA AnswersRight ==
  ASSUME StateInv, FilledInv, NEW i \in Slots, TaskAnswer(i), AnswerRight(answer)
  PROVE  AnswerRight(answer')
<1>1. CASE answer' = answer
  BY <1>1
<1>2. CASE answer' # answer
  <2>1. PICK beyond \in Fill :
          answer' = [sent |-> dns_hostname_match(buf[i], task[i].len, beyond),
                     query |-> SubSeq(buf[i], 1, task[i].len),
                     rest |-> SubSeq(buf[i], task[i].len + 1, QUERY_SIZE)]
    BY <1>2, Zenon DEF TaskAnswer
  <2>2. task[i].pc = "answer"
    BY DEF TaskAnswer, At
  <2>3. task[i] \in Answering
    BY <2>2, TaskAt DEF Waiting, TaskPcs
  <2>4. PICK len : len = task[i].len /\ len \in Nat /\ len <= QUERY_SIZE
    BY <2>3, ByteSeq DEF Answering, Lens
  <2>5. PICK b : b = buf[i] /\ BufferOf(b, len)
    BY <2>2, <2>4 DEF FilledInv, Filled, BufferOf
  <2>6. PICK a : a = answer'
    OBVIOUS
  <2>7. /\ a.sent <=> dns_hostname_match(b, len, beyond)
        /\ a.query = SubSeq(b, 1, len)
    BY <2>1, <2>4, <2>5, <2>6, Zenon
  <2>8. Ended(a.query) /\ Lower(NameIn(a.query)) = Lower(Hostname) => a.sent
    BY <2>5, <2>7, NameMatches, Zenon
  <2>9. a.sent => NoDots(NameIn(a.query)) = NoDots(Hostname)
    <3>1. SUFFICES ASSUME a.sent PROVE NoDots(NameIn(a.query)) = NoDots(Hostname)
      OBVIOUS
    <3>2. NoDots(NameIn(SubSeq(b, 1, len))) = NoDots(Hostname)
      BY <2>5, <2>7, <3>1, MatchTells, Zenon
    <3> QED BY <2>7, <3>2
  <2>10. AnswerRight(a)
    BY <2>8, <2>9, Zenon DEF AnswerRight
  <2> QED BY <2>6, <2>10
<1> QED BY <1>1, <1>2

\* A new task finds the fill in its buffer; an ended one has none.
LEMMA CreateFilled ==
  ASSUME StateInv, FilledInv, NEW a \in Apps, StartCreate(a)
  PROVE  FilledInv'
<1>1. CASE UNCHANGED <<task, buf>>
  BY <1>1 DEF FilledInv
<1>2. CASE ~UNCHANGED <<task, buf>>
  <2>1. PICK i \in Slots : i = starting[a].slot
    BY StartRecord DEF StartCreate
  <2>2. PICK f \in Fill \union {0} :
          buf' = [buf EXCEPT ![i] = [k \in 1 .. QUERY_SIZE |-> f]]
    <3>1. \A f \in (IF starting[a].svc = "dns" THEN Fill ELSE {0}) : f \in Fill \union {0}
      OBVIOUS
    <3> QED BY <1>2, <2>1, <3>1 DEF StartCreate
  <2>3. PICK c : c = [k \in 1 .. QUERY_SIZE |-> f]
    OBVIOUS
  <2>4. f \in Nat
    <3>1. \A x \in Fill : x \in Nat
      BY NameAssumption
    <3> QED BY <2>2, <3>1
  <2>5. Filled(c)
    BY <2>3, <2>4 DEF Filled
  <2>6. buf' = [buf EXCEPT ![i] = c]
    BY <2>2, <2>3
  <2>7. buf'[i] = c /\ \A j \in Slots : j # i => buf'[j] = buf[j]
    BY <2>6 DEF FilledInv
  <2>8. buf' = [j \in Slots |-> buf'[j]]
    BY <2>6 DEF FilledInv
  <2>9. \A j \in Slots : j # i => task'[j] = task[j]
    <3>1. PICK t : task' = [task EXCEPT ![i] = t]
      BY <1>2, <2>1 DEF StartCreate
    <3> QED BY <3>1 DEF StateInv
  <2>10. \A j \in Slots : task'[j].pc # "none" => Filled(buf'[j])
    BY <2>5, <2>7, <2>9 DEF FilledInv
  <2> QED BY <2>8, <2>10 DEF FilledInv
<1> QED BY <1>1, <1>2

LEMMA EndFilled ==
  ASSUME StateInv, FilledInv, NEW i \in Slots, TaskEnd(i)
  PROVE  FilledInv'
<1>1. task' = [task EXCEPT ![i] = NoTask] /\ buf' = [buf EXCEPT ![i] = <<>>]
  BY DEF TaskEnd
<1>2. task'[i].pc = "none" /\ \A j \in Slots : j # i => task'[j] = task[j]
  BY <1>1 DEF StateInv, NoTask
<1>3. \A j \in Slots : j # i => buf'[j] = buf[j]
  BY <1>1 DEF FilledInv
<1>4. buf' = [j \in Slots |-> buf'[j]]
  BY <1>1 DEF FilledInv
<1> QED BY <1>2, <1>3, <1>4 DEF FilledInv

LEMMA DnsInit == ServiceInit => DnsInv
<1> SUFFICES ASSUME ServiceInit PROVE DnsInv
  OBVIOUS
<1>1. FilledInv
  BY DEF ServiceInit, FilledInv, NoTask
<1>2. AnswerRight(answer)
  BY NoAnswerRight DEF ServiceInit
<1> QED BY <1>1, <1>2 DEF DnsInv

LEMMA DnsNext ==
  ASSUME StateInv, DnsInv, [ServiceNext]_serviceVars
  PROVE  DnsInv'
<1>0. FilledInv /\ AnswerRight(answer)
  BY DEF DnsInv
<1>1. ASSUME UNCHANGED <<task, buf, answer>>
      PROVE  DnsInv'
  <2>1. FilledInv'
    BY <1>0, <1>1 DEF FilledInv
  <2> QED BY <1>0, <1>1, <2>1 DEF DnsInv
<1>2. CASE UNCHANGED serviceVars
  BY <1>1, <1>2 DEF serviceVars
<1>3. CASE \E a \in Apps, s \in Services : StartAlloc(a, s) \/ Stop(a, s)
  BY <1>1, <1>3 DEF StartAlloc, Stop
<1>4. ASSUME NEW a \in Apps, AppStep(a)
      PROVE  DnsInv'
  <2>1. CASE StartSetBit(a) \/ StartFree(a) \/ StartClear(a)
    BY <1>1, <2>1 DEF StartSetBit, StartFree, StartClear
  <2>2. CASE StartCreate(a)
    <3>1. FilledInv'
      BY <1>0, <2>2, CreateFilled
    <3>2. answer' = answer
      BY <2>2 DEF StartCreate
    <3> QED BY <1>0, <3>1, <3>2 DEF DnsInv
  <2> QED BY <1>4, <2>1, <2>2 DEF AppStep
<1>5. ASSUME NEW i \in Slots, TaskStep(i)
      PROVE  DnsInv'
  <2>1. CASE TaskBegin(i) \/ TaskTest(i) \/ TaskSocket(i) \/ ClientRound(i)
    <3>1. Turn(i)
      <4>1. ~WildHandler(i) /\ ~TaskEnd(i)
        BY <2>1 DEF TaskBegin, TaskTest, TaskSocket, ClientRound, WildHandler, TaskEnd, At
      <4> QED BY <1>5, <4>1, TaskTurns
    <3>2. buf' = buf /\ answer' \in {answer, NoAnswer}
      BY <2>1 DEF TaskBegin, TaskTest, TaskSocket, ClientRound
    <3>3. FilledInv'
      BY <1>0, <3>1, <3>2, TurnFilled
    <3>4. AnswerRight(answer')
      BY <1>0, <3>2, NoAnswerRight
    <3> QED BY <3>3, <3>4 DEF DnsInv
  <2>2. CASE ServerReceive(i)
    <3>1. Turn(i)
      <4>1. ~WildHandler(i) /\ ~TaskEnd(i)
        BY <2>2 DEF ServerReceive, WildHandler, TaskEnd, At
      <4> QED BY <1>5, <4>1, TaskTurns
    <3>2. FilledInv'
      BY <1>0, <2>2, <3>1, ReceiveFilled
    <3>3. answer' = answer
      BY <2>2 DEF ServerReceive
    <3> QED BY <1>0, <3>2, <3>3 DEF DnsInv
  <2>3. CASE TaskAnswer(i)
    <3>1. Turn(i)
      <4>1. ~WildHandler(i) /\ ~TaskEnd(i)
        BY <2>3 DEF TaskAnswer, WildHandler, TaskEnd, At
      <4> QED BY <1>5, <4>1, TaskTurns
    <3>2. buf' = buf
      BY <2>3 DEF TaskAnswer
    <3>3. FilledInv'
      BY <1>0, <3>1, <3>2, TurnFilled
    <3>4. AnswerRight(answer')
      BY <1>0, <2>3, AnswersRight
    <3> QED BY <3>3, <3>4 DEF DnsInv
  <2>4. CASE WildHandler(i)
    <3>1. \A j \in Slots : task'[j].pc = "none"
      BY <2>4 DEF WildHandler, NoTask
    <3>2. buf' = [j \in Slots |-> <<>>] /\ answer' = NoAnswer
      BY <2>4 DEF WildHandler
    <3>3. buf' = [j \in Slots |-> buf'[j]]
      BY <3>2
    <3>4. FilledInv'
      BY <3>1, <3>3 DEF FilledInv
    <3> QED BY <3>2, <3>4, NoAnswerRight DEF DnsInv
  <2>5. CASE TaskEnd(i)
    <3>1. FilledInv'
      BY <1>0, <2>5, EndFilled
    <3>2. answer' = answer
      BY <2>5 DEF TaskEnd
    <3> QED BY <1>0, <3>1, <3>2 DEF DnsInv
  <2> QED BY <1>5, <2>1, <2>2, <2>3, <2>4, <2>5 DEF TaskStep
<1> QED BY <1>2, <1>3, <1>4, <1>5 DEF ServiceNext

\* A DNS server answers every query for its host name, in any case, and no query for a
\* name with other letters, for every host name, every datagram and every content that
\* earlier datagrams and the creation of the task have left in the buffer and behind it.
THEOREM HostAlwaysAnswered == ServiceSpec => []DnsAnswersHost
<1>1. ServiceInit => ServInv /\ DnsInv
  BY ServInit, DnsInit
<1>2. ServInv /\ DnsInv /\ [ServiceNext]_serviceVars => (ServInv /\ DnsInv)'
  BY ServNext, DnsNext DEF ServInv
<1>3. DnsInv => DnsAnswersHost
  BY RightIsDns DEF DnsInv
<1> QED BY <1>1, <1>2, <1>3, PTL DEF ServiceSpec

=============================================================================
