----------------------------- MODULE HttpConfig -----------------------------
(***************************************************************************)
(* The HTTP configuration server: device_http_server.c registers a table   *)
(* of JSON endpoints (json_static_config.c) whose fields point into the    *)
(* device's configuration; json_helper.c serves GET and POST on them.  The *)
(* server's task handles one request at a time and takes one step per      *)
(* field; the application meanwhile sets values (device.c), restarts and   *)
(* stops the server.                                                       *)
(*                                                                         *)
(* The configuration is the memory it occupies: device_conf_t is eight     *)
(* bytes, and the endpoints store whole ints through pointers to them, so  *)
(* two bytes of the structure behind it (settings) belong to it as well.   *)
(*                                                                         *)
(* Beside the server the module has a plain user of the JSON library, who  *)
(* prints, minifies, damages and parses documents.                         *)
(***************************************************************************)
EXTENDS CJsonText, FiniteSets

CONSTANTS BYTE,                 \* values of a byte
          JSON_FIELD_NUM, JSON_HANDLERS_NUM, JSON_MAX_SIZE,
          NullFields,           \* fields whose pointer is NULL when the table is built
          Bodies,               \* texts that clients post
          AppValues,            \* values that the application sets
          Humidities,           \* values of the sensor
          BadRegistrations,     \* which registration fails (0: none)
          Cuts,                 \* where a body breaks off
          Documents,            \* documents of the library's user
          MAX_FAIL,             \* in a call of the library, allocations 1..MAX_FAIL may fail
          MAX_REQUESTS, MAX_CALLS, MAX_SENSE   \* bounds of the model

VARIABLES cfg,      \* the bytes of device.config, and two behind them
          status,   \* device.status
          srv,      \* the server: "down", "up", or "stuck" in its own httpd_stop
          reg,      \* which registration with it failed (0: none)
          req,      \* the request in hand, or NoReq
          app,      \* the application task: idle, or waiting in httpd_stop
          heap,     \* blocks that are allocated
          lib,      \* the library's user
          told,     \* history: the value last posted to a field, if nothing overlapped it
          count     \* history: requests, calls of the application, sensor values

vars == <<cfg, status, srv, reg, req, app, heap, lib, told, count>>

-----------------------------------------------------------------------------
(* Memory.  An int is four bytes, little endian, two's complement. *)

ASSUME IntWidth == INT_MAX = (BYTE * BYTE * BYTE * BYTE) \div 2 - 1

Pow(k) == CASE k = 0 -> 1 [] k = 1 -> BYTE [] k = 2 -> BYTE * BYTE [] k = 3 -> BYTE * BYTE * BYTE
Modulus == 2 * (INT_MAX + 1)

\* *(int *)ptr, read and written at offset a.
LoadInt(mem, a) ==
    LET u == mem[a] + mem[a+1] * Pow(1) + mem[a+2] * Pow(2) + mem[a+3] * Pow(3)
    IN  IF u > INT_MAX THEN u - Modulus ELSE u
StoreInt(mem, a, v) ==
    [b \in DOMAIN mem |-> IF b \in a..(a+3) THEN ((v % Modulus) \div Pow(b - a)) % BYTE
                          ELSE mem[b]]

\* device_conf_t: the offsets of its members.
Offset == [speed1 |-> 0, speed2 |-> 1, off_timer |-> 2, on_timer |-> 3,
           inter_timer |-> 4, motion_en |-> 5, humidity |-> 6, wifi_en |-> 7]
ConfFields == DOMAIN Offset
BoolFields == {"motion_en", "wifi_en", "motion_cur", "lt1", "lt2", "admin"}
StrFields == {"info", "title"}

\* The bytes that a POST of the field writes.
Footprint(f) == IF f \in BoolFields THEN {Offset[f]} ELSE Offset[f]..(Offset[f] + 3)

-----------------------------------------------------------------------------
(* The table of endpoints. *)

EmptyTable == [fields |-> <<>>, start |-> 0, update_last |-> FALSE, handlers |-> <<>>]

\* Mutant of add_json_field: the next endpoint's fields start where the last one's did.
AddFieldKeepsStart(t, f) ==
    IF f \in NullFields \/ Len(t.fields) >= JSON_FIELD_NUM THEN t
    ELSE [t EXCEPT !.update_last = FALSE, !.fields = Append(@, f)]

add_json_field(t, f) ==
    IF f \in NullFields \/ Len(t.fields) >= JSON_FIELD_NUM THEN t
    ELSE [t EXCEPT !.start = IF t.update_last THEN Len(t.fields) ELSE @,
                   !.update_last = FALSE,
                   !.fields = Append(@, f)]

add_json_endpoint(t, uri, method) ==
    IF Len(t.handlers) >= JSON_HANDLERS_NUM \/ Len(t.fields) = t.start THEN t
    ELSE [t EXCEPT !.handlers = Append(@, [uri |-> uri, method |-> method,
                                           fields |-> SubSeq(t.fields, t.start + 1, Len(t.fields))]),
                   !.update_last = TRUE]

\* What register_json_api_handlers declares: endpoints with their fields and methods.
Declared ==
    << <<"/status", <<"humidity_cur", "motion_cur", "lt1", "lt2", "fan_speed", "admin",
                      "info", "title">>, <<"GET">> >>,
       <<"/wifi", <<"wifi_en">>, <<"POST", "GET">> >>,
       <<"/timers", <<"off_timer", "on_timer">>, <<"GET", "POST">> >>,
       <<"/speed", <<"speed1", "speed2">>, <<"GET", "POST">> >>,
       <<"/interval", <<"inter_timer">>, <<"GET", "POST">> >>,
       <<"/motion", <<"motion_en">>, <<"GET", "POST">> >>,
       <<"/humidity", <<"humidity">>, <<"GET", "POST">> >> >>

register_json_api_handlers ==
    LET Declare(t, d) ==
            FoldLeft(LAMBDA u, m : add_json_endpoint(u, d[1], m),
                     FoldLeft(add_json_field, t, d[2]), d[3])
    IN  FoldLeft(Declare, EmptyTable, Declared).handlers

StaticUris == <<"/exit", "/admin", "/filter_reset", "/update", "/favicon.ico",
                "/style.css", "/script.js", "/">>

\* register_static_uri_handlers stops at the first registration that fails.
register_static_uri_handlers(bad) ==
    LET all == [i \in DOMAIN StaticUris |->
                   [uri |-> StaticUris[i],
                    method |-> IF StaticUris[i] = "/update" THEN "POST" ELSE "GET",
                    fields |-> <<>>]]
    IN  IF bad \in DOMAIN all THEN SubSeq(all, 1, bad - 1) ELSE all

\* Registration number `bad' fails; a JSON endpoint that fails is passed over.
Registered(bad) ==
    LET json == register_json_api_handlers
    IN  (IF bad \in DOMAIN json THEN RemoveAt(json, bad) ELSE json)
        \o register_static_uri_handlers(bad - Len(json))

Tables == [bad \in BadRegistrations |-> Range(Registered(bad))]

-----------------------------------------------------------------------------
Unknown == <<"unknown">>
NoReq == [kind |-> "none"]
NoLib == [stage |-> "none"]
Key(f) == <<Letter(f)>>
Requests == count[1]

Init ==
    /\ cfg = [b \in 0..9 |-> 0]
    /\ status = [humidity |-> 0, admin_en |-> FALSE]
    /\ srv = "down" /\ reg = 0 /\ req = NoReq /\ app = "idle" /\ heap = 0
    /\ lib \in {NoLib, [stage |-> "idle"]}
    /\ told = [f \in ConfFields |-> Unknown]
    /\ count = <<0, 0, 0>>

\* Whatever else writes bytes of a field makes the posted value unknown.
Overwrites(bytes, f, v) ==
    [g \in ConfFields |-> IF g = f THEN v
                          ELSE IF Footprint(g) \cap bytes # {} THEN Unknown ELSE told[g]]

-----------------------------------------------------------------------------
(* The application. *)

AppCall == lib = NoLib /\ app = "idle" /\ count[2] < MAX_CALLS /\ count' = [count EXCEPT ![2] = @ + 1]

\* device.c: the sizes of the lists and the comparison each setter makes.
Accepts(f, v) ==
    /\ v >= 0
    /\ CASE f \in {"speed1", "speed2"} -> v < 6
         [] f = "humidity" -> v < 7
         [] f = "inter_timer" -> v <= 4
         [] f \in {"on_timer", "off_timer"} -> v <= 4

\* set_speed, set_humidity, set_inter_timer and set_timer store members that they
\* accept, one by one.
AppSet(f, v) ==
    /\ AppCall
    /\ IF Accepts(f, v)
       THEN /\ cfg' = [cfg EXCEPT ![Offset[f]] = v]
            /\ told' = Overwrites({Offset[f]}, "none", Unknown)
       ELSE UNCHANGED <<cfg, told>>
    /\ req' = IF req.kind = "post" THEN [req EXCEPT !.others = @ \cup {Offset[f]}] ELSE req
    /\ UNCHANGED <<status, srv, reg, app, heap, lib>>

\* The second half of init_http_server: httpd_start may fail.
StartServer(bad) ==
    \/ /\ srv' = "up" /\ reg' = bad
       /\ status' = [status EXCEPT !.admin_en = FALSE]
       /\ app' = "idle"
    \/ /\ app' = "idle"
       /\ UNCHANGED <<srv, reg, status>>

\* init_http_server: a server that exists is stopped first, which waits for its task.
init_http_server ==
    /\ AppCall
    /\ IF srv = "down"
       THEN \E bad \in BadRegistrations : StartServer(bad)
       ELSE app' = "restart" /\ UNCHANGED <<srv, reg, status>>
    /\ UNCHANGED <<cfg, req, heap, lib, told>>

stop_http_server ==
    /\ AppCall
    /\ app' = IF srv = "down" THEN "idle" ELSE "stop"
    /\ UNCHANGED <<cfg, status, srv, reg, req, heap, lib, told>>

\* External: the server's task ends between two requests and httpd_stop returns.
ServerEnds ==
    /\ app \in {"restart", "stop"} /\ srv = "up" /\ req = NoReq
    /\ srv' = "down"
    /\ app' = IF app = "restart" THEN "start" ELSE "idle"
    /\ UNCHANGED <<cfg, status, reg, req, heap, lib, told, count>>

RestartServer ==
    /\ app = "start"
    /\ \E bad \in BadRegistrations : StartServer(bad)
    /\ UNCHANGED <<cfg, req, heap, lib, told, count>>

\* The humidity sensor writes status.humidity in its own task.
Sense ==
    /\ lib = NoLib /\ count[3] < MAX_SENSE
    /\ \E h \in Humidities : status' = [status EXCEPT !.humidity = h]
    /\ count' = [count EXCEPT ![3] = @ + 1]
    /\ UNCHANGED <<cfg, srv, reg, req, app, heap, lib, told>>

-----------------------------------------------------------------------------
(* Requests. *)

\* External: the server takes the next request for the endpoint h.
Take(h) ==
    /\ srv = "up" /\ app = "idle" /\ req = NoReq /\ Requests < MAX_REQUESTS
    /\ count' = [count EXCEPT ![1] = @ + 1]

Answered(h, answer, text) ==
    [kind |-> "answered", uri |-> h.uri, answer |-> answer, text |-> text, known |-> <<>>]

\* json_post_handler up to httpd_req_recv: `got' symbols of the body arrive (0: the
\* receive fails).
PostBegin(h, text, got) ==
    LET read == text # <<>> /\ Width(text) <= JSON_MAX_SIZE - 1 /\ got > 0
    IN  /\ Take(h) /\ h.method = "POST" /\ h.fields # <<>>
        /\ req' = IF read THEN [kind |-> "body", h |-> h, text |-> SubSeq(text, 1, got)]
                  ELSE Answered(h, "400", <<>>)
        /\ UNCHANGED <<cfg, status, srv, reg, app, heap, lib, told>>

\* In a step of a handler, the allocation number `fail' of the step fails (0: none).
PostParse(fail) ==
    LET r == cJSON_Parse(req.text, fail)
    IN  /\ req.kind = "body"
        /\ heap' = heap + r.live
        /\ req' = IF r.ok
                  THEN [kind |-> "post", h |-> req.h, i |-> 1, json |-> r.v,
                        before |-> cfg, others |-> {}]    \* history: the last two
                  ELSE Answered(req.h, "400", <<>>)
        /\ UNCHANGED <<cfg, status, srv, reg, app, lib, told, count>>

\* Whether the loop stores the item in the field.
Fits(f, item) ==
    IF f \in BoolFields THEN item[1] \in {"true", "false"} ELSE item[1] = "num"

\* Mutant of PostField: a boolean is stored as an int.
PostFieldWide ==
    LET f == req.h.fields[req.i]
        item == get_object_item(req.json, Key(f))
        v == IF f \in BoolFields THEN (IF item[1] = "true" THEN 1 ELSE 0) ELSE ValueInt(item[2])
    IN  /\ req.kind = "post" /\ req.i <= Len(req.h.fields)
        /\ req' = [req EXCEPT !.i = @ + 1]
        /\ cfg' = IF Fits(f, item) THEN StoreInt(cfg, Offset[f], v) ELSE cfg
        /\ UNCHANGED <<status, srv, reg, app, heap, lib, told, count>>

\* One round of the loop.
PostField ==
    LET f == req.h.fields[req.i]
        item == get_object_item(req.json, Key(f))
        v == IF f \in BoolFields THEN item[1] = "true" ELSE ValueInt(item[2])
    IN  /\ req.kind = "post" /\ req.i <= Len(req.h.fields)
        /\ req' = [req EXCEPT !.i = @ + 1]
        /\ IF Fits(f, item)
           THEN /\ cfg' = IF f \in BoolFields
                          THEN [cfg EXCEPT ![Offset[f]] = IF v THEN 1 ELSE 0]
                          ELSE StoreInt(cfg, Offset[f], v)
                /\ told' = Overwrites(Footprint(f), f, IF f \in BoolFields THEN item
                                                             ELSE <<"num", 2 * v>>)
           ELSE UNCHANGED <<cfg, told>>
        /\ UNCHANGED <<status, srv, reg, app, heap, lib, count>>

\* The document is deleted and the answer sent.
PostEnd ==
    /\ req.kind = "post" /\ req.i > Len(req.h.fields)
    /\ heap' = cJSON_Delete(heap, Blocks(req.json))
    /\ req' = Answered(req.h, "OK", <<>>)
    /\ UNCHANGED <<cfg, status, srv, reg, app, lib, told, count>>

GetBegin(h, fail) ==
    LET r == cJSON_Create(<<"obj", <<>>>>, 0, heap, fail)
    IN  /\ Take(h) /\ h.method = "GET" /\ h.fields # <<>>
        /\ heap' = r.live
        /\ req' = IF ~r.ok THEN Answered(h, "500", <<>>)
                  ELSE [kind |-> "get", h |-> h, i |-> 1, obj |-> r, known |-> <<>>]
        /\ UNCHANGED <<cfg, status, srv, reg, app, lib, told>>

Boolean(b) == IF b THEN <<"true">> ELSE <<"false">>

\* add_field_to_json: what the field holds now.
FieldValue(f) ==
    CASE f \in StrFields -> <<"str", <<Letter(f)>>>>
      [] f = "humidity_cur" -> <<"num", 2 * status.humidity>>
      [] f = "fan_speed" -> <<"num", 0>>
      [] f \in {"motion_cur", "lt1", "lt2"} -> Boolean(FALSE)
      [] f = "admin" -> Boolean(status.admin_en)
      [] f \in BoolFields -> Boolean(cfg[Offset[f]] # 0)
      [] OTHER -> <<"num", 2 * LoadInt(cfg, Offset[f])>>

\* Mutant of GetField: the members added before the failure stay allocated.
GetFieldLeaks(fail) ==
    LET f == req.h.fields[req.i]
        r == cJSON_AddToObject([req.obj EXCEPT !.n = 0, !.live = heap], Key(f), FieldValue(f), fail)
    IN  /\ req.kind = "get" /\ req.i <= Len(req.h.fields)
        /\ IF r.ok
           THEN /\ req' = [req EXCEPT !.i = @ + 1, !.obj = r,
                                      !.known = Append(@, IF f \in ConfFields THEN told[f] ELSE Unknown)]
                /\ heap' = r.live
           ELSE /\ req' = Answered(req.h, "500", <<>>)
                /\ heap' = cJSON_Delete(r.live, 1)
        /\ UNCHANGED <<cfg, status, srv, reg, app, lib, told, count>>

GetField(fail) ==
    LET f == req.h.fields[req.i]
        r == cJSON_AddToObject([req.obj EXCEPT !.n = 0, !.live = heap], Key(f), FieldValue(f), fail)
    IN  /\ req.kind = "get" /\ req.i <= Len(req.h.fields)
        /\ IF r.ok
           THEN /\ req' = [req EXCEPT !.i = @ + 1, !.obj = r,
                                      !.known = Append(@, IF f \in ConfFields THEN told[f] ELSE Unknown)]
                /\ heap' = r.live
           ELSE /\ req' = Answered(req.h, "500", <<>>)
                /\ heap' = cJSON_Delete(r.live, Blocks(req.obj.v))
        /\ UNCHANGED <<cfg, status, srv, reg, app, lib, told, count>>

\* The object is printed and deleted, the text sent and freed.
GetEnd(fail) ==
    LET p == print(req.obj.v, FALSE, 0, heap, fail)
        kept == cJSON_Delete(p.live, Blocks(req.obj.v))
    IN  /\ req.kind = "get" /\ req.i > Len(req.h.fields)
        /\ heap' = IF p.ok THEN kept - 1 ELSE kept
        /\ req' = IF p.ok THEN [Answered(req.h, "json", p.text) EXCEPT !.known = req.known]
                  ELSE Answered(req.h, "500", <<>>)
        /\ UNCHANGED <<cfg, status, srv, reg, app, lib, told, count>>

\* The handlers of the fixed pages; /exit waits in httpd_stop for its own task.
StaticRequest(h) ==
    /\ Take(h) /\ h.fields = <<>>
    /\ status' = IF h.uri = "/admin" THEN [status EXCEPT !.admin_en = TRUE] ELSE status
    /\ srv' = IF h.uri = "/exit" THEN "stuck" ELSE srv
    /\ req' = IF h.uri = "/exit" THEN NoReq ELSE Answered(h, "page", <<>>)
    /\ UNCHANGED <<cfg, reg, app, heap, lib, told>>

\* External: the server goes on to the next request.
NextRequest ==
    /\ req.kind = "answered"
    /\ req' = NoReq
    /\ UNCHANGED <<cfg, status, srv, reg, app, heap, lib, told, count>>

-----------------------------------------------------------------------------
(* A user of the library. *)

serverVars == <<cfg, status, srv, reg, req, app, told, count>>

LibPrint(d, fmt, fail) ==
    LET r == print(d, fmt, 0, 0, fail)
    IN  /\ lib.stage = "idle"
        /\ heap' = heap + r.live
        /\ lib' = IF r.ok THEN [stage |-> "text", doc |-> d, fmt |-> fmt, text |-> r.text,
                                intact |-> TRUE, misread |-> FALSE]
                  ELSE lib
        /\ UNCHANGED serverVars

\* cJSON_PrintBuffered and cJSON_PrintPreallocated, with the text of LibPrint at hand.
LibBuffered(length, fail) ==
    LET r == cJSON_PrintBuffered(lib.doc, length, lib.fmt, 0, 0, fail)
    IN  /\ lib.stage = "text" /\ lib.intact
        /\ lib' = [stage |-> "buffered", ok |-> r.ok, same |-> r.text = lib.text, fail |-> fail]
        /\ heap' = (heap - 1) + r.live
        /\ UNCHANGED serverVars

\* Buffers around the size of the text.
Lengths(w) == 0..7 \cup ((IF w < 8 THEN 0 ELSE w - 2)..(w + 7))

LibPreallocated ==
    /\ lib.stage = "text" /\ lib.intact
    /\ \E length \in Lengths(Width(lib.text)) :
        LET p == cJSON_PrintPreallocated(lib.doc, length, lib.fmt) IN
        lib' = [stage |-> "filled", ok |-> p.ok, over |-> p.over,
                same |-> p.done \o p.tail = lib.text, spare |-> length - Width(lib.text)]
    /\ heap' = heap - 1
    /\ UNCHANGED serverVars

\* A string that ends in a backslash: cJSON_Minify takes its end for an escaped quote.
BackslashEnds(t) ==
    \E i \in 1..(Len(t) - 2) : SubSeq(t, i, i + 2) = <<Backslash, Backslash, Quote>>

LibMinify ==
    /\ lib.stage = "text" /\ lib.intact
    /\ lib' = [lib EXCEPT !.stage = "minified", !.text = cJSON_Minify(@), !.misread = BackslashEnds(lib.text)]
    /\ UNCHANGED <<heap, serverVars>>

\* A symbol of the text is lost.  Two numbers must not run together and the
\* digits of an escape stay, so that the symbols still stand for the text.
LibDamage ==
    /\ lib.stage = "text" /\ lib.intact
    /\ \E i \in DOMAIN lib.text :
        LET t == RemoveAt(lib.text, i)
        IN  /\ lib.text[i][1] # "hex"
            /\ ~ \E k \in 1..(Len(t) - 1) : t[k][1] = "num" /\ t[k+1][1] = "num"
            /\ lib' = [lib EXCEPT !.text = t, !.intact = FALSE]
    /\ UNCHANGED <<heap, serverVars>>

LibParse(fail) ==
    LET r == cJSON_Parse(lib.text, fail)
    IN  /\ lib.stage \in {"text", "minified"}
        /\ lib' = [stage |-> "parsed", doc |-> lib.doc, intact |-> lib.intact,
                   misread |-> lib.misread, fail |-> fail,
                   ok |-> r.ok, v |-> r.v]
        /\ heap' = (heap - 1) + r.live
        /\ UNCHANGED serverVars

\* The user deletes what it got.
LibDone ==
    /\ lib.stage \in {"buffered", "filled", "parsed"}
    /\ heap' = cJSON_Delete(heap, IF lib.stage = "filled" \/ ~lib.ok THEN 0
                                  ELSE IF lib.stage = "buffered" THEN 1 ELSE Blocks(lib.v))
    /\ lib' = [stage |-> "idle"]
    /\ UNCHANGED serverVars

-----------------------------------------------------------------------------
ServerTask ==
    \/ \E fail \in 0..MAX_FAIL : PostParse(fail) \/ GetField(fail) \/ GetEnd(fail)
    \/ PostField \/ PostEnd \/ NextRequest \/ ServerEnds

Next ==
    \/ \E f \in ConfFields \ BoolFields, v \in AppValues : AppSet(f, v)
    \/ init_http_server \/ stop_http_server \/ RestartServer \/ Sense
    \/ \E h \in (IF srv = "up" THEN Tables[reg] ELSE {}) :
         \/ \E text \in Bodies : \E got \in {0, Len(text)} \cup (Cuts \cap 0..Len(text)) :
              PostBegin(h, text, got)
         \/ \E fail \in {0, 1} : GetBegin(h, fail)
         \/ StaticRequest(h)
    \/ ServerTask
    \/ \E d \in Documents, fmt \in BOOLEAN, fail \in 0..MAX_FAIL : LibPrint(d, fmt, fail)
    \/ \E length \in 0..9, fail \in 0..MAX_FAIL : LibBuffered(length, fail)
    \/ LibPreallocated \/ LibMinify \/ LibDamage
    \/ \E fail \in 0..MAX_FAIL : LibParse(fail)
    \/ LibDone

Spec == Init /\ [][Next]_vars

-----------------------------------------------------------------------------
(* Properties. *)

DeclaredFields(uri) ==
    SelectSeq(Declared[SelectInSeq(Declared, LAMBDA d : d[1] = uri)][2],
              LAMBDA f : f \notin NullFields)

\* A GET that is answered names exactly the endpoint's fields, in order, and every
\* field has the value of the last POST of it (cut and saturated to an int) unless
\* something overlapping was stored since: neither a body that arrived in part, nor an
\* allocation that failed, nor the place of the fields in the table can change that.
GetTellsLastPost ==
    req.kind = "answered" /\ req.answer = "json" =>
        LET ms == cJSON_Parse(req.text, 0).v[2]
            fs == DeclaredFields(req.uri)
        IN  /\ Len(ms) = Len(fs)
            /\ \A i \in DOMAIN fs : /\ ms[i][1] = Key(fs[i])
                                    /\ req.known[i] \in {Unknown, ms[i][2]}

\* While a POST is served, only bytes change that belong to a field of its endpoint
\* which the body names with a value of the right type, or that the application set.
PostFootprint ==
    req.kind = "post" =>
        \A b \in DOMAIN cfg : cfg[b] # req.before[b] =>
            \/ b \in req.others
            \/ \E f \in Range(DeclaredFields(req.h.uri)) :
                 b \in Footprint(f) /\ Fits(f, get_object_item(req.json, Key(f)))

\* Whatever allocation fails, in the parser, the printers or the handlers, the blocks
\* that stay allocated are those of the document or text somebody still holds.
NoLeak ==
    heap = (CASE req.kind = "post" -> Blocks(req.json)
              [] req.kind = "get" -> Blocks(req.obj.v)
              [] OTHER -> 0)
         + (CASE lib.stage \in {"text", "minified"} -> 1
              [] lib.stage = "buffered" /\ lib.ok -> 1
              [] lib.stage = "parsed" /\ lib.ok -> Blocks(lib.v)
              [] OTHER -> 0)

\* A printed document, formatted or not, minified or not, is parsed as that document;
\* and what the parser makes of a damaged text prints as a text of the same value.
RoundTrip ==
    lib.stage = "parsed" =>
        /\ lib.intact /\ ~lib.misread => IF lib.ok THEN lib.v = lib.doc ELSE lib.fail # 0
        /\ lib.ok => cJSON_Parse(print(lib.v, TRUE, 0, 0, 0).text, 0).v = lib.v

\* No printer writes behind its buffer; those that finish give the same text; and a
\* buffer of the text, its NUL and five bytes more (cJSON.h) is always enough.
PrintersAgree ==
    /\ lib.stage = "filled" => /\ ~lib.over
                               /\ lib.ok => lib.same
                               /\ lib.spare >= 6 => lib.ok
    /\ lib.stage = "buffered" => IF lib.ok THEN lib.same ELSE lib.fail # 0

=============================================================================
