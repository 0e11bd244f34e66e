------------------------------ MODULE CJsonText ------------------------------
(***************************************************************************)
(* The text half of the JSON library H/cJSON.c: parsing, printing and      *)
(* minifying, with the allocations they make.  The HTTP server parses the  *)
(* bodies of its requests and prints its answers with it.                  *)
(*                                                                         *)
(* A text is a sequence of symbols.  A symbol is a tuple that begins with  *)
(* its kind: a structural character, a whole literal or a whole number, so *)
(* that offsets count symbols and Width gives back the bytes.  A document  *)
(* is a tuple as well:                                                     *)
(*   <<"null">> <<"true">> <<"false">> <<"num", n>> <<"str", s>>           *)
(*   <<"raw", text>> <<"arr", <<v, ...>>>> <<"obj", <<<<key, v>>, ...>>>>  *)
(* where strings and keys are sequences of symbols and a number n stands   *)
(* for the double n/2, so that numbers with a fraction exist.              *)
(*                                                                         *)
(* Every operator that allocates counts its allocations in n; allocation   *)
(* number `fail' fails (0: none does).  live is the number of blocks that  *)
(* are allocated and not yet freed.                                        *)
(***************************************************************************)
EXTENDS Integers, Sequences, SequencesExt

CONSTANTS INT_MAX,            \* largest int; also the largest buffer
          NESTING_LIMIT,      \* CJSON_NESTING_LIMIT
          BUFFER_SIZE         \* default_buffer_size of print

INT_MIN == -INT_MAX - 1

-----------------------------------------------------------------------------
(* Symbols. *)

Sym(kind) == <<kind>>
Quote == Sym("quote")
Backslash == Sym("backslash")
NUL == Sym("nul")
Letter(c) == <<"char", c>>
Hex(h) == <<"hex", h>>        \* four hexadecimal digits
Run(k) == <<"run", k>>        \* k plain characters
Lit(v) == <<"lit", v>>

\* The symbols whose code is at most 32; NUL is one of them.
Blank == {Sym("space"), Sym("tab"), Sym("newline"), Sym("ctrl"), NUL}

\* The digits that sprintf gives an integer.
Digits[n \in Nat] == IF n < 10 THEN 1 ELSE 1 + Digits[n \div 10]
NumberWidth(n) ==
    LET a == IF n < 0 THEN -n ELSE n
    IN  (IF n < 0 THEN 1 ELSE 0) + Digits[a \div 2] + (IF a % 2 = 1 THEN 2 ELSE 0)

SymWidth(s) ==
    CASE s[1] = "lit" -> (IF s[2] = "false" THEN 5 ELSE 4)
      [] s[1] = "num" -> NumberWidth(s[2])
      [] s[1] = "hex" -> 4
      [] s[1] = "wide" -> 4
      [] s[1] = "bom" -> 3
      [] s[1] = "run" -> s[2]
      [] OTHER -> 1

RECURSIVE WidthOfFirst(_, _)
WidthOfFirst(text, k) ==
    IF k = 0 THEN 0 ELSE SymWidth(text[k]) + WidthOfFirst(text, k - 1)
Width(text) == WidthOfFirst(text, Len(text))

\* The integer an item carries beside its double, saturated.
ValueInt(n) ==
    CASE n >= 2 * INT_MAX -> INT_MAX
      [] n <= 2 * INT_MIN -> INT_MIN
      [] n >= 0 -> n \div 2
      [] OTHER -> -((-n) \div 2)

-----------------------------------------------------------------------------
(* The blocks that an item owns: itself, its name, its string and its      *)
(* children.  cJSON_Delete frees exactly these.                            *)

RECURSIVE Blocks(_)
Blocks(v) ==
    CASE v[1] \in {"str", "raw"} -> 2
      [] v[1] = "arr" -> FoldLeft(LAMBDA k, e : k + Blocks(e), 1, v[2])
      [] v[1] = "obj" -> FoldLeft(LAMBDA k, m : k + 1 + Blocks(m[2]), 1, v[2])
      [] OTHER -> 1

\* A list of members under construction; an entry may lack its name or its value.
ListBlocks(list) ==
    FoldLeft(LAMBDA k, m : k + (IF m.named THEN 1 ELSE 0) + Blocks(m.v), 0, list)

cJSON_Delete(live, blocks) == live - blocks

-----------------------------------------------------------------------------
(* Parsing.  b is the buffer, o an offset into it (from 0), d the depth.   *)

At(b, o) == IF o < Len(b) THEN b[o + 1] ELSE Sym("end")

RECURSIVE SkipBlanks(_, _)
SkipBlanks(b, o) == IF At(b, o) \in Blank THEN SkipBlanks(b, o + 1) ELSE o

buffer_skip_whitespace(b, o) ==
    IF o >= Len(b) THEN o
    ELSE LET e == SkipBlanks(b, o) IN IF e = Len(b) THEN e - 1 ELSE e

skip_utf8_bom(b) == IF At(b, 0) = Sym("bom") /\ Width(b) > 4 THEN 1 ELSE 0

\* The offset of the closing quote, or of the end of the buffer.
RECURSIVE StringEnd(_, _)
StringEnd(b, o) ==
    CASE o >= Len(b) -> Len(b)
      [] At(b, o) = Quote -> o
      [] At(b, o) = Backslash -> IF o + 1 >= Len(b) THEN Len(b) ELSE StringEnd(b, o + 2)
      [] OTHER -> StringEnd(b, o + 1)

\* utf16_literal_to_utf8: the character of \uXXXX or of a surrogate pair and
\* the offset behind it; no characters if the literal is refused.
utf16_literal_to_utf8(b, o, e) ==
    LET h == At(b, o + 2)[2]
    IN  CASE o + 2 >= e -> <<<<>>, o>>
          [] h = "low" -> <<<<>>, o>>
          [] h = "high" ->
               IF o + 5 < e /\ At(b, o + 3) = Backslash /\ At(b, o + 4) = Letter("u")
                  /\ At(b, o + 5) = Hex("low")
               THEN <<<<Sym("wide")>>, o + 6>> ELSE <<<<>>, o>>
          [] h = "zero" -> <<<<NUL>>, o + 3>>
          [] OTHER -> <<<<Sym("ctrl")>>, o + 3>>

\* What stands for the character behind a backslash.
Escape(c) ==
    CASE c = Letter("n") -> <<Sym("newline")>>
      [] c = Letter("t") -> <<Sym("tab")>>
      [] c \in {Quote, Backslash, Sym("/")} -> <<c>>
      [] OTHER -> <<>>

\* Copies the literal from o to its end e; the flag is FALSE for a bad escape.
RECURSIVE Unescape(_, _, _, _)
Unescape(b, o, e, out) ==
    IF o >= e THEN <<TRUE, out>>
    ELSE IF At(b, o) # Backslash THEN Unescape(b, o + 1, e, Append(out, At(b, o)))
    ELSE LET u == IF At(b, o + 1) = Letter("u") THEN utf16_literal_to_utf8(b, o, e)
                  ELSE <<Escape(At(b, o + 1)), o + 2>>
         IN  IF u[1] = <<>> THEN <<FALSE, out>> ELSE Unescape(b, u[2], e, out \o u[1])

\* A C string ends at its first NUL.
CString(s) ==
    IF \E i \in DOMAIN s : s[i] = NUL
    THEN SubSeq(s, 1, SelectInSeq(s, LAMBDA c : c = NUL) - 1) ELSE s

Failed(n, live) == [ok |-> FALSE, off |-> 0, v |-> Sym("invalid"), n |-> n, live |-> live]
Parsed(o, v, n, live) == [ok |-> TRUE, off |-> o, v |-> v, n |-> n, live |-> live]

parse_string(b, o, n, live, fail) ==
    LET e == StringEnd(b, o + 1)
        u == Unescape(b, o + 1, e, <<>>)
    IN  CASE At(b, o) # Quote \/ e >= Len(b) -> Failed(n, live)
          [] n + 1 = fail -> Failed(n + 1, live)
          [] ~u[1] -> Failed(n + 1, (live + 1) - 1)          \* output is freed
          [] OTHER -> Parsed(e + 1, <<"str", CString(u[2])>>, n + 1, live + 1)

\* What a failing list leaves behind: the list is deleted.
DropList(r, list) == Failed(r.n, cJSON_Delete(r.live, ListBlocks(list)))

RECURSIVE parse_value(_, _, _, _, _, _)
RECURSIVE parse_list(_, _, _, _, _, _, _, _)

\* An item as it is linked to the list: no name, no value.
NewItem == [named |-> FALSE, key |-> <<>>, v |-> Sym("invalid")]

\* Behind the value of an item, which parse_value answered with r.
parse_list_rest(b, d, fail, list, item, r) ==
    LET o == buffer_skip_whitespace(b, r.off)
        full == Append(list, [item EXCEPT !.v = r.v])
    IN  CASE ~r.ok -> DropList(r, Append(list, item))
          [] At(b, o) = Sym(",") -> parse_list(b, o, d, r.n, r.live, fail, item.named, full)
          [] At(b, o) # (IF item.named THEN Sym("}") ELSE Sym("]")) -> DropList(r, full)
          [] OTHER ->
               Parsed(o + 1,
                      IF item.named
                      THEN <<"obj", [i \in DOMAIN full |-> <<full[i].key, full[i].v>>]>>
                      ELSE <<"arr", [i \in DOMAIN full |-> full[i].v]>>,
                      r.n, r.live)

\* Behind the name of an item, which parse_string answered with k.
parse_list_value(b, d, fail, list, k) ==
    LET o == buffer_skip_whitespace(b, k.off)
        item == [NewItem EXCEPT !.named = TRUE, !.key = k.v[2]]
    IN  CASE ~k.ok -> DropList(k, Append(list, NewItem))
          [] At(b, o) # Sym(":") -> DropList(k, Append(list, item))
          [] OTHER -> parse_list_rest(b, d, fail, list, item,
                        parse_value(b, buffer_skip_whitespace(b, o + 1), d, k.n, k.live, fail))

\* One round of the loop of parse_array and parse_object: a new item is linked
\* to the list, its name is parsed if `named', then its value.
parse_list(b, o, d, n, live, fail, named, list) ==
    LET o1 == buffer_skip_whitespace(b, o + 1)
    IN  CASE n + 1 = fail -> DropList(Failed(n + 1, live), list)
          [] ~named -> parse_list_rest(b, d, fail, list, NewItem,
                         parse_value(b, o1, d, n + 1, live + 1, fail))
          [] o + 1 >= Len(b) -> DropList(Failed(n + 1, live + 1), Append(list, NewItem))
          [] OTHER -> parse_list_value(b, d, fail, list,
                        parse_string(b, o1, n + 1, live + 1, fail))

\* parse_array and parse_object up to their loops.
parse_array(b, o, d, n, live, fail) ==
    LET o1 == buffer_skip_whitespace(b, o + 1)
    IN  CASE d >= NESTING_LIMIT -> Failed(n, live)
          [] At(b, o1) = Sym("]") -> Parsed(o1 + 1, <<"arr", <<>>>>, n, live)
          [] o1 >= Len(b) -> Failed(n, live)
          [] OTHER -> parse_list(b, o1 - 1, d + 1, n, live, fail, FALSE, <<>>)

parse_object(b, o, d, n, live, fail) ==
    LET o1 == buffer_skip_whitespace(b, o + 1)
    IN  CASE d >= NESTING_LIMIT -> Failed(n, live)
          [] At(b, o1) = Sym("}") -> Parsed(o1 + 1, <<"obj", <<>>>>, n, live)
          [] o1 >= Len(b) -> Failed(n, live)
          [] OTHER -> parse_list(b, o1 - 1, d + 1, n, live, fail, TRUE, <<>>)

\* parse_number: strtod takes the whole number; a lone minus is no number.
parse_number(b, o, n, live) ==
    IF At(b, o)[1] = "num" THEN Parsed(o + 1, At(b, o), n, live) ELSE Failed(n, live)

parse_value(b, o, d, n, live, fail) ==
    LET c == At(b, o)
    IN  CASE c[1] = "lit" -> Parsed(o + 1, Sym(c[2]), n, live)
          [] c = Quote -> parse_string(b, o, n, live, fail)
          [] c[1] = "num" \/ c = Sym("-") -> parse_number(b, o, n, live)
          [] c = Sym("[") -> parse_array(b, o, d, n, live, fail)
          [] c = Sym("{") -> parse_object(b, o, d, n, live, fail)
          [] OTHER -> Failed(n, live)

\* The end of cJSON_ParseWithLengthOpts, when the value has been parsed with result r.
ParseEnd(b, require_null_terminated, r) ==
    CASE ~r.ok -> Failed(r.n, cJSON_Delete(r.live, 1))
      [] require_null_terminated /\ At(b, buffer_skip_whitespace(b, r.off)) # NUL ->
           Failed(r.n, cJSON_Delete(r.live, Blocks(r.v)))
      [] OTHER -> r

\* cJSON_ParseWithLengthOpts without the position of the error.
ParseWithLengthOpts(b, require_null_terminated, fail) ==
    CASE b = <<>> -> Failed(0, 0)
      [] fail = 1 -> Failed(1, 0)
      [] OTHER -> ParseEnd(b, require_null_terminated,
                    parse_value(b, buffer_skip_whitespace(b, skip_utf8_bom(b)), 0, 1, 1, fail))

\* cJSON_Parse: the buffer is the string and its NUL; what follows the value is ignored.
cJSON_Parse(text, fail) == ParseWithLengthOpts(Append(text, NUL), FALSE, fail)

-----------------------------------------------------------------------------
(* Building and reading items. *)

\* A new item, and a copy of a string: one allocation each, number n + 1.
cJSON_New_Item(n, live, fail) ==
    IF n + 1 = fail THEN Failed(n + 1, live) ELSE Parsed(0, Sym("invalid"), n + 1, live + 1)
cJSON_strdup(r, fail) ==
    IF r.n + 1 = fail THEN Failed(r.n + 1, r.live) ELSE [r EXCEPT !.n = @ + 1, !.live = @ + 1]

\* cJSON_Create...: an item; a string needs a second block for its copy.
cJSON_Create(v, n, live, fail) ==
    LET item == cJSON_New_Item(n, live, fail)
        copy == cJSON_strdup(item, fail)
    IN  CASE ~item.ok -> item
          [] v[1] \notin {"str", "raw"} -> [item EXCEPT !.v = v]
          [] ~copy.ok -> Failed(copy.n, cJSON_Delete(copy.live, 1))
          [] OTHER -> [copy EXCEPT !.v = v]

add_item_to_array(list, item) == Append(list, item)

\* The name is copied and the item appended to the members of the object o.
add_item_to_object(o, key, item, fail) ==
    LET named == cJSON_strdup(item, fail)
    IN  IF named.ok
        THEN [named EXCEPT !.v = <<"obj", add_item_to_array(o.v[2], <<key, item.v>>)>>]
        ELSE named

\* cJSON_Add...ToObject: create, copy the name, append; or delete the item again.
cJSON_AddToObject(o, key, v, fail) ==
    LET item == cJSON_Create(v, o.n, o.live, fail)
        added == add_item_to_object(o, key, item, fail)
    IN  CASE ~item.ok -> item
          [] ~added.ok -> Failed(added.n, cJSON_Delete(added.live, Blocks(v)))
          [] OTHER -> added

\* get_object_item: the first member of that name; the children of an array have none.
get_object_item(v, name) ==
    LET ms == IF v[1] = "obj" THEN v[2] ELSE <<>>
        i == SelectInSeq(ms, LAMBDA m : m[1] = name)
    IN  IF i = 0 THEN Sym("missing") ELSE ms[i][2]

-----------------------------------------------------------------------------
(* Printing.  A printbuffer p holds the text in front of its offset (done) *)
(* and the terminated string that starts at the offset (tail); `over'      *)
(* records a write past its length.  Once ok is FALSE nothing is printed.  *)
(* Both ways to enlarge the buffer (realloc, or allocate, copy and free)   *)
(* allocate once and leave one block.                                      *)

Printbuffer(length, noalloc, fmt, n, live, fail) ==
    [done |-> <<>>, tail |-> <<>>, len |-> length, depth |-> 0, noalloc |-> noalloc,
     fmt |-> fmt, ok |-> TRUE, buf |-> TRUE, over |-> FALSE,
     n |-> n, live |-> live, fail |-> fail]

\* Mutant of ensure: the text that is already in the buffer is not counted.
EnsureForgetsOffset(p, needed) ==
    CASE ~p.buf -> [p EXCEPT !.ok = FALSE]
      [] needed + 1 <= p.len -> p
      [] p.noalloc \/ needed + 1 > INT_MAX -> [p EXCEPT !.ok = FALSE]
      [] p.n + 1 = p.fail ->
           [p EXCEPT !.ok = FALSE, !.n = @ + 1, !.live = @ - 1, !.buf = FALSE, !.len = 0]
      [] OTHER -> [p EXCEPT !.n = @ + 1, !.len = 2 * (needed + 1)]

ensure(p, needed) ==
    LET offset == Width(p.done)
        total == needed + offset + 1
        newsize == IF total > INT_MAX \div 2 THEN INT_MAX ELSE 2 * total
    IN  CASE ~p.buf \/ (p.len > 0 /\ offset >= p.len) \/ needed > INT_MAX ->
               [p EXCEPT !.ok = FALSE]
          [] total <= p.len -> p
          [] p.noalloc \/ total > INT_MAX -> [p EXCEPT !.ok = FALSE]
          [] p.n + 1 = p.fail ->
               [p EXCEPT !.ok = FALSE, !.n = @ + 1, !.live = @ - 1, !.buf = FALSE, !.len = 0]
          [] OTHER -> [p EXCEPT !.n = @ + 1, !.len = newsize]

Store(q, w, nul, move) ==
    IF ~q.ok THEN q
    ELSE [q EXCEPT !.done = IF move THEN @ \o w ELSE @,
                   !.tail = IF move THEN <<>> ELSE w,
                   !.over = @ \/ Width(q.done \o w) + (IF nul THEN 1 ELSE 0) > q.len]

\* Reserves `needed' bytes and stores w, with a NUL behind it if `nul'; `move'
\* says whether the offset moves behind w now or at the next update_offset.
Put(p, needed, w, nul, move) ==
    IF p.ok THEN Store(ensure(p, needed), w, nul, move) ELSE p

update_offset(p) ==
    IF p.ok THEN [p EXCEPT !.done = @ \o p.tail, !.tail = <<>>] ELSE p

print_number(p, n) ==
    LET w == <<<<"num", n>>>> IN Put(p, Width(w) + 1, w, TRUE, TRUE)

\* Mutant of Escaped: a backslash is printed as it is.
EscapedNoBackslash(c) ==
    CASE c = Quote -> <<Backslash, c>>
      [] c = Sym("newline") -> <<Backslash, Letter("n")>>
      [] c = Sym("tab") -> <<Backslash, Letter("t")>>
      [] c = Sym("ctrl") -> <<Backslash, Letter("u"), Hex("ctrl")>>
      [] OTHER -> <<c>>

\* \b, \f, \n and \r behave alike: "newline" stands for the four.
Escaped(c) ==
    CASE c \in {Quote, Backslash} -> <<Backslash, c>>
      [] c = Sym("newline") -> <<Backslash, Letter("n")>>
      [] c = Sym("tab") -> <<Backslash, Letter("t")>>
      [] c = Sym("ctrl") -> <<Backslash, Letter("u"), Hex("ctrl")>>
      [] OTHER -> <<c>>

print_string_ptr(p, s) ==
    LET w == FlattenSeq([i \in DOMAIN s |-> Escaped(s[i])])
    IN  Put(p, Width(w) + 3, <<Quote>> \o w \o <<Quote>>, TRUE, FALSE)

Repeat(c, k) == [i \in 1..k |-> c]
Indices(s) == [i \in DOMAIN s |-> i]

RECURSIVE print_value(_, _)

print_array(p, es) ==
    LET sep == IF p.fmt THEN <<Sym(","), Sym("space")>> ELSE <<Sym(",")>>
        Element(q, i) ==
            LET r == update_offset(print_value(q, es[i]))
            IN  IF i = Len(es) THEN r ELSE Put(r, Len(sep) + 1, sep, TRUE, TRUE)
        open == [Put(p, 1, <<Sym("[")>>, FALSE, TRUE) EXCEPT !.depth = @ + 1]
    IN  [Put(FoldLeft(Element, open, Indices(es)), 2, <<Sym("]")>>, TRUE, FALSE)
            EXCEPT !.depth = @ - 1]

print_object(p, ms) ==
    LET Formatted(w) == IF p.fmt THEN w ELSE <<>>
        head == <<Sym("{")>> \o Formatted(<<Sym("newline")>>)
        colon == <<Sym(":")>> \o Formatted(<<Sym("tab")>>)
        Member(q, i) ==
            LET tabs == IF q.fmt THEN Put(q, q.depth, Repeat(Sym("tab"), q.depth), FALSE, TRUE)
                        ELSE q
                key == update_offset(print_string_ptr(tabs, ms[i][1]))
                val == update_offset(print_value(Put(key, Len(colon), colon, FALSE, TRUE),
                                                 ms[i][2]))
                end == (IF i = Len(ms) THEN <<>> ELSE <<Sym(",")>>)
                       \o Formatted(<<Sym("newline")>>)
            IN  Put(val, Len(end) + 1, end, TRUE, TRUE)
        open == [Put(p, Len(head) + 1, head, FALSE, TRUE) EXCEPT !.depth = @ + 1]
        Close(body) ==
            [Put(body, IF p.fmt THEN body.depth + 1 ELSE 2,
                 Formatted(Repeat(Sym("tab"), body.depth - 1)) \o <<Sym("}")>>, TRUE, FALSE)
                EXCEPT !.depth = @ - 1]
    IN  Close(FoldLeft(Member, open, Indices(ms)))

print_value(p, v) ==
    CASE v[1] \in {"null", "true"} -> Put(p, 5, <<Lit(v[1])>>, TRUE, FALSE)
      [] v[1] = "false" -> Put(p, 6, <<Lit("false")>>, TRUE, FALSE)
      [] v[1] = "num" -> print_number(p, v[2])
      [] v[1] = "raw" -> Put(p, Width(v[2]) + 1, v[2], TRUE, FALSE)
      [] v[1] = "str" -> print_string_ptr(p, v[2])
      [] v[1] = "arr" -> print_array(p, v[2])
      [] v[1] = "obj" -> print_object(p, v[2])
      [] OTHER -> [p EXCEPT !.ok = FALSE]

\* The result of a printer: the string, and the counts of allocations.
NoText(n, live) == [ok |-> FALSE, text |-> <<>>, n |-> n, live |-> live]
Text(p, n) == [ok |-> TRUE, text |-> p.done \o p.tail, n |-> n, live |-> p.live]
Owned(p) == IF p.buf THEN 1 ELSE 0

\* cJSON_Print and cJSON_PrintUnformatted: the last reallocation may fail as well.
print(v, fmt, n, live, fail) ==
    LET Shrink(p) == CASE ~p.ok -> NoText(p.n, p.live - Owned(p))
                       [] p.n + 1 = fail -> NoText(p.n + 1, p.live - 1)
                       [] OTHER -> Text(p, p.n + 1)
    IN  IF n + 1 = fail THEN NoText(n + 1, live)
        ELSE Shrink(update_offset(
               print_value(Printbuffer(BUFFER_SIZE, FALSE, fmt, n + 1, live + 1, fail), v)))

cJSON_PrintBuffered(v, prebuffer, fmt, n, live, fail) ==
    LET Result(p) == IF p.ok THEN Text(p, p.n) ELSE NoText(p.n, p.live - Owned(p))
    IN  CASE prebuffer < 0 -> NoText(n, live)
          [] n + 1 = fail -> NoText(n + 1, live)
          [] OTHER -> Result(
               print_value(Printbuffer(prebuffer, FALSE, fmt, n + 1, live + 1, fail), v))

\* The caller's buffer of `length' bytes is used and never replaced.
cJSON_PrintPreallocated(v, length, fmt) ==
    IF length < 0 THEN [Printbuffer(0, TRUE, fmt, 0, 0, 0) EXCEPT !.ok = FALSE]
    ELSE print_value(Printbuffer(length, TRUE, fmt, 0, 0, 0), v)

-----------------------------------------------------------------------------
(* Minifying, in place: the output never runs ahead of the input.          *)

Slash == Sym("/")
Star == Sym("*")

RECURSIVE skip_oneline_comment(_, _), skip_multiline_comment(_, _)
skip_oneline_comment(b, o) ==
    CASE o >= Len(b) -> o
      [] At(b, o) = Sym("newline") -> o + 1
      [] OTHER -> skip_oneline_comment(b, o + 1)

skip_multiline_comment(b, o) ==
    CASE o >= Len(b) -> o
      [] At(b, o) = Star /\ At(b, o + 1) = Slash -> o + 2
      [] OTHER -> skip_multiline_comment(b, o + 1)

\* Behind the opening quote: copies to the next quote that no backslash precedes.
RECURSIVE minify_string(_, _, _)
minify_string(b, o, out) ==
    CASE o >= Len(b) -> <<o, out>>
      [] At(b, o) = Quote -> <<o + 1, Append(out, Quote)>>
      [] At(b, o) = Backslash /\ At(b, o + 1) = Quote ->
           minify_string(b, o + 2, out \o <<Backslash, Quote>>)
      [] OTHER -> minify_string(b, o + 1, Append(out, At(b, o)))

RECURSIVE Minify(_, _, _)
Minify(b, o, out) ==
    LET c == At(b, o)
        s == minify_string(b, o + 1, Append(out, Quote))
    IN  CASE o >= Len(b) -> out
          [] c \in {Sym("space"), Sym("tab"), Sym("newline")} -> Minify(b, o + 1, out)
          [] c = Slash /\ At(b, o + 1) = Slash -> Minify(b, skip_oneline_comment(b, o + 2), out)
          [] c = Slash /\ At(b, o + 1) = Star -> Minify(b, skip_multiline_comment(b, o + 2), out)
          [] c = Slash -> Minify(b, o + 1, out)
          [] c = Quote -> Minify(b, s[1], s[2])
          [] OTHER -> Minify(b, o + 1, Append(out, c))

cJSON_Minify(text) == Minify(text, 0, <<>>)

=============================================================================
