---------------------------- MODULE MCHttpConfig ----------------------------
EXTENDS HttpConfig

Num(n) == <<"num", n>>
Str(s) == <<"str", s>>
Field(f, v) == <<Key(f), v>>

\* The text of a member with a number, a literal or a short string.
Symbols(v) ==
    CASE v[1] = "num" -> <<v>>
      [] v[1] = "str" -> <<Quote>> \o v[2] \o <<Quote>>
      [] OTHER -> <<Lit(v[1])>>
MemberText(m) == <<Quote>> \o m[1] \o <<Quote, Sym(":")>> \o Symbols(m[2])
BodyOf(ms) ==
    <<Sym("{")>>
    \o FlattenSeq([i \in DOMAIN ms |-> (IF i = 1 THEN <<>> ELSE <<Sym(",")>>) \o MemberText(ms[i])])
    \o <<Sym("}")>>

\* Whole, fractional, negative and huge numbers, a wrong type, a field twice, an
\* unknown field (what the page posts for the interval), no object, too long.
MCBodies ==
    { <<>>,
      BodyOf(<<Field("off_timer", Num(2)), Field("on_timer", Num(18))>>),
      BodyOf(<<Field("inter_timer", Num(9000)), Field("wifi_en", Num(2)), Field("humidity", Num(-3))>>),
      BodyOf(<<Field("motion_en", Sym("true")), Field("motion_en", Sym("false"))>>),
      BodyOf(<<Field("interval_timer", Num(4)), Field("wifi_en", Sym("true"))>>),
      <<Sym("[")>> \o BodyOf(<<>>) \o <<Sym("]")>>,
      BodyOf(<<Field("wifi_en", Str(<<Run(600)>>))>>) }

MCDocuments ==
    { Sym("null"), Num(-7), Num(5000),
      Str(<<Letter("a"), Quote, Sym("newline"), Sym("ctrl"), Sym("wide")>>),
      Str(<<Run(500), Run(300)>>), Str(<<Run(1600)>>),
      <<"arr", <<>>>>, <<"obj", <<>>>>,
      <<"arr", <<Num(2), Sym("false"), <<"arr", <<Sym("true")>>>>>>>>,
      <<"obj", <<<<<<Letter("a")>>, Num(1)>>, <<<<Backslash>>, Str(<<Letter("b"), Sym("space")>>)>>>>>>,
      <<"obj", <<<<<<Sym("tab")>>, <<"obj", <<<<<<>>, <<"arr", <<Num(1)>>>>>>>>>>>>>>>>,
      <<"arr", <<<<"arr", <<<<"arr", <<>>>>>>>>>>>> }
=============================================================================
