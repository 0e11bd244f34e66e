--------------------------- MODULE MCServerTasks ---------------------------
EXTENDS ServerTasks

\* "ab.c" stands for the host name.
MCHostname == <<97, 98, 46, 99>>

\* The name in another case, cut off before its end, split once more, and a name that
\* goes on.
MCQueries ==
    { <<2, 97, 66, 1, 99, 0>>,
      <<2, 97, 98, 1, 99>>,
      <<1, 97, 1, 98, 1, 99>>,
      <<2, 97, 98, 1, 99, 1>> }
=============================================================================
