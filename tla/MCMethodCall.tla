----------------------------- MODULE MCMethodCall -----------------------------
\* Every name of up to four characters, and one with a word more; the standard
\* selectors among them and some that are not.
EXTENDS MethodCall

MCName ==
  LET x == Letter IN
    UNION {[1..n -> Character] : n \in 1..4} \cup
    {<<x, x, "_", x, "_", x>>, <<x, x, "_", x, "_", x, "_">>, <<x, x, "_", x, ":", x, ":">>,
     <<"_", x, ":", x, ":">>, <<x, x, ":", x, ":">>, <<x, x, ":", x, ":", ":">>,
     <<x, x, "_", x, "_">>, <<x, x, "_", x, "_", "_">>}

MCSelector ==
  {sel \in MCName : Standard(sel) /\ Len(sel) > 2} \cup
  {<<Letter, ":", Letter, ":">>, <<":">>, <<Letter, "_">>}
=============================================================================
