------------------------------ MODULE MCTrial ------------------------------
(* Instances of Trial for TLC. *)
EXTENDS Trial

\* Of two passes of modules the registry knows one.
AllPasses == {"mem2reg", "slp-vectorize", "slp-vectorizer", "inline", "constmerge", "aa", "junk"}
Aliases   == [p \in AllPasses |-> IF p = "slp-vectorize" THEN "slp-vectorizer" ELSE p]
Listed    == [p \in {"mem2reg", "slp-vectorizer", "inline", "aa"} |->
                CASE p = "inline" -> "module" [] p = "aa" -> "analysis" [] OTHER -> "function"]
PassKinds == [p \in AllPasses |->
                CASE p = "inline" -> "cgscc" [] p = "constmerge" -> "module"
                  [] p = "aa" -> "analysis" [] OTHER -> "function"]

\* Seeds, one of them with a name that does not exist.
Pool == {<<"mem2reg", "slp-vectorize">>, <<"aa", "junk", "slp-vectorizer">>}
NewPipelines == Children(Pool)
Default == <<"mem2reg", "slp-vectorizer">>
Population == Pool \cup {Default}
OnePipeline  == {Default}

\* Outputs of up to two tokens, of the kinds a strategy tells apart; the sandbox
\* keeps two.
Marker(n) == Token("marker", n)
A(word)   == Token("word", word)
Tokens ==
    [exact    |-> {Marker(1), Marker(2), A(0)},
     stdout   |-> {Marker(1), A(0), A(1)},
     checksum |-> {Token("checksum", 30), Token("checksum", 37), Token("checksum", 40)},
     numeric  |-> {Token("integer", -2), Token("integer", 2), Token("decimal", 1)}]
Expected(name) == {<<A(0), t>> : t \in Tokens[name]} \cup {<<A(0), A(0), A(0)>>}
Printed(name)  == {<<t>> : t \in Tokens[name]} \cup {<<t, u>> : t, u \in Tokens[name]}
                      \cup {<<A(0), t>> : t \in Tokens[name]}
                      \cup {<<A(0), A(0), t>> : t \in {A(0), A(1)}}

Base(out) == Observation(TRUE, 0, out, <<>>)
Both      == [artifacts |-> "same", script |-> "accepts"]
World(strategy, side, opt0, platform, base, cand) ==
    [strategy |-> strategy, side |-> side, opt |-> opt0, platform |-> platform,
     base |-> base, cand |-> cand]

Programs  == {World(<<"exact">>, Both, TRUE, "Darwin", Base(<<>>), Base(<<>>)),
              World(<<"exact">>, Both, FALSE, "Linux", Base(<<>>), Base(<<>>))}
Compared  == UNION {{World(<<n>>, Both, TRUE, "Darwin", Base(b), Base(c)) :
                b \in Expected(n), c \in Printed(n)} : n \in DOMAIN Tokens}
Failing   == {World(s, Both, TRUE, "Darwin", Base(<<>>), Observation(FALSE, 1, <<>>, <<>>)) :
                s \in {<<"exact">>, <<"numeric">>, <<"checksum">>, <<"stdout">>}}
Aside     == {World(<<"exitcode", t>>, [artifacts |-> a, script |-> v], TRUE, "Darwin",
                    Base(<<>>), Base(<<>>)) :
                t \in {"digest", "script"}, a \in {"missing", "same", "different"}, v \in {"accepts", "rejects", "missing"}}
Stderr    == {World(<<"exact">>, Both, TRUE, "Darwin", Base(<<>>),
                    Observation(TRUE, 0, <<>>, <<Token("word", 0)>>))}

AllWorlds == Programs \cup Compared \cup Failing \cup Aside \cup Stderr
Breeds == [x \in AllWorlds |-> IF x \in Programs /\ x.opt THEN NewPipelines ELSE OnePipeline]

\* The keys of what is bred, spelled out.
Groups ==
    LET m == "mem2reg"  v == "slp-vectorizer"  c == "constmerge" IN
    {<<m>>, <<m, m>>, <<m, v>>, <<m, c>>, <<m, "junk">>, <<v, m>>, <<c, m>>, <<m, v, m>>,
     <<m, v, v>>, <<m, v, c>>, <<m, c, v>>, <<m, "junk", v>>, <<v, m, v>>, <<c, m, v>>}
Inlined == <<Alone("inline")>>
AllKeys == {<<Group(g)>> : g \in Groups} \cup
    LET m == <<Group(<<"mem2reg">>)>>  n == <<Group(Default)>> IN
    {m \o Inlined, Inlined \o m, n \o Inlined, Inlined \o n,
     m \o Inlined \o <<Group(<<"slp-vectorizer">>)>>}
=============================================================================
