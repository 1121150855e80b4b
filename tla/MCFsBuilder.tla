---------------------------- MODULE MCFsBuilder ----------------------------
(* Command lines, lines and contents for FsBuilder. *)
EXTENDS FsBuilder

a == 97
b == 98
c == 99
DASH == 45
DOT == 46
WSF == 203      \* a word of an output file's name

MCHdrFile  == <<WSF, DOT, 104>>
MCDataFile == <<WSF, a, DOT, c>>
MCCodeFile == <<WSF, b, DOT, c>>

Opt(l)    == [opt |-> l, text |-> <<>>]
Text(t)   == [opt |-> "", text |-> t]
L(name, args) == [name |-> name, args |-> args]

Other == <<WSF, c, DOT, c>>
Begin == <<WSF, c>>         \* begins the name Other, and no other output file's
R1 == <<a>>
R2 == <<b>>
Exp == <<Opt("e"), Text(<<a>>), Text(<<b>>)>>

MCCommandLines == {<<>>, <<Opt("o"), Text(Other), Opt("c")>>, <<Opt("h"), Text(MCDataFile)>>,
                   <<Opt("s"), Text(R1)>>, <<Opt("g"), Text(R1), Opt("a")>>, <<Text(R1)>>}

MCLines ==
    {L(<<a>>, <<>>), L(<<a, 49>>, <<>>), L(<<a, DOT, b>>, <<Opt("w")>>),
     L(<<b>>, <<Opt("o"), Text(Other)>>), L(<<c>>, <<Opt("a"), Opt("o"), Text(Begin), Opt("c")>>),
     L(<<a>>, <<Opt("f"), Text(R1)>>), L(<<b>>, <<Opt("f"), Text(R2), Opt("a")>>),
     L(<<a>>, <<Opt("w"), Opt("f"), Text(R1)>>),
     L(<<c>>, <<Opt("s"), Text(R1)>>), L(<<c>>, <<Opt("g"), Text(R1), Opt("p"), Text(R2), Opt("a")>>),
     L(<<c>>, <<Opt("s"), Text(R1), Opt("f"), Text(R2)>>),
     L(<<a, DOT>>, Exp), L(<<a, DASH>>, <<Opt("a")>> \o Exp), L(<<65, 49>>, Exp \o <<Opt("a")>>),
     L(<<c>>, <<Opt("p"), Text(R2)>> \o Exp),
     L(<<b>>, <<Opt("s"), [opt |-> "a", text |-> R2]>>),
     L(<<b>>, <<Opt("h"), Text(R1)>>), L(<<b>>, <<Opt("o")>>)}

\* Tags of one unit; an input has a type.
T(tag, name, value) == [tag |-> tag, name |-> name, value |-> value, len |-> 1, whole |-> TRUE]
F(name, action) == T("form", name, action)
I(name)   == T("input", name, <<204>>)
Typeless  == T("input", <<a>>, <<>>)
Ref(name) == T("ref", <<>>, name)
End       == T("endform", <<>>, <<>>)
Some      == T("other", <<>>, <<>>)

\* The last two have tags cut off by the end of a block: a form, and the end of a file.
MCContents ==
    {<<>>,
     <<F(<<a>>, <<a>>), I(<<a>>), I(SUBMIT), I(<<b>>), End, I(<<c>>)>>,
     <<Ref(<<SCRIPT, b>>), F(<<a>>, <<b>>), I(<<c>>), F(<<>>, <<a>>), I(<<a>>), F(<<b>>, <<a>>), I(<<>>), I(<<a>>)>>,
     <<Typeless, F(<<>>, <<b>>), I(<<b>>), End, F(<<a>>, <<>>), I(<<b>>), End, F(<<a>>, <<c, c>>), I(<<a>>), End,
       F(<<a>>, <<b>>), I(<<b>>), End, Ref(<<a, DOT, b>>), Ref(<<a>>)>>,
     <<Some, [F(<<a>>, <<b>>) EXCEPT !.len = 4], I(<<b>>), End>>,
     <<F(<<a>>, <<a>>), I(<<a>>), [I(<<b>>) EXCEPT !.whole = FALSE]>>}

MCBehind == {Some, F(<<a>>, <<c>>), Typeless}
=============================================================================
