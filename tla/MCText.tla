------------------------------ MODULE MCText -------------------------------
(* Requests for WebioText. *)
EXTENDS WebioText

a == 97
b == 98
c == 99
n == 110
o == 111

MCControls == {<<a>>, <<a, b>>, <<b>>}

Get == [cmd |-> "GET", uri |-> <<SLASH, a>>, pairs |-> <<>>, raw |-> <<>>, fields |-> <<>>,
        user |-> <<>>, pass |-> <<>>]

Is(name, value) == [name |-> name, value |-> value]
F(name, text)   == [name |-> name, text |-> text]

\* What is entered into one control.
Texts == {<<>>, <<a>>, <<SP, a>>, <<PCT, PLUS>>, <<AMP, EQ, SP>>, <<7, a>>, <<233>>, <<a, SP>>,
          <<45, 49>>, <<SP, 49>>, <<a, 49>>, <<84, 114, 117, 101>>, <<121, 101, 115>>, <<n, o>>,
          <<o, n>>, <<79, 78>>, <<o, 102, 102>>, <<48>>, <<DOT, DOT>>}
         \cup {Dotted(s) : s \in UNION {[1 .. k -> {0, 10, 255}] : k \in 1 .. 4}}
         \cup {Dotted(s) : s \in [1 .. 3 -> {1, 256}]}
         \cup {Dotted(<<1, 0, 10, 255, 0>>), <<49, DOT, DOT, 50>>}

Handwritten == {<<a, EQ, PCT>> \o t : t \in UNION {[1 .. k -> {48, 65, 103}] : k \in 0 .. 3}}
               \cup {<<a, EQ, b, EQ, c>>, <<a, EQ, AMP, b, EQ>>, <<a>>, <<EQ>>, <<a, EQ, b, AMP>>,
                     <<a, EQ, PCT, 52, PCT, 48>>, <<a, EQ, EQ, AMP>>, <<PCT, EQ>>}

Host    == F(<<Known["host"]>>, <<b>>)
Sizes   == F(<<Known["length"]>>, <<51>>)
Plain   == F(<<WORD>>, <<c, c, c, c>>)
XHost   == F(<<WORD, Known["host"]>>, <<c>>)
Referer == {F(<<Known["referer"]>>, <<a>> \o t) :
              t \in {<<>>, <<QMARK, b, EQ, c>>, <<QMARK, b, EQ, c, AMP, o, EQ, n>>}}
Login(u, p) == F(<<Known["auth"]>>, <<BASIC, SP>> \o Encode64(u \o <<COLON>> \o p))
Digest  == F(<<Known["auth"]>>, <<WORD, SP, a>>)

Send(cmd, pairs, fields) == [Get EXCEPT !.cmd = cmd, !.pairs = pairs, !.fields = fields]
Both == {"GET", "POST"}

Users == {<<a>>, <<a, b>>, <<255, a, 63>>} \X {<<>>, <<b>>, <<250, c>>, <<a, b, c>>}

MCRequests ==
    {Send(cmd, <<Is(<<a>>, t)>>, <<Host>>) : cmd \in Both, t \in Texts}
    \cup {Send(cmd, <<Is(m[1], <<a>>), Is(m[2], t), Is(m[3], <<c>>)>>, <<>>) :
             cmd \in Both, t \in {<<>>, <<b>>}, m \in [1 .. 3 -> MCControls \cup {<<65, b>>}]}
    \cup {[Get EXCEPT !.cmd = cmd, !.raw = t, !.fields = f] :
             cmd \in Both, t \in Handwritten, f \in {<<>>, <<Host>>}}
    \cup {Send(cmd, pairs, f) :
             cmd \in Both, pairs \in {<<>>, <<Is(<<a>>, <<b>>)>>},
             f \in UNION {[1 .. k -> {Host, Sizes, Plain, XHost} \cup Referer] : k \in 0 .. 3}}
    \cup {[Send("GET", <<>>, f[1] \o <<Login(u[1], u[2])>> \o f[2]) EXCEPT !.user = u[1], !.pass = u[2]] :
             u \in Users, f \in {<<>>, <<Host>>, <<Plain>>} \X {<<>>, <<Host>>, <<Plain, Host>>, <<Plain, Plain>>}}
    \cup {Send("GET", <<>>, <<Digest>>)}
    \cup {[Get EXCEPT !.uri = <<SLASH>> \o t] :
             t \in {<<>>, <<a, DOT, 74, 112, 71>>, <<a, DOT, 106, 112, 101, 103>>, <<a, DOT, 109, 112, 51>>,
                    <<a, DOT, b, 105, n>>, <<a, DOT, 119, 109, 118>>, <<a, DOT, 103, 105, 102, SLASH, b>>,
                    <<a, DOT, 103, 105, 102, DOT, 112, n, 103>>, <<a, DOT, a, DOT, a>>, <<112, n, 103>>}}
============================================================================
