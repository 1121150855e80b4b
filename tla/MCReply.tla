------------------------------ MODULE MCReply ------------------------------
(* Pages and tables for WebioReply. *)
EXTENDS WebioReply

MCName == {"inner", "long", "nest", "self", "rtn"}
MCRoutines == {"rtn"}

Char          == [is |-> "char", to |-> "none", args |-> "none"]
End           == [is |-> "end", to |-> "none", args |-> "none"]
Dir(to, args) == <<[is |-> "start", to |-> to, args |-> args], End>>

\* long has more than a block, nest a directive in its second block.
MCText == [inner |-> <<Char, Char>>,
           long  |-> <<Char, Char, Char, Char, Char>>,
           nest  |-> <<Char, Char, Char, Char>> \o Dir("inner", "none") \o <<Char>>,
           self  |-> <<Char>> \o Dir("self", "none") \o <<Char>>,
           rtn   |-> <<Char, Char>>]

Items == {<<Char>>, Dir("inner", "ok"), Dir("rtn", "ok"), Dir("rtn", "none"),
          Dir("nest", "none"), Dir("none", "bad"), Dir("exec", "none")}

MCPages == {FlattenSeq(items) : items \in BoundedSeq(Items, 3)}
           \cup {<<Char>> \o Dir(n, "none") \o <<Char>> : n \in {"long", "self"}}
           \cup {<<Char>> \o Dir(n, a) \o <<Char>> \o Dir(m, b) \o <<Char>> :
                    n \in {"inner", "rtn", "nest"}, m \in {"inner", "rtn"},
                    a \in {"ok", "bad"}, b \in {"ok", "bad"}}

Ask(cmd, page, form, r) ==
    [cmd |-> cmd, page |-> page, binary |-> FALSE, form |-> form, room |-> r]

MCRequests ==
    {Ask("GET", p, f, ROOM) : p \in MCPages, f \in BOOLEAN}
    \cup {Ask("POST", p, TRUE, ROOM) : p \in MCPages}
    \cup {Ask("GET", <<Char, Char, Char>>, FALSE, 1), Ask("POST", <<Char>>, TRUE, 1)}
    \cup {[Ask(c, [i \in 1 .. n |-> Char], c = "POST", r) EXCEPT !.binary = TRUE] :
             c \in {"GET", "POST"}, n \in 1 .. 9, r \in {1, ROOM}}

MCShares == {[tx |-> 9, files |-> 3, forms |-> 2], [tx |-> 2, files |-> 1, forms |-> 0],
             [tx |-> 3, files |-> 0, forms |-> 1], [tx |-> 1, files |-> 3, forms |-> 1],
             [tx |-> 0, files |-> 2, forms |-> 1]}
============================================================================
