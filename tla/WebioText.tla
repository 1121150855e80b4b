----------------------------- MODULE WebioText -----------------------------
(***************************************************************************)
(* The text of one request, taken apart in place: wi_parseheader ends the  *)
(* URI, the header fields and the name/value pairs with NULs where they    *)
(* lie in ws_rxbuf, so that what one step finds depends on what those      *)
(* before it have written; then a form handler reads the values.           *)
(*                                                                         *)
(* ws_rxbuf is a sequence of units: the codes of characters, and one unit  *)
(* each for the words that are only ever compared whole (the method, the   *)
(* field names).                                                           *)
(***************************************************************************)
EXTENDS Integers, Sequences, SequencesExt, FiniteSetsExt

CONSTANTS
    MAX_FORM_PARAMS,    \* pairs a form has room for
    DECODE,             \* sizeof(decode) in wi_decode_auth
    Requests,           \* what clients send
    Controls            \* the names form handlers ask for

NUL    == 0
LF     == 10
CR     == 13
SP     == 32
PCT    == 37
AMP    == 38
PLUS   == 43
DOT    == 46
SLASH  == 47
COLON  == 58
EQ     == 61
QMARK  == 63
METHOD == 200       \* "GET" or "POST"
HTTP   == 201       \* "HTTP/1.1"
BASIC  == 202       \* "Basic"
WORD   == 203       \* another word of a field's name
Known == [auth |-> 210, referer |-> 211, host |-> 212, length |-> 213]

Digit   == 48 .. 57
Upper   == 65 .. 90
Lower   == 97 .. 122
Space   == 1 .. 32
Pair    == [name : Seq(Nat), value : Seq(Nat)]
Field   == [name : Seq(Nat), text : Seq(Nat)]
Request == [cmd : {"GET", "POST"}, uri : Seq(Nat),
            pairs : Seq(Pair),          \* what the user entered
            raw : Seq(Nat),             \* or a query written by hand
            fields : Seq(Field),
            user : Seq(Nat), pass : Seq(Nat)]   \* what an Authorization field is for

ASSUME ParamsAssumption == MAX_FORM_PARAMS \in Nat \ {0} /\ DECODE \in Nat
ASSUME RequestsAssumption == Requests \subseteq Request /\ Controls \subseteq Seq(Nat)

VARIABLES
    req,        \* the request
    rxbuf,      \* ws_rxbuf
    pc,         \* what is done next; or how the parsing ended
    cp,         \* wi_parseheader's cp, a place in rxbuf; 0 is NULL
    uri,        \* ws_uri; 0 is wi_rootfile
    field,      \* ws_auth, ws_referer, ws_host, and where Content-Length is
    form,       \* the pairs of ws_formlist: the places of names and values
    login,      \* name and pass, as wi_decode_auth leaves them
    binary,     \* WF_BINARY
    answer      \* what the handler's last question gave

vars == <<req, rxbuf, pc, cp, uri, field, form, login, binary, answer>>

----------------------------------------------------------------------------
(* The client: what it sends *)

Hex(d) == IF d < 10 THEN 48 + d ELSE 55 + d

\* A browser's encoding of what the user entered.
Encode(s) ==
    FlattenSeq([i \in DOMAIN s |->
        IF s[i] \in Digit \cup Upper \cup Lower THEN <<s[i]>>
        ELSE IF s[i] = SP THEN <<PLUS>>
        ELSE <<PCT, Hex(s[i] \div 16), Hex(s[i] % 16)>>])

\* A browser's base64 of a string.
Encode64(s) ==
    LET groups == (Len(s) + 2) \div 3
        at(i)  == IF i < Len(s) THEN s[i + 1] ELSE 0
        bits(g) == at(3 * g) * 65536 + at(3 * g + 1) * 256 + at(3 * g + 2)
        char(v) == CASE v < 26 -> v + 65
                     [] v \in 26 .. 51 -> v + 71
                     [] v \in 52 .. 61 -> v - 4
                     [] v = 62 -> PLUS
                     [] OTHER -> SLASH
        six(g) == <<bits(g) \div 262144, (bits(g) \div 4096) % 64, (bits(g) \div 64) % 64,
                    bits(g) % 64>>
    IN  [k \in 1 .. 4 * groups |->
            IF 3 * (k - 1) >= 4 * Len(s) THEN EQ
            ELSE char(six((k - 1) \div 4)[((k - 1) % 4) + 1])]

Joined(pairs) ==
    FlattenSeq([i \in DOMAIN pairs |->
        (IF i = 1 THEN <<>> ELSE <<AMP>>)
        \o Encode(pairs[i].name) \o <<EQ>> \o Encode(pairs[i].value)])

Content(r) == IF r.raw # <<>> THEN r.raw ELSE Joined(r.pairs)
Target(r)  == r.uri \o (IF r.cmd = "GET" /\ Content(r) # <<>> THEN <<QMARK>> \o Content(r)
                                                              ELSE <<>>)
Line(f)    == f.name \o <<SP>> \o f.text \o <<CR, LF>>
Header(r)  == <<METHOD, SP>> \o Target(r) \o <<SP, HTTP, CR, LF>>
              \o FlattenSeq([i \in DOMAIN r.fields |-> Line(r.fields[i])])
Wire(r)    == Header(r) \o <<CR, LF>> \o (IF r.cmd = "POST" THEN Content(r) ELSE <<>>)

RxEnd == Len(Header(req)) - 1       \* where the CRLF CRLF is
Data  == RxEnd + 4                  \* ws_data

----------------------------------------------------------------------------
(* C strings in ws_rxbuf *)

\* The first place from p on that holds one of S; ws_rxbuf ends with a NUL.
FirstOf(b, p, S) == Min({i \in p .. Len(b) : b[i] \in S})
Stop == Space \cup {NUL}

CString(b, p) == SubSeq(b, p, FirstOf(b, p, {NUL}) - 1)

strchr(b, p, c) == LET i == FirstOf(b, p, {c, NUL}) IN IF b[i] = c THEN i ELSE 0

wi_nextarg(b, p) ==
    LET i == FirstOf(b, p, Stop)
        j == Min({k \in i .. Len(b) : b[k] # SP})
    IN  IF b[i] # SP \/ b[j] < SP THEN 0 ELSE j

\* Mutant: only a space ends an argument.
wi_argtermMutant(b, p) == [b EXCEPT ![FirstOf(b, p, {SP, NUL})] = NUL]

wi_argterm(b, p) == [b EXCEPT ![FirstOf(b, p, Stop)] = NUL]

\* The field's place, 0 if there is none: the first place where its name is, unless the
\* end of the header comes first.
Named(b, p, name) ==
    LET here(i)  == b[i] = name
        ends(i)  == i + 3 <= Len(b) /\ SubSeq(b, i, i + 3) = <<CR, LF, CR, LF>>
        found    == {i \in p .. Len(b) : here(i) \/ ends(i)}
    IN  IF found = {} \/ ~here(Min(found)) THEN 0 ELSE Min(found)

wi_getline(b, p, name) ==
    LET i == Named(b, p, name)
        j == IF i = 0 THEN 0 ELSE wi_nextarg(b, i)
    IN  [at |-> j, buf |-> IF j = 0 THEN b ELSE wi_argterm(b, j)]

----------------------------------------------------------------------------
(* wi_urldecode and wi_buildform *)

HexOf(c) == CASE c \in Digit      -> c - 48
              [] c \in 97 .. 102  -> c - 87
              [] c \in 65 .. 70   -> c - 55
              [] OTHER            -> 16

\* The hex digits at place i of s, two at most.
atocode(s, i) ==
    LET d(k) == IF k > Len(s) THEN 16 ELSE HexOf(s[k])
    IN  IF d(i) = 16 THEN 0 ELSE IF d(i + 1) = 16 THEN d(i) ELSE 16 * d(i) + d(i + 1)

STUCK == -1

\* Mutant: one digit is taken behind a '%'.
DecodedMutant(s) ==
    LET D[i \in 1 .. Len(s) + 3] ==
          IF i > Len(s) THEN <<>>
          ELSE IF s[i] <= SP THEN SubSeq(s, i, Len(s))
          ELSE IF s[i] # PCT THEN <<IF s[i] = PLUS THEN SP ELSE s[i]>> \o D[i + 1]
          ELSE <<atocode(s, i + 1)>> \o D[i + 2]
    IN  D[1]

\* The string wi_urldecode leaves; the loop does not advance at a '%' without a code.
\* A code takes two characters with it, unless there is only one.
Decoded(s) ==
    LET D[i \in 1 .. Len(s) + 3] ==
          IF i > Len(s) THEN <<>>
          ELSE IF s[i] <= SP THEN SubSeq(s, i, Len(s))
          ELSE IF s[i] # PCT THEN <<IF s[i] = PLUS THEN SP ELSE s[i]>> \o D[i + 1]
          ELSE IF atocode(s, i + 1) = 0 THEN <<STUCK>>
          ELSE <<atocode(s, i + 1)>> \o D[IF i + 1 < Len(s) THEN i + 3 ELSE i + 1]
    IN  D[1]

\* In place: what lies between the shorter string and its old end is not read again.
wi_urldecode(b, p) ==
    LET s == CString(b, p)
        d == Decoded(s)
    IN  IF STUCK \in ToSet(d) THEN [res |-> "stuck", buf |-> b]
        ELSE [res |-> "ok",
              buf |-> [i \in DOMAIN b |->
                         IF i < p \/ i >= p + Len(s) THEN b[i]
                         ELSE IF i < p + Len(d) THEN d[i - p + 1] ELSE NUL]]

\* One pair of wi_buildform: its name is ended at the next '=', its value at the next
\* '&' there is in ws_rxbuf, or at a space.  With no '&' there is no next pair.
NextPair(s) ==
    LET eq    == strchr(s.buf, s.cp, EQ)
        named == [s.buf EXCEPT ![eq] = NUL]
        amp   == strchr(named, eq + 1, AMP)
        ended == IF amp = 0 THEN wi_argterm(named, eq + 1) ELSE [named EXCEPT ![amp] = NUL]
        name  == wi_urldecode(ended, s.cp)
        value == wi_urldecode(name.buf, eq + 1)
    IN  IF s.res # "ok" THEN s
        ELSE IF s.cp = 0 THEN [s EXCEPT !.res = "fault"]
        ELSE IF eq = 0 THEN [s EXCEPT !.res = "refused"]
        ELSE IF "stuck" \in {name.res, value.res} THEN [s EXCEPT !.res = "stuck"]
        ELSE [res |-> "ok", buf |-> value.buf, cp |-> IF amp = 0 THEN 0 ELSE amp + 1,
              pairs |-> Append(s.pairs, [name |-> s.cp, value |-> eq + 1])]

\* Mutant: pairs are counted to the end of ws_rxbuf.
PairCountMutant(b, p) == Cardinality({i \in p .. Len(b) : b[i] = EQ})

PairCount(b, p) == Cardinality({i \in p .. FirstOf(b, p, Stop) : b[i] = EQ})

wi_buildform(b, p) ==
    FoldLeft(LAMBDA s, i : NextPair(s),
             [res |-> "ok", buf |-> b, cp |-> p, pairs |-> <<>>],
             [i \in 1 .. Min({PairCount(b, p), MAX_FORM_PARAMS}) |-> i])

----------------------------------------------------------------------------
(* wi_uudecode, wi_decode_auth and wi_setftype *)

pr2six(c) == CASE c \in Upper -> c - 65
               [] c \in Lower -> c - 71
               [] c \in Digit -> c + 4
               [] c = PLUS    -> 62
               [] c = SLASH   -> 63
               [] OTHER       -> 64

\* Groups of four, with whatever follows the last sextet in the last group.
wi_uudecode(b, p) ==
    LET start == Min({i \in p .. Len(b) : b[i] \notin {SP, 9}})
        n     == Min({i \in start .. Len(b) : pr2six(b[i]) = 64}) - start
        six(i) == pr2six(b[start + i])
        groups == (n + 3) \div 4
        byte(k) == LET g == 4 * (k \div 3)
                   IN  CASE k % 3 = 0 -> (six(g) * 4 + six(g + 1) \div 16) % 256
                         [] k % 3 = 1 -> (six(g + 1) * 16 + six(g + 2) \div 4) % 256
                         [] k % 3 = 2 -> (six(g + 2) * 64 + six(g + 3)) % 256
        size   == 3 * groups - (IF n % 4 = 0 THEN 0
                                ELSE IF six(4 * groups - 2) > 63 THEN 2 ELSE 1)
    IN  [k \in 1 .. size |-> byte(k - 1)]

Unset   == [name |-> <<-1>>, pass |-> <<-1>>]      \* whatever was on the stack
NoLogin == [name |-> <<>>, pass |-> <<>>]

\* Mutant: the password keeps the colon.
wi_decode_authMutant(b, auth) ==
    LET text == wi_uudecode(b, auth + 2)
        divide == {i \in DOMAIN text : text[i] = COLON}
    IN  IF divide = {} THEN NoLogin
        ELSE [name |-> SubSeq(text, 1, Min(divide) - 1),
              pass |-> SubSeq(text, Min(divide), Len(text))]

\* With other than Basic, or too much text up to the next NUL, nothing is set.
wi_decode_auth(b, auth) ==
    LET data   == auth + 2          \* behind "Basic" and what ended it
        text   == wi_uudecode(b, data)
        divide == {i \in DOMAIN text : text[i] = COLON}
    IN  IF b[auth] # BASIC \/ b[auth + 1] > SP \/ Len(CString(b, data)) > DECODE
        THEN Unset
        ELSE IF divide = {} THEN NoLogin
        ELSE [name |-> SubSeq(text, 1, Min(divide) - 1),
              pass |-> SubSeq(text, Min(divide) + 1, Len(text))]

\* wi_ftypes, those marked FT_BINARY: what an extension must be with bit 5 cleared.
BinaryTypes == {<<74, 80, 71, 0>>, <<74, 80, 69, 71>>, <<80, 78, 71, 0>>,   \* JPG JPEG PNG
                <<71, 73, 70, 0>>, <<87, 65, 86, 0>>, <<77, 80, 51, 0>>,    \* GIF WAV MP3
                <<87, 77, 86, 0>>, <<80, 68, 70, 0>>, <<83, 87, 70, 0>>,    \* WMV PDF SWF
                <<102, 73, 78, 0>>}                                         \* "BIN"

Cleared(c) == IF (c \div 32) % 2 = 1 THEN c - 32 ELSE c

\* The four characters behind the last dot.
wi_setftype(name) ==
    LET dots == {i \in DOMAIN name : name[i] = DOT}
        char(k) == LET i == Max(dots) + k IN IF i > Len(name) THEN 0 ELSE Cleared(name[i])
    IN  dots # {} /\ <<char(1), char(2), char(3), char(4)>> \in BinaryTypes

----------------------------------------------------------------------------
(* wi_formvalue and the handlers' helpers *)

\* atoi, atol: the number s begins with, behind spaces and a sign.
AtoI(s) ==
    LET start  == Min({i \in DOMAIN s : s[i] # SP} \cup {Len(s) + 1})
        signed == start <= Len(s) /\ s[start] \in {PLUS, 45}
        A[i \in 1 .. Len(s) + 1, n \in Nat] ==
          IF i <= Len(s) /\ s[i] \in Digit THEN A[i + 1, 10 * n + s[i] - 48] ELSE n
    IN  IF ~signed THEN A[start, 0]
        ELSE IF s[start] = PLUS THEN A[start + 1, 0] ELSE 0 - A[start + 1, 0]

Lowered(c) == IF (c \div 32) % 2 = 1 THEN c ELSE c + 32

\* strnicmp(b + p, s, strlen(s)), which goes on over a NUL.
strnicmp(b, p, s) ==
    \A k \in DOMAIN s : p + k - 1 <= Len(b) /\ Lowered(b[p + k - 1]) = Lowered(s[k])

\* Mutant: of the pairs that match the last is taken.
MatchMutant(name) ==
    LET hits == {i \in DOMAIN form : strnicmp(rxbuf, form[i].name, name)}
    IN  IF hits = {} THEN 0 ELSE Max(hits)

Match(name) ==
    LET hits == {i \in DOMAIN form : strnicmp(rxbuf, form[i].name, name)}
    IN  IF hits = {} THEN 0 ELSE Min(hits)

\* The value of the first pair whose name begins with this one; <<>> is NULL.
wi_formvalue(name) ==
    IF Match(name) = 0 THEN <<>> ELSE CString(rxbuf, form[Match(name)].value)

Good(v) == [ok |-> TRUE, is |-> v]
Bad     == [ok |-> FALSE, is |-> <<>>]

wi_formint(text) ==
    IF text = <<>> \/ (AtoI(text) = 0 /\ text[1] # 48) THEN Bad ELSE Good(<<AtoI(text)>>)

wi_formbool(text) ==
    Good(<<IF /\ text # <<>>
              /\ \/ Lowered(text[1]) \in {121, 116} \/ text[1] = 99   \* y, t or c
                 \/ Len(text) = 2 /\ Lowered(text[1]) = 111 /\ Lowered(text[2]) = 110
           THEN 1 ELSE 0>>)

\* The parts of s between its dots.
Parts(s) ==
    LET dots == {i \in DOMAIN s : s[i] = DOT} \cup {0, Len(s) + 1}
        cuts == SetToSortSeq(dots, <)
    IN  [k \in 1 .. Len(cuts) - 1 |-> SubSeq(s, cuts[k] + 1, cuts[k + 1] - 1)]

BadOctet(s) == AtoI(s) \notin 0 .. 255 \/ (AtoI(s) = 0 /\ (s = <<>> \/ s[1] # 48))

\* Two to four numbers; what is missing between the first ones and the last is zero.
wi_checkip(text) ==
    LET p == Parts(text)
        v(k) == AtoI(p[k])
    IN  IF Len(p) \notin 2 .. 4 \/ \E k \in DOMAIN p : BadOctet(p[k]) THEN Bad
        ELSE Good(CASE Len(p) = 2 -> <<v(1), 0, 0, v(2)>>
                    [] Len(p) = 3 -> <<v(1), v(2), 0, v(3)>>
                    [] Len(p) = 4 -> <<v(1), v(2), v(3), v(4)>>)

----------------------------------------------------------------------------
(* wi_parseheader, step by step *)

Order  == [uri |-> "auth", auth |-> "referer", referer |-> "host", host |-> "length",
           length |-> "form"]
Fields == {"auth", "referer", "host", "length"}
Still  == UNCHANGED <<req, answer>>

\* The URI: wi_rootfile for "/ ", else what follows the slash.
TakeUri ==
    /\ pc = "uri"
    /\ LET arg == wi_nextarg(rxbuf, 1)
       IN  IF arg = 0
           THEN pc' = "refused" /\ UNCHANGED <<cp, uri>>
           ELSE /\ cp' = arg /\ pc' = "auth"
                /\ uri' = IF rxbuf[arg] # SLASH THEN arg
                          ELSE IF rxbuf[arg + 1] = SP THEN 0 ELSE arg + 1
    /\ Still /\ UNCHANGED <<rxbuf, field, form, login, binary>>

\* One wi_getline, which ends the field it finds with a NUL.
GetLine ==
    /\ pc \in Fields
    /\ LET line == wi_getline(rxbuf, cp, Known[pc])
       IN  field' = [field EXCEPT ![pc] = line.at] /\ rxbuf' = line.buf
    /\ pc' = Order[pc]
    /\ Still /\ UNCHANGED <<cp, uri, form, login, binary>>

\* wi_buildform at place p of b; then to next.
Build(b, p, next) ==
    LET built == wi_buildform(b, p)
    IN  /\ rxbuf' = built.buf
        /\ form' = IF built.res = "ok" THEN built.pairs ELSE <<>>
        /\ pc' = IF built.res = "ok" THEN next ELSE built.res

\* A GET's pairs are behind the next '?' in what is left of the C string.
QueryForm ==
    /\ pc = "form"
    /\ LET p == IF req.cmd = "POST" THEN 0 ELSE strchr(rxbuf, cp, QMARK)
       IN  IF p = 0
           THEN pc' = "ends" /\ UNCHANGED <<rxbuf, form>>
           ELSE Build([rxbuf EXCEPT ![p] = NUL], p + 1, "ends")
    /\ Still /\ UNCHANGED <<cp, uri, field, login, binary>>

\* "insert the null terminators in any strings in the rxbuf"
Terminate ==
    /\ pc = "ends"
    /\ rxbuf' = FoldLeft(LAMBDA b, p : IF p \in 1 .. RxEnd - 1 THEN wi_argterm(b, p) ELSE b,
                         rxbuf, <<uri, field["auth"], field["referer"], field["host"]>>)
    /\ pc' = "open"
    /\ Still /\ UNCHANGED <<cp, uri, field, form, login, binary>>

RootFile == <<105, DOT, 104, 116, 109, 108>>
UriText  == IF uri = 0 THEN RootFile ELSE CString(rxbuf, uri)

\* The file is there: who asks is found out, and what type it has.
OpenFile ==
    /\ pc = "open"
    /\ login' = IF field["auth"] = 0 THEN NoLogin ELSE wi_decode_auth(rxbuf, field["auth"])
    /\ binary' = wi_setftype(UriText)
    /\ pc' = IF req.cmd = "POST" THEN "data" ELSE "handler"
    /\ Still /\ UNCHANGED <<rxbuf, cp, uri, field, form>>

\* wi_poll in WI_POSTRX, when all the content came.
BodyForm ==
    /\ pc = "data"
    /\ Build(rxbuf, Data, "handler")
    /\ Still /\ UNCHANGED <<cp, uri, field, login, binary>>

Ask(as, Answer(_)) ==
    /\ pc = "handler"
    /\ \E name \in Controls :
          answer' = [as |-> as, name |-> name, gets |-> Answer(wi_formvalue(name))]
    /\ UNCHANGED <<req, rxbuf, pc, cp, uri, field, form, login, binary>>

AskValue  == Ask("value", LAMBDA text : IF text = <<>> THEN Bad ELSE Good(text))
AskInt    == Ask("int", wi_formint)
AskBool   == Ask("bool", wi_formbool)
AskIpaddr == Ask("ipaddr", LAMBDA text : IF text = <<>> THEN Bad ELSE wi_checkip(text))

NoAnswer == [as |-> "none", name |-> <<>>, gets |-> Bad]

Init ==
    /\ req \in Requests
    /\ rxbuf = Wire(req) \o <<NUL>>
    /\ pc = "uri" /\ cp = 0 /\ uri = 0
    /\ field = [f \in Fields |-> 0]
    /\ form = <<>> /\ login = NoLogin /\ binary = FALSE /\ answer = NoAnswer

Parse  == TakeUri \/ GetLine \/ QueryForm \/ Terminate \/ OpenFile \/ BodyForm
Handle == AskValue \/ AskInt \/ AskBool \/ AskIpaddr
Next   == Parse \/ Handle
Spec   == Init /\ [][Next]_vars

(***************************************************************************)
(* Properties                                                              *)
(***************************************************************************)

Entered == req.raw = <<>>
Names   == {Known[f] : f \in Fields}

\* The first header line that holds a name among S, 0 if none does.
LineWith(S) ==
    LET lines == {i \in DOMAIN req.fields : Last(req.fields[i].name) \in S}
    IN  IF lines = {} THEN 0 ELSE Min(lines)

FirstWord(text) == SubSeq(text, 1, Min({i \in DOMAIN text : text[i] = SP} \cup {Len(text) + 1}) - 1)

\* The header text up to the first NUL a wi_getline writes: strchr goes on into it.
TextBehindUri ==
    LET n == LineWith(Names)
    IN  FlattenSeq([i \in 1 .. (IF n = 0 THEN Len(req.fields) ELSE n) |->
            IF i = n THEN FirstWord(req.fields[i].text) ELSE req.fields[i].text])

\* The requests whose header is not taken for part of the query: a GET without pairs must
\* not have a '?' there, one with pairs no '&'.
Clear == \/ req.cmd = "POST"
         \/ (IF Content(req) = <<>> THEN QMARK ELSE AMP) \notin ToSet(TextBehindUri)

String(p) == CString(rxbuf, p)
Kept == SubSeq(req.pairs, 1, Min({Len(req.pairs), MAX_FORM_PARAMS}))

\* The pairs a user entered come to the handler as they were entered, through the
\* browser's encoding, the NULs written into ws_rxbuf for them and for the fields, and the
\* decoding in place, as long as the header is clear of the query's marks (webio.c:501).
FormAsSent ==
    Entered /\ Clear =>
        /\ pc \notin {"stuck", "fault", "refused"}
        /\ pc = "handler" => [i \in DOMAIN form |-> [name  |-> String(form[i].name),
                                                     value |-> String(form[i].value)]] = Kept

\* A text written by hand can stop the server: in wi_urldecode's loop only at a '%' with
\* no code (webutils.c:405), at a NULL only by a second '=' in a pair (webutils.c:469).
ParsingFails ==
    LET t == Content(req)
        twice == \E i, j \in DOMAIN t : /\ i < j /\ t[i] = EQ /\ t[j] = EQ
                                        /\ \A k \in i .. j : t[k] # AMP
    IN  Clear => /\ pc = "stuck" => \E i \in DOMAIN t : t[i] = PCT /\ atocode(t, i + 1) = 0
                 /\ pc \in {"fault", "refused"} => twice

\* The binary types of wi_ftypes, but for MP3 and BIN, whose codes no extension gives.
IsBinary(name) ==
    LET up(c) == IF c \in Lower THEN c - 32 ELSE c
        ext   == SubSeq(name, Max({i \in DOMAIN name : name[i] = DOT} \cup {0}) + 1, Len(name))
        four  == [i \in 1 .. Min({4, Len(ext)}) |-> up(ext[i])]
    IN  DOT \in ToSet(name) /\
        four \in {<<74, 80, 71>>, <<74, 80, 69, 71>>, <<80, 78, 71>>, <<71, 73, 70>>,
                  <<87, 65, 86>>, <<87, 77, 86>>, <<80, 68, 70>>, <<83, 87, 70>>}

\* Each field is the first word of the first line its name is in (of another field if its
\* name ends in this one's), in whatever order the lines come, although each wi_getline
\* cuts ws_rxbuf under the next and may cut off its end mark; and the URI, which other
\* calls cut and pass over, names the file with the type that is sent.
FieldsAsSent ==
    pc = "handler" /\ Clear =>
        /\ \A f \in Fields :
              LET n == LineWith({Known[f]})
              IN  IF n = 0 THEN field[f] = 0
                  ELSE String(field[f]) = FirstWord(req.fields[n].text)
        /\ req.cmd = "GET" \/ Content(req) # <<>> => binary = IsBinary(UriText)
        /\ UriText = IF req.uri = <<SLASH>> THEN RootFile ELSE Tail(req.uri)

\* What lies behind the credentials up to the next NUL: to the end of the next line that
\* was looked for, or of all that came.
BehindLogin ==
    LET n  == LineWith({Known["auth"]})
        ms == {m \in n + 1 .. Len(req.fields) : Last(req.fields[m].name) \in Names \ {Known["auth"]}
                  /\ m = LineWith({Last(req.fields[m].name)})}
        upto(m) == FlattenSeq([i \in 1 .. m - n |-> Line(req.fields[n + i])])
    IN  IF ms = {} THEN Len(Wire(req)) - Len(Header(req)) + Len(upto(Len(req.fields)))
        ELSE Len(upto(Min(ms))) - 2

\* The name and password a user gave are the ones that are checked, through base64 and the
\* cuts in ws_rxbuf, unless so much text follows them that wi_decode_auth returns without
\* setting either (webutils.c:803; it "handles errors by returning null strings").
LoginAsSent ==
    pc = "handler" /\ req.user # <<>> /\ Clear =>
        LET n == LineWith({Known["auth"]})
        IN  req.fields[n].name = <<Known["auth"]>> =>
                login = IF Len(req.fields[n].text) + BehindLogin <= DECODE
                        THEN [name |-> req.user, pass |-> req.pass]
                        ELSE Unset

Numeral(n) == LET N[k \in Nat] == IF k < 10 THEN <<48 + k>> ELSE N[k \div 10] \o <<48 + (k % 10)>>
              IN  N[n]
Dotted(s)  == FlattenSeq([i \in DOMAIN s |-> (IF i = 1 THEN <<>> ELSE <<DOT>>) \o Numeral(s[i])])
Octets     == {0, 1, 10, 255}
Yes        == {<<121, 101, 115>>, <<84, 114, 117, 101>>, <<79, 78>>, <<111, 110>>}  \* yes True ON on
No         == {<<>>, <<48>>, <<110, 111>>, <<111, 102, 102>>}                       \* 0 no off

\* A handler that asks for a control gets what the user entered for it, as text, number,
\* truth or address, in the shorthands of addresses too, unless a pair before it has a
\* name that begins with the control's (wi_formvalue compares only so many characters).
AnswersRight ==
    LET n    == answer.name
        same == {i \in DOMAIN Kept : Kept[i].name = n}
        like == {i \in DOMAIN Kept : /\ Kept[i].name # n /\ Len(Kept[i].name) >= Len(n)
                                     /\ \A k \in DOMAIN n : Lowered(Kept[i].name[k]) = Lowered(n[k])}
        v    == IF same = {} THEN <<>> ELSE Kept[Min(same)].value
        gets == answer.gets
        is(k) == answer.as = k
    IN  (/\ Entered /\ Clear /\ \A i \in like : same # {} /\ Min(same) < i) =>
        /\ is("value") => gets = IF v = <<>> THEN Bad ELSE Good(v)
        /\ is("int") =>
              /\ \A k \in Octets \cup {256} : v = Numeral(k) => gets = Good(<<k>>)
              /\ v = <<>> \/ v[1] \notin Digit \cup {SP, PLUS, 45} => gets = Bad
        /\ is("bool") => /\ v \in Yes => gets = Good(<<1>>)
                         /\ v \in No => gets = Good(<<0>>)
        /\ is("ipaddr") =>
              /\ \A a, b, c, d \in Octets :
                    /\ v = Dotted(<<a, b, c, d>>) => gets = Good(<<a, b, c, d>>)
                    /\ v = Dotted(<<a, b, c>>) => gets = Good(<<a, b, 0, c>>)
                    /\ v = Dotted(<<a, b>>) => gets = Good(<<a, 0, 0, b>>)
                    /\ v \in {Numeral(a), Dotted(<<a, b, 256>>), Dotted(<<a, b, c, d, 0>>)}
                          => gets = Bad

============================================================================
