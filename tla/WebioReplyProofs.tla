---------------------------- MODULE WebioReplyProofs ----------------------------
(***************************************************************************)
(* The reply of one session for every page, request, buffer size and table *)
(* size: what is queued after a txbuf was missing, and what is on the wire *)
(* when the session ends.                                                  *)
(***************************************************************************)
EXTENDS WebioReply, SequenceLemmas

----------------------------------------------------------------------------
(* The inductive invariant *)

\* A unit that can be queued or sent.
Sent == {UnitName(n, p) : n \in Name \cup {"page"}, p \in Int} \cup {Junk}
        \cup {<<"header", i, length>> : i \in Nat, length \in Nat}

Types ==
    /\ req \in Requests /\ state \in {"CONTENT", "SENDDATA", "ENDING"}
    /\ hdrsent \in BOOLEAN /\ sel_send \in BOOLEAN /\ room \in 0 .. ROOM
    /\ files \in Seq(OpenFile) /\ forms \in Seq({"own", "include"})
    /\ txleft \in Nat /\ fileleft \in Nat /\ formleft \in Nat
    /\ stack \in Seq(Activation)
    /\ pc \in {"readfile", "sockwrite", "movebinary", "visit", "poll", "over"}
    /\ caller \in {"header", "content", "send"} /\ lost \subseteq {"tx", "file", "form", "text", "send"}
    /\ tx \in Seq(Seq(Sent)) /\ queued \in Seq(Sent) /\ wire \in Seq(Sent)

\* A block that is not used up is a full one, or the last; an include is opened within one.
Block(f) ==
    /\ f.inbuf <= f.pos /\ f.pos <= Len(TextOf(f.name))
    /\ f.inbuf # 0 => f.inbuf = BUF \/ f.pos = Len(TextOf(f.name))

BlocksOK ==
    /\ \A i \in 1 .. Len(files) : Block(files[i])
    /\ \A i \in 2 .. Len(files) : files[i].inbuf # 0

\* The calls from place k of the stack on have an include that they see is open still.
Unwinding(k) == \A i \in k .. Len(stack) : stack[i].at = "ssi" /\ stack[i].fi < Len(files)

\* The calls under way work on files further and further out; all but the innermost have
\* called wi_ssi.  Once the reply is sent, they only return.
CallsOK ==
    /\ \A i \in 1 .. Len(stack) : stack[i].fi # 0 /\ (i # 1 => stack[i].at = "ssi")
    /\ \A i, j \in 1 .. Len(stack) : i < j => stack[j].fi < stack[i].fi
    /\ pc = "readfile" =>
          /\ stack # <<>> /\ files # <<>>
          /\ stack[1].fi <= Len(files) /\ (stack[1].at # "ssi" => stack[1].fi = Len(files))
          /\ stack[1].at # "read" => files[1].inbuf # 0
          /\ state # "CONTENT" => Unwinding(1)
    /\ pc \in {"sockwrite", "movebinary"} =>
          /\ state = "SENDDATA" /\ Unwinding(2)
          /\ Len(stack) > 1 => files # <<>> /\ files[1].inbuf # 0
    /\ pc = "movebinary" => req.binary
    /\ pc \in {"visit", "poll", "over"} => stack = <<>>
    /\ pc \in {"visit", "poll"} => state # "ENDING" /\ (state = "CONTENT" => files # <<>>)

\* After a txbuf was missing, each call returns and each file is read to its end at once.
CutOK ==
    "tx" \in lost =>
        /\ \A i \in 1 .. Len(files) : files[i].inbuf # 0
        /\ pc = "readfile" => Unwinding(1) \/ (Len(stack) = 1 /\ stack[1].at = "read")

\* The text queued is in the txbufs and, behind the header, on the wire.
TextOK ==
    ~req.binary =>
        /\ ~hdrsent => queued = FlattenSeq(tx)
        /\ hdrsent /\ "send" \notin lost => wire \o FlattenSeq(tx) = Header(Len(queued)) \o queued
        /\ state = "ENDING" /\ hdrsent /\ "send" \notin lost => tx = <<>>

\* The first k units of the page.
Moved(k) == [p \in 1 .. k |-> UnitName("page", p)]

\* A binary file has no includes, and is on the wire up to the block in wf_data.
BinaryOK ==
    req.binary =>
        /\ Len(stack) <= 1 /\ "tx" \notin lost /\ tx = <<>> /\ queued = <<>>
        /\ pc = "readfile" => stack[1].at = "read" /\ state = "CONTENT"
        /\ state # "ENDING" => Len(files) = 1 /\ files[1].name = "page"
        /\ state = "CONTENT" => files[1].pos = 0 /\ files[1].inbuf = 0
        /\ pc = "movebinary" => hdrsent \/ "send" \in lost
        /\ "send" \notin lost /\ state # "ENDING" =>
              IF hdrsent THEN wire = Header(Len(req.page)) \o Moved(files[1].pos - files[1].inbuf)
              ELSE files[1].pos = files[1].inbuf
        /\ "send" \notin lost /\ state = "ENDING" /\ hdrsent => wire = Header(Len(req.page)) \o Moved(Len(req.page))

WireOK ==
    /\ state = "CONTENT" => ~hdrsent
    /\ ~hdrsent /\ "send" \notin lost => wire = <<>>

IInv == Types /\ BlocksOK /\ CallsOK /\ CutOK /\ TextOK /\ BinaryOK /\ WireOK /\ OwnFormKept

----------------------------------------------------------------------------
(* Texts, files and calls *)

LEMMA TextIs ==
    ASSUME Types, NEW n \in Name \cup {"page"}
    PROVE  TextOf(n) \in Seq(Unit) /\ Len(TextOf(n)) \in Nat /\ req.page \in Seq(Unit)
<1>1. req \in Request
  BY RequestAssumption DEF Types
<1>2. req.page \in Seq(Unit)
  BY <1>1 DEF Request
<1>3. n # "page" => Text[n] \in Seq(Unit)
  BY TextAssumption
<1>4. TextOf(n) \in Seq(Unit)
  BY <1>2, <1>3 DEF TextOf
<1>5. QED
  BY <1>2, <1>4, LenProperties

LEMMA SmallerIs ==
    ASSUME NEW a \in Nat, NEW b \in Nat
    PROVE  /\ Smaller(a, b) \in Nat /\ Smaller(a, b) <= a /\ Smaller(a, b) <= b
           /\ Smaller(a, b) = a \/ Smaller(a, b) = b
BY DEF Smaller

\* f takes the place of the file at the head of the list.
HeadFile(f) ==
    /\ files' \in Seq(OpenFile) /\ Len(files') = Len(files) /\ files' # <<>>
    /\ files'[1] = f /\ Tail(files') = Tail(files)
    /\ \A i \in 2 .. Len(files) : files'[i] = files[i]

LEMMA HeadFileIs ==
    ASSUME files \in Seq(OpenFile), files # <<>>, NEW f \in OpenFile, SetHead(f)
    PROVE  HeadFile(f)
<1>1. PICK r : r = Tail(files)
  OBVIOUS
<1>2. /\ r \in Seq(OpenFile) /\ Len(r) = Len(files) - 1 /\ Len(files) \in Nat \ {0}
      /\ \A i \in 1 .. Len(files) - 1 : r[i] = files[i + 1]
  BY <1>1, FirstOf
<1>3. files' = <<f>> \o r
  BY <1>1 DEF SetHead
<1>4. /\ files' \in Seq(OpenFile) /\ Len(files') = Len(r) + 1 /\ files' # <<>> /\ files'[1] = f
      /\ Tail(files') = r /\ \A i \in 2 .. Len(r) + 1 : files'[i] = r[i - 1]
  BY <1>2, <1>3, InFront
<1>5. Len(r) + 1 = Len(files)
  BY <1>2
<1>6. ASSUME NEW i \in 2 .. Len(files)
      PROVE  files'[i] = files[i]
  <2>1. i - 1 \in 1 .. Len(files) - 1 /\ (i - 1) + 1 = i
    BY <1>2
  <2>2. QED
    BY <1>2, <1>4, <1>5, <2>1
<1>7. QED
  BY <1>1, <1>4, <1>5, <1>6 DEF HeadFile

LEMMA HeadFileBlocks ==
    ASSUME BlocksOK, Len(files) \in Nat, req' = req, NEW f, HeadFile(f), Block(f)
    PROVE  BlocksOK'
<1>1. Block(f)' /\ \A i \in 1 .. Len(files) : Block(files[i])
  BY DEF Block, TextOf, BlocksOK
<1>2. Len(files') = Len(files) /\ files'[1] = f /\ \A i \in 2 .. Len(files) : files'[i] = files[i]
  BY DEF HeadFile
<1>3. ASSUME NEW i \in 1 .. Len(files)
      PROVE  Block(files[i])'
  <2>1. i = 1 \/ i \in 2 .. Len(files)
    OBVIOUS
  <2>2. files'[i] = f \/ (files'[i] = files[i] /\ Block(files[i]))
    BY <1>1, <1>2, <2>1
  <2>3. QED
    BY <1>1, <2>2 DEF Block, TextOf
<1>4. \A i \in 2 .. Len(files') : files'[i].inbuf # 0
  BY <1>2 DEF BlocksOK
<1>5. QED
  BY <1>2, <1>3, <1>4 DEF BlocksOK

LEMMA SameBlocks ==
    ASSUME BlocksOK, req' = req, files' = files
    PROVE  BlocksOK'
BY DEF BlocksOK, Block, TextOf

\* The place where a file is read on is moved.
LEMMA Marked ==
    ASSUME NEW h \in OpenFile, NEW x \in Nat, NEW f, f = [h EXCEPT !.nextbuf = x]
    PROVE  f \in OpenFile /\ f.name = h.name /\ f.pos = h.pos /\ f.inbuf = h.inbuf /\ f.nextbuf = x
           /\ (Block(h) => Block(f))
<1>1. f \in OpenFile /\ f.name = h.name /\ f.pos = h.pos /\ f.inbuf = h.inbuf /\ f.nextbuf = x
  BY DEF OpenFile
<1>2. QED
  BY <1>1 DEF Block

\* The block in wf_data is another one.
Rebuffer(h, p, b) == [h EXCEPT !.pos = p, !.inbuf = b]

LEMMA Rebuffered ==
    ASSUME NEW h \in OpenFile, NEW p \in Nat, NEW b \in 0 .. BUF
    PROVE  /\ Rebuffer(h, p, b) \in OpenFile /\ Rebuffer(h, p, b).name = h.name
           /\ Rebuffer(h, p, b).pos = p /\ Rebuffer(h, p, b).inbuf = b
BY DEF OpenFile, Rebuffer

\* The innermost call goes on.
Stepped(at, len) ==
    /\ stack' \in Seq(Activation) /\ Len(stack') = Len(stack)
    /\ stack'[1].fi = stack[1].fi /\ stack'[1].at = at /\ stack'[1].len = len
    /\ \A i \in 2 .. Len(stack) : stack'[i] = stack[i]

LEMMA StepIs ==
    ASSUME stack \in Seq(Activation), stack # <<>>, NEW at \in {"read", "copy", "ssi", "skipped"},
           NEW len \in Nat, Step(at, len)
    PROVE  Stepped(at, len)
<1>1. PICK r, h, c : r = Tail(stack) /\ h = Head(stack) /\ c = [Head(stack) EXCEPT !.at = at, !.len = len]
  OBVIOUS
<1>2. /\ r \in Seq(Activation) /\ Len(r) = Len(stack) - 1 /\ Len(stack) \in Nat \ {0}
      /\ h \in Activation /\ h = stack[1]
      /\ \A i \in 1 .. Len(stack) - 1 : r[i] = stack[i + 1]
  BY <1>1, FirstOf
<1>3. stack' = <<c>> \o r
  BY <1>1 DEF Step
<1>4. c \in Activation /\ c.fi = h.fi /\ c.at = at /\ c.len = len
  BY <1>1, <1>2 DEF Activation
<1>5. /\ stack' \in Seq(Activation) /\ Len(stack') = Len(r) + 1 /\ stack'[1] = c
      /\ \A i \in 2 .. Len(r) + 1 : stack'[i] = r[i - 1]
  BY <1>2, <1>3, <1>4, InFront
<1>6. Len(r) + 1 = Len(stack)
  BY <1>2
<1>7. ASSUME NEW i \in 2 .. Len(stack)
      PROVE  stack'[i] = stack[i]
  <2>1. i - 1 \in 1 .. Len(stack) - 1 /\ (i - 1) + 1 = i
    BY <1>2
  <2>2. QED
    BY <1>2, <1>5, <1>6, <2>1
<1>8. QED
  BY <1>2, <1>4, <1>5, <1>6, <1>7 DEF Stepped

\* A call at work has the innermost file, nothing was sent, and it is not behind a cut.
Working ==
    /\ state = "CONTENT" /\ ~hdrsent
    /\ stack # <<>> /\ Len(stack) \in Nat \ {0} /\ Head(stack) = stack[1] /\ stack[1] \in Activation
    /\ files # <<>> /\ Len(files) \in Nat \ {0} /\ Head(files) = files[1] /\ files[1] \in OpenFile
    /\ stack[1].fi = Len(files)
    /\ \A i \in 2 .. Len(stack) : stack[i].at = "ssi" /\ stack[i].fi < Len(files) /\ stack[i].fi # 0
    /\ stack[1].at # "read" => files[1].inbuf # 0 /\ "tx" \notin lost /\ ~req.binary
    /\ "tx" \in lost => Len(stack) = 1

LEMMA Works ==
    ASSUME IInv, pc = "readfile", Head(stack).at # "ssi" \/ Head(stack).fi = Len(files)
    PROVE  Working
<1>1. stack # <<>> /\ files # <<>> /\ stack \in Seq(Activation) /\ files \in Seq(OpenFile)
  BY DEF IInv, CallsOK, Types
<1>2. /\ Len(stack) \in Nat \ {0} /\ Head(stack) = stack[1] /\ stack[1] \in Activation /\ 1 \in 1 .. Len(stack)
      /\ Len(files) \in Nat \ {0} /\ Head(files) = files[1] /\ files[1] \in OpenFile
  BY <1>1, FirstOf
<1>3. stack[1].fi = Len(files)
  BY <1>2 DEF IInv, CallsOK
<1>4. ~Unwinding(1)
  <2>1. ~(stack[1].fi < Len(files))
    BY <1>2, <1>3
  <2>2. QED
    BY <1>2, <2>1 DEF Unwinding
<1>5. state = "CONTENT" /\ ~hdrsent
  BY <1>4 DEF IInv, CallsOK, WireOK
<1>6. ASSUME NEW i \in 2 .. Len(stack)
      PROVE  stack[i].at = "ssi" /\ stack[i].fi < Len(files) /\ stack[i].fi # 0
  <2>1. i \in 1 .. Len(stack) /\ i # 1 /\ 1 < i
    BY <1>2
  <2>2. stack[i].at = "ssi" /\ stack[i].fi # 0 /\ stack[i].fi < stack[1].fi
    BY <1>2, <2>1 DEF IInv, CallsOK
  <2>3. QED
    BY <1>3, <2>2
<1>7. stack[1].at # "read" => files[1].inbuf # 0 /\ "tx" \notin lost /\ ~req.binary
  BY <1>4 DEF IInv, CallsOK, CutOK, BinaryOK
<1>8. "tx" \in lost => Len(stack) = 1
  BY <1>4 DEF IInv, CutOK
<1>9. QED
  BY <1>1, <1>2, <1>3, <1>5, <1>6, <1>7, <1>8 DEF Working

\* The call goes on with the innermost file.
LEMMA StepCalls ==
    ASSUME Working, CallsOK, pc = "readfile", NEW at \in {"read", "copy", "skipped"}, NEW len, Stepped(at, len),
           pc' = pc, state' = state, Len(files') = Len(files), files' # <<>>,
           at # "read" => files'[1].inbuf # 0
    PROVE  CallsOK'
<1>1. /\ Len(stack) \in Nat \ {0} /\ Len(stack') = Len(stack) /\ 1 \in 1 .. Len(stack)
      /\ Len(files) \in Nat \ {0}
  BY DEF Stepped, Working
<1>2. stack' # <<>> /\ stack'[1].fi = Len(files) /\ stack'[1].at = at
  <2>1. stack' \in Seq(Activation)
    BY DEF Stepped
  <2>2. stack' # <<>>
    BY <1>1, <2>1, EmptySeq
  <2>3. QED
    BY <2>2 DEF Stepped, Working
<1>3. \A i \in 1 .. Len(stack') : stack'[i].fi # 0 /\ (i # 1 => stack'[i].at = "ssi" /\ stack'[i].fi < Len(files) /\ stack'[i] = stack[i])
  <2>1. ASSUME NEW i \in 1 .. Len(stack')
        PROVE  stack'[i].fi # 0 /\ (i # 1 => stack'[i].at = "ssi" /\ stack'[i].fi < Len(files) /\ stack'[i] = stack[i])
    <3>1. i = 1 \/ (i # 1 /\ i \in 2 .. Len(stack))
      BY <1>1, <2>1
    <3>2. i = 1 => stack'[i].fi # 0
      BY <1>1, <1>2
    <3>3. i \in 2 .. Len(stack) => stack'[i] = stack[i] /\ stack[i].fi # 0 /\ stack[i].at = "ssi" /\ stack[i].fi < Len(files)
      BY DEF Stepped, Working
    <3>4. QED
      BY <3>1, <3>2, <3>3
  <2>2. QED
    BY <2>1
<1>4. ASSUME NEW i \in 1 .. Len(stack'), NEW j \in 1 .. Len(stack'), i < j
      PROVE  stack'[j].fi < stack'[i].fi
  <2>1. j # 1 /\ i \in 1 .. Len(stack) /\ j \in 1 .. Len(stack)
    BY <1>1, <1>4
  <2>2. stack'[j] = stack[j] /\ stack'[j].fi < Len(files)
    BY <1>3, <2>1
  <2>3. i # 1 => stack'[i] = stack[i]
    BY <1>3
  <2>4. i = 1 => stack'[i].fi = Len(files)
    BY <1>2
  <2>5. stack[j].fi < stack[i].fi
    BY <1>4, <2>1 DEF CallsOK
  <2>6. QED
    BY <2>2, <2>3, <2>4, <2>5
<1>5. state' = "CONTENT"
  BY DEF Working
<1>6. QED
  BY <1>1, <1>2, <1>3, <1>4, <1>5 DEF CallsOK

\* A call has returned, to the one around it or to the visit that made it.
Returned(error, st) ==
    /\ stack' \in Seq(Activation)
    /\ \/ /\ Len(stack) > 1 /\ state' = st /\ pc' = "readfile"
          /\ Len(stack') = Len(stack) - 1 /\ stack' # <<>>
          /\ \A i \in 1 .. Len(stack) - 1 : stack'[i] = stack[i + 1]
       \/ /\ Len(stack) <= 1 /\ stack' = <<>>
          /\ \/ pc' = "over" /\ state' = "ENDING" /\ (error \/ st = "ENDING")
             \/ pc' \in {"visit", "poll"} /\ state' = st /\ st # "ENDING"

LEMMA ReturnIs ==
    ASSUME stack \in Seq(Activation), NEW error \in BOOLEAN, NEW st, Return(error, st)
    PROVE  Returned(error, st)
<1>1. Len(stack) \in Nat
  BY LenProperties
<1>2. CASE Len(stack) > 1
  <2>1. stack # <<>> /\ Len(stack) - 1 # 0
    <3>1. Len(stack) - 1 # 0 /\ Len(stack) # 0
      <4>1. \A n \in Nat : n > 1 => n - 1 # 0 /\ n # 0
        OBVIOUS
      <4>2. QED
        BY <1>1, <1>2, <4>1
    <3>2. QED
      BY <3>1, EmptySeq
  <2>2. stack' = Tail(stack) /\ state' = st /\ pc' = "readfile"
    BY <1>2 DEF Return
  <2>3. PICK r : r = Tail(stack)
    OBVIOUS
  <2>4. r \in Seq(Activation) /\ Len(r) = Len(stack) - 1 /\ \A i \in 1 .. Len(stack) - 1 : r[i] = stack[i + 1]
    BY <2>1, <2>3, FirstOf
  <2>5. r # <<>>
    BY <2>1, <2>4
  <2>6. QED
    BY <1>2, <2>2, <2>3, <2>4, <2>5 DEF Returned
<1>3. CASE ~(Len(stack) > 1)
  <2>1. Outermost(error, st)
    BY <1>3 DEF Return
  <2>2. Len(stack) <= 1 /\ stack' = <<>> /\ stack' \in Seq(Activation)
    BY <1>1, <1>3, <2>1, EmptySeq DEF Outermost
  <2>3. \/ pc' = "over" /\ state' = "ENDING" /\ (error \/ st = "ENDING")
        \/ pc' \in {"visit", "poll"} /\ state' = st /\ st # "ENDING"
    BY <2>1 DEF Outermost
  <2>4. QED
    BY <2>2, <2>3 DEF Returned
<1>4. QED
  BY <1>2, <1>3

\* The calls around this one have files that are open still.
Around(st) ==
    /\ Len(files') \in Nat
    /\ Len(stack) > 1 =>
          /\ files' # <<>> /\ files'[1].inbuf # 0
          /\ \A i \in 2 .. Len(stack) : stack[i].fi <= Len(files')
          /\ st # "CONTENT" => \A i \in 2 .. Len(stack) : stack[i].fi < Len(files')
    /\ Len(stack) <= 1 /\ st = "CONTENT" => files' # <<>>

LEMMA ReturnCalls ==
    ASSUME CallsOK, stack \in Seq(Activation), NEW error, NEW st, Returned(error, st), Around(st)
    PROVE  CallsOK'
<1>1. Len(stack) \in Nat
  BY LenProperties
<1>2. CASE Len(stack) > 1 /\ pc' = "readfile"
  <2>1. /\ state' = st /\ Len(stack') = Len(stack) - 1 /\ stack' # <<>>
        /\ \A i \in 1 .. Len(stack) - 1 : stack'[i] = stack[i + 1]
    BY <1>2 DEF Returned
  <2>2. \A i \in 1 .. Len(stack') : stack'[i] = stack[i + 1] /\ i + 1 \in 2 .. Len(stack) /\ i + 1 \in 1 .. Len(stack) /\ i + 1 # 1
    BY <1>1, <2>1
  <2>3. \A i \in 1 .. Len(stack') : stack'[i].fi # 0 /\ stack'[i].at = "ssi" /\ stack'[i].fi <= Len(files')
    BY <1>2, <2>2 DEF CallsOK, Around
  <2>4. ASSUME NEW i \in 1 .. Len(stack'), NEW j \in 1 .. Len(stack'), i < j
        PROVE  stack'[j].fi < stack'[i].fi
    <3>1. i + 1 < j + 1
      BY <2>4
    <3>2. stack[j + 1].fi < stack[i + 1].fi
      BY <2>2, <3>1 DEF CallsOK
    <3>3. QED
      BY <2>2, <3>2
  <2>5. st # "CONTENT" => Unwinding(1)'
    BY <1>2, <2>2, <2>3 DEF Unwinding, Around
  <2>6. 1 \in 1 .. Len(stack')
    BY <1>1, <1>2, <2>1
  <2>7. files' # <<>> /\ files'[1].inbuf # 0
    BY <1>2 DEF Around
  <2>8. QED
    BY <1>2, <2>1, <2>3, <2>4, <2>5, <2>6, <2>7 DEF CallsOK
<1>3. CASE ~(Len(stack) > 1 /\ pc' = "readfile")
  <2>1. /\ Len(stack) <= 1 /\ stack' = <<>>
        /\ \/ pc' = "over" /\ state' = "ENDING"
           \/ pc' \in {"visit", "poll"} /\ state' = st /\ st # "ENDING"
    BY <1>3 DEF Returned
  <2>2. Len(stack') = 0
    BY <2>1
  <2>3. state' = "CONTENT" => files' # <<>>
    BY <2>1 DEF Around
  <2>4. \A i \in 1 .. Len(stack') : FALSE
    BY <2>2
  <2>5. QED
    BY <2>1, <2>3, <2>4 DEF CallsOK
<1>4. QED
  BY <1>2, <1>3

\* When every call around this one sees an include open, they all only return.
LEMMA ReturnUnwinds ==
    ASSUME CallsOK, stack \in Seq(Activation), NEW error, NEW st, Returned(error, st),
           \A i \in 2 .. Len(stack) : stack[i].fi < Len(files')
    PROVE  pc' = "readfile" => Unwinding(1)'
<1>1. SUFFICES ASSUME pc' = "readfile"
               PROVE  Unwinding(1)'
  OBVIOUS
<1>2. Len(stack) \in Nat /\ Len(stack') = Len(stack) - 1 /\ \A i \in 1 .. Len(stack) - 1 : stack'[i] = stack[i + 1]
  BY <1>1, LenProperties DEF Returned
<1>3. \A i \in 1 .. Len(stack') : stack'[i] = stack[i + 1] /\ i + 1 \in 2 .. Len(stack) /\ i + 1 \in 1 .. Len(stack) /\ i + 1 # 1
  BY <1>2
<1>4. \A i \in 1 .. Len(stack') : stack'[i].at = "ssi" /\ stack'[i].fi < Len(files')
  BY <1>3 DEF CallsOK
<1>5. QED
  BY <1>4 DEF Unwinding

\* The text goes behind all the text queued.
LEMMA PutText ==
    ASSUME tx \in Seq(Seq(Sent)), queued \in Seq(Sent), txleft \in Nat, NEW text \in Seq(Sent), NEW new \in BOOLEAN,
           new => txleft # 0, ~new => tx # <<>>, Put(text, new)
    PROVE  /\ tx' \in Seq(Seq(Sent)) /\ queued' \in Seq(Sent) /\ txleft' \in Nat
           /\ queued' = queued \o text /\ FlattenSeq(tx') = FlattenSeq(tx) \o text
<1>1. queued' = queued \o text /\ queued' \in Seq(Sent)
  BY ConcatProperties DEF Put
<1>2. txleft' \in Nat
  BY DEF Put
<1>3. CASE new
  <2>1. tx' = Append(tx, text)
    BY <1>3 DEF Put
  <2>2. QED
    BY <1>1, <1>2, <2>1, AppendProperties, FlatAppend
<1>4. CASE ~new
  <2>1. tx' = Front(tx) \o <<Last(tx) \o text>>
    BY <1>4 DEF Put
  <2>2. QED
    BY <1>1, <1>2, <1>4, <2>1, FlatReplaceLast
<1>5. QED
  BY <1>3, <1>4

\* The files of the calls around the one at work.
LEMMA LowerCalls ==
    ASSUME IInv, Working
    PROVE  /\ \A i \in 2 .. Len(stack) : stack[i].fi \in Nat \ {0} /\ stack[i].fi <= Len(files) - 1
           /\ Len(files) = 1 => Len(stack) = 1
<1>1. Len(stack) \in Nat \ {0} /\ Len(files) \in Nat \ {0} /\ stack \in Seq(Activation)
  BY DEF Working, IInv, Types
<1>2. ASSUME NEW i \in 2 .. Len(stack)
      PROVE  stack[i].fi \in Nat \ {0} /\ stack[i].fi <= Len(files) - 1
  <2>1. i \in 1 .. Len(stack)
    BY <1>1
  <2>2. stack[i] \in Activation
    BY <1>1, <2>1, ElementOfSeq
  <2>3. stack[i].fi \in Nat
    BY <2>2 DEF Activation
  <2>4. stack[i].fi < Len(files) /\ stack[i].fi # 0
    BY DEF Working
  <2>5. QED
    BY <1>1, <2>3, <2>4
<1>3. ASSUME Len(files) = 1, Len(stack) # 1
      PROVE  FALSE
  <2>1. 2 \in 2 .. Len(stack)
    <3>1. \A n \in Nat \ {0} : n # 1 => 2 \in 2 .. n
      OBVIOUS
    <3>2. QED
      BY <1>1, <1>3, <3>1
  <2>2. stack[2].fi \in Nat \ {0} /\ stack[2].fi <= Len(files) - 1
    BY <1>2, <2>1
  <2>3. QED
    BY <1>3, <2>2
<1>4. QED
  BY <1>2, <1>3

\* The innermost file is closed: every file below it is within a block.
LEMMA TailFiles ==
    ASSUME BlocksOK, files \in Seq(OpenFile), files # <<>>, req' = req, files' = Tail(files)
    PROVE  /\ BlocksOK' /\ files' \in Seq(OpenFile) /\ Len(files') = Len(files) - 1 /\ Len(files') \in Nat
           /\ \A i \in 1 .. Len(files') : files'[i].inbuf # 0
<1>1. PICK r : r = Tail(files)
  OBVIOUS
<1>2. /\ r \in Seq(OpenFile) /\ Len(r) = Len(files) - 1 /\ Len(files) \in Nat \ {0}
      /\ \A i \in 1 .. Len(files) - 1 : r[i] = files[i + 1]
  BY <1>1, FirstOf
<1>3. files' = r
  BY <1>1
<1>4. \A i \in 1 .. Len(files') : files'[i] = files[i + 1] /\ i + 1 \in 2 .. Len(files) /\ i + 1 \in 1 .. Len(files)
  BY <1>2, <1>3
<1>5. \A i \in 1 .. Len(files') : files'[i].inbuf # 0 /\ Block(files[i + 1])
  BY <1>4 DEF BlocksOK
<1>6. \A i \in 1 .. Len(files') : Block(files[i])'
  BY <1>4, <1>5 DEF Block, TextOf
<1>7. Len(files') \in Nat
  BY <1>2, <1>3
<1>8. \A i \in 2 .. Len(files') : i \in 1 .. Len(files')
  BY <1>7
<1>9. QED
  BY <1>2, <1>3, <1>5, <1>6, <1>7, <1>8 DEF BlocksOK

\* While a call is at work, nothing is on the wire: the text queued is in the txbufs.
LEMMA WorkText ==
    ASSUME IInv, Working, UNCHANGED <<req, hdrsent, wire>>, "send" \in lost => "send" \in lost',
           ~req.binary => queued' = FlattenSeq(tx)'
    PROVE  TextOK' /\ WireOK'
BY DEF Working, IInv, TextOK, WireOK

LEMMA SameText ==
    ASSUME IInv, Working, UNCHANGED <<req, hdrsent, wire, tx, queued>>, "send" \in lost => "send" \in lost'
    PROVE  TextOK' /\ WireOK'
<1>1. ~req.binary => queued = FlattenSeq(tx)
  BY DEF Working, IInv, TextOK
<1>2. ~req.binary => queued' = FlattenSeq(tx)'
  BY <1>1
<1>3. QED
  BY <1>2, WorkText

LEMMA NoBinary ==
    ASSUME req' = req, ~req.binary
    PROVE  BinaryOK'
BY DEF BinaryOK

LEMMA SameForms ==
    ASSUME OwnFormKept, req' = req, forms' = forms
    PROVE  OwnFormKept'
BY DEF OwnFormKept

----------------------------------------------------------------------------
(* wi_readfile *)

LEMMA ReadMoreStep ==
    ASSUME IInv, ReadMore
    PROVE  IInv'
<1>1. Working /\ Head(stack).at = "read" /\ pc = "readfile"
  BY Works DEF ReadMore, Reading
<1>2. PICK f, n, l : /\ f = FileHead /\ l = Len(TextOf(f.name))
                     /\ n = Smaller(BUF - f.inbuf, Len(TextOf(f.name)) - f.pos)
  OBVIOUS
<1>3. f = files[1] /\ f \in OpenFile /\ Block(f) /\ 1 \in 1 .. Len(files) /\ stack[1].at = "read"
  BY <1>1, <1>2 DEF Working, FileHead, IInv, BlocksOK
<1>4. /\ f.name \in Name \cup {"page"} /\ f.pos \in Nat /\ f.inbuf \in 0 .. BUF /\ f.nextbuf \in Nat
      /\ l \in Nat /\ f.inbuf <= f.pos /\ f.pos <= l /\ (f.inbuf # 0 => f.inbuf = BUF \/ f.pos = l) /\ BUF \in Nat \ {0}
  BY <1>2, <1>3, TextIs, SizesAssumption DEF OpenFile, Block, IInv
<1>5. /\ n \in Nat /\ n <= BUF - f.inbuf /\ n <= l - f.pos /\ (n = BUF - f.inbuf \/ n = l - f.pos)
  <2>1. BUF - f.inbuf \in Nat /\ l - f.pos \in Nat
    BY <1>4
  <2>2. n = Smaller(BUF - f.inbuf, l - f.pos)
    BY <1>2
  <2>3. QED
    BY <2>1, <2>2, SmallerIs
<1>6. IF n = 0
      THEN /\ files' = Tail(files) /\ fileleft' = fileleft + 1
           /\ IF Tail(files) # <<>> THEN Return(FALSE, state) ELSE ReadDone
      ELSE /\ SetHead([f EXCEPT !.pos = @ + n, !.inbuf = @ + n])
           /\ IF req.binary THEN ReadDone ELSE Step("copy", f.nextbuf) /\ UNCHANGED <<state, pc>>
           /\ UNCHANGED fileleft
  BY <1>2 DEF ReadMore
<1>7. UNCHANGED <<forms, tx, txleft, formleft, queued, lost, req, hdrsent, caller, sel_send, room, wire>>
  BY DEF ReadMore, history, NoSend
<1>8. TextOK' /\ WireOK' /\ OwnFormKept'
  BY <1>1, <1>7, SameText, SameForms DEF IInv
<1>9. req.binary => n # 0 /\ f.name = "page" /\ f.pos = 0 /\ f.inbuf = 0 /\ Len(files) = 1 /\ Len(stack) = 1
  <2>1. SUFFICES ASSUME req.binary
                 PROVE  n # 0 /\ f.name = "page" /\ f.pos = 0 /\ f.inbuf = 0 /\ Len(files) = 1 /\ Len(stack) = 1
    OBVIOUS
  <2>2. /\ f.name = "page" /\ f.pos = 0 /\ f.inbuf = 0 /\ Len(files) = 1 /\ Len(stack) <= 1
    BY <1>1, <1>3, <2>1 DEF IInv, BinaryOK, Working
  <2>3. req.page # <<>> /\ l = Len(req.page) /\ req.page \in Seq(Unit)
    BY <1>2, <1>4, <2>1, <2>2, RequestAssumption, TextIs DEF IInv, Types, TextOf
  <2>4. l # 0
    BY <2>3, EmptySeq
  <2>5. n # 0
    BY <1>4, <1>5, <2>2, <2>4
  <2>6. Len(stack) = 1
    BY <1>1, <2>2 DEF Working
  <2>7. QED
    BY <2>2, <2>5, <2>6
<1>10. CASE n = 0
  <2>1. ~req.binary /\ files' = Tail(files) /\ fileleft' = fileleft + 1
    BY <1>6, <1>9, <1>10
  <2>2. /\ BlocksOK' /\ files' \in Seq(OpenFile) /\ Len(files') = Len(files) - 1 /\ Len(files') \in Nat
        /\ \A i \in 1 .. Len(files') : files'[i].inbuf # 0
    BY <1>1, <1>7, <2>1, TailFiles DEF IInv, Types, Working
  <2>3. BinaryOK'
    BY <1>7, <2>1, NoBinary
  <2>4. \A i \in 2 .. Len(stack) : stack[i].fi <= Len(files')
    BY <1>1, <2>2, LowerCalls
  <2>5. CASE Tail(files) # <<>>
    <3>1. Return(FALSE, state)
      BY <1>6, <1>10, <2>5
    <3>2. Returned(FALSE, state)
      BY <3>1, ReturnIs DEF IInv, Types
    <3>3. files' # <<>> /\ 1 \in 1 .. Len(files')
      BY <2>1, <2>2, <2>5, EmptySeq
    <3>4. Around(state)
      BY <1>1, <2>2, <2>4, <3>3 DEF Around, Working
    <3>5. CallsOK'
      BY <3>2, <3>4, ReturnCalls DEF IInv, Types
    <3>6. CutOK'
      <4>1. "tx" \in lost => Len(stack) = 1
        BY <1>1 DEF Working
      <4>2. "tx" \in lost => pc' # "readfile"
        BY <3>2, <4>1 DEF Returned
      <4>3. QED
        BY <1>7, <2>2, <4>2 DEF CutOK
    <3>7. Types'
      BY <1>7, <2>1, <2>2, <3>2 DEF Types, IInv, Returned
    <3>8. QED
      BY <1>8, <2>2, <2>3, <3>5, <3>6, <3>7 DEF IInv
  <2>6. CASE Tail(files) = <<>>
    <3>1. state' = "SENDDATA" /\ pc' = "sockwrite" /\ stack' = stack
      BY <1>6, <1>10, <2>6 DEF ReadDone
    <3>2. Len(files') = 0
      BY <2>1, <2>6
    <3>3. Len(stack) = 1
      <4>1. Len(files) = 1
        BY <1>1, <2>2, <3>2 DEF Working
      <4>2. QED
        BY <1>1, <4>1, LowerCalls
    <3>4. CallsOK'
      BY <3>1, <3>3 DEF CallsOK, IInv, Unwinding
    <3>5. CutOK'
      BY <2>2, <3>1 DEF CutOK
    <3>6. Types'
      BY <1>7, <2>1, <2>2, <3>1 DEF Types, IInv
    <3>7. QED
      BY <1>8, <2>2, <2>3, <3>4, <3>5, <3>6 DEF IInv
  <2>7. QED
    BY <2>5, <2>6
<1>11. CASE n # 0
  <2>1. f.inbuf = 0 /\ f.pos + n \in Nat /\ f.inbuf + n \in 0 .. BUF /\ f.inbuf + n = n
    BY <1>4, <1>5, <1>11
  <2>2. "tx" \notin lost
    BY <1>3, <2>1 DEF IInv, CutOK
  <2>3. PICK g : g = [f EXCEPT !.pos = f.pos + n, !.inbuf = f.inbuf + n]
    OBVIOUS
  <2>4. g \in OpenFile /\ g.name = f.name /\ g.pos = f.pos + n /\ g.inbuf = f.inbuf + n
    <3>1. PICK p, b : p = f.pos + n /\ b = f.inbuf + n
      OBVIOUS
    <3>2. f \in OpenFile /\ p \in Nat /\ b \in 0 .. BUF /\ g = Rebuffer(f, p, b)
      BY <1>3, <2>1, <2>3, <3>1 DEF Rebuffer
    <3>3. g \in OpenFile /\ g.name = f.name /\ g.pos = p /\ g.inbuf = b
      BY <3>2, Rebuffered
    <3>4. QED
      BY <3>1, <3>3
  <2>5. Block(g)
    <3>1. g.inbuf <= g.pos /\ g.pos <= l /\ (g.inbuf = BUF \/ g.pos = l)
      BY <1>4, <1>5, <2>1, <2>4
    <3>2. QED
      BY <1>2, <2>4, <3>1 DEF Block
  <2>6. SetHead(g)
    BY <1>6, <1>11, <2>3
  <2>7. HeadFile(g)
    BY <1>1, <2>4, <2>6, HeadFileIs DEF Working, IInv, Types
  <2>8. BlocksOK'
    BY <1>1, <1>7, <2>5, <2>7, HeadFileBlocks DEF Working, IInv
  <2>9. fileleft' = fileleft
    BY <1>6, <1>11
  <2>10. CutOK'
    BY <1>7, <2>2 DEF CutOK
  <2>11. CASE req.binary
    <3>1. state' = "SENDDATA" /\ pc' = "sockwrite" /\ stack' = stack
      BY <1>6, <1>11, <2>11 DEF ReadDone
    <3>2. Types'
      BY <1>7, <2>7, <2>9, <3>1 DEF Types, IInv, HeadFile
    <3>3. CallsOK'
      <4>1. Len(stack') = 1 /\ ~(1 > 1) /\ \A i \in 2 .. 1 : FALSE
        BY <1>9, <2>11, <3>1
      <4>2. Unwinding(2)'
        BY <4>1 DEF Unwinding
      <4>3. QED
        BY <3>1, <4>1, <4>2 DEF CallsOK, IInv
    <3>4. BinaryOK'
      <4>1. files'[1] = g /\ Len(files') = 1 /\ g.pos = g.inbuf /\ g.name = "page"
        BY <1>9, <2>1, <2>4, <2>7, <2>11 DEF HeadFile
      <4>2. ~hdrsent'
        BY <1>1, <1>7 DEF Working
      <4>3. Len(stack') <= 1 /\ "tx" \notin lost' /\ tx' = <<>> /\ queued' = <<>>
        BY <1>7, <1>9, <2>2, <2>11, <3>1 DEF IInv, BinaryOK
      <4>4. QED
        BY <3>1, <4>1, <4>2, <4>3 DEF BinaryOK
    <3>5. QED
      BY <1>8, <2>8, <2>10, <3>2, <3>3, <3>4 DEF IInv
  <2>12. CASE ~req.binary
    <3>1. Step("copy", f.nextbuf) /\ state' = state /\ pc' = pc
      BY <1>6, <1>11, <2>12
    <3>2. Stepped("copy", f.nextbuf)
      BY <1>1, <1>4, <3>1, StepIs DEF Working, IInv, Types
    <3>3. Types'
      BY <1>7, <2>7, <2>9, <3>1, <3>2 DEF Types, IInv, HeadFile, Stepped
    <3>4. files'[1].inbuf # 0 /\ files' # <<>> /\ Len(files') = Len(files)
      BY <1>11, <2>1, <2>4, <2>7 DEF HeadFile
    <3>5. CallsOK'
      BY <1>1, <3>1, <3>2, <3>4, StepCalls DEF IInv
    <3>6. BinaryOK'
      BY <1>7, <2>12, NoBinary
    <3>7. QED
      BY <1>8, <2>8, <2>10, <3>3, <3>5, <3>6 DEF IInv
  <2>13. QED
    BY <2>11, <2>12
<1>12. QED
  BY <1>10, <1>11

\* What is in the tables and in the txbufs.
Tables ==
    /\ forms \in Seq({"own", "include"})
    /\ txleft \in Nat /\ fileleft \in Nat /\ formleft \in Nat
    /\ tx \in Seq(Seq(Sent)) /\ queued \in Seq(Sent)
    /\ lost \subseteq {"tx", "file", "form", "text", "send"}

\* A call that is past its first read goes on, with its file's block f.
LEMMA StepOn ==
    ASSUME IInv, Working, pc = "readfile", Head(stack).at # "read", NoSend,
           NEW at \in {"read", "copy", "skipped"}, NEW len \in Nat, Step(at, len), pc' = pc, state' = state,
           NEW f, HeadFile(f), Block(f), at # "read" => f.inbuf # 0,
           Tables', queued' = FlattenSeq(tx)', "tx" \notin lost', "send" \in lost => "send" \in lost', OwnFormKept'
    PROVE  IInv'
<1>1. UNCHANGED <<req, hdrsent, caller, sel_send, room, wire>>
  BY DEF NoSend
<1>2. /\ files' \in Seq(OpenFile) /\ files'[1] = f /\ Len(files') = Len(files) /\ files' # <<>>
      /\ Len(files) \in Nat /\ ~req.binary
  BY DEF HeadFile, Working
<1>3. Stepped(at, len)
  BY StepIs DEF Working, IInv, Types
<1>4. Types'
  BY <1>1, <1>2, <1>3 DEF Types, IInv, Tables, Stepped
<1>5. BlocksOK'
  BY <1>1, <1>2, HeadFileBlocks DEF IInv
<1>6. at # "read" => files'[1].inbuf # 0
  BY <1>2
<1>7. CallsOK'
  BY <1>2, <1>3, <1>6, StepCalls DEF IInv
<1>8. CutOK'
  BY DEF CutOK
<1>9. TextOK' /\ WireOK'
  BY <1>1, WorkText
<1>10. BinaryOK'
  BY <1>1, <1>2, NoBinary
<1>11. QED
  BY <1>4, <1>5, <1>7, <1>8, <1>9, <1>10 DEF IInv

LEMMA SameHead ==
    ASSUME IInv, Working, files' = files
    PROVE  HeadFile(files[1]) /\ Block(files[1])
<1>1. files \in Seq(OpenFile) /\ files # <<>> /\ 1 \in 1 .. Len(files)
  BY DEF Working, IInv, Types
<1>2. QED
  BY <1>1 DEF HeadFile, IInv, BlocksOK

\* A unit is copied, or the call returns because there is no txbuf for it.
LEMMA CopyUnitStep ==
    ASSUME IInv, Working, pc = "readfile", Head(stack).at # "read", NoSend,
           NEW u \in Sent, CopyUnit(u), UNCHANGED <<fileleft, forms, formleft>>,
           NEW f, HeadFile(f), Block(f), f.inbuf # 0
    PROVE  IInv'
<1>1. UNCHANGED <<req, hdrsent, caller, sel_send, room, wire>>
  BY DEF NoSend
<1>2. /\ files' \in Seq(OpenFile) /\ files'[1] = f /\ Len(files') = Len(files) /\ files' # <<>>
      /\ Len(files) \in Nat \ {0} /\ ~req.binary /\ state = "CONTENT" /\ "tx" \notin lost
      /\ \A i \in 2 .. Len(files) : files'[i] = files[i]
  BY DEF HeadFile, Working
<1>3. stack \in Seq(Activation) /\ stack # <<>> /\ Head(stack).len \in Nat
  BY DEF Working, IInv, Types, Activation
<1>4. queued = FlattenSeq(tx)
  BY <1>2 DEF Working, IInv, TextOK
<1>5. OwnFormKept'
  BY <1>1, SameForms DEF IInv
<1>6. CASE TailFull /\ txleft = 0
  <2>1. lost' = lost \cup {"tx"} /\ Return(TRUE, state) /\ UNCHANGED <<tx, txleft, queued>>
    BY <1>6 DEF CopyUnit
  <2>2. Returned(TRUE, state)
    BY <1>3, <2>1, ReturnIs
  <2>3. Types'
    BY <1>1, <1>2, <2>1, <2>2 DEF Types, IInv, Returned
  <2>4. BlocksOK'
    BY <1>1, <1>2, HeadFileBlocks DEF IInv
  <2>5. \A i \in 2 .. Len(stack) : stack[i].fi < Len(files')
    BY <1>2 DEF Working
  <2>6. \A i \in 2 .. Len(stack) : stack[i].fi <= Len(files')
    BY <1>2, LowerCalls
  <2>7. Around(state)
    BY <1>2, <2>5, <2>6 DEF Around
  <2>8. CallsOK'
    BY <1>3, <2>2, <2>7, ReturnCalls DEF IInv
  <2>9. CutOK'
    <3>1. pc' = "readfile" => Unwinding(1)'
      BY <1>3, <2>2, <2>5, ReturnUnwinds DEF IInv
    <3>2. \A i \in 1 .. Len(files') : i = 1 \/ i \in 2 .. Len(files)
      BY <1>2
    <3>3. \A i \in 2 .. Len(files) : files[i].inbuf # 0
      BY DEF IInv, BlocksOK
    <3>4. \A i \in 1 .. Len(files') : files'[i].inbuf # 0
      BY <1>2, <3>2, <3>3
    <3>5. QED
      BY <3>1, <3>4 DEF CutOK
  <2>10. TextOK' /\ WireOK'
    BY <1>1, <2>1, SameText
  <2>11. BinaryOK'
    BY <1>1, <1>2, NoBinary
  <2>12. QED
    BY <1>5, <2>3, <2>4, <2>8, <2>9, <2>10, <2>11 DEF IInv
<1>7. CASE ~(TailFull /\ txleft = 0)
  <2>1. Put(<<u>>, TailFull) /\ Step("copy", Head(stack).len + 1) /\ UNCHANGED <<state, pc, lost>>
    BY <1>7 DEF CopyUnit
  <2>2. PICK new, text : new = TailFull /\ text = <<u>>
    OBVIOUS
  <2>3. new \in BOOLEAN /\ (new => txleft # 0) /\ (~new => tx # <<>>) /\ text \in Seq(Sent)
    <3>1. TailFull \in BOOLEAN /\ (~TailFull => tx # <<>>)
      BY DEF TailFull
    <3>2. text \in Seq(Sent)
      BY <2>2
    <3>3. TailFull => txleft # 0
      BY <1>7, Zenon
    <3>4. QED
      BY <2>2, <3>1, <3>2, <3>3, Zenon
  <2>4. tx \in Seq(Seq(Sent)) /\ queued \in Seq(Sent) /\ txleft \in Nat /\ Put(text, new)
    BY <2>1, <2>2 DEF IInv, Types
  <2>5. /\ tx' \in Seq(Seq(Sent)) /\ queued' \in Seq(Sent) /\ txleft' \in Nat
        /\ queued' = queued \o text /\ FlattenSeq(tx') = FlattenSeq(tx) \o text
    BY <2>3, <2>4, PutText
  <2>6. Tables'
    BY <2>1, <2>5 DEF Tables, IInv, Types
  <2>7. queued' = FlattenSeq(tx)'
    BY <1>4, <2>5
  <2>8. Head(stack).len + 1 \in Nat /\ "tx" \notin lost' /\ ("send" \in lost => "send" \in lost')
    BY <1>2, <1>3, <2>1
  <2>9. QED
    BY <1>5, <2>1, <2>6, <2>7, <2>8, StepOn
<1>8. QED
  BY <1>6, <1>7

LEMMA UnitIs ==
    ASSUME IInv, Working
    PROVE  UnitName(FileHead.name, Place(Head(stack).len)) \in Sent /\ Junk \in Sent /\ Head(stack).len \in Nat
<1>1. Head(stack).len \in Nat /\ FileHead.pos \in Nat /\ FileHead.inbuf \in 0 .. BUF /\ FileHead.name \in Name \cup {"page"}
  BY DEF Working, Activation, OpenFile, FileHead
<1>2. Place(Head(stack).len) \in Int
  BY <1>1, SizesAssumption DEF Place
<1>3. QED
  BY <1>1, <1>2 DEF Sent

LEMMA CopyTextStep ==
    ASSUME IInv, CopyText
    PROVE  IInv'
<1>1. Working /\ pc = "readfile" /\ Head(stack).at = "copy"
  BY Works DEF CopyText, Reading
<1>2. files' = files /\ UNCHANGED <<fileleft, forms, formleft>> /\ NoSend
      /\ CopyUnit(UnitName(FileHead.name, Place(Head(stack).len)))
  BY DEF CopyText
<1>3. HeadFile(files[1]) /\ Block(files[1])
  BY <1>1, <1>2, SameHead
<1>4. UnitName(FileHead.name, Place(Head(stack).len)) \in Sent
  BY <1>1, UnitIs
<1>5. files[1].inbuf # 0
  BY <1>1 DEF Working
<1>6. QED
  BY <1>1, <1>2, <1>3, <1>4, <1>5, CopyUnitStep

\* The file read on from another place.
LEMMA MarkedHead ==
    ASSUME IInv, Working, NEW x \in Nat, SetHead([FileHead EXCEPT !.nextbuf = x])
    PROVE  \E f : HeadFile(f) /\ Block(f) /\ f.inbuf = files[1].inbuf
<1>1. PICK f : f = [FileHead EXCEPT !.nextbuf = x]
  OBVIOUS
<1>2. FileHead = files[1] /\ FileHead \in OpenFile /\ 1 \in 1 .. Len(files) /\ files \in Seq(OpenFile) /\ files # <<>>
  BY DEF Working, FileHead, IInv, Types
<1>3. Block(FileHead)
  BY <1>2 DEF IInv, BlocksOK
<1>4. f \in OpenFile /\ f.inbuf = FileHead.inbuf /\ Block(f)
  BY <1>1, <1>2, <1>3, Marked
<1>5. SetHead(f)
  BY <1>1
<1>6. HeadFile(f)
  BY <1>2, <1>4, <1>5, HeadFileIs
<1>7. QED
  BY <1>2, <1>4, <1>6

LEMMA AfterDirectiveStep ==
    ASSUME IInv, AfterDirective
    PROVE  IInv'
<1>1. Working /\ pc = "readfile" /\ Head(stack).at = "skipped"
  BY Works DEF AfterDirective, Reading
<1>2. PICK u : /\ u = IF InBlock(Head(stack).len) THEN UnitName(FileHead.name, Place(Head(stack).len)) ELSE Junk
  OBVIOUS
<1>3. CopyUnit(u) /\ UNCHANGED <<fileleft, forms, formleft>> /\ NoSend /\ SetHead([FileHead EXCEPT !.nextbuf = 0])
  BY <1>2 DEF AfterDirective
<1>4. u \in Sent
  BY <1>1, <1>2, UnitIs
<1>5. PICK f : HeadFile(f) /\ Block(f) /\ f.inbuf = files[1].inbuf
  BY <1>1, <1>3, MarkedHead
<1>6. f.inbuf # 0
  BY <1>1, <1>5 DEF Working
<1>7. QED
  BY <1>1, <1>3, <1>4, <1>5, <1>6, CopyUnitStep

LEMMA CallFiles ==
    ASSUME stack \in Seq(Activation)
    PROVE  \A i \in 1 .. Len(stack) : stack[i].fi \in Nat
<1>1. SUFFICES ASSUME NEW i \in 1 .. Len(stack)
               PROVE  stack[i].fi \in Nat
  OBVIOUS
<1>2. stack[i] \in Activation
  BY ElementOfSeq
<1>3. QED
  BY <1>2 DEF Activation

LEMMA IncludeReturnsStep ==
    ASSUME IInv, IncludeReturns
    PROVE  IInv'
<1>1. /\ pc = "readfile" /\ Head(stack).at = "ssi" /\ stack # <<>> /\ files # <<>>
      /\ stack \in Seq(Activation) /\ files \in Seq(OpenFile)
  BY DEF IncludeReturns, Reading, IInv, CallsOK, Types
<1>2. /\ Len(stack) \in Nat \ {0} /\ Head(stack) = stack[1] /\ stack[1] \in Activation /\ 1 \in 1 .. Len(stack)
      /\ Len(files) \in Nat \ {0} /\ files[1] \in OpenFile
  BY <1>1, FirstOf
<1>3. stack[1].fi \in Nat /\ stack[1].fi # 0 /\ stack[1].fi <= Len(files) /\ stack[1].len \in Nat
  BY <1>1, <1>2 DEF IInv, CallsOK, Activation
<1>4. PICK len, h : len = Head(stack).len /\ h = Len(files) - Head(stack).fi + 1
  OBVIOUS
<1>5. /\ IF h = 1 THEN Step("skipped", len) /\ UNCHANGED <<files, state, pc>>
         ELSE files' = [files EXCEPT ![h].nextbuf = len] /\ Return(FALSE, state)
      /\ UNCHANGED <<forms, tx, txleft, fileleft, formleft, queued, lost>> /\ NoSend
  BY <1>4 DEF IncludeReturns, history
<1>6. UNCHANGED <<req, hdrsent, caller, sel_send, room, wire>>
  BY <1>5 DEF NoSend
<1>7. OwnFormKept'
  BY <1>5, <1>6, SameForms DEF IInv
<1>8. ~req.binary /\ files[1].inbuf # 0
  BY <1>1, <1>2 DEF IInv, BinaryOK, CallsOK
<1>9. CASE h = 1
  <2>1. Head(stack).fi = Len(files)
    BY <1>2, <1>3, <1>4, <1>9
  <2>2. Working
    BY <1>1, <2>1, Works
  <2>3. Step("skipped", len) /\ UNCHANGED <<files, state, pc>> /\ len \in Nat
    BY <1>2, <1>3, <1>4, <1>5, <1>9
  <2>4. HeadFile(files[1]) /\ Block(files[1])
    BY <2>2, <2>3, SameHead
  <2>5. Tables'
    BY <1>5 DEF Tables, IInv, Types
  <2>6. queued' = FlattenSeq(tx)'
    BY <1>5, <1>8, <2>2 DEF IInv, TextOK, Working
  <2>7. "tx" \notin lost' /\ ("send" \in lost => "send" \in lost') /\ Head(stack).at # "read"
    BY <1>1, <1>2, <1>5, <2>2 DEF Working
  <2>8. QED
    BY <1>1, <1>5, <1>7, <1>8, <2>2, <2>3, <2>4, <2>5, <2>6, <2>7, StepOn
<1>10. CASE h # 1
  <2>1. files' = [files EXCEPT ![h].nextbuf = len] /\ Return(FALSE, state)
    BY <1>5, <1>10
  <2>2. h \in 2 .. Len(files) /\ h \in 1 .. Len(files) /\ h # 1 /\ len \in Nat
    BY <1>2, <1>3, <1>4, <1>10
  <2>3. PICK g : g = [files[h] EXCEPT !.nextbuf = len]
    OBVIOUS
  <2>4. files[h] \in OpenFile /\ Block(files[h]) /\ files[h].inbuf # 0
    BY <1>1, <2>2, ElementOfSeq DEF IInv, BlocksOK
  <2>5. g \in OpenFile /\ g.inbuf # 0 /\ Block(g)
    BY <2>2, <2>3, <2>4, Marked
  <2>6. files' = [files EXCEPT ![h] = g]
    BY <2>1, <2>3
  <2>7. /\ files' \in Seq(OpenFile) /\ Len(files') = Len(files)
        /\ \A i \in 1 .. Len(files) : files'[i] = IF i = h THEN g ELSE files[i]
    BY <1>1, <2>2, <2>5, <2>6, ExceptSeq
  <2>8. \A i \in 1 .. Len(files') : files'[i].inbuf # 0
    <3>1. \A i \in 1 .. Len(files) : i = 1 \/ i \in 2 .. Len(files)
      OBVIOUS
    <3>2. \A i \in 1 .. Len(files) : files[i].inbuf # 0
      BY <1>8, <3>1 DEF IInv, BlocksOK
    <3>3. QED
      BY <2>5, <2>7, <3>2
  <2>9. BlocksOK'
    <3>1. \A i \in 1 .. Len(files) : Block(files[i])
      BY DEF IInv, BlocksOK
    <3>2. \A i \in 1 .. Len(files') : files'[i] = g \/ (files'[i] = files[i] /\ Block(files[i]))
      BY <2>7, <3>1
    <3>3. \A i \in 1 .. Len(files') : Block(files[i])'
      BY <1>6, <2>5, <3>2 DEF Block, TextOf
    <3>4. \A i \in 2 .. Len(files') : i \in 1 .. Len(files')
      BY <1>2, <2>7
    <3>5. QED
      BY <2>8, <3>3, <3>4 DEF BlocksOK
  <2>10. Returned(FALSE, state)
    BY <1>1, <2>1, ReturnIs
  <2>11. Types'
    BY <1>5, <1>6, <2>7, <2>10 DEF Types, IInv, Returned
  <2>12. \A i \in 2 .. Len(stack) : stack[i].fi < Len(files')
    <3>1. \A i \in 2 .. Len(stack) : i \in 1 .. Len(stack) /\ 1 < i
      BY <1>2
    <3>2. \A i \in 2 .. Len(stack) : stack[i].fi < stack[1].fi /\ stack[i].fi \in Nat
      <4>1. \A i \in 2 .. Len(stack) : stack[i].fi \in Nat
        BY <1>1, <3>1, CallFiles
      <4>2. \A i \in 2 .. Len(stack) : stack[i].fi < stack[1].fi
        BY <1>2, <3>1 DEF IInv, CallsOK
      <4>3. QED
        BY <4>1, <4>2
    <3>3. QED
      BY <1>2, <1>3, <2>7, <3>2
  <2>13. \A i \in 2 .. Len(stack) : stack[i].fi <= Len(files')
    <3>1. \A i \in 2 .. Len(stack) : i \in 1 .. Len(stack)
      BY <1>2
    <3>2. \A i \in 2 .. Len(stack) : stack[i].fi \in Nat
      BY <1>1, <3>1, CallFiles
    <3>3. QED
      BY <1>2, <2>7, <2>12, <3>2
  <2>14. Around(state)
    <3>1. Len(files') \in Nat \ {0} /\ 1 \in 1 .. Len(files')
      BY <1>2, <2>7
    <3>2. files' # <<>> /\ files'[1].inbuf # 0
      BY <2>8, <3>1, EmptySeq
    <3>3. QED
      BY <2>12, <2>13, <3>1, <3>2 DEF Around
  <2>15. CallsOK'
    BY <1>1, <2>10, <2>14, ReturnCalls DEF IInv
  <2>16. CutOK'
    <3>1. pc' = "readfile" => Unwinding(1)'
      BY <1>1, <2>10, <2>12, ReturnUnwinds DEF IInv
    <3>2. QED
      BY <2>8, <3>1 DEF CutOK
  <2>17. state' = state
    BY <2>10 DEF Returned
  <2>18. TextOK' /\ WireOK'
    BY <1>5, <1>6, <2>17 DEF IInv, TextOK, WireOK
  <2>19. BinaryOK'
    BY <1>6, <1>8, NoBinary
  <2>20. QED
    BY <1>7, <2>9, <2>11, <2>15, <2>16, <2>18, <2>19 DEF IInv
<1>11. QED
  BY <1>9, <1>10

LEMMA BlockDoneStep ==
    ASSUME IInv, BlockDone
    PROVE  IInv'
<1>1. Working /\ pc = "readfile" /\ Head(stack).at = "copy"
  BY Works DEF BlockDone, Reading
<1>2. /\ IF FileHead.nextbuf = 0 /\ Head(stack).len > 0
         THEN SetHead([FileHead EXCEPT !.inbuf = 0]) /\ Step("read", 0) /\ UNCHANGED <<state, pc>>
         ELSE ReadDone /\ UNCHANGED files
      /\ UNCHANGED <<forms, tx, txleft, fileleft, formleft, queued, lost>> /\ NoSend
  BY DEF BlockDone, history
<1>3. UNCHANGED <<req, hdrsent, caller, sel_send, room, wire>>
  BY <1>2 DEF NoSend
<1>4. OwnFormKept'
  BY <1>2, <1>3, SameForms DEF IInv
<1>5. /\ ~req.binary /\ "tx" \notin lost /\ files[1].inbuf # 0 /\ FileHead = files[1]
      /\ files \in Seq(OpenFile) /\ files # <<>> /\ 1 \in 1 .. Len(files)
  BY <1>1 DEF Working, IInv, Types, FileHead
<1>6. CASE FileHead.nextbuf = 0 /\ Head(stack).len > 0
  <2>1. SetHead([FileHead EXCEPT !.inbuf = 0]) /\ Step("read", 0) /\ UNCHANGED <<state, pc>>
    BY <1>2, <1>6
  <2>2. PICK f : f = [FileHead EXCEPT !.inbuf = 0]
    OBVIOUS
  <2>3. FileHead \in OpenFile /\ Block(FileHead)
    BY <1>1, <1>5 DEF Working, IInv, BlocksOK
  <2>4. f \in OpenFile /\ f.inbuf = 0 /\ f.pos = FileHead.pos /\ f.name = FileHead.name
    BY <2>2, <2>3, SizesAssumption DEF OpenFile
  <2>5. Block(f)
    <3>1. FileHead.pos \in Nat
      BY <2>3 DEF OpenFile
    <3>2. QED
      BY <2>3, <2>4, <3>1 DEF Block
  <2>6. HeadFile(f)
    BY <1>5, <2>1, <2>2, <2>4, HeadFileIs
  <2>7. Tables'
    BY <1>2 DEF Tables, IInv, Types
  <2>8. queued' = FlattenSeq(tx)'
    BY <1>1, <1>2, <1>5 DEF IInv, TextOK, Working
  <2>9. "tx" \notin lost' /\ ("send" \in lost => "send" \in lost')
    BY <1>2, <1>5
  <2>10. QED
    BY <1>1, <1>2, <1>4, <2>1, <2>5, <2>6, <2>7, <2>8, <2>9, StepOn
<1>7. CASE ~(FileHead.nextbuf = 0 /\ Head(stack).len > 0)
  <2>1. state' = "SENDDATA" /\ pc' = "sockwrite" /\ stack' = stack /\ files' = files
    BY <1>2, <1>7 DEF ReadDone
  <2>2. Types'
    BY <1>2, <1>3, <2>1 DEF Types, IInv
  <2>3. BlocksOK'
    BY <1>3, <2>1, SameBlocks DEF IInv
  <2>4. Unwinding(2)'
    BY <1>1, <2>1 DEF Working, Unwinding
  <2>5. CallsOK'
    BY <1>5, <2>1, <2>4 DEF CallsOK, IInv
  <2>6. CutOK'
    BY <1>2, <1>5 DEF CutOK
  <2>7. TextOK' /\ WireOK'
    BY <1>1, <1>2, <1>3, SameText
  <2>8. BinaryOK'
    BY <1>3, <1>5, NoBinary
  <2>9. QED
    BY <1>4, <2>2, <2>3, <2>5, <2>6, <2>7, <2>8 DEF IInv
<1>8. QED
  BY <1>6, <1>7

----------------------------------------------------------------------------
(* wi_ssi and wi_exec *)

\* The forms once the include's own is on the list.
LEMMA FormsWithIs ==
    ASSUME IInv
    PROVE  /\ FormsWith \in Seq({"own", "include"}) /\ formleft - Taken \in Nat
           /\ req.form => FormsWith # <<>> /\ Last(FormsWith) = "own"
<1>1. /\ forms \in Seq({"own", "include"}) /\ Len(forms) \in Nat /\ formleft \in Nat
      /\ req.form => forms # <<>> /\ Last(forms) = "own"
  BY LenProperties DEF IInv, Types, OwnFormKept
<1>2. formleft - Taken \in Nat
  BY <1>1 DEF Taken
<1>3. CASE Layered
  <2>1. PICK g : g = <<"include">> \o forms
    OBVIOUS
  <2>2. /\ g \in Seq({"own", "include"}) /\ Len(g) = Len(forms) + 1 /\ g # <<>>
        /\ \A i \in 2 .. Len(forms) + 1 : g[i] = forms[i - 1]
    BY <1>1, <2>1, InFront
  <2>3. FormsWith = g
    BY <1>3, <2>1 DEF FormsWith
  <2>4. ASSUME req.form
        PROVE  Last(g) = "own"
    <3>1. Len(forms) # 0
      BY <1>1, <2>4, EmptySeq
    <3>2. Len(g) \in 2 .. Len(forms) + 1 /\ Len(g) - 1 = Len(forms)
      BY <1>1, <2>2, <3>1
    <3>3. g[Len(g)] = forms[Len(forms)]
      BY <2>2, <3>2
    <3>4. QED
      BY <1>1, <2>4, <3>3 DEF Last
  <2>5. QED
    BY <1>2, <2>2, <2>3, <2>4
<1>4. CASE ~Layered
  <2>1. FormsWith = forms
    BY <1>4 DEF FormsWith
  <2>2. QED
    BY <1>2, <1>1, <2>1
<1>5. QED
  BY <1>3, <1>4

LEMMA InDirectiveIs ==
    ASSUME IInv, InDirective
    PROVE  /\ Working /\ pc = "readfile" /\ Head(stack).at = "copy" /\ stack[1].at = "copy"
           /\ Head(stack).len \in Nat /\ Behind \in Nat /\ files[1].inbuf # 0 /\ "tx" \notin lost /\ ~req.binary
           /\ queued = FlattenSeq(tx) /\ FileHead = files[1]
<1>1. Working /\ pc = "readfile" /\ Head(stack).at = "copy"
  BY Works DEF InDirective, Reading
<1>2. Head(stack).len \in Nat /\ Behind \in Nat /\ stack[1].at = "copy"
  BY <1>1 DEF Working, Activation, Behind
<1>3. files[1].inbuf # 0 /\ "tx" \notin lost /\ ~req.binary /\ FileHead = files[1]
  BY <1>1 DEF Working, FileHead
<1>4. queued = FlattenSeq(tx)
  BY <1>1, <1>3 DEF Working, IInv, TextOK
<1>5. QED
  BY <1>1, <1>2, <1>3, <1>4

LEMMA ExecStep ==
    ASSUME IInv, Exec
    PROVE  IInv'
<1>1. InDirective /\ Step("skipped", Behind) /\ NoSend
      /\ UNCHANGED <<state, pc, files, forms, tx, txleft, fileleft, formleft, queued, lost>>
  BY DEF Exec, reply, history
<1>2. /\ Working /\ pc = "readfile" /\ Head(stack).at = "copy" /\ Behind \in Nat
      /\ files[1].inbuf # 0 /\ "tx" \notin lost /\ queued = FlattenSeq(tx)
  BY <1>1, InDirectiveIs
<1>3. HeadFile(files[1]) /\ Block(files[1])
  BY <1>1, <1>2, SameHead
<1>4. Tables'
  BY <1>1 DEF Tables, IInv, Types
<1>5. OwnFormKept'
  BY <1>1, SameForms DEF IInv, NoSend
<1>6. queued' = FlattenSeq(tx)' /\ "tx" \notin lost' /\ ("send" \in lost => "send" \in lost') /\ pc' = pc /\ state' = state
  BY <1>1, <1>2
<1>7. QED
  BY <1>1, <1>2, <1>3, <1>4, <1>5, <1>6, StepOn

LEMMA IncludeFailsStep ==
    ASSUME IInv, IncludeFails
    PROVE  IInv'
<1>1. /\ InDirective /\ Step("skipped", Behind) /\ NoSend
      /\ forms' = FormsWith /\ formleft' = formleft - Taken
      /\ lost' = lost \cup Refused \cup (IF Wanted.to \in Name THEN {"file"} ELSE {})
      /\ UNCHANGED <<files, fileleft, tx, txleft, state, pc, queued>>
  BY DEF IncludeFails
<1>2. /\ Working /\ pc = "readfile" /\ Head(stack).at = "copy" /\ Behind \in Nat
      /\ files[1].inbuf # 0 /\ "tx" \notin lost /\ queued = FlattenSeq(tx)
  BY <1>1, InDirectiveIs
<1>3. HeadFile(files[1]) /\ Block(files[1])
  BY <1>1, <1>2, SameHead
<1>4. Refused \subseteq {"form"}
  BY DEF Refused
<1>5. /\ lost \subseteq lost' /\ "tx" \notin lost'
      /\ lost' \subseteq {"tx", "file", "form", "text", "send"}
  BY <1>1, <1>2, <1>4 DEF IInv, Types
<1>6. Tables'
  BY <1>1, <1>5, FormsWithIs DEF Tables, IInv, Types
<1>7. OwnFormKept'
  BY <1>1, FormsWithIs DEF OwnFormKept, NoSend
<1>8. queued' = FlattenSeq(tx)' /\ ("send" \in lost => "send" \in lost') /\ pc' = pc /\ state' = state
  BY <1>1, <1>2, <1>5
<1>9. QED
  BY <1>1, <1>2, <1>3, <1>5, <1>6, <1>7, <1>8, StepOn

LEMMA IncludeFaultsStep ==
    ASSUME IInv, IncludeFaults
    PROVE  IInv'
<1>1. /\ InDirective /\ NoSend /\ pc' = "over" /\ stack' = <<>>
      /\ UNCHANGED <<state, files, forms, tx, txleft, fileleft, formleft, queued, lost>>
  BY DEF IncludeFaults, reply, history
<1>2. UNCHANGED <<req, hdrsent, caller, sel_send, room, wire>>
  BY <1>1 DEF NoSend
<1>3. Working /\ ~req.binary
  BY <1>1, InDirectiveIs
<1>4. stack' \in Seq(Activation) /\ Len(stack') = 0 /\ \A i \in 1 .. Len(stack') : FALSE
  BY <1>1, EmptySeq
<1>5. Types'
  BY <1>1, <1>2, <1>4 DEF Types, IInv
<1>6. BlocksOK'
  BY <1>1, <1>2, SameBlocks DEF IInv
<1>7. CallsOK'
  BY <1>1, <1>4 DEF CallsOK
<1>8. CutOK'
  BY <1>1, <1>2, <1>4 DEF CutOK, IInv
<1>9. TextOK' /\ WireOK'
  BY <1>1, <1>2, <1>3, SameText
<1>10. BinaryOK' /\ OwnFormKept'
  BY <1>1, <1>2, <1>3, NoBinary, SameForms DEF IInv
<1>11. QED
  BY <1>5, <1>6, <1>7, <1>8, <1>9, <1>10 DEF IInv

LEMMA IncludeRoutineStep ==
    ASSUME IInv, IncludeRoutine
    PROVE  IInv'
<1>1. PICK n, text, new, drop :
        /\ n = Wanted.to /\ text = [i \in 1 .. Len(Text[n]) |-> UnitName(n, i)]
        /\ new = (tx = <<>> \/ Len(text) >= TXBUF - Len(Last(tx))) /\ drop = (new /\ txleft = 0)
  OBVIOUS
<1>2. /\ InDirective /\ NoSend /\ Step("skipped", Behind) /\ Opens /\ n \in Name
      /\ IF drop THEN UNCHANGED <<tx, txleft, queued>> ELSE Put(text, new)
      /\ lost' = lost \cup Refused \cup (IF drop THEN {"text"} ELSE {})
      /\ forms' = (IF Releases THEN Tail(FormsWith) ELSE FormsWith)
      /\ formleft' = formleft - Taken + (IF Releases THEN 1 ELSE 0)
      /\ SetHead([FileHead EXCEPT !.nextbuf = Head(stack).len])
      /\ UNCHANGED <<fileleft, state, pc>>
  BY <1>1 DEF IncludeRoutine, Opens
<1>3. /\ Working /\ pc = "readfile" /\ Head(stack).at = "copy" /\ Behind \in Nat /\ Head(stack).len \in Nat
      /\ files[1].inbuf # 0 /\ "tx" \notin lost /\ queued = FlattenSeq(tx)
  BY <1>2, InDirectiveIs
<1>4. PICK f : HeadFile(f) /\ Block(f) /\ f.inbuf = files[1].inbuf
  BY <1>2, <1>3, MarkedHead
<1>5. Refused \subseteq {"form"}
  BY DEF Refused
<1>6. /\ lost \subseteq lost' /\ "tx" \notin lost' /\ lost' \subseteq {"tx", "file", "form", "text", "send"}
  BY <1>2, <1>3, <1>5 DEF IInv, Types
<1>7. text \in Seq(Sent)
  <2>1. Text[n] \in Seq(Unit) /\ Len(Text[n]) \in Nat
    BY <1>2, TextAssumption, LenProperties
  <2>2. \A i \in 1 .. Len(Text[n]) : UnitName(n, i) \in Sent
    BY <1>2 DEF Sent
  <2>3. QED
    BY <1>1, <2>1, <2>2, IsASeq
<1>8. /\ tx' \in Seq(Seq(Sent)) /\ queued' \in Seq(Sent) /\ txleft' \in Nat /\ queued' = FlattenSeq(tx)'
  <2>1. tx \in Seq(Seq(Sent)) /\ queued \in Seq(Sent) /\ txleft \in Nat
    BY DEF IInv, Types
  <2>2. CASE drop
    BY <1>2, <1>3, <2>1, <2>2
  <2>3. CASE ~drop
    <3>1. Put(text, new)
      BY <1>2, <2>3
    <3>2. new \in BOOLEAN /\ (new => txleft # 0)
      BY <1>1, <2>3
    <3>3. ~new => tx # <<>>
      BY <1>1
    <3>4. tx' \in Seq(Seq(Sent)) /\ queued' \in Seq(Sent) /\ txleft' \in Nat
          /\ queued' = queued \o text /\ FlattenSeq(tx') = FlattenSeq(tx) \o text
      BY <1>7, <2>1, <3>1, <3>2, <3>3, PutText
    <3>5. QED
      BY <1>3, <3>4
  <2>4. QED
    BY <2>2, <2>3
<1>9. /\ FormsWith \in Seq({"own", "include"}) /\ Len(FormsWith) \in Nat
      /\ req.form => FormsWith # <<>> /\ Last(FormsWith) = "own"
      /\ formleft - Taken \in Nat
  BY FormsWithIs, LenProperties
<1>10. forms' \in Seq({"own", "include"}) /\ formleft' \in Nat /\ OwnFormKept'
  <2>1. req' = req
    BY <1>2 DEF NoSend
  <2>2. CASE Releases
    <3>1. Len(FormsWith) > 1
      BY <2>2 DEF Releases
    <3>2. PICK w, r : w = FormsWith /\ r = Tail(FormsWith)
      OBVIOUS
    <3>3. w # <<>>
      BY <1>9, <3>1, <3>2, EmptySeq
    <3>4. /\ r \in Seq({"own", "include"}) /\ Len(r) = Len(w) - 1
          /\ \A i \in 1 .. Len(w) - 1 : r[i] = w[i + 1]
      BY <1>9, <3>2, <3>3, FirstOf
    <3>5. Len(r) \in 1 .. Len(w) - 1 /\ Len(r) + 1 = Len(w) /\ r # <<>>
      <4>1. Len(r) \in 1 .. Len(w) - 1 /\ Len(r) + 1 = Len(w) /\ Len(r) # 0
        <5>1. \A k \in Nat : k > 1 => k - 1 \in 1 .. k - 1 /\ (k - 1) + 1 = k /\ k - 1 # 0
          OBVIOUS
        <5>2. Len(w) \in Nat /\ Len(w) > 1 /\ Len(r) = Len(w) - 1
          BY <1>9, <3>1, <3>2, <3>4
        <5>3. QED
          BY <5>1, <5>2
      <4>2. QED
        BY <4>1, EmptySeq
    <3>6. Last(r) = Last(w)
      BY <3>4, <3>5 DEF Last
    <3>7. forms' = r /\ formleft' = formleft - Taken + 1
      BY <1>2, <2>2, <3>2
    <3>8. formleft' \in Nat
      BY <1>9, <3>7
    <3>9. req'.form => forms' # <<>> /\ Last(forms') = "own"
      BY <1>9, <2>1, <3>2, <3>5, <3>6, <3>7
    <3>10. QED
      BY <3>4, <3>7, <3>8, <3>9 DEF OwnFormKept
  <2>3. CASE ~Releases
    <3>1. forms' = FormsWith /\ formleft' = formleft - Taken
      BY <1>2, <1>9, <2>3
    <3>2. req'.form => forms' # <<>> /\ Last(forms') = "own"
      BY <1>9, <2>1, <3>1
    <3>3. QED
      BY <1>9, <3>1, <3>2 DEF OwnFormKept
  <2>4. QED
    BY <2>2, <2>3
<1>11. Tables'
  BY <1>2, <1>6, <1>8, <1>10 DEF Tables, IInv, Types
<1>12. ("send" \in lost => "send" \in lost') /\ pc' = pc /\ state' = state /\ f.inbuf # 0
  BY <1>2, <1>3, <1>4, <1>6
<1>13. QED
  BY <1>2, <1>3, <1>4, <1>6, <1>8, <1>10, <1>11, <1>12, StepOn

\* a in front of the sequence, whose first element becomes b.
LEMMA TwoInFront ==
    ASSUME NEW S, NEW q \in Seq(S), q # <<>>, NEW a \in S, NEW b \in S, NEW c, c = <<a>> \o (<<b>> \o Tail(q))
    PROVE  /\ c \in Seq(S) /\ Len(c) = Len(q) + 1 /\ c[1] = a /\ c[2] = b
           /\ \A i \in 3 .. Len(q) + 1 : c[i] = q[i - 1]
<1>1. PICK r, d : r = Tail(q) /\ d = <<b>> \o r
  OBVIOUS
<1>2. /\ r \in Seq(S) /\ Len(r) = Len(q) - 1 /\ Len(q) \in Nat \ {0}
      /\ \A i \in 1 .. Len(q) - 1 : r[i] = q[i + 1]
  BY <1>1, FirstOf
<1>3. /\ d \in Seq(S) /\ Len(d) = Len(r) + 1 /\ d[1] = b /\ \A i \in 2 .. Len(r) + 1 : d[i] = r[i - 1]
  BY <1>1, <1>2, InFront
<1>4. c = <<a>> \o d
  BY <1>1
<1>5. /\ c \in Seq(S) /\ Len(c) = Len(d) + 1 /\ c[1] = a /\ \A i \in 2 .. Len(d) + 1 : c[i] = d[i - 1]
  BY <1>3, <1>4, InFront
<1>6. Len(d) = Len(q) /\ 2 \in 2 .. Len(d) + 1 /\ 2 - 1 = 1
  BY <1>2, <1>3
<1>7. ASSUME NEW i \in 3 .. Len(q) + 1
      PROVE  c[i] = q[i - 1]
  <2>1. /\ i \in 2 .. Len(d) + 1 /\ i - 1 \in 2 .. Len(r) + 1 /\ (i - 1) - 1 \in 1 .. Len(q) - 1
        /\ ((i - 1) - 1) + 1 = i - 1
    BY <1>2, <1>6
  <2>2. QED
    BY <1>2, <1>3, <1>5, <2>1
<1>8. QED
  BY <1>3, <1>5, <1>6, <1>7

LEMMA IncludeFileStep ==
    ASSUME IInv, IncludeFile
    PROVE  IInv'
<1>1. PICK n, a, b, x, y :
        /\ n = Wanted.to /\ a = Newly(n) /\ b = [FileHead EXCEPT !.nextbuf = Head(stack).len]
        /\ x = [fi |-> Len(files) + 1, at |-> "read", len |-> 0]
        /\ y = [Head(stack) EXCEPT !.at = "ssi", !.len = Behind]
  OBVIOUS
<1>2. /\ InDirective /\ NoSend /\ Opens /\ n \in Name
      /\ forms' = FormsWith /\ formleft' = formleft - Taken
      /\ files' = <<a>> \o <<b>> \o Tail(files) /\ fileleft' = fileleft - 1
      /\ stack' = <<x>> \o (<<y>> \o Tail(stack))
      /\ lost' = lost \cup Refused
      /\ UNCHANGED <<tx, txleft, state, pc, queued>>
  BY <1>1 DEF IncludeFile, Opens, Call
<1>3. /\ Working /\ pc = "readfile" /\ stack[1].at = "copy" /\ Behind \in Nat /\ Head(stack).len \in Nat
      /\ files[1].inbuf # 0 /\ "tx" \notin lost /\ ~req.binary /\ queued = FlattenSeq(tx) /\ FileHead = files[1]
  BY <1>2, InDirectiveIs
<1>4. /\ files \in Seq(OpenFile) /\ files # <<>> /\ stack \in Seq(Activation) /\ stack # <<>>
      /\ Len(files) \in Nat \ {0} /\ Len(stack) \in Nat \ {0} /\ 1 \in 1 .. Len(files)
      /\ files[1] \in OpenFile /\ Head(stack) = stack[1] /\ stack[1] \in Activation /\ stack[1].fi = Len(files)
  BY <1>3 DEF Working, IInv, Types
<1>5. UNCHANGED <<req, hdrsent, caller, sel_send, room, wire>>
  BY <1>2 DEF NoSend
<1>6. Block(files[1])
  BY <1>4 DEF IInv, BlocksOK
<1>7. b \in OpenFile /\ b.inbuf # 0 /\ Block(b)
  BY <1>1, <1>3, <1>4, <1>6, Marked
<1>8. a \in OpenFile /\ Block(a)
  <2>1. a = [name |-> n, pos |-> 0, inbuf |-> 0, nextbuf |-> 0]
    BY <1>1 DEF Newly
  <2>2. a \in OpenFile /\ a.name = n /\ a.pos = 0 /\ a.inbuf = 0
    BY <1>2, <2>1, SizesAssumption DEF OpenFile
  <2>3. n \in Name \cup {"page"}
    BY <1>2
  <2>4. Len(TextOf(n)) \in Nat
    BY <2>3, TextIs DEF IInv
  <2>5. QED
    BY <2>2, <2>4 DEF Block
<1>9. x \in Activation /\ x.fi = Len(files) + 1 /\ x.at = "read"
  BY <1>1, <1>4 DEF Activation
<1>10. y \in Activation /\ y.fi = Len(files) /\ y.at = "ssi"
  BY <1>1, <1>3, <1>4 DEF Activation
<1>11. /\ files' \in Seq(OpenFile) /\ Len(files') = Len(files) + 1 /\ files'[1] = a /\ files'[2] = b
       /\ \A i \in 3 .. Len(files) + 1 : files'[i] = files[i - 1]
  <2>1. PICK r, c : r = Tail(files) /\ c = <<a>> \o (<<b>> \o Tail(files))
    OBVIOUS
  <2>2. r \in Seq(OpenFile) /\ <<a>> \in Seq(OpenFile) /\ <<b>> \in Seq(OpenFile)
    BY <1>4, <1>7, <1>8, <2>1, FirstOf
  <2>3. \A u, v, w \in Seq(OpenFile) : (u \o v) \o w = u \o (v \o w)
    <3>1. \A u, v, w \in Seq(OpenFile) : ThreeAlike(u, v, w)
      BY Associative, Zenon
    <3>2. QED
      BY <3>1, Zenon DEF ThreeAlike
  <2>4. files' = c
    BY <1>2, <2>1, <2>2, <2>3
  <2>5. /\ c \in Seq(OpenFile) /\ Len(c) = Len(files) + 1 /\ c[1] = a /\ c[2] = b
        /\ \A i \in 3 .. Len(files) + 1 : c[i] = files[i - 1]
    <3>1. files \in Seq(OpenFile) /\ files # <<>> /\ a \in OpenFile /\ b \in OpenFile
          /\ c = <<a>> \o (<<b>> \o Tail(files))
      BY <1>4, <1>7, <1>8, <2>1
    <3>2. QED
      BY <3>1, TwoInFront
  <2>6. QED
    BY <2>4, <2>5
<1>12. /\ stack' \in Seq(Activation) /\ Len(stack') = Len(stack) + 1 /\ stack'[1] = x /\ stack'[2] = y
       /\ \A i \in 3 .. Len(stack) + 1 : stack'[i] = stack[i - 1]
  <2>1. PICK q, c : q = stack /\ c = stack'
    OBVIOUS
  <2>2. q \in Seq(Activation) /\ q # <<>> /\ x \in Activation /\ y \in Activation
    BY <1>4, <1>9, <1>10, <2>1
  <2>3. c = <<x>> \o (<<y>> \o Tail(q))
    BY <1>2, <2>1
  <2>4. /\ c \in Seq(Activation) /\ Len(c) = Len(q) + 1 /\ c[1] = x /\ c[2] = y
        /\ \A i \in 3 .. Len(q) + 1 : c[i] = q[i - 1]
    BY <2>2, <2>3, TwoInFront
  <2>5. QED
    BY <2>1, <2>4
<1>13. files' # <<>> /\ stack' # <<>>
  <2>1. Len(files') # 0 /\ Len(stack') # 0
    BY <1>4, <1>11, <1>12
  <2>2. QED
    BY <2>1, EmptySeq
<1>14. BlocksOK'
  <2>1. \A i \in 1 .. Len(files') : i = 1 \/ i = 2 \/ (i \in 3 .. Len(files) + 1 /\ i - 1 \in 2 .. Len(files) /\ i - 1 \in 1 .. Len(files))
    BY <1>4, <1>11
  <2>2. \A i \in 1 .. Len(files') : files'[i] = a \/ files'[i] = b \/ (files'[i] = files[i - 1] /\ Block(files[i - 1]))
    BY <1>11, <2>1 DEF IInv, BlocksOK
  <2>3. \A i \in 1 .. Len(files') : Block(files[i])'
    BY <1>5, <1>7, <1>8, <2>2 DEF Block, TextOf
  <2>4. \A i \in 2 .. Len(files') : i = 2 \/ (i \in 3 .. Len(files) + 1 /\ i - 1 \in 2 .. Len(files))
    BY <1>4, <1>11
  <2>5. \A i \in 2 .. Len(files') : files'[i].inbuf # 0
    BY <1>7, <1>11, <2>4 DEF IInv, BlocksOK
  <2>6. QED
    BY <2>3, <2>5 DEF BlocksOK
<1>15. CallsOK'
  <2>1. \A i \in 1 .. Len(stack') : i = 1 \/ i = 2 \/ (i \in 3 .. Len(stack) + 1 /\ i - 1 \in 2 .. Len(stack) /\ i - 1 \in 1 .. Len(stack) /\ i # 1)
    BY <1>4, <1>12
  <2>2. \A i \in 3 .. Len(stack) + 1 : /\ stack'[i] = stack[i - 1]
                                       /\ i - 1 \in 2 .. Len(stack) /\ i - 1 \in 1 .. Len(stack)
    BY <1>4, <1>12
  <2>3. \A i \in 3 .. Len(stack) + 1 : stack'[i].at = "ssi" /\ stack'[i].fi < Len(files) /\ stack'[i].fi # 0 /\ stack'[i].fi \in Nat
    <3>1. \A i \in 3 .. Len(stack) + 1 : stack'[i].at = "ssi" /\ stack'[i].fi < Len(files) /\ stack'[i].fi # 0
      BY <1>3, <2>2 DEF Working
    <3>2. \A i \in 3 .. Len(stack) + 1 : stack'[i].fi \in Nat
      BY <1>4, <2>2, CallFiles
    <3>3. QED
      BY <3>1, <3>2
  <2>4. \A i \in 1 .. Len(stack') : stack'[i].fi # 0 /\ (i # 1 => stack'[i].at = "ssi")
    BY <1>4, <1>9, <1>10, <1>12, <2>1, <2>3
  <2>5. ASSUME NEW i \in 1 .. Len(stack'), NEW j \in 1 .. Len(stack'), i < j
        PROVE  stack'[j].fi < stack'[i].fi
    <3>1. CASE i = 1
      <4>1. j = 2 \/ j \in 3 .. Len(stack) + 1
        BY <2>1, <2>5, <3>1
      <4>2. QED
        BY <1>4, <1>9, <1>10, <1>12, <2>3, <3>1, <4>1
    <3>2. CASE i = 2
      <4>1. j \in 3 .. Len(stack) + 1
        BY <2>1, <2>5, <3>2
      <4>2. QED
        BY <1>10, <1>12, <2>3, <3>2, <4>1
    <3>3. CASE i # 1 /\ i # 2
      <4>1. i \in 3 .. Len(stack) + 1 /\ j \in 3 .. Len(stack) + 1 /\ i - 1 < j - 1
        BY <2>1, <2>5, <3>3
      <4>2. stack[j - 1].fi < stack[i - 1].fi
        BY <2>2, <4>1 DEF IInv, CallsOK
      <4>3. QED
        BY <2>2, <4>1, <4>2
    <3>4. QED
      BY <3>1, <3>2, <3>3
  <2>6. stack'[1].fi = Len(files') /\ stack'[1].fi <= Len(files') /\ stack'[1].at = "read"
    BY <1>4, <1>9, <1>11, <1>12
  <2>7. pc' = "readfile" /\ state' = "CONTENT"
    BY <1>2, <1>3 DEF Working
  <2>8. QED
    BY <1>13, <2>4, <2>5, <2>6, <2>7 DEF CallsOK
<1>16. Refused \subseteq {"form"}
  BY DEF Refused
<1>17. lost \subseteq lost' /\ "tx" \notin lost' /\ lost' \subseteq {"tx", "file", "form", "text", "send"}
  BY <1>2, <1>3, <1>16 DEF IInv, Types
<1>18. forms' \in Seq({"own", "include"}) /\ formleft' \in Nat /\ OwnFormKept'
  BY <1>2, <1>5, FormsWithIs DEF OwnFormKept
<1>19. fileleft' \in Nat
  BY <1>2 DEF IInv, Types, Opens
<1>20. Types'
  BY <1>2, <1>5, <1>11, <1>12, <1>17, <1>18, <1>19 DEF Types, IInv
<1>21. queued' = FlattenSeq(tx)' /\ ("send" \in lost => "send" \in lost')
  BY <1>2, <1>3, <1>17
<1>22. TextOK' /\ WireOK'
  BY <1>3, <1>5, <1>21, WorkText
<1>23. BinaryOK' /\ CutOK'
  BY <1>3, <1>5, <1>17, NoBinary DEF CutOK
<1>24. QED
  BY <1>14, <1>15, <1>18, <1>20, <1>22, <1>23 DEF IInv

----------------------------------------------------------------------------
(* wi_sockwrite, wi_replyhdr and wi_movebinary *)

LEMMA HeaderIs ==
    ASSUME NEW length \in Nat
    PROVE  Header(length) \in Seq(Sent) /\ Len(Header(length)) = HDR
<1>1. HDR \in Nat /\ HDR # 0
  BY SizesAssumption
<1>2. \A i \in 1 .. HDR : <<"header", i, length>> \in Sent
  BY DEF Sent
<1>3. [i \in 1 .. HDR |-> <<"header", i, length>>] \in Seq(Sent)
  BY <1>1, <1>2, IsASeq
<1>4. QED
  BY <1>1, <1>3 DEF Header

LEMMA PartIs ==
    ASSUME NEW text \in Seq(Sent), NEW n \in 0 .. Len(text)
    PROVE  /\ SubSeq(text, 1, n) \in Seq(Sent)
           /\ n = 0 => SubSeq(text, 1, n) = <<>>
           /\ n = Len(text) => SubSeq(text, 1, n) = text
<1>1. Len(text) \in Nat /\ n \in Int /\ 1 \in Int
  BY LenProperties
<1>2. \A i \in 1 .. n : text[i] \in Sent
  <2>1. \A i \in 1 .. n : i \in 1 .. Len(text)
    BY <1>1
  <2>2. QED
    BY <2>1, ElementOfSeq
<1>3. QED
  BY <1>1, <1>2, SubSeqProperties, WholePart

\* What the socket took of a text is on the wire.
LEMMA SendIs ==
    ASSUME wire \in Seq(Sent), room \in 0 .. ROOM, NEW text \in Seq(Sent), NEW n, n = Smaller(room, Len(text)), Send(text, n)
    PROVE  /\ wire' \in Seq(Sent) /\ room' \in 0 .. ROOM /\ n \in Nat
           /\ n = Len(text) => wire' = wire \o text
           /\ n = 0 => wire' = wire
<1>1. room \in Nat /\ Len(text) \in Nat
  BY LenProperties, SizesAssumption
<1>2. n \in Nat /\ n <= room /\ n <= Len(text)
  BY <1>1, SmallerIs
<1>3. PICK p : p = SubSeq(text, 1, n)
  OBVIOUS
<1>4. n \in 0 .. Len(text)
  BY <1>1, <1>2
<1>5. p \in Seq(Sent) /\ (n = 0 => p = <<>>) /\ (n = Len(text) => p = text)
  BY <1>3, <1>4, PartIs
<1>6. wire' = wire \o p /\ room' = room - n
  BY <1>3 DEF Send
<1>7. wire' \in Seq(Sent)
  BY <1>5, <1>6, ConcatProperties
<1>8. wire \o <<>> = wire
  BY ConcatEmptySeq
<1>9. room' \in 0 .. ROOM
  BY <1>1, <1>2, <1>6, SizesAssumption
<1>10. QED
  BY <1>2, <1>5, <1>6, <1>7, <1>8, <1>9

\* A header is on the wire whole, or the send of it went wrong.
LEMMA SendHeaderIs ==
    ASSUME Types, NEW length \in Nat, SendHeader(length)
    PROVE  /\ wire' \in Seq(Sent) /\ room' \in 0 .. ROOM /\ hdrsent' \in BOOLEAN
           /\ lost \subseteq lost' /\ lost' \subseteq lost \cup {"send"}
           /\ hdrsent' => lost' = lost /\ wire' = wire \o Header(length)
           /\ ~hdrsent' => "send" \in lost'
<1>1. PICK n, text : n = Smaller(room, HDR) /\ text = Header(length)
  OBVIOUS
<1>2. text \in Seq(Sent) /\ Len(text) = HDR
  BY <1>1, HeaderIs
<1>3. Send(text, n) /\ hdrsent' = (n = HDR) /\ lost' = IF n = HDR THEN lost ELSE lost \cup {"send"}
  BY <1>1 DEF SendHeader
<1>4. wire \in Seq(Sent) /\ room \in 0 .. ROOM /\ n = Smaller(room, Len(text))
  BY <1>1, <1>2 DEF Types
<1>5. wire' \in Seq(Sent) /\ room' \in 0 .. ROOM /\ (n = Len(text) => wire' = wire \o text)
  BY <1>2, <1>3, <1>4, SendIs
<1>6. CASE n = HDR
  BY <1>1, <1>2, <1>3, <1>5, <1>6
<1>7. CASE n # HDR
  BY <1>3, <1>5, <1>7
<1>8. QED
  BY <1>6, <1>7

\* The reply is being sent: the calls around the one that sends only return.
LEMMA Sending ==
    ASSUME IInv, pc \in {"sockwrite", "movebinary"}
    PROVE  /\ state = "SENDDATA" /\ stack \in Seq(Activation) /\ files \in Seq(OpenFile) /\ Len(files) \in Nat
           /\ \A i \in 2 .. Len(stack) : stack[i].fi < Len(files) /\ stack[i].fi <= Len(files)
           /\ Len(stack) > 1 => files # <<>> /\ files[1].inbuf # 0
<1>1. /\ state = "SENDDATA" /\ stack \in Seq(Activation) /\ files \in Seq(OpenFile) /\ Unwinding(2)
      /\ Len(stack) > 1 => files # <<>> /\ files[1].inbuf # 0
  BY DEF IInv, CallsOK, Types
<1>2. Len(files) \in Nat /\ Len(stack) \in Nat
  BY <1>1, LenProperties
<1>3. \A i \in 2 .. Len(stack) : i \in 1 .. Len(stack)
  BY <1>2
<1>4. \A i \in 2 .. Len(stack) : stack[i].fi \in Nat
  BY <1>1, <1>3, CallFiles
<1>5. \A i \in 2 .. Len(stack) : stack[i].fi < Len(files)
  BY <1>1 DEF Unwinding
<1>6. \A i \in 2 .. Len(stack) : stack[i].fi <= Len(files)
  BY <1>2, <1>4, <1>5
<1>7. QED
  BY <1>1, <1>2, <1>5, <1>6

LEMMA SendReturns ==
    ASSUME IInv, pc \in {"sockwrite", "movebinary"}, files' = files, req' = req,
           NEW error \in BOOLEAN, NEW st \in {"SENDDATA", "ENDING"}, Return(error, st),
           "tx" \in lost' => "tx" \in lost
    PROVE  /\ BlocksOK' /\ CallsOK' /\ CutOK' /\ Returned(error, st)
           /\ stack' \in Seq(Activation) /\ state' \in {st, "ENDING"}
           /\ pc' \in {"readfile", "visit", "poll", "over"}
<1>1. /\ state = "SENDDATA" /\ stack \in Seq(Activation) /\ files \in Seq(OpenFile) /\ Len(files) \in Nat
      /\ \A i \in 2 .. Len(stack) : stack[i].fi < Len(files) /\ stack[i].fi <= Len(files)
      /\ Len(stack) > 1 => files # <<>> /\ files[1].inbuf # 0
  BY Sending
<1>2. Returned(error, st)
  BY <1>1, ReturnIs
<1>3. Around(st)
  BY <1>1 DEF Around
<1>4. CallsOK'
  BY <1>1, <1>2, <1>3, ReturnCalls DEF IInv
<1>5. pc' = "readfile" => Unwinding(1)'
  BY <1>1, <1>2, ReturnUnwinds DEF IInv
<1>6. CutOK'
  BY <1>5 DEF CutOK, IInv
<1>7. BlocksOK'
  BY SameBlocks DEF IInv
<1>8. stack' \in Seq(Activation) /\ state' \in {st, "ENDING"} /\ pc' \in {"readfile", "visit", "poll", "over"}
  BY <1>2 DEF Returned
<1>9. QED
  BY <1>2, <1>4, <1>6, <1>7, <1>8

LEMMA SendGoesOn ==
    ASSUME IInv, pc \in {"sockwrite", "movebinary"}, pc' \in {"sockwrite", "movebinary"}, UNCHANGED <<files, req, stack, state>>,
           pc' = "movebinary" => req.binary, "tx" \in lost' => "tx" \in lost
    PROVE  BlocksOK' /\ CallsOK' /\ CutOK'
<1>1. BlocksOK'
  BY SameBlocks DEF IInv
<1>2. CallsOK'
  BY DEF IInv, CallsOK, Unwinding
<1>3. CutOK'
  BY DEF IInv, CutOK
<1>4. QED
  BY <1>1, <1>2, <1>3

LEMMA SendTextHeaderStep ==
    ASSUME IInv, SendTextHeader
    PROVE  IInv'
<1>1. PICK length : length = Len(FlattenSeq(tx))
  OBVIOUS
<1>2. /\ pc = "sockwrite" /\ ~req.binary /\ ~hdrsent /\ SendHeader(length)
      /\ IF hdrsent' THEN UNCHANGED <<stack, state, pc>> ELSE Return(TRUE, state)
      /\ UNCHANGED <<req, forms, formleft, queued, sel_send, files, fileleft, tx, txleft, caller>>
  BY <1>1 DEF SendTextHeader, NoRead
<1>3. Types /\ queued = FlattenSeq(tx) /\ state = "SENDDATA" /\ queued \in Seq(Sent) /\ tx \in Seq(Seq(Sent))
  BY <1>2, Sending DEF IInv, TextOK, Types
<1>4. length \in Nat /\ length = Len(queued)
  BY <1>1, <1>3, LenProperties
<1>5. /\ wire' \in Seq(Sent) /\ room' \in 0 .. ROOM /\ hdrsent' \in BOOLEAN
      /\ lost \subseteq lost' /\ lost' \subseteq lost \cup {"send"}
      /\ hdrsent' => lost' = lost /\ wire' = wire \o Header(length)
      /\ ~hdrsent' => "send" \in lost'
  BY <1>2, <1>3, <1>4, SendHeaderIs
<1>6. ("tx" \in lost' => "tx" \in lost) /\ lost' \subseteq {"tx", "file", "form", "text", "send"}
  BY <1>5 DEF IInv, Types
<1>7. BinaryOK' /\ OwnFormKept'
  BY <1>2, NoBinary, SameForms DEF IInv
<1>8. CASE hdrsent'
  <2>1. UNCHANGED <<stack, state, pc>> /\ lost' = lost /\ wire' = wire \o Header(length)
    BY <1>2, <1>5, <1>8
  <2>2. BlocksOK' /\ CallsOK' /\ CutOK'
    BY <1>2, <2>1, SendGoesOn
  <2>3. Types'
    BY <1>2, <1>3, <1>5, <2>1 DEF Types
  <2>4. "send" \notin lost => wire' = Header(length)
    <3>1. "send" \notin lost => wire = <<>>
      BY <1>2 DEF IInv, WireOK
    <3>2. Header(length) \in Seq(Sent)
      BY <1>4, HeaderIs
    <3>3. <<>> \o Header(length) = Header(length)
      BY <3>2, ConcatEmptySeq
    <3>4. QED
      BY <2>1, <3>1, <3>3
  <2>5. TextOK'
    <3>1. state' # "ENDING" /\ hdrsent' /\ FlattenSeq(tx)' = queued /\ queued' = queued
      BY <1>2, <1>3, <1>8, <2>1
    <3>2. "send" \notin lost' => wire' \o FlattenSeq(tx)' = Header(Len(queued)) \o queued
      BY <1>4, <2>1, <2>4, <3>1
    <3>3. QED
      BY <3>1, <3>2 DEF TextOK
  <2>6. WireOK'
    BY <1>3, <1>8, <2>1 DEF WireOK
  <2>7. QED
    BY <1>7, <2>2, <2>3, <2>5, <2>6 DEF IInv
<1>9. CASE ~hdrsent'
  <2>1. Return(TRUE, state) /\ "send" \in lost'
    BY <1>2, <1>5, <1>9
  <2>2. /\ BlocksOK' /\ CallsOK' /\ CutOK' /\ stack' \in Seq(Activation) /\ state' \in {state, "ENDING"}
        /\ pc' \in {"readfile", "visit", "poll", "over"}
    BY <1>2, <1>3, <1>6, <2>1, SendReturns
  <2>3. Types'
    BY <1>2, <1>3, <1>5, <1>6, <2>2 DEF Types
  <2>4. TextOK' /\ WireOK'
    BY <1>2, <1>3, <1>9, <2>1, <2>2 DEF TextOK, WireOK
  <2>5. QED
    BY <1>7, <2>2, <2>3, <2>4 DEF IInv
<1>10. QED
  BY <1>8, <1>9

LEMMA SendTxbufStep ==
    ASSUME IInv, SendTxbuf
    PROVE  IInv'
<1>1. PICK n, text : text = Head(tx) /\ n = Smaller(room, Len(Head(tx)))
  OBVIOUS
<1>2. /\ pc = "sockwrite" /\ ~req.binary /\ hdrsent /\ tx # <<>> /\ Send(text, n)
      /\ IF n = Len(text)
         THEN tx' = Tail(tx) /\ txleft' = txleft + 1 /\ UNCHANGED <<stack, state, pc, lost>>
         ELSE /\ \E error \in IF n = 0 THEN {FALSE} ELSE BOOLEAN : Return(error, state)
              /\ lost' = IF n = 0 THEN lost ELSE lost \cup {"send"}
              /\ UNCHANGED <<tx, txleft>>
      /\ UNCHANGED <<req, forms, formleft, queued, sel_send, files, fileleft, hdrsent, caller>>
  BY <1>1 DEF SendTxbuf, NoRead
<1>3. /\ Types /\ state = "SENDDATA" /\ queued \in Seq(Sent) /\ tx \in Seq(Seq(Sent)) /\ wire \in Seq(Sent)
      /\ room \in 0 .. ROOM /\ txleft \in Nat
  BY <1>2, Sending DEF IInv, Types
<1>4. text \in Seq(Sent) /\ Tail(tx) \in Seq(Seq(Sent)) /\ FlattenSeq(tx) = text \o FlattenSeq(Tail(tx))
  BY <1>1, <1>2, <1>3, FirstOf, FlatHead
<1>5. /\ wire' \in Seq(Sent) /\ room' \in 0 .. ROOM /\ n \in Nat
      /\ n = Len(text) => wire' = wire \o text
      /\ n = 0 => wire' = wire
  BY <1>1, <1>2, <1>3, <1>4, SendIs
<1>6. BinaryOK' /\ OwnFormKept'
  BY <1>2, NoBinary, SameForms DEF IInv
<1>7. WireOK'
  <2>1. hdrsent' /\ state' # "CONTENT"
    <3>1. CASE n = Len(text)
      BY <1>2, <1>3, <3>1
    <3>2. CASE n # Len(text)
      <4>1. PICK error \in BOOLEAN : Return(error, state)
        BY <1>2, <3>2
      <4>2. Returned(error, state)
        BY <4>1, ReturnIs DEF IInv, Types
      <4>3. state' \in {state, "ENDING"}
        BY <4>2 DEF Returned
      <4>4. QED
        BY <1>2, <1>3, <4>3
    <3>3. QED
      BY <3>1, <3>2
  <2>2. QED
    BY <2>1 DEF WireOK
<1>8. "send" \notin lost => wire \o FlattenSeq(tx) = Header(Len(queued)) \o queued
  BY <1>2 DEF IInv, TextOK
<1>9. CASE n = Len(text)
  <2>1. tx' = Tail(tx) /\ txleft' = txleft + 1 /\ UNCHANGED <<stack, state, pc, lost>>
    BY <1>2, <1>9
  <2>2. BlocksOK' /\ CallsOK' /\ CutOK'
    BY <1>2, <2>1, SendGoesOn
  <2>3. Types'
    BY <1>2, <1>3, <1>4, <1>5, <2>1 DEF Types
  <2>4. wire' \o FlattenSeq(tx)' = wire \o FlattenSeq(tx)
    <3>1. PICK w, a, b : w = wire /\ a = text /\ b = FlattenSeq(Tail(tx))
      OBVIOUS
    <3>2. w \in Seq(Sent) /\ a \in Seq(Sent) /\ b \in Seq(Sent)
      BY <1>3, <1>4, <3>1, FlatType
    <3>3. (w \o a) \o b = w \o (a \o b)
      <4>1. ThreeAlike(w, a, b)
        BY <3>2, Associative, Zenon
      <4>2. QED
        BY <4>1, Zenon DEF ThreeAlike
    <3>4. wire' = w \o a /\ FlattenSeq(tx)' = b /\ FlattenSeq(tx) = a \o b
      BY <1>4, <1>5, <1>9, <2>1, <3>1
    <3>5. QED
      BY <3>1, <3>3, <3>4
  <2>5. TextOK'
    BY <1>2, <1>3, <1>8, <2>1, <2>4 DEF TextOK
  <2>6. QED
    BY <1>6, <1>7, <2>2, <2>3, <2>5 DEF IInv
<1>10. CASE n # Len(text)
  <2>1. lost' = (IF n = 0 THEN lost ELSE lost \cup {"send"}) /\ UNCHANGED <<tx, txleft>>
    BY <1>2, <1>10
  <2>2. PICK error \in (IF n = 0 THEN {FALSE} ELSE BOOLEAN) : Return(error, state)
    BY <1>2, <1>10
  <2>3. error \in BOOLEAN /\ (n = 0 => ~error)
    BY <2>2
  <2>4. /\ ("tx" \in lost' => "tx" \in lost) /\ lost' \subseteq {"tx", "file", "form", "text", "send"}
        /\ (n = 0 => lost' = lost) /\ (n # 0 => "send" \in lost')
    BY <2>1 DEF IInv, Types
  <2>5. /\ BlocksOK' /\ CallsOK' /\ CutOK' /\ stack' \in Seq(Activation) /\ state' \in {state, "ENDING"}
        /\ pc' \in {"readfile", "visit", "poll", "over"} /\ Returned(error, state)
    BY <1>2, <1>3, <2>2, <2>3, <2>4, SendReturns
  <2>6. n = 0 => state' = "SENDDATA"
    BY <1>3, <2>3, <2>5 DEF Returned
  <2>7. Types'
    BY <1>2, <1>3, <1>5, <2>1, <2>4, <2>5 DEF Types
  <2>8. TextOK'
    <3>1. CASE n = 0
      BY <1>2, <1>5, <1>8, <2>1, <2>4, <2>6, <3>1 DEF TextOK
    <3>2. CASE n # 0
      BY <1>2, <2>4, <3>2 DEF TextOK
    <3>3. QED
      BY <3>1, <3>2
  <2>9. QED
    BY <1>6, <1>7, <2>5, <2>7, <2>8 DEF IInv
<1>11. QED
  BY <1>9, <1>10

LEMMA TextSentStep ==
    ASSUME IInv, TextSent
    PROVE  IInv'
<1>1. /\ pc = "sockwrite" /\ ~req.binary /\ hdrsent /\ tx = <<>> /\ Return(FALSE, "ENDING")
      /\ UNCHANGED <<req, forms, formleft, queued, sel_send, files, fileleft, tx, txleft, hdrsent, caller, room, wire, lost>>
  BY DEF TextSent, NoRead
<1>2. /\ BlocksOK' /\ CallsOK' /\ CutOK' /\ stack' \in Seq(Activation) /\ state' = "ENDING"
      /\ pc' \in {"readfile", "visit", "poll", "over"}
  <2>1. pc \in {"sockwrite", "movebinary"} /\ FALSE \in BOOLEAN /\ "ENDING" \in {"SENDDATA", "ENDING"}
        /\ ("tx" \in lost' => "tx" \in lost)
    BY <1>1
  <2>2. /\ BlocksOK' /\ CallsOK' /\ CutOK' /\ stack' \in Seq(Activation) /\ state' \in {"ENDING", "ENDING"}
        /\ pc' \in {"readfile", "visit", "poll", "over"}
    BY <1>1, <2>1, SendReturns
  <2>3. QED
    BY <2>2
<1>3. Types'
  BY <1>1, <1>2 DEF IInv, Types
<1>4. TextOK' /\ WireOK'
  BY <1>1, <1>2 DEF IInv, TextOK, WireOK
<1>5. BinaryOK' /\ OwnFormKept'
  BY <1>1, NoBinary, SameForms DEF IInv
<1>6. QED
  BY <1>2, <1>3, <1>4, <1>5 DEF IInv

\* Units a + 1 to a + b of the page.
PagePart(a, b) == [i \in 1 .. b |-> UnitName("page", a + i)]

LEMMA PagePartIs ==
    ASSUME NEW a \in Nat, NEW b \in Nat
    PROVE  PagePart(a, b) \in Seq(Sent) /\ Len(PagePart(a, b)) = b /\ \A i \in 1 .. b : PagePart(a, b)[i] = UnitName("page", a + i)
<1>1. \A i \in 1 .. b : UnitName("page", a + i) \in Sent
  <2>1. \A i \in 1 .. b : a + i \in Int
    OBVIOUS
  <2>2. QED
    BY <2>1 DEF Sent
<1>2. [i \in 1 .. b |-> UnitName("page", a + i)] \in Seq(Sent)
  BY <1>1, IsASeq
<1>3. QED
  BY <1>2 DEF PagePart

LEMMA MovedIs ==
    ASSUME NEW a \in Nat, NEW b \in Nat
    PROVE  /\ Moved(a) \in Seq(Sent) /\ Moved(0) = <<>>
           /\ Moved(a) \o PagePart(a, b) = Moved(a + b)
<1>1. \A k \in Nat : Moved(k) \in Seq(Sent) /\ Len(Moved(k)) = k /\ \A i \in 1 .. k : Moved(k)[i] = UnitName("page", i)
  <2>1. SUFFICES ASSUME NEW k \in Nat
                 PROVE  Moved(k) \in Seq(Sent) /\ Len(Moved(k)) = k /\ \A i \in 1 .. k : Moved(k)[i] = UnitName("page", i)
    OBVIOUS
  <2>2. PagePart(0, k) \in Seq(Sent) /\ Len(PagePart(0, k)) = k /\ \A i \in 1 .. k : PagePart(0, k)[i] = UnitName("page", 0 + i)
    BY PagePartIs
  <2>3. \A i \in 1 .. k : 0 + i = i
    OBVIOUS
  <2>4. PagePart(0, k) = Moved(k)
    BY <2>3 DEF PagePart, Moved
  <2>5. QED
    BY <2>2, <2>3, <2>4
<1>2. Moved(0) = <<>>
  <2>1. Moved(0) \in Seq(Sent) /\ Len(Moved(0)) = 0
    BY <1>1
  <2>2. QED
    BY <2>1, EmptySeq
<1>3. PICK p, q, r, c : p = Moved(a) /\ q = PagePart(a, b) /\ r = Moved(a + b) /\ c = Moved(a) \o PagePart(a, b)
  OBVIOUS
<1>4. /\ p \in Seq(Sent) /\ Len(p) = a /\ (\A i \in 1 .. a : p[i] = UnitName("page", i))
      /\ r \in Seq(Sent) /\ Len(r) = a + b /\ (\A i \in 1 .. a + b : r[i] = UnitName("page", i))
      /\ q \in Seq(Sent) /\ Len(q) = b /\ \A i \in 1 .. b : q[i] = UnitName("page", a + i)
  <2>1. a + b \in Nat
    OBVIOUS
  <2>2. QED
    BY <1>1, <1>3, <2>1, PagePartIs
<1>5. /\ c \in Seq(Sent) /\ Len(c) = Len(p) + Len(q)
      /\ \A i \in 1 .. Len(p) + Len(q) : c[i] = IF i <= Len(p) THEN p[i] ELSE q[i - Len(p)]
  <2>1. c = p \o q
    BY <1>3
  <2>2. QED
    BY <1>4, <2>1, ConcatProperties
<1>6. ASSUME NEW i \in 1 .. Len(c)
      PROVE  c[i] = r[i]
  <2>1. i \in 1 .. a + b /\ (i <= a => i \in 1 .. a) /\ (~(i <= a) => i - a \in 1 .. b /\ a + (i - a) = i)
    BY <1>4, <1>5
  <2>2. CASE i <= a
    <3>1. c[i] = p[i] /\ p[i] = UnitName("page", i) /\ r[i] = UnitName("page", i)
      BY <1>4, <1>5, <2>1, <2>2
    <3>2. QED
      BY <3>1
  <2>3. CASE ~(i <= a)
    <3>1. c[i] = q[i - a] /\ q[i - a] = UnitName("page", a + (i - a)) /\ r[i] = UnitName("page", i)
      BY <1>4, <1>5, <2>1, <2>3
    <3>2. QED
      BY <2>1, <2>3, <3>1
  <2>4. QED
    BY <2>2, <2>3
<1>7. Len(c) = Len(r)
  BY <1>4, <1>5
<1>8. c = r
  BY <1>4, <1>5, <1>6, <1>7, SeqSame
<1>9. QED
  BY <1>1, <1>2, <1>3, <1>8

LEMMA MoveHeaderStep ==
    ASSUME IInv, MoveHeader
    PROVE  IInv'
<1>1. PICK length : length = Len(req.page)
  OBVIOUS
<1>2. /\ pc = "sockwrite" /\ req.binary /\ pc' = "movebinary"
      /\ IF hdrsent THEN UNCHANGED <<hdrsent, room, wire, lost>> ELSE SendHeader(length)
      /\ UNCHANGED <<req, forms, formleft, queued, sel_send, state, files, fileleft, tx, txleft, stack, caller>>
  BY <1>1 DEF MoveHeader, NoRead
<1>3. Types /\ BinaryOK /\ WireOK /\ state = "SENDDATA"
  BY <1>2, Sending DEF IInv
<1>4. length \in Nat
  <2>1. "page" \in Name \cup {"page"}
    OBVIOUS
  <2>2. req.page \in Seq(Unit)
    BY <1>3, <2>1, TextIs
  <2>3. QED
    BY <1>1, <2>2, LenProperties
<1>5. /\ wire' \in Seq(Sent) /\ room' \in 0 .. ROOM /\ hdrsent' \in BOOLEAN
      /\ lost \subseteq lost' /\ lost' \subseteq lost \cup {"send"}
      /\ ~hdrsent' => "send" \in lost'
      /\ hdrsent' => lost' = lost
      /\ hdrsent' /\ ~hdrsent => wire' = wire \o Header(length)
      /\ hdrsent => wire' = wire
  <2>1. CASE hdrsent
    BY <1>2, <1>3, <2>1 DEF Types
  <2>2. CASE ~hdrsent
    <3>1. SendHeader(length)
      BY <1>2, <2>2
    <3>2. QED
      BY <1>3, <1>4, <2>2, <3>1, SendHeaderIs
  <2>3. QED
    BY <2>1, <2>2
<1>6. ("tx" \in lost' => "tx" \in lost) /\ lost' \subseteq {"tx", "file", "form", "text", "send"}
  BY <1>3, <1>5 DEF Types
<1>7. BlocksOK' /\ CallsOK' /\ CutOK'
  BY <1>2, <1>6, SendGoesOn
<1>8. Types'
  BY <1>2, <1>3, <1>5, <1>6 DEF Types
<1>9. TextOK' /\ OwnFormKept'
  BY <1>2, SameForms DEF TextOK, IInv
<1>10. WireOK'
  BY <1>2, <1>3, <1>5 DEF WireOK
<1>11. "send" \notin lost' => hdrsent' /\ wire' = Header(length) \o Moved(files[1].pos - files[1].inbuf)
  <2>1. SUFFICES ASSUME "send" \notin lost'
                 PROVE  hdrsent' /\ wire' = Header(length) \o Moved(files[1].pos - files[1].inbuf)
    OBVIOUS
  <2>2. hdrsent' /\ "send" \notin lost
    BY <1>5, <2>1
  <2>3. CASE hdrsent
    BY <1>1, <1>2, <1>3, <1>5, <2>2, <2>3 DEF BinaryOK
  <2>4. CASE ~hdrsent
    <3>1. wire = <<>> /\ files[1].pos = files[1].inbuf /\ wire' = wire \o Header(length)
      BY <1>2, <1>3, <1>5, <2>2, <2>4 DEF BinaryOK, WireOK
    <3>2. Header(length) \in Seq(Sent)
      BY <1>4, HeaderIs
    <3>3. <<>> \o Header(length) = Header(length) /\ Header(length) \o <<>> = Header(length)
      BY <3>2, ConcatEmptySeq
    <3>4. files[1].pos - files[1].inbuf = 0
      <4>1. Len(files) = 1 /\ files \in Seq(OpenFile)
        BY <1>2, <1>3 DEF BinaryOK, Types
      <4>2. files[1] \in OpenFile
        BY <4>1, ElementOfSeq
      <4>3. files[1].pos \in Nat
        BY <4>2 DEF OpenFile
      <4>4. QED
        BY <3>1, <4>3
    <3>5. Moved(0) = <<>>
      BY MovedIs
    <3>6. QED
      BY <2>2, <3>1, <3>3, <3>4, <3>5
  <2>5. QED
    BY <2>3, <2>4
<1>12. BinaryOK'
  <2>1. Len(stack) <= 1 /\ "tx" \notin lost' /\ tx = <<>> /\ queued = <<>> /\ Len(files) = 1 /\ files[1].name = "page"
    BY <1>2, <1>3, <1>6 DEF BinaryOK
  <2>2. QED
    BY <1>1, <1>2, <1>3, <1>5, <1>11, <2>1 DEF BinaryOK
<1>13. QED
  BY <1>7, <1>8, <1>9, <1>10, <1>12 DEF IInv

\* The block wi_movebinary sends: what is in wf_data, or what follows it in the page.
LEMMA RefilledIs ==
    ASSUME IInv, req.binary, pc = "movebinary", NEW f, f = Refilled(FileHead)
    PROVE  /\ f \in OpenFile /\ f.name = "page" /\ Block(f) /\ f.pos \in Nat /\ f.inbuf \in Nat /\ f.inbuf <= f.pos
           /\ f.pos - f.inbuf \in Nat /\ f.pos - f.inbuf = files[1].pos - files[1].inbuf
           /\ f.inbuf < BUF => f.pos = Len(req.page)
           /\ files \in Seq(OpenFile) /\ files # <<>> /\ Len(files) = 1
<1>1. /\ state = "SENDDATA" /\ files \in Seq(OpenFile)
  BY Sending
<1>2. Len(files) = 1 /\ files[1].name = "page"
  BY <1>1 DEF IInv, BinaryOK
<1>3. files # <<>>
  BY <1>2, EmptySeq
<1>4. PICK h, l : h = FileHead /\ l = Len(req.page)
  OBVIOUS
<1>5. h = files[1] /\ h \in OpenFile /\ Block(h) /\ h.name = "page"
  <2>1. 1 \in 1 .. Len(files)
    BY <1>2
  <2>2. QED
    BY <1>1, <1>2, <1>3, <1>4, <2>1, FirstOf DEF FileHead, IInv, BlocksOK
<1>6. h.pos \in Nat /\ h.inbuf \in 0 .. BUF /\ BUF \in Nat \ {0}
  BY <1>5, SizesAssumption DEF OpenFile
<1>7. l \in Nat /\ TextOf("page") = req.page
  <2>1. "page" \in Name \cup {"page"}
    OBVIOUS
  <2>2. req.page \in Seq(Unit)
    BY <2>1, TextIs DEF IInv
  <2>3. QED
    BY <1>4, <2>2, LenProperties DEF TextOf
<1>8. h.inbuf <= h.pos /\ h.pos <= l /\ (h.inbuf # 0 => h.inbuf = BUF \/ h.pos = l)
  BY <1>4, <1>5, <1>7 DEF Block
<1>9. CASE h.inbuf # 0
  <2>1. f = h
    BY <1>4, <1>9 DEF Refilled
  <2>2. /\ h.inbuf \in Nat /\ h.pos - h.inbuf \in Nat /\ (h.inbuf < BUF => h.pos = l)
    BY <1>6, <1>8, <1>9
  <2>3. QED
    BY <1>1, <1>2, <1>3, <1>4, <1>5, <1>6, <1>8, <2>1, <2>2
<1>10. CASE h.inbuf = 0
  <2>1. PICK n, p : n = Smaller(BUF, l - h.pos) /\ p = h.pos + n
    OBVIOUS
  <2>2. l - h.pos \in Nat
    BY <1>6, <1>7, <1>8
  <2>3. n \in Nat /\ n <= BUF /\ n <= l - h.pos /\ (n = BUF \/ n = l - h.pos)
    BY <1>6, <2>1, <2>2, SmallerIs
  <2>4. /\ p \in Nat /\ n \in 0 .. BUF /\ n <= p /\ p <= l /\ (n = BUF \/ p = l)
        /\ p - n \in Nat /\ p - n = h.pos /\ h.pos = h.pos - h.inbuf /\ (n < BUF => p = l)
    <3>1. PICK x, b : x = h.pos /\ b = BUF
      OBVIOUS
    <3>2. x \in Nat /\ b \in Nat /\ n \in Nat /\ n <= b /\ n <= l - x /\ (n = b \/ n = l - x) /\ p = x + n /\ l \in Nat
      BY <1>6, <1>7, <2>1, <2>3, <3>1
    <3>3. /\ p \in Nat /\ n \in 0 .. b /\ n <= p /\ p <= l /\ (n = b \/ p = l)
          /\ p - n \in Nat /\ p - n = x /\ x = x - 0 /\ (n < b => p = l)
      BY <3>2
    <3>4. QED
      BY <1>10, <3>1, <3>3
  <2>5. f = Rebuffer(h, p, n)
    BY <1>4, <1>10, <2>1 DEF Refilled, Rebuffer
  <2>6. f \in OpenFile /\ f.name = h.name /\ f.pos = p /\ f.inbuf = n
    BY <1>5, <2>4, <2>5, Rebuffered
  <2>7. Block(f)
    <3>1. Len(TextOf(f.name)) = l
      BY <1>4, <1>5, <1>7, <2>6
    <3>2. QED
      BY <2>4, <2>6, <3>1 DEF Block
  <2>8. QED
    BY <1>1, <1>2, <1>3, <1>4, <1>5, <2>3, <2>4, <2>6, <2>7
<1>11. QED
  BY <1>9, <1>10

LEMMA EmptiedIs ==
    ASSUME NEW h \in OpenFile, NEW g, g = [h EXCEPT !.inbuf = 0]
    PROVE  g \in OpenFile /\ g.inbuf = 0 /\ g.pos = h.pos /\ g.name = h.name
<1>1. 0 \in 0 .. BUF
  BY SizesAssumption
<1>2. QED
  BY <1>1 DEF OpenFile

LEMMA MoveBlockStep ==
    ASSUME IInv, MoveBlock
    PROVE  IInv'
<1>1. PICK f : f = Refilled(FileHead)
  OBVIOUS
<1>2. PICK a, b, text, n : /\ a = f.pos - f.inbuf /\ b = f.inbuf
                           /\ text = [i \in 1 .. f.inbuf |-> UnitName("page", f.pos - f.inbuf + i)]
                           /\ n = Smaller(room, f.inbuf)
  OBVIOUS
<1>3. /\ pc = "movebinary" /\ Send(text, n)
      /\ IF n = 0 /\ b > 0
         THEN Return(FALSE, state) /\ SetHead(f) /\ UNCHANGED <<fileleft, lost>>
         ELSE /\ lost' = IF n = b THEN lost ELSE lost \cup {"send"}
              /\ IF b < BUF
                 THEN Return(FALSE, "ENDING") /\ files' = Tail(files) /\ fileleft' = fileleft + 1
                 ELSE SetHead([f EXCEPT !.inbuf = 0]) /\ UNCHANGED <<state, stack, pc, fileleft>>
      /\ UNCHANGED <<req, forms, formleft, queued, sel_send, tx, txleft, hdrsent, caller>>
  BY <1>1, <1>2 DEF MoveBlock, NoRead
<1>4. /\ req.binary /\ Types /\ BinaryOK /\ WireOK /\ state = "SENDDATA" /\ stack \in Seq(Activation)
      /\ wire \in Seq(Sent) /\ room \in 0 .. ROOM
  BY <1>3, Sending DEF IInv, CallsOK, Types
<1>5. /\ f \in OpenFile /\ f.name = "page" /\ Block(f) /\ f.pos \in Nat /\ b \in Nat /\ b <= f.pos
      /\ a \in Nat /\ a = files[1].pos - files[1].inbuf /\ (b < BUF => f.pos = Len(req.page))
      /\ files \in Seq(OpenFile) /\ files # <<>> /\ Len(files) = 1
  BY <1>1, <1>2, <1>3, <1>4, RefilledIs
<1>6. a + b = f.pos /\ f.inbuf = b
  BY <1>2, <1>5
<1>7. text = PagePart(a, b)
  BY <1>2 DEF PagePart
<1>8. text \in Seq(Sent) /\ Len(text) = b
  BY <1>5, <1>7, PagePartIs
<1>9. /\ wire' \in Seq(Sent) /\ room' \in 0 .. ROOM /\ n \in Nat
      /\ n = b => wire' = wire \o text
      /\ n = 0 => wire' = wire
  BY <1>2, <1>3, <1>4, <1>8, SendIs
<1>10. /\ Len(stack) <= 1 /\ "tx" \notin lost /\ tx = <<>> /\ queued = <<>>
       /\ "send" \notin lost => hdrsent /\ wire = Header(Len(req.page)) \o Moved(a)
  <2>1. /\ Len(stack) <= 1 /\ "tx" \notin lost /\ tx = <<>> /\ queued = <<>>
    BY <1>4 DEF BinaryOK
  <2>2. hdrsent \/ "send" \in lost
    BY <1>3, <1>4 DEF BinaryOK
  <2>3. "send" \notin lost /\ hdrsent => wire = Header(Len(req.page)) \o Moved(files[1].pos - files[1].inbuf)
    BY <1>4 DEF BinaryOK
  <2>4. QED
    BY <1>5, <2>1, <2>2, <2>3
<1>11. "send" \notin lost /\ n = b => wire' = Header(Len(req.page)) \o Moved(f.pos)
  <2>1. SUFFICES ASSUME "send" \notin lost, n = b
                 PROVE  wire' = Header(Len(req.page)) \o Moved(f.pos)
    OBVIOUS
  <2>2. PICK h, m, t : h = Header(Len(req.page)) /\ m = Moved(a) /\ t = text
    OBVIOUS
  <2>3. Len(req.page) \in Nat
    <3>1. "page" \in Name \cup {"page"}
      OBVIOUS
    <3>2. req.page \in Seq(Unit)
      BY <1>4, <3>1, TextIs
    <3>3. QED
      BY <3>2, LenProperties
  <2>4. h \in Seq(Sent)
    BY <2>2, <2>3, HeaderIs
  <2>5. m \in Seq(Sent) /\ m \o t = Moved(f.pos)
    BY <1>5, <1>6, <1>7, <2>2, MovedIs
  <2>6. t \in Seq(Sent)
    BY <1>8, <2>2
  <2>7. (h \o m) \o t = h \o (m \o t)
    <3>1. \A u, v, w \in Seq(Sent) : (u \o v) \o w = u \o (v \o w)
      <4>1. \A u, v, w \in Seq(Sent) : ThreeAlike(u, v, w)
        BY Associative, Zenon
      <4>2. QED
        BY <4>1, Zenon DEF ThreeAlike
    <3>2. QED
      BY <2>4, <2>5, <2>6, <3>1
  <2>8. wire' = (h \o m) \o t
    BY <1>9, <1>10, <2>1, <2>2
  <2>9. QED
    BY <2>2, <2>5, <2>7, <2>8
<1>12. TextOK' /\ OwnFormKept'
  BY <1>3, <1>4, SameForms DEF TextOK, IInv
<1>13. lost \subseteq lost' /\ "tx" \notin lost' /\ lost' \subseteq {"tx", "file", "form", "text", "send"}
  <2>1. lost' = lost \/ lost' = lost \cup {"send"}
    BY <1>3
  <2>2. lost \subseteq {"tx", "file", "form", "text", "send"}
    BY <1>4 DEF Types
  <2>3. QED
    BY <1>10, <2>1, <2>2
<1>14. CutOK'
  BY <1>13 DEF CutOK
<1>15. CASE n = 0 /\ b > 0
  <2>1. Return(FALSE, state) /\ SetHead(f) /\ UNCHANGED <<fileleft, lost>>
    BY <1>3, <1>15
  <2>2. HeadFile(f)
    BY <1>5, <2>1, HeadFileIs
  <2>3. BlocksOK'
    BY <1>3, <1>5, <2>2, HeadFileBlocks DEF IInv
  <2>4. Returned(FALSE, state)
    BY <1>4, <2>1, ReturnIs
  <2>5. stack' = <<>> /\ state' = "SENDDATA" /\ pc' \in {"visit", "poll"}
    BY <1>4, <1>10, <2>4 DEF Returned
  <2>6. Len(stack') = 0 /\ \A i \in 1 .. Len(stack') : FALSE
    BY <2>5
  <2>7. CallsOK'
    BY <2>5, <2>6 DEF CallsOK
  <2>8. stack' \in Seq(Activation)
    BY <2>5, EmptySeq
  <2>9. Types'
    BY <1>3, <1>4, <1>9, <2>1, <2>2, <2>5, <2>8 DEF Types, HeadFile
  <2>10. WireOK'
    BY <1>3, <1>4, <1>9, <1>15, <2>1, <2>5 DEF WireOK
  <2>11. BinaryOK'
    <3>1. Len(files') = 1 /\ files'[1] = f
      BY <1>5, <2>2 DEF HeadFile
    <3>2. "send" \notin lost' => hdrsent' /\ wire' = Header(Len(req'.page)) \o Moved(files'[1].pos - files'[1].inbuf)
      <4>1. files'[1].pos - files'[1].inbuf = a
        BY <1>2, <3>1
      <4>2. QED
        BY <1>3, <1>9, <1>10, <1>15, <2>1, <4>1
    <3>3. Moved(files[1].pos - files[1].inbuf)' = Moved(files'[1].pos - files'[1].inbuf)
      BY DEF Moved
    <3>4. QED
      BY <1>3, <1>5, <1>10, <1>13, <2>5, <2>6, <3>1, <3>2, <3>3 DEF BinaryOK
  <2>12. QED
    BY <1>12, <1>14, <2>3, <2>7, <2>9, <2>10, <2>11 DEF IInv
<1>16. CASE ~(n = 0 /\ b > 0) /\ b < BUF
  <2>1. Return(FALSE, "ENDING") /\ files' = Tail(files) /\ fileleft' = fileleft + 1
        /\ lost' = IF n = b THEN lost ELSE lost \cup {"send"}
    BY <1>3, <1>16
  <2>2. BlocksOK' /\ files' \in Seq(OpenFile)
    BY <1>3, <1>5, <2>1, TailFiles DEF IInv
  <2>3. Returned(FALSE, "ENDING")
    BY <1>4, <2>1, ReturnIs
  <2>4. stack' = <<>> /\ state' = "ENDING" /\ pc' = "over"
    BY <1>10, <2>3 DEF Returned
  <2>5. Len(stack') = 0 /\ \A i \in 1 .. Len(stack') : FALSE
    BY <2>4
  <2>6. CallsOK'
    BY <2>4, <2>5 DEF CallsOK
  <2>7. stack' \in Seq(Activation)
    BY <2>4, EmptySeq
  <2>8. Types'
    BY <1>3, <1>4, <1>9, <1>13, <2>1, <2>2, <2>4, <2>7, SMTT(30) DEF Types
  <2>9. "send" \notin lost' => n = b /\ "send" \notin lost
    BY <2>1
  <2>10. WireOK'
    BY <1>3, <1>10, <2>4, <2>9 DEF WireOK
  <2>11. BinaryOK'
    <3>1. "send" \notin lost' => wire' = Header(Len(req'.page)) \o Moved(Len(req'.page))
      BY <1>3, <1>5, <1>11, <1>16, <2>9
    <3>2. Moved(Len(req.page))' = Moved(Len(req'.page))
      BY DEF Moved
    <3>3. QED
      BY <1>3, <1>10, <1>13, <2>4, <2>5, <3>1, <3>2 DEF BinaryOK
  <2>12. QED
    BY <1>12, <1>14, <2>2, <2>6, <2>8, <2>10, <2>11 DEF IInv
<1>17. CASE ~(n = 0 /\ b > 0) /\ ~(b < BUF)
  <2>1. SetHead([f EXCEPT !.inbuf = 0]) /\ UNCHANGED <<state, stack, pc, fileleft>>
        /\ lost' = IF n = b THEN lost ELSE lost \cup {"send"}
    BY <1>3, <1>17
  <2>2. PICK g : g = [f EXCEPT !.inbuf = 0]
    OBVIOUS
  <2>3. g \in OpenFile /\ g.inbuf = 0 /\ g.pos = f.pos /\ g.name = f.name
    BY <1>5, <2>2, EmptiedIs
  <2>4. Block(g)
    BY <1>5, <2>3 DEF Block
  <2>5. HeadFile(g)
    BY <1>5, <2>1, <2>2, <2>3, HeadFileIs
  <2>6. BlocksOK'
    BY <1>3, <1>5, <2>4, <2>5, HeadFileBlocks DEF IInv
  <2>7. CallsOK'
    <3>1. Unwinding(2)' /\ ~(Len(stack') > 1)
      <4>1. \A k \in Nat : k <= 1 => ~(k > 1) /\ \A i \in 2 .. k : FALSE
        OBVIOUS
      <4>2. Len(stack) \in Nat
        BY <1>4, LenProperties
      <4>3. ~(Len(stack') > 1) /\ \A i \in 2 .. Len(stack') : FALSE
        BY <1>10, <2>1, <4>1, <4>2
      <4>4. QED
        BY <4>3 DEF Unwinding
    <3>2. /\ \A i \in 1 .. Len(stack') : stack'[i].fi # 0 /\ (i # 1 => stack'[i].at = "ssi")
          /\ \A i, j \in 1 .. Len(stack') : i < j => stack'[j].fi < stack'[i].fi
      BY <2>1 DEF IInv, CallsOK
    <3>3. QED
      BY <1>3, <1>4, <2>1, <3>1, <3>2 DEF CallsOK
  <2>8. Types'
    BY <1>3, <1>4, <1>9, <1>13, <2>1, <2>5 DEF Types, HeadFile
  <2>9. "send" \notin lost' => n = b /\ "send" \notin lost
    BY <2>1
  <2>10. WireOK'
    BY <1>3, <1>4, <1>10, <2>1, <2>9 DEF WireOK
  <2>11. BinaryOK'
    <3>1. Len(files') = 1 /\ files'[1] = g
      BY <1>5, <2>5 DEF HeadFile
    <3>2. "send" \notin lost' => hdrsent' /\ wire' = Header(Len(req'.page)) \o Moved(files'[1].pos - files'[1].inbuf)
      <4>1. files'[1].pos - files'[1].inbuf = f.pos
        BY <1>5, <2>3, <3>1
      <4>2. QED
        BY <1>3, <1>10, <1>11, <2>9, <4>1
    <3>3. Moved(files[1].pos - files[1].inbuf)' = Moved(files'[1].pos - files'[1].inbuf)
      BY DEF Moved
    <3>4. hdrsent' \/ "send" \in lost'
      BY <3>2
    <3>5. QED
      BY <1>3, <1>4, <1>5, <1>10, <1>13, <2>1, <2>3, <3>1, <3>2, <3>3, <3>4 DEF BinaryOK
  <2>12. QED
    BY <1>12, <1>14, <2>6, <2>7, <2>8, <2>10, <2>11 DEF IInv
<1>18. QED
  BY <1>15, <1>16, <1>17

----------------------------------------------------------------------------
(* The visits, the client and the other sessions *)

\* What the visits leave alone.
LEMMA StillText ==
    ASSUME IInv, UNCHANGED <<req, state, hdrsent, files, forms, tx, queued, wire, lost>>
    PROVE  BlocksOK' /\ TextOK' /\ WireOK' /\ OwnFormKept'
BY SameBlocks, SameForms DEF IInv, TextOK, WireOK

LEMMA PollStep ==
    ASSUME IInv, Poll
    PROVE  IInv'
<1>1. /\ pc = "poll" /\ pc' = "visit" /\ sel_send' = ((tx # <<>> \/ req.binary) /\ room > 0)
      /\ UNCHANGED <<req, state, hdrsent, files, forms, tx, txleft, fileleft, formleft, stack, wire, queued, lost, caller, room>>
  BY DEF Poll, Still, reply, history
<1>2. BlocksOK' /\ TextOK' /\ WireOK' /\ OwnFormKept'
  BY <1>1, StillText
<1>3. Types'
  BY <1>1 DEF Types, IInv
<1>4. CallsOK'
  BY <1>1 DEF CallsOK, IInv
<1>5. CutOK'
  BY <1>1 DEF CutOK, IInv
<1>6. BinaryOK'
  BY <1>1 DEF BinaryOK, IInv, Moved
<1>7. QED
  BY <1>2, <1>3, <1>4, <1>5, <1>6 DEF IInv

LEMMA VisitContentStep ==
    ASSUME IInv, VisitContent
    PROVE  IInv'
<1>1. PICK x : x = [fi |-> Len(files), at |-> "read", len |-> 0]
  OBVIOUS
<1>2. /\ pc = "visit" /\ state = "CONTENT" /\ pc' = "readfile" /\ caller' = "content" /\ stack' = <<x>> \o <<>>
      /\ UNCHANGED <<req, state, hdrsent, files, forms, tx, txleft, fileleft, formleft, queued, lost, sel_send, room, wire>>
  BY <1>1 DEF VisitContent, reply, history, Call
<1>3. BlocksOK' /\ TextOK' /\ WireOK' /\ OwnFormKept'
  BY <1>2, StillText
<1>4. files # <<>> /\ files \in Seq(OpenFile) /\ stack = <<>>
  BY <1>2 DEF IInv, CallsOK, Types
<1>5. Len(files) \in Nat \ {0}
  BY <1>4, EmptySeq
<1>6. x \in Activation /\ x.fi = Len(files) /\ x.at = "read"
  BY <1>1, <1>5 DEF Activation
<1>7. stack' \in Seq(Activation) /\ Len(stack') = 1 /\ stack' # <<>> /\ stack'[1] = x
  <2>1. <<>> \in Seq(Activation) /\ Len(<<>>) = 0
    BY EmptySeq
  <2>2. Len(stack') = 0 + 1 /\ stack' \in Seq(Activation) /\ stack' # <<>> /\ stack'[1] = x
    BY <1>2, <1>6, <2>1, InFront
  <2>3. QED
    BY <2>2
<1>8. Types'
  BY <1>2, <1>7 DEF Types, IInv
<1>9. CallsOK'
  <2>1. \A i \in 1 .. Len(stack') : i = 1
    BY <1>7
  <2>2. \A i \in 1 .. Len(stack') : stack'[i].fi # 0 /\ (i # 1 => stack'[i].at = "ssi")
    BY <1>5, <1>6, <1>7, <2>1
  <2>3. \A i, j \in 1 .. Len(stack') : ~(i < j)
    BY <1>7
  <2>4. stack'[1].fi <= Len(files') /\ stack'[1].fi = Len(files') /\ stack'[1].at = "read"
    BY <1>2, <1>5, <1>6, <1>7
  <2>5. QED
    BY <1>2, <1>4, <1>7, <2>2, <2>3, <2>4 DEF CallsOK
<1>10. CutOK'
  BY <1>2, <1>6, <1>7 DEF CutOK, IInv
<1>11. BinaryOK'
  <2>1. SUFFICES ASSUME req'.binary
                 PROVE  BinaryOK'
    BY DEF BinaryOK
  <2>2. /\ "tx" \notin lost /\ tx = <<>> /\ queued = <<>> /\ Len(files) = 1 /\ files[1].name = "page"
        /\ files[1].pos = 0 /\ files[1].inbuf = 0 /\ ~hdrsent
    BY <1>2, <2>1 DEF BinaryOK, IInv, WireOK
  <2>3. Len(stack') <= 1 /\ stack'[1].at = "read"
    BY <1>6, <1>7
  <2>4. QED
    BY <1>2, <2>2, <2>3 DEF BinaryOK
<1>12. QED
  BY <1>3, <1>8, <1>9, <1>10, <1>11 DEF IInv

LEMMA VisitSendDataStep ==
    ASSUME IInv, VisitSendData
    PROVE  IInv'
<1>1. /\ pc = "visit" /\ state = "SENDDATA" /\ pc' \in {"sockwrite", "poll"} /\ caller' \in {"send", caller}
      /\ UNCHANGED <<req, state, hdrsent, files, forms, tx, txleft, fileleft, formleft, stack, wire, queued, lost, sel_send, room>>
  BY DEF VisitSendData, Still, reply, history
<1>2. BlocksOK' /\ TextOK' /\ WireOK' /\ OwnFormKept'
  BY <1>1, StillText
<1>3. Types'
  BY <1>1 DEF Types, IInv
<1>4. stack' = <<>> /\ Len(stack') = 0 /\ \A i \in 1 .. Len(stack') : FALSE
  BY <1>1 DEF CallsOK, IInv
<1>5. Unwinding(2)' /\ ~(Len(stack') > 1)
  BY <1>4 DEF Unwinding
<1>6. CallsOK'
  BY <1>1, <1>4, <1>5 DEF CallsOK
<1>7. CutOK'
  BY <1>1 DEF CutOK, IInv
<1>8. BinaryOK'
  BY <1>1 DEF BinaryOK, IInv, Moved
<1>9. QED
  BY <1>2, <1>3, <1>6, <1>7, <1>8 DEF IInv

LEMMA DrainStep ==
    ASSUME IInv, Drain
    PROVE  IInv'
<1>1. /\ room' = ROOM
      /\ UNCHANGED <<req, state, hdrsent, files, forms, tx, txleft, fileleft, formleft, stack, wire, queued, lost, sel_send, pc, caller>>
  BY DEF Drain, Still, reply, history
<1>2. BlocksOK' /\ TextOK' /\ WireOK' /\ OwnFormKept'
  BY <1>1, StillText
<1>3. room' \in 0 .. ROOM
  BY <1>1, SizesAssumption
<1>4. Types'
  BY <1>1, <1>3 DEF Types, IInv
<1>5. CallsOK'
  BY <1>1 DEF CallsOK, IInv, Unwinding
<1>6. CutOK'
  BY <1>1 DEF CutOK, IInv, Unwinding
<1>7. BinaryOK'
  BY <1>1 DEF BinaryOK, IInv, Moved
<1>8. QED
  BY <1>2, <1>4, <1>5, <1>6, <1>7 DEF IInv

LEMMA OthersStep ==
    ASSUME IInv, Others
    PROVE  IInv'
<1>1. /\ txleft' \in {s.tx : s \in Shares}
      /\ UNCHANGED <<req, state, hdrsent, files, forms, tx, fileleft, formleft, stack, pc, caller, sel_send, room, wire, queued, lost>>
  BY DEF Others, history
<1>2. BlocksOK' /\ TextOK' /\ WireOK' /\ OwnFormKept'
  BY <1>1, StillText
<1>3. txleft' \in Nat
  BY <1>1, RequestAssumption DEF Share
<1>4. Types'
  BY <1>1, <1>3 DEF Types, IInv
<1>5. CallsOK'
  BY <1>1 DEF CallsOK, IInv, Unwinding
<1>6. CutOK'
  BY <1>1 DEF CutOK, IInv, Unwinding
<1>7. BinaryOK'
  BY <1>1 DEF BinaryOK, IInv, Moved
<1>8. QED
  BY <1>2, <1>4, <1>5, <1>6, <1>7 DEF IInv

LEMMA StutterStep ==
    ASSUME IInv, UNCHANGED vars
    PROVE  IInv'
<1>1. UNCHANGED <<req, state, hdrsent, files, forms, tx, txleft, fileleft, formleft, stack, pc, caller, sel_send, room, wire, queued, lost>>
  BY DEF vars
<1>2. BlocksOK' /\ TextOK' /\ WireOK' /\ OwnFormKept'
  BY <1>1, StillText
<1>3. Types'
  BY <1>1 DEF Types, IInv
<1>4. CallsOK'
  BY <1>1 DEF CallsOK, IInv, Unwinding
<1>5. CutOK'
  BY <1>1 DEF CutOK, IInv, Unwinding
<1>6. BinaryOK'
  BY <1>1 DEF BinaryOK, IInv, Moved
<1>7. QED
  BY <1>2, <1>3, <1>4, <1>5, <1>6 DEF IInv

LEMMA StartsReply == Init => IInv
<1>1. SUFFICES ASSUME Init
               PROVE  IInv
  OBVIOUS
<1>2. PICK f, x : f = Newly("page") /\ x = [fi |-> 1, at |-> "read", len |-> 0]
  OBVIOUS
<1>3. /\ req \in Requests /\ req \in Request /\ state = "CONTENT" /\ ~hdrsent /\ hdrsent = FALSE /\ files = <<f>>
      /\ forms = (IF req.form THEN <<"own">> ELSE <<>>)
      /\ tx = <<>> /\ queued = <<>> /\ wire = <<>> /\ lost = {}
      /\ stack = (IF req.cmd = "GET" THEN <<x>> \o <<>> ELSE <<>>)
      /\ pc = (IF req.cmd = "GET" THEN "readfile" ELSE "visit") /\ caller = "header"
      /\ sel_send = (req.cmd = "POST" /\ req.binary) /\ room = req.room
  BY <1>1, <1>2, RequestAssumption DEF Init, Call
<1>4. txleft \in Nat /\ fileleft \in Nat /\ formleft \in Nat
  BY <1>1, RequestAssumption DEF Init, Share
<1>5. f \in OpenFile /\ f.name = "page" /\ f.pos = 0 /\ f.inbuf = 0
  BY <1>2, SizesAssumption DEF Newly, OpenFile
<1>6. files \in Seq(OpenFile) /\ Len(files) = 1 /\ files[1] = f /\ files # <<>>
  BY <1>3, <1>5, EmptySeq
<1>7. room \in 0 .. ROOM
  <2>1. req.room \in 1 .. ROOM
    BY <1>3 DEF Request
  <2>2. QED
    BY <1>3, <2>1, SizesAssumption
<1>8. x \in Activation /\ x.fi = 1 /\ x.at = "read"
  BY <1>2 DEF Activation
<1>9. <<>> \in Seq(Activation) /\ Len(<<>>) = 0 /\ <<>> \in Seq(Sent) /\ <<>> \in Seq(Seq(Sent))
  BY EmptySeq
<1>10. /\ stack \in Seq(Activation) /\ Len(stack) <= 1
       /\ req.cmd = "GET" => stack # <<>> /\ Len(stack) = 1 /\ stack[1] = x
       /\ req.cmd # "GET" => stack = <<>> /\ Len(stack) = 0
  <2>1. CASE req.cmd = "GET"
    <3>1. stack = <<x>> \o <<>>
      BY <1>3, <2>1
    <3>2. stack \in Seq(Activation) /\ Len(stack) = 0 + 1 /\ stack # <<>> /\ stack[1] = x
      BY <1>8, <1>9, <3>1, InFront
    <3>3. QED
      BY <2>1, <3>2
  <2>2. CASE req.cmd # "GET"
    <3>1. stack = <<>>
      BY <1>3, <2>2
    <3>2. QED
      BY <1>9, <2>2, <3>1
  <2>3. QED
    BY <2>1, <2>2
<1>11. forms \in Seq({"own", "include"}) /\ (req.form => forms # <<>> /\ Last(forms) = "own")
  <2>1. <<"own">> \in Seq({"own", "include"}) /\ Len(<<"own">>) = 1 /\ <<"own">>[1] = "own" /\ <<>> \in Seq({"own", "include"})
    BY EmptySeq
  <2>2. <<"own">> # <<>>
    OBVIOUS
  <2>3. Last(<<"own">>) = "own"
    BY <2>1 DEF Last
  <2>4. QED
    BY <1>3, <2>1, <2>2, <2>3
<1>12. Types
  BY <1>3, <1>4, <1>6, <1>7, <1>9, <1>10, <1>11 DEF Types
<1>13. BlocksOK
  <2>1. "page" \in Name \cup {"page"}
    OBVIOUS
  <2>2. Len(TextOf("page")) \in Nat
    BY <1>12, <2>1, TextIs
  <2>3. Block(f)
    BY <1>5, <2>2 DEF Block
  <2>4. \A i \in 1 .. Len(files) : i = 1
    BY <1>6
  <2>5. \A i \in 2 .. Len(files) : FALSE
    BY <1>6
  <2>6. QED
    BY <1>6, <2>3, <2>4, <2>5 DEF BlocksOK
<1>14. CallsOK
  <2>1. CASE req.cmd = "GET"
    <3>1. \A i \in 1 .. Len(stack) : i = 1 /\ stack[i].fi # 0
      BY <1>8, <1>10, <2>1
    <3>2. \A i, j \in 1 .. Len(stack) : ~(i < j)
      BY <1>10, <2>1
    <3>3. stack[1].fi <= Len(files) /\ stack[1].fi = Len(files) /\ stack[1].at = "read"
      BY <1>6, <1>8, <1>10, <2>1
    <3>4. pc = "readfile"
      BY <1>3, <2>1
    <3>5. QED
      BY <1>3, <1>6, <1>10, <2>1, <3>1, <3>2, <3>3, <3>4 DEF CallsOK
  <2>2. CASE req.cmd # "GET"
    <3>1. \A i \in 1 .. Len(stack) : FALSE
      BY <1>10, <2>2
    <3>2. pc = "visit"
      BY <1>3, <2>2
    <3>3. QED
      BY <1>3, <1>6, <1>10, <2>2, <3>1, <3>2 DEF CallsOK
  <2>3. QED
    BY <2>1, <2>2
<1>15. CutOK
  BY <1>3 DEF CutOK
<1>16. TextOK
  BY <1>3, FlatEmpty DEF TextOK
<1>17. BinaryOK
  <2>1. pc = "readfile" => stack[1].at = "read"
    BY <1>3, <1>8, <1>10
  <2>2. pc # "movebinary"
    BY <1>3
  <2>3. QED
    BY <1>3, <1>5, <1>6, <1>10, <2>1, <2>2 DEF BinaryOK
<1>18. WireOK /\ OwnFormKept
  BY <1>3, <1>11 DEF WireOK, OwnFormKept
<1>19. QED
  BY <1>12, <1>13, <1>14, <1>15, <1>16, <1>17, <1>18 DEF IInv

LEMMA NextReply == IInv /\ [Next]_vars => IInv'
<1>1. SUFFICES ASSUME IInv, [Next]_vars
               PROVE  IInv'
  OBVIOUS
<1>2. CASE ReadMore
  BY <1>1, <1>2, ReadMoreStep
<1>3. CASE CopyText
  BY <1>1, <1>3, CopyTextStep
<1>4. CASE AfterDirective
  BY <1>1, <1>4, AfterDirectiveStep
<1>5. CASE IncludeReturns
  BY <1>1, <1>5, IncludeReturnsStep
<1>6. CASE BlockDone
  BY <1>1, <1>6, BlockDoneStep
<1>7. CASE Exec
  BY <1>1, <1>7, ExecStep
<1>8. CASE IncludeFails
  BY <1>1, <1>8, IncludeFailsStep
<1>9. CASE IncludeFile
  BY <1>1, <1>9, IncludeFileStep
<1>10. CASE IncludeRoutine
  BY <1>1, <1>10, IncludeRoutineStep
<1>11. CASE IncludeFaults
  BY <1>1, <1>11, IncludeFaultsStep
<1>12. CASE SendTextHeader
  BY <1>1, <1>12, SendTextHeaderStep
<1>13. CASE SendTxbuf
  BY <1>1, <1>13, SendTxbufStep
<1>14. CASE TextSent
  BY <1>1, <1>14, TextSentStep
<1>15. CASE MoveHeader
  BY <1>1, <1>15, MoveHeaderStep
<1>16. CASE MoveBlock
  BY <1>1, <1>16, MoveBlockStep
<1>17. CASE Poll
  BY <1>1, <1>17, PollStep
<1>18. CASE VisitContent
  BY <1>1, <1>18, VisitContentStep
<1>19. CASE VisitSendData
  BY <1>1, <1>19, VisitSendDataStep
<1>20. CASE Drain
  BY <1>1, <1>20, DrainStep
<1>21. CASE Others
  BY <1>1, <1>21, OthersStep
<1>22. CASE UNCHANGED vars
  BY <1>1, <1>22, StutterStep
<1>23. QED
  BY <1>1, <1>2, <1>3, <1>4, <1>5, <1>6, <1>7, <1>8, <1>9, <1>10, <1>11, <1>12, <1>13, <1>14, <1>15, <1>16,
     <1>17, <1>18, <1>19, <1>20, <1>21, <1>22 DEF Next, Server, Read, Include, Write

LEMMA ReplyInv == Spec => []IInv
<1>1. Init => IInv
  BY StartsReply
<1>2. IInv /\ [Next]_vars => IInv'
  BY NextReply
<1>3. QED
  BY <1>1, <1>2, PTL DEF Spec

----------------------------------------------------------------------------
(* What the invariant says *)

LEMMA TypesFollow == IInv => TypeOK
<1>1. SUFFICES ASSUME IInv
               PROVE  TypeOK
  OBVIOUS
<1>2. ASSUME pc = "readfile", NEW i \in DOMAIN stack
      PROVE  stack[i].fi \in 1 .. Len(files)
  <2>1. stack \in Seq(Activation) /\ files \in Seq(OpenFile)
    BY <1>1 DEF IInv, Types
  <2>2. i \in 1 .. Len(stack) /\ Len(stack) \in Nat /\ Len(files) \in Nat
    BY <1>2, <2>1, LenProperties
  <2>3. stack[i].fi \in Nat /\ stack[1].fi \in Nat
    <3>1. 1 \in 1 .. Len(stack)
      BY <2>2
    <3>2. QED
      BY <2>1, <2>2, <3>1, CallFiles
  <2>4. stack[i].fi # 0 /\ stack[1].fi <= Len(files)
    BY <1>1, <1>2, <2>2 DEF IInv, CallsOK
  <2>5. i # 1 => stack[i].fi < stack[1].fi
    <3>1. i # 1 => 1 \in 1 .. Len(stack) /\ 1 < i
      BY <2>2
    <3>2. QED
      BY <1>1, <2>2, <3>1 DEF IInv, CallsOK
  <2>6. QED
    BY <2>2, <2>3, <2>4, <2>5
<1>3. QED
  BY <1>1, <1>2 DEF TypeOK, IInv, Types

\* The shape of the state in every reachable state, for every page, buffer size and
\* share of the tables: no block outgrows wf_data, no table gives more than it had, and
\* every call of wi_readfile under way works on a file that is open (webio.c:624).
THEOREM TypeCorrect == Spec => []TypeOK
BY ReplyInv, TypesFollow, PTL

\* Whatever forms includes layer on a request's own form and release again, its own one
\* is there, and last, as long as the session is (webutils.c:637).
THEOREM OwnFormSafe == Spec => []OwnFormKept
<1>1. IInv => OwnFormKept
  BY DEF IInv
<1>2. QED
  BY <1>1, ReplyInv, PTL

\* No step puts text into the txbufs once one was missing, though wi_readfile is called
\* again for the page whose copy was cut short (webio.c:200, webio.c:700).
THEOREM CutStays == Spec => NothingAfterCut
<1>1. IInv /\ [Next]_vars => ("tx" \in lost => queued' = queued)
  <2>1. SUFFICES ASSUME IInv, [Next]_vars, "tx" \in lost
                 PROVE  queued' = queued
    OBVIOUS
  <2>2. CASE CopyText
    <3>1. Working /\ Head(stack).at # "read"
      BY <2>1, <2>2, Works DEF CopyText, Reading
    <3>2. QED
      BY <2>1, <3>1 DEF Working
  <2>3. CASE AfterDirective
    <3>1. Working /\ Head(stack).at # "read"
      BY <2>1, <2>3, Works DEF AfterDirective, Reading
    <3>2. QED
      BY <2>1, <3>1 DEF Working
  <2>4. CASE IncludeRoutine
    <3>1. InDirective
      BY <2>4 DEF IncludeRoutine
    <3>2. QED
      BY <2>1, <3>1, InDirectiveIs
  <2>5. CASE ReadMore \/ IncludeReturns \/ BlockDone
    BY <2>5 DEF ReadMore, IncludeReturns, BlockDone, history
  <2>6. CASE Exec \/ IncludeFails \/ IncludeFile \/ IncludeFaults
    BY <2>6 DEF Exec, IncludeFails, IncludeFile, IncludeFaults, history
  <2>7. CASE Write
    BY <2>7 DEF Write, SendTextHeader, SendTxbuf, TextSent, MoveHeader, MoveBlock, NoRead
  <2>8. CASE Poll \/ VisitContent \/ VisitSendData \/ Drain \/ Others
    BY <2>8 DEF Poll, VisitContent, VisitSendData, Drain, Others, Still, history
  <2>9. CASE UNCHANGED vars
    BY <2>9 DEF vars
  <2>10. QED
    BY <2>1, <2>2, <2>3, <2>4, <2>5, <2>6, <2>7, <2>8, <2>9 DEF Next, Server, Read, Include
<1>2. QED
  BY <1>1, ReplyInv, PTL DEF Spec, NothingAfterCut

LEMMA RepliesFollow == IInv => RepliesWhole
<1>1. SUFFICES ASSUME IInv, state = "ENDING", hdrsent, "send" \notin lost
               PROVE  wire = Header(Len(Content)) \o Content
  BY DEF RepliesWhole
<1>2. wire \in Seq(Sent)
  BY <1>1 DEF IInv, Types
<1>3. CASE ~req.binary
  <2>1. tx = <<>> /\ wire \o FlattenSeq(tx) = Header(Len(queued)) \o queued
    BY <1>1, <1>3 DEF IInv, TextOK
  <2>2. FlattenSeq(tx) = <<>>
    BY <2>1, FlatEmpty
  <2>3. wire \o <<>> = wire
    BY <1>2, ConcatEmptySeq
  <2>4. Content = queued
    BY <1>3 DEF Content
  <2>5. QED
    BY <2>1, <2>2, <2>3, <2>4
<1>4. CASE req.binary
  <2>1. wire = Header(Len(req.page)) \o Moved(Len(req.page))
    BY <1>1, <1>4 DEF IInv, BinaryOK
  <2>2. req.page \in Seq(Unit)
    <3>1. "page" \in Name \cup {"page"}
      OBVIOUS
    <3>2. QED
      BY <1>1, <3>1, TextIs DEF IInv
  <2>3. Len(req.page) \in Nat /\ DOMAIN req.page = 1 .. Len(req.page)
    BY <2>2, LenProperties
  <2>4. Content = Moved(Len(req.page))
    BY <1>4, <2>3 DEF Content, Moved
  <2>5. PICK l : l = Len(req.page)
    OBVIOUS
  <2>6. Moved(l) = PagePart(0, l) /\ Len(PagePart(0, l)) = l
    <3>1. \A i \in 1 .. l : 0 + i = i
      OBVIOUS
    <3>2. 0 \in Nat /\ l \in Nat
      BY <2>3, <2>5
    <3>3. QED
      BY <3>1, <3>2, PagePartIs DEF PagePart, Moved
  <2>7. Len(Content) = Len(req.page)
    BY <2>4, <2>5, <2>6
  <2>8. QED
    BY <2>1, <2>4, <2>7
<1>5. QED
  BY <1>3, <1>4

\* Of every request: when no send was cut short, a client that was sent a header has the
\* header with the length of its content, and then that content, in order and whole, by
\* the time the session ends, through includes, cuts for want of txbufs and any number
\* of visits (webio.c:779, webutils.c:113, webutils.c:153).
THEOREM RepliesComplete == Spec => []RepliesWhole
BY ReplyInv, RepliesFollow, PTL

----------------------------------------------------------------------------
(* Texts within texts *)

\* Behind n units of s, the k-th unit of t may be the next one of s.
OneOn(s, t, k, n) == IF n < Len(s) /\ s[n + 1] = t[k] THEN n + 1 ELSE n

\* f[k] is how much of s is in the first k units of t.
Finds(s, t, f) == f = [k \in 0 .. Len(t) |-> IF k = 0 THEN 0 ELSE OneOn(s, t, k, f[k - 1])]
Finding(s, t)  == CHOOSE f : Finds(s, t, f)

LEMMA WithinIs == \A s, t : Within(s, t) <=> Finding(s, t)[Len(t)] = Len(s)
BY Zenon DEF Within, Finding, Finds, OneOn

LEMMA FindsExists ==
    ASSUME NEW s, NEW t, Len(t) \in Nat
    PROVE  Finds(s, t, Finding(s, t))
<1> DEFINE Part(n, f) == f = [k \in 0 .. n |-> IF k = 0 THEN 0 ELSE OneOn(s, t, k, f[k - 1])]
           G == {n \in 0 .. Len(t) : \E f : Part(n, f)}
<1>1. 0 \in G
  <2> DEFINE g == [k \in 0 .. 0 |-> 0]
  <2>1. g = [k \in 0 .. 0 |-> IF k = 0 THEN 0 ELSE OneOn(s, t, k, g[k - 1])]
    <3>1. \A k \in 0 .. 0 : k = 0
      OBVIOUS
    <3>2. QED
      BY <3>1
  <2> HIDE DEF g
  <2>2. \E f : Part(0, f)
    BY <2>1
  <2>3. 0 \in 0 .. Len(t)
    OBVIOUS
  <2>4. QED
    BY <2>2, <2>3
<1>2. ASSUME NEW n \in 1 .. Len(t), n - 1 \in G
      PROVE  n \in G
  <2>1. PICK f : Part(n - 1, f)
    BY <1>2
  <2> DEFINE g == [k \in 0 .. n |-> IF k = n THEN OneOn(s, t, n, f[n - 1]) ELSE f[k]]
  <2>2. /\ n \in Nat /\ n # 0 /\ n \in 0 .. Len(t) /\ n - 1 \in 0 .. n /\ n - 1 # n /\ n \in 0 .. n
        /\ \A k \in 0 .. n : k # n => k \in 0 .. n - 1 /\ (k # 0 => k - 1 \in 0 .. n /\ k - 1 # n)
    BY <1>2
  <2>3. \A k \in 0 .. n - 1 : f[k] = IF k = 0 THEN 0 ELSE OneOn(s, t, k, f[k - 1])
    BY <2>1
  <2>4. ASSUME NEW k \in 0 .. n
        PROVE  g[k] = IF k = 0 THEN 0 ELSE OneOn(s, t, k, g[k - 1])
    <3>1. CASE k = n
      <4>1. g[k] = OneOn(s, t, n, f[n - 1]) /\ g[n - 1] = f[n - 1]
        BY <2>2, <3>1
      <4> HIDE DEF g
      <4>2. QED
        BY <2>2, <3>1, <4>1
    <3>2. CASE k # n
      <4>1. g[k] = f[k] /\ (k # 0 => g[k - 1] = f[k - 1])
        BY <2>2, <3>2
      <4> HIDE DEF g
      <4>2. f[k] = IF k = 0 THEN 0 ELSE OneOn(s, t, k, f[k - 1])
        BY <2>2, <2>3, <3>2
      <4>3. QED
        BY <4>1, <4>2
    <3>3. QED
      BY <3>1, <3>2
  <2>5. g = [k \in 0 .. n |-> g[k]]
    OBVIOUS
  <2> HIDE DEF g
  <2>6. Part(n, g)
    BY <2>4, <2>5
  <2>7. QED
    BY <2>2, <2>6
<1>3. Len(t) \in G
  <2> HIDE DEF G
  <2>1. \A k \in 0 .. Len(t) : k \in G
    BY <1>1, <1>2, Upwards
  <2>2. QED
    BY <2>1
<1>4. \E f : Finds(s, t, f)
  BY <1>3 DEF Finds
<1>5. QED
  BY <1>4 DEF Finding

Found(s, t, f) ==
    /\ Within(s, t) <=> f[Len(t)] = Len(s)
    /\ f[0] = 0
    /\ \A k \in 0 .. Len(t) : f[k] \in 0 .. Len(s)
    /\ \A k \in 1 .. Len(t) : k - 1 \in 0 .. Len(t) /\ f[k] = OneOn(s, t, k, f[k - 1])

LEMMA FindingIs ==
    ASSUME NEW S, NEW s \in Seq(S), NEW t \in Seq(S)
    PROVE  \E f : Found(s, t, f)
<1>1. Len(s) \in Nat /\ Len(t) \in Nat
  BY LenProperties
<1>2. PICK f : f = Finding(s, t)
  OBVIOUS
<1>3. Within(s, t) <=> f[Len(t)] = Len(s)
  BY <1>2, WithinIs, Zenon
<1>4. f = [k \in 0 .. Len(t) |-> IF k = 0 THEN 0 ELSE OneOn(s, t, k, f[k - 1])]
  BY <1>1, <1>2, FindsExists DEF Finds
<1>5. f[0] = 0 /\ \A k \in 0 .. Len(t) : k # 0 => f[k] = OneOn(s, t, k, f[k - 1])
  <2>1. 0 \in 0 .. Len(t)
    BY <1>1
  <2>2. QED
    BY <1>4, <2>1
<1>6. \A k \in 1 .. Len(t) : k \in 0 .. Len(t) /\ k # 0 /\ k - 1 \in 0 .. Len(t)
  BY <1>1
<1>7. \A k \in 1 .. Len(t) : f[k] = OneOn(s, t, k, f[k - 1])
  BY <1>5, <1>6
<1> DEFINE G == {k \in 0 .. Len(t) : f[k] \in 0 .. Len(s)}
<1>8. 0 \in G
  BY <1>1, <1>5
<1>9. ASSUME NEW k \in 1 .. Len(t), k - 1 \in G
      PROVE  k \in G
  <2>1. PICK n : n = f[k - 1]
    OBVIOUS
  <2>2. n \in 0 .. Len(s) /\ f[k] = OneOn(s, t, k, n)
    BY <1>7, <1>9, <2>1
  <2>3. n < Len(s) => n + 1 \in 0 .. Len(s)
    BY <1>1, <2>2
  <2>4. f[k] \in 0 .. Len(s)
    BY <2>2, <2>3 DEF OneOn
  <2>5. QED
    BY <1>6, <2>4
<1>10. \A k \in 0 .. Len(t) : f[k] \in 0 .. Len(s)
  <2>1. \A k \in 0 .. Len(t) : k \in G
    <3> HIDE DEF G
    <3>1. QED
      BY <1>1, <1>8, <1>9, Upwards
  <2>2. QED
    BY <2>1
<1>11. QED
  BY <1>3, <1>5, <1>6, <1>7, <1>10 DEF Found
\* What is in a text stays in it when more text follows.
LEMMA WithinMore ==
    ASSUME NEW S, NEW s \in Seq(S), NEW t \in Seq(S), NEW u \in Seq(S), Within(s, t)
    PROVE  Within(s, t \o u)
<1>1. PICK v : v = t \o u
  OBVIOUS
<1>2. /\ v \in Seq(S) /\ Len(v) = Len(t) + Len(u) /\ Len(s) \in Nat /\ Len(t) \in Nat /\ Len(u) \in Nat
      /\ \A i \in 1 .. Len(t) + Len(u) : v[i] = IF i <= Len(t) THEN t[i] ELSE u[i - Len(t)]
  BY <1>1, ConcatProperties, LenProperties
<1> PICK f : Found(s, t, f)
  BY FindingIs
<1>3. /\ f[Len(t)] = Len(s) /\ f[0] = 0
      /\ \A k \in 1 .. Len(t) : k - 1 \in 0 .. Len(t) /\ f[k] = OneOn(s, t, k, f[k - 1])
  BY DEF Found
<1> PICK g : Found(s, v, g)
  BY <1>2, FindingIs
<1>4. /\ Within(s, v) <=> g[Len(v)] = Len(s)
      /\ g[0] = 0
      /\ \A k \in 0 .. Len(v) : g[k] \in 0 .. Len(s)
      /\ \A k \in 1 .. Len(v) : k - 1 \in 0 .. Len(v) /\ g[k] = OneOn(s, v, k, g[k - 1])
  BY DEF Found
<1> DEFINE G == {k \in 0 .. Len(t) : g[k] = f[k]}
           H == {j \in 0 .. Len(u) : g[Len(t) + j] = Len(s)}
<1>5. 0 \in G
  BY <1>2, <1>3, <1>4
<1>6. ASSUME NEW k \in 1 .. Len(t), k - 1 \in G
      PROVE  k \in G
  <2>1. g[k - 1] = f[k - 1]
    BY <1>6
  <2>2. k \in 1 .. Len(v) /\ k \in 1 .. Len(t) + Len(u) /\ k <= Len(t) /\ k \in 0 .. Len(t)
    BY <1>2
  <2>3. v[k] = t[k]
    BY <1>2, <2>2
  <2>4. g[k] = OneOn(s, v, k, g[k - 1]) /\ f[k] = OneOn(s, t, k, f[k - 1])
    BY <1>3, <1>4, <2>2
  <2>5. g[k] = f[k]
    BY <2>1, <2>3, <2>4 DEF OneOn
  <2>6. QED
    BY <2>2, <2>5
<1>7. g[Len(t)] = Len(s)
  <2>1. \A k \in 0 .. Len(t) : k \in G
    <3> HIDE DEF G
    <3>1. QED
      BY <1>2, <1>5, <1>6, Upwards
  <2>2. Len(t) \in G
    <3>1. Len(t) \in 0 .. Len(t)
      BY <1>2
    <3>2. QED
      BY <2>1, <3>1
  <2>3. QED
    BY <1>3, <2>2
<1>8. 0 \in H
  <2>1. Len(t) + 0 = Len(t) /\ 0 \in 0 .. Len(u)
    BY <1>2
  <2>2. QED
    BY <1>7, <2>1
<1>9. ASSUME NEW j \in 1 .. Len(u), j - 1 \in H
      PROVE  j \in H
  <2>1. PICK k : k = Len(t) + j
    OBVIOUS
  <2>2. k \in 1 .. Len(v) /\ Len(t) + (j - 1) = k - 1 /\ j \in 0 .. Len(u)
    BY <1>2, <2>1
  <2>3. g[k - 1] = Len(s)
    <3>1. g[Len(t) + (j - 1)] = Len(s)
      BY <1>9
    <3>2. QED
      BY <2>2, <3>1
  <2>4. g[k] = OneOn(s, v, k, Len(s))
    BY <1>4, <2>2, <2>3
  <2>5. ~(Len(s) < Len(s))
    BY <1>2
  <2>6. g[k] = Len(s)
    BY <2>4, <2>5 DEF OneOn
  <2>7. QED
    BY <2>1, <2>2, <2>6
<1>10. g[Len(t) + Len(u)] = Len(s)
  <2>1. \A j \in 0 .. Len(u) : j \in H
    <3> HIDE DEF H
    <3>1. QED
      BY <1>2, <1>8, <1>9, Upwards
  <2>2. Len(u) \in H
    <3>1. Len(u) \in 0 .. Len(u)
      BY <1>2
    <3>2. QED
      BY <2>1, <3>1
  <2>3. QED
    BY <2>2
<1>11. QED
  BY <1>1, <1>2, <1>4, <1>10

\* What follows both texts is found behind what was.
LEMMA WithinBoth ==
    ASSUME NEW S, NEW s \in Seq(S), NEW t \in Seq(S), NEW u \in Seq(S), Within(s, t)
    PROVE  Within(s \o u, t \o u)
<1>1. PICK v, r : v = t \o u /\ r = s \o u
  OBVIOUS
<1>2. /\ v \in Seq(S) /\ Len(v) = Len(t) + Len(u) /\ Len(s) \in Nat /\ Len(t) \in Nat /\ Len(u) \in Nat
      /\ \A i \in 1 .. Len(t) + Len(u) : v[i] = IF i <= Len(t) THEN t[i] ELSE u[i - Len(t)]
      /\ r \in Seq(S) /\ Len(r) = Len(s) + Len(u)
      /\ \A i \in 1 .. Len(s) + Len(u) : r[i] = IF i <= Len(s) THEN s[i] ELSE u[i - Len(s)]
  BY <1>1, ConcatProperties, LenProperties
<1> PICK f : Found(s, t, f)
  BY FindingIs
<1>3. /\ f[Len(t)] = Len(s) /\ f[0] = 0
      /\ \A k \in 0 .. Len(t) : f[k] \in 0 .. Len(s)
      /\ \A k \in 1 .. Len(t) : k - 1 \in 0 .. Len(t) /\ f[k] = OneOn(s, t, k, f[k - 1])
  BY DEF Found
<1> PICK g : Found(r, v, g)
  BY <1>2, FindingIs
<1>4. /\ Within(r, v) <=> g[Len(v)] = Len(r)
      /\ g[0] = 0
      /\ \A k \in 0 .. Len(v) : g[k] \in 0 .. Len(r)
      /\ \A k \in 1 .. Len(v) : k - 1 \in 0 .. Len(v) /\ g[k] = OneOn(r, v, k, g[k - 1])
  BY DEF Found
<1> DEFINE G == {k \in 0 .. Len(t) : f[k] <= g[k]}
           H == {j \in 0 .. Len(u) : Len(s) + j <= g[Len(t) + j]}
<1>5. 0 \in G
  BY <1>2, <1>3, <1>4
<1>6. ASSUME NEW k \in 1 .. Len(t), k - 1 \in G
      PROVE  k \in G
  <2>1. PICK a, b : a = f[k - 1] /\ b = g[k - 1]
    OBVIOUS
  <2>2. k \in 1 .. Len(v) /\ k \in 1 .. Len(t) + Len(u) /\ k <= Len(t) /\ k \in 0 .. Len(t)
    BY <1>2
  <2>3. v[k] = t[k] /\ k - 1 \in 0 .. Len(t) /\ k - 1 \in 0 .. Len(v)
    BY <1>2, <1>3, <1>4, <2>2
  <2>4. a <= b /\ a \in 0 .. Len(s) /\ b \in 0 .. Len(r)
    BY <1>3, <1>4, <1>6, <2>1, <2>3
  <2>5. g[k] = OneOn(r, v, k, b) /\ f[k] = OneOn(s, t, k, a)
    BY <1>3, <1>4, <2>1, <2>2
  <2>6. CASE a < b
    <3>1. f[k] <= a + 1 /\ b <= g[k]
      BY <2>4, <2>5 DEF OneOn
    <3>2. f[k] \in Nat /\ g[k] \in Nat /\ a \in Nat /\ b \in Nat
      BY <1>2, <1>3, <1>4, <2>2, <2>4
    <3>3. QED
      BY <2>2, <2>6, <3>1, <3>2
  <2>7. CASE a = b
    <3>1. CASE a < Len(s) /\ s[a + 1] = t[k]
      <4>1. a + 1 \in 1 .. Len(s) + Len(u) /\ a + 1 <= Len(s) /\ a < Len(r)
        BY <1>2, <2>4, <3>1
      <4>2. r[a + 1] = s[a + 1]
        BY <1>2, <4>1
      <4>3. g[k] = a + 1 /\ f[k] = a + 1
        BY <2>3, <2>5, <2>7, <3>1, <4>1, <4>2 DEF OneOn
      <4>4. QED
        BY <2>2, <2>4, <4>3
    <3>2. CASE ~(a < Len(s) /\ s[a + 1] = t[k])
      <4>1. f[k] = a /\ g[k] \in {b, b + 1}
        BY <2>5, <3>2 DEF OneOn
      <4>2. QED
        BY <2>2, <2>4, <4>1
    <3>3. QED
      BY <3>1, <3>2
  <2>8. QED
    BY <1>2, <2>4, <2>6, <2>7
<1>7. Len(s) <= g[Len(t)]
  <2>1. \A k \in 0 .. Len(t) : k \in G
    <3> HIDE DEF G
    <3>1. QED
      BY <1>2, <1>5, <1>6, Upwards
  <2>2. Len(t) \in G
    <3>1. Len(t) \in 0 .. Len(t)
      BY <1>2
    <3>2. QED
      BY <2>1, <3>1
  <2>3. QED
    BY <1>3, <2>2
<1>8. 0 \in H
  <2>1. Len(t) + 0 = Len(t) /\ Len(s) + 0 = Len(s) /\ 0 \in 0 .. Len(u)
    BY <1>2
  <2>2. QED
    BY <1>7, <2>1
<1>9. ASSUME NEW j \in 1 .. Len(u), j - 1 \in H
      PROVE  j \in H
  <2>1. PICK k, b : k = Len(t) + j /\ b = g[k - 1]
    OBVIOUS
  <2>2. k \in 1 .. Len(v) /\ k \in 0 .. Len(v) /\ Len(t) + (j - 1) = k - 1 /\ j \in 0 .. Len(u)
        /\ k \in 1 .. Len(t) + Len(u) /\ ~(k <= Len(t)) /\ k - Len(t) = j /\ k - 1 \in 0 .. Len(v)
    BY <1>2, <2>1
  <2>3. Len(s) + (j - 1) <= b /\ b \in 0 .. Len(r)
    <3>1. Len(s) + (j - 1) <= g[Len(t) + (j - 1)]
      BY <1>9
    <3>2. QED
      BY <1>4, <2>1, <2>2, <3>1
  <2>4. g[k] = OneOn(r, v, k, b) /\ v[k] = u[j]
    BY <1>2, <1>4, <2>1, <2>2
  <2>5. CASE b = Len(s) + (j - 1)
    <3>1. b + 1 \in 1 .. Len(s) + Len(u) /\ ~(b + 1 <= Len(s)) /\ (b + 1) - Len(s) = j /\ b < Len(r)
      BY <1>2, <2>2, <2>5
    <3>2. r[b + 1] = u[j]
      BY <1>2, <3>1
    <3>3. g[k] = b + 1
      BY <2>4, <3>1, <3>2 DEF OneOn
    <3>4. Len(s) + j <= b + 1
      BY <1>2, <2>5
    <3>5. QED
      BY <2>1, <2>2, <3>3, <3>4
  <2>6. CASE b # Len(s) + (j - 1)
    <3>1. b <= g[k] /\ g[k] \in Nat
      BY <1>2, <1>4, <2>2, <2>3, <2>4 DEF OneOn
    <3>2. Len(s) + j <= b
      <4>1. \A l, c \in Int : l + (j - 1) <= c /\ c # l + (j - 1) => l + j <= c
        OBVIOUS
      <4>2. Len(s) \in Int /\ b \in Int
        BY <1>2, <2>3
      <4>3. QED
        BY <2>3, <2>6, <4>1, <4>2
    <3>3. Len(s) + j <= g[k]
      BY <1>2, <2>3, <3>1, <3>2
    <3>4. QED
      BY <2>1, <2>2, <3>3
  <2>7. QED
    BY <2>5, <2>6
<1>10. Len(s) + Len(u) <= g[Len(t) + Len(u)]
  <2>1. \A j \in 0 .. Len(u) : j \in H
    <3> HIDE DEF H
    <3>1. QED
      BY <1>2, <1>8, <1>9, Upwards
  <2>2. Len(u) \in H
    <3>1. Len(u) \in 0 .. Len(u)
      BY <1>2
    <3>2. QED
      BY <2>1, <3>1
  <2>3. QED
    BY <2>2
<1>11. g[Len(v)] = Len(r)
  <2>1. g[Len(v)] \in 0 .. Len(r)
    <3>1. Len(v) \in 0 .. Len(v)
      BY <1>2
    <3>2. QED
      BY <1>4, <3>1
  <2>2. Len(r) <= g[Len(v)]
    BY <1>2, <1>10
  <2>3. QED
    BY <1>2, <2>1, <2>2
<1>12. QED
  BY <1>1, <1>4, <1>11

\* Nothing is in every text.
LEMMA WithinNothing ==
    ASSUME NEW S, NEW t \in Seq(S)
    PROVE  Within(<<>>, t)
<1>1. <<>> \in Seq(S) /\ Len(<<>>) = 0 /\ Len(t) \in Nat
  BY LenProperties, EmptySeq
<1> PICK f : Found(<<>>, t, f)
  BY <1>1, FindingIs
<1>2. /\ Within(<<>>, t) <=> f[Len(t)] = Len(<<>>)
      /\ \A k \in 0 .. Len(t) : f[k] \in 0 .. Len(<<>>)
  BY DEF Found
<1>3. f[Len(t)] \in 0 .. 0
  BY <1>1, <1>2
<1>4. QED
  BY <1>1, <1>2, <1>3

----------------------------------------------------------------------------
(* The invariant of short sends *)

\* What short sends leave whole of a text: what is no longer in a txbuf is on the wire.
TextShort ==
    ~req.binary /\ state # "ENDING" =>
        \E q \in Seq(Sent) : queued = q \o FlattenSeq(tx) /\ Within(q, wire)

\* The units of the page on w are among its first m, and in order.
InOrder(w, m) ==
    /\ \A i \in 1 .. Len(w) : w[i][1] # "header" => \E p \in 1 .. m : w[i] = UnitName("page", p)
    /\ \A i, j \in 1 .. Len(w) :
          w[i][1] # "header" /\ w[j][1] # "header" /\ i < j => w[i][2] < w[j][2]

\* How far wi_movebinary is in the page.
MovedTo == IF state = "ENDING" THEN Len(req.page) ELSE files[1].pos - files[1].inbuf

PageShort == req.binary => InOrder(wire, MovedTo)

ShortInv == IInv /\ TextShort /\ PageShort

LEMMA NothingGone ==
    ASSUME Types, TextOK, ~hdrsent
    PROVE  TextShort
<1>1. PICK t : t = FlattenSeq(tx)
  OBVIOUS
<1>2. t \in Seq(Sent) /\ <<>> \in Seq(Sent) /\ Within(<<>>, wire)
  BY <1>1, FlatType, WithinNothing, EmptySeq DEF Types
<1>3. <<>> \o t = t
  BY <1>2, ConcatEmptySeq
<1>4. ~req.binary => queued = <<>> \o t
  BY <1>1, <1>3 DEF TextOK
<1>5. QED
  BY <1>1, <1>2, <1>4 DEF TextShort

LEMMA NothingGoneNext ==
    ASSUME IInv', ~hdrsent'
    PROVE  TextShort'
<1>1. Types' /\ TextOK'
  BY DEF IInv
<1>2. PICK t : t = FlattenSeq(tx)'
  OBVIOUS
<1>3. tx' \in Seq(Seq(Sent)) /\ wire' \in Seq(Sent)
  BY <1>1 DEF Types
<1>4. t \in Seq(Sent) /\ <<>> \in Seq(Sent) /\ Within(<<>>, wire')
  BY <1>2, <1>3, FlatType, WithinNothing, EmptySeq
<1>5. <<>> \o t = t
  BY <1>4, ConcatEmptySeq
<1>6. ~req'.binary => queued' = <<>> \o t
  BY <1>1, <1>2, <1>5 DEF TextOK
<1>7. QED
  BY <1>2, <1>4, <1>6 DEF TextShort

LEMMA SameTextShort ==
    ASSUME TextShort, UNCHANGED <<req, queued, tx, wire>>, state' # "ENDING" => state # "ENDING"
    PROVE  TextShort'
BY DEF TextShort

\* wi_readfile and wi_ssi add text before the header is sent.
LEMMA ReadingShort ==
    ASSUME IInv, IInv', pc = "readfile", Head(stack).at # "ssi", hdrsent' = hdrsent
    PROVE  TextShort'
<1>1. ~hdrsent'
  BY Works DEF Working
<1>2. QED
  BY <1>1, NothingGoneNext

\* More on the wire, none of it twice.
LEMMA InOrderMore ==
    ASSUME NEW w \in Seq(Sent), NEW x \in Seq(Sent), NEW a \in Nat, NEW m \in Nat, InOrder(w, a),
           a <= m,
           \A i \in 1 .. Len(x) : x[i][1] = "header" \/ (x[i] = UnitName("page", a + i) /\ a + i <= m)
    PROVE  InOrder(w \o x, m)
<1>1. PICK c : c = w \o x
  OBVIOUS
<1>2. /\ c \in Seq(Sent) /\ Len(c) = Len(w) + Len(x) /\ Len(w) \in Nat /\ Len(x) \in Nat
      /\ \A i \in 1 .. Len(w) + Len(x) : c[i] = IF i <= Len(w) THEN w[i] ELSE x[i - Len(w)]
  BY <1>1, ConcatProperties, LenProperties
<1>3. \A p : UnitName("page", p)[2] = p
  BY DEF UnitName
<1>4. ASSUME NEW i \in 1 .. Len(c)
      PROVE  \/ i <= Len(w) /\ i \in 1 .. Len(w) /\ c[i] = w[i]
             \/ ~(i <= Len(w)) /\ i - Len(w) \in 1 .. Len(x) /\ c[i] = x[i - Len(w)]
  <2>1. i \in 1 .. Len(w) + Len(x)
    BY <1>2
  <2>2. (i <= Len(w) /\ i \in 1 .. Len(w)) \/ (~(i <= Len(w)) /\ i - Len(w) \in 1 .. Len(x))
    BY <1>2, <2>1
  <2>3. QED
    BY <1>2, <2>1, <2>2
<1>5. ASSUME NEW i \in 1 .. Len(w), w[i][1] # "header"
      PROVE  \E p \in 1 .. a : w[i] = UnitName("page", p) /\ w[i][2] = p
  BY <1>3, <1>5 DEF InOrder
<1>6. ASSUME NEW i \in 1 .. Len(x), x[i][1] # "header"
      PROVE  x[i] = UnitName("page", a + i) /\ a + i \in 1 .. m /\ x[i][2] = a + i
  <2>1. x[i] = UnitName("page", a + i) /\ a + i <= m
    BY <1>6
  <2>2. x[i][2] = a + i
    BY <1>3, <2>1
  <2>3. QED
    BY <1>2, <2>1, <2>2
<1>7. ASSUME NEW i \in 1 .. Len(c), c[i][1] # "header"
      PROVE  \E p \in 1 .. m : c[i] = UnitName("page", p)
  <2>1. CASE i \in 1 .. Len(w) /\ c[i] = w[i]
    <3>1. PICK p \in 1 .. a : w[i] = UnitName("page", p)
      BY <1>5, <1>7, <2>1
    <3>2. p \in 1 .. m
      OBVIOUS
    <3>3. QED
      BY <2>1, <3>1, <3>2
  <2>2. CASE i - Len(w) \in 1 .. Len(x) /\ c[i] = x[i - Len(w)]
    <3>1. PICK k \in 1 .. Len(x) : c[i] = x[k]
      BY <2>2
    <3>2. x[k] = UnitName("page", a + k) /\ a + k \in 1 .. m
      BY <1>6, <1>7, <3>1
    <3>3. QED
      BY <3>1, <3>2
  <2>3. QED
    BY <1>4, <2>1, <2>2
<1>8. ASSUME NEW i \in 1 .. Len(c), NEW j \in 1 .. Len(c),
             c[i][1] # "header", c[j][1] # "header", i < j
      PROVE  c[i][2] < c[j][2]
  <2>1. CASE i \in 1 .. Len(w) /\ c[i] = w[i] /\ j \in 1 .. Len(w) /\ c[j] = w[j]
    BY <1>8, <2>1 DEF InOrder
  <2>2. CASE i \in 1 .. Len(w) /\ c[i] = w[i] /\ j - Len(w) \in 1 .. Len(x) /\ c[j] = x[j - Len(w)]
    <3>1. PICK k \in 1 .. Len(x) : c[j] = x[k]
      BY <2>2
    <3>2. PICK p \in 1 .. a : c[i][2] = p
      BY <1>5, <1>8, <2>2
    <3>3. c[j][2] = a + k
      BY <1>6, <1>8, <3>1
    <3>4. p < a + k
      BY <1>2
    <3>5. QED
      BY <3>2, <3>3, <3>4
  <2>3. CASE i - Len(w) \in 1 .. Len(x) /\ c[i] = x[i - Len(w)] /\ j - Len(w) \in 1 .. Len(x) /\ c[j] = x[j - Len(w)]
    <3>1. PICK k, l : k = i - Len(w) /\ l = j - Len(w)
      OBVIOUS
    <3>2. k \in 1 .. Len(x) /\ l \in 1 .. Len(x) /\ c[i] = x[k] /\ c[j] = x[l] /\ a + k < a + l
      BY <1>2, <1>8, <2>3, <3>1
    <3>3. c[i][2] = a + k /\ c[j][2] = a + l
      BY <1>6, <1>8, <3>2
    <3>4. QED
      BY <3>2, <3>3
  <2>4. CASE ~(i <= Len(w)) /\ j <= Len(w)
    BY <1>2, <1>8, <2>4
  <2>5. QED
    BY <1>4, <2>1, <2>2, <2>3, <2>4
<1>9. QED
  BY <1>1, <1>7, <1>8 DEF InOrder

LEMMA PageLen ==
    ASSUME Types
    PROVE  Len(req.page) \in Nat
<1>1. req.page \in Seq(Unit)
  BY TextIs
<1>2. QED
  BY <1>1, LenProperties

\* How far a binary file is read, when the session has one.
LEMMA MovedToIs ==
    ASSUME IInv, req.binary
    PROVE  MovedTo \in Nat /\ MovedTo <= Len(req.page)
<1>1. Len(req.page) \in Nat
  BY PageLen DEF IInv
<1>2. CASE state = "ENDING"
  BY <1>1, <1>2 DEF MovedTo
<1>3. CASE state # "ENDING"
  <2>1. Len(files) = 1 /\ files[1].name = "page" /\ 1 \in 1 .. Len(files) /\ files \in Seq(OpenFile)
    <3>1. Len(files) = 1 /\ files[1].name = "page"
      BY <1>3 DEF IInv, BinaryOK
    <3>2. 1 \in 1 .. 1 /\ files \in Seq(OpenFile)
      BY DEF IInv, Types
    <3>3. QED
      BY <3>1, <3>2
  <2>2. files[1] \in OpenFile /\ Block(files[1])
    BY <2>1, ElementOfSeq DEF IInv, BlocksOK
  <2>3. TextOf(files[1].name) = req.page
    BY <2>1 DEF TextOf
  <2>4. PICK p, b : p = files[1].pos /\ b = files[1].inbuf
    OBVIOUS
  <2>5. p \in Nat /\ b \in Nat /\ b <= p /\ p <= Len(req.page)
    BY <2>2, <2>3, <2>4, SizesAssumption DEF OpenFile, Block
  <2>6. p - b \in Nat /\ p - b <= Len(req.page)
    BY <1>1, <2>5
  <2>7. QED
    BY <1>3, <2>4, <2>6 DEF MovedTo
<1>4. QED
  BY <1>2, <1>3

\* What the socket took of a text follows what it took before.
LEMMA TakesPart ==
    ASSUME wire \in Seq(Sent), room \in 0 .. ROOM, NEW text \in Seq(Sent), NEW n, n = Smaller(room, Len(text)), Send(text, n)
    PROVE  \E x \in Seq(Sent) : /\ wire' = wire \o x /\ Len(x) = n /\ n \in Nat /\ n <= Len(text)
                                /\ \A i \in 1 .. Len(x) : i \in 1 .. Len(text) /\ x[i] = text[i]
<1>1. room \in Nat /\ Len(text) \in Nat
  BY LenProperties, SizesAssumption
<1>2. n \in Nat /\ n <= Len(text)
  BY <1>1, SmallerIs
<1>3. PICK x : x = SubSeq(text, 1, n)
  OBVIOUS
<1>4. n \in 0 .. Len(text) /\ n \in Int /\ 1 \in Int /\ \A i \in 1 .. n : i \in 1 .. Len(text)
  BY <1>1, <1>2
<1>5. \A i \in 1 .. n : text[i] \in Sent
  BY <1>4, ElementOfSeq
<1>6. /\ x \in Seq(Sent) /\ Len(x) = IF 1 <= n THEN n - 1 + 1 ELSE 0
      /\ \A i \in 1 .. n - 1 + 1 : x[i] = text[1 + i - 1]
  BY <1>3, <1>4, <1>5, SubSeqProperties
<1>7. Len(x) = n /\ n - 1 + 1 = n /\ \A i \in 1 .. n : 1 + i - 1 = i
  <2>1. \A k \in Nat : k = (IF 1 <= k THEN k - 1 + 1 ELSE 0) /\ k - 1 + 1 = k /\ \A i \in 1 .. k : 1 + i - 1 = i
    OBVIOUS
  <2>2. QED
    BY <1>2, <1>6, <2>1
<1>8. \A i \in 1 .. Len(x) : i \in 1 .. Len(text) /\ x[i] = text[i]
  BY <1>4, <1>6, <1>7
<1>9. wire' = wire \o x
  BY <1>3 DEF Send
<1>10. QED
  BY <1>2, <1>6, <1>7, <1>8, <1>9

\* Of a header the socket takes units of the header.
LEMMA TakesHeader ==
    ASSUME Types, NEW length \in Nat, SendHeader(length)
    PROVE  \E x \in Seq(Sent) : wire' = wire \o x /\ \A i \in 1 .. Len(x) : x[i][1] = "header"
<1>1. PICK n, text : n = Smaller(room, HDR) /\ text = Header(length)
  OBVIOUS
<1>2. text \in Seq(Sent) /\ Len(text) = HDR
  BY <1>1, HeaderIs
<1>3. Send(text, n) /\ wire \in Seq(Sent) /\ room \in 0 .. ROOM /\ n = Smaller(room, Len(text))
  BY <1>1, <1>2 DEF SendHeader, Types
<1>4. PICK x \in Seq(Sent) : wire' = wire \o x /\ \A i \in 1 .. Len(x) : i \in 1 .. Len(text) /\ x[i] = text[i]
  BY <1>2, <1>3, TakesPart
<1>5. \A i \in 1 .. HDR : text[i][1] = "header"
  <2>1. \A i \in 1 .. HDR : text[i] = <<"header", i, length>>
    BY <1>1 DEF Header
  <2>2. QED
    BY <2>1
<1>6. QED
  BY <1>2, <1>4, <1>5

LEMMA SendTextHeaderShort ==
    ASSUME ShortInv, IInv', SendTextHeader
    PROVE  TextShort'
<1>1. PICK length : length = Len(FlattenSeq(tx))
  OBVIOUS
<1>2. /\ pc = "sockwrite" /\ ~req.binary /\ ~hdrsent /\ SendHeader(length)
      /\ UNCHANGED <<req, queued, tx>>
  BY <1>1 DEF SendTextHeader, NoRead
<1>3. Types /\ tx \in Seq(Seq(Sent)) /\ state = "SENDDATA" /\ wire \in Seq(Sent)
  BY <1>2, Sending DEF ShortInv, IInv, Types
<1>4. length \in Nat
  BY <1>1, <1>3, FlatType, LenProperties
<1>5. PICK x \in Seq(Sent) : wire' = wire \o x
  BY <1>2, <1>3, <1>4, TakesHeader
<1>6. PICK q \in Seq(Sent) : queued = q \o FlattenSeq(tx) /\ Within(q, wire)
  BY <1>2, <1>3 DEF ShortInv, TextShort
<1>7. Within(q, wire')
  BY <1>3, <1>5, <1>6, WithinMore
<1>8. queued' = q \o FlattenSeq(tx)'
  BY <1>2, <1>6
<1>9. QED
  BY <1>7, <1>8 DEF TextShort

LEMMA SendTxbufShort ==
    ASSUME ShortInv, IInv', SendTxbuf
    PROVE  TextShort'
<1>1. PICK n, text : text = Head(tx) /\ n = Smaller(room, Len(Head(tx)))
  OBVIOUS
<1>2. /\ pc = "sockwrite" /\ ~req.binary /\ tx # <<>> /\ Send(text, n)
      /\ IF n = Len(text) THEN tx' = Tail(tx) ELSE tx' = tx
      /\ UNCHANGED <<req, queued>>
  BY <1>1 DEF SendTxbuf, NoRead
<1>3. /\ Types /\ IInv /\ state = "SENDDATA" /\ tx \in Seq(Seq(Sent)) /\ wire \in Seq(Sent)
      /\ room \in 0 .. ROOM
  BY <1>2, Sending DEF ShortInv, IInv, Types
<1>4. text \in Seq(Sent) /\ Tail(tx) \in Seq(Seq(Sent)) /\ FlattenSeq(tx) = text \o FlattenSeq(Tail(tx))
  BY <1>1, <1>2, <1>3, FirstOf, FlatHead
<1>5. PICK q \in Seq(Sent) : queued = q \o FlattenSeq(tx) /\ Within(q, wire)
  BY <1>2, <1>3 DEF ShortInv, TextShort
<1>6. CASE n = Len(text)
  <2>1. wire' = wire \o text /\ tx' = Tail(tx)
    BY <1>1, <1>2, <1>3, <1>4, <1>6, SendIs
  <2>2. Within(q \o text, wire')
    BY <1>3, <1>4, <1>5, <2>1, WithinBoth
  <2>3. PICK b : b = FlattenSeq(Tail(tx))
    OBVIOUS
  <2>4. b \in Seq(Sent) /\ q \o text \in Seq(Sent)
    BY <1>4, <1>5, <2>3, FlatType, ConcatProperties
  <2>5. (q \o text) \o b = q \o (text \o b)
    <3>1. \A u, v, w \in Seq(Sent) : (u \o v) \o w = u \o (v \o w)
      <4>1. \A u, v, w \in Seq(Sent) : ThreeAlike(u, v, w)
        BY Associative, Zenon
      <4>2. QED
        BY <4>1, Zenon DEF ThreeAlike
    <3>2. QED
      BY <1>4, <1>5, <2>4, <3>1
  <2>6. queued' = (q \o text) \o FlattenSeq(tx)'
    BY <1>2, <1>4, <1>5, <2>1, <2>3, <2>5
  <2>7. QED
    BY <2>2, <2>4, <2>6 DEF TextShort
<1>7. CASE n # Len(text)
  <2>1. PICK x \in Seq(Sent) : wire' = wire \o x
    BY <1>1, <1>2, <1>3, <1>4, TakesPart
  <2>2. Within(q, wire')
    BY <1>3, <1>5, <2>1, WithinMore
  <2>3. queued' = q \o FlattenSeq(tx)'
    BY <1>2, <1>5, <1>7
  <2>4. QED
    BY <2>2, <2>3 DEF TextShort
<1>8. QED
  BY <1>6, <1>7

\* A binary file moves on in wi_movebinary, and there only.
LEMMA SamePage ==
    ASSUME PageShort, IInv, UNCHANGED <<req, wire, files, state>>
    PROVE  PageShort'
<1>1. MovedTo' = MovedTo
  BY DEF MovedTo
<1>2. QED
  BY <1>1 DEF PageShort, InOrder

LEMMA NoPage ==
    ASSUME ~req.binary, req' = req
    PROVE  PageShort'
BY DEF PageShort

LEMMA WiderPage ==
    ASSUME PageShort, req.binary, UNCHANGED <<req, wire>>, MovedTo = 0, MovedTo' \in Nat
    PROVE  PageShort'
BY DEF PageShort, InOrder

\* What is done in wi_readfile, before anything is moved.
LEMMA ReadMorePage ==
    ASSUME ShortInv, IInv', ReadMore
    PROVE  PageShort'
<1>1. SUFFICES ASSUME req.binary
               PROVE  PageShort'
  BY NoPage DEF ReadMore, NoSend
<1>2. req' = req /\ wire' = wire /\ state = "CONTENT" /\ pc = "readfile"
  BY <1>1 DEF ReadMore, Reading, NoSend, ShortInv, IInv, BinaryOK
<1>3. MovedTo = 0
  BY <1>1, <1>2 DEF ShortInv, IInv, BinaryOK, MovedTo
<1>4. Len(req.page) \in Nat
  BY PageLen DEF ShortInv, IInv
<1>5. CASE state' = "ENDING"
  <2>1. MovedTo' = Len(req.page)
    BY <1>2, <1>5 DEF MovedTo
  <2>2. QED
    BY <1>1, <1>2, <1>3, <1>4, <2>1, WiderPage DEF ShortInv
<1>6. CASE state' # "ENDING"
  <2>1. Len(files') = 1
    BY <1>1, <1>2, <1>6 DEF IInv, BinaryOK
  <2>2. 1 \in 1 .. 1 /\ files' \in Seq(OpenFile)
    BY DEF IInv, Types
  <2>3. PICK f : f = files'[1]
    OBVIOUS
  <2>4. f \in OpenFile
    BY <2>1, <2>2, <2>3, ElementOfSeq
  <2>5. f.inbuf <= f.pos
    BY <2>1, <2>2, <2>3 DEF IInv, BlocksOK, Block
  <2>6. f.pos - f.inbuf \in Nat
    BY <2>4, <2>5, SizesAssumption DEF OpenFile
  <2>7. MovedTo' = f.pos - f.inbuf
    BY <1>6, <2>3 DEF MovedTo
  <2>8. QED
    BY <1>1, <1>2, <1>3, <2>6, <2>7, WiderPage DEF ShortInv
<1>7. QED
  BY <1>5, <1>6

LEMMA MoveHeaderPage ==
    ASSUME ShortInv, MoveHeader
    PROVE  PageShort'
<1>1. /\ req.binary /\ IF hdrsent THEN wire' = wire ELSE SendHeader(Len(req.page))
      /\ UNCHANGED <<req, state, files>>
  BY DEF MoveHeader, NoRead
<1>2. Types /\ wire \in Seq(Sent) /\ Len(req.page) \in Nat /\ MovedTo \in Nat /\ InOrder(wire, MovedTo)
  BY <1>1, PageLen, MovedToIs DEF ShortInv, PageShort, IInv, Types
<1>3. MovedTo' = MovedTo
  BY <1>1 DEF MovedTo
<1>4. CASE hdrsent
  BY <1>1, <1>4, SamePage DEF ShortInv
<1>5. CASE ~hdrsent
  <2>1. PICK x \in Seq(Sent) : wire' = wire \o x /\ \A i \in 1 .. Len(x) : x[i][1] = "header"
    BY <1>1, <1>2, <1>5, TakesHeader
  <2>2. MovedTo <= MovedTo
    BY <1>2
  <2>3. InOrder(wire \o x, MovedTo)
    BY <1>2, <2>1, <2>2, InOrderMore
  <2>4. QED
    BY <1>3, <2>1, <2>3 DEF PageShort, InOrder
<1>6. QED
  BY <1>4, <1>5

LEMMA MoveBlockPage ==
    ASSUME ShortInv, MoveBlock
    PROVE  PageShort'
<1>1. PICK f : f = Refilled(FileHead)
  OBVIOUS
<1>2. PICK a, b, text, n : /\ a = f.pos - f.inbuf /\ b = f.inbuf
                           /\ text = [i \in 1 .. f.inbuf |-> UnitName("page", f.pos - f.inbuf + i)]
                           /\ n = Smaller(room, f.inbuf)
  OBVIOUS
<1>3. /\ pc = "movebinary" /\ Send(text, n) /\ req' = req
      /\ IF n = 0 /\ b > 0
         THEN Return(FALSE, state) /\ SetHead(f)
         ELSE IF b < BUF
              THEN Return(FALSE, "ENDING")
              ELSE SetHead([f EXCEPT !.inbuf = 0]) /\ UNCHANGED state
  BY <1>1, <1>2 DEF MoveBlock, NoRead
<1>4. /\ req.binary /\ IInv /\ state = "SENDDATA" /\ wire \in Seq(Sent) /\ room \in 0 .. ROOM
      /\ stack \in Seq(Activation)
  BY <1>3, Sending DEF ShortInv, IInv, CallsOK, Types
<1>5. /\ f \in OpenFile /\ f.name = "page" /\ Block(f) /\ f.pos \in Nat /\ b \in Nat
      /\ a \in Nat /\ a = files[1].pos - files[1].inbuf
      /\ files \in Seq(OpenFile) /\ files # <<>>
  BY <1>1, <1>2, <1>3, <1>4, RefilledIs
<1>6. a + b = f.pos /\ f.pos <= Len(req.page) /\ Len(req.page) \in Nat
  <2>1. Len(req.page) \in Nat
    BY <1>4, PageLen DEF IInv
  <2>2. TextOf(f.name) = req.page
    BY <1>5 DEF TextOf
  <2>3. QED
    BY <1>2, <1>5, <2>1, <2>2 DEF Block
<1>7. text = PagePart(a, b)
  BY <1>2 DEF PagePart
<1>8. text \in Seq(Sent) /\ Len(text) = b /\ \A i \in 1 .. b : text[i] = UnitName("page", a + i)
  BY <1>5, <1>7, PagePartIs
<1>9. n = Smaller(room, Len(text))
  BY <1>2, <1>8
<1>10. PICK x \in Seq(Sent) : /\ wire' = wire \o x /\ Len(x) = n /\ n \in Nat
                              /\ \A i \in 1 .. Len(x) : i \in 1 .. Len(text) /\ x[i] = text[i]
  BY <1>3, <1>4, <1>8, <1>9, TakesPart
<1>11. MovedTo = a /\ InOrder(wire, a)
  BY <1>4, <1>5 DEF MovedTo, ShortInv, PageShort
<1>12. ASSUME NEW m \in Nat, f.pos <= m
       PROVE  InOrder(wire', m)
  <2>1. a <= m
    BY <1>5, <1>6, <1>12
  <2>2. \A i \in 1 .. Len(x) : x[i] = UnitName("page", a + i) /\ a + i <= m
    <3>1. \A i \in 1 .. b : a + i <= m
      BY <1>5, <1>6, <1>12
    <3>2. QED
      BY <1>8, <1>10, <3>1
  <2>3. QED
    BY <1>4, <1>5, <1>10, <1>11, <2>1, <2>2, InOrderMore
<1>13. CASE n = 0 /\ b > 0
  <2>1. HeadFile(f)
    BY <1>3, <1>5, <1>13, HeadFileIs
  <2>2. Returned(FALSE, state)
    BY <1>3, <1>4, <1>13, ReturnIs
  <2>3. MovedTo' = a
    BY <1>2, <1>4, <2>1, <2>2 DEF HeadFile, Returned, MovedTo
  <2>4. wire' = wire
    BY <1>4, <1>10, <1>13, ConcatEmptySeq, EmptySeq
  <2>5. QED
    BY <1>11, <2>3, <2>4 DEF PageShort, InOrder
<1>14. CASE ~(n = 0 /\ b > 0) /\ b < BUF
  <2>1. Returned(FALSE, "ENDING")
    BY <1>3, <1>4, <1>14, ReturnIs
  <2>2. Len(stack) <= 1
    BY <1>4 DEF IInv, BinaryOK
  <2>3. state' = "ENDING"
    BY <2>1 DEF Returned
  <2>4. MovedTo' = Len(req.page)
    BY <1>3, <2>3 DEF MovedTo
  <2>5. InOrder(wire', Len(req.page))
    BY <1>6, <1>12
  <2>6. QED
    BY <2>4, <2>5 DEF PageShort, InOrder
<1>15. CASE ~(n = 0 /\ b > 0) /\ ~(b < BUF)
  <2>1. PICK g : g = [f EXCEPT !.inbuf = 0]
    OBVIOUS
  <2>2. g \in OpenFile /\ g.inbuf = 0 /\ g.pos = f.pos
    BY <1>5, <2>1, EmptiedIs
  <2>3. HeadFile(g) /\ state' = state
    BY <1>3, <1>5, <1>15, <2>1, <2>2, HeadFileIs
  <2>4. MovedTo' = f.pos
    BY <1>4, <1>5, <2>2, <2>3 DEF HeadFile, MovedTo
  <2>5. InOrder(wire', f.pos)
    BY <1>5, <1>12
  <2>6. QED
    BY <2>4, <2>5 DEF PageShort, InOrder
<1>16. QED
  BY <1>13, <1>14, <1>15

LEMMA NotBinary ==
    ASSUME IInv, pc = "readfile", Head(stack).at # "read"
    PROVE  ~req.binary
<1>1. stack # <<>> /\ stack \in Seq(Activation)
  BY DEF IInv, CallsOK, Types
<1>2. Head(stack) = stack[1]
  BY <1>1, FirstOf
<1>3. QED
  BY <1>2 DEF IInv, BinaryOK

LEMMA CopyShort ==
    ASSUME ShortInv, IInv', pc = "readfile", Head(stack).at \in {"copy", "skipped"},
           hdrsent' = hdrsent, req' = req
    PROVE  TextShort' /\ PageShort'
BY ReadingShort, NotBinary, NoPage DEF ShortInv

LEMMA IncludeReturnsShort ==
    ASSUME ShortInv, IncludeReturns
    PROVE  TextShort' /\ PageShort'
<1>1. pc = "readfile" /\ Head(stack).at = "ssi" /\ UNCHANGED <<req, queued, tx, wire>>
  BY DEF IncludeReturns, Reading, NoSend, history
<1>2. stack \in Seq(Activation)
  BY DEF ShortInv, IInv, Types
<1>3. state' = state \/ Return(FALSE, state)
  BY DEF IncludeReturns
<1>4. state' # "ENDING" => state # "ENDING"
  <2>1. ASSUME Return(FALSE, state)
        PROVE  state' \in {state, "ENDING"}
    BY <1>2, <2>1, ReturnIs DEF Returned
  <2>2. QED
    BY <1>3, <2>1
<1>5. PageShort'
  BY <1>1, NotBinary, NoPage DEF ShortInv
<1>6. QED
  BY <1>1, <1>4, <1>5, SameTextShort DEF ShortInv

LEMMA TextSentShort ==
    ASSUME ShortInv, TextSent
    PROVE  TextShort' /\ PageShort'
<1>1. ~req.binary /\ pc = "sockwrite" /\ UNCHANGED <<req, queued, tx, wire>>
  BY DEF TextSent, NoRead
<1>2. state = "SENDDATA"
  BY <1>1, Sending DEF ShortInv
<1>3. QED
  BY <1>1, <1>2, SameTextShort, NoPage DEF ShortInv

LEMMA QuietShort ==
    ASSUME ShortInv, UNCHANGED <<req, state, files, queued, tx, wire>>
    PROVE  TextShort' /\ PageShort'
BY SameTextShort, SamePage DEF ShortInv

LEMMA StartsShort == Init => ShortInv
<1>1. SUFFICES ASSUME Init
               PROVE  ShortInv
  OBVIOUS
<1>2. IInv
  BY <1>1, StartsReply
<1>3. TextShort
  BY <1>1, <1>2, NothingGone DEF Init, IInv
<1>4. PageShort
  <2>1. wire = <<>> /\ Len(wire) = 0 /\ \A i \in 1 .. Len(wire) : FALSE
    BY <1>1, EmptySeq DEF Init
  <2>2. QED
    BY <2>1 DEF PageShort, InOrder
<1>5. QED
  BY <1>2, <1>3, <1>4 DEF ShortInv

LEMMA NextShort == ShortInv /\ [Next]_vars => ShortInv'
<1>1. SUFFICES ASSUME ShortInv, [Next]_vars
               PROVE  ShortInv'
  OBVIOUS
<1>2. IInv /\ IInv'
  BY <1>1, NextReply DEF ShortInv
<1>3. SUFFICES TextShort' /\ PageShort'
  BY <1>2 DEF ShortInv
<1>4. CASE ReadMore
  <2>1. pc = "readfile" /\ Head(stack).at = "read" /\ hdrsent' = hdrsent
    BY <1>4 DEF ReadMore, Reading, NoSend
  <2>2. TextShort'
    BY <1>2, <2>1, ReadingShort
  <2>3. PageShort'
    BY <1>1, <1>2, <1>4, ReadMorePage
  <2>4. QED
    BY <2>2, <2>3
<1>5. CASE CopyText \/ AfterDirective \/ BlockDone
  <2>1. pc = "readfile" /\ Head(stack).at \in {"copy", "skipped"} /\ hdrsent' = hdrsent /\ req' = req
    BY <1>5 DEF CopyText, AfterDirective, BlockDone, Reading, NoSend
  <2>2. QED
    BY <1>1, <1>2, <2>1, CopyShort
<1>6. CASE Include
  <2>1. InDirective /\ hdrsent' = hdrsent /\ req' = req
    BY <1>6 DEF Include, Exec, IncludeFails, IncludeFile, IncludeRoutine, IncludeFaults, NoSend
  <2>2. pc = "readfile" /\ Head(stack).at \in {"copy", "skipped"}
    BY <2>1 DEF InDirective, Reading
  <2>3. QED
    BY <1>1, <1>2, <2>1, <2>2, CopyShort
<1>7. CASE IncludeReturns
  BY <1>1, <1>7, IncludeReturnsShort
<1>8. CASE SendTextHeader
  <2>1. ~req.binary /\ req' = req
    BY <1>8 DEF SendTextHeader, NoRead
  <2>2. QED
    BY <1>1, <1>2, <1>8, <2>1, SendTextHeaderShort, NoPage
<1>9. CASE SendTxbuf
  <2>1. ~req.binary /\ req' = req
    BY <1>9 DEF SendTxbuf, NoRead
  <2>2. QED
    BY <1>1, <1>2, <1>9, <2>1, SendTxbufShort, NoPage
<1>10. CASE TextSent
  BY <1>1, <1>10, TextSentShort
<1>11. CASE MoveHeader
  <2>1. req.binary /\ req' = req
    BY <1>11 DEF MoveHeader, NoRead
  <2>2. TextShort'
    BY <2>1 DEF TextShort
  <2>3. QED
    BY <1>1, <1>11, <2>2, MoveHeaderPage
<1>12. CASE MoveBlock
  <2>1. pc = "movebinary" /\ req' = req
    BY <1>12 DEF MoveBlock, NoRead
  <2>2. req'.binary
    BY <1>2, <2>1 DEF IInv, CallsOK
  <2>3. TextShort'
    BY <2>2 DEF TextShort
  <2>4. QED
    BY <1>1, <1>12, <2>3, MoveBlockPage
<1>13. CASE Poll \/ VisitContent \/ VisitSendData \/ Drain \/ Others \/ UNCHANGED vars
  <2>1. UNCHANGED <<req, state, files, queued, tx, wire>>
    BY <1>13 DEF Poll, VisitContent, VisitSendData, Drain, Others, Still, reply, history, vars
  <2>2. QED
    BY <1>1, <2>1, QuietShort
<1>14. QED
  BY <1>1, <1>4, <1>5, <1>6, <1>7, <1>8, <1>9, <1>10, <1>11, <1>12, <1>13
     DEF Next, Server, Read, Write

LEMMA PageUnits ==
    ASSUME IInv, req.binary
    PROVE  Len(Content) = Len(req.page) /\ \A p \in 1 .. Len(req.page) : Content[p] = UnitName("page", p)
           /\ DOMAIN Content = 1 .. Len(req.page)
<1>1. req.page \in Seq(Unit)
  BY TextIs DEF IInv
<1>2. DOMAIN req.page = 1 .. Len(req.page) /\ Len(req.page) \in Nat
  BY <1>1, LenProperties
<1>3. Content = [p \in 1 .. Len(req.page) |-> UnitName("page", p)]
  BY <1>2 DEF Content
<1>4. QED
  BY <1>2, <1>3

LEMMA ShortFollows == ShortInv => ShortSendsBounded
<1>1. SUFFICES ASSUME ShortInv
               PROVE  ShortSendsBounded
  OBVIOUS
<1>2. CASE req.binary
  <2>1. InOrder(wire, MovedTo) /\ MovedTo \in Nat /\ MovedTo <= Len(req.page) /\ Len(req.page) \in Nat
    BY <1>1, <1>2, MovedToIs, PageLen DEF ShortInv, PageShort, IInv
  <2>2. DOMAIN wire = 1 .. Len(wire)
    BY <1>1, LenProperties DEF ShortInv, IInv, Types
  <2>3. \A p \in 1 .. MovedTo : p \in DOMAIN Content /\ Content[p] = UnitName("page", p)
    <3>1. \A p \in 1 .. MovedTo : p \in 1 .. Len(req.page)
      BY <2>1
    <3>2. QED
      BY <1>1, <1>2, <3>1, PageUnits DEF ShortInv
  <2>4. QED
    BY <1>2, <2>1, <2>2, <2>3 DEF ShortSendsBounded, InOrder
<1>3. CASE ~req.binary /\ state = "SENDDATA"
  <2>1. PICK q \in Seq(Sent) : queued = q \o FlattenSeq(tx) /\ Within(q, wire)
    BY <1>1, <1>3 DEF ShortInv, TextShort
  <2>2. PICK t : t = FlattenSeq(tx)
    OBVIOUS
  <2>3. t \in Seq(Sent)
    BY <1>1, <2>2, FlatType DEF ShortInv, IInv, Types
  <2>4. /\ Len(queued) = Len(q) + Len(t) /\ Len(q) \in Nat /\ Len(t) \in Nat /\ queued \in Seq(Sent)
        /\ \A i \in 1 .. Len(q) + Len(t) : queued[i] = IF i <= Len(q) THEN q[i] ELSE t[i - Len(q)]
    BY <2>1, <2>2, <2>3, ConcatProperties, LenProperties
  <2>5. Len(queued) - Len(t) = Len(q) /\ \A i \in 1 .. Len(q) : i \in 1 .. Len(q) + Len(t) /\ i <= Len(q)
    BY <2>4
  <2>6. SubSeq(queued, 1, Len(q)) = q
    <3>1. PICK s : s = SubSeq(queued, 1, Len(q))
      OBVIOUS
    <3>2. \A i \in 1 .. Len(q) : queued[i] = q[i] /\ queued[i] \in Sent
      BY <2>4, <2>5, ElementOfSeq
    <3>3. 1 \in Int /\ Len(q) \in Int
      BY <2>4
    <3>4. /\ s \in Seq(Sent) /\ Len(s) = IF 1 <= Len(q) THEN Len(q) - 1 + 1 ELSE 0
          /\ \A i \in 1 .. Len(q) - 1 + 1 : s[i] = queued[1 + i - 1]
      BY <3>1, <3>2, <3>3, SubSeqProperties
    <3>5. \A k \in Nat : k = (IF 1 <= k THEN k - 1 + 1 ELSE 0) /\ k - 1 + 1 = k /\ \A i \in 1 .. k : 1 + i - 1 = i
      OBVIOUS
    <3>6. Len(s) = Len(q) /\ \A i \in 1 .. Len(q) : s[i] = queued[i]
      BY <2>4, <3>4, <3>5
    <3>7. QED
      BY <3>1, <3>2, <3>4, <3>6, SeqSame
  <2>7. QED
    BY <1>3, <2>1, <2>2, <2>5, <2>6 DEF ShortSendsBounded
<1>4. QED
  BY <1>2, <1>3 DEF ShortSendsBounded

\* Whatever part of a text or a block each send takes: no text freed is missing on the wire,
\* though parts may be there twice (webio.c:808), and of a binary file nothing is there
\* twice or out of its order, though parts may be missing (webutils.c:184).
THEOREM ShortSendsSafe == Spec => []ShortSendsBounded
<1>1. Spec => []ShortInv
  BY StartsShort, NextShort, PTL DEF Spec
<1>2. QED
  BY <1>1, ShortFollows, PTL
=================================================================================
