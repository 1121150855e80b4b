--------------------------- MODULE WebioVisitProofs ---------------------------
(***************************************************************************)
(* How one pass of wi_poll over a session ends: what it sent, which slots  *)
(* the tables lose by it, and whether the session is deleted.  The reply   *)
(* of every session is in order in every state of WebioServer, what a step *)
(* may never do follows, and wi_poll, wi_step and the push code implement  *)
(* SessionLife.                                                            *)
(***************************************************************************)
EXTENDS WebioOwnershipProofs

RepliesOK == \A s \in sess_used : Replying(Work(s))

\* The content announced has come, or recv returned ENOTCONN bytes.
ContentCame(w) ==
    w.co.sent - w.co.req.hdr >= w.co.req.body \/ Received(w) = ENOTCONN

\* Nothing moved on the session, whose working set is w, for TMO ticks.
Stalled(w) ==
    /\ w.se.idle > TMO
    /\ w.se.state \in {"HEADER", "CONTENT", "SENDDATA"}
    /\ w.se.state = "HEADER" => w.se.sock \notin sel_recv
    /\ w.se.state = "SENDDATA" =>
          ~Loaded(w) \/ w.se.sock \notin sel_send \/ w.co.room = 0 \/ "BINARY" \in w.se.flags

\* A pass over a session left it as r.
Left(w, r) ==
    /\ w.se.sock # NoSock /\ w.se.state # "ENDING"
    /\ Good(w, r) /\ Parsed(w, r) /\ Replying(r)
    /\ r.se.state = w.se.state \/ r.se.state \in Life!After[w.se.state]
    /\ w.se.state = "POSTRX" /\ r.se.state = "CONTENT" => ContentCame(w)

\* The session is visited again, or the loop goes on.
Passed(r) ==
    /\ Left(Work(cur), r)
    /\ \/ Again(r)
       \/ /\ Break(r)
          /\ r.se.idle > TMO =>
                /\ Stalled(Work(cur))
                /\ Len(r.se.files) <= Len(ws[cur].files)

----------------------------------------------------------------------------
(* The visits *)

\* The session visited, as a handler finds it.
LEMMA VisitedReply ==
    ASSUME ListInv, DataInv, RepliesOK, NEW st, Visiting(st), st # "ENDING",
           NEW w, w = Work(cur)
    PROVE  /\ cur \in sess_used /\ cur \in Sess
           /\ Base(w) /\ Ready(w) /\ Good(w, w) /\ Replying(w) /\ More(w, w)
           /\ w.se.sock # NoSock /\ w.se.state = st
           /\ Len(w.se.files) = Len(ws[cur].files) /\ Len(w.se.files) \in Nat
           /\ w.se.idle \in Nat /\ w.se.sock = ws[cur].sock /\ 0 <= TMO
<1>1. /\ cur \in sess_used /\ sess_used \subseteq Sess
      /\ Base(w) /\ Ready(w) /\ Good(w, w)
      /\ w.se.sock # NoSock /\ w.se.state = st
  BY VisitedGood
<1>2. Replying(w) /\ More(w, w) /\ Len(w.se.files) \in Nat
  BY <1>1, MoreSelf, OwnInTable DEF RepliesOK
<1>3. w.se.idle \in Nat /\ 0 <= TMO
  BY <1>1, SeTypes, UnitsAssumption DEF WiSess
<1>4. QED
  BY <1>1, <1>2, <1>3, WorkFields

LEMMA HeaderPassed ==
    ASSUME ListInv, DataInv, RepliesOK, VisitHeader
    PROVE  \E r : Passed(r)
<1> DEFINE st  == "HEADER"
           w   == Work(cur)
           got == IF w.se.sock \in sel_recv THEN Recv(w) ELSE w
           r   == IF got.se.rx = 0 THEN got ELSE wi_parseheader(got)
<1>1. /\ Visiting(st) /\ st = "HEADER" /\ w = Work(cur)
      /\ (Again(r) /\ r.se.state # "HEADER") \/ (Break(r) /\ r.se.state = "HEADER")
  BY DEF VisitHeader
<1> HIDE DEF st
<1>2. /\ Base(w) /\ Ready(w) /\ Good(w, w) /\ Replying(w) /\ More(w, w)
      /\ w.se.sock # NoSock /\ w.se.state = "HEADER"
      /\ Len(w.se.files) = Len(ws[cur].files) /\ Len(w.se.files) \in Nat /\ w.se.idle \in Nat
      /\ 0 <= TMO
  BY <1>1, VisitedReply
<1>3. /\ got = (IF w.se.sock \in sel_recv THEN Recv(w) ELSE w)
      /\ r = IF got.se.rx = 0 THEN got ELSE wi_parseheader(got)
  OBVIOUS
<1> HIDE DEF w, got, r
<1>4. /\ Good(w, got) /\ Base(got) /\ Ready(got) /\ Parsed(w, got) /\ Replying(got)
      /\ Even(w, got) /\ got.co = w.co /\ got.form = w.form
      /\ got.se.sock # NoSock /\ got.se.state = "HEADER" /\ got.se.files = w.se.files
      /\ w.se.sock \in sel_recv => got.se.idle = 0
  <2>1. CASE w.se.sock \in sel_recv
    <3>1. got = Recv(w)
      BY <1>3, <2>1
    <3>2. /\ Base(got) /\ Even(w, got) /\ got.co = w.co /\ got.file = w.file /\ got.form = w.form
          /\ got.se.idle = 0 /\ got.se.files = w.se.files /\ got.se.tx = w.se.tx
          /\ got.se.flags = w.se.flags /\ got.se.state = w.se.state /\ got.se.sock = w.se.sock
      BY <1>2, <3>1, RecvContract
    <3>3. Good(w, got) /\ Ready(got)
      BY <1>2, <3>1, RecvQuiet, QuietGood, GoodEnd
    <3>4. Parsed(w, got)
      BY <3>2, ParsedSelf, EvenParsed
    <3>5. Replying(got)
      BY <1>2, <3>2 DEF Replying, Whole, Fresh, Sent
    <3>6. QED
      BY <1>2, <3>2, <3>3, <3>4, <3>5
  <2>2. CASE w.se.sock \notin sel_recv
    BY <1>2, <1>3, <2>2, ParsedSelf DEF More
  <2>3. QED
    BY <2>1, <2>2
<1>5. Good(w, r) /\ Parsed(w, r) /\ Replying(r)
      /\ (r.se.state = "HEADER" => Len(r.se.files) = 0)
  <2>1. CASE r = got
    BY <1>2, <1>4, <2>1 DEF Replying
  <2>2. CASE r = wi_parseheader(got)
    <3>1. Base(r) /\ Parsed(got, r) /\ Replying(r)
      BY <1>4, <2>2, ParseheaderContract
    <3>2. Good(w, r)
      BY <1>4, <2>2, ParseheaderGood, GoodTrans DEF Good
    <3>3. r.se.state = "HEADER" => Len(r.se.files) = 0
      BY <3>1 DEF Replying, Base
    <3>4. Parsed(w, r)
      BY <1>4, <3>1, ParsedEven
    <3>5. QED
      BY <3>1, <3>2, <3>3, <3>4
  <2>3. QED
    BY <1>3, <2>1, <2>2
<1>6. r.se.state = "HEADER" \/ r.se.state \in Life!After["HEADER"]
  <2>1. r.se.state \in State
    BY <1>5, SeTypes DEF Good, Keeps
  <2>2. QED
    BY <2>1 DEF Life!After, State
<1>7. Left(w, r)
  BY <1>2, <1>5, <1>6 DEF Left
<1>8. r.se.idle > TMO /\ r.se.state = "HEADER" =>
         Stalled(w) /\ Len(r.se.files) <= Len(ws[cur].files)
  <2> SUFFICES ASSUME r.se.idle > TMO, r.se.state = "HEADER"
               PROVE  Stalled(w) /\ Len(r.se.files) <= Len(ws[cur].files)
    OBVIOUS
  <2>1. r.se.idle \in {got.se.idle, 0} /\ got.se.idle \in {w.se.idle, 0}
    <3>1. Parsed(got, r)
      BY <1>3, <1>4, ParseheaderContract, ParsedSelf
    <3>2. QED
      BY <1>4, <3>1 DEF Parsed
  <2>2. ~(0 > TMO)
    BY <1>2, UnitsAssumption
  <2>3. r.se.idle = w.se.idle /\ w.se.sock \notin sel_recv
    BY <1>4, <2>1, <2>2
  <2>4. Stalled(w)
    BY <1>2, <2>3 DEF Stalled
  <2>5. QED
    BY <1>2, <1>5, <2>4
<1>9. Passed(r)
  BY <1>1, <1>7, <1>8 DEF Passed
<1>10. QED
  BY <1>9

LEMMA PostRxPassed ==
    ASSUME ListInv, DataInv, RepliesOK, VisitPostRx
    PROVE  \E r : Passed(r)
<1> DEFINE st   == "POSTRX"
           w    == Work(cur)
           got  == Recv(w)
           p    == w.co.req.pairs
           form == wi_buildform(got, p)
           all  == got.se.rx - w.co.req.hdr >= w.co.req.body \/ Received(w) = ENOTCONN
           e    == wi_senderr(form)
           z    == SetState(form, "CONTENT")
<1>1. /\ Visiting(st) /\ st = "POSTRX" /\ w = Work(cur) /\ got = Recv(w)
      /\ p = w.co.req.pairs /\ form = wi_buildform(got, p) /\ e = wi_senderr(form)
      /\ z = SetState(form, "CONTENT")
      /\ Break(got) \/ Break(e) \/ (all /\ Again(z))
  BY DEF VisitPostRx, SetState
<1> HIDE DEF st
<1>2. /\ Base(w) /\ Ready(w) /\ Good(w, w) /\ Replying(w) /\ More(w, w)
      /\ w.se.sock # NoSock /\ w.se.state = "POSTRX" /\ w.se.idle \in Nat /\ 0 <= TMO
  BY <1>1, VisitedReply
<1> HIDE DEF got
<1>3. /\ Base(got) /\ Even(w, got) /\ got.co = w.co /\ got.file = w.file /\ got.form = w.form
      /\ got.se.idle = 0 /\ got.se.files = w.se.files /\ got.se.tx = w.se.tx
      /\ got.se.flags = w.se.flags /\ got.se.state = w.se.state /\ got.se.sock = w.se.sock
  BY <1>1, <1>2, RecvContract
<1>4. Quiet(w, got) /\ Good(w, got)
  BY <1>1, <1>2, RecvQuiet, QuietGood
<1> HIDE DEF p, form
<1>5. /\ Parsed(got, form) /\ got.se.sock # NoSock /\ Base(form) /\ form.co = got.co /\ form.file = got.file
      /\ form.se.idle = 0 /\ form.se.files = got.se.files /\ form.se.tx = got.se.tx
      /\ form.se.flags = got.se.flags /\ form.se.state = got.se.state
      /\ form.se.sock = got.se.sock
  <2>1. form = wi_buildform(got, p) /\ (p = "bad" => BadPairs(got.co.req))
    BY <1>1, <1>3 DEF BadPairs
  <2>2. QED
    BY <1>2, <1>3, <2>1, BuildformParsed
<1>6. Good(w, form) /\ Parsed(w, form)
  <2>1. Quiet(got, form)
    BY <1>1, <1>3, BuildformStep
  <2>2. QED
    BY <1>3, <1>4, <1>5, <2>1, QuietGood, ParsedEven
<1>7. Fresh(w) /\ Waiting(w) /\ Whole(w) /\ w.se.tx = {} /\ w.co.hdrs = 0
  BY <1>2 DEF Replying, Waiting, Fresh
<1>8. Left(w, got)
  <2>1. Replying(got)
    BY <1>2, <1>3, <1>7 DEF Replying, Whole, Fresh, Waiting, FileHead
  <2>2. QED
    BY <1>2, <1>3, <1>4, <2>1, ParsedSelf, EvenParsed DEF Left
<1>9. Left(w, e) /\ e.se.idle = 0
  <2>1. form.se.tx = {} /\ form.co.hdrs <= 1 /\ (form.se.sock # NoSock => form.co.hdrs = 0)
    BY <1>3, <1>5, <1>7
  <2>2. Base(e) /\ More(form, e) /\ Over(e) /\ Replying(e)
    BY <1>1, <1>5, <2>1, EndingFields
  <2>3. Keeps(form, e)
    BY <1>1, <1>5, EndingStep DEF Step
  <2>4. Good(w, e)
    BY <1>6, <2>2, <2>3, KeepsTrans, OverGood DEF Good
  <2>5. Parsed(w, e) /\ e.se.idle = 0
    BY <1>5, <1>6, <2>2, EvenParsed DEF More, Even
  <2>6. e.se.state = "ENDING" /\ "ENDING" \in Life!After["POSTRX"]
    BY <2>2 DEF Over, Life!After
  <2>7. QED
    BY <1>2, <2>2, <2>4, <2>5, <2>6 DEF Left
<1>10. all => Left(w, z)
  <2>1. "CONTENT" \in State
    BY DEF State
  <2>2. form.se.sock # NoSock
    BY <1>2, <1>3, <1>5
  <2> HIDE DEF z, all
  <2>3. /\ Base(z) /\ Held(form, z) /\ More(form, z) /\ z.co = form.co
        /\ z.se.state = "CONTENT" /\ z.se.tx = form.se.tx /\ z.se.flags = form.se.flags
        /\ z.se.sock = form.se.sock
    BY <1>1, <1>5, <2>1, <2>2, SetStateFields, SMTT(30)
  <2>4. Keeps(form, z)
    BY <1>1, <1>5, <2>1, <2>2, SetStateKeeps
  <2>5. z.se.files = w.se.files /\ z.file = w.file
    BY <1>3, <1>5, <2>3 DEF Held
  <2>6. Replying(z)
    BY <1>2, <1>3, <1>5, <1>7, <2>3, <2>5 DEF Replying, Whole, Fresh, Waiting, FileHead
  <2>7. Good(w, z)
    <3>1. Ready(z)
      BY <1>2, <1>3, <1>5, <2>3, <2>5 DEF Ready, FileHead
    <3>2. QED
      BY <1>6, <2>4, <3>1, KeepsTrans DEF Good
  <2>8. Parsed(w, z)
    BY <1>6, <2>3, EvenParsed DEF More
  <2>9. z.se.state = "CONTENT" /\ "CONTENT" \in Life!After["POSTRX"]
    BY <2>3 DEF Life!After
  <2>10. all => ContentCame(w)
    <3>1. w.se.rx \in 0 .. RXBUF /\ w.co.sent \in Nat /\ w \in WorkSet /\ w.se \in WiSess
      BY <1>2, SeTypes DEF WiSess, Connection
    <3>2. got.se.rx = w.se.rx + Received(w)
      BY <1>1, <3>1 DEF Recv, WorkSet, WiSess
    <3>3. Min2(w.co.sent, RXBUF) <= w.co.sent /\ Min2(w.co.sent, RXBUF) \in Nat
      BY <3>1, UnitsAssumption DEF Min2
    <3>4. got.se.rx <= w.co.sent /\ got.se.rx \in Nat
      BY <3>1, <3>2, <3>3 DEF Received
    <3>5. w.co.req.hdr \in Nat /\ w.co.req.body \in Nat
      <4>1. w.co.req \in Request
        BY <1>2, SeTypes DEF Connection
      <4>2. QED
        BY <4>1 DEF Request
    <3>6. QED
      BY <3>1, <3>4, <3>5 DEF all, ContentCame
  <2>11. QED
    BY <1>2, <2>6, <2>7, <2>8, <2>9, <2>10 DEF Left
<1>11. ~(0 > TMO)
  BY <1>2, UnitsAssumption
<1> HIDE DEF w, e, z, all
<1>12. Passed(got) \/ Passed(e) \/ Passed(z)
  BY <1>1, <1>3, <1>8, <1>9, <1>10, <1>11 DEF Passed
<1>13. QED
  BY <1>12

LEMMA ContentPassed ==
    ASSUME ListInv, DataInv, RepliesOK, VisitContent
    PROVE  \E r : Passed(r)
<1> DEFINE st == "CONTENT"
           w  == Work(cur)
           r  == wi_readfile(w)
           z  == SetState(r, "ENDING")
<1>1. /\ Visiting(st) /\ st = "CONTENT" /\ w = Work(cur) /\ r = wi_readfile(w)
      /\ z = SetState(r, "ENDING")
      /\ \/ Again(z)
         \/ ~Failed(r) /\ Again(r)
         \/ ~Failed(r) /\ Break(r) /\ r.se.state = "CONTENT"
  BY DEF VisitContent, SetState, Failed
<1> HIDE DEF st
<1>2. /\ Base(w) /\ Ready(w) /\ Good(w, w) /\ Replying(w)
      /\ w.se.sock # NoSock /\ w.se.state = "CONTENT"
      /\ Len(w.se.files) = Len(ws[cur].files) /\ Len(w.se.files) \in Nat /\ w.se.idle \in Nat
      /\ 0 <= TMO
  BY <1>1, VisitedReply
<1> HIDE DEF w, r
<1>3. /\ Base(r) /\ Went(w, r) /\ Replying(r)
      /\ r.se.state \in {"CONTENT", "SENDDATA", "PUSHING", "ENDING"}
  BY <1>1, <1>2, ReadfileContract
<1>4. Good(w, r)
  BY <1>1, <1>2, ReadfileGood DEF Ready
<1>5. Parsed(w, r)
  BY <1>3 DEF Went
<1>6. ~Failed(r) => Left(w, r)
  <2>1. r.se.state = "CONTENT" \/ r.se.state \in Life!After["CONTENT"]
    BY <1>3 DEF Life!After
  <2>2. QED
    BY <1>2, <1>3, <1>4, <1>5, <2>1 DEF Left
<1>7. Left(w, z)
  <2>1. "ENDING" \in State /\ "ENDING" \in Life!After["CONTENT"]
    BY DEF State, Life!After
  <2> HIDE DEF z
  <2>2. /\ Base(z) /\ More(r, z) /\ z.co = r.co /\ z.se.state = "ENDING"
        /\ z.se.tx = r.se.tx /\ z.se.flags = r.se.flags /\ z.se.sock = r.se.sock
    BY <1>1, <1>3, <2>1, SetStateFields
  <2>3. Good(w, z)
    BY <1>1, <1>4, ErrorEnds
  <2>4. Replying(z)
    BY <1>3, <2>2 DEF Replying, Whole, Fresh, Sent
  <2>5. Parsed(w, z)
    BY <1>5, <2>2, EvenParsed DEF More
  <2>6. QED
    BY <1>2, <2>1, <2>2, <2>3, <2>4, <2>5 DEF Left
<1>8. r.se.idle > TMO => Stalled(w) /\ Len(r.se.files) <= Len(ws[cur].files)
  <2> SUFFICES ASSUME r.se.idle > TMO
               PROVE  Stalled(w) /\ Len(r.se.files) <= Len(ws[cur].files)
    OBVIOUS
  <2>1. ~(0 > TMO)
    BY <1>2, UnitsAssumption
  <2>2. r.se.idle = w.se.idle /\ r.se.idle # 0
    BY <1>3, <2>1 DEF Went, Parsed
  <2>3. QED
    BY <1>2, <1>3, <2>2 DEF Went, Stalled
<1>9. Passed(r) \/ Passed(z)
  <2> HIDE DEF z
  <2>1. QED
    BY <1>1, <1>6, <1>7, <1>8 DEF Passed
<1>10. QED
  BY <1>9

LEMMA SendDataPassed ==
    ASSUME ListInv, DataInv, RepliesOK, VisitSendData
    PROVE  \E r : Passed(r)
<1> DEFINE st == "SENDDATA"
           w  == Work(cur)
           r  == wi_sockwrite(w)
           z  == SetState(r, "ENDING")
           quiet == ~Loaded(w) \/ w.se.sock \notin sel_send
<1>1. /\ Visiting(st) /\ st = "SENDDATA" /\ w = Work(cur) /\ r = wi_sockwrite(w)
      /\ z = SetState(r, "ENDING")
      /\ \/ quiet /\ Break(w)
         \/ Again(z)
         \/ ~Failed(r) /\ Again(r)
         \/ ~Failed(r) /\ Break(r) /\ r.se.state = "SENDDATA"
  BY DEF VisitSendData, SetState, Failed, Loaded
<1> HIDE DEF st
<1>2. /\ Base(w) /\ Ready(w) /\ Good(w, w) /\ Replying(w) /\ More(w, w)
      /\ w.se.sock # NoSock /\ w.se.state = "SENDDATA"
      /\ Len(w.se.files) = Len(ws[cur].files) /\ Len(w.se.files) \in Nat /\ w.se.idle \in Nat
      /\ 0 <= TMO
  BY <1>1, VisitedReply
<1> HIDE DEF w, r
<1>3. Whole(w) /\ Begun(w)
  BY <1>2 DEF Replying
<1>4. Left(w, w)
  BY <1>2, ParsedSelf DEF Left
<1>5. /\ Base(r) /\ Ready(r) /\ More(w, r) /\ Whole(r) /\ (Over(r) \/ Same(w, r))
      /\ r.se.sock # NoSock => Begun(r) /\ (Loaded(r) \/ Deaf(r))
      /\ "HEADERSENT" \in w.se.flags /\ "BINARY" \notin w.se.flags /\ w.co.room > 0 =>
            Failed(r) \/ Over(r) \/ r.se.idle = 0
  BY <1>1, <1>2, <1>3, SockwriteContract DEF Failed
<1>6. Good(w, r)
  BY <1>1, <1>2, SockwriteStep DEF Good, Step
<1>7. Parsed(w, r)
  BY <1>5, ParsedSelf, EvenParsed DEF More
<1>8. r.se.state \in {"SENDDATA", "ENDING"} /\ Replying(r)
  <2>1. r.se.state \in {"SENDDATA", "ENDING"}
    BY <1>2, <1>5 DEF Over, Same
  <2>2. QED
    BY <1>5, <2>1 DEF Replying
<1>9. "ENDING" \in State /\ "ENDING" \in Life!After["SENDDATA"]
  BY DEF State, Life!After
<1>10. Left(w, r)
  BY <1>2, <1>6, <1>7, <1>8, <1>9 DEF Left
<1>11. Left(w, z)
  <2> HIDE DEF z
  <2>1. /\ Base(z) /\ More(r, z) /\ z.co = r.co /\ z.se.state = "ENDING"
        /\ z.se.tx = r.se.tx /\ z.se.flags = r.se.flags /\ z.se.sock = r.se.sock
    BY <1>1, <1>5, <1>9, SetStateFields
  <2>2. Good(w, z)
    BY <1>1, <1>6, ErrorEnds
  <2>3. Replying(z)
    BY <1>5, <2>1 DEF Replying, Whole, Fresh, Sent
  <2>4. Parsed(w, z)
    BY <1>7, <2>1, EvenParsed DEF More
  <2>5. QED
    BY <1>2, <1>9, <2>1, <2>2, <2>3, <2>4 DEF Left
<1>12. w.se.idle > TMO /\ quiet => Stalled(w)
  BY <1>2, <1>3 DEF Stalled
<1>13. r.se.idle > TMO /\ ~Failed(r) /\ r.se.state = "SENDDATA" =>
          Stalled(w) /\ Len(r.se.files) <= Len(ws[cur].files)
  <2> SUFFICES ASSUME r.se.idle > TMO, ~Failed(r), r.se.state = "SENDDATA"
               PROVE  Stalled(w) /\ Len(r.se.files) <= Len(ws[cur].files)
    OBVIOUS
  <2>1. ~(0 > TMO)
    BY <1>2, UnitsAssumption
  <2>2. r.se.idle = w.se.idle /\ r.se.idle # 0 /\ ~Over(r)
    BY <1>5, <2>1 DEF More, Even, Over
  <2>3. w.co.room \in Nat /\ (ROOM = 0 => w.co.room = 0)
    BY <1>2, SeTypes
  <2>4. w.co.room = 0 \/ "BINARY" \in w.se.flags
    <3>1. CASE "HEADERSENT" \in w.se.flags
      BY <1>5, <2>2, <2>3, <3>1
    <3>2. CASE "HEADERSENT" \notin w.se.flags /\ "BINARY" \notin w.se.flags
      <4>1. w.co.peer = "reset" \/ ROOM = 0
        BY <1>3, <3>2 DEF Begun, Deaf, Sent
      <4>2. CASE w.co.peer = "reset"
        <5>1. wi_replyhdr(w) = Fail(w)
          BY <4>2 DEF wi_replyhdr, CanSend
        <5>2. Fail(w).err = TRUE /\ Fail(Fail(w)).err = TRUE
          <6>1. w \in WorkSet
            BY <1>2, SeTypes
          <6>2. QED
            BY <6>1 DEF Fail, WorkSet
        <5>3. r = Fail(Fail(w))
          BY <1>1, <3>2, <5>1, <5>2 DEF wi_sockwrite
        <5>4. QED
          BY <5>2, <5>3 DEF Failed
      <4>3. QED
        BY <2>3, <4>1, <4>2
    <3>3. QED
      BY <3>1, <3>2
  <2>5. QED
    BY <1>2, <1>5, <2>2, <2>4 DEF More, Stalled
<1>14. Passed(w) \/ Passed(z) \/ Passed(r)
  <2> HIDE DEF z, quiet
  <2>1. QED
    BY <1>1, <1>2, <1>4, <1>10, <1>11, <1>12, <1>13 DEF Passed
<1>15. QED
  BY <1>14

----------------------------------------------------------------------------
(* The replies of all sessions *)

\* Nothing was sent to a client that was not accepted.
QueueOK ==
    \A i \in 1 .. Len(backlog) :
        conn[backlog[i]].hdrs = 0 /\ conn[backlog[i]].room = ROOM

ReplyInv == RepliesOK /\ QueueOK /\ OneReplyHeader

\* What a reply has to do with the rest of the state: from v to w, the clock may have
\* gone on, the client may have read or left, and push code may have ended the session.
Alike(v, w) ==
    /\ w.se.sock = v.se.sock /\ w.se.tx = v.se.tx /\ w.se.flags = v.se.flags
    /\ w.se.files = v.se.files
    /\ w.se.state \in {v.se.state, "ENDING"}
    /\ w.co.hdrs = v.co.hdrs /\ w.co.req = v.co.req
    /\ w.co.room \in {v.co.room, ROOM}
    /\ v.co.peer = "reset" => w.co.peer = "reset"
    /\ \A f \in Own(v) : w.file[f].kind = v.file[f].kind

LEMMA AlikeReplies ==
    ASSUME NEW v, Base(v), Replying(v), NEW w, Alike(v, w)
    PROVE  Replying(w)
<1>1. /\ w.se.sock = v.se.sock /\ w.se.tx = v.se.tx /\ w.se.flags = v.se.flags
      /\ w.se.files = v.se.files
      /\ w.se.state \in {v.se.state, "ENDING"}
      /\ w.co.hdrs = v.co.hdrs /\ w.co.req = v.co.req
      /\ \A f \in Own(v) : w.file[f].kind = v.file[f].kind
      /\ Own(w) = Own(v) /\ FileHead(w) = FileHead(v)
  BY DEF Alike, Own, FileHead
<1>2. /\ (Fresh(v) => Fresh(w)) /\ (Sent(v) => Sent(w)) /\ (Begun(v) => Begun(w))
      /\ (Deaf(v) => Deaf(w))
  BY DEF Alike, Fresh, Sent, Begun, Deaf
<1>3. Whole(w)
  BY <1>1, <1>2 DEF Replying, Whole
<1>4. (TextOnly(v) => TextOnly(w)) /\ (Loaded(v) => Loaded(w))
  BY <1>1 DEF TextOnly, Loaded
<1>5. Len(v.se.files) = 1 => w.file[FileHead(w)].kind = v.file[FileHead(v)].kind
  <2>1. Len(v.se.files) = 1 => FileHead(v) \in Own(v)
    BY OwnInTable
  <2>2. QED
    BY <1>1, <2>1
<1>6. (Waiting(v) => Waiting(w)) /\ (BadForm(v) => BadForm(w))
  BY <1>1, <1>5 DEF Waiting, BadForm
<1>7. QED
  BY <1>1, <1>2, <1>3, <1>4, <1>6 DEF Replying

\* A step on session s leaves the replies of the others alone.
LEMMA StoreReplies ==
    ASSUME ListInv, DataInv, ReplyInv, NEW s \in sess_used,
           NEW r \in WorkSet, Store(s, r), Frame(Work(s), r), r.co.hdrs <= 1
    PROVE  /\ QueueOK' /\ OneReplyHeader'
           /\ \A t \in sess_used \ {s} : Replying(Work(t))'
<1>1. sess_used \subseteq Sess /\ s \in Sess /\ DataTypes
  BY DEF ListInv, DataInv
<1>2. /\ \A t \in Sess \ {s} : ws'[t] = ws[t]
      /\ \A c \in Conn : conn'[c] = IF c = ws[s].sock THEN r.co ELSE conn[c]
      /\ backlog' = backlog /\ file' = r.file
  BY <1>1, StoreFields
<1>3. \A t \in sess_used : Base(Work(t)) /\ Replying(Work(t))
  BY DEF DataInv, SessionsOK, ReplyInv, RepliesOK
<1>4. OneReplyHeader'
  BY <1>2 DEF ReplyInv, OneReplyHeader
<1>5. QueueOK'
  <2>1. \A i \in 1 .. Len(backlog) : backlog[i] \in Conn /\ conn[backlog[i]].phase = "backlog"
    BY LenProperties DEF DataInv, DataTypes, BacklogOK
  <2>2. ws[s].sock # NoSock => conn[ws[s].sock].phase = "open"
    BY <1>3, BaseWork
  <2>3. \A i \in 1 .. Len(backlog) : conn'[backlog[i]] = conn[backlog[i]]
    BY <1>2, <2>1, <2>2, ConnAssumption
  <2>4. QED
    BY <1>2, <2>3 DEF ReplyInv, QueueOK
<1>6. ASSUME NEW t \in sess_used \ {s}
      PROVE  Replying(Work(t))'
  <2> DEFINE v == Work(t)
             w == [se   |-> ws'[t],
                   co   |-> IF ws'[t].sock = NoSock THEN NoConnection ELSE conn'[ws'[t].sock],
                   tx   |-> tx_used', form |-> form_used', file |-> file', err |-> FALSE]
  <2>1. /\ t \in Sess /\ t # s /\ ws'[t] = ws[t] /\ Base(v) /\ Replying(v) /\ Apart(t, s)
    BY <1>1, <1>2, <1>3 DEF DataInv, OwnersOK
  <2>2. /\ \A f \in Files(t) : file[f] # FreeFile /\ f \in FileSlot
        /\ ws[t].sock \in Conn \cup {NoSock}
    BY <2>1, BaseWork
  <2>3. ws[t].sock # NoSock => conn'[ws[t].sock] = conn[ws[t].sock]
    BY <1>2, <2>1, <2>2 DEF Apart
  <2>4. \A f \in Own(v) : file'[f] = file[f]
    <3>1. \A f \in FileSlot : file[f] # FreeFile /\ f \notin Files(s) => r.file[f] = file[f]
      BY WorkFields DEF Frame
    <3>2. Own(v) = Files(t) /\ Files(t) \cap Files(s) = {}
      BY <2>1, WorkFields DEF Apart
    <3>3. QED
      BY <1>2, <2>2, <3>1, <3>2
  <2>5. w.se = v.se /\ w.co = v.co
    BY <2>1, <2>3, WorkFields
  <2>6. \A f \in Own(v) : w.file[f].kind = v.file[f].kind
    BY <2>4, WorkFields
  <2>7. Work(t)' = w
    BY DEF Work
  <2> HIDE DEF v, w
  <2>8. Alike(v, w)
    BY <2>5, <2>6 DEF Alike
  <2>9. Replying(w)
    BY <2>1, <2>8, AlikeReplies
  <2>10. QED
    BY <2>7, <2>9
<1>7. QED
  BY <1>4, <1>5, <1>6

\* The session is kept with the result of its handler.
LEMMA KeptReplies ==
    ASSUME ListInv, DataInv, ReplyInv, NEW s \in sess_used,
           NEW r, Good(Work(s), r), Replying(r), Store(s, r), UNCHANGED sess_used
    PROVE  ReplyInv'
<1>1. /\ Base(r) /\ r \in WorkSet /\ Frame(Work(s), r) /\ r.co.hdrs <= 1
      /\ s \in Sess /\ DataTypes
  BY DEF Good, Keeps, Base, Replying, Whole, ListInv, DataInv
<1>2. /\ QueueOK' /\ OneReplyHeader'
      /\ \A t \in sess_used \ {s} : Replying(Work(t))'
  BY <1>1, StoreReplies
<1>3. /\ ws'[s] = r.se /\ file' = r.file
      /\ \A c \in Conn : conn'[c] = IF c = ws[s].sock THEN r.co ELSE conn[c]
  BY <1>1, StoreFields
<1> DEFINE w == [se   |-> ws'[s],
                 co   |-> IF ws'[s].sock = NoSock THEN NoConnection ELSE conn'[ws'[s].sock],
                 tx   |-> tx_used', form |-> form_used', file |-> file', err |-> FALSE]
<1>4. Replying(w)
  <2>1. w.se = r.se /\ w.file = r.file
    BY <1>3
  <2>2. CASE r.se.sock # NoSock
    <3>1. r.se.sock = ws[s].sock /\ r.se.sock \in Conn
      BY <1>1, <2>2, WorkFields DEF Frame, WorkSet, WiSess
    <3>2. w.co = r.co
      BY <1>3, <2>1, <2>2, <3>1
    <3> HIDE DEF w
    <3>3. FileHead(w) = FileHead(r) /\ Own(w) = Own(r)
      BY <2>1 DEF FileHead, Own
    <3>4. QED
      BY <2>1, <3>2, <3>3 DEF Replying, Whole, Fresh, Sent, Begun, Deaf, Loaded, TextOnly, Waiting,
                              BadForm
  <2>3. CASE r.se.sock = NoSock
    <3>1. w.co.hdrs = 0 /\ r.se.tx = {}
      BY <2>1, <2>3 DEF NoConnection, Replying, Whole
    <3> HIDE DEF w
    <3>2. QED
      BY <2>1, <2>3, <3>1 DEF Replying, Whole
  <2>4. QED
    BY <2>2, <2>3
<1>5. Work(s)' = w
  BY DEF Work
<1> HIDE DEF w
<1>6. Replying(Work(s))'
  BY <1>4, <1>5
<1>7. RepliesOK'
  BY <1>2, <1>6 DEF RepliesOK
<1>8. QED
  BY <1>2, <1>7 DEF ReplyInv

\* The session is deleted, after a handler left it as w.
LEMMA DeletedReplies ==
    ASSUME ListInv, DataInv, ReplyInv, NEW s \in sess_used,
           NEW w, Keeps(Work(s), w), w.co.hdrs <= 1, wi_delsess(s, w)
    PROVE  ReplyInv'
<1> DEFINE r == Release(w)
<1>1. Store(s, r) /\ sess_used' = sess_used \ {s} /\ Base(w) /\ r = Release(w)
  BY DEF wi_delsess, Keeps
<1>2. Freed(w, r) /\ r.co.hdrs = w.co.hdrs
  BY <1>1, ReleaseFreed, ReleaseContract
<1> HIDE DEF r
<1>3. r \in WorkSet /\ Frame(Work(s), r)
  <2>1. r \in WorkSet /\ r.se.tx = {} /\ r.se.forms = {} /\ r.se.sock = NoSock /\ Own(r) = {}
    BY <1>2 DEF Freed, NewSess, Own
  <2>2. QED
    BY <1>2, <2>1 DEF Freed, Keeps, Frame
<1>4. /\ QueueOK' /\ OneReplyHeader'
      /\ \A t \in sess_used \ {s} : Replying(Work(t))'
  BY <1>1, <1>2, <1>3, StoreReplies
<1>5. QED
  BY <1>1, <1>4 DEF ReplyInv, RepliesOK

LEMMA PassedReplies ==
    ASSUME ListInv, DataInv, ReplyInv, cur \in sess_used, NEW r, Passed(r)
    PROVE  ReplyInv'
<1>1. Good(Work(cur), r) /\ Replying(r) /\ Keeps(Work(cur), r) /\ r.co.hdrs <= 1
  BY DEF Passed, Left, Good, Replying, Whole
<1>2. CASE wi_delsess(cur, r)
  BY <1>1, <1>2, DeletedReplies
<1>3. CASE Store(cur, r) /\ UNCHANGED sess_used
  BY <1>1, <1>3, KeptReplies
<1>4. QED
  BY <1>2, <1>3, Zenon DEF Passed, Again, Break, lists

\* Steps of the clients, the clock and the push code.
LEMMA FrameReplies ==
    ASSUME ListInv, DataInv, RepliesOK, UNCHANGED <<sess_used, file>>,
           \A s \in sess_used :
              /\ ws'[s].tx = ws[s].tx /\ ws'[s].files = ws[s].files
              /\ ws'[s].sock = ws[s].sock /\ ws'[s].flags = ws[s].flags
              /\ ws'[s].state \in {ws[s].state, "ENDING"},
           \A c \in Conn : conn[c].phase = "open" =>
              /\ conn'[c].hdrs = conn[c].hdrs /\ conn'[c].req = conn[c].req
              /\ conn'[c].room \in {conn[c].room, ROOM}
              /\ conn[c].peer = "reset" => conn'[c].peer = "reset"
    PROVE  RepliesOK'
<1>1. ASSUME NEW s \in sess_used
      PROVE  Replying(Work(s))'
  <2> DEFINE v == Work(s)
             w == [se   |-> ws'[s],
                   co   |-> IF ws'[s].sock = NoSock THEN NoConnection ELSE conn'[ws'[s].sock],
                   tx   |-> tx_used', form |-> form_used', file |-> file', err |-> FALSE]
  <2>1. Base(v) /\ Replying(v)
    BY DEF DataInv, SessionsOK, RepliesOK
  <2>2. ws[s].sock # NoSock => ws[s].sock \in Conn /\ conn[ws[s].sock].phase = "open"
    BY <2>1, BaseWork
  <2>3. /\ v.se = ws[s] /\ v.file = file
        /\ v.co = (IF ws[s].sock = NoSock THEN NoConnection ELSE conn[ws[s].sock])
    BY WorkFields
  <2>4. Work(s)' = w
    BY DEF Work
  <2>5. Alike(v, w)
    <3>1. /\ w.se = ws'[s] /\ w.file = file
          /\ w.co = (IF ws[s].sock = NoSock THEN NoConnection ELSE conn'[ws[s].sock])
      BY <1>1
    <3> HIDE DEF v, w
    <3>2. CASE ws[s].sock = NoSock
      BY <1>1, <2>3, <3>1, <3>2 DEF Alike
    <3>3. CASE ws[s].sock # NoSock
      BY <1>1, <2>2, <2>3, <3>1, <3>3 DEF Alike
    <3>4. QED
      BY <3>2, <3>3
  <2> HIDE DEF v, w
  <2>6. QED
    BY <2>1, <2>4, <2>5, AlikeReplies
<1>2. QED
  BY <1>1 DEF RepliesOK

\* The oldest connection leaves the queue for a session, or is closed or left open.
LEMMA DequeuedReplies ==
    ASSUME ListInv, DataInv, ReplyInv, backlog # <<>>, backlog' = Tail(backlog),
           \/ conn' = [conn EXCEPT ![NewSock] = ClosedConn(@)]
           \/ conn' = [conn EXCEPT ![NewSock].phase = "open"]
    PROVE  /\ NewSock \in Conn /\ conn[NewSock].phase = "backlog"
           /\ conn[NewSock].hdrs = 0 /\ conn[NewSock].room = ROOM
           /\ conn'[NewSock].hdrs = 0 /\ (conn'[NewSock].phase = "open" => conn'[NewSock].room = ROOM)
           /\ \A c \in Conn : c # NewSock => conn'[c] = conn[c]
           /\ QueueOK' /\ OneReplyHeader'
<1>1. DataTypes /\ BacklogOK /\ conn \in [Conn -> Connection]
  BY DEF DataInv, DataTypes
<1>2. \A c \in Conn : c # NewSock => conn'[c] = conn[c]
  BY <1>1
<1>3. NewSock \in Conn /\ conn[NewSock].phase = "backlog" /\ BacklogOK'
  BY <1>1, <1>2, DequeueBacklog
<1>4. /\ Len(Tail(backlog)) = Len(backlog) - 1
      /\ NewSock = backlog[1] /\ Len(backlog) \in Nat \ {0}
      /\ \A i \in 1 .. Len(backlog) - 1 : Tail(backlog)[i] = backlog[i + 1]
      /\ \A i \in 1 .. Len(backlog) : backlog[i] \in Conn
  BY <1>1, TailElements, LenProperties DEF DataTypes, NewSock
<1>5. conn[NewSock].hdrs = 0 /\ conn[NewSock].room = ROOM
  BY <1>4 DEF ReplyInv, QueueOK
<1>6. conn'[NewSock].hdrs = 0 /\ (conn'[NewSock].phase = "open" => conn'[NewSock].room = ROOM)
  <2>1. conn[NewSock] \in Connection
    BY <1>1, <1>3
  <2>2. /\ ClosedConn(conn[NewSock]).hdrs = 0 /\ ClosedConn(conn[NewSock]).phase = "closed"
        /\ [conn[NewSock] EXCEPT !.phase = "open"].hdrs = 0
        /\ [conn[NewSock] EXCEPT !.phase = "open"].room = ROOM
    BY <1>5, <2>1 DEF ClosedConn, NoConnection, Connection
  <2>3. conn'[NewSock] \in {ClosedConn(conn[NewSock]), [conn[NewSock] EXCEPT !.phase = "open"]}
    BY <1>1, <1>3
  <2>4. QED
    BY <2>2, <2>3
<1>7. OneReplyHeader'
  BY <1>2, <1>6 DEF ReplyInv, OneReplyHeader
<1> DEFINE q == Tail(backlog)
<1>8. /\ Len(q) = Len(backlog) - 1
      /\ \A i \in 1 .. Len(q) : /\ q[i] = backlog[i + 1] /\ q[i] \in Conn
                                /\ i + 1 \in 1 .. Len(backlog) /\ q[i] # NewSock
  <2> HIDE DEF q
  <2>1. Len(q) = Len(backlog) - 1 /\ \A i \in 1 .. Len(q) : q[i] = backlog[i + 1]
    BY <1>4 DEF q
  <2>2. \A i \in 1 .. Len(q) : i + 1 \in 1 .. Len(backlog) /\ i + 1 # 1
    BY <1>4, <2>1
  <2>3. QED
    BY <1>1, <1>4, <2>1, <2>2 DEF BacklogOK, Distinct
<1>9. backlog' = q
  OBVIOUS
<1> HIDE DEF q
<1>10. QueueOK'
  BY <1>2, <1>8, <1>9 DEF ReplyInv, QueueOK
<1>11. QED
  BY <1>2, <1>3, <1>5, <1>6, <1>7, <1>10

LEMMA RefuseReplies ==
    ASSUME ListInv, DataInv, ReplyInv, PollRefuse \/ PollAcceptNoSlot \/ PollNameError
    PROVE  ReplyInv'
<1>1. /\ backlog # <<>> /\ backlog' = Tail(backlog)
      /\ UNCHANGED <<sess_used, ws, file>>
      /\ \/ conn' = [conn EXCEPT ![NewSock] = ClosedConn(@)]
         \/ conn' = [conn EXCEPT ![NewSock].phase = "open"]
  BY Zenon DEF PollRefuse, PollAcceptNoSlot, PollNameError, PollFails, Accepting, lists, pools
<1>2. /\ conn[NewSock].phase = "backlog"
      /\ \A c \in Conn : c # NewSock => conn'[c] = conn[c]
      /\ QueueOK' /\ OneReplyHeader'
  BY <1>1, DequeuedReplies
<1>3. RepliesOK'
  <2>1. \A c \in Conn : conn[c].phase = "open" => conn'[c] = conn[c]
    BY <1>2
  <2>2. QED
    BY <1>1, <2>1, FrameReplies DEF ReplyInv
<1>4. QED
  BY <1>2, <1>3 DEF ReplyInv

LEMMA AcceptReplies ==
    ASSUME ListInv, DataInv, ReplyInv, PollAccept
    PROVE  ReplyInv'
<1>1. sess_used # Sess /\ sess_used \subseteq Sess /\ DataTypes /\ RepliesOK
  BY Zenon DEF PollAccept, ListInv, DataInv, ReplyInv
<1> DEFINE slot == FirstSlot(Sess \ sess_used)
<1>2. slot \in Sess \ sess_used
  BY <1>1, FirstSlotIn, SlotTypes
<1>3. PICK s \in Sess \ sess_used : s = slot
  BY <1>2
<1> HIDE DEF slot
<1>4. PICK c : c = NewSock
  OBVIOUS
<1>5. /\ backlog # <<>> /\ backlog' = Tail(backlog)
      /\ conn' = [conn EXCEPT ![NewSock].phase = "open"]
      /\ sess_used' = sess_used \cup {s}
      /\ ws' = [ws EXCEPT ![s] = NewSess(c)]
      /\ UNCHANGED file
  BY <1>3, <1>4, Zenon DEF PollAccept, Accepting, pools, slot
<1>6. /\ c \in Conn /\ conn[c].phase = "backlog" /\ conn[c].hdrs = 0 /\ conn[c].room = ROOM
      /\ \A d \in Conn : d # c => conn'[d] = conn[d]
      /\ QueueOK' /\ OneReplyHeader'
  BY <1>1, <1>4, <1>5, DequeuedReplies
<1>7. ws'[s] = NewSess(c) /\ \A t \in Sess \ {s} : ws'[t] = ws[t]
  BY <1>1, <1>3, <1>5 DEF DataTypes
<1>8. ASSUME NEW t \in sess_used
      PROVE  Replying(Work(t))'
  <2> DEFINE v == Work(t)
             w == [se   |-> ws'[t],
                   co   |-> IF ws'[t].sock = NoSock THEN NoConnection ELSE conn'[ws'[t].sock],
                   tx   |-> tx_used', form |-> form_used', file |-> file', err |-> FALSE]
  <2>1. Base(v) /\ Replying(v) /\ t \in Sess /\ t # s /\ ws'[t] = ws[t]
    BY <1>1, <1>3, <1>7, <1>8 DEF DataInv, SessionsOK, RepliesOK
  <2>2. ws[t].sock # NoSock =>
           ws[t].sock \in Conn /\ conn[ws[t].sock].phase = "open"
    BY <2>1, BaseWork
  <2>3. ws[t].sock # NoSock => conn'[ws[t].sock] = conn[ws[t].sock]
    BY <1>6, <2>2
  <2>4. w.se = v.se /\ w.co = v.co /\ w.file = v.file
    BY <1>5, <2>1, <2>3, WorkFields
  <2>5. Work(t)' = w
    BY DEF Work
  <2> HIDE DEF v, w
  <2>6. Alike(v, w)
    BY <2>4 DEF Alike
  <2>7. QED
    BY <2>1, <2>5, <2>6, AlikeReplies
<1>9. Replying(Work(s))'
  <2> DEFINE w == [se   |-> ws'[s],
                   co   |-> IF ws'[s].sock = NoSock THEN NoConnection ELSE conn'[ws'[s].sock],
                   tx   |-> tx_used', form |-> form_used', file |-> file', err |-> FALSE]
  <2>1. /\ w.se = NewSess(c) /\ w.se.sock = c /\ w.se.tx = {} /\ w.se.flags = {}
        /\ w.se.files = <<>> /\ w.se.state = "HEADER"
    BY <1>7 DEF NewSess
  <2>2. c # NoSock
    BY <1>6, ConnAssumption
  <2>3. w.co.hdrs = 0 /\ w.co.room = ROOM
    <3>1. conn[c] \in Connection /\ conn'[c] = [conn[c] EXCEPT !.phase = "open"]
      BY <1>1, <1>4, <1>5, <1>6 DEF DataTypes
    <3>2. conn'[c].hdrs = 0 /\ conn'[c].room = ROOM
      BY <1>6, <3>1 DEF Connection
    <3>3. QED
      BY <1>7, <2>2, <3>2 DEF NewSess
  <2>4. Work(s)' = w
    BY DEF Work
  <2> HIDE DEF w
  <2>5. Replying(w)
    BY <2>1, <2>2, <2>3 DEF Replying, Whole, Fresh
  <2>6. QED
    BY <2>4, <2>5
<1>10. RepliesOK'
  BY <1>5, <1>8, <1>9 DEF RepliesOK
<1>11. QED
  BY <1>6, <1>10 DEF ReplyInv

LEMMA PollReplies ==
    ASSUME ListInv, DataInv, ReplyInv, Poll
    PROVE  ReplyInv'
<1>1. CASE PollNoConn \/ PollSelectError \/ PollPanic
  <2>1. UNCHANGED <<sess_used, ws, conn, backlog, file>>
    BY <1>1, Zenon DEF PollNoConn, PollSelectError, PollPanic, PollFails, lists, pools, net
  <2>2. RepliesOK'
    BY <2>1, FrameReplies DEF ReplyInv
  <2>3. QED
    BY <2>1, <2>2 DEF ReplyInv, QueueOK, OneReplyHeader
<1>2. QED
  BY <1>1, RefuseReplies, AcceptReplies DEF Poll

LEMMA VisitPassed ==
    ASSUME ListInv, DataInv, RepliesOK,
           VisitHeader \/ VisitPostRx \/ VisitContent \/ VisitSendData
    PROVE  pc = "visit" /\ cur # NULL /\ cur \in sess_used /\ \E r : Passed(r)
<1>1. \E r : Passed(r)
  BY HeaderPassed, PostRxPassed, ContentPassed, SendDataPassed
<1>2. pc = "visit" /\ cur # NULL
  BY DEF VisitHeader, VisitPostRx, VisitContent, VisitSendData, Visiting
<1>3. QED
  BY <1>1, <1>2, CursorUsed

LEMMA VisitReplies ==
    ASSUME ListInv, DataInv, ReplyInv, Visit
    PROVE  ReplyInv'
<1>1. CASE VisitHeader \/ VisitPostRx \/ VisitContent \/ VisitSendData
  BY <1>1, VisitPassed, PassedReplies DEF ReplyInv
<1>2. CASE VisitRecvError \/ VisitPushing
  <2>1. UNCHANGED <<sess_used, ws, conn, backlog, file>>
    BY <1>2, Zenon DEF VisitRecvError, VisitPushing, PollFails, lists, pools, net
  <2>2. RepliesOK'
    BY <2>1, FrameReplies DEF ReplyInv
  <2>3. QED
    BY <2>1, <2>2 DEF ReplyInv, QueueOK, OneReplyHeader
<1>3. CASE VisitEnding
  <2> DEFINE st == "ENDING"
             w  == Work(cur)
  <2>1. Visiting(st) /\ wi_delsess(cur, w)
    BY <1>3 DEF VisitEnding
  <2>2. Keeps(Work(cur), w) /\ cur \in sess_used
    BY <2>1, VisitedGood DEF Good
  <2>3. w.co.hdrs <= 1
    BY <2>2 DEF ReplyInv, RepliesOK, Replying, Whole
  <2> HIDE DEF w, st
  <2>4. QED
    BY <2>1, <2>2, <2>3, DeletedReplies
<1>4. QED
  BY <1>1, <1>2, <1>3 DEF Visit

LEMMA RestartReplies ==
    ASSUME ListInv, DataInv, ReplyInv, Restart
    PROVE  ReplyInv'
<1>1. CASE RestartClose
  <2>1. /\ conn' = [c \in Conn |-> IF conn[c].phase = "backlog" THEN ClosedConn(conn[c]) ELSE conn[c]]
        /\ backlog' = <<>>
        /\ UNCHANGED <<sess_used, ws, file>>
    BY <1>1 DEF RestartClose, lists, pools
  <2>2. RepliesOK'
    <3>1. \A c \in Conn : conn[c].phase = "open" => conn'[c] = conn[c]
      BY <2>1
    <3>2. QED
      BY <2>1, <3>1, FrameReplies DEF ReplyInv
  <2>3. \A c \in Conn : conn'[c].hdrs = conn[c].hdrs
    BY <2>1 DEF ClosedConn, NoConnection
  <2>4. OneReplyHeader'
    BY <2>3 DEF ReplyInv, OneReplyHeader
  <2>5. QueueOK'
    BY <2>1 DEF QueueOK
  <2>6. QED
    BY <2>2, <2>4, <2>5 DEF ReplyInv
<1>2. CASE RestartDelete
  <2> DEFINE w == Work(cur)
  <2>1. pc = "clean" /\ cur # NULL /\ wi_delsess(cur, w)
    BY <1>2 DEF RestartDelete
  <2>2. cur \in sess_used
    BY <2>1, CursorUsed
  <2>3. Keeps(Work(cur), w) /\ w.co.hdrs <= 1
    BY <2>2, KeepsSelf DEF DataInv, SessionsOK, ReplyInv, RepliesOK, Replying, Whole
  <2> HIDE DEF w
  <2>4. QED
    BY <2>1, <2>2, <2>3, DeletedReplies
<1>3. CASE RestartInit
  <2>1. UNCHANGED <<sess_used, ws, conn, backlog, file>>
    BY <1>3, Zenon DEF RestartInit, lists, pools, net
  <2>2. RepliesOK'
    BY <2>1, FrameReplies DEF ReplyInv
  <2>3. QED
    BY <2>1, <2>2 DEF ReplyInv, QueueOK, OneReplyHeader
<1>4. QED
  BY <1>1, <1>2, <1>3 DEF Restart

\* What a client does to its connection.
LEMMA ClientConn ==
    ASSUME DataTypes, NEW c \in Conn,
           ClientSend(c) \/ ClientEof(c) \/ ClientReset(c) \/ ClientDrain(c)
    PROVE  /\ \A d \in Conn : d # c => conn'[d] = conn[d]
           /\ conn'[c].hdrs = conn[c].hdrs /\ conn'[c].req = conn[c].req
           /\ conn'[c].room \in {conn[c].room, ROOM}
           /\ conn[c].peer = "reset" => conn'[c].peer = "reset"
<1>1. conn \in [Conn -> Connection] /\ conn[c] \in Connection
  BY DEF DataTypes
<1>2. CASE ClientSend(c)
  <2>1. conn' = [conn EXCEPT ![c].sent = @ + 1]
    BY <1>2 DEF ClientSend
  <2>2. QED
    BY <1>1, <2>1 DEF Connection
<1>3. CASE ClientEof(c)
  <2>1. conn' = [conn EXCEPT ![c].peer = "eof"] /\ conn[c].peer = "open"
    BY <1>3 DEF ClientEof
  <2>2. QED
    BY <1>1, <2>1 DEF Connection
<1>4. CASE ClientReset(c)
  <2>1. conn' = [conn EXCEPT ![c].peer = "reset"]
    BY <1>4 DEF ClientReset
  <2>2. QED
    BY <1>1, <2>1 DEF Connection
<1>5. CASE ClientDrain(c)
  <2>1. conn' = [conn EXCEPT ![c].room = ROOM]
    BY <1>5 DEF ClientDrain
  <2>2. QED
    BY <1>1, <2>1 DEF Connection
<1>6. QED
  BY <1>2, <1>3, <1>4, <1>5

LEMMA ClientReplies ==
    ASSUME ListInv, DataInv, ReplyInv, NEW c \in Conn, Client(c)
    PROVE  ReplyInv'
<1>1. UNCHANGED <<sess_used, ws, file>> /\ DataTypes /\ backlog \in Seq(Conn)
  BY DEF Client, lists, pools, DataInv, DataTypes
<1>2. \A i \in 1 .. Len(backlog) :
         backlog[i] \in Conn /\ conn[backlog[i]].hdrs = 0 /\ conn[backlog[i]].room = ROOM
  BY <1>1, LenProperties DEF ReplyInv, QueueOK
<1>3. CASE \E r \in Requests : ClientConnect(c, r)
  <2>1. PICK r \in Requests : ClientConnect(c, r)
    BY <1>3
  <2> DEFINE x == [NoConnection EXCEPT !.phase = "backlog", !.req = r]
  <2>2. /\ conn[c].phase = "closed" /\ conn' = [conn EXCEPT ![c] = x]
        /\ backlog' = Append(backlog, c)
    BY <2>1 DEF ClientConnect
  <2>3. x.hdrs = 0 /\ x.room = ROOM
    BY DEF NoConnection
  <2> HIDE DEF x
  <2>4. conn'[c] = x /\ \A d \in Conn : d # c => conn'[d] = conn[d]
    BY <1>1, <2>2 DEF DataTypes
  <2>5. RepliesOK'
    <3>1. \A d \in Conn : conn[d].phase = "open" => conn'[d] = conn[d]
      BY <2>2, <2>4
    <3>2. QED
      BY <1>1, <3>1, FrameReplies DEF ReplyInv
  <2>6. OneReplyHeader'
    BY <2>3, <2>4 DEF ReplyInv, OneReplyHeader
  <2>7. QueueOK'
    <3>1. /\ Len(backlog') = Len(backlog) + 1 /\ Len(backlog) \in Nat
          /\ backlog'[Len(backlog) + 1] = c
          /\ \A i \in 1 .. Len(backlog) : backlog'[i] = backlog[i]
      BY <1>1, <2>2
    <3>2. \A i \in 1 .. Len(backlog') : i \in 1 .. Len(backlog) \/ i = Len(backlog) + 1
      BY <3>1
    <3>3. \A i \in 1 .. Len(backlog') : conn'[backlog'[i]].hdrs = 0 /\ conn'[backlog'[i]].room = ROOM
      BY <1>2, <2>3, <2>4, <3>1, <3>2
    <3>4. QED
      BY <3>3 DEF QueueOK
  <2>8. QED
    BY <2>5, <2>6, <2>7 DEF ReplyInv
<1>4. CASE (ClientSend(c) \/ ClientEof(c) \/ ClientReset(c) \/ ClientDrain(c)) /\ UNCHANGED backlog
  <2>1. /\ \A d \in Conn : d # c => conn'[d] = conn[d]
        /\ conn'[c].hdrs = conn[c].hdrs /\ conn'[c].req = conn[c].req
        /\ conn'[c].room \in {conn[c].room, ROOM}
        /\ conn[c].peer = "reset" => conn'[c].peer = "reset"
    BY <1>1, <1>4, ClientConn
  <2>2. \A d \in Conn : /\ conn'[d].hdrs = conn[d].hdrs /\ conn'[d].req = conn[d].req
                        /\ conn'[d].room \in {conn[d].room, ROOM}
                        /\ conn[d].peer = "reset" => conn'[d].peer = "reset"
    BY <2>1
  <2>3. RepliesOK'
    BY <1>1, <2>2, FrameReplies DEF ReplyInv
  <2>4. OneReplyHeader'
    BY <2>2 DEF ReplyInv, OneReplyHeader
  <2>5. QueueOK'
    <3>1. backlog' = backlog
      BY <1>4
    <3>2. QED
      BY <1>2, <2>2, <3>1 DEF QueueOK
  <2>6. QED
    BY <2>3, <2>4, <2>5 DEF ReplyInv
<1>5. QED
  BY <1>3, <1>4 DEF Client

\* What the clock and the push code do to the sessions.
LEMMA TickOrEnd ==
    ASSUME DataTypes, Tick \/ \E s \in Sess : PushEnd(s)
    PROVE  /\ UNCHANGED <<sess_used, conn, backlog, tx_used, form_used, file>>
           /\ \A s \in Sess :
                 /\ ws'[s].tx = ws[s].tx /\ ws'[s].files = ws[s].files
                 /\ ws'[s].forms = ws[s].forms
                 /\ ws'[s].sock = ws[s].sock /\ ws'[s].flags = ws[s].flags
                 /\ ws'[s].state \in {ws[s].state, "ENDING"}
<1>1. UNCHANGED <<sess_used, conn, backlog, tx_used, form_used, file>>
  BY DEF Tick, PushEnd, lists, net, pools
<1>2. ASSUME NEW s \in Sess
      PROVE  \/ ws'[s] = ws[s]
             \/ \E x : ws'[s] = [ws[s] EXCEPT !.idle = x]
             \/ ws'[s] = [ws[s] EXCEPT !.state = "ENDING"]
  BY <1>2 DEF Tick, PushEnd, DataTypes
<1>3. ASSUME NEW s \in Sess
      PROVE  /\ ws'[s].tx = ws[s].tx /\ ws'[s].files = ws[s].files
             /\ ws'[s].forms = ws[s].forms
             /\ ws'[s].sock = ws[s].sock /\ ws'[s].flags = ws[s].flags
             /\ ws'[s].state \in {ws[s].state, "ENDING"}
  <2>1. ws[s] \in WiSess
    BY DEF DataTypes
  <2>2. QED
    BY <1>2, <2>1 DEF WiSess
<1>4. QED
  BY <1>1, <1>3

LEMMA TickOrEndReplies ==
    ASSUME ListInv, DataInv, ReplyInv, Tick \/ \E s \in Sess : PushEnd(s)
    PROVE  ReplyInv'
<1>1. sess_used \subseteq Sess /\ DataTypes
  BY DEF ListInv, DataInv
<1>2. /\ UNCHANGED <<sess_used, conn, backlog, file>>
      /\ \A s \in Sess :
            /\ ws'[s].tx = ws[s].tx /\ ws'[s].files = ws[s].files
            /\ ws'[s].sock = ws[s].sock /\ ws'[s].flags = ws[s].flags
            /\ ws'[s].state \in {ws[s].state, "ENDING"}
  BY <1>1, TickOrEnd
<1>3. RepliesOK'
  BY <1>1, <1>2, FrameReplies DEF ReplyInv
<1>4. QED
  BY <1>2, <1>3 DEF ReplyInv, QueueOK, OneReplyHeader

\* The invariant of IInv and ReplyInv.
RInv == IInv /\ ReplyInv

LEMMA InitRInv == Init => RInv
<1> SUFFICES ASSUME Init
             PROVE  RInv
  OBVIOUS
<1>1. RepliesOK /\ QueueOK
  BY DEF Init, RepliesOK, QueueOK
<1>2. OneReplyHeader
  BY DEF Init, OneReplyHeader, NoConnection
<1>3. QED
  BY <1>1, <1>2, InitIInv DEF RInv, ReplyInv

LEMMA NextRInv == RInv /\ [Next]_vars => RInv'
<1> SUFFICES ASSUME RInv, [Next]_vars
             PROVE  RInv'
  OBVIOUS
<1>1. IInv /\ ListInv /\ DataInv /\ ReplyInv
  BY DEF RInv, IInv
<1>2. IInv'
  BY <1>1, NextIInv
<1>3. CASE Poll
  BY <1>1, <1>2, <1>3, PollReplies DEF RInv
<1>4. CASE Visit
  BY <1>1, <1>2, <1>4, VisitReplies DEF RInv
<1>5. CASE Restart
  BY <1>1, <1>2, <1>5, RestartReplies DEF RInv
<1>6. CASE Environment
  BY <1>1, <1>2, <1>6, ClientReplies, TickOrEndReplies DEF RInv, Environment
<1>7. CASE UNCHANGED vars
  <2>1. UNCHANGED <<sess_used, ws, conn, backlog, file>>
    BY <1>7 DEF vars
  <2>2. RepliesOK'
    BY <1>1, <2>1, FrameReplies DEF ReplyInv
  <2>3. QED
    BY <1>1, <1>2, <2>1, <2>2 DEF RInv, ReplyInv, QueueOK, OneReplyHeader
<1>8. QED
  BY <1>3, <1>4, <1>5, <1>6, <1>7 DEF Next, Server

LEMMA ReachableReplies == Spec => []RInv
BY InitRInv, NextRInv, PTL DEF Spec

\* A client is sent one reply header, whatever files it asked for and includes it reached,
\* at whatever place the send failed or the socket took nothing.
THEOREM OneHeaderSafe == Spec => []OneReplyHeader
<1>1. RInv => OneReplyHeader
  BY DEF RInv, ReplyInv
<1>2. QED
  BY <1>1, ReachableReplies, PTL

\* wi_senderr, wi_txdone and wi_delsess are the only ways a socket is closed, and no text
\* waits when the first two close it.
THEOREM ClosedWhenSent == Spec => ClosesAfterLastTxbuf
<1>1. ASSUME RInv', NEW s \in sess_used', ws'[s].sock = NoSock
      PROVE  ws'[s].tx = {}
  <2>1. RepliesOK'
    BY <1>1 DEF RInv, ReplyInv
  <2>2. Replying(Work(s))'
    BY <2>1 DEF RepliesOK
  <2>3. Work(s)'.se = ws'[s]
    BY DEF Work
  <2>4. QED
    BY <1>1, <2>2, <2>3 DEF Replying, Whole
<1>2. RInv /\ [Next]_vars =>
         [\A s \in sess_used \cap sess_used' :
             ws[s].sock # NoSock /\ ws'[s].sock = NoSock => ws'[s].tx = {}]_vars
  BY <1>1, NextRInv
<1>3. QED
  BY <1>2, ReachableReplies, PTL DEF Spec, ClosesAfterLastTxbuf

----------------------------------------------------------------------------
(* The steps *)

\* A step that works on no session's reply, or ends a session from outside.
Aside ==
    /\ sess_used \subseteq sess_used'
    /\ UNCHANGED <<form_used, file>>
    /\ \A s \in sess_used : /\ ws'[s].files = ws[s].files /\ ws'[s].forms = ws[s].forms
                            /\ ws'[s].sock = ws[s].sock
    /\ \A s \in sess_used' \ sess_used : ws'[s].files = <<>> /\ ws'[s].forms = {}
    /\ \A s \in Sess : ws'[s].state \in {ws[s].state, "ENDING", "HEADER"}

\* A session is deleted as it is: it is done, or the server restarts.
Dropped ==
    /\ pc = "clean" \/ (pc = "visit" /\ ws[cur].state = "ENDING")
    /\ wi_delsess(cur, Work(cur))

AtWork == cur \in sess_used /\ (Dropped \/ (pc = "visit" /\ \E r : Passed(r)))

LEMMA AcceptAside ==
    ASSUME RInv, PollAccept
    PROVE  Aside
<1>1. /\ sess_used # Sess /\ sess_used \subseteq Sess /\ ws \in [Sess -> WiSess]
  BY Zenon DEF PollAccept, RInv, IInv, ListInv, DataInv, DataTypes
<1> DEFINE slot == FirstSlot(Sess \ sess_used)
<1>2. slot \in Sess \ sess_used
  BY <1>1, FirstSlotIn, SlotTypes
<1>3. PICK s \in Sess \ sess_used : s = slot
  BY <1>2
<1> HIDE DEF slot
<1>4. /\ sess_used' = sess_used \cup {s}
      /\ ws' = [ws EXCEPT ![s] = NewSess(NewSock)]
      /\ UNCHANGED <<form_used, file>>
  BY <1>3, Zenon DEF PollAccept, pools, slot
<1>5. /\ ws'[s] = NewSess(NewSock) /\ \A t \in Sess \ {s} : ws'[t] = ws[t]
  BY <1>1, <1>3, <1>4
<1>6. ws'[s].files = <<>> /\ ws'[s].forms = {} /\ ws'[s].state = "HEADER"
  BY <1>5 DEF NewSess
<1>7. QED
  BY <1>1, <1>3, <1>4, <1>5, <1>6 DEF Aside

LEMMA StepKinds ==
    ASSUME RInv, [Next]_vars
    PROVE  Aside \/ AtWork
<1>1. /\ ListInv /\ DataInv /\ RepliesOK /\ DataTypes /\ sess_used \subseteq Sess
  BY DEF RInv, IInv, ReplyInv, DataInv, ListInv
<1>2. ASSUME UNCHANGED <<sess_used, ws, form_used, file>>
      PROVE  Aside
  BY <1>2 DEF Aside
<1>3. CASE Poll
  <2>1. CASE PollAccept
    BY <2>1, AcceptAside
  <2>2. CASE PollNoConn \/ PollRefuse \/ PollAcceptNoSlot \/ PollNameError \/ PollSelectError \/ PollPanic
    <3>1. UNCHANGED <<sess_used, ws, form_used, file>>
      BY <2>2, Zenon DEF PollNoConn, PollRefuse, PollAcceptNoSlot, PollNameError,
            PollSelectError, PollPanic, PollFails, lists, pools
    <3>2. QED
      BY <1>2, <3>1
  <2>3. QED
    BY <1>3, <2>1, <2>2 DEF Poll
<1>4. CASE Visit
  <2>1. CASE VisitHeader \/ VisitPostRx \/ VisitContent \/ VisitSendData
    BY <1>1, <2>1, VisitPassed DEF AtWork
  <2>2. CASE VisitRecvError \/ VisitPushing
    <3>1. UNCHANGED <<sess_used, ws, form_used, file>>
      BY <2>2, Zenon DEF VisitRecvError, VisitPushing, PollFails, lists, pools
    <3>2. QED
      BY <1>2, <3>1
  <2>3. CASE VisitEnding
    <3>1. pc = "visit" /\ cur # NULL /\ ws[cur].state = "ENDING" /\ wi_delsess(cur, Work(cur))
      BY <2>3 DEF VisitEnding, Visiting
    <3>2. QED
      BY <1>1, <3>1, CursorUsed DEF AtWork, Dropped
  <2>4. QED
    BY <1>4, <2>1, <2>2, <2>3 DEF Visit
<1>5. CASE Restart
  <2>1. CASE RestartClose \/ RestartInit
    <3>1. UNCHANGED <<sess_used, ws, form_used, file>>
      BY <2>1, Zenon DEF RestartClose, RestartInit, lists, pools
    <3>2. QED
      BY <1>2, <3>1
  <2>2. CASE RestartDelete
    <3>1. pc = "clean" /\ cur # NULL /\ wi_delsess(cur, Work(cur))
      BY <2>2 DEF RestartDelete
    <3>2. QED
      BY <1>1, <3>1, CursorUsed DEF AtWork, Dropped
  <2>3. QED
    BY <1>5, <2>1, <2>2 DEF Restart
<1>6. CASE Environment
  <2>1. CASE \E c \in Conn : Client(c)
    <3>1. UNCHANGED <<sess_used, ws, form_used, file>>
      BY <2>1, Zenon DEF Client, lists, pools
    <3>2. QED
      BY <1>2, <3>1
  <2>2. CASE Tick \/ \E s \in Sess : PushEnd(s)
    BY <1>1, <2>2, TickOrEnd DEF Aside
  <2>3. QED
    BY <1>6, <2>1, <2>2 DEF Environment
<1>7. CASE UNCHANGED vars
  BY <1>2, <1>7 DEF vars
<1>8. QED
  BY <1>3, <1>4, <1>5, <1>6, <1>7 DEF Next, Server

\* What a step at work does to the sessions: the one under the cursor is left as a visit
\* left it, or is deleted, and the others are as they were.
LEMMA WorkSteps ==
    ASSUME RInv, AtWork
    PROVE  /\ cur \in Sess /\ \A t \in Sess \ {cur} : ws'[t] = ws[t]
           /\ \/ /\ sess_used' = sess_used
                 /\ \E r : /\ pc = "visit" /\ Left(Work(cur), r) /\ Base(r)
                           /\ ws'[cur] = r.se /\ form_used' = r.form /\ file' = r.file
              \/ /\ sess_used' = sess_used \ {cur} /\ ws'[cur] = NewSess(NoSock)
                 /\ \E w : /\ Base(w) /\ form_used' = w.form \ w.se.forms
                           /\ Len(w.se.files) <= 1 =>
                                 {f \in FileSlot : file'[f] # FreeFile} = Lost(w)
                           /\ \/ /\ w = Work(cur)
                                 /\ pc = "clean" \/ (pc = "visit" /\ ws[cur].state = "ENDING")
                              \/ /\ pc = "visit" /\ Left(Work(cur), w)
                                 /\ Stalled(Work(cur)) /\ Len(w.se.files) <= Len(ws[cur].files)
<1>1. /\ cur \in sess_used /\ cur \in Sess /\ DataTypes /\ Base(Work(cur))
  BY DEF AtWork, RInv, IInv, ListInv, DataInv, SessionsOK
<1>2. ASSUME NEW w, Base(w), wi_delsess(cur, w)
      PROVE  /\ sess_used' = sess_used \ {cur} /\ ws'[cur] = NewSess(NoSock)
             /\ \A t \in Sess \ {cur} : ws'[t] = ws[t]
             /\ form_used' = w.form \ w.se.forms
             /\ Len(w.se.files) <= 1 => {f \in FileSlot : file'[f] # FreeFile} = Lost(w)
  <2> DEFINE r == Release(w)
  <2>1. Store(cur, r) /\ sess_used' = sess_used \ {cur} /\ r = Release(w)
    BY <1>2 DEF wi_delsess
  <2>2. r \in WorkSet
    BY <1>2, ReleaseFreed DEF Freed
  <2> HIDE DEF r
  <2>3. /\ r.se = NewSess(NoSock) /\ r.form = w.form \ w.se.forms
        /\ Len(w.se.files) <= 1 => {f \in FileSlot : r.file[f] # FreeFile} = Lost(w)
    BY <1>2, <2>1, ReleaseContract
  <2>4. /\ ws'[cur] = r.se /\ \A t \in Sess \ {cur} : ws'[t] = ws[t]
        /\ form_used' = r.form /\ file' = r.file
    BY <1>1, <2>1, <2>2, StoreFields
  <2>5. QED
    BY <2>1, <2>3, <2>4
<1>3. CASE Dropped
  BY <1>1, <1>2, <1>3 DEF Dropped
<1>4. CASE pc = "visit" /\ \E r : Passed(r)
  <2>1. PICK r : Passed(r)
    BY <1>4
  <2>2. Left(Work(cur), r) /\ Base(r) /\ r \in WorkSet
    BY <2>1 DEF Passed, Left, Good, Keeps, Base
  <2>3. CASE Store(cur, r) /\ sess_used' = sess_used
    <3>1. /\ ws'[cur] = r.se /\ \A t \in Sess \ {cur} : ws'[t] = ws[t]
          /\ form_used' = r.form /\ file' = r.file
      BY <1>1, <2>2, <2>3, StoreFields
    <3>2. QED
      BY <1>1, <1>4, <2>2, <2>3, <3>1
  <2>4. CASE r.se.idle > TMO /\ wi_delsess(cur, r) /\ Break(r)
    <3>1. Stalled(Work(cur)) /\ Len(r.se.files) <= Len(ws[cur].files)
      <4>1. CASE Again(r)
        <5>1. cur \in sess_used' /\ sess_used' = sess_used \ {cur}
          BY <1>1, <2>4, <4>1 DEF Again, lists, wi_delsess
        <5>2. QED
          BY <5>1
      <4>2. CASE ~Again(r)
        BY <2>1, <2>4, <4>2 DEF Passed
      <4>3. QED
        BY <4>1, <4>2
    <3>2. QED
      BY <1>1, <1>2, <1>4, <2>2, <2>4, <3>1
  <2>5. (Store(cur, r) /\ sess_used' = sess_used) \/ (r.se.idle > TMO /\ wi_delsess(cur, r) /\ Break(r))
    BY <2>1, Zenon DEF Passed, Again, Break, lists
  <2>6. QED
    BY <2>3, <2>4, <2>5
<1>5. QED
  BY <1>3, <1>4 DEF AtWork

\* Between two restarts a session is deleted by its own visit, when it is done or nothing
\* moved on it for TMO ticks, and never while it waits for POST content or push code has it.
THEOREM DeletesSafe == Spec => DeletesOnlyDone
<1>1. ASSUME RInv, [Next]_vars, NEW s \in Sess, Deleted(s), pc = "visit"
      PROVE  /\ s = cur
             /\ ws[s].state \in {"HEADER", "CONTENT", "SENDDATA", "ENDING"}
             /\ ws[s].state = "ENDING" \/ Inactive(s) \/ "BINARY" \in ws[s].flags
  <2>1. AtWork
    BY <1>1, StepKinds DEF Deleted, Aside
  <2>2. /\ sess_used' = sess_used \/ sess_used' = sess_used \ {cur}
        /\ sess_used' = sess_used \/ ws[cur].state = "ENDING"
           \/ (Stalled(Work(cur)) /\ Work(cur).se.sock # NoSock)
    BY <1>1, <2>1, WorkSteps DEF Left
  <2>3. s = cur
    BY <1>1, <2>2 DEF Deleted
  <2>4. sess_used' # sess_used
    BY <1>1 DEF Deleted
  <2>5. CASE ws[cur].state = "ENDING"
    BY <2>3, <2>5
  <2>6. CASE Stalled(Work(cur)) /\ Work(cur).se.sock # NoSock
    <3>1. Work(cur).se = ws[cur] /\ Work(cur).co = conn[ws[cur].sock]
      BY <2>6, WorkFields
    <3>2. /\ ws[cur].state \in {"HEADER", "CONTENT", "SENDDATA"}
          /\ Inactive(cur) \/ "BINARY" \in ws[cur].flags
      BY <2>6, <3>1 DEF Stalled, Inactive, Loaded
    <3>3. QED
      BY <2>3, <3>2
  <2>7. QED
    BY <2>2, <2>4, <2>5, <2>6
<1>2. RInv /\ [Next]_vars =>
         [\A s \in Sess : Deleted(s) /\ pc = "visit" =>
             /\ s = cur
             /\ ws[s].state \in {"HEADER", "CONTENT", "SENDDATA", "ENDING"}
             /\ ws[s].state = "ENDING" \/ Inactive(s) \/ "BINARY" \in ws[s].flags]_vars
  BY <1>1
<1>3. QED
  BY <1>2, ReachableReplies, PTL DEF Spec, DeletesOnlyDone

\* A session goes from POSTRX to CONTENT only in its own visit, with all its content.
LEMMA FormSteps ==
    ASSUME RInv, [Next]_vars, NEW s \in Sess, ws[s].state = "POSTRX", ws'[s].state = "CONTENT"
    PROVE  s = cur /\ s \in sess_used /\ ws[s].sock # NoSock /\ ContentCame(Work(s))
<1>1. AtWork
  BY StepKinds DEF Aside
<1>2. s = cur
  BY <1>1, WorkSteps
<1>3. NewSess(NoSock).state = "HEADER"
  BY DEF NewSess
<1>4. \E r : Left(Work(s), r) /\ ws'[s] = r.se
  BY <1>1, <1>2, <1>3, WorkSteps
<1>5. Work(s).se = ws[s]
  BY WorkFields
<1>6. QED
  BY <1>1, <1>2, <1>4, <1>5 DEF AtWork, Left

\* A form is built from all the content announced, unless one recv returned as many bytes
\* as the value of ENOTCONN (webio.c:239), whatever that value is.
THEOREM FormsFromContent ==
    Spec => [][\A s \in Sess : ws[s].state = "POSTRX" /\ ws'[s].state = "CONTENT" =>
                  LET co == conn[ws[s].sock]
                  IN  \/ co.sent - co.req.hdr >= co.req.body
                      \/ Received(Work(s)) = ENOTCONN]_vars
<1>1. ASSUME RInv, [Next]_vars, NEW s \in Sess, ws[s].state = "POSTRX", ws'[s].state = "CONTENT"
      PROVE  LET co == conn[ws[s].sock]
             IN  \/ co.sent - co.req.hdr >= co.req.body
                 \/ Received(Work(s)) = ENOTCONN
  BY <1>1, FormSteps, WorkFields DEF ContentCame
<1>2. RInv /\ [Next]_vars =>
         [\A s \in Sess : ws[s].state = "POSTRX" /\ ws'[s].state = "CONTENT" =>
                  LET co == conn[ws[s].sock]
                  IN  \/ co.sent - co.req.hdr >= co.req.body
                      \/ Received(Work(s)) = ENOTCONN]_vars
  BY <1>1
<1>3. QED
  BY <1>2, ReachableReplies, PTL DEF Spec

\* Where no recv into ws_rxbuf can return ENOTCONN bytes, a form is built from all the
\* content announced: so on Windows, where ENOTCONN is WSAENOTCONN, 10057 (websys.h:127),
\* and WI_RXBUFSIZE is 1536 (websys.h:32).  FormsFromContent is about the other ports.
THEOREM FormsWhole == ENOTCONN > RXBUF => (Spec => FormsBuiltWhole)
<1> SUFFICES ASSUME ENOTCONN > RXBUF
             PROVE  Spec => FormsBuiltWhole
  OBVIOUS
<1>1. ASSUME RInv, [Next]_vars, NEW s \in Sess, ws[s].state = "POSTRX", ws'[s].state = "CONTENT"
      PROVE  LET co == conn[ws[s].sock]
             IN  co.sent - co.req.hdr >= co.req.body \/ co.peer # "open"
  <2>1. s \in sess_used /\ ws[s].sock # NoSock /\ ContentCame(Work(s))
    BY <1>1, FormSteps
  <2>2. Work(s).se = ws[s] /\ Work(s).co = conn[ws[s].sock]
    BY <2>1, WorkFields
  <2>3. Work(s).se.rx \in 0 .. RXBUF /\ Work(s).co.sent \in Nat
    <3>1. Base(Work(s))
      BY <1>1, <2>1 DEF RInv, IInv, DataInv, SessionsOK
    <3>2. QED
      BY <3>1, SeTypes DEF WiSess, Connection
  <2>4. Received(Work(s)) # ENOTCONN
    BY <2>3, UnitsAssumption DEF Received, Min2
  <2>5. QED
    BY <2>1, <2>2, <2>4 DEF ContentCame
<1>2. RInv /\ [Next]_vars =>
         [\A s \in Sess : ws[s].state = "POSTRX" /\ ws'[s].state = "CONTENT" =>
             LET co == conn[ws[s].sock]
             IN  co.sent - co.req.hdr >= co.req.body \/ co.peer # "open"]_vars
  BY <1>1
<1>3. QED
  BY <1>2, ReachableReplies, PTL DEF Spec, FormsBuiltWhole

\* What the sessions but s have.
OtherForms(s) == UNION {ws[t].forms : t \in sess_used \ {s}}
OtherFiles(s) == UNION {Files(t) : t \in sess_used \ {s}}

LEMMA LostSplit ==
    ASSUME DataTypes, sess_used \subseteq Sess
    PROVE  /\ LostFiles = {f \in FileSlot : file[f] # FreeFile} \ UNION {Files(t) : t \in sess_used}
           /\ \A s \in sess_used :
                 /\ LostForms = (form_used \ ws[s].forms) \ OtherForms(s)
                 /\ LostFiles = Lost(Work(s)) \ OtherFiles(s)
<1>1. \A t \in sess_used : {ws[t].files[i] : i \in DOMAIN ws[t].files} = Files(t)
  BY DEF DataTypes, WiSess, Files
<1>2. LostFiles = {f \in FileSlot : file[f] # FreeFile} \ UNION {Files(t) : t \in sess_used}
  BY <1>1 DEF LostFiles
<1>3. ASSUME NEW s \in sess_used
      PROVE  /\ LostForms = (form_used \ ws[s].forms) \ OtherForms(s)
             /\ LostFiles = Lost(Work(s)) \ OtherFiles(s)
  <2>1. LostForms = (form_used \ ws[s].forms) \ OtherForms(s)
    BY DEF LostForms, OtherForms
  <2>2. Lost(Work(s)) = {f \in FileSlot : file[f] # FreeFile} \ Files(s)
    BY WorkFields DEF Lost
  <2>3. QED
    BY <1>2, <2>1, <2>2 DEF OtherFiles
<1>4. QED
  BY <1>2, <1>3

LEMMA AsideLosesNothing ==
    ASSUME DataTypes, DataTypes', sess_used \subseteq Sess, sess_used' \subseteq Sess, Aside
    PROVE  LostForms' = LostForms /\ LostFiles' = LostFiles
<1>1. /\ sess_used \subseteq sess_used' /\ form_used' = form_used /\ file' = file
      /\ \A s \in sess_used : ws'[s].files = ws[s].files /\ ws'[s].forms = ws[s].forms
      /\ \A s \in sess_used' \ sess_used : ws'[s].files = <<>> /\ ws'[s].forms = {}
  BY DEF Aside
<1>2. /\ \A s \in sess_used : Files(s)' = Files(s)
      /\ \A s \in sess_used' \ sess_used : Files(s)' = {}
  BY <1>1 DEF Files
<1>3. UNION {Files(t)' : t \in sess_used'} = UNION {Files(t) : t \in sess_used}
  BY <1>1, <1>2
<1>4. UNION {ws'[t].forms : t \in sess_used'} = UNION {ws[t].forms : t \in sess_used}
  BY <1>1
<1>5. LostFiles = {f \in FileSlot : file[f] # FreeFile} \ UNION {Files(t) : t \in sess_used}
  BY LostSplit
<1>6. LostFiles' = {f \in FileSlot : file'[f] # FreeFile} \ UNION {Files(t)' : t \in sess_used'}
  <2>1. \A t \in sess_used' : {ws'[t].files[i] : i \in DOMAIN ws'[t].files} = Files(t)'
    BY DEF DataTypes, WiSess, Files
  <2>2. QED
    BY <2>1 DEF LostFiles
<1>7. QED
  BY <1>1, <1>3, <1>4, <1>5, <1>6 DEF LostForms

\* What is lost after a step at work: K and L are what the tables have in use of which the
\* session is not the owner, when the step is done.
LEMMA WorkLost ==
    ASSUME RInv, RInv', AtWork
    PROVE  \E K, L :
              /\ LostForms = (form_used \ ws[cur].forms) \ OtherForms(cur)
              /\ LostForms' = K \ OtherForms(cur)
              /\ LostFiles = Lost(Work(cur)) \ OtherFiles(cur)
              /\ LostFiles' = L \ OtherFiles(cur)
              /\ \/ K = form_used \ ws[cur].forms
                 \/ /\ pc = "visit" /\ ws[cur].sock # NoSock
                    /\ BadPairs(conn[ws[cur].sock].req)
                    /\ \E f \in FormSlot \ (form_used \ ws[cur].forms) :
                          K = (form_used \ ws[cur].forms) \cup {f}
              /\ \/ L = Lost(Work(cur))
                 \/ cur \in sess_used \ sess_used' /\ Len(ws[cur].files) > 1
<1>1. /\ cur \in sess_used /\ cur \in Sess /\ sess_used \subseteq Sess /\ DataTypes
      /\ sess_used' \subseteq Sess /\ DataTypes' /\ Base(Work(cur))
  BY DEF AtWork, RInv, IInv, ListInv, DataInv, SessionsOK
<1>2. /\ LostForms = (form_used \ ws[cur].forms) \ OtherForms(cur)
      /\ LostFiles = Lost(Work(cur)) \ OtherFiles(cur)
  BY <1>1, LostSplit
<1>3. \A t \in Sess \ {cur} : ws'[t] = ws[t] /\ Files(t)' = Files(t)
  BY WorkSteps DEF Files
<1>4. \A t \in sess_used' : {ws'[t].files[i] : i \in DOMAIN ws'[t].files} = Files(t)'
  <2> SUFFICES ASSUME NEW t \in sess_used'
               PROVE  {ws'[t].files[i] : i \in DOMAIN ws'[t].files} = Files(t)'
    OBVIOUS
  <2>1. ws'[t].files \in Seq(FileSlot)
    BY <1>1 DEF DataTypes, WiSess
  <2>2. DOMAIN ws'[t].files = 1 .. Len(ws'[t].files)
    BY <2>1
  <2>3. QED
    BY <2>2 DEF Files
<1>5. /\ Work(cur).se = ws[cur] /\ Work(cur).form = form_used
      /\ (ws[cur].sock # NoSock => Work(cur).co = conn[ws[cur].sock])
      /\ Len(ws[cur].files) \in Nat
  BY <1>1, WorkFields, OwnInTable
<1>6. ASSUME NEW r, pc = "visit", Left(Work(cur), r)
      PROVE  /\ Lost(r) = Lost(Work(cur))
             /\ \/ r.form \ r.se.forms = form_used \ ws[cur].forms
                \/ /\ pc = "visit" /\ ws[cur].sock # NoSock
                   /\ BadPairs(conn[ws[cur].sock].req)
                   /\ \E f \in FormSlot \ (form_used \ ws[cur].forms) :
                         r.form \ r.se.forms = (form_used \ ws[cur].forms) \cup {f}
  BY <1>5, <1>6 DEF Left, Parsed
<1>7. CASE /\ sess_used' = sess_used
           /\ \E r : /\ pc = "visit" /\ Left(Work(cur), r) /\ Base(r)
                     /\ ws'[cur] = r.se /\ form_used' = r.form /\ file' = r.file
  <2>1. PICK r : /\ pc = "visit" /\ Left(Work(cur), r) /\ Base(r)
                 /\ ws'[cur] = r.se /\ form_used' = r.form /\ file' = r.file
    BY <1>7
  <2>2. PICK s \in sess_used : s = cur /\ Files(s)' = Own(r)
    <3>1. PICK s \in sess_used : s = cur
      BY <1>1
    <3>2. Files(s)' = Own(r)
      BY <2>1, <3>1 DEF Files, Own
    <3>3. QED
      BY <3>1, <3>2
  <2>3. LostForms' = (r.form \ r.se.forms) \ OtherForms(cur)
    <3>1. UNION {ws'[t].forms : t \in sess_used'} = r.se.forms \cup OtherForms(cur)
      BY <1>1, <1>3, <1>7, <2>1 DEF OtherForms
    <3>2. QED
      BY <2>1, <3>1 DEF LostForms
  <2>4. LostFiles' = Lost(r) \ OtherFiles(cur)
    <3>1. UNION {Files(t)' : t \in sess_used'} = Own(r) \cup OtherFiles(cur)
      BY <1>1, <1>3, <1>7, <2>2 DEF OtherFiles
    <3>2. LostFiles' = {f \in FileSlot : file'[f] # FreeFile} \ UNION {Files(t)' : t \in sess_used'}
      BY <1>4 DEF LostFiles
    <3>3. QED
      BY <2>1, <3>1, <3>2 DEF Lost
  <2>5. QED
    BY <1>2, <1>6, <2>1, <2>3, <2>4
<1>8. CASE /\ sess_used' = sess_used \ {cur} /\ ws'[cur] = NewSess(NoSock)
           /\ \E w : /\ Base(w) /\ form_used' = w.form \ w.se.forms
                     /\ Len(w.se.files) <= 1 =>
                           {f \in FileSlot : file'[f] # FreeFile} = Lost(w)
                     /\ \/ /\ w = Work(cur)
                           /\ pc = "clean" \/ (pc = "visit" /\ ws[cur].state = "ENDING")
                        \/ /\ pc = "visit" /\ Left(Work(cur), w)
                           /\ Stalled(Work(cur)) /\ Len(w.se.files) <= Len(ws[cur].files)
  <2>1. PICK w : /\ Base(w) /\ form_used' = w.form \ w.se.forms
                 /\ Len(w.se.files) <= 1 =>
                       {f \in FileSlot : file'[f] # FreeFile} = Lost(w)
                 /\ \/ w = Work(cur)
                    \/ /\ pc = "visit" /\ Left(Work(cur), w)
                       /\ Len(w.se.files) <= Len(ws[cur].files)
    BY <1>8
  <2>2. LostForms' = form_used' \ OtherForms(cur)
    <3>1. UNION {ws'[t].forms : t \in sess_used'} = OtherForms(cur)
      BY <1>1, <1>3, <1>8 DEF OtherForms
    <3>2. QED
      BY <3>1 DEF LostForms
  <2>3. LostFiles' = {f \in FileSlot : file'[f] # FreeFile} \ OtherFiles(cur)
    <3>1. UNION {Files(t)' : t \in sess_used'} = OtherFiles(cur)
      BY <1>1, <1>3, <1>8 DEF OtherFiles
    <3>2. LostFiles' = {f \in FileSlot : file'[f] # FreeFile} \ UNION {Files(t)' : t \in sess_used'}
      BY <1>4 DEF LostFiles
    <3>3. QED
      BY <3>1, <3>2
  <2>4. \/ form_used' = form_used \ ws[cur].forms
        \/ /\ pc = "visit" /\ ws[cur].sock # NoSock
           /\ BadPairs(conn[ws[cur].sock].req)
           /\ \E f \in FormSlot \ (form_used \ ws[cur].forms) :
                 form_used' = (form_used \ ws[cur].forms) \cup {f}
    BY <1>5, <1>6, <2>1
  <2>5. \/ {f \in FileSlot : file'[f] # FreeFile} = Lost(Work(cur))
        \/ cur \in sess_used \ sess_used' /\ Len(ws[cur].files) > 1
    <3>1. CASE Len(ws[cur].files) > 1
      BY <1>1, <1>8, <3>1
    <3>2. CASE Len(ws[cur].files) <= 1
      <4>1. Len(w.se.files) <= 1 /\ Lost(w) = Lost(Work(cur))
        <5>1. Len(w.se.files) \in Nat
          BY <2>1, OwnInTable
        <5>2. QED
          BY <1>5, <1>6, <2>1, <3>2, <5>1
      <4>2. QED
        BY <2>1, <4>1
    <3>3. QED
      BY <1>5, <3>1, <3>2
  <2>6. QED
    BY <1>2, <2>2, <2>3, <2>4, <2>5
<1>9. QED
  BY <1>7, <1>8, WorkSteps

\* The tables lose a form slot only in a visit whose request, or the include of whose page,
\* has malformed pairs, one at a time, and file slots only when a session is deleted with
\* an include open.
THEOREM SlotsLostThere == Spec => SlotsLostOnlyThere
<1>1. ASSUME RInv, RInv', [Next]_vars
      PROVE  /\ LostForms' # LostForms =>
                   /\ Cardinality(LostForms') = Cardinality(LostForms) + 1
                   /\ pc = "visit" /\ ws[cur].sock # NoSock
                   /\ BadPairs(conn[ws[cur].sock].req)
             /\ LostFiles' # LostFiles =>
                   \E s \in sess_used \ sess_used' : Len(ws[s].files) > 1
  <2>1. CASE Aside
    <3>1. DataTypes /\ DataTypes' /\ sess_used \subseteq Sess /\ sess_used' \subseteq Sess
      BY <1>1 DEF RInv, IInv, ListInv, DataInv
    <3>2. QED
      BY <2>1, <3>1, AsideLosesNothing
  <2>2. CASE AtWork
    <3>1. PICK K, L :
              /\ LostForms = (form_used \ ws[cur].forms) \ OtherForms(cur)
              /\ LostForms' = K \ OtherForms(cur)
              /\ LostFiles = Lost(Work(cur)) \ OtherFiles(cur)
              /\ LostFiles' = L \ OtherFiles(cur)
              /\ \/ K = form_used \ ws[cur].forms
                 \/ /\ pc = "visit" /\ ws[cur].sock # NoSock
                    /\ BadPairs(conn[ws[cur].sock].req)
                    /\ \E f \in FormSlot \ (form_used \ ws[cur].forms) :
                          K = (form_used \ ws[cur].forms) \cup {f}
              /\ \/ L = Lost(Work(cur))
                 \/ cur \in sess_used \ sess_used' /\ Len(ws[cur].files) > 1
      BY <1>1, <2>2, WorkLost
    <3>2. LostFiles' # LostFiles =>
             \E s \in sess_used \ sess_used' : Len(ws[s].files) > 1
      BY <3>1
    <3>3. CASE K = form_used \ ws[cur].forms
      BY <3>1, <3>2, <3>3
    <3>4. CASE /\ pc = "visit" /\ ws[cur].sock # NoSock
               /\ BadPairs(conn[ws[cur].sock].req)
               /\ \E f \in FormSlot \ (form_used \ ws[cur].forms) :
                     K = (form_used \ ws[cur].forms) \cup {f}
      <4>1. PICK f \in FormSlot \ (form_used \ ws[cur].forms) :
                     K = (form_used \ ws[cur].forms) \cup {f}
        BY <3>4
      <4>2. f \notin OtherForms(cur)
        <5>1. cur \in sess_used /\ sess_used \subseteq Sess /\ DataInv
          BY <1>1, <2>2 DEF AtWork, RInv, IInv, ListInv
        <5>2. /\ \A t \in sess_used : ws[t].forms \subseteq form_used
              /\ \A t \in sess_used \ {cur} : ws[t].forms \cap ws[cur].forms = {}
          BY <5>1, BaseWork DEF DataInv, SessionsOK, OwnersOK, Apart
        <5>3. QED
          BY <4>1, <5>2 DEF OtherForms
      <4>3. LostForms' = LostForms \cup {f} /\ f \notin LostForms
        BY <3>1, <4>1, <4>2
      <4>4. IsFiniteSet(LostForms)
        <5>1. IsFiniteSet(FormSlot)
          BY SlotsAssumption, FS_Interval DEF FormSlot
        <5>2. LostForms \subseteq FormSlot
          BY <1>1 DEF LostForms, RInv, IInv, DataInv, DataTypes
        <5>3. QED
          BY <5>1, <5>2, FS_Subset
      <4>5. Cardinality(LostForms') = Cardinality(LostForms) + 1
        BY <4>3, <4>4, FS_AddElement
      <4>6. QED
        BY <3>2, <3>4, <4>5
    <3>5. QED
      BY <3>1, <3>3, <3>4
  <2>3. QED
    BY <1>1, <2>1, <2>2, StepKinds
<1>2. RInv /\ RInv' /\ [Next]_vars =>
         [/\ LostForms' # LostForms =>
                /\ Cardinality(LostForms') = Cardinality(LostForms) + 1
                /\ pc = "visit" /\ ws[cur].sock # NoSock
                /\ BadPairs(conn[ws[cur].sock].req)
          /\ LostFiles' # LostFiles =>
                \E s \in sess_used \ sess_used' : Len(ws[s].files) > 1]_vars
  BY <1>1
<1>3. QED
  BY <1>2, ReachableReplies, PTL DEF Spec, SlotsLostOnlyThere

----------------------------------------------------------------------------
(* SessionLife: the initial state is one of its initial states, and each step of WebioServer
   is one of its steps or changes nothing of what it says *)

\* The refinement mapping of Life.
Phases  == [s \in Sess |-> IF s \in sess_used THEN ws[s].state ELSE "free"]
Socks   == [s \in Sess |-> IF s \in sess_used THEN ws[s].sock ELSE NoSock]
Running == pc \notin {"failed", "clean"}

\* The restart deletes the sessions from the head of the list on.
CleanOK == pc = "clean" => cur = HeadOf(wi_sessions)

LInv == RInv /\ CleanOK

----------------------------------------------------------------------------
(* The restart's walk over the list *)

LEMMA UnlinkHead ==
    ASSUME NEW S, NEW q \in Seq(S), Distinct(q), q # <<>>
    PROVE  HeadOf(Unlink(q, HeadOf(q))) = NextOf(q, HeadOf(q))
<1>1. /\ Len(q) \in Nat \ {0} /\ HeadOf(q) = q[1]
      /\ 1 \in 1 .. Len(q) /\ \A i \in 1 .. Len(q) : q[i] \in S
  BY LenProperties, EmptySeq DEF HeadOf
<1> DEFINE u == Unlink(q, q[1])
<1>2. u = [j \in 1 .. Len(q) - 1 |-> IF j < 1 THEN q[j] ELSE q[j + 1]]
  <2>1. (CHOOSE i \in 1 .. Len(q) : q[i] = q[1]) = 1
    BY <1>1 DEF Distinct
  <2>2. \E i \in 1 .. Len(q) : q[i] = q[1]
    BY <1>1
  <2>3. QED
    BY <2>1, <2>2, Zenon DEF Unlink
<1>3. u \in Seq(S) /\ Len(u) = Len(q) - 1
  BY <1>1, UnlinkProperties DEF Without
<1>4. CASE Len(q) = 1
  <2>1. u = <<>>
    BY <1>3, <1>4, EmptySeq
  <2>2. NextOf(q, q[1]) = NULL
    BY <1>4 DEF NextOf
  <2>3. QED
    BY <1>1, <2>1, <2>2 DEF HeadOf
<1>5. CASE Len(q) # 1
  <2> HIDE DEF u
  <2>0. 1 \in 1 .. Len(q) - 1
    <3>1. \A n \in Nat \ {0} : n # 1 => 1 \in 1 .. n - 1
      OBVIOUS
    <3>2. QED
      BY <1>1, <1>5, <3>1
  <2>1. 1 \in 1 .. Len(q) - 1 /\ u[1] = q[2]
    BY <1>2, <2>0
  <2>2. u # <<>> /\ Head(u) = q[2]
    BY <1>1, <1>3, <1>5, <2>1
  <2>3. (CHOOSE i \in 1 .. Len(q) - 1 : q[i] = q[1]) = 1
    BY <1>1, <2>1 DEF Distinct
  <2>4. NextOf(q, q[1]) = q[2]
    <3>1. \E i \in 1 .. Len(q) - 1 : q[i] = q[1]
      BY <2>1
    <3>2. NextOf(q, q[1]) = q[(CHOOSE i \in 1 .. Len(q) - 1 : q[i] = q[1]) + 1]
      BY <3>1, Zenon DEF NextOf
    <3>3. NextOf(q, q[1]) = q[1 + 1]
      BY <2>3, <3>2, Zenon
    <3>4. QED
      BY <3>3
  <2>5. QED
    BY <1>1, <2>2, <2>4 DEF HeadOf, u
<1>6. QED
  BY <1>4, <1>5

LEMMA NextCleanOK ==
    ASSUME ListInv, CleanOK, [Next]_vars
    PROVE  CleanOK'
<1>1. ASSUME NEW where, where # "clean", LeavePoll(where)
      PROVE  CleanOK'
  BY <1>1 DEF LeavePoll, CleanOK
<1>2. ASSUME pc # "clean", pc' = pc
      PROVE  CleanOK'
  BY <1>2 DEF CleanOK
<1>3. ASSUME NEW q, Advance(q), pc # "clean"
      PROVE  CleanOK'
  BY <1>3, <1>1, <1>2 DEF Advance
<1>4. ASSUME NEW q, StartLoop(q)
      PROVE  CleanOK'
  BY <1>4, <1>1 DEF StartLoop, CleanOK
<1>5. CASE Poll
  <2>1. CASE PollNoConn \/ PollRefuse \/ PollAccept
    BY <1>4, <2>1, Zenon DEF PollNoConn, PollRefuse, PollAccept
  <2>2. CASE PollAcceptNoSlot \/ PollNameError \/ PollSelectError \/ PollPanic
    <3>1. LeavePoll("failed") \/ LeavePoll("exited")
      BY <2>2, Zenon DEF PollAcceptNoSlot, PollNameError, PollSelectError, PollPanic, PollFails
    <3>2. QED
      BY <1>1, <3>1
  <2>3. QED
    BY <1>5, <2>1, <2>2 DEF Poll
<1>6. CASE Visit
  <2>1. pc = "visit"
    BY <1>6 DEF Visit, VisitHeader, VisitPostRx, VisitRecvError, VisitContent, VisitSendData,
                VisitEnding, VisitPushing, Visiting
  <2>2. CASE VisitHeader \/ VisitPostRx \/ VisitContent \/ VisitSendData
    <3>1. (\E w : Again(w)) \/ (\E w : Break(w))
      BY <2>2, VisitOutcome
    <3>2. pc' = pc \/ \E q : Advance(q)
      BY <3>1, Zenon DEF Again, Break
    <3>3. QED
      BY <1>2, <1>3, <2>1, <3>2
  <2>3. CASE VisitRecvError
    <3>1. LeavePoll("failed")
      BY <2>3, Zenon DEF VisitRecvError, PollFails
    <3>2. QED
      BY <1>1, <3>1
  <2>4. CASE VisitEnding \/ VisitPushing
    <3>1. \E q : Advance(q)
      BY <2>4, Zenon DEF VisitEnding, VisitPushing
    <3>2. QED
      BY <1>3, <2>1, <3>1
  <2>5. QED
    BY <1>6, <2>2, <2>3, <2>4 DEF Visit
<1>7. CASE RestartClose
  <2>1. cur' = HeadOf(wi_sessions) /\ wi_sessions' = wi_sessions
    BY <1>7 DEF RestartClose, MoveTo, lists
  <2>2. QED
    BY <2>1 DEF CleanOK
<1>8. CASE RestartDelete
  <2>1. /\ pc = "clean" /\ cur # NULL /\ wi_sessions' = Unlink(wi_sessions, cur) /\ cur' = nxt
    BY <1>8, Zenon DEF RestartDelete, wi_delsess, MoveTo
  <2>2. cur = HeadOf(wi_sessions) /\ nxt = NextOf(wi_sessions, cur) /\ wi_sessions # <<>>
    BY <2>1 DEF CleanOK, ListInv, CursorOK, HeadOf
  <2>3. Distinct(wi_sessions) /\ wi_sessions \in Seq(Sess)
    BY DEF ListInv, ListOK, Distinct
  <2>4. HeadOf(wi_sessions') = nxt
    BY <2>1, <2>2, <2>3, UnlinkHead
  <2>5. QED
    BY <2>1, <2>4 DEF CleanOK
<1>9. CASE RestartInit
  BY <1>9 DEF RestartInit, CleanOK
<1>10. CASE Environment \/ UNCHANGED vars
  <2>1. UNCHANGED <<wi_sessions, pc, cur>>
    BY <1>10, Zenon DEF Environment, Client, Tick, PushEnd, lists, cursor, vars
  <2>2. QED
    BY <2>1 DEF CleanOK
<1>11. QED
  BY <1>5, <1>6, <1>7, <1>8, <1>9, <1>10 DEF Next, Server, Restart

LEMMA ReachableLife == Spec => []LInv
<1>1. Init => LInv
  BY InitRInv DEF LInv, Init, CleanOK
<1>2. LInv /\ [Next]_vars => LInv'
  BY NextRInv, NextCleanOK DEF LInv, RInv, IInv
<1>3. QED
  BY <1>1, <1>2, PTL DEF Spec

----------------------------------------------------------------------------
(* The steps of SessionLife *)

\* What SessionLife says of session s after a step, and of the others.
Becomes(s, p, c) ==
    /\ Phases' = [Phases EXCEPT ![s] = p]
    /\ Socks' = [Socks EXCEPT ![s] = c]

Unseen == Phases' = Phases /\ Socks' = Socks

LEMMA LifeStutters ==
    ASSUME Unseen, Running' = Running
    PROVE  UNCHANGED Life!vars
BY DEF Unseen, Phases, Socks, Running, Life!vars

LEMMA LifeFails ==
    ASSUME Unseen, Running, ~Running'
    PROVE  Life!Next
BY DEF Unseen, Phases, Socks, Running, Life!Next, Life!Fail

LEMMA LifeRecovers ==
    ASSUME Unseen, ~Running, Running', \A s \in Sess : Phases[s] = "free"
    PROVE  Life!Next
BY DEF Unseen, Phases, Socks, Running, Life!Next, Life!Recover, Life!Live

LEMMA LifeServes ==
    ASSUME NEW s \in Sess, Running, Running', Phases[s] # "free",
           NEW p \in Life!After[Phases[s]], NEW c, Becomes(s, p, c),
           c = Socks[s] \/ (p = "ENDING" /\ c = NoSock)
    PROVE  Life!Next
<1>1. Socks' = Socks \/ (p = "ENDING" /\ Socks' = [Socks EXCEPT ![s] = NoSock])
  BY DEF Becomes, Socks
<1>2. Phases' = [Phases EXCEPT ![s] = p]
  BY DEF Becomes
<1>3. Life!Serve(s)
  BY <1>1, <1>2 DEF Phases, Socks, Running, Life!Serve, Life!Live
<1>4. QED
  BY <1>3 DEF Life!Next

LEMMA LifeEnds ==
    ASSUME NEW s \in Sess, Running' = Running, Phases[s] # "free",
           Becomes(s, "ENDING", Socks[s])
    PROVE  Life!Next
<1>1. Socks' = Socks
  BY DEF Becomes, Socks
<1>2. Life!End(s)
  BY <1>1 DEF Becomes, Phases, Socks, Running, Life!End, Life!Live
<1>3. QED
  BY <1>2 DEF Life!Next

LEMMA LifeDeletes ==
    ASSUME NEW s \in Sess, Running' = Running, Becomes(s, "free", NoSock),
           \/ Running /\ Phases[s] \in {"HEADER", "CONTENT", "SENDDATA", "ENDING"}
           \/ ~Running /\ Phases[s] # "free"
    PROVE  Life!Next
<1>1. Life!Delete(s) \/ Life!Clean(s)
  BY DEF Becomes, Phases, Socks, Running, Life!Delete, Life!Clean, Life!Gone, Life!Live
<1>2. QED
  BY <1>1 DEF Life!Next

LEMMA LifeAccepts ==
    ASSUME NEW s \in Sess, NEW c \in Conn, Running, Running', Phases[s] = "free",
           \A t \in Sess : Socks[t] # c, Becomes(s, "HEADER", c)
    PROVE  Life!Next
<1>1. Life!Accept(s, c)
  BY DEF Becomes, Phases, Socks, Running, Life!Accept, Life!Live
<1>2. QED
  BY <1>1 DEF Life!Next

\* The mapping, session by session.
LEMMA MapOne ==
    ASSUME NEW s \in Sess, \A t \in Sess \ {s} : ws'[t] = ws[t] /\ (t \in sess_used' <=> t \in sess_used)
    PROVE  Becomes(s, IF s \in sess_used' THEN ws'[s].state ELSE "free",
                      IF s \in sess_used' THEN ws'[s].sock ELSE NoSock)
<1>1. Phases' = [t \in Sess |-> IF t \in sess_used' THEN ws'[t].state ELSE "free"]
  BY DEF Phases
<1>2. Socks' = [t \in Sess |-> IF t \in sess_used' THEN ws'[t].sock ELSE NoSock]
  BY DEF Socks
<1>3. QED
  BY <1>1, <1>2 DEF Becomes, Phases, Socks

LEMMA MapSame ==
    ASSUME \A t \in Sess : (t \in sess_used' <=> t \in sess_used)
                           /\ (t \in sess_used => ws'[t].state = ws[t].state /\ ws'[t].sock = ws[t].sock)
    PROVE  Unseen
<1>1. Phases' = [t \in Sess |-> IF t \in sess_used' THEN ws'[t].state ELSE "free"]
  BY DEF Phases
<1>2. Socks' = [t \in Sess |-> IF t \in sess_used' THEN ws'[t].sock ELSE NoSock]
  BY DEF Socks
<1>3. QED
  BY <1>1, <1>2 DEF Unseen, Phases, Socks

----------------------------------------------------------------------------
(* The steps of WebioServer *)

LEMMA LiveState ==
    ASSUME RInv, NEW s \in sess_used
    PROVE  /\ s \in Sess /\ Phases[s] = ws[s].state /\ Socks[s] = ws[s].sock
           /\ Phases[s] # "free"
<1>1. s \in Sess /\ ws[s] \in WiSess
  BY DEF RInv, IInv, ListInv, DataInv, DataTypes
<1>2. ws[s].state \in State
  BY <1>1 DEF WiSess
<1>3. QED
  BY <1>1, <1>2 DEF Phases, Socks, State

\* A visit, or the deletion of a session.
LEMMA WorkLife ==
    ASSUME RInv, AtWork, Running' = Running
    PROVE  Life!Next \/ UNCHANGED Life!vars
<1>1. PICK s \in sess_used : s = cur
  BY DEF AtWork
<1>2. /\ s \in Sess /\ Phases[s] = ws[s].state /\ Socks[s] = ws[s].sock /\ Phases[s] # "free"
  BY LiveState
<1>3. /\ \A t \in Sess \ {s} : ws'[t] = ws[t]
      /\ sess_used' = sess_used \/ sess_used' = sess_used \ {s}
  BY <1>1, WorkSteps
<1>4. Becomes(s, IF s \in sess_used' THEN ws'[s].state ELSE "free",
                 IF s \in sess_used' THEN ws'[s].sock ELSE NoSock)
  BY <1>2, <1>3, MapOne
<1>5. Work(s).se = ws[s]
  BY WorkFields
<1>6. CASE /\ sess_used' = sess_used
           /\ \E r : pc = "visit" /\ Left(Work(s), r) /\ Base(r) /\ ws'[s] = r.se
  <2>1. PICK r : pc = "visit" /\ Left(Work(s), r) /\ Base(r) /\ ws'[s] = r.se
    BY <1>6
  <2> DEFINE p == r.se.state
             c == r.se.sock
  <2>2. /\ Becomes(s, p, c) /\ p = r.se.state /\ c = r.se.sock
        /\ Running /\ Running'
    BY <1>4, <1>6, <2>1 DEF Running
  <2> HIDE DEF p, c
  <2>3. /\ p = Phases[s] \/ p \in Life!After[Phases[s]]
        /\ Phases[s] # "ENDING" /\ Socks[s] # NoSock
        /\ c = Socks[s] \/ c = NoSock
        /\ c = NoSock => p = "ENDING"
    BY <1>2, <1>5, <2>1, <2>2 DEF Left, Good, Keeps, Frame, Base
  <2>4. CASE p \in Life!After[Phases[s]]
    BY <1>2, <2>2, <2>3, <2>4, LifeServes
  <2>5. CASE p = Phases[s]
    <3>1. c = Socks[s]
      BY <2>3, <2>5
    <3>2. Unseen
      BY <2>2, <2>5, <3>1 DEF Becomes, Unseen, Phases, Socks
    <3>3. QED
      BY <3>2, LifeStutters
  <2>6. QED
    BY <2>3, <2>4, <2>5
<1>7. CASE /\ sess_used' = sess_used \ {s}
           /\ \/ pc = "clean"
              \/ pc = "visit" /\ ws[s].state = "ENDING"
              \/ pc = "visit" /\ Stalled(Work(s))
  <2>1. Becomes(s, "free", NoSock)
    BY <1>4, <1>7
  <2>2. \/ Running /\ Phases[s] \in {"HEADER", "CONTENT", "SENDDATA", "ENDING"}
        \/ ~Running /\ Phases[s] # "free"
    BY <1>2, <1>5, <1>7 DEF Running, Stalled
  <2>3. QED
    BY <1>2, <2>1, <2>2, LifeDeletes
<1>8. QED
  BY <1>1, <1>6, <1>7, WorkSteps

LEMMA AcceptLife ==
    ASSUME RInv, PollAccept
    PROVE  Life!Next
<1>1. /\ sess_used # Sess /\ sess_used \subseteq Sess /\ DataTypes /\ BacklogOK /\ SessionsOK
      /\ FreeSlotsOK
  BY Zenon DEF PollAccept, RInv, IInv, ListInv, DataInv
<1> DEFINE slot == FirstSlot(Sess \ sess_used)
<1>2. slot \in Sess \ sess_used
  BY <1>1, FirstSlotIn, SlotTypes
<1>3. PICK s \in Sess \ sess_used : s = slot
  BY <1>2
<1> HIDE DEF slot
<1>4. PICK c : c = NewSock
  OBVIOUS
<1>5. /\ pc = "idle" /\ backlog # <<>>
      /\ sess_used' = sess_used \cup {s}
      /\ ws' = [ws EXCEPT ![s] = NewSess(c)]
      /\ StartLoop(wi_sessions')
  BY <1>3, <1>4, Zenon DEF PollAccept, Accepting, slot
<1>6. c \in Conn /\ conn[c].phase = "backlog"
  <2>1. NewSock = backlog[1] /\ Len(backlog) \in Nat \ {0}
    BY <1>1, <1>5, TailElements DEF DataTypes, NewSock
  <2>2. \A i \in 1 .. Len(backlog) : backlog[i] \in Conn /\ conn[backlog[i]].phase = "backlog"
    BY <1>1, LenProperties DEF DataTypes, BacklogOK
  <2>3. QED
    BY <1>4, <2>1, <2>2
<1>7. ws'[s] = NewSess(c) /\ \A t \in Sess \ {s} : ws'[t] = ws[t]
  BY <1>1, <1>3, <1>5 DEF DataTypes
<1>8. Becomes(s, "HEADER", c)
  <2>1. Becomes(s, IF s \in sess_used' THEN ws'[s].state ELSE "free",
                   IF s \in sess_used' THEN ws'[s].sock ELSE NoSock)
    BY <1>3, <1>5, <1>7, MapOne
  <2>2. s \in sess_used' /\ ws'[s].state = "HEADER" /\ ws'[s].sock = c
    BY <1>5, <1>7 DEF NewSess
  <2>3. QED
    BY <2>1, <2>2
<1>9. \A t \in Sess : Socks[t] # c
  <2> SUFFICES ASSUME NEW t \in sess_used, ws[t].sock = c
               PROVE  FALSE
    BY <1>6, ConnAssumption DEF Socks
  <2>1. conn[ws[t].sock].phase = "open"
    BY <1>1, <1>6, BaseWork, ConnAssumption DEF SessionsOK
  <2>2. QED
    BY <1>6, <2>1
<1>10. Phases[s] = "free"
  BY <1>3 DEF Phases
<1>11. Running /\ Running'
  <2>1. pc' = "idle" \/ pc' = "visit"
    BY <1>5, Zenon DEF StartLoop, LeavePoll
  <2>2. QED
    BY <1>5, <2>1 DEF Running
<1>12. QED
  BY <1>3, <1>6, <1>8, <1>9, <1>10, <1>11, LifeAccepts

LEMMA StepLife ==
    ASSUME LInv, [Next]_vars
    PROVE  Life!Next \/ UNCHANGED Life!vars
<1>1. /\ RInv /\ CleanOK /\ ListInv /\ DataInv /\ RepliesOK /\ DataTypes /\ sess_used \subseteq Sess
  BY DEF LInv, RInv, IInv, ReplyInv, DataInv, ListInv
<1>2. ASSUME UNCHANGED <<sess_used, ws>>
      PROVE  Unseen
  BY <1>2, MapSame
<1>3. ASSUME UNCHANGED <<sess_used, ws>>, Running' = Running
      PROVE  UNCHANGED Life!vars
  BY <1>2, <1>3, LifeStutters
<1>4. CASE Poll
  <2>1. CASE PollAccept
    BY <1>1, <2>1, AcceptLife
  <2>2. CASE PollNoConn \/ PollRefuse
    <3>1. UNCHANGED <<sess_used, ws>> /\ pc = "idle" /\ pc' \in {"idle", "visit"}
      BY <2>2, Zenon DEF PollNoConn, PollRefuse, Accepting, StartLoop, LeavePoll, lists
    <3>2. QED
      BY <1>3, <3>1 DEF Running
  <2>3. CASE PollAcceptNoSlot \/ PollNameError \/ PollSelectError
    <3>1. UNCHANGED <<sess_used, ws>> /\ pc = "idle" /\ pc' = "failed"
      BY <2>3, Zenon DEF PollAcceptNoSlot, PollNameError, PollSelectError, PollFails, Accepting,
                         LeavePoll, lists
    <3>2. QED
      <4>1. Unseen
        BY <1>2, <3>1
      <4>2. Running /\ ~Running'
        BY <3>1 DEF Running
      <4>3. QED
        BY <4>1, <4>2, LifeFails
  <2>4. CASE PollPanic
    <3>1. UNCHANGED <<sess_used, ws>> /\ pc = "idle" /\ pc' = "exited"
      BY <2>4, Zenon DEF PollPanic, LeavePoll, lists
    <3>2. QED
      BY <1>3, <3>1 DEF Running
  <2>5. QED
    BY <1>4, <2>1, <2>2, <2>3, <2>4 DEF Poll
<1>5. ASSUME pc = "visit", pc' = pc \/ \E q : Advance(q)
      PROVE  Running /\ Running'
  <2>1. pc' = "visit" \/ pc' = "idle"
    BY <1>5, Zenon DEF Advance, LeavePoll
  <2>2. QED
    BY <1>5, <2>1 DEF Running
<1>6. CASE Visit
  <2>1. CASE VisitHeader \/ VisitPostRx \/ VisitContent \/ VisitSendData
    <3>1. pc = "visit" /\ AtWork
      BY <1>1, <2>1, VisitPassed DEF AtWork
    <3>2. (\E w : Again(w)) \/ (\E w : Break(w))
      BY <1>1, <2>1, VisitOutcome
    <3>3. pc' = pc \/ \E q : Advance(q)
      BY <3>2, Zenon DEF Again, Break
    <3>4. QED
      BY <1>1, <1>5, <3>1, <3>3, WorkLife
  <2>2. CASE VisitRecvError
    <3>1. UNCHANGED <<sess_used, ws>> /\ pc = "visit" /\ pc' = "failed"
      BY <2>2, Zenon DEF VisitRecvError, Visiting, PollFails, LeavePoll, lists
    <3>2. QED
      <4>1. Unseen
        BY <1>2, <3>1
      <4>2. Running /\ ~Running'
        BY <3>1 DEF Running
      <4>3. QED
        BY <4>1, <4>2, LifeFails
  <2>3. CASE VisitEnding
    <3>1. /\ pc = "visit" /\ cur # NULL /\ ws[cur].state = "ENDING" /\ wi_delsess(cur, Work(cur))
          /\ \E q : Advance(q)
      BY <2>3, Zenon DEF VisitEnding, Visiting
    <3>2. AtWork
      BY <1>1, <3>1, CursorUsed DEF AtWork, Dropped
    <3>3. QED
      BY <1>1, <1>5, <3>1, <3>2, WorkLife
  <2>4. CASE VisitPushing
    <3>1. UNCHANGED <<sess_used, ws>> /\ pc = "visit" /\ \E q : Advance(q)
      BY <2>4, Zenon DEF VisitPushing, Visiting, lists
    <3>2. Running /\ Running'
      <4>1. pc' = pc \/ \E q : Advance(q)
        BY <3>1, Zenon
      <4>2. QED
        BY <1>5, <3>1, <4>1
    <3>3. Running' = Running
      BY <3>2 DEF Running
    <3>4. QED
      BY <1>3, <3>1, <3>3
  <2>5. QED
    BY <1>6, <2>1, <2>2, <2>3, <2>4 DEF Visit
<1>7. CASE RestartClose
  <2>1. UNCHANGED <<sess_used, ws>> /\ pc = "failed" /\ pc' = "clean"
    BY <1>7, Zenon DEF RestartClose, lists
  <2>2. QED
    BY <1>3, <2>1 DEF Running
<1>8. CASE RestartDelete
  <2>1. pc = "clean" /\ pc' = pc /\ cur # NULL /\ wi_delsess(cur, Work(cur))
    BY <1>8, Zenon DEF RestartDelete
  <2>2. AtWork /\ Running' = Running
    BY <1>1, <2>1, CursorUsed DEF AtWork, Dropped, Running
  <2>3. QED
    BY <1>1, <2>2, WorkLife
<1>9. CASE RestartInit
  <2>1. UNCHANGED <<sess_used, ws>> /\ pc = "clean" /\ cur = NULL /\ pc' = "idle"
    BY <1>9, Zenon DEF RestartInit, lists
  <2>2. wi_sessions = <<>>
    <3>1. HeadOf(wi_sessions) = NULL
      BY <1>1, <2>1 DEF CleanOK
    <3>2. wi_sessions # <<>> => Head(wi_sessions) \in Sess
      BY <1>1 DEF ListInv
    <3>3. QED
      BY <3>1, <3>2, SlotTypes DEF HeadOf
  <2>3. sess_used = {}
    BY <1>1, <2>2 DEF ListInv, ListOK, Linked
  <2>4. \A s \in Sess : Phases[s] = "free"
    BY <2>3 DEF Phases
  <2>5. QED
    BY <1>2, <2>1, <2>4, LifeRecovers DEF Running
<1>10. CASE \E c \in Conn : Client(c)
  <2>1. UNCHANGED <<sess_used, ws, pc>>
    BY <1>10, Zenon DEF Client, lists
  <2>2. QED
    BY <1>3, <2>1 DEF Running
<1>11. CASE Tick
  <2>1. UNCHANGED <<sess_used, pc>>
    BY <1>11 DEF Tick, lists
  <2>2. \A t \in Sess : ws'[t].state = ws[t].state /\ ws'[t].sock = ws[t].sock
    <3>1. ASSUME NEW t \in Sess
          PROVE  ws'[t] = ws[t] \/ \E x : ws'[t] = [ws[t] EXCEPT !.idle = x]
      BY <1>11, <3>1 DEF Tick
    <3>2. \A t \in Sess : ws[t] \in WiSess
      BY <1>1 DEF DataTypes
    <3>3. QED
      BY <3>1, <3>2 DEF WiSess
  <2>3. Unseen
    BY <2>1, <2>2, MapSame
  <2>4. QED
    BY <2>1, <2>3, LifeStutters DEF Running
<1>12. ASSUME NEW s \in Sess, PushEnd(s)
       PROVE  Life!Next \/ UNCHANGED Life!vars
  <2>1. UNCHANGED <<sess_used, pc>> /\ ws' = [ws EXCEPT ![s].state = "ENDING"]
    BY <1>12 DEF PushEnd, lists
  <2>2. /\ \A t \in Sess \ {s} : ws'[t] = ws[t]
        /\ ws'[s].state = "ENDING" /\ ws'[s].sock = ws[s].sock
    <3>1. ws \in [Sess -> WiSess] /\ ws[s] \in WiSess
      BY <1>1 DEF DataTypes
    <3>2. QED
      BY <2>1, <3>1 DEF WiSess
  <2>3. Becomes(s, IF s \in sess_used' THEN ws'[s].state ELSE "free",
                   IF s \in sess_used' THEN ws'[s].sock ELSE NoSock)
    BY <2>1, <2>2, MapOne
  <2>4. CASE s \in sess_used
    <3>1. Phases[s] # "free" /\ Socks[s] = ws[s].sock
      BY <1>1, <2>4, LiveState
    <3>2. Becomes(s, "ENDING", Socks[s])
      BY <2>1, <2>2, <2>3, <2>4, <3>1
    <3>3. QED
      BY <2>1, <3>1, <3>2, LifeEnds DEF Running
  <2>5. CASE s \notin sess_used
    <3>1. Unseen
      BY <2>1, <2>2, <2>5, MapSame
    <3>2. QED
      BY <2>1, <3>1, LifeStutters DEF Running
  <2>6. QED
    BY <2>4, <2>5
<1>13. CASE UNCHANGED vars
  <2>1. UNCHANGED <<sess_used, ws, pc>>
    BY <1>13 DEF vars
  <2>2. QED
    BY <1>3, <2>1 DEF Running
<1>14. QED
  BY <1>4, <1>6, <1>7, <1>8, <1>9, <1>10, <1>11, <1>12, <1>13
     DEF Next, Server, Restart, Environment

\* The sessions live as SessionLife promises: the poll loop, the restart and the push code
\* take each session through its states in order, with one connection of its own, and no
\* session survives a restart.
THEOREM LifeImplemented == Spec => LifeSpec
<1>1. Init => Life!Init
  BY DEF Init, Life!Init
<1>2. LInv /\ [Next]_vars => [Life!Next]_Life!vars
  BY StepLife
<1>3. QED
  BY <1>1, <1>2, ReachableLife, PTL DEF Spec, LifeSpec, Life!Spec

=============================================================================
