---------------------------- MODULE WebioReply -----------------------------
(***************************************************************************)
(* One session's reply, from the open file to the last byte on the wire:   *)
(* the read loop of wi_readfile with its includes, the chain of txbufs,    *)
(* and the sends of wi_replyhdr, wi_sockwrite and wi_movebinary, each of   *)
(* which the socket may cut short.  WebioServer counts txbufs and blocks;  *)
(* here is which text is in them.                                          *)
(*                                                                         *)
(* Text is a sequence of units: a character, or the two halves of an SSI   *)
(* directive, "<!--#include ..." and "-->".  A unit that was queued or     *)
(* sent is named by the file it comes from and its place there.            *)
(***************************************************************************)
EXTENDS Integers, Sequences, SequencesExt

CONSTANTS
    BUF,        \* units of wf_data (WI_FIOSIZE)
    TXBUF,      \* units of tb_data (WI_TXBUFSIZE)
    HDR,        \* units of a reply header
    ROOM,       \* units the socket takes when its client has read everything
    Name,       \* the files pages include, none of them a form or a push handler
    Text,       \* the text of each
    Routines,   \* those of them whose text a C routine prints (EMF_SSI, EMF_CEXP)
    Requests,   \* what may be asked for
    Shares      \* what the tables may have left for this session

Unit == [is : {"char", "start", "end"},
         to : Name \cup {"none", "exec"},   \* a directive's file; no such file; a command
         args : {"none", "ok", "bad"}]      \* name/value pairs after the file's name; malformed
Share   == [tx : Nat, files : Nat, forms : Nat]
Request == [cmd : {"GET", "POST"}, page : Seq(Unit), binary : BOOLEAN,
            form : BOOLEAN,                 \* name/value pairs came with the request
            room : 1 .. ROOM]               \* what its socket takes at first

ASSUME SizesAssumption == /\ BUF \in Nat \ {0, 1} /\ TXBUF \in Nat \ {0}
                          /\ HDR \in Nat \ {0} /\ ROOM \in Nat
                          /\ HDR <= ROOM /\ TXBUF <= ROOM
ASSUME TextAssumption == /\ Name \cap {"page", "none", "exec"} = {}
                         /\ Text \in [Name -> Seq(Unit)] /\ Routines \subseteq Name
                         /\ \A n \in Routines : Len(Text[n]) \in 1 .. TXBUF
ASSUME RequestAssumption == /\ Requests \subseteq Request /\ Shares \subseteq Share
                            /\ \A r \in Requests : r.binary => r.page # <<>>

VARIABLES
    req,        \* the request being answered
    state,      \* ws_state
    hdrsent,    \* WF_HEADERSENT
    files,      \* ws_filelist, innermost file first
    forms,      \* ws_formlist, newest first: the request's own, or an include's
    tx,         \* ws_txbufs, each with its text
    txleft,     \* txbufs, file slots and form slots the tables have left
    fileleft,
    formleft,
    stack,      \* the calls of wi_readfile under way, innermost first
    pc,         \* where the thread is
    caller,     \* who called the outermost one, or wi_sockwrite
    sel_send,   \* the session's socket is in sel_send
    room,       \* units the socket takes now
    wire,       \* all the socket took
    queued,     \* (history) all the text that was put into txbufs
    lost        \* (history) what went wrong: "tx", "file", "form", "text", "send"

reply == <<files, forms, tx, txleft, fileleft, formleft>>
history == <<queued, lost>>
vars  == <<req, state, hdrsent, files, forms, tx, txleft, fileleft, formleft, stack, pc, caller, sel_send,
           room, wire, queued, lost>>

OpenFile   == [name : Name \cup {"page"}, pos : Nat, inbuf : 0 .. BUF, nextbuf : Nat]
Activation == [fi  : Nat,               \* the file, by its height in ws_filelist
               at  : {"read", "copy", "ssi", "skipped"},
               len : Nat]               \* the loop's variable

----------------------------------------------------------------------------
(* Files and txbufs *)

TextOf(n)   == IF n = "page" THEN req.page ELSE Text[n]
UnitName(f, p) == <<f, p>>
Junk        == <<"junk", 0>>            \* what lies behind the text in wf_data
Smaller(a, b) == IF a <= b THEN a ELSE b
FileHead    == Head(files)
Newly(n)    == [name |-> n, pos |-> 0, inbuf |-> 0, nextbuf |-> 0]
SetHead(f)  == files' = <<f>> \o Tail(files)

\* The place in its file of wf_data[len], and whether the block read so far has it.
Place(len)   == FileHead.pos - FileHead.inbuf + len + 1
InBlock(len) == len < FileHead.inbuf
UnitAt(len)  == TextOf(FileHead.name)[Place(len)]

\* A directive whose end is in the block too: strstr finds "-->".
Directive(len) == /\ UnitAt(len).is = "start"
                  /\ InBlock(len + 1) /\ UnitAt(len + 1).is = "end"

TailFull == tx = <<>> \/ Len(Last(tx)) >= TXBUF

\* Text into the txbufs, in a new one when it does not go into the last.
Put(text, new) ==
    /\ tx' = IF new THEN Append(tx, text) ELSE Front(tx) \o <<Last(tx) \o text>>
    /\ txleft' = IF new THEN txleft - 1 ELSE txleft
    /\ queued' = queued \o text

----------------------------------------------------------------------------
(* Calls and returns *)

Step(at, len) == stack' = <<[Head(stack) EXCEPT !.at = at, !.len = len]>> \o Tail(stack)
Call(s, height) == <<[fi |-> height, at |-> "read", len |-> 0]>> \o s

\* The outermost call returns to wi_parseheader, whose own error wi_poll does not look
\* at, or to a visit of wi_poll, which ends the session.
Outermost(error, st) ==
    LET ends == (error /\ caller # "header") \/ st = "ENDING"
        same == \/ caller = "content" /\ st = "CONTENT"
                \/ caller = "send" /\ st = "SENDDATA"
    IN  /\ state' = IF ends THEN "ENDING" ELSE st
        /\ pc' = IF ends THEN "over" ELSE IF same THEN "poll" ELSE "visit"
        /\ stack' = <<>>

\* A return; wi_readfile does not look at the error of the wi_ssi it called.
Return(error, st) ==
    IF Len(stack) > 1
    THEN stack' = Tail(stack) /\ state' = st /\ pc' = "readfile"
    ELSE Outermost(error, st)

\* readdone: "Done with loading data, begin send process".
ReadDone == state' = "SENDDATA" /\ pc' = "sockwrite" /\ UNCHANGED stack

Reading(at) == pc = "readfile" /\ Head(stack).at = at
NoSend == UNCHANGED <<req, hdrsent, caller, sel_send, room, wire>>

----------------------------------------------------------------------------
(* wi_readfile *)

\* Mutant: a block is read over the one before it, which is not used up.
ReadMoreMutant ==
    /\ Reading("read")
    /\ LET f == FileHead
           n == Smaller(BUF, Len(TextOf(f.name)) - f.pos)
       IN  IF n = 0
           THEN /\ files' = Tail(files)
                /\ fileleft' = fileleft + 1
                /\ IF Tail(files) # <<>> THEN Return(FALSE, state) ELSE ReadDone
           ELSE /\ SetHead([f EXCEPT !.pos = @ + n, !.inbuf = n])
                /\ IF req.binary THEN ReadDone
                   ELSE Step("copy", f.nextbuf) /\ UNCHANGED <<state, pc>>
                /\ UNCHANGED fileleft
    /\ UNCHANGED <<forms, tx, txleft, formleft, history>> /\ NoSend

\* readmore: the next block, behind what is in wf_data.  At the end of the file it is
\* closed, and the call returns to the file around it or the reply is sent.
ReadMore ==
    /\ Reading("read")
    /\ LET f == FileHead
           n == Smaller(BUF - f.inbuf, Len(TextOf(f.name)) - f.pos)
       IN  IF n = 0
           THEN /\ files' = Tail(files)
                /\ fileleft' = fileleft + 1
                /\ IF Tail(files) # <<>> THEN Return(FALSE, state) ELSE ReadDone
           ELSE /\ SetHead([f EXCEPT !.pos = @ + n, !.inbuf = @ + n])
                /\ IF req.binary THEN ReadDone
                   ELSE Step("copy", f.nextbuf) /\ UNCHANGED <<state, pc>>
                /\ UNCHANGED fileleft
    /\ UNCHANGED <<forms, tx, txleft, formleft, history>> /\ NoSend

\* The copy of one unit, tested for a directive before it or not; without a txbuf
\* the call returns WI_E_MEMORY, and what is left of the block is not marked.
CopyUnit(u) ==
    LET len == Head(stack).len
    IN  IF TailFull /\ txleft = 0
        THEN /\ lost' = lost \cup {"tx"}
             /\ Return(TRUE, state)
             /\ UNCHANGED <<tx, txleft, queued>>
        ELSE /\ Put(<<u>>, TailFull)
             /\ Step("copy", len + 1)
             /\ UNCHANGED <<state, pc, lost>>

CopyText ==
    /\ Reading("copy") /\ InBlock(Head(stack).len)
    /\ ~Directive(Head(stack).len)
    /\ CopyUnit(UnitName(FileHead.name, Place(Head(stack).len)))
    /\ UNCHANGED <<files, fileleft, forms, formleft>> /\ NoSend

\* "Save location where SSI ends": if the directive did not change the current file,
\* the unit behind it is copied as it is.
AfterDirective ==
    /\ Reading("skipped")
    /\ LET len == Head(stack).len
       IN  CopyUnit(IF InBlock(len) THEN UnitName(FileHead.name, Place(len)) ELSE Junk)
    /\ SetHead([FileHead EXCEPT !.nextbuf = 0])
    /\ UNCHANGED <<fileleft, forms, formleft>> /\ NoSend

\* "break if SSI changed the current file": the include is still open.
IncludeReturns ==
    /\ Reading("ssi")
    /\ LET len == Head(stack).len
           h   == Len(files) - Head(stack).fi + 1
       IN  IF h = 1
           THEN Step("skipped", len) /\ UNCHANGED <<files, state, pc>>
           ELSE /\ files' = [files EXCEPT ![h].nextbuf = len]
                /\ Return(FALSE, state)
    /\ UNCHANGED <<forms, tx, txleft, fileleft, formleft, history>> /\ NoSend

\* The end of the block: "See if we need to do more reading".
BlockDone ==
    /\ Reading("copy") /\ ~InBlock(Head(stack).len)
    /\ IF FileHead.nextbuf = 0 /\ Head(stack).len > 0
       THEN /\ SetHead([FileHead EXCEPT !.inbuf = 0])
            /\ Step("read", 0) /\ UNCHANGED <<state, pc>>
       ELSE ReadDone /\ UNCHANGED files
    /\ UNCHANGED <<forms, tx, txleft, fileleft, formleft, history>> /\ NoSend

----------------------------------------------------------------------------
(* wi_ssi and wi_exec *)

InDirective == Reading("copy") /\ InBlock(Head(stack).len) /\ Directive(Head(stack).len)
Wanted      == UnitAt(Head(stack).len)

\* Mutant: the loop goes on with the "-->" of the directive.
BehindMutant == Head(stack).len + 1
Behind == Head(stack).len + 2

\* wi_buildform, "best effort": no form when the table has none left, and none for
\* malformed pairs, which keep the slot all the same.
HasPairs  == Wanted.args # "none"
Taken     == IF HasPairs /\ formleft > 0 THEN 1 ELSE 0
Layered   == Wanted.args = "ok" /\ formleft > 0
FormsWith == IF Layered THEN <<"include">> \o forms ELSE forms
Refused   == IF HasPairs /\ ~Layered THEN {"form"} ELSE {}

\* Mutant: a file slot is taken although none is left.
OpensMutant == Wanted.to \in Name
Opens == Wanted.to \in Name /\ fileleft > 0

\* wi_exec, with no wi_execfunc.
Exec ==
    /\ InDirective /\ Wanted.to = "exec"
    /\ Step("skipped", Behind)
    /\ UNCHANGED <<state, pc, reply, history>> /\ NoSend

\* The file cannot be opened: the error is not looked at, the directive is dropped.
IncludeFails ==
    /\ InDirective /\ Wanted.to # "exec" /\ ~Opens
    /\ forms' = FormsWith
    /\ formleft' = formleft - Taken
    /\ lost' = lost \cup Refused \cup (IF Wanted.to \in Name THEN {"file"} ELSE {})
    /\ Step("skipped", Behind)
    /\ UNCHANGED <<files, fileleft, tx, txleft, state, pc, queued>> /\ NoSend

\* Mutant: the file is read on from the directive when its include is done.
IncludeFileMutant ==
    /\ InDirective /\ Opens /\ Wanted.to \notin Routines
    /\ forms' = FormsWith
    /\ files' = <<Newly(Wanted.to)>> \o
                <<[FileHead EXCEPT !.nextbuf = Head(stack).len]>> \o Tail(files)
    /\ fileleft' = fileleft - 1
    /\ formleft' = formleft - Taken
    /\ lost' = lost \cup Refused
    /\ stack' = Call(<<[Head(stack) EXCEPT !.at = "ssi", !.len = @]>> \o Tail(stack),
                     Len(files) + 1)
    /\ UNCHANGED <<tx, txleft, state, pc, queued>> /\ NoSend

\* A file with text: wi_readfile is called for it.  A form it came with is kept.
IncludeFile ==
    /\ InDirective /\ Opens /\ Wanted.to \notin Routines
    /\ forms' = FormsWith
    /\ files' = <<Newly(Wanted.to)>> \o
                <<[FileHead EXCEPT !.nextbuf = Head(stack).len]>> \o Tail(files)
    /\ fileleft' = fileleft - 1
    /\ formleft' = formleft - Taken
    /\ lost' = lost \cup Refused
    /\ stack' = Call(<<[Head(stack) EXCEPT !.at = "ssi", !.len = Behind]>> \o Tail(stack),
                     Len(files) + 1)
    /\ UNCHANGED <<tx, txleft, state, pc, queued>> /\ NoSend

\* Mutant: the form is released whether or not there is one below it.
ReleasesMutant == HasPairs /\ FormsWith # <<>>

\* "If we layered on a form, release it now": the newest form but the last, whether or
\* not these pairs became one.
Releases == HasPairs /\ Len(FormsWith) > 1

\* A C routine, run between the file's open and close: wi_printf drops its text when
\* there is no txbuf for it.
IncludeRoutine ==
    /\ InDirective /\ Opens /\ Wanted.to \in Routines
    /\ ~(HasPairs /\ FormsWith = <<>>)
    /\ LET n    == Wanted.to
           text == [i \in 1 .. Len(Text[n]) |-> UnitName(n, i)]
           new  == tx = <<>> \/ Len(text) >= TXBUF - Len(Last(tx))
           drop == new /\ txleft = 0
       IN  /\ IF drop THEN UNCHANGED <<tx, txleft, queued>> ELSE Put(text, new)
           /\ lost' = lost \cup Refused \cup (IF drop THEN {"text"} ELSE {})
    /\ forms' = IF Releases THEN Tail(FormsWith) ELSE FormsWith
    /\ formleft' = formleft - Taken + (IF Releases THEN 1 ELSE 0)
    /\ SetHead([FileHead EXCEPT !.nextbuf = Head(stack).len])
    /\ Step("skipped", Behind)
    /\ UNCHANGED <<fileleft, state, pc>> /\ NoSend

\* ws_formlist->next of an empty list: the pairs of the include found no form, and
\* there is none of the request.  The process ends.
IncludeFaults ==
    /\ InDirective /\ Opens /\ Wanted.to \in Routines
    /\ HasPairs /\ FormsWith = <<>>
    /\ pc' = "over" /\ stack' = <<>>
    /\ UNCHANGED <<state, reply, history>> /\ NoSend

----------------------------------------------------------------------------
(* wi_sockwrite, wi_replyhdr and wi_movebinary *)

NoRead == UNCHANGED <<req, forms, formleft, queued, sel_send>>

Header(length) == [i \in 1 .. HDR |-> <<"header", i, length>>]

\* The socket takes the first n units of text.
Send(text, n) == wire' = wire \o SubSeq(text, 1, n) /\ room' = room - n

\* A send of the header: WF_HEADERSENT is set when it went whole.
SendHeader(length) ==
    LET n == Smaller(room, HDR)
    IN  /\ Send(Header(length), n)
        /\ hdrsent' = (n = HDR)
        /\ lost' = IF n = HDR THEN lost ELSE lost \cup {"send"}

\* Mutant: the length announced is that of the last txbuf.
SendTextHeaderMutant ==
    /\ pc = "sockwrite" /\ ~req.binary /\ ~hdrsent
    /\ SendHeader(IF tx = <<>> THEN 0 ELSE Len(Last(tx)))
    /\ IF hdrsent' THEN UNCHANGED <<stack, state, pc>> ELSE Return(TRUE, state)
    /\ NoRead /\ UNCHANGED <<files, fileleft, tx, txleft, caller>>

\* wi_sockwrite gives up when the header was not sent whole.
SendTextHeader ==
    /\ pc = "sockwrite" /\ ~req.binary /\ ~hdrsent
    /\ SendHeader(Len(FlattenSeq(tx)))
    /\ IF hdrsent' THEN UNCHANGED <<stack, state, pc>> ELSE Return(TRUE, state)
    /\ NoRead /\ UNCHANGED <<files, fileleft, tx, txleft, caller>>

\* Mutant: a txbuf is freed although only part of it was sent.
SendTxbufMutant ==
    /\ pc = "sockwrite" /\ ~req.binary /\ hdrsent /\ tx # <<>>
    /\ LET n == Smaller(room, Len(Head(tx)))
       IN  /\ Send(Head(tx), n)
           /\ IF n > 0 THEN /\ tx' = Tail(tx) /\ txleft' = txleft + 1
                            /\ UNCHANGED <<stack, state, pc, lost>>
              ELSE Return(FALSE, state) /\ UNCHANGED <<tx, txleft, lost>>
    /\ NoRead /\ UNCHANGED <<files, fileleft, hdrsent, caller>>

\* The head of the chain.  A send that takes part of it sets no errno: what some call
\* left there says whether the session waits, to send all of it again, or fails.
SendTxbuf ==
    /\ pc = "sockwrite" /\ ~req.binary /\ hdrsent /\ tx # <<>>
    /\ LET n == Smaller(room, Len(Head(tx)))
       IN  /\ Send(Head(tx), n)
           /\ IF n = Len(Head(tx))
              THEN /\ tx' = Tail(tx) /\ txleft' = txleft + 1
                   /\ UNCHANGED <<stack, state, pc, lost>>
              ELSE /\ \E error \in IF n = 0 THEN {FALSE} ELSE BOOLEAN : Return(error, state)
                   /\ lost' = IF n = 0 THEN lost ELSE lost \cup {"send"}
                   /\ UNCHANGED <<tx, txleft>>
    /\ NoRead /\ UNCHANGED <<files, fileleft, hdrsent, caller>>

\* wi_txdone, when the chain is empty.
TextSent ==
    /\ pc = "sockwrite" /\ ~req.binary /\ hdrsent /\ tx = <<>>
    /\ Return(FALSE, "ENDING")
    /\ NoRead /\ UNCHANGED <<files, fileleft, tx, txleft, hdrsent, caller, room, wire, lost>>

\* wi_movebinary does not look at what wi_replyhdr returns.
MoveHeader ==
    /\ pc = "sockwrite" /\ req.binary
    /\ IF hdrsent THEN UNCHANGED <<hdrsent, room, wire, lost>>
       ELSE SendHeader(Len(req.page))
    /\ pc' = "movebinary"
    /\ NoRead /\ UNCHANGED <<state, files, fileleft, tx, txleft, stack, caller>>

\* The block in wf_data, read when there is none.
Refilled(f) ==
    LET n == Smaller(BUF, Len(req.page) - f.pos)
    IN  IF f.inbuf = 0 THEN [f EXCEPT !.pos = @ + n, !.inbuf = n] ELSE f

\* One send of a block; whatever part of it went, the next block is next.  A block that
\* does not fill wf_data is the last, an empty one too.
MoveBlock ==
    /\ pc = "movebinary"
    /\ LET f == Refilled(FileHead)
           n == Smaller(room, f.inbuf)
       IN  /\ Send([i \in 1 .. f.inbuf |-> UnitName("page", f.pos - f.inbuf + i)], n)
           /\ IF n = 0 /\ f.inbuf > 0
              THEN Return(FALSE, state) /\ SetHead(f) /\ UNCHANGED <<fileleft, lost>>
              ELSE /\ lost' = IF n = f.inbuf THEN lost ELSE lost \cup {"send"}
                   /\ IF f.inbuf < BUF
                      THEN /\ Return(FALSE, "ENDING") /\ files' = Tail(files)
                           /\ fileleft' = fileleft + 1
                      ELSE /\ SetHead([f EXCEPT !.inbuf = 0])
                           /\ UNCHANGED <<state, stack, pc, fileleft>>
    /\ NoRead /\ UNCHANGED <<tx, txleft, hdrsent, caller>>

----------------------------------------------------------------------------
(* wi_poll's visits to the session, its client and the other sessions *)

Still == UNCHANGED <<req, state, hdrsent, reply, stack, wire, history>>

\* select: the socket is in sel_send when there is something to send and room for it.
Poll ==
    /\ pc = "poll"
    /\ sel_send' = ((tx # <<>> \/ req.binary) /\ room > 0)
    /\ pc' = "visit"
    /\ Still /\ UNCHANGED <<caller, room>>

VisitContent ==
    /\ pc = "visit" /\ state = "CONTENT"
    /\ pc' = "readfile" /\ caller' = "content" /\ stack' = Call(<<>>, Len(files))
    /\ UNCHANGED <<req, state, hdrsent, reply, sel_send, room, wire, history>>

\* Mutant: only a session with txbufs is given its turn to send.
VisitSendDataMutant ==
    /\ pc = "visit" /\ state = "SENDDATA"
    /\ IF tx # <<>> /\ sel_send
       THEN pc' = "sockwrite" /\ caller' = "send"
       ELSE pc' = "poll" /\ UNCHANGED caller
    /\ Still /\ UNCHANGED <<sel_send, room>>

VisitSendData ==
    /\ pc = "visit" /\ state = "SENDDATA"
    /\ IF (tx # <<>> \/ req.binary) /\ sel_send
       THEN pc' = "sockwrite" /\ caller' = "send"
       ELSE pc' = "poll" /\ UNCHANGED caller
    /\ Still /\ UNCHANGED <<sel_send, room>>

\* The client reads all its socket holds.
Drain ==
    /\ pc # "over" /\ room < ROOM /\ room' = ROOM
    /\ Still /\ UNCHANGED <<pc, caller, sel_send>>

\* Between two polls other sessions take txbufs or give some back.
Others ==
    /\ pc = "poll" /\ state = "CONTENT"
    /\ txleft' \in {s.tx : s \in Shares}
    /\ UNCHANGED <<req, state, hdrsent, files, forms, tx, fileleft, formleft, stack, pc,
                   caller, sel_send, room, wire, history>>

----------------------------------------------------------------------------
Init ==
    /\ req \in Requests
    /\ \E s \in Shares : txleft = s.tx /\ fileleft = s.files /\ formleft = s.forms
    /\ state = "CONTENT" /\ hdrsent = FALSE
    /\ files = <<Newly("page")>>
    /\ forms = IF req.form THEN <<"own">> ELSE <<>>
    /\ tx = <<>> /\ queued = <<>> /\ wire = <<>> /\ lost = {}
    /\ stack = IF req.cmd = "GET" THEN Call(<<>>, 1) ELSE <<>>
    /\ pc = IF req.cmd = "GET" THEN "readfile" ELSE "visit"
    /\ caller = "header"
    /\ sel_send = (req.cmd = "POST" /\ req.binary)
    /\ room = req.room

Read == ReadMore \/ CopyText \/ AfterDirective \/ IncludeReturns \/ BlockDone

Include == Exec \/ IncludeFails \/ IncludeFile \/ IncludeRoutine \/ IncludeFaults

Write == SendTextHeader \/ SendTxbuf \/ TextSent \/ MoveHeader \/ MoveBlock

Server == Read \/ Include \/ Write \/ Poll \/ VisitContent \/ VisitSendData

Next == Server \/ Drain \/ Others

Spec == Init /\ [][Next]_vars

\* The thread keeps polling, and the client keeps reading.
FairSpec == Spec /\ WF_vars(Server) /\ WF_vars(Drain)

(***************************************************************************)
(* Properties                                                              *)
(***************************************************************************)

\* The shape of the state: no table gives more than it had, no block grows past its
\* buffer and every call works on an open file.
TypeOK ==
    /\ state \in {"CONTENT", "SENDDATA", "ENDING"}
    /\ hdrsent \in BOOLEAN /\ sel_send \in BOOLEAN /\ room \in 0 .. ROOM
    /\ files \in Seq(OpenFile) /\ forms \in Seq({"own", "include"})
    /\ txleft \in Nat /\ fileleft \in Nat /\ formleft \in Nat
    /\ stack \in Seq(Activation)
    /\ pc = "readfile" => \A i \in DOMAIN stack : stack[i].fi \in 1 .. Len(files)
    /\ pc \in {"readfile", "sockwrite", "movebinary", "visit", "poll", "over"}
    /\ caller \in {"header", "content", "send"} /\ lost \subseteq {"tx", "file", "form", "text", "send"}

\* How deep includes can go: a file in each slot there was for them.
Depth == fileleft + Len(files)

\* A directive begins at place p of the text t.
Begins(t, p) == p < Len(t) /\ t[p].is = "start" /\ t[p + 1].is = "end"

\* What place p of file n becomes: with its end a directive is replaced by the file it
\* names, whose text is in inner; if raw, it is there too.
Piece(raw, n, p, inner) ==
    LET t   == TextOf(n)
        own == <<UnitName(n, p)>>
    IN  IF n \in Routines THEN own
        ELSE IF Begins(t, p) THEN IF raw THEN own ELSE <<>>
        ELSE IF p > 1 /\ Begins(t, p - 1)
        THEN (IF raw THEN own ELSE <<>>) \o (IF t[p - 1].to \in Name THEN inner[t[p - 1].to] ELSE <<>>)
        ELSE own

\* The texts of the files with their includes in place, up to each depth.
Expansion(raw) ==
    LET Ex[d \in 0 .. Depth] ==
          [n \in Name \cup {"page"} |->
              IF d = 0 THEN <<>>
              ELSE FlattenSeq([p \in 1 .. Len(TextOf(n)) |-> Piece(raw, n, p, Ex[d - 1])])]
    IN  Ex

Expand(raw) == Expansion(raw)[Depth]["page"]

\* The pages SSI is written for: a directive lies in one block of its file, and a
\* character of that block follows it.
RegularText(t) ==
    \A p \in DOMAIN t :
        /\ t[p].is = "start" =>
              /\ p + 2 <= Len(t) /\ t[p + 1].is = "end" /\ t[p + 2].is = "char"
              /\ (p - 1) \div BUF = (p + 1) \div BUF
        /\ t[p].is = "end" => p > 1 /\ t[p - 1].is = "start"

\* The page is one, and so are all the files its includes lead to.
Regular ==
    \E found \in SUBSET (Name \cup {"page"}) :
        /\ "page" \in found
        /\ \A n \in found \ Routines :
              /\ \A p \in DOMAIN TextOf(n) : TextOf(n)[p].to \in Name => TextOf(n)[p].to \in found
              /\ RegularText(TextOf(n))

\* q without what lies behind the text in wf_data.
NoJunk(q) == FlattenSeq([i \in 1 .. Len(q) |-> IF q[i] = Junk THEN <<>> ELSE <<q[i]>>])

\* s can be had from t by leaving units out.
Within(s, t) ==
    LET found[k \in 0 .. Len(t)] ==      \* how much of s is in the first k units of t
          IF k = 0 THEN 0
          ELSE LET n == found[k - 1] IN IF n < Len(s) /\ s[n + 1] = t[k] THEN n + 1 ELSE n
    IN  found[Len(t)] = Len(s)

\* "When the page is displayed, the include tag is replaced" (progman.html): the text of
\* a regular page, with its includes in their places, is what is sent, when nothing ran
\* out on the way, through includes of includes and files of several blocks.
PageExpanded ==
    state = "SENDDATA" /\ ~req.binary /\ lost \subseteq {"send", "form"} /\ Regular
        => queued = Expand(FALSE)

\* Whatever the page and whatever runs out, no text is queued twice or out of its order:
\* a block is not copied again when its file is read on in a later poll.
TextInOrder == \A text \in {Expand(TRUE)} : Within(NoJunk(queued), text)

\* A page cut short by a missing txbuf is read again, its error being lost on the way
\* (webio.c:200): nothing behind the cut may then reach the client.
NothingAfterCut == []["tx" \in lost => queued' = queued]_vars

Content == IF req.binary THEN [p \in DOMAIN req.page |-> UnitName("page", p)] ELSE queued

\* When no send was cut short, a client that was sent a header gets the content it
\* announces, whole, before the session ends.
RepliesWhole ==
    state = "ENDING" /\ hdrsent /\ "send" \notin lost
        => wire = Header(Len(Content)) \o Content

\* What short sends can do (webio.c:808, webutils.c:184): of a text nothing that was
\* freed is missing on the wire, though parts of it may be there twice; of a binary file
\* nothing is there twice, though parts of it may be missing.
ShortSendsBounded ==
    IF req.binary
    THEN LET data == {i \in DOMAIN wire : wire[i][1] # "header"}
         IN  /\ \A i \in data : \E p \in DOMAIN Content : wire[i] = Content[p]
             /\ \A i, j \in data : i < j => wire[i][2] < wire[j][2]
    ELSE state = "SENDDATA" =>
            Within(SubSeq(queued, 1, Len(queued) - Len(FlattenSeq(tx))), wire)

\* The form the request came with lasts as long as the session, whatever forms includes
\* layer on it and release (webutils.c:637).
OwnFormKept == req.form => forms # <<>> /\ Last(forms) = "own"

\* A reply that has something to send ends, to a client that keeps reading.
ReplyEnds ==
    state = "SENDDATA" /\ (tx # <<>> \/ hdrsent \/ req.binary) ~> state = "ENDING"

============================================================================
