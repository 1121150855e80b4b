---------------------------- MODULE WebioServer ----------------------------
(***************************************************************************)
(* The webio server: the select loop wi_poll, its driver wi_step, and the  *)
(* life of a session from accept to wi_delsess, in the build that takes    *)
(* its objects from fixed tables (MAX_*_SLOTS, no WI_USE_MALLOC).          *)
(*                                                                         *)
(* Data is counted in units.  A request is req.hdr units of header and     *)
(* req.body units of POST content; a reply is one unit of header and one   *)
(* unit for each txbuf (text) or file block (binary).  A peer's socket     *)
(* buffer has room for ROOM units, and a send moves whole units.           *)
(***************************************************************************)
EXTENDS Integers, Sequences, FiniteSets

CONSTANTS
    MAX_SESS_SLOTS, MAX_TXBUF_SLOTS, MAX_FILE_SLOTS, MAX_FORM_SLOTS,
    RXBUF,         \* units of sizeof(ws_rxbuf)
    TMO,           \* 15 * TPS, the ticks a session may be without activity
    ENOTCONN,      \* the errno value POSTRX compares a byte count with
    ROOM,          \* units a peer's socket buffer holds
    Conn, NoSock,  \* connections (their sockets), and INVALID_SOCKET
    Requests,      \* what clients may ask for
    WiLocalhost,   \* the wi_localhost flag
    Faults         \* which environment faults happen

Sess     == 1 .. MAX_SESS_SLOTS
TxSlot   == 1 .. MAX_TXBUF_SLOTS
FileSlot == 1 .. MAX_FILE_SLOTS
FormSlot == 1 .. MAX_FORM_SLOTS
NULL     == 0

FileKind == {"TEXT", "BINARY", "FORM", "PUSH"}
Request  == [cmd   : {"GET", "POST", "PUT", "OTHER"},
             hdr   : Nat \ {0}, body : Nat,
             pairs : {"none", "ok", "bad"},           \* what wi_buildform makes of them
             kind  : FileKind \cup {"NONE", "BADARG"},\* the file named; no such file; no URI
             need  : Nat \ {0},                       \* txbufs or blocks of the page itself
             ssi   : Nat,                             \* txbufs of the plain file it includes; 0: none
             args  : {"none", "ok", "bad"},           \* the pairs its include directive has
             form  : {"page", "missing", "error",     \* what its C routine does: redirects, to
                      "stay", "null"},                \* a file or none; fails; prints; is NULL
             auth  : BOOLEAN,                         \* wfs_fauth admits the client
             far   : BOOLEAN]                         \* the client is on another host

ASSUME SlotsAssumption == /\ MAX_SESS_SLOTS \in Nat \ {0}
                          /\ MAX_TXBUF_SLOTS \in Nat
                          /\ MAX_FILE_SLOTS \in Nat
                          /\ MAX_FORM_SLOTS \in Nat
ASSUME UnitsAssumption == /\ RXBUF \in Nat /\ TMO \in Nat
                          /\ ENOTCONN \in Nat \ {0} /\ ROOM \in Nat
ASSUME ConnAssumption == IsFiniteSet(Conn) /\ NoSock \notin Conn
ASSUME RequestAssumption == /\ Requests \subseteq Request /\ Requests # {}
                            /\ WiLocalhost \in BOOLEAN
                            /\ Faults \subseteq {"eof", "reset", "syscall", "bind"}

VARIABLES
    wi_sessions,  \* the linked list of sessions, head (newest) first
    sess_used,    \* wi_sess_slot_used
    ws,           \* the wi_sess in each slot
    conn,         \* each connection: its TCP state and its client
    backlog,      \* the listen queue, oldest connection first
    tx_used,      \* wi_txbuf_slot_used
    form_used,    \* wi_form_slot_used
    file,         \* the open file in each wi_file slot
    pc,           \* where the server's thread is
    cur,          \* sess, the session being visited
    nxt,          \* next_sess, saved before the visit
    sel_recv,     \* the fd sets select() returned
    sel_send,
    listening,    \* wi_listen is bound and listening
    push          \* the sessions whose pointer server-push code holds

lists  == <<wi_sessions, sess_used>>
pools  == <<tx_used, form_used, file>>
cursor == <<cur, nxt, sel_recv, sel_send>>
net    == <<conn, backlog>>
vars   == <<wi_sessions, sess_used, ws, conn, backlog, tx_used, form_used, file,
            pc, cur, nxt, sel_recv, sel_send, listening, push>>

----------------------------------------------------------------------------
(* Records and pools *)

State == {"HEADER", "POSTRX", "CONTENT", "SENDDATA", "ENDING", "PUSHING"}

WiSess == [state : State, sock : Conn \cup {NoSock}, rx : 0 .. RXBUF,
           flags : SUBSET {"BINARY", "HEADERSENT"},
           tx    : SUBSET TxSlot,       \* the chain ws_txbufs
           files : Seq(FileSlot),       \* ws_filelist, innermost file first
           forms : SUBSET FormSlot,     \* ws_formlist
           idle  : 0 .. TMO + 1]        \* wi_cticks - ws_last, capped above TMO

Connection == [phase : {"closed", "backlog", "open"}, req : Request,
               sent  : Nat,             \* units the client has sent
               peer  : {"open", "eof", "reset"},
               room  : 0 .. ROOM,       \* units its socket buffer still takes
               hdrs  : 0 .. 2]          \* reply headers sent, capped at 2

\* left: blocks of a BINARY file still to send, 1 or 0 for a file read in one gulp
WiFile   == [kind : FileKind \cup {"free"}, left : Nat]
FreeFile == [kind |-> "free", left |-> 0]

Min2(a, b) == IF a <= b THEN a ELSE b

\* The first k slots of a table among those in S.
FirstSlots(S, k) == {t \in S : Cardinality({u \in S : u < t}) < k}

FirstSlot(S) == CHOOSE t \in S : \A u \in S : t <= u

\* The list q without its (first) element s: the unlinking walk of wi_delsess.
Unlink(q, s) ==
    IF \E i \in 1 .. Len(q) : q[i] = s
    THEN LET i == CHOOSE i \in 1 .. Len(q) : q[i] = s
         IN  [j \in 1 .. Len(q) - 1 |-> IF j < i THEN q[j] ELSE q[j + 1]]
    ELSE q

\* The successor of s in the list q, NULL at its end: s->ws_next.
NextOf(q, s) ==
    IF \E i \in 1 .. Len(q) - 1 : q[i] = s
    THEN q[(CHOOSE i \in 1 .. Len(q) - 1 : q[i] = s) + 1]
    ELSE NULL

HeadOf(q) == IF q = <<>> THEN NULL ELSE Head(q)

Linked == {wi_sessions[i] : i \in 1 .. Len(wi_sessions)}

\* memset plus what wi_newsess fills in.
NewSess(c) == [state |-> "HEADER", sock |-> c, rx |-> 0, flags |-> {},
               tx |-> {}, files |-> <<>>, forms |-> {}, idle |-> 0]

AnyRequest == CHOOSE r \in Requests : TRUE
NoConnection == [phase |-> "closed", req |-> AnyRequest, sent |-> 0,
                 peer |-> "open", room |-> ROOM, hdrs |-> 0]
ClosedConn(co) == [NoConnection EXCEPT !.hdrs = co.hdrs]

----------------------------------------------------------------------------
(***************************************************************************)
(* The handlers.  Each is a function on the working set w of one session:  *)
(* its wi_sess (se), its connection (co), the three tables it takes from,  *)
(* and err, TRUE when the C function returned a negative WI_E_ code.       *)
(***************************************************************************)

Ok(w)   == [w EXCEPT !.err = FALSE]
Fail(w) == [w EXCEPT !.err = TRUE]

CanSend(w)  == w.se.sock # NoSock /\ w.co.peer # "reset" /\ w.co.room > 0
FileHead(w) == Head(w.se.files)

\* Mutant: closesocket without ws_socket = INVALID_SOCKET.
CloseSocketMutant(w) ==
    [w EXCEPT !.co = IF w.se.sock = NoSock THEN @ ELSE ClosedConn(@),
              !.se.state = "ENDING"]

\* closesocket, ws_socket = INVALID_SOCKET, ws_state = WI_ENDING.
CloseSocket(w) ==
    [w EXCEPT !.co = IF w.se.sock = NoSock THEN @ ELSE ClosedConn(@),
              !.se.sock = NoSock, !.se.state = "ENDING"]

SendHdr(w) == [w EXCEPT !.co.room = @ - 1, !.co.hdrs = Min2(2, @ + 1)]

wi_senderr(w) == Ok(CloseSocket(IF CanSend(w) THEN SendHdr(w) ELSE w))

wi_txdone(w) == Ok(CloseSocket(w))

\* Mutant: WF_HEADERSENT is not set.
wi_replyhdrMutant(w) == IF CanSend(w) THEN Ok(SendHdr(w)) ELSE Fail(w)

wi_replyhdr(w) ==
    IF CanSend(w)
    THEN Ok([SendHdr(w) EXCEPT !.se.flags = @ \cup {"HEADERSENT"}])
    ELSE Fail(w)

\* k calls of wi_txalloc; it fails when the table runs out, keeping what it got.
wi_txalloc(w, k) ==
    LET free == TxSlot \ w.tx
        new  == FirstSlots(free, k)
    IN  [w EXCEPT !.tx = @ \cup new, !.se.tx = @ \cup new,
                  !.err = Cardinality(free) < k]

\* Mutant: the txbuf leaves the chain and its slot stays in use.
wi_txfreeMutant(w, S) == [w EXCEPT !.se.tx = @ \ S]

wi_txfree(w, S) == [w EXCEPT !.tx = @ \ S, !.se.tx = @ \ S]

\* Mutant: the slot is taken without a look at wi_file_slot_used.
wi_fopenMutant(w, kind, left) ==
    LET f == FirstSlot(FileSlot)
    IN  IF kind \notin FileKind THEN Fail(w)
        ELSE Ok([w EXCEPT !.file[f] = [kind |-> kind, left |-> left],
                          !.se.files = <<f>> \o @])

\* wi_fopen through em_fopen and wi_newfile.
wi_fopen(w, kind, left) ==
    LET free == {f \in FileSlot : w.file[f] = FreeFile}
        f    == FirstSlot(free)
    IN  IF kind \notin FileKind \/ free = {} THEN Fail(w)
        ELSE Ok([w EXCEPT !.file[f] = [kind |-> kind, left |-> left],
                          !.se.files = <<f>> \o @])

\* Mutant: the slot is freed, and the session's list still has it.
wi_fcloseMutant(w) == [w EXCEPT !.file[FileHead(w)] = FreeFile]

\* wi_fclose(sess->ws_filelist): the file at the head of the session's list.
wi_fclose(w) == [w EXCEPT !.file[FileHead(w)] = FreeFile, !.se.files = Tail(@)]

\* A form slot is lost to the table when wi_buildform rejects the pairs.
wi_buildform(w, pairs) ==
    LET free == FormSlot \ w.form
        f    == FirstSlot(free)
    IN  IF free = {} THEN Fail(w)
        ELSE IF pairs = "bad" THEN Fail([w EXCEPT !.form = @ \cup {f}])
        ELSE Ok([w EXCEPT !.form = @ \cup {f}, !.se.forms = @ \cup {f}])

\* Sends the file's blocks until the socket would block; ws_last is not touched.
wi_movebinary(w0) ==
    LET w    == IF "HEADERSENT" \in w0.se.flags THEN w0 ELSE wi_replyhdr(w0)
        f    == FileHead(w)
        sent == Min2(w.file[f].left, w.co.room)
    IN  IF w.se.sock = NoSock \/ w.co.peer = "reset" THEN Fail(w)
        ELSE IF sent = w.file[f].left
        THEN wi_txdone(wi_fclose([w EXCEPT !.co.room = @ - sent]))
        ELSE Ok([w EXCEPT !.co.room = @ - sent, !.file[f].left = @ - sent])

\* Mutant: the reply is taken for done when anything was sent.
SendChainMutant(w) ==
    LET sent == Min2(Cardinality(w.se.tx), w.co.room)
        w2   == wi_txfree([w EXCEPT !.co.room = @ - sent, !.se.idle = 0],
                          FirstSlots(w.se.tx, sent))
    IN  IF w.se.tx = {} THEN wi_txdone(w)
        ELSE IF w.se.sock = NoSock \/ w.co.peer = "reset" THEN Fail(w)
        ELSE IF sent > 0 THEN wi_txdone(w2)
        ELSE Ok(w2)

\* The chain of txbufs, each freed when it is sent; a short send ends the call.
SendChain(w) ==
    LET sent == Min2(Cardinality(w.se.tx), w.co.room)
        w2   == wi_txfree([w EXCEPT !.co.room = @ - sent,
                                    !.se.idle = IF sent > 0 THEN 0 ELSE @],
                          FirstSlots(w.se.tx, sent))
    IN  IF w.se.tx = {} THEN wi_txdone(w)
        ELSE IF w.se.sock = NoSock \/ w.co.peer = "reset" THEN Fail(w)
        ELSE IF w2.se.tx = {} THEN wi_txdone(w2)
        ELSE Ok(w2)

wi_sockwrite(w) ==
    IF "BINARY" \in w.se.flags THEN wi_movebinary(w)
    ELSE IF "HEADERSENT" \in w.se.flags THEN SendChain(w)
    ELSE LET h == wi_replyhdr(w) IN IF h.err THEN Fail(h) ELSE SendChain(h)

\* readdone: "Done with loading data, begin send process".
StartSend(w) == wi_sockwrite([w EXCEPT !.se.state = "SENDDATA"])

\* wi_printf drops the text of a session that is ending.
wi_badform(w) ==
    wi_sockwrite(IF w.se.state = "ENDING" \/ w.se.tx # {} THEN w ELSE wi_txalloc(w, 1))

wi_redirect(w) ==
    LET w1 == wi_fclose([w EXCEPT !.se.idle = 0])
        w2 == wi_fopen(w1, "TEXT", 1)
    IN  IF w2.err \/ w.co.req.form = "missing" THEN Fail(wi_senderr(w1))
        ELSE [w2 EXCEPT !.se.state = "CONTENT", !.se.flags = @ \ {"HEADERSENT"}]

\* wi_ssi on a plain file: the directive's pairs are made a form, "best effort"; the
\* file is opened, read into txbufs and closed; a txbuf shortage leaves it open at the
\* head of the list.  The form stays with the session.
wi_ssi(w) ==
    LET args == w.co.req.args
        w0   == IF args = "none" THEN w ELSE wi_buildform(w, args)
        w1   == wi_fopen(w0, "TEXT", 0)
        w2   == wi_txalloc(w1, w.co.req.ssi)
    IN  IF w1.err THEN w1 ELSE IF w2.err THEN w2 ELSE wi_fclose(w2)

\* The read loop on a text file.  At end of file it is closed, and unless it
\* was included by another the reply is sent; an include that did not come to
\* its end stops the reading with no error.
ReadText(w) ==
    LET f    == FileHead(w)
        eof  == wi_fclose(w)
        page == wi_txalloc([w EXCEPT !.file[f].left = 0, !.se.idle = 0], w.co.req.need)
        incl == IF w.co.req.ssi = 0 THEN page ELSE wi_ssi(page)
    IN  IF w.file[f].left = 0
        THEN IF eof.se.files # <<>> THEN Ok(eof) ELSE StartSend(eof)
        ELSE IF page.err THEN Fail(page)
        ELSE IF FileHead(incl) # f THEN Ok(incl)
        ELSE StartSend(wi_fclose(incl))

\* A form file has no data: after a routine that only printed, reading ends at once.
ReadForm(w) ==
    LET r       == wi_redirect(w)
        printed == wi_txalloc(w, w.co.req.need)
    IN  CASE w.co.req.form = "null"  -> Fail(w)
          [] w.co.req.form = "error" -> Fail(wi_badform(w))
          [] w.co.req.form = "stay"  -> StartSend(wi_fclose(printed))
          [] OTHER -> IF r.err THEN Fail(wi_badform(r)) ELSE ReadText(r)

wi_readfile(w) ==
    LET kind == w.file[FileHead(w)].kind
        pushing == [w EXCEPT !.se.state = "PUSHING"]
    IN  CASE kind = "FORM"   -> ReadForm(w)
          [] kind = "PUSH"   -> IF w.co.req.form = "null" THEN Fail(pushing) ELSE Ok(pushing)
          [] kind = "BINARY" -> StartSend([w EXCEPT !.se.idle = 0])
          [] OTHER           -> ReadText(w)

\* Open the file, check the client may have it, and start to answer.
AnswerFile(w) ==
    LET req  == w.co.req
        left == IF req.kind = "BINARY" THEN req.need ELSE 1
        w1   == wi_fopen(w, req.kind, left)
        w2   == [w1 EXCEPT !.se.flags = IF req.kind = "BINARY" THEN {"BINARY"} ELSE {}]
    IN  IF w1.err THEN Fail(wi_senderr(w))
        ELSE IF ~req.auth THEN Fail(wi_fclose(wi_senderr(w1)))
        ELSE IF req.cmd = "POST" THEN [w2 EXCEPT !.se.state = "POSTRX"]
        ELSE wi_readfile([w2 EXCEPT !.se.state = "CONTENT"])

wi_parseheader(w) ==
    LET req == w.co.req
        w1  == IF req.cmd = "GET" /\ req.pairs # "none"
               THEN wi_buildform(w, req.pairs) ELSE Ok(w)
    IN  IF w.se.rx < req.hdr \/ req.cmd = "PUT" THEN Ok(w)   \* "wait some more"; wi_putfile is a stub
        ELSE IF req.cmd = "OTHER" \/ req.kind = "BADARG" THEN Fail(wi_senderr(w))
        ELSE IF w1.err THEN Fail(wi_senderr(w1))
        ELSE AnswerFile(w1)

\* Mutant: the txbufs of the deleted session are not freed.
ReleaseMutant(w) ==
    LET w1 == IF w.se.files = <<>> THEN w ELSE wi_fclose(w)
    IN  [CloseSocket(w1) EXCEPT !.form = @ \ w.se.forms, !.se = NewSess(NoSock)]

\* Mutant: the forms of the deleted session are not freed.
ReleaseFormsMutant(w) ==
    LET w1 == IF w.se.files = <<>> THEN w ELSE wi_fclose(w)
    IN  [wi_txfree(CloseSocket(w1), w.se.tx) EXCEPT !.se = NewSess(NoSock)]

\* All that wi_delsess gives back: only the head of ws_filelist is closed.
Release(w) ==
    LET w1 == IF w.se.files = <<>> THEN w ELSE wi_fclose(w)
        w2 == wi_txfree(CloseSocket(w1), w.se.tx)
    IN  [w2 EXCEPT !.form = @ \ w.se.forms, !.se = NewSess(NoSock)]

----------------------------------------------------------------------------
(* Working sets and the cursor of wi_poll's loop *)

Work(s) == [se |-> ws[s],
            co |-> IF ws[s].sock = NoSock THEN NoConnection ELSE conn[ws[s].sock],
            tx |-> tx_used, form |-> form_used, file |-> file, err |-> FALSE]

\* The handler's working set w becomes the state of session s.
Store(s, w) ==
    /\ ws' = [ws EXCEPT ![s] = w.se]
    /\ conn' = [c \in Conn |-> IF c = ws[s].sock THEN w.co ELSE conn[c]]
    /\ UNCHANGED backlog
    /\ tx_used' = w.tx
    /\ form_used' = w.form
    /\ file' = w.file
    /\ push' = IF w.se.state = "PUSHING" /\ ~w.err THEN push \cup {s} ELSE push

\* Mutant: ws_next is read from the list as it was before the step.
MoveToMutant(q, s) ==
    /\ cur' = s
    /\ nxt' = NextOf(wi_sessions, s)

\* The loop reaches the session s of list q and saves its ws_next.
MoveTo(q, s) ==
    /\ cur' = s
    /\ nxt' = NextOf(q, s)

LeavePoll(where) ==
    /\ pc' = where
    /\ cur' = NULL /\ nxt' = NULL
    /\ sel_recv' = {} /\ sel_send' = {}

\* sess = next_sess, at the end of the loop's body.
Advance(q) ==
    IF nxt = NULL THEN LeavePoll("idle")
    ELSE MoveTo(q, nxt) /\ UNCHANGED <<pc, sel_recv, sel_send>>

\* Mutant: only the head of wi_sessions is ever unlinked.
wi_delsessMutant(s, w) ==
    /\ Store(s, Release(w))
    /\ wi_sessions' = IF HeadOf(wi_sessions) = s THEN Tail(wi_sessions) ELSE wi_sessions
    /\ sess_used' = sess_used \ {s}

\* wi_delsess(s), whose working set is w.
wi_delsess(s, w) ==
    /\ Store(s, Release(w))
    /\ wi_sessions' = Unlink(wi_sessions, s)
    /\ sess_used' = sess_used \ {s}

\* goto another_state
Again(w) == Store(cur, w) /\ UNCHANGED <<lists, pc, cursor, listening>>

\* Mutant: a session is killed one tick too early.
BreakEarlyMutant(w) ==
    /\ IF w.se.idle >= TMO THEN wi_delsess(cur, w)
                           ELSE Store(cur, w) /\ UNCHANGED lists
    /\ Advance(wi_sessions')
    /\ UNCHANGED listening

\* Mutant: no session is killed for inactivity.
BreakMutant(w) ==
    /\ Store(cur, w)
    /\ Advance(wi_sessions)
    /\ UNCHANGED <<lists, listening>>

\* break: the loop's last lines delete a session with no recent activity.
Break(w) ==
    /\ IF w.se.idle > TMO THEN wi_delsess(cur, w)
                          ELSE Store(cur, w) /\ UNCHANGED lists
    /\ Advance(wi_sessions')
    /\ UNCHANGED listening

Visiting(state) == pc = "visit" /\ cur # NULL /\ ws[cur].state = state

\* wi_poll returns WI_E_SOCKET; wi_step is about to restart the server.
PollFails == LeavePoll("failed") /\ UNCHANGED <<lists, ws, pools, listening, push>>

----------------------------------------------------------------------------
(* wi_poll: select and accept *)

Readable(co, rx) == co.peer # "open" \/ co.sent > rx
Writable(co)     == co.peer = "reset" \/ co.room > 0

Select ==
    LET open == {s \in Linked : ws[s].sock # NoSock}
    IN  /\ sel_recv' = {ws[s].sock : s \in {t \in open :
                           ws[t].state = "HEADER" /\ Readable(conn[ws[t].sock], ws[t].rx)}}
        /\ sel_send' = {ws[s].sock : s \in {t \in open :
                           /\ ws[t].tx # {} \/ "BINARY" \in ws[t].flags
                           /\ Writable(conn[ws[t].sock])}}


StartLoop(q) ==
    IF q = <<>> THEN LeavePoll("idle")
    ELSE pc' = "visit" /\ MoveTo(q, Head(q)) /\ Select

PollNoConn ==
    /\ pc = "idle" /\ listening /\ backlog = <<>>
    /\ StartLoop(wi_sessions)
    /\ UNCHANGED <<lists, ws, net, pools, listening, push>>

\* accept takes the oldest connection of the queue.
Accepting == pc = "idle" /\ listening /\ backlog # <<>>
NewSock   == Head(backlog)
Refused   == WiLocalhost /\ conn[NewSock].req.far

\* "reject all other hosts": the socket is closed and polling goes on.
PollRefuse ==
    /\ Accepting /\ Refused
    /\ backlog' = Tail(backlog)
    /\ conn' = [conn EXCEPT ![NewSock] = ClosedConn(@)]
    /\ StartLoop(wi_sessions)
    /\ UNCHANGED <<lists, ws, pools, listening, push>>

\* Mutant: the accepted connection stays in the queue.
PollAcceptMutant ==
    LET s == FirstSlot(Sess \ sess_used)
    IN  /\ Accepting /\ ~Refused
        /\ sess_used # Sess
        /\ conn' = [conn EXCEPT ![NewSock].phase = "open"]
        /\ sess_used' = sess_used \cup {s}
        /\ wi_sessions' = <<s>> \o wi_sessions
        /\ ws' = [ws EXCEPT ![s] = NewSess(NewSock)]
        /\ StartLoop(wi_sessions')
        /\ UNCHANGED <<backlog, pools, listening, push>>

PollAccept ==
    LET s == FirstSlot(Sess \ sess_used)
    IN  /\ Accepting /\ ~Refused
        /\ sess_used # Sess
        /\ backlog' = Tail(backlog)
        /\ conn' = [conn EXCEPT ![NewSock].phase = "open"]
        /\ sess_used' = sess_used \cup {s}
        /\ wi_sessions' = <<s>> \o wi_sessions
        /\ ws' = [ws EXCEPT ![s] = NewSess(NewSock)]
        /\ StartLoop(wi_sessions')
        /\ UNCHANGED <<pools, listening, push>>

\* Mutant: a connection that finds no slot is left in the queue.
PollAcceptNoSlotMutant ==
    /\ Accepting /\ ~Refused
    /\ sess_used = Sess
    /\ StartLoop(wi_sessions)
    /\ UNCHANGED <<lists, ws, net, pools, listening, push>>

\* wi_newsess finds no slot: wi_sockaccept returns WI_E_MEMORY, the socket stays open.
PollAcceptNoSlot ==
    /\ Accepting /\ ~Refused
    /\ sess_used = Sess
    /\ backlog' = Tail(backlog)
    /\ conn' = [conn EXCEPT ![NewSock].phase = "open"]
    /\ PollFails

\* getsockname fails: the socket is closed, and wi_sockaccept returns -1.
PollNameError ==
    /\ Accepting /\ WiLocalhost /\ "syscall" \in Faults
    /\ backlog' = Tail(backlog)
    /\ conn' = [conn EXCEPT ![NewSock] = ClosedConn(@)]
    /\ PollFails

\* select fails; or it reports an unbound wi_listen, accept returns -1, and the test for the
\* local host, on an sa that accept has not filled in, asks getsockname for the name of -1.
PollSelectError ==
    /\ pc = "idle"
    /\ "syscall" \in Faults \/ (WiLocalhost /\ ~listening)
    /\ PollFails
    /\ UNCHANGED net

\* The same without that test, or with a loopback address left in sa: fcntl fails on -1: wi_panic.
PollPanic ==
    /\ pc = "idle" /\ ~listening
    /\ LeavePoll("exited")
    /\ UNCHANGED <<lists, ws, net, pools, listening, push>>

----------------------------------------------------------------------------
(* wi_poll: one pass of the switch for each session state *)

\* Mutant: recv is given no limit.
ReceivedMutant(w) == w.co.sent - w.se.rx

\* recv into the rest of ws_rxbuf.
Received(w) == Min2(w.co.sent, RXBUF) - w.se.rx
Recv(w) == [w EXCEPT !.se.rx = @ + Received(w), !.se.idle = 0]

VisitHeader ==
    /\ Visiting("HEADER")
    /\ LET w == Work(cur)
           readable == w.se.sock \in sel_recv
           got == IF readable THEN Recv(w) ELSE w
           r == IF got.se.rx = 0 THEN got ELSE wi_parseheader(got)
       IN  /\ ~(readable /\ w.co.peer = "reset")
           /\ IF r.se.state # "HEADER" THEN Again(r) ELSE Break(r)

\* Mutant: the header's bytes are counted as content.
VisitPostRxMutant ==
    /\ Visiting("POSTRX")
    /\ LET w    == Work(cur)
           got  == Recv(w)
           req  == w.co.req
           all  == got.se.rx >= req.body \/ Received(w) = ENOTCONN
           form == wi_buildform(got, req.pairs)
       IN  /\ w.co.peer # "reset"
           /\ IF ~all THEN Break(got)
              ELSE IF form.err THEN Break(wi_senderr(form))
              ELSE Again([form EXCEPT !.se.state = "CONTENT"])

VisitPostRx ==
    /\ Visiting("POSTRX")
    /\ LET w    == Work(cur)
           got  == Recv(w)
           req  == w.co.req
           all  == got.se.rx - req.hdr >= req.body \/ Received(w) = ENOTCONN
           form == wi_buildform(got, req.pairs)
       IN  /\ w.co.peer # "reset"
           /\ IF ~all THEN Break(got)
              ELSE IF form.err THEN Break(wi_senderr(form))
              ELSE Again([form EXCEPT !.se.state = "CONTENT"])

\* recv returns an error other than EWOULDBLOCK.
VisitRecvError ==
    /\ \/ Visiting("HEADER") /\ ws[cur].sock \in sel_recv
       \/ Visiting("POSTRX")
    /\ Work(cur).co.peer = "reset"
    /\ PollFails
    /\ UNCHANGED net

VisitContent ==
    /\ Visiting("CONTENT")
    /\ LET r == wi_readfile(Work(cur))
       IN  IF r.err THEN Again([r EXCEPT !.se.state = "ENDING"])
           ELSE IF r.se.state # "CONTENT" THEN Again(r) ELSE Break(r)

\* Mutant: after a failed send the state is not WI_ENDING.
VisitSendDataMutant ==
    /\ Visiting("SENDDATA")
    /\ LET w == Work(cur)
           r == wi_sockwrite(w)
       IN  IF (w.se.tx = {} /\ "BINARY" \notin w.se.flags) \/ w.se.sock \notin sel_send
           THEN Break(w)
           ELSE IF r.err \/ r.se.state # "SENDDATA" THEN Again(r) ELSE Break(r)

VisitSendData ==
    /\ Visiting("SENDDATA")
    /\ LET w == Work(cur)
           r == wi_sockwrite(w)
       IN  IF (w.se.tx = {} /\ "BINARY" \notin w.se.flags) \/ w.se.sock \notin sel_send
           THEN Break(w)
           ELSE IF r.err THEN Again([r EXCEPT !.se.state = "ENDING"])
           ELSE IF r.se.state # "SENDDATA" THEN Again(r) ELSE Break(r)

\* Mutant: an ending session is left for the inactivity check.
VisitEndingMutant ==
    /\ Visiting("ENDING")
    /\ Advance(wi_sessions)
    /\ UNCHANGED <<lists, ws, net, pools, listening, push>>

VisitEnding ==
    /\ Visiting("ENDING")
    /\ wi_delsess(cur, Work(cur))
    /\ Advance(wi_sessions')
    /\ UNCHANGED listening

VisitPushing ==
    /\ Visiting("PUSHING")
    /\ Advance(wi_sessions)
    /\ UNCHANGED <<lists, ws, net, pools, listening, push>>

----------------------------------------------------------------------------
(* wi_step: restart after a failed poll *)

\* closesocket(wi_listen) resets the connections it has not accepted.
RestartClose ==
    /\ pc = "failed"
    /\ listening' = FALSE
    /\ conn' = [c \in Conn |-> IF conn[c].phase = "backlog" THEN ClosedConn(conn[c])
                                                          ELSE conn[c]]
    /\ backlog' = <<>>
    /\ pc' = "clean"
    /\ MoveTo(wi_sessions, HeadOf(wi_sessions))
    /\ UNCHANGED <<lists, ws, pools, sel_recv, sel_send, push>>

RestartDelete ==
    /\ pc = "clean" /\ cur # NULL
    /\ wi_delsess(cur, Work(cur))
    /\ MoveTo(wi_sessions', nxt)
    /\ UNCHANGED <<pc, sel_recv, sel_send, listening>>

\* Mutant: wi_init does not listen again.
RestartInitMutant ==
    /\ pc = "clean" /\ cur = NULL
    /\ pc' = "idle"
    /\ UNCHANGED <<lists, ws, net, pools, cursor, push, listening>>

\* wi_init after the sleep; what it returns is not looked at.
RestartInit ==
    /\ pc = "clean" /\ cur = NULL
    /\ \/ listening' = TRUE
       \/ "bind" \in Faults /\ listening' = FALSE
    /\ pc' = "idle"
    /\ UNCHANGED <<lists, ws, net, pools, cursor, push>>

----------------------------------------------------------------------------
(* The clients, the clock and the push code *)

ClientConnect(c, r) ==
    /\ listening /\ conn[c].phase = "closed"
    /\ conn' = [conn EXCEPT ![c] = [NoConnection EXCEPT !.phase = "backlog", !.req = r]]
    /\ backlog' = Append(backlog, c)

Connected(c) == conn[c].phase \in {"backlog", "open"}

ClientSend(c) ==
    /\ Connected(c) /\ conn[c].peer = "open"
    /\ conn[c].sent < conn[c].req.hdr + conn[c].req.body
    /\ conn' = [conn EXCEPT ![c].sent = @ + 1]

\* The client shuts its sending side.
ClientEof(c) ==
    /\ "eof" \in Faults /\ Connected(c) /\ conn[c].peer = "open"
    /\ conn' = [conn EXCEPT ![c].peer = "eof"]

ClientReset(c) ==
    /\ "reset" \in Faults /\ Connected(c) /\ conn[c].peer # "reset"
    /\ conn' = [conn EXCEPT ![c].peer = "reset"]

\* The client reads all that its socket buffer holds.
ClientDrain(c) ==
    /\ conn[c].phase = "open" /\ conn[c].peer # "reset" /\ conn[c].room < ROOM
    /\ conn' = [conn EXCEPT ![c].room = ROOM]

Client(c) ==
    /\ \/ \E r \in Requests : ClientConnect(c, r)
       \/ ClientSend(c) /\ UNCHANGED backlog
       \/ ClientEof(c) /\ UNCHANGED backlog
       \/ ClientReset(c) /\ UNCHANGED backlog
       \/ ClientDrain(c) /\ UNCHANGED backlog
    /\ UNCHANGED <<lists, ws, pools, pc, cursor, listening, push>>

\* wi_cticks is incremented; the port's timer does it.
Tick ==
    /\ ws' = [s \in Sess |-> IF s \in sess_used
                             THEN [ws[s] EXCEPT !.idle = Min2(TMO + 1, @ + 1)]
                             ELSE ws[s]]
    /\ ws' # ws
    /\ UNCHANGED <<lists, net, pools, pc, cursor, listening, push>>

\* Push code disposes "of the session by setting sess->ws_state to WI_ENDING".
PushEnd(s) ==
    /\ s \in push
    /\ ws' = [ws EXCEPT ![s].state = "ENDING"]
    /\ push' = push \ {s}
    /\ UNCHANGED <<lists, net, pools, pc, cursor, listening>>

----------------------------------------------------------------------------
Init ==
    /\ wi_sessions = <<>> /\ sess_used = {}
    /\ ws = [s \in Sess |-> NewSess(NoSock)]
    /\ conn = [c \in Conn |-> NoConnection] /\ backlog = <<>>
    /\ tx_used = {} /\ form_used = {}
    /\ file = [f \in FileSlot |-> FreeFile]
    /\ pc = "idle" /\ cur = NULL /\ nxt = NULL
    /\ sel_recv = {} /\ sel_send = {}
    /\ listening = TRUE /\ push = {}

Poll ==
    \/ PollNoConn
    \/ PollRefuse
    \/ PollAccept
    \/ PollAcceptNoSlot
    \/ PollNameError
    \/ PollSelectError
    \/ PollPanic

Visit ==
    \/ VisitHeader
    \/ VisitPostRx
    \/ VisitRecvError
    \/ VisitContent
    \/ VisitSendData
    \/ VisitEnding
    \/ VisitPushing

Restart == RestartClose \/ RestartDelete \/ RestartInit

Server == Poll \/ Visit \/ Restart

Environment ==
    \/ \E c \in Conn : Client(c)
    \/ Tick
    \/ \E s \in Sess : PushEnd(s)

Next == Server \/ Environment

Spec == Init /\ [][Next]_vars

\* The thread of wi_thread never stops polling, and the port's timer never stops.
Fairness == WF_vars(Server) /\ WF_vars(Tick)

FairSpec == Spec /\ Fairness

(***************************************************************************)
(* Properties                                                              *)
(***************************************************************************)

\* Every variable has its type.
TypeOK ==
    /\ wi_sessions \in Seq(Sess)
    /\ sess_used \subseteq Sess
    /\ ws \in [Sess -> WiSess]
    /\ conn \in [Conn -> Connection]
    /\ backlog \in Seq(Conn)
    /\ tx_used \subseteq TxSlot
    /\ form_used \subseteq FormSlot
    /\ file \in [FileSlot -> WiFile]
    /\ pc \in {"idle", "visit", "failed", "clean", "exited"}
    /\ cur \in Sess \cup {NULL} /\ nxt \in Sess \cup {NULL}
    /\ sel_recv \subseteq Conn /\ sel_send \subseteq Conn
    /\ listening \in BOOLEAN
    /\ push \subseteq Sess

\* The list and the slot table agree: a session is linked exactly while its slot
\* is in use, and once (wi_newsess and wi_delsess keep the two in step).
ListOK ==
    /\ \A i, j \in 1 .. Len(wi_sessions) : wi_sessions[i] = wi_sessions[j] => i = j
    /\ Linked = sess_used

\* next_sess is saved before the visit and used after it (webio.c:177): while a
\* session is visited or deleted, it is linked and the pointer saved is its successor.
CursorOK ==
    pc \in {"visit", "clean"} /\ cur # NULL =>
        /\ cur \in Linked
        /\ nxt = NextOf(wi_sessions, cur)

\* No socket is used after it was closed, closed twice or shared: the socket of a
\* session is open and its own, and only a session about to be deleted has
\* INVALID_SOCKET (FD_ISSET, recv and send are given ws_socket without a test).
SocketsOK ==
    \A s \in sess_used :
        /\ ws[s].sock = NoSock => ws[s].state = "ENDING"
        /\ ws[s].sock # NoSock => conn[ws[s].sock].phase = "open"
        /\ \A t \in sess_used : s # t /\ ws[s].sock # NoSock => ws[s].sock # ws[t].sock

\* No txbuf is lost or chained to two sessions: those in use are those of the
\* sessions' chains, whatever sends, failures and deletions happened.
TxbufsConserved ==
    /\ tx_used = UNION {ws[s].tx : s \in sess_used}
    /\ \A s, t \in sess_used : s # t => ws[s].tx \cap ws[t].tx = {}

\* A file or form slot has one owner and is in use while it has it; wi_readfile
\* and wi_movebinary find a file in the list they take the head of.
FilesOK ==
    /\ \A s \in sess_used : \A i \in DOMAIN ws[s].files :
          /\ file[ws[s].files[i]] # FreeFile
          /\ \A t \in sess_used : \A j \in DOMAIN ws[t].files :
                ws[s].files[i] = ws[t].files[j] => s = t /\ i = j
    /\ \A s \in sess_used :
          /\ ws[s].forms \subseteq form_used
          /\ \A t \in sess_used : s # t => ws[s].forms \cap ws[t].forms = {}
    /\ \A s \in sess_used :
          \/ ws[s].state = "CONTENT"
          \/ ws[s].state = "SENDDATA" /\ "BINARY" \in ws[s].flags
          => ws[s].files # <<>>

\* A client is sent one reply header, although the header is built at five places,
\* WF_HEADERSENT is cleared by wi_redirect and a form routine may run twice.
OneReplyHeader == \A c \in Conn : conn[c].hdrs <= 1

Deleted(s)  == s \in sess_used /\ s \notin sess_used'
Inactive(s) == /\ ws[s].idle > TMO
               /\ ws[s].state = "HEADER" => ws[s].sock \notin sel_recv
               /\ ws[s].state = "SENDDATA" =>
                     \/ ws[s].tx = {} /\ "BINARY" \notin ws[s].flags
                     \/ ws[s].sock \notin sel_send
                     \/ conn[ws[s].sock].room = 0

\* Between two restarts wi_poll deletes the session it visits, because it is done
\* or because nothing moved on it for TMO ticks, never one push code owns and never
\* one whose text the client is taking.
DeletesOnlyDone ==
    [][\A s \in Sess : Deleted(s) /\ pc = "visit" =>
          /\ s = cur
          /\ ws[s].state \in {"HEADER", "CONTENT", "SENDDATA", "ENDING"}
          /\ ws[s].state = "ENDING" \/ Inactive(s) \/ "BINARY" \in ws[s].flags]_vars

\* "kill sessions with no recent activity" (webio.c:293), said of every session.
DeletesOnlyInactive ==
    [][\A s \in Sess : Deleted(s) /\ pc = "visit" =>
          ws[s].state = "ENDING" \/ Inactive(s)]_vars

\* "We check for ContentLength field or socket closed" (webio.c:231): a form is built
\* from all the content announced, or from what came before the client shut its side,
\* as long as no recv returns as many bytes as the value of ENOTCONN (webio.c:239).
FormsBuiltWhole ==
    [][\A s \in Sess : ws[s].state = "POSTRX" /\ ws'[s].state = "CONTENT" =>
          LET co == conn[ws[s].sock]
          IN  co.sent - co.req.hdr >= co.req.body \/ co.peer # "open"]_vars

LostForms == form_used \ UNION {ws[s].forms : s \in sess_used}
LostFiles == {f \in FileSlot : file[f] # FreeFile} \
             UNION {{ws[s].files[i] : i \in DOMAIN ws[s].files} : s \in sess_used}

\* Malformed pairs reach wi_buildform: the request's, or those of the include in its page.
BadPairs(req) == req.pairs = "bad" \/ (req.ssi > 0 /\ req.args = "bad")

\* Where slots are lost to their tables, and nowhere else: one form slot where malformed
\* pairs of a request or of an include reach wi_buildform (webutils.c:469, its error is
\* ignored at 597), and file slots when a session is deleted with an include open
\* (webobjs.c:337).
SlotsLostOnlyThere ==
    [][/\ LostForms' # LostForms =>
             /\ Cardinality(LostForms') = Cardinality(LostForms) + 1
             /\ pc = "visit" /\ ws[cur].sock # NoSock
             /\ BadPairs(conn[ws[cur].sock].req)
       /\ LostFiles' # LostFiles =>
             \E s \in sess_used \ sess_used' : Len(ws[s].files) > 1]_vars

\* While a session lives, the server closes its socket only when all it queued was sent
\* (a session deleted for inactivity, or by a restart, takes its queued text with it).
ClosesAfterLastTxbuf ==
    [][\A s \in sess_used \cap sess_used' :
          ws[s].sock # NoSock /\ ws'[s].sock = NoSock => ws'[s].tx = {}]_vars

\* "The session now belongs to the push code" (webio.c:679) until it ends it.
PushOwnsSession == \A s \in push : s \in sess_used /\ ws[s].state = "PUSHING"

\* "clean out everything" (webio.c:312): no connection outlives a restart.
RestartCleansOut == pc = "clean" /\ cur = NULL => \A c \in Conn : conn[c].phase # "open"

\* "Make sure there are no dangling resources" (webobjs.c:331): a file that is open is
\* the file of a session that exists.
NoDanglingFiles == LostFiles = {}

\* The sessions live as SessionLife promises: wi_poll, wi_step and the push code
\* implement it, with a slot that is not in use as a free session.
Life == INSTANCE SessionLife WITH
            phase <- [s \in Sess |-> IF s \in sess_used THEN ws[s].state ELSE "free"],
            sock  <- [s \in Sess |-> IF s \in sess_used THEN ws[s].sock ELSE NoSock],
            up    <- pc \notin {"failed", "clean"}
LifeSpec == Life!Spec

\* wi_poll returns: no session keeps the loop or its goto going round.
PollReturns == pc = "visit" ~> pc \in {"idle", "failed"}

\* "restart the server" (webio.c:311): a failed poll is followed by a listening server where
\* wi_init can bind.  Where it cannot there is no such promise: wi_step does not look at what
\* it returns (webio.c:319), and it sets no SO_REUSEADDR.
RestartCompletes == "bind" \notin Faults => (pc = "failed" ~> pc = "idle" /\ listening)

InState(s, S) == s \in sess_used /\ ws[s].state \in S

\* A session that is done, that reads or that sends (even to a client that takes
\* nothing) is over in the end.
SessionsEnd ==
    \A s \in Sess : \A S \in {{"ENDING"}, {"CONTENT", "SENDDATA"}} :
        InState(s, S) ~> ~InState(s, S)

\* A client that sends only part of a header is dropped, unless it shuts its side
\* or overfills ws_rxbuf: recv then returns 0 at each poll and ws_last is refreshed.
SilentClientsDropped ==
    \A s \in Sess : InState(s, {"HEADER"}) ~>
        \/ ~InState(s, {"HEADER"})
        \/ ws[s].sock # NoSock /\ LET co == conn[ws[s].sock]
                                 IN  co.peer = "eof" \/ co.sent > RXBUF

\* A queued connection is accepted, refused or reset.
BacklogDrains == \A c \in Conn : conn[c].phase = "backlog" ~> conn[c].phase # "backlog"

\* "kill sessions with no recent activity", said of sessions that wait for POST content.
StalledPostDropped == \A s \in Sess : InState(s, {"POSTRX"}) ~> ~InState(s, {"POSTRX"})

============================================================================
