# webio, verified in TLA+

webio is a small embedded web server: a single thread runs `select` over a
listen socket and a list of sessions, and moves each session through a state
machine from its HTTP header to the last byte of its reply. This directory
holds TLA+ modules translated from its source, the TLC configurations that
check them on small instances, and TLAPS proofs for every instance.

## The system

| part | source | state | operations |
|---|---|---|---|
| poll loop | `src/webio.c` | `wi_listen`, `wi_sessions`, the fd sets, `next_sess` | `wi_init`, `wi_poll`, `wi_step`, `wi_thread`, `wi_sockaccept` |
| handlers | `src/webio.c`, `src/webutils.c` | one `wi_sess`: state, socket, `ws_rxbuf`, flags, txbufs, files, forms, `ws_last` | `wi_parseheader`, `wi_readfile`, `wi_ssi`, `wi_exec`, `wi_buildform`, `wi_redirect`, `wi_badform`, `wi_replyhdr`, `wi_senderr`, `wi_sockwrite`, `wi_movebinary`, `wi_txdone` |
| object tables | `src/webobjs.c` | slot tables of sessions, txbufs, files, forms; heap counters | `wi_new*`, `wi_del*`, `wi_txalloc`, `wi_txfree`, `wi_alloc`, `wi_free` |
| embedded files | `src/webfs.c` | `em_openlist`, the EOFILE slots, positions | `wi_fopen`, `wi_fclose`, `em_fopen`, `em_fread`, `em_fseek`, `em_fclose`, `em_verify` |
| text | `src/webutils.c`, `src/webclib.c` | none | header lines, arguments, URL and base64 decoding, form values |
| system layer | `src/websys.c` | none | date, string compare |
| fsbuilder | `fsbuild/fsbuilder.cpp` | a list of files | turns files into C tables at build time |
| demo | `test/webtest.c` | `wi_cticks` | `main`, an authentication routine, form and push stubs, `wi_panic` |

Everything the server does happens inside `wi_poll`, which is not re-entrant.
What interleaves with it is outside: clients that connect, send, stop, shut or
reset; the timer that increments `wi_cticks`; and push code, which owns a
session in `WI_PUSHING` until it sets `ws_state` to `WI_ENDING`. The parts
interact by calls only, and share the session: handlers change its state, its
socket and its lists of buffers, files and forms under the poll loop's feet.

The behaviours that are hard here: sessions deleted while the loop walks their
list; a socket closed in the middle of a handler; tables that run out at any
step; errors that are returned and ignored; replies sent over many polls; the
inactivity check, which runs after some visits and not after others; and the
restart, which one client's reset imposes on all sessions. `PROJECT.json` lists
them with their lines.

What makes each part correct: the list and slot table agree and the cursor is
never stale (poll loop, tables); a socket, a txbuf, a file and a form have one
owner, and none is lost or used after it was given back (tables); a client gets
one reply header, and its connection is not closed before the text queued for it
is sent (handlers); sessions end when they are done or idle, and only then;
polls return and the server comes back from a restart (poll loop); each byte of
a page arrives once and in order (content, wire); the parsers agree with
what they are documented to return (text); distinct files get distinct
identifiers (fsbuilder).

## The modules

**`WebioServer`** is the server in the build that takes its objects from fixed
tables (no `WI_USE_MALLOC`; `malloc` returning NULL plays the same role in the
other build).

- *State.* `wi_sessions`, `sess_used` and `ws` are the list, the slot table and
  the `wi_sess` records; `tx_used`, `form_used`, `file` are the other tables;
  `cur` and `nxt` are `sess` and `next_sess`; `sel_recv`, `sel_send` the fd sets;
  `pc` says whether the thread is between polls (`idle`), in the loop (`visit`),
  in `wi_step` after a failed poll (`failed`, `clean`), or gone through
  `wi_panic` (`exited`). `conn` and `backlog` are the network; `push` the
  session pointers push code holds.
- *Actions.* One per way a poll can begin (`PollNoConn` ... `PollPanic`: select,
  accept, and the fd sets); one per session state visited (`VisitHeader` ...
  `VisitPushing`), covering the whole case of the switch, the handlers it calls
  and, through `Break`, the inactivity check after it; `goto another_state` is
  `Again`, which leaves the cursor where it is. `RestartClose`, `RestartDelete`,
  `RestartInit` are `wi_step`. A visit is atomic: no other thread of the program
  runs in it, and what a client does during it is seen as done before or after.
- *Handlers* are functions on a working set: the session, its connection, the
  tables, and the error flag of the C function. They keep the source's names,
  and `Store` writes their result back.
- *Data* is counted. A request record says what a client will ask for and what
  the server will find (which kind of file, whether a form's pairs parse, whether
  its routine is there and redirects, prints or fails, whether an include in the page brings
  pairs of its own, which `wi_ssi` makes a form of without looking at the error, whether the
  client is admitted). Header and content are
  numbers of units, a reply is one unit of header plus one per txbuf or file
  block. A send moves whole units: a short send *within* a unit is in
  `WebioReply`.

**`SessionLife`** is the abstract specification: what a session is to somebody
who only sees its state, its connection and whether the server is up. It has a
connection no other session has, follows the order of the `ws_state` codes, is
never deleted while it waits for POST content or belongs to push code, and every
session is gone before a restarted server serves again. `WebioServer` is checked
to implement it (`LifeSpec`).

**`ObjTables`** is the same tables one level lower, with their pointers: `ws_next`,
`tb_next` and `ws_txtail`, `wf_next`, `em_openlist` and the EOFILE behind each
`wi_file`, in the build with slots. Pointers are slot numbers, NULL is 0. Its actions are the
calls webio.c, webutils.c and webclib.c make on these objects: `wi_newsess`, `wi_delsess`,
`wi_printf` and `CopyChar` (the two ways text reaches the tail txbuf, through `wi_txalloc`
when it is full), `SendHead` (through `wi_txfree`), `wi_fopen`, `CloseHead`, `ReadHead`,
`FileLength` (`wi_movebinary`'s seek to the end and back). They come in any order,
except that an ending session gets no more text: `wi_printf` tests that itself, and `wi_readfile`
copies no character for one because the state it runs in and the returns of its callees see to it.
A walk along pointers is `ListOf`, bounded so that it can be evaluated on a circle as well.

**`SessObjects`** is what those calls promise: each session has a queue of text, which
leaves in the order it came, and a stack of open files, each read from its own position; a
call that finds a table full changes nothing. `ObjTables` is checked to implement it
(`ObjectsSpec`): the slots, links, back pointers and the shared open list do not show.

**`WebioReply`** is one reply from the open file to the last byte, where `WebioServer`
only counts. Text is a sequence of units, a character or half of a directive, each named
by its file and its place there, so that what is queued and sent can be compared with the page.

- *State.* `files` and `forms` are the session's two lists, `tx` its txbufs with their text,
  `stack` the calls of `wi_readfile` under way (an include calls it through `wi_ssi`, and each
  activation has its own place in its block), `room` what the socket takes now, `wire` all it
  took. `queued` and `lost` are history. `txleft`, `fileleft`, `formleft` are what the tables
  have left; between polls other sessions take or give back txbufs (`Others`).
- *Actions.* The read loop in the steps in which it reads, copies and finds a directive;
  `wi_ssi` with each of its outcomes (no such file, a routine, a file, a command; without
  pairs, with pairs that become a form, with malformed ones that take a slot and become none); the return into the caller's activation; `wi_replyhdr`, `wi_sockwrite`
  and `wi_movebinary` with every length `send` can return; `Drain`, the client reading.
- *Abstractions.* What lies behind the end of the data in `wf_inbuf` is one unit, `Junk`, never
  taken for a directive. A binary file is not empty. The port gives no `wi_execfunc`. `errno` after
  a short send is what an earlier call left, so either outcome is a step. Inactivity and
  the restart are in `WebioServer`. The include of a routine with pairs, when
  no form came of them and the session has none, dereferences NULL: there the process ends.

**`WebioText`** is the text of one request, taken apart in place. `wi_parseheader` and what it
calls write NULs into `ws_rxbuf` and keep pointers into it, so each step reads what the
ones before it left: `rxbuf` is that buffer, every pointer a place in it, and the actions
are `wi_parseheader`'s steps in the order of the code, then `wi_buildform`, then a handler
that asks `wi_formvalue`, `wi_formint`, `wi_formbool` or `wi_formipaddr` for a control.
Units are character codes, and one unit for each word only compared whole (method, field
names). The client's side (`Encode`, `Encode64`, `Wire`) is the reference the parsers are compared
with: what a browser sends for what a user entered. Left out: the scan of
`wi_getline` past the end of `ws_rxbuf` (taken to find nothing), the bounds of `strncpy` on name and
password, and the field names' case. A POST's content has arrived, and what remains
between the end of a decoded string and its old end is never read again.

**`FsBuilder`** is the build-time program, one sequential pass after the other: the command line,
the list (one scratch option set for all lines), the contents (one current form for all
files), `efslist`, the switch of C expressions, the warnings. Its state is the program's own
globals and lists. Names are code sequences, because identifiers are made from them.
A file is read in blocks of `READBUF`: `Cuts` are the tags a block's end cuts off, and each of them
is seen as any of `Behind`, which stands for what the bytes behind `readbuf`, or left in it, make
of it. Left out: what the arrays hold, names of `NAMELENGTH` or more, attributes without quotes,
files that cannot be opened, types of C expressions other than the three, layout.

**`WebioHandlerProofs`**, **`WebioOwnershipProofs`** and **`WebioVisitProofs`** hold the
proofs about `WebioServer`, each extending the one before it; **`ObjTablesProofs`** those about
`ObjTables`, **`WebioReplyProofs`** and **`WebioPageProofs`** those about `WebioReply`,
**`FsBuilderProofs`** those about `FsBuilder`. **`SequenceLemmas`** has what more than one of them
needs of sequences, and how to count on. See [Proofs](#proofs).

**`MCServer`**, **`MCTables`**, **`MCReply`**, **`MCText`** and **`MCFsBuilder`** give TLC the
requests, pages, files and lists; **`MCServerLive`** adds the fairness of the thread in a form
TLC can evaluate: a bit that every server step flips. As long as it has not exited the server has a step to take, so fairness of the flip is
weak fairness of `Server`.

Each `...Mutant` operator is a wrong version of the definition after it, a bug of
the kind that line invites. `PROJECT.json` pairs each property with the mutant that
violates it.

## The runs

| run | instance | what it shows |
|---|---|---|
| `server_requests` | 1 session, 1 connection, 21 kinds of request, all faults | what each handler and each of its error paths leaves behind, request after request; where alone slots are lost (`SlotsLostOnlyThere`) |
| `server_sessions` | 2 sessions, 2 symmetric connections, 2 txbufs, 2 files, 1 form | ownership across sessions, the list and cursor, forms built from all their content (`FormsBuiltWhole`), and the refinement of `SessionLife` |
| `server_live` | 1 session, 2 connections | what must eventually happen |
| `tables` | 2 sessions, 2 txbufs of 2 units, 2 files, 3 EOFILEs, 2 embedded files | the links under any order of calls, and the refinement of `SessObjects` |
| `reply` | blocks of 4 units, txbufs of 3, a socket of 4; pages of up to three items, includes two deep | the page with its includes is what is sent, whole and in order, when nothing ran out; what a shortage or a short send can do, and no more |
| `text` | browsers' forms, fields, logins, and queries written by hand | the handler gets what the user entered, except in the cases the properties name |
| `fsbuild` | lists of up to 3 of 18 lines, 6 command lines, 6 contents | the generated image links, each entry is that of its line, forms and handlers meet |
| `stalled_post`, `push_owner`, `restart_leak`, `binary_inactive`, `dangling_files` | as needed | places where the code does not do what its comments say |

The bounds, and why they are enough. Sessions meet only in the tables, the list
and the restart, so two show each way they can. Two txbufs are what a page with an
include needs and one fewer than `Thick` needs, so every allocation fails somewhere; one
form is fewer than two sessions ask for; a socket buffer of `ROOM` = 2 units holds a header and
one txbuf, so replies are sent in pieces. A header of two units arrives in parts;
`RXBUF` is the size of the largest request that fits and `BigPost`, `BigPut`
exceed it. `TMO` = 1 tells "idle for exactly the time" from "longer"; with `TMO` = 0 one tick
is too long. `idle` is capped one above `TMO`, `hdrs` at 2. `ENOTCONN` = 2 is a byte count a
client can produce, 9 one it cannot.

In `tables` two of each object give a list a head, a tail and a middle to unlink from (three
EOFILEs, so that the file table runs out first and the code that then gives the EOFILE
back is reached; `em_fopen` finding no EOFILE fails like a name that does not exist, and only
that name is tried). Calls on text and calls on files share no state but the session list, so the
constraint `OneKind` lets a behaviour have text or open files at one time, not both. One unit
longer than a file is what a read at its end asks for.

In `reply` a file may have more than a block and a directive may end one, a page may have more
text than txbufs left (0 to 9), and a binary file more than the socket takes at once;
`ROOM` holds a header or a txbuf, not both. The page that includes itself stops when the
file slots do. In `text` each name, value, field and order of fields that the properties tell
apart is there: values that look like numbers, addresses and truths, with spaces and bytes
above 127, names that begin other names, three pairs for a form of two, up to three
fields before and behind the one looked for. In `fsbuild`, `OUTPUTFILES` = 3 lets the table
overflow, and `Base` = 2 makes two-digit numbers, which a name's last digit can be
confused with, appear within three lines. Blocks are of 4 units there: one content has a form across a block's end,
one ends in a tag that does not end, and each may be read as text, as another form or as
an input without a type; the real block has 4096 bytes, and `data/progman.html` takes twelve of them.

`server_requests`, `reply`, `text` and `fsbuild` switch the deadlock check off: the last three end, and in the first the server
may exit (`wi_panic`, once `bind` has failed). The violation runs do because they are cut short.

Fairness. `wi_thread` is an endless loop, hence weak fairness of the server's
steps. The porting guide (`data/progman.html`, "The counting timer") makes it the
porting engineer's responsibility that ticks are counted, hence weak fairness of
`Tick`. Nothing is assumed of clients or of push code: `SessionsEnd` leaves
out the sessions that push code owns and those that wait for POST content. `ReplyEnds` in `reply`
is about a client that keeps reading, hence weak fairness of `Drain` there, and about
`wi_thread`, hence weak fairness of `Server`.

### What the violation runs show

- `stalled_post`: `wi_poll` says "kill sessions with no recent activity", but in
  `WI_POSTRX` it sets `ws_last` at every poll, received bytes or not.
- `push_owner`: "the session now belongs to the push code", yet a reset on any other
  connection fails the poll and the restart deletes it.
- `restart_leak`: "clean out everything" misses the socket that was accepted when no
  session slot was free.
- `binary_inactive`: `wi_movebinary` moves data without refreshing `ws_last`, so a
  long transfer is killed under a client that is taking it.
- `dangling_files`: "make sure there are no dangling resources" (webobjs.c:331), yet `wi_delsess`
  closes the head of `ws_filelist` only. A form's page with an include whose text found no
  txbuf has two files open between two polls; a failed poll then deletes the session, and the
  page's `wi_file` and EOFILE are never freed.

### Limits that conditions of passing properties name

Where the code does less than one might expect, the property says so in its condition.

- *Content.* `error == ENOTCONN` (webio.c:239) is asked of a byte count: a chunk of that size
  ends the wait for a POST's content, and `FormsBuiltWhole` holds where no `recv` returns it.
- *Shortages.* A page whose text found no txbuf is sent truncated, under a `Content-Length` that
  matches what was queued (`RepliesWhole`, `NothingAfterCut`). Malformed pairs, of a
  request or of an include, keep a form slot, a session deleted with an include open keeps a file slot (`SlotsLostOnlyThere`).
- *Short sends.* They repeat text (webio.c:808) or lose parts of a binary block
  (webutils.c:184); `ShortSendsBounded` says that they do nothing else.
- *Header as query.* A '?' in a header line, before the first field looked for, gives a plain GET a
  form, and an '&' there extends the last value (webio.c:501, webutils.c:473): `Clear`.
- *Field names* are matched inside longer ones: `X-Host` is taken for `Host`.
- *Logins.* `wi_decode_auth` sets neither name nor password when more than `sizeof(decode)` bytes
  lie before the next NUL, or when the method is not Basic, though it "handles errors by
  returning null strings": `LoginAsSent`, `BehindLogin`.
- *Queries by hand.* `wi_urldecode` never passes a '%' whose code is zero (webutils.c:405), and a
  second '=' in the last pair reaches `strchr` of NULL (webutils.c:469): `ParsingFails`.
- *Controls.* `wi_formvalue` compares as many characters as the name asked for has, so a control
  whose name begins another's may get the other's value: `AnswersRight`. MP3 and BIN
  are never binary types (webutils.c:505, 509).
- *Lists.* Options behind `-e` are not seen; `-g` does nothing; an output file's name is found by its
  beginning; tokens leave out case, punctuation and number, and arrays of a name
  that ends in a digit may collide: the conditions of `ImageLinks` and
  `EntriesOfTheirLines`. An unclosed form takes the inputs of later files, and only the newest
  form with an action gives its controls to the stub; of a page with a tag across the end of
  a block (fsbuilder.cpp:1146), as one longer than `readbuf` may have, nothing is promised:
  `FormsMeetHandlers`.
- *Restart.* The server listens again after a failed poll where `wi_init` can bind:
  `RestartCompletes`. `wi_step` does not look at what `wi_init` returns (webio.c:319), and `wi_init`
  sets no `SO_REUSEADDR`: where the port is still taken nothing listens, the next poll accepts -1 and
  ends in `wi_panic` or, in a server for the local host only, may fail and try again. Both are steps of
  `WebioServer` (`PollPanic`, `PollSelectError`), taken in `server_requests`.
- *Inactivity.* A socket is closed only after the last txbuf (`ClosesAfterLastTxbuf`) of a session
  that lives on; one deleted for inactivity, or by a restart, takes its text with it.

## Proofs

For every number of slots, every set of connections, requests, files and pages, every size of
a buffer:

| module | theorem | states |
|---|---|---|
| `WebioHandlerProofs` | `ListAndCursorSafe`, `CursorSafe` | the session list and the slot table agree, and `sess` and `next_sess` are linked, the one after the other, whenever they are used |
| `WebioOwnershipProofs` | `TypeCorrect` | every variable has its type: `ws_rxbuf` and the clients' buffers are never overfull |
| | `SocketsSafe` | a session's socket is open and its own, and only an ending session has none |
| | `TxbufsSafe` | txbufs in use are exactly those of the sessions, each in one |
| | `FilesSafe` | an open file or form has one owner; `wi_readfile` and `wi_movebinary` find a file to work on |
| `WebioVisitProofs` | `OneHeaderSafe` | a client is sent one reply header |
| | `ClosedWhenSent` | a socket is closed when no text waits for it |
| | `DeletesSafe` | between restarts a session is deleted by its own visit, when it may be |
| | `FormsFromContent`, `FormsWhole` | a form is built from all the content announced, and the one exception |
| | `SlotsLostThere` | a form slot is lost to malformed pairs of a request or an include, file slots to a deletion with an include open, and none otherwise |
| | `LifeImplemented` | `WebioServer` implements `SessionLife` |
| `ObjTablesProofs` | `TypeCorrect`, `ChainsSafe`, `FilesSafe` | txbuf chains are lists that end at `ws_txtail`, files and EOFILEs are paired, the files of deleted sessions included |
| | `ObjectsImplemented` | `ObjTables` implements `SessObjects` |
| `WebioReplyProofs` | `TypeCorrect`, `OwnFormSafe` | each activation of `wi_readfile` has its file open; a request's own form lasts |
| | `CutStays` | nothing is queued behind a cut |
| | `RepliesComplete` | a header that was sent is followed by the content it announces, whole, when no send was short |
| | `ShortSendsSafe` | what short sends can do to a reply, and no more |
| `WebioPageProofs` | `PageInOrder` | what is queued for a page is text of the page and its includes, each unit at most once per include and in order, whatever ran out |
| | `PageWhole` | and it is all of it, when nothing ran out and no directive lies across two blocks |
| `FsBuilderProofs` | `ImageLinked` | arrays, routines and tokens that `efslist` names are declared and defined, once, where the names allow it |
| | `EntriesTheirOwn` | each entry has the name, flags, routine and data file that its own line and the command line ask for |
| | `FormsMet` | a form's stub asks for the controls of the last form with its action; the warnings are exactly those of what is unhandled or unnamed; both on pages none of whose tags a block's end cuts off |

They assume what the models declare and no more. `WebioServer`: the table sizes are natural
numbers with at least one session slot, units are natural numbers, the connections are
finitely many, requests are records of the type `Request`. `ObjTables`: sizes are natural
numbers, a txbuf holds at least one unit, no embedded file has the name that is not found.
`WebioReply`: a block has two units or more (a directive's two halves), a txbuf one, a routine's
text fits a txbuf, the socket takes a header or a txbuf when it is empty, a binary file is not
empty, and no file has one of the three words that say what a directive is about. `FsBuilder`:
there is an entry for an output file, their names and those in the list are not empty, and the
numbers `sprintf` writes have one or two digits. One theorem has a hypothesis of its own, `FormsWhole`: `ENOTCONN > RXBUF`, true on
Windows (10057 against 1536) and false on Linux (107), where the wait for a POST's content does end
after a `recv` of that many bytes; `FormsFromContent` says, of every port, that it ends in
no other way.

### The server

*The list.* `ListInv` (`WebioHandlerProofs`) adds to `ListOK` and `CursorOK` the types of the
list and the cursor. The argument is about
sequences: unlinking an element of a list without repetition keeps the others in order
(`UnlinkProperties`), so the successor saved before a visit is still the successor after it.

*Handlers.* `WebioHandlerProofs` has one lemma for each handler of a visit: from a well-formed
working set (`Base`) it leaves a well-formed one, and it has not touched what belongs to
others (`Frame`); together `Keeps`, which is transitive, so that the lemmas compose as the
calls do. `Over` says that a session has just been ended, `Same` that it goes on as it was:
`wi_senderr`, `wi_txdone`, `wi_sockwrite` do one or the other (`Step`). `Ready` is what the
next visit relies on: a session in `CONTENT`, or sending a binary file, has that file at the
head of its list. No handler relies on the others' errors being looked at.

*Owners.* `IInv` (`WebioOwnershipProofs`) is `ListInv`, the types, and: each listed session is
`Base` and `Ready`; free slots hold nothing; no two sessions share a txbuf, file, form or socket;
each txbuf in use has an owner; the listen queue holds each waiting connection once, and no other
(`BacklogOK`: without it `accept` could return a socket some session already has). None of
`SocketsOK`, `TxbufsConserved`, `FilesOK` is inductive alone: that a socket is closed once needs
that nobody shares it, that a txbuf allocated is nobody's needs that the table's bits
cover every chain, and that a file handler finds its file needs the session's state.
Files and forms are owned *at most* once, because the code does lose some
(`dangling_files`, and the form of malformed pairs): the invariant says nothing about the
lost ones.

*Replies.* The second part of `WebioHandlerProofs` goes through the handlers again, for how far each
takes the reply: `Fresh`, nothing was sent, or `Sent`, the header was, once. `RInv`
(`WebioVisitProofs`) is `IInv` and that every session is `Replying`: which of the two it is in each
state, that an unsent reply waits for a header, that only text files are open when text is read.
`OneReplyHeader` is not inductive: that a handler sends the header once needs that
`WF_HEADERSENT` was clear *because* none was sent, and `wi_redirect` clears the flag, so the
lemmas carry along that a redirected session had sent nothing. The action properties follow from
what a pass over a session ends with (`Passed`): visited again, deleted, or left, and in each
case which slots the tables lost by it. Counting them needs `IInv` again: a form slot
that a handler keeps must not be one another session has. Each handler's lemma says what it may
lose: nothing (`Even`), or at most one form slot where the pairs of the request or of its page's
include are malformed (`Parsed`, `Went`), and the two compose in the order of the calls.

*Refinement.* The mapping gives each slot its state and its socket while it is in use, and
says that the server is up unless it restarts. `LInv` adds that the restart's cursor is the
head of the list (`CleanOK`): deleting the head leaves the cursor at the new head, so the
list is empty when the restart ends. Each visit is then one step of `SessionLife`: the states
reached are successors of the state visited, `goto another_state` included, because a visit
goes through one case of the switch only.

### The tables

`ObjTables` walks its pointers with a function bounded by the number of slots. The invariant says
that each list is a *path* (`IsPath`): some sequence of slots in use, without repetition, whose
links lead from each to the next and then to NULL. That the walk returns the path, and that
a path is unique, are proved by the least index at which they differ. With paths, linking behind
the tail, freeing the head and unlinking in the middle are facts about sequences. In addition:
the tail of a chain that is not empty is its last txbuf, and the tail of an empty one is NULL until
the session is ending: sending the last txbuf leaves `ws_txtail` stale, and `wi_txalloc`, which
trusts it, gets no more text from such a session; no two sessions share a txbuf; `fd` is a bijection
from the files in use to the EOFILEs of the open list, so that the two tables count alike though
either can run out first. The mapping for `SessObjects` joins the texts of a chain: `Text` is
a recursive function, and what it does on a chain with one txbuf more or less is again
proved by least index.

### The reply

The invariant of `WebioReplyProofs` has one part for each thing that `RepliesWhole` needs and
that a step could disturb, none of them inductive without the others:

- `BlocksOK`: a block that is not used up is a full one or the file's last, and an include is opened
  within one.
- `CallsOK`: the activations of `wi_readfile` work on files further and further out in
  `ws_filelist`, each with the read, the line or the include it will return to; outside the content
  state, and while a binary file is sent, the activations that remain only return.
- `CutOK`: after a txbuf was missing every activation only unwinds, and each open file has a
  block that is not used up. With `BlocksOK`, its next read has no room or nothing to read and
  closes the file: that is why the second call, which `wi_poll` makes because the error was lost
  (webio.c:200), copies nothing.
- `TextOK`: `queued` is the joined text of the txbufs while nothing was sent. `WireOK`: from the
  header on, what is on the wire and what the txbufs still hold are the header and `queued`, unless a
  send was short. `BinaryOK`: the same of a binary file, whose next part is in `wf_data`.
- `OwnFormKept`, and the types.

Joining the text of a list of txbufs is the community modules' `FlattenSeq`, a recursive function. What it does on a list with
one element more, less or changed (`FlatAppend`, `FlatHead`, `FlatReplaceLast`) is proved from its
definition by the least length at which it would fail.

`ShortInv` carries on where `TextOK` and `BinaryOK` stop, after a send was short. `TextShort`:
`queued` is some text followed by what the txbufs hold, and that text lies `Within` the wire.
A txbuf that is freed was sent whole in that step, whatever parts of it had gone before,
so both grow by the same text (`WithinBoth`), and a partial send only adds to the wire (`WithinMore`).
`PageShort`: the units of a binary file on the wire are in order and not beyond the
block in `wf_data`, from which the next send takes a beginning.

`WebioPageProofs` compares what is queued with `Expand`, the text with its includes in their
places, which recurs over the page and, at each include, over another. The definition takes a
depth, and `Depth` is the file slots left and the files that are open, a number no step changes
while a page is read; so what an include adds is `Expand` one level further down, and nothing
depends on a bound.

- `OrderInv`: each open file has a place from which it is still to be copied, no call of
  `wi_readfile` stands behind it, and `queued`, with what is unread from those places,
  innermost first, is *a part of* the page, in the order of the page. Units that are lost, when no
  txbuf is left, an include cannot be opened or a form has no slot, only move a place on.
- `WholeInv`: as long as nothing was missing it is *all of* the page. Then every open file has its
  call, blocks begin at multiples of `BUF`, and a call never stands within a directive.

The two are separate because the second needs that directives do not lie across blocks, which the
first does not. An include moves the innermost place behind its directive and adds a place at the
front; that this changes neither text is `Expand`'s definition unfolded once.

### fsbuilder

`ImageInv` says what each pass leaves to the next: the passes' places in the list and
which lists they have filled (`Passes`); that a file has an expression's token exactly when its
bits say so (`Expressions`); that the entries so far are those of the files so far (`Entries`);
that the output files that later passes write to are open, since `output_file` would find no room
for them then (`Opened`); and, for each kind of thing written, that what is in the output
files is exactly this, no two items about one file (`Recorded`, in `Output`). None of them is
inductive alone: a stub is written where `CodeFile` is, and what it is about is known from the
bits that `setoption` collected three passes before.

`ImageLinked` then is about names. Two arrays have different ones when no file's name ends in a
digit, because the last character that is not a digit ends the name in both (`ArraysDistinct`);
stubs and prototypes have the routine's, tokens the file's.

`EntryInv` adds that every file's bits, routine and data file are those its line asks for, and that an
array is in an output file whose name begins with that. The first is one lemma about the loop over a
line (`LineMask`): after each word, what is left to skip, the bits collected, and the routine and
data file kept are determined by the words seen so far that are options, which `Options` defines as a
set and not by the loop. It holds for
a line only because `Defaults` clears everything a line could leave in `optionTmp`.

`MeetInv` relates what the pass over the contents keeps to what it has read. The property speaks
of tags, the code of a list of forms, so the invariant says that a sequence `src` of tags exists, in
the order they were read, that has exactly the forms read (`FormsOf`) and gives each member of
`formlist` its action and flags (`FlagsOf`); and, as long as contents end their forms, that no form
is current between two files and each has the controls between its tag and its end
(`Finished`). Within a content the current form has no end yet and the controls up to the tag
reached (`Current`); `TagFound` takes all this over one tag, `ContentFound` over a content. All of it
is said of lists none of whose contents has a cut tag: there `Seen` is the content itself. Of the
references not all names are kept, only enough that every name read is at the start of one kept
(`RefsOf`), which is enough since `IsPrefix` is transitive. `Unreffed` and `Missed` are the warnings
so far: `bldform` sets flags while it looks for unnamed handlers, and the last pass reads them.

The loops are recursive functions here (`TakeArgs`, `TakeTags`). The library's
induction theorems cannot be used (see below); `Upwards` in `SequenceLemmas` replaces them by
the least number for which a *set* of numbers, defined by the property, has no member.

TLC checked each invariant, as an invariant of the runs above, before it was proved.

### Only model-checked

- The liveness properties: fairness and ENABLED are out of the prover's reach.
- `FormAsSent`, `ParsingFails`, `FieldsAsSent`, `LoginAsSent` and `AnswersRight` of `WebioText`: the
  parsers are compared with encoders and decoders that recur or fold over the input, several at a
  time and on a buffer that earlier ones have written into. What a recursive definition computes
  for every input needs induction with an operator as parameter, which no installed prover can
  instantiate; the least-number arguments above would have to be made for each loop and each reference.

## Not modelled

- `wi_alloc` and `wi_free`'s markers and counters (the other build), and the links of the
  form list.
- `wi_fwrite` and `em_fwrite`: nothing calls the first, and the second is a stub, as is
  `wi_putfile`. `wi_redirect_get`, `em_push`, `em_lookupsess` and `wi_argncpy` have no caller
  in the server.
- `WF_PERSIST`, `WF_SVRPUSH` branches of `wi_txdone`: the flags are never set. The list
  `ssifile` of fsbuilder is filled and never read.
- The wrap of `wi_cticks` in `ws_last + 15 * TPS < wi_cticks` (webio.c:294): ticks are
  counted since the last activity, without a width.
- Includes of form and push files (webutils.c:633 calls `wi_readfile` for them): their handlers would
  run in the middle of another page, and a redirect that fails there closes the socket under it. No page of the
  repository has one; `WebioServer` and `WebioReply` leave them out. `WebioServer` leaves out includes of C
  routines, which are in `WebioReply`.
- That a session in `WI_PUSHING` ends: a push file without a routine (webio.c:673) leaves one that
  nothing ends. The step is in `WebioServer`; no property promises the end.
- `wi_getdate`, `dprintf`, `dtrap`, the Windows port, fsbuilder's array contents and
  layout: formatting and sequential I/O.

## Plan

Done: `WebioServer` with `SessionLife`, `ObjTables` with `SessObjects`, `WebioReply`,
`WebioText` and `FsBuilder`; proofs of every safety property of the first three and of
`FsBuilder`.

1. `WebioText`: the sizes no step outgrows, then `FieldsAsSent`, whose loops are the simplest.
2. `Heap`: `wi_alloc`, `wi_free`, their markers and counters; the timeout's arithmetic at the wrap.
