------------------------------ MODULE ObjTables ------------------------------
(***************************************************************************)
(* The objects of webobjs.c and webfs.c as they are linked in memory: the  *)
(* master list of sessions, each session's chain of txbufs with its tail,  *)
(* its list of wi_files, and em_openlist with the EOFILE behind each of    *)
(* them, in the build with slot tables.  Pointers are slot numbers and     *)
(* NULL is 0.  A pointer to a slot may outlive it; the slot's contents,    *)
(* which the code zeroes when the slot is taken, are zero while it is free.*)
(***************************************************************************)
EXTENDS Integers, Sequences, FiniteSets

CONSTANTS
    MAX_SESS_SLOTS, MAX_TXBUF_SLOTS, MAX_FILE_SLOTS, MAX_EOFILE_SLOTS,
    WI_TXBUFSIZE,    \* units of text a txbuf holds
    Unit,            \* what a unit of text may be
    Name, CodeFile,  \* the files of efslist[], and those with EMF_SSI or EMF_FORM
    Size,            \* em_size of each
    Chunk            \* how many bytes a reader may ask for

Sess     == 1 .. MAX_SESS_SLOTS
TxSlot   == 1 .. MAX_TXBUF_SLOTS
FileSlot == 1 .. MAX_FILE_SLOTS
EoSlot   == 1 .. MAX_EOFILE_SLOTS
NULL     == 0
NoName   == ""     \* a name that is not in efslist[]

WI_E_MEMORY  == -1002
WI_E_NOFILE  == -1004
WI_E_BADFILE == -1005

ASSUME TablesAssumption == /\ MAX_SESS_SLOTS \in Nat /\ MAX_TXBUF_SLOTS \in Nat
                           /\ MAX_FILE_SLOTS \in Nat /\ MAX_EOFILE_SLOTS \in Nat
ASSUME TextAssumption   == WI_TXBUFSIZE \in Nat \ {0}
ASSUME FilesAssumption  == /\ CodeFile \subseteq Name /\ NoName \notin Name
                           /\ Size \in [Name -> Nat] /\ Chunk \subseteq Nat

VARIABLES
    wi_sessions, sess_used, ws,  \* the list's head, the slot table, the wi_sess slots
    tx_used, txbuf,              \* the txbuf table and slots
    file_used, file,             \* the wi_file table and slots
    em_openlist, eo_used, eo,    \* the open list's head, the EOFILE table and slots
    ret                          \* what the last call returned

sessions == <<wi_sessions, sess_used>>
texts    == <<tx_used, txbuf>>
files    == <<file_used, file>>
eofiles  == <<em_openlist, eo_used, eo>>
vars     == <<wi_sessions, sess_used, ws, tx_used, txbuf, file_used, file,
              em_openlist, eo_used, eo, ret>>

WiSess == [next : Sess \cup {NULL}, txbufs : TxSlot \cup {NULL}, txtail : TxSlot \cup {NULL},
           filelist : FileSlot \cup {NULL}, ending : BOOLEAN]
TxBuf  == [next : TxSlot \cup {NULL}, session : Sess \cup {NULL}, data : Seq(Unit)]
WiFile == [next : FileSlot \cup {NULL}, fd : EoSlot \cup {NULL}, sess : Sess \cup {NULL}]
EoFile == [next : EoSlot \cup {NULL}, emfile : Name \cup {NoName}, position : Nat]

ZeroSess == [next |-> NULL, txbufs |-> NULL, txtail |-> NULL, filelist |-> NULL, ending |-> FALSE]
ZeroTx   == [next |-> NULL, session |-> NULL, data |-> <<>>]
ZeroFile == [next |-> NULL, fd |-> NULL, sess |-> NULL]
ZeroEo   == [next |-> NULL, emfile |-> NoName, position |-> 0]

FirstSlot(S) == CHOOSE t \in S : \A u \in S : t <= u

\* The slots a walk from head meets; one more than there are if it goes in a circle.
ListOf(head, rec, Slots) ==
    LET n == Cardinality(Slots)
        after(p) == IF p = NULL THEN NULL ELSE rec[p].next
        at[i \in 0 .. n] == IF i = 0 THEN head ELSE after(at[i - 1])
    IN  [j \in 1 .. Cardinality({i \in 0 .. n : at[i] # NULL}) |-> at[j - 1]]

Elements(list) == {list[i] : i \in DOMAIN list}

\* The unlinking walk: the head, or the link that leads to slot p, skips it.
HeadWithout(head, rec, p) == IF head = p THEN rec[p].next ELSE head
LinksWithout(head, rec, Slots, p) ==
    LET list == Elements(ListOf(head, rec, Slots))
    IN  [q \in Slots |-> IF head # p /\ p \in list /\ q \in list /\ rec[q].next = p
                         THEN [rec[q] EXCEPT !.next = rec[p].next] ELSE rec[q]]

Chain(s)    == ListOf(ws[s].txbufs, txbuf, TxSlot)
FileList(s) == ListOf(ws[s].filelist, file, FileSlot)
Linked      == Elements(ListOf(wi_sessions, ws, Sess))
OpenList    == ListOf(em_openlist, eo, EoSlot)

----------------------------------------------------------------------------
(* Sessions *)

wi_newsess ==
    /\ sess_used # Sess
    /\ LET s == FirstSlot(Sess \ sess_used)
       IN  /\ sess_used' = sess_used \cup {s}
           /\ ws' = [ws EXCEPT ![s] = [ZeroSess EXCEPT !.next = wi_sessions]]
           /\ wi_sessions' = s
    /\ ret' = 0
    /\ UNCHANGED <<texts, files, eofiles>>

\* wi_txdone and wi_senderr: the session is over, with what it still has.
End(s) ==
    /\ ~ws[s].ending
    /\ ws' = [ws EXCEPT ![s].ending = TRUE]
    /\ UNCHANGED <<sessions, texts, files, eofiles, ret>>

----------------------------------------------------------------------------
(* Text *)

Total(s) == Len(txbuf[ws[s].txtail].data)

\* Mutant: a new txbuf is not linked behind the tail.
wi_txallocMutant(s, new, unit) ==
    /\ tx_used' = tx_used \cup {new}
    /\ txbuf' = [txbuf EXCEPT ![new] = [ZeroTx EXCEPT !.session = s, !.data = <<unit>>]]
    /\ ws' = [ws EXCEPT ![s].txtail = new, ![s].txbufs = IF @ = NULL THEN new ELSE @]

\* The txbuf new, with its first unit, becomes the tail of the chain.
wi_txalloc(s, new, unit) ==
    LET first == [ZeroTx EXCEPT !.session = s, !.data = <<unit>>]
        fresh == [txbuf EXCEPT ![new] = first]
    IN  /\ tx_used' = tx_used \cup {new}
        /\ txbuf' = IF ws[s].txtail = NULL THEN fresh
                    ELSE [fresh EXCEPT ![ws[s].txtail].next = new]
        /\ ws' = [ws EXCEPT ![s].txtail = new, ![s].txbufs = IF @ = NULL THEN new ELSE @]

\* A unit goes to the tail when it fits, else to a new txbuf if there is one.
PutText(s, unit, fits) ==
    /\ \/ /\ fits
          /\ txbuf' = [txbuf EXCEPT ![ws[s].txtail].data = Append(@, unit)]
          /\ UNCHANGED <<tx_used, ws>>
          /\ ret' = 0
       \/ /\ ~fits /\ tx_used # TxSlot
          /\ wi_txalloc(s, FirstSlot(TxSlot \ tx_used), unit)
          /\ ret' = 0
       \/ /\ ~fits /\ tx_used = TxSlot
          /\ ret' = WI_E_MEMORY
          /\ UNCHANGED <<texts, ws>>
    /\ UNCHANGED <<sessions, files, eofiles>>

\* Mutant: text for a session that is ending is not dropped.
wi_printfMutant(s, unit) ==
    PutText(s, unit, ws[s].txtail # NULL /\ 1 < WI_TXBUFSIZE - Total(s))

\* "we may get sometimes handed a dying connection. Ignore these."
wi_printf(s, unit) ==
    /\ ~ws[s].ending
    /\ PutText(s, unit, ws[s].txtail # NULL /\ 1 < WI_TXBUFSIZE - Total(s))

\* wi_readfile puts a character of the page in the tail.  The copy has no test of the
\* session: that none is copied once it is ending is the control flow's doing, as long as
\* no form file is included (webutils.c:633).
CopyChar(s, unit) ==
    /\ ~ws[s].ending
    /\ PutText(s, unit, ws[s].txbufs # NULL /\ Total(s) < WI_TXBUFSIZE)

\* wi_sockwrite: the head was sent whole, and is unlinked and freed; after the
\* last one wi_txdone ends the session.
SendHead(s) ==
    LET head == ws[s].txbufs
        rest == txbuf[head].next
    IN  /\ ~ws[s].ending /\ head # NULL
        /\ ws' = [ws EXCEPT ![s].txbufs = rest, ![s].ending = (rest = NULL)]
        /\ txbuf' = [txbuf EXCEPT ![head] = ZeroTx]
        /\ tx_used' = tx_used \ {head}
        /\ ret' = 0
        /\ UNCHANGED <<sessions, files, eofiles>>

----------------------------------------------------------------------------
(* Files *)

\* em_fopen's EOFILE at the head of em_openlist.
Opened(e, name) == [eo EXCEPT ![e] = [next |-> em_openlist, emfile |-> name, position |-> 0]]

NoEofile == eo_used = EoSlot

\* em_fopen finds no such file, or no EOFILE.
FopenNone(s, name) ==
    /\ name \notin Name \/ NoEofile
    /\ ret' = WI_E_NOFILE
    /\ UNCHANGED <<sessions, ws, texts, files, eofiles>>

\* Mutant: the file is left open below when there is no wi_file.
FopenNoSlotMutant(s, name) ==
    LET e == FirstSlot(EoSlot \ eo_used)
    IN  /\ name \in Name /\ ~NoEofile /\ file_used = FileSlot
        /\ eo' = Opened(e, name) /\ eo_used' = eo_used \cup {e} /\ em_openlist' = e
        /\ ret' = WI_E_MEMORY
        /\ UNCHANGED <<sessions, ws, texts, files>>

\* wi_newfile finds no wi_file, and the lower file is closed again.
FopenNoSlot(s, name) ==
    /\ name \in Name /\ ~NoEofile /\ file_used = FileSlot
    /\ ret' = WI_E_MEMORY
    /\ UNCHANGED <<sessions, ws, texts, files, eofiles>>

FopenFound(s, name) ==
    LET e == FirstSlot(EoSlot \ eo_used)
        f == FirstSlot(FileSlot \ file_used)
    IN  /\ name \in Name /\ ~NoEofile /\ file_used # FileSlot
        /\ eo' = Opened(e, name) /\ eo_used' = eo_used \cup {e} /\ em_openlist' = e
        /\ file_used' = file_used \cup {f}
        /\ file' = [file EXCEPT ![f] = [next |-> ws[s].filelist, fd |-> e, sess |-> s]]
        /\ ws' = [ws EXCEPT ![s].filelist = f]
        /\ ret' = 0
        /\ UNCHANGED <<sessions, texts>>

wi_fopen(s, name) == FopenNone(s, name) \/ FopenNoSlot(s, name) \/ FopenFound(s, name)

em_verify(e) == e \in Elements(OpenList)

\* wi_fclose: em_fclose, then wi_delfile whatever it returned.
wi_fclose(f) ==
    LET e == file[f].fd
        s == file[f].sess
    IN  /\ IF em_verify(e)
           THEN /\ em_openlist' = HeadWithout(em_openlist, eo, e)
                /\ eo' = [LinksWithout(em_openlist, eo, EoSlot, e) EXCEPT ![e] = ZeroEo]
                /\ eo_used' = eo_used \ {e}
           ELSE UNCHANGED eofiles
        /\ file' = [LinksWithout(ws[s].filelist, file, FileSlot, f) EXCEPT ![f] = ZeroFile]
        /\ file_used' = file_used \ {f}

CloseHead(s) ==
    LET f == ws[s].filelist
    IN  /\ f # NULL
        /\ wi_fclose(f)
        /\ ws' = [ws EXCEPT ![s].filelist = HeadWithout(@, file, f)]
        /\ ret' = IF em_verify(file[f].fd) THEN 0 ELSE WI_E_BADFILE
        /\ UNCHANGED <<sessions, texts>>

\* Mutant: the end of the file is not looked at.
em_freadMutant(e, n) ==
    IF eo[e].emfile \in CodeFile THEN 0 ELSE n

\* What em_fread reads: never past the end, and nothing from a C routine's file.
em_fread(e, n) ==
    LET left == Size[eo[e].emfile] - eo[e].position
    IN  IF eo[e].emfile \in CodeFile THEN 0 ELSE IF n > left THEN left ELSE n

ReadHead(s, n) ==
    LET e == file[ws[s].filelist].fd
    IN  /\ ws[s].filelist # NULL
        /\ \/ /\ em_verify(e)
              /\ ret' = em_fread(e, n)
              /\ eo' = [eo EXCEPT ![e].position = @ + em_fread(e, n)]
           \/ ~em_verify(e) /\ ret' = WI_E_BADFILE /\ UNCHANGED eo
        /\ UNCHANGED <<sessions, ws, texts, files, em_openlist, eo_used>>

\* The position after em_fseek, which leaves it when the new one is not in the file.
em_fseek(size, position, offset, mode) ==
    LET new == CASE mode = "SEEK_SET" -> offset
                 [] mode = "SEEK_END" -> size + offset
                 [] mode = "SEEK_CUR" -> position + offset
    IN  IF new \in 0 .. size THEN new ELSE position

\* wi_movebinary asks for the length: to the end, where is it, and back.
FileLength(s) ==
    LET e    == file[ws[s].filelist].fd
        size == Size[eo[e].emfile]
        end  == em_fseek(size, eo[e].position, 0, "SEEK_END")
    IN  /\ ws[s].filelist # NULL /\ em_verify(e)
        /\ ret' = end
        /\ eo' = [eo EXCEPT ![e].position = em_fseek(size, end, @, "SEEK_SET")]
        /\ UNCHANGED <<sessions, ws, texts, files, em_openlist, eo_used>>

----------------------------------------------------------------------------
(* Deletion *)

\* The chain is freed head by head; of the files, the head is closed.
wi_delsess(s) ==
    /\ wi_sessions' = HeadWithout(wi_sessions, ws, s)
    /\ ws' = [LinksWithout(wi_sessions, ws, Sess, s) EXCEPT ![s] = ZeroSess]
    /\ sess_used' = sess_used \ {s}
    /\ tx_used' = tx_used \ Elements(Chain(s))
    /\ txbuf' = [t \in TxSlot |-> IF t \in Elements(Chain(s)) THEN ZeroTx ELSE txbuf[t]]
    /\ IF ws[s].filelist = NULL THEN UNCHANGED <<files, eofiles>>
                                ELSE wi_fclose(ws[s].filelist)
    /\ ret' = 0

----------------------------------------------------------------------------
Init ==
    /\ wi_sessions = NULL /\ sess_used = {} /\ ws = [s \in Sess |-> ZeroSess]
    /\ tx_used = {} /\ txbuf = [t \in TxSlot |-> ZeroTx]
    /\ file_used = {} /\ file = [f \in FileSlot |-> ZeroFile]
    /\ em_openlist = NULL /\ eo_used = {} /\ eo = [e \in EoSlot |-> ZeroEo]
    /\ ret = 0

Call(s) ==
    \/ End(s)
    \/ \E unit \in Unit : wi_printf(s, unit) \/ CopyChar(s, unit)
    \/ SendHead(s)
    \/ \E name \in Name \cup {NoName} : wi_fopen(s, name)
    \/ CloseHead(s)
    \/ \E n \in Chunk : ReadHead(s, n)
    \/ FileLength(s)
    \/ wi_delsess(s)

Next == wi_newsess \/ \E s \in sess_used : Call(s)

Spec == Init /\ [][Next]_vars

(***************************************************************************)
(* Properties                                                              *)
(***************************************************************************)

\* Every slot has its type; no txbuf is overfull, no file read past its end.
TypeOK ==
    /\ wi_sessions \in Sess \cup {NULL} /\ sess_used \subseteq Sess /\ ws \in [Sess -> WiSess]
    /\ tx_used \subseteq TxSlot /\ txbuf \in [TxSlot -> TxBuf]
    /\ file_used \subseteq FileSlot /\ file \in [FileSlot -> WiFile]
    /\ em_openlist \in EoSlot \cup {NULL} /\ eo_used \subseteq EoSlot /\ eo \in [EoSlot -> EoFile]
    /\ \A t \in tx_used : Len(txbuf[t].data) \in 1 .. WI_TXBUFSIZE
    /\ \A e \in eo_used : eo[e].position <= Size[eo[e].emfile]

\* The txbufs in use are those of the sessions' chains, each in one chain, which
\* ends at ws_txtail and whose txbufs point back at its session (wi_txalloc trusts
\* the tail, wi_txfree the back pointer; neither resets the tail).
ChainsOK ==
    /\ tx_used = UNION {Elements(Chain(s)) : s \in sess_used}
    /\ \A s \in sess_used :
          /\ \A i \in DOMAIN Chain(s) : txbuf[Chain(s)[i]].session = s
          /\ ws[s].txbufs # NULL => ws[s].txtail = Chain(s)[Len(Chain(s))]

\* Each open wi_file has an EOFILE of its own in em_openlist, and there are no
\* others; the files of a session's list are in use and its own.  It holds of
\* files whose session was deleted, too.
FilesPaired ==
    /\ Elements(OpenList) = eo_used
    /\ {file[f].fd : f \in file_used} = eo_used
    /\ Cardinality(file_used) = Cardinality(eo_used)
    /\ \A s \in sess_used : \A f \in Elements(FileList(s)) : f \in file_used /\ file[f].sess = s

Text(s) ==
    LET chain == Chain(s)
        upto[i \in 0 .. Len(chain)] ==
            IF i = 0 THEN <<>> ELSE upto[i - 1] \o txbuf[chain[i]].data
    IN  upto[Len(chain)]

OpenFiles(s) ==
    LET list == FileList(s)
    IN  [i \in 1 .. Len(list) |-> [name |-> eo[file[list[i]].fd].emfile,
                                   pos  |-> eo[file[list[i]].fd].position]]

\* The links are the queues of text and stacks of files their callers take them
\* for: text leaves in the order it came, whatever sessions, sends and deletions
\* came between, each file is read from its own position, and a call that finds a
\* table full leaves every session as it was.
Objects == INSTANCE SessObjects WITH
               Error <- {WI_E_MEMORY, WI_E_NOFILE},
               live  <- Linked,
               queue <- [s \in Sess |-> IF s \in sess_used THEN Text(s) ELSE <<>>],
               stack <- [s \in Sess |-> IF s \in sess_used THEN OpenFiles(s) ELSE <<>>]
ObjectsSpec == Objects!Spec
=============================================================================
