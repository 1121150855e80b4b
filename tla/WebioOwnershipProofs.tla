------------------------- MODULE WebioOwnershipProofs -------------------------
(***************************************************************************)
(* Who owns what: the sockets, txbufs, files and forms of the sessions, in *)
(* every state of WebioServer, whatever the tables' sizes, the requests    *)
(* and the faults.                                                         *)
(***************************************************************************)
EXTENDS WebioHandlerProofs

DataTypes ==
    /\ ws \in [Sess -> WiSess]
    /\ conn \in [Conn -> Connection]
    /\ backlog \in Seq(Conn)
    /\ tx_used \subseteq TxSlot
    /\ form_used \subseteq FormSlot
    /\ file \in [FileSlot -> WiFile]
    /\ push \subseteq Sess

ControlTypes ==
    /\ pc \in {"idle", "visit", "failed", "clean", "exited"}
    /\ sel_recv \subseteq Conn /\ sel_send \subseteq Conn
    /\ listening \in BOOLEAN

\* The listen queue holds the connections not yet accepted, once each.
BacklogOK ==
    /\ Distinct(backlog)
    /\ \A i \in 1 .. Len(backlog) : conn[backlog[i]].phase = "backlog"

\* Each session is in a state its next visit can start from.
SessionsOK == \A s \in sess_used : Base(Work(s)) /\ Ready(Work(s))

FreeSlotsOK ==
    \A s \in Sess \ sess_used :
        ws[s].tx = {} /\ ws[s].files = <<>> /\ ws[s].forms = {} /\ ws[s].sock = NoSock

Files(s) == {ws[s].files[i] : i \in 1 .. Len(ws[s].files)}

\* Two sessions share nothing.
Apart(s, t) ==
    /\ ws[s].tx \cap ws[t].tx = {}
    /\ ws[s].forms \cap ws[t].forms = {}
    /\ Files(s) \cap Files(t) = {}
    /\ ws[s].sock # NoSock => ws[s].sock # ws[t].sock

OwnersOK ==
    /\ \A k \in tx_used : \E s \in Sess : k \in ws[s].tx
    /\ \A s \in Sess : ws[s].tx \subseteq tx_used
    /\ \A s, t \in Sess : s # t => Apart(s, t)

DataInv == DataTypes /\ BacklogOK /\ SessionsOK /\ FreeSlotsOK /\ OwnersOK

IInv == ListInv /\ ControlTypes /\ DataInv

data == <<sess_used, ws, conn, backlog, tx_used, form_used, file, push>>

LEMMA FrameKeepsData ==
    ASSUME DataInv, UNCHANGED data
    PROVE  DataInv'
<1>1. \A s : Work(s)' = Work(s) /\ Files(s)' = Files(s)
  BY DEF data, Work, Files
<1>2. DataTypes' /\ BacklogOK' /\ FreeSlotsOK'
  BY DEF DataInv, DataTypes, BacklogOK, FreeSlotsOK, data
<1>3. SessionsOK'
  BY <1>1 DEF DataInv, SessionsOK, data
<1>4. OwnersOK'
  BY <1>1 DEF DataInv, OwnersOK, Apart, data
<1>5. QED
  BY <1>2, <1>3, <1>4 DEF DataInv

----------------------------------------------------------------------------
(* What a handler's result does to the state *)

LEMMA WorkFields ==
    \A s : /\ Work(s).se = ws[s] /\ Work(s).tx = tx_used /\ Work(s).form = form_used
           /\ Work(s).file = file /\ Work(s).err = FALSE
           /\ Work(s).co = (IF ws[s].sock = NoSock THEN NoConnection ELSE conn[ws[s].sock])
           /\ Own(Work(s)) = Files(s)
BY DEF Work, Own, Files

\* A session is well-formed after a step as soon as its own resources are.
LEMMA WorkBase ==
    ASSUME DataTypes', NEW s \in Sess,
           ws'[s].tx \subseteq tx_used', ws'[s].forms \subseteq form_used',
           \A f \in Files(s)' : file'[f].kind # "free",
           Distinct(ws'[s].files),
           ws'[s].sock = NoSock => ws'[s].state = "ENDING",
           ws'[s].sock # NoSock => conn'[ws'[s].sock].phase = "open"
    PROVE  Base(Work(s))'
<1> DEFINE w == [se |-> ws'[s],
                 co |-> IF ws'[s].sock = NoSock THEN NoConnection ELSE conn'[ws'[s].sock],
                 tx |-> tx_used', form |-> form_used', file |-> file', err |-> FALSE]
<1>1. ws'[s] \in WiSess /\ ws'[s].sock \in Conn \cup {NoSock}
  BY DEF DataTypes, WiSess
<1>2. w \in WorkSet
  BY <1>1, ConnectionTypes DEF DataTypes, WorkSet
<1>3. Base(w)
  BY <1>2 DEF Base, Own, Files
<1>4. Work(s)' = w
  BY DEF Work
<1> HIDE DEF w
<1>5. QED
  BY <1>3, <1>4

LEMMA BaseWork ==
    ASSUME NEW s, Base(Work(s))
    PROVE  /\ ws[s].tx \subseteq tx_used /\ ws[s].forms \subseteq form_used
           /\ \A f \in Files(s) : file[f].kind # "free" /\ file[f] # FreeFile /\ f \in FileSlot
           /\ Distinct(ws[s].files)
           /\ ws[s].sock = NoSock => ws[s].state = "ENDING"
           /\ ws[s].sock # NoSock => conn[ws[s].sock].phase = "open"
           /\ ws[s].sock \in Conn \cup {NoSock}
<1>1. Files(s) \subseteq FileSlot
  BY WorkFields, OwnInTable
<1>2. ws[s].sock \in Conn \cup {NoSock}
  BY WorkFields DEF Base, WorkSet, WiSess
<1>3. QED
  BY <1>1, <1>2, WorkFields DEF Base, FreeFile

\* The session s has what r says and the others what they had.
LEMMA StoreFields ==
    ASSUME DataTypes, NEW s \in Sess, NEW r \in WorkSet, Store(s, r)
    PROVE  /\ DataTypes'
           /\ ws'[s] = r.se /\ \A t \in Sess \ {s} : ws'[t] = ws[t]
           /\ \A c \in Conn : conn'[c] = IF c = ws[s].sock THEN r.co ELSE conn[c]
           /\ backlog' = backlog
           /\ tx_used' = r.tx /\ form_used' = r.form /\ file' = r.file
<1>1. /\ r.se \in WiSess /\ r.co \in Connection /\ r.tx \subseteq TxSlot
      /\ r.form \subseteq FormSlot /\ r.file \in [FileSlot -> WiFile]
  BY DEF WorkSet
<1>2. /\ ws' = [ws EXCEPT ![s] = r.se]
      /\ conn' = [c \in Conn |-> IF c = ws[s].sock THEN r.co ELSE conn[c]]
      /\ backlog' = backlog
      /\ tx_used' = r.tx /\ form_used' = r.form /\ file' = r.file
      /\ push' \subseteq push \cup {s}
  BY DEF Store
<1>3. ws' \in [Sess -> WiSess] /\ ws'[s] = r.se /\ \A t \in Sess \ {s} : ws'[t] = ws[t]
  BY <1>1, <1>2 DEF DataTypes
<1>4. conn' \in [Conn -> Connection]
  BY <1>1, <1>2 DEF DataTypes
<1>5. DataTypes'
  BY <1>1, <1>2, <1>3, <1>4 DEF DataTypes
<1>6. QED
  BY <1>2, <1>3, <1>5

\* What the step leaves to the sessions it is not about.
Spared(s) ==
    /\ BacklogOK'
    /\ OwnersOK'
    /\ \A t \in sess_used \ {s} : (Base(Work(t)) /\ Ready(Work(t)))'
    /\ \A t \in Sess \ (sess_used \cup {s}) :
          ws'[t].tx = {} /\ ws'[t].files = <<>> /\ ws'[t].forms = {} /\ ws'[t].sock = NoSock

LEMMA StoreSpares ==
    ASSUME DataInv, sess_used \subseteq Sess, NEW s \in sess_used,
           NEW r \in WorkSet, Store(s, r), Frame(Work(s), r), r.se.tx \subseteq r.tx
    PROVE  Spared(s)
<1>1. /\ DataTypes /\ DataTypes'
      /\ ws'[s] = r.se /\ \A t \in Sess \ {s} : ws'[t] = ws[t]
      /\ \A c \in Conn : conn'[c] = IF c = ws[s].sock THEN r.co ELSE conn[c]
      /\ backlog' = backlog
      /\ tx_used' = r.tx /\ form_used' = r.form /\ file' = r.file
  BY StoreFields DEF DataInv
<1>2. /\ r.se.sock \in {ws[s].sock, NoSock}
      /\ r.tx \ r.se.tx = tx_used \ ws[s].tx
      /\ form_used \ ws[s].forms \subseteq r.form \ r.se.forms
      /\ \A f \in FileSlot : file[f] # FreeFile /\ f \notin Files(s) =>
            r.file[f] = file[f] /\ f \notin Own(r)
  BY WorkFields DEF Frame
<1>3. /\ \A t \in sess_used : Base(Work(t)) /\ Ready(Work(t))
      /\ \A t, u \in Sess : t # u => Apart(t, u)
      /\ \A t \in Sess : ws[t].tx \subseteq tx_used
      /\ \A k \in tx_used : \E t \in Sess : k \in ws[t].tx
  BY DEF DataInv, SessionsOK, OwnersOK
<1>4. ws[s].sock # NoSock => conn[ws[s].sock].phase = "open"
  BY <1>3, BaseWork
<1>5. Files(s)' = Own(r) /\ \A t \in Sess \ {s} : Files(t)' = Files(t)
  BY <1>1 DEF Files, Own
<1>6. BacklogOK'
  <2>1. \A i \in 1 .. Len(backlog) : backlog[i] \in Conn /\ conn[backlog[i]].phase = "backlog"
    BY LenProperties DEF DataInv, DataTypes, BacklogOK
  <2>2. \A i \in 1 .. Len(backlog) : conn'[backlog[i]].phase = "backlog"
    BY <1>1, <1>4, <2>1, ConnAssumption
  <2>3. QED
    BY <1>1, <2>2 DEF DataInv, BacklogOK
<1>7. \A t \in Sess \ {s} : Apart(s, t) /\ Apart(t, s)
  BY <1>3
<1>8. ASSUME NEW t \in sess_used, t \in Sess, t # s
      PROVE  /\ (Base(Work(t)) /\ Ready(Work(t)))'
             /\ ws[t].forms \cap r.se.forms = {} /\ Files(t) \cap Own(r) = {}
  <2>1. Base(Work(t)) /\ Ready(Work(t)) /\ ws'[t] = ws[t] /\ Files(t)' = Files(t)
    BY <1>1, <1>3, <1>5, <1>8
  <2>2. /\ ws[t].tx \subseteq tx_used /\ ws[t].forms \subseteq form_used
        /\ \A f \in Files(t) : file[f].kind # "free" /\ file[f] # FreeFile /\ f \in FileSlot
        /\ Distinct(ws[t].files)
        /\ ws[t].sock = NoSock => ws[t].state = "ENDING"
        /\ ws[t].sock # NoSock => conn[ws[t].sock].phase = "open"
        /\ ws[t].sock \in Conn \cup {NoSock}
    BY <2>1, BaseWork
  <2>3. Apart(s, t) /\ Apart(t, s)
    BY <1>7, <1>8
  <2>4. ws[t].tx \subseteq r.tx
    BY <1>2, <2>2, <2>3 DEF Apart
  <2>5. ws[t].forms \subseteq r.form \ r.se.forms
    BY <1>2, <2>2, <2>3 DEF Apart
  <2>6. \A f \in Files(t) : r.file[f] = file[f] /\ f \notin Own(r)
    BY <1>2, <2>2, <2>3 DEF Apart
  <2>7. ws[t].sock # NoSock => ws[t].sock # ws[s].sock /\ conn'[ws[t].sock] = conn[ws[t].sock]
    BY <1>1, <2>2, <2>3 DEF Apart
  <2>8. Base(Work(t))'
    <3>1. /\ ws'[t].tx \subseteq tx_used' /\ ws'[t].forms \subseteq form_used'
          /\ \A f \in Files(t)' : file'[f].kind # "free"
          /\ Distinct(ws'[t].files)
          /\ ws'[t].sock = NoSock => ws'[t].state = "ENDING"
          /\ ws'[t].sock # NoSock => conn'[ws'[t].sock].phase = "open"
      BY <1>1, <2>1, <2>2, <2>4, <2>5, <2>6, <2>7
    <3>2. QED
      BY <1>1, <1>8, <3>1, WorkBase
  <2>9. Ready(Work(t))'
    <3>1. Work(t)'.se = ws[t] /\ Work(t)'.file = r.file
      BY <1>1, <2>1 DEF Work
    <3>2. ws[t].files # <<>> => Head(ws[t].files) \in Files(t)
      BY <2>1, WorkFields, OwnInTable DEF FileHead
    <3>3. QED
      BY <2>1, <2>6, <3>1, <3>2, WorkFields DEF Ready, FileHead
  <2>10. QED
    BY <2>5, <2>6, <2>8, <2>9
<1>9. ASSUME NEW t \in Sess, t \notin sess_used
      PROVE  ws[t].tx = {} /\ ws[t].files = <<>> /\ ws[t].forms = {} /\ ws[t].sock = NoSock
             /\ Files(t) = {}
  BY <1>9 DEF DataInv, FreeSlotsOK, Files
<1>10. ASSUME NEW t \in Sess, t # s
       PROVE  Apart(s, t)' /\ Apart(t, s)'
  <2>1. Apart(s, t) /\ ws[t].tx \subseteq tx_used
    BY <1>3, <1>7, <1>10
  <2>2. ws[t].tx \cap r.se.tx = {}
    BY <1>2, <2>1 DEF Apart
  <2>3. ws[t].forms \cap r.se.forms = {} /\ Files(t) \cap Own(r) = {}
    BY <1>8, <1>9, <1>10
  <2>4. /\ r.se.sock # NoSock => r.se.sock # ws[t].sock
        /\ ws[t].sock # NoSock => ws[t].sock # r.se.sock
    BY <1>2, <2>1 DEF Apart
  <2>5. ws'[t] = ws[t] /\ Files(t)' = Files(t)
    BY <1>1, <1>5, <1>10
  <2>6. QED
    BY <1>1, <1>5, <2>2, <2>3, <2>4, <2>5 DEF Apart
<1>11. ASSUME NEW t \in Sess, NEW u \in Sess, t # u
       PROVE  Apart(t, u)'
  <2>1. CASE t = s \/ u = s
    BY <1>10, <1>11, <2>1
  <2>2. CASE t # s /\ u # s
    <3>1. ws'[t] = ws[t] /\ ws'[u] = ws[u] /\ Files(t)' = Files(t) /\ Files(u)' = Files(u)
      BY <1>1, <1>5, <2>2
    <3>2. Apart(t, u)
      BY <1>3, <1>11
    <3>3. QED
      BY <3>1, <3>2 DEF Apart
  <2>3. QED
    BY <2>1, <2>2
<1>12. \A k \in tx_used' : \E t \in Sess : k \in ws'[t].tx
  <2> SUFFICES ASSUME NEW k \in r.tx
               PROVE  \E t \in Sess : k \in ws'[t].tx
    BY <1>1
  <2>1. CASE k \in r.se.tx
    BY <1>1, <2>1
  <2>2. CASE k \notin r.se.tx
    <3>1. k \in tx_used /\ k \notin ws[s].tx
      BY <1>2, <2>2
    <3>2. PICK t \in Sess : k \in ws[t].tx
      BY <1>3, <3>1
    <3>3. QED
      BY <1>1, <3>1, <3>2
  <2>3. QED
    BY <2>1, <2>2
<1>13. \A t \in Sess : ws'[t].tx \subseteq tx_used'
  <2> SUFFICES ASSUME NEW t \in Sess
               PROVE  ws'[t].tx \subseteq r.tx
    BY <1>1
  <2>1. CASE t = s
    BY <1>1, <2>1
  <2>2. CASE t # s
    <3>1. ws'[t] = ws[t] /\ ws[t].tx \subseteq tx_used /\ Apart(s, t)
      BY <1>1, <1>3, <1>7, <2>2
    <3>2. QED
      BY <1>2, <3>1 DEF Apart
  <2>3. QED
    BY <2>1, <2>2
<1>14. OwnersOK'
  BY <1>11, <1>12, <1>13 DEF OwnersOK
<1>15. \A t \in sess_used \ {s} : (Base(Work(t)) /\ Ready(Work(t)))'
  BY <1>8
<1>16. \A t \in Sess \ (sess_used \cup {s}) :
          ws'[t].tx = {} /\ ws'[t].files = <<>> /\ ws'[t].forms = {} /\ ws'[t].sock = NoSock
  BY <1>1, <1>9
<1>17. QED
  BY <1>6, <1>14, <1>15, <1>16 DEF Spared

\* The session is kept with the result of its handler.
LEMMA KeptData ==
    ASSUME DataInv, sess_used \subseteq Sess, NEW s \in sess_used,
           NEW r, Good(Work(s), r), Store(s, r), UNCHANGED sess_used
    PROVE  DataInv'
<1>1. Base(r) /\ r \in WorkSet /\ Ready(r) /\ Frame(Work(s), r)
      /\ r.se.tx \subseteq r.tx
  BY DEF Good, Keeps, Base
<1>2. /\ DataTypes /\ DataTypes'
      /\ ws'[s] = r.se
      /\ \A c \in Conn : conn'[c] = IF c = ws[s].sock THEN r.co ELSE conn[c]
      /\ tx_used' = r.tx /\ form_used' = r.form /\ file' = r.file
  BY <1>1, StoreFields DEF DataInv
<1>3. Spared(s)
  BY <1>1, StoreSpares
<1>4. r.se.sock # NoSock => r.se.sock = ws[s].sock /\ r.se.sock \in Conn
  BY <1>1, WorkFields DEF Frame, WorkSet, WiSess
<1>5. Files(s)' = Own(r)
  BY <1>2 DEF Files, Own
<1>6. Base(Work(s))'
  <2>1. /\ ws'[s].tx \subseteq tx_used' /\ ws'[s].forms \subseteq form_used'
        /\ \A f \in Files(s)' : file'[f].kind # "free"
        /\ Distinct(ws'[s].files)
        /\ ws'[s].sock = NoSock => ws'[s].state = "ENDING"
        /\ ws'[s].sock # NoSock => conn'[ws'[s].sock].phase = "open"
    BY <1>1, <1>2, <1>4, <1>5 DEF Base
  <2>2. QED
    BY <1>2, <2>1, WorkBase
<1>7. Ready(Work(s))'
  <2>1. Work(s)'.se = r.se /\ Work(s)'.file = r.file
    BY <1>2 DEF Work
  <2>2. QED
    BY <1>1, <2>1 DEF Ready, FileHead
<1>8. SessionsOK'
  BY <1>3, <1>6, <1>7 DEF SessionsOK, Spared
<1>9. FreeSlotsOK'
  BY <1>3 DEF FreeSlotsOK, Spared
<1>10. QED
  BY <1>2, <1>3, <1>8, <1>9 DEF DataInv, Spared

\* The session is deleted, after a handler left it as w.
LEMMA DeletedData ==
    ASSUME DataInv, sess_used \subseteq Sess, NEW s \in sess_used,
           NEW w, Keeps(Work(s), w), wi_delsess(s, w)
    PROVE  DataInv'
<1> DEFINE r == Release(w)
<1>1. Store(s, r) /\ sess_used' = sess_used \ {s}
  BY DEF wi_delsess
<1>2. Freed(w, r)
  BY ReleaseFreed DEF Keeps
<1> HIDE DEF r
<1>3. /\ r \in WorkSet /\ r.se.tx = {} /\ r.se.files = <<>> /\ r.se.forms = {}
      /\ r.se.sock = NoSock /\ Own(r) = {}
  BY <1>2 DEF Freed, NewSess, Own
<1>4. Frame(Work(s), r)
  BY <1>2, <1>3 DEF Freed, Keeps, Frame
<1>5. DataTypes' /\ ws'[s] = r.se
  BY <1>1, <1>3, StoreFields DEF DataInv
<1>6. Spared(s)
  BY <1>1, <1>3, <1>4, StoreSpares
<1>7. SessionsOK'
  BY <1>1, <1>6 DEF SessionsOK, Spared
<1>8. FreeSlotsOK'
  BY <1>1, <1>3, <1>5, <1>6 DEF FreeSlotsOK, Spared
<1>9. QED
  BY <1>5, <1>6, <1>7, <1>8 DEF DataInv, Spared

----------------------------------------------------------------------------
(* The visits of wi_poll's loop *)

LEMMA CursorUsed ==
    ASSUME ListInv, pc \in {"visit", "clean"}, cur # NULL
    PROVE  cur \in sess_used /\ sess_used \subseteq Sess
BY DEF ListInv, CursorOK, ListOK

\* The session visited is one a handler can work on.
LEMMA VisitedGood ==
    ASSUME ListInv, DataInv, NEW st, Visiting(st)
    PROVE  /\ cur \in sess_used /\ sess_used \subseteq Sess
           /\ Base(Work(cur)) /\ Ready(Work(cur)) /\ Good(Work(cur), Work(cur))
           /\ Work(cur).se.state = st
           /\ st # "ENDING" => Work(cur).se.sock # NoSock
<1>1. cur \in sess_used /\ sess_used \subseteq Sess
  BY CursorUsed DEF Visiting
<1>2. Base(Work(cur)) /\ Ready(Work(cur))
  BY <1>1 DEF DataInv, SessionsOK
<1>3. Work(cur).se.state = st
  BY WorkFields DEF Visiting
<1>4. QED
  BY <1>1, <1>2, <1>3, KeepsSelf DEF Good, Base

\* goto another_state and break, with a good result.
LEMMA AgainData ==
    ASSUME ListInv, DataInv, NEW st, Visiting(st), NEW r, Good(Work(cur), r), Again(r)
    PROVE  DataInv'
<1>1. Store(cur, r) /\ UNCHANGED sess_used
  BY DEF Again, lists
<1>2. QED
  BY <1>1, VisitedGood, KeptData

LEMMA BreakData ==
    ASSUME ListInv, DataInv, NEW st, Visiting(st), NEW r, Good(Work(cur), r), Break(r)
    PROVE  DataInv'
<1>1. wi_delsess(cur, r) \/ (Store(cur, r) /\ UNCHANGED lists)
  BY DEF Break
<1>2. cur \in sess_used /\ sess_used \subseteq Sess
  BY VisitedGood
<1>3. CASE wi_delsess(cur, r)
  BY <1>2, <1>3, DeletedData DEF Good
<1>4. CASE Store(cur, r) /\ UNCHANGED lists
  BY <1>2, <1>4, KeptData DEF lists
<1>5. QED
  BY <1>1, <1>3, <1>4

\* After an error the state becomes WI_ENDING.
LEMMA ErrorEnds ==
    ASSUME NEW v, NEW r, Good(v, r), NEW z, z = SetState(r, "ENDING")
    PROVE  Good(v, z)
<1> DEFINE st == "ENDING"
<1>1. st \in State /\ st = "ENDING" /\ Base(r) /\ z = SetState(r, st)
  BY GoodEnd DEF State
<1>2. /\ Keeps(r, z) /\ z.se.state = st /\ z.se.flags = r.se.flags
      /\ z.se.files = r.se.files /\ z.se.sock = r.se.sock /\ z.file = r.file
  <2> HIDE DEF st
  <2>1. QED
    BY <1>1, SetStateKeeps
<1>3. Ready(z)
  BY <1>2 DEF Good, Ready, FileHead
<1>4. QED
  BY <1>2, <1>3, KeepsTrans DEF Good

LEMMA VisitHeaderData ==
    ASSUME ListInv, DataInv, VisitHeader
    PROVE  DataInv'
<1> DEFINE st == "HEADER"
           w == Work(cur)
           got == IF w.se.sock \in sel_recv THEN Recv(w) ELSE w
           r == IF got.se.rx = 0 THEN got ELSE wi_parseheader(got)
<1>1. Visiting(st) /\ (Again(r) \/ Break(r))
  BY DEF VisitHeader
<1>2. Base(w) /\ Ready(w) /\ Good(w, w) /\ w.se.sock # NoSock
  BY <1>1, VisitedGood
<1>3. Quiet(w, got)
  BY <1>2, RecvQuiet, QuietSelf
<1> HIDE DEF st
<1>4. Good(w, r)
  <2> HIDE DEF w, got
  <2>1. Good(w, got) /\ Base(got) /\ Ready(got) /\ got.se.sock # NoSock
    BY <1>2, <1>3, QuietGood, GoodEnd DEF Quiet
  <2>2. Good(w, wi_parseheader(got))
    BY <2>1, ParseheaderGood, GoodTrans DEF Good
  <2>3. QED
    BY <2>1, <2>2
<1> HIDE DEF r
<1>5. QED
  BY <1>1, <1>4, AgainData, BreakData

LEMMA VisitPostRxData ==
    ASSUME ListInv, DataInv, VisitPostRx
    PROVE  DataInv'
<1> DEFINE st   == "POSTRX"
           w    == Work(cur)
           got  == Recv(w)
           p    == w.co.req.pairs
           form == wi_buildform(got, p)
           z    == SetState(form, "CONTENT")
<1>1. Visiting(st) /\ (Break(got) \/ Break(wi_senderr(form)) \/ Again(z))
  BY DEF VisitPostRx, SetState
<1>2. Base(w) /\ Ready(w) /\ Good(w, w) /\ w.se.sock # NoSock /\ w.se.state = "POSTRX"
  BY <1>1, VisitedGood
<1> HIDE DEF w, p
<1>3. Quiet(w, got)
  BY <1>2, RecvQuiet
<1> HIDE DEF got
<1>4. Good(w, got) /\ Base(got)
  BY <1>2, <1>3, QuietGood, GoodEnd
<1>5. Quiet(got, form)
  BY <1>4, BuildformStep
<1> HIDE DEF form
<1>6. /\ Quiet(w, form) /\ Good(w, form) /\ Base(form) /\ Ready(form)
      /\ form.se.sock # NoSock /\ form.se.state = "POSTRX"
  BY <1>2, <1>3, <1>5, QuietTrans, QuietGood, GoodEnd DEF Quiet
<1>7. Good(w, wi_senderr(form))
  <2>1. Keeps(form, wi_senderr(form)) /\ Over(wi_senderr(form))
    BY <1>6, EndingStep DEF Step
  <2>2. QED
    BY <1>6, <2>1, KeepsTrans, OverGood DEF Good
<1>8. Good(w, z)
  <2>1. /\ Keeps(form, z) /\ z.se.state = "CONTENT" /\ z.se.flags = form.se.flags
        /\ z.se.files = form.se.files /\ z.se.sock = form.se.sock /\ z.file = form.file
    BY <1>6, "CONTENT" \in State, SetStateKeeps DEF State
  <2> HIDE DEF z
  <2>2. Ready(z)
    BY <1>6, <2>1 DEF Ready, FileHead
  <2>3. QED
    BY <1>6, <2>1, <2>2, KeepsTrans DEF Good
<1> HIDE DEF z, st
<1>9. Good(Work(cur), got) /\ Good(Work(cur), wi_senderr(form)) /\ Good(Work(cur), z)
  BY <1>4, <1>7, <1>8 DEF w
<1>10. QED
  BY <1>1, <1>9, AgainData, BreakData

LEMMA VisitContentData ==
    ASSUME ListInv, DataInv, VisitContent
    PROVE  DataInv'
<1> DEFINE st == "CONTENT"
           w  == Work(cur)
           r  == wi_readfile(w)
           z  == SetState(r, "ENDING")
<1>1. Visiting(st) /\ (Again(z) \/ Again(r) \/ Break(r))
  BY DEF VisitContent, SetState
<1>2. Base(w) /\ Ready(w) /\ w.se.sock # NoSock /\ w.se.state = "CONTENT"
  BY <1>1, VisitedGood
<1>3. Good(Work(cur), r)
  <2> HIDE DEF w
  <2>1. Good(w, wi_readfile(w))
    BY <1>2, ReadfileGood DEF Ready
  <2>2. QED
    BY <2>1 DEF w
<1>4. Good(Work(cur), z)
  <2> HIDE DEF r
  <2>1. QED
    BY <1>3, ErrorEnds
<1> HIDE DEF r, z, st
<1>5. QED
  BY <1>1, <1>3, <1>4, AgainData, BreakData

LEMMA VisitSendDataData ==
    ASSUME ListInv, DataInv, VisitSendData
    PROVE  DataInv'
<1> DEFINE st == "SENDDATA"
           w  == Work(cur)
           r  == wi_sockwrite(w)
           z  == SetState(r, "ENDING")
<1>1. Visiting(st) /\ (Break(w) \/ Again(z) \/ Again(r) \/ Break(r))
  BY DEF VisitSendData, SetState
<1>2. Base(w) /\ Ready(w) /\ Good(w, w)
  BY <1>1, VisitedGood
<1>3. Good(Work(cur), r)
  <2> HIDE DEF w
  <2>1. Good(w, wi_sockwrite(w))
    BY <1>2, SockwriteStep DEF Good, Step
  <2>2. QED
    BY <2>1 DEF w
<1>4. Good(Work(cur), z)
  <2> HIDE DEF r
  <2>1. QED
    BY <1>3, ErrorEnds
<1>5. Good(Work(cur), w)
  BY <1>2
<1> HIDE DEF w, r, z, st
<1>6. QED
  BY <1>1, <1>3, <1>4, <1>5, AgainData, BreakData

LEMMA VisitData ==
    ASSUME ListInv, DataInv, Visit
    PROVE  DataInv'
<1>1. CASE VisitHeader \/ VisitPostRx \/ VisitContent \/ VisitSendData
  BY <1>1, VisitHeaderData, VisitPostRxData, VisitContentData, VisitSendDataData
<1>2. CASE VisitRecvError \/ VisitPushing
  <2>1. UNCHANGED data
    BY <1>2, Zenon DEF VisitRecvError, VisitPushing, PollFails, data, lists, pools, net
  <2>2. QED
    BY <2>1, FrameKeepsData
<1>3. CASE VisitEnding
  <2> DEFINE st == "ENDING"
             w  == Work(cur)
  <2>1. Visiting(st) /\ wi_delsess(cur, w)
    BY <1>3 DEF VisitEnding
  <2>2. Keeps(Work(cur), w) /\ cur \in sess_used /\ sess_used \subseteq Sess
    BY <2>1, VisitedGood DEF Good
  <2> HIDE DEF w, st
  <2>3. QED
    BY <2>1, <2>2, DeletedData
<1>4. QED
  BY <1>1, <1>2, <1>3 DEF Visit

----------------------------------------------------------------------------
(* Connections come, are accepted and go *)

\* Steps on the connections that no session has.
LEMMA ConnData ==
    ASSUME DataInv, UNCHANGED <<sess_used, ws, tx_used, form_used, file, push>>,
           conn' \in [Conn -> Connection],
           \A c \in Conn : conn[c].phase = "open" => conn'[c].phase = "open",
           backlog' \in Seq(Conn), BacklogOK', sess_used \subseteq Sess
    PROVE  DataInv'
<1>1. DataTypes'
  BY DEF DataInv, DataTypes
<1>2. \A s : Files(s)' = Files(s)
  BY DEF Files
<1>3. OwnersOK' /\ FreeSlotsOK'
  BY <1>2 DEF DataInv, OwnersOK, Apart, FreeSlotsOK
<1>4. ASSUME NEW s \in sess_used
      PROVE  (Base(Work(s)) /\ Ready(Work(s)))'
  <2>1. Base(Work(s)) /\ Ready(Work(s)) /\ s \in Sess
    BY <1>4 DEF DataInv, SessionsOK
  <2>2. Work(s)'.se = ws[s] /\ Work(s)'.file = file
    BY DEF Work
  <2>3. Ready(Work(s))'
    BY <2>1, <2>2, WorkFields DEF Ready, FileHead
  <2>4. /\ ws[s].tx \subseteq tx_used /\ ws[s].forms \subseteq form_used
        /\ \A f \in Files(s) : file[f].kind # "free"
        /\ Distinct(ws[s].files)
        /\ ws[s].sock = NoSock => ws[s].state = "ENDING"
        /\ ws[s].sock # NoSock => conn'[ws[s].sock].phase = "open"
    BY <2>1, BaseWork
  <2>5. Base(Work(s))'
    BY <1>1, <1>2, <2>1, <2>4, WorkBase
  <2>6. QED
    BY <2>3, <2>5
<1>5. SessionsOK'
  BY <1>4 DEF SessionsOK
<1>6. QED
  BY <1>1, <1>3, <1>5 DEF DataInv

\* The oldest connection leaves the queue.
LEMMA DequeueBacklog ==
    ASSUME DataTypes, BacklogOK, backlog # <<>>, backlog' = Tail(backlog),
           \A c \in Conn : c # NewSock => conn'[c] = conn[c]
    PROVE  /\ NewSock \in Conn /\ conn[NewSock].phase = "backlog"
           /\ backlog' \in Seq(Conn) /\ BacklogOK'
<1>1. /\ Tail(backlog) \in Seq(Conn) /\ Len(Tail(backlog)) = Len(backlog) - 1
      /\ NewSock = backlog[1] /\ backlog[1] \in Conn /\ Len(backlog) \in Nat \ {0}
      /\ \A i \in 1 .. Len(backlog) - 1 : Tail(backlog)[i] = backlog[i + 1]
  BY TailElements DEF DataTypes, NewSock
<1>2. \A i \in 1 .. Len(backlog) : backlog[i] \in Conn /\ conn[backlog[i]].phase = "backlog"
  BY LenProperties DEF DataTypes, BacklogOK
<1>3. conn[NewSock].phase = "backlog"
  BY <1>1, <1>2
<1> DEFINE q == Tail(backlog)
<1> HIDE DEF q
<1>4. /\ Len(q) = Len(backlog) - 1
      /\ \A i \in 1 .. Len(q) : /\ q[i] = backlog[i + 1]
                                /\ i \in Nat /\ i + 1 \in 1 .. Len(backlog) /\ i + 1 # 1
  BY <1>1 DEF q
<1>5. ASSUME NEW i \in 1 .. Len(q)
      PROVE  conn'[q[i]].phase = "backlog"
  <2>1. q[i] # NewSock
    BY <1>1, <1>4 DEF BacklogOK, Distinct
  <2>2. QED
    BY <1>2, <1>4, <2>1
<1>6. ASSUME NEW i \in 1 .. Len(q), NEW j \in 1 .. Len(q), q[i] = q[j]
      PROVE  i = j
  <2>1. backlog[i + 1] = backlog[j + 1] /\ i + 1 \in 1 .. Len(backlog) /\ j + 1 \in 1 .. Len(backlog)
    BY <1>4, <1>6
  <2>2. i + 1 = j + 1
    BY <2>1 DEF BacklogOK, Distinct
  <2>3. QED
    BY <1>4, <2>2
<1>7. backlog' = q
  BY DEF q
<1>8. BacklogOK'
  BY <1>5, <1>6, <1>7 DEF BacklogOK, Distinct
<1>9. QED
  BY <1>1, <1>3, <1>8

\* A connection that was accepted and is not kept is closed, or left open.
LEMMA RefuseData ==
    ASSUME ListInv, DataInv, PollRefuse \/ PollAcceptNoSlot \/ PollNameError
    PROVE  DataInv'
<1>1. /\ backlog # <<>> /\ backlog' = Tail(backlog)
      /\ UNCHANGED <<sess_used, ws, tx_used, form_used, file, push>>
      /\ \/ conn' = [conn EXCEPT ![NewSock] = ClosedConn(@)]
         \/ conn' = [conn EXCEPT ![NewSock].phase = "open"]
  BY Zenon DEF PollRefuse, PollAcceptNoSlot, PollNameError, PollFails, Accepting, lists, pools
<1>2. DataTypes /\ BacklogOK /\ conn \in [Conn -> Connection]
  BY DEF DataInv, DataTypes
<1>3. \A c \in Conn : c # NewSock => conn'[c] = conn[c]
  BY <1>1, <1>2
<1>4. /\ NewSock \in Conn /\ conn[NewSock].phase = "backlog"
      /\ backlog' \in Seq(Conn) /\ BacklogOK'
  BY <1>1, <1>2, <1>3, DequeueBacklog
<1>5. conn' \in [Conn -> Connection]
  <2>1. conn[NewSock] \in Connection
    BY <1>2, <1>4
  <2>2. ClosedConn(conn[NewSock]) \in Connection /\ [conn[NewSock] EXCEPT !.phase = "open"] \in Connection
    BY <2>1, ConnectionTypes DEF Connection
  <2>3. QED
    BY <1>1, <1>2, <1>4, <2>2
<1>6. \A c \in Conn : conn[c].phase = "open" => conn'[c].phase = "open"
  BY <1>3, <1>4
<1>7. sess_used \subseteq Sess
  BY DEF ListInv
<1>8. QED
  BY <1>1, <1>4, <1>5, <1>6, <1>7, ConnData

\* A connection accepted into a free slot is the session's alone.
LEMMA AcceptData ==
    ASSUME ListInv, DataInv, PollAccept
    PROVE  DataInv'
<1>1. sess_used # Sess /\ sess_used \subseteq Sess
  BY Zenon DEF PollAccept, ListInv
<1> DEFINE slot == FirstSlot(Sess \ sess_used)
<1>2. slot \in Sess \ sess_used
  BY <1>1, FirstSlotIn, SlotTypes
<1>3. PICK s \in Sess \ sess_used : s = slot
  BY <1>2
<1> HIDE DEF slot
<1>4. PICK c : c = NewSock
  OBVIOUS
<1>5. /\ backlog # <<>> /\ backlog' = Tail(backlog) /\ sess_used # Sess
      /\ conn' = [conn EXCEPT ![c].phase = "open"]
      /\ sess_used' = sess_used \cup {s}
      /\ ws' = [ws EXCEPT ![s] = NewSess(c)]
      /\ UNCHANGED <<tx_used, form_used, file, push>>
  BY <1>3, <1>4, Zenon DEF PollAccept, Accepting, pools, slot
<1>6. /\ DataTypes /\ BacklogOK /\ SessionsOK /\ FreeSlotsOK /\ OwnersOK
      /\ sess_used \subseteq Sess
  BY DEF DataInv, ListInv
<1>7. s \in Sess \ sess_used
  BY <1>3
<1>8. \A d \in Conn : d # c => conn'[d] = conn[d]
  BY <1>5, <1>6 DEF DataTypes
<1>9. /\ c \in Conn /\ conn[c].phase = "backlog" /\ c # NoSock
      /\ backlog' \in Seq(Conn) /\ BacklogOK'
  BY <1>5, <1>6, <1>8, <1>4, DequeueBacklog, ConnAssumption
<1>10. conn' \in [Conn -> Connection] /\ conn'[c].phase = "open"
  <2>1. conn[c] \in Connection
    BY <1>6, <1>9 DEF DataTypes
  <2>2. [conn[c] EXCEPT !.phase = "open"] \in Connection /\ [conn[c] EXCEPT !.phase = "open"].phase = "open"
    BY <2>1 DEF Connection
  <2>3. QED
    BY <1>5, <1>6, <1>9, <2>2 DEF DataTypes
<1>11. NewSess(c) \in WiSess
  BY <1>9, UnitsAssumption DEF NewSess, WiSess, State
<1>12. ws' \in [Sess -> WiSess] /\ ws'[s] = NewSess(c) /\ \A t \in Sess \ {s} : ws'[t] = ws[t]
  BY <1>5, <1>6, <1>7, <1>11 DEF DataTypes
<1>13. DataTypes'
  BY <1>5, <1>6, <1>9, <1>10, <1>12 DEF DataTypes
<1>14. /\ ws'[s].tx = {} /\ ws'[s].forms = {} /\ ws'[s].files = <<>> /\ ws'[s].sock = c
       /\ ws'[s].state = "HEADER" /\ ws'[s].flags = {}
       /\ Files(s)' = {} /\ \A t \in Sess \ {s} : Files(t)' = Files(t)
  <2>1. /\ ws'[s].tx = {} /\ ws'[s].forms = {} /\ ws'[s].files = <<>> /\ ws'[s].sock = c
        /\ ws'[s].state = "HEADER" /\ ws'[s].flags = {}
    BY <1>12 DEF NewSess
  <2>2. Files(s)' = {}
    BY <2>1 DEF Files
  <2>3. \A t \in Sess \ {s} : Files(t)' = Files(t)
    BY <1>12 DEF Files
  <2>4. QED
    BY <2>1, <2>2, <2>3
<1>15. \A t \in Sess : ws[t].sock # c
  <2> SUFFICES ASSUME NEW t \in Sess, ws[t].sock = c
               PROVE  FALSE
    OBVIOUS
  <2>1. t \in sess_used
    BY <1>6, <1>9 DEF FreeSlotsOK
  <2>2. conn[ws[t].sock].phase = "open"
    BY <1>6, <1>9, <2>1, BaseWork DEF SessionsOK
  <2>3. QED
    BY <1>9, <2>2
<1>16. ASSUME NEW t \in sess_used
       PROVE  (Base(Work(t)) /\ Ready(Work(t)))'
  <2>1. Base(Work(t)) /\ Ready(Work(t)) /\ t \in Sess /\ t # s /\ ws'[t] = ws[t]
        /\ Files(t)' = Files(t)
    BY <1>6, <1>7, <1>12, <1>14, <1>16 DEF SessionsOK
  <2>2. Work(t)'.se = ws[t] /\ Work(t)'.file = file
    BY <1>5, <2>1 DEF Work
  <2>3. Ready(Work(t))'
    BY <2>1, <2>2, WorkFields DEF Ready, FileHead
  <2>4. /\ ws[t].tx \subseteq tx_used /\ ws[t].forms \subseteq form_used
        /\ \A f \in Files(t) : file[f].kind # "free"
        /\ Distinct(ws[t].files)
        /\ ws[t].sock = NoSock => ws[t].state = "ENDING"
        /\ ws[t].sock # NoSock => conn[ws[t].sock].phase = "open"
        /\ ws[t].sock \in Conn \cup {NoSock}
    BY <2>1, BaseWork
  <2>5. ws[t].sock # NoSock => conn'[ws[t].sock].phase = "open"
    BY <1>8, <1>15, <2>1, <2>4
  <2>6. /\ ws'[t].tx \subseteq tx_used' /\ ws'[t].forms \subseteq form_used'
        /\ \A f \in Files(t)' : file'[f].kind # "free"
        /\ Distinct(ws'[t].files)
        /\ ws'[t].sock = NoSock => ws'[t].state = "ENDING"
        /\ ws'[t].sock # NoSock => conn'[ws'[t].sock].phase = "open"
    BY <1>5, <2>1, <2>4, <2>5
  <2>7. Base(Work(t))'
    BY <1>13, <2>1, <2>6, WorkBase
  <2>8. QED
    BY <2>3, <2>7
<1>17. (Base(Work(s)) /\ Ready(Work(s)))'
  <2>1. Distinct(ws'[s].files)
    BY <1>14 DEF Distinct
  <2>2. Base(Work(s))'
    <3>1. /\ ws'[s].tx \subseteq tx_used' /\ ws'[s].forms \subseteq form_used'
          /\ \A f \in Files(s)' : file'[f].kind # "free"
          /\ ws'[s].sock # NoSock
          /\ conn'[ws'[s].sock].phase = "open"
      BY <1>9, <1>10, <1>14
    <3>2. s \in Sess
      BY <1>7
    <3>3. QED
      BY <1>13, <2>1, <3>1, <3>2, WorkBase
  <2>3. Work(s)'.se.state = "HEADER" /\ Work(s)'.se.flags = {}
    <3>1. Work(s)'.se = ws'[s]
      BY DEF Work
    <3>2. QED
      BY <1>14, <3>1
  <2>4. Ready(Work(s))'
    BY <2>3 DEF Ready
  <2>5. QED
    BY <2>2, <2>4
<1>18. SessionsOK'
  <2>1. \A t \in sess_used' : (Base(Work(t)) /\ Ready(Work(t)))'
    BY <1>5, <1>16, <1>17
  <2>2. QED
    BY <2>1 DEF SessionsOK
<1>19. FreeSlotsOK'
  BY <1>5, <1>6, <1>12 DEF FreeSlotsOK
<1>20. ASSUME NEW t \in Sess, NEW u \in Sess, t # u
       PROVE  Apart(t, u)'
  <2>1. CASE t = s
    <3>1. ws'[u] = ws[u] /\ ws[u].sock # c
      BY <1>12, <1>15, <1>20, <2>1
    <3>2. QED
      BY <1>14, <2>1, <3>1 DEF Apart
  <2>2. CASE u = s
    <3>1. ws'[t] = ws[t] /\ ws[t].sock # c
      BY <1>12, <1>15, <1>20, <2>2
    <3>2. QED
      BY <1>14, <2>2, <3>1 DEF Apart
  <2>3. CASE t # s /\ u # s
    <3>1. ws'[t] = ws[t] /\ ws'[u] = ws[u] /\ Files(t)' = Files(t) /\ Files(u)' = Files(u)
      BY <1>12, <1>14, <2>3
    <3>2. Apart(t, u)
      BY <1>6, <1>20 DEF OwnersOK
    <3>3. QED
      BY <3>1, <3>2 DEF Apart
  <2>4. QED
    BY <2>1, <2>2, <2>3
<1>21. /\ \A k \in tx_used' : \E t \in Sess : k \in ws'[t].tx
       /\ \A t \in Sess : ws'[t].tx \subseteq tx_used'
  <2>1. ws[s].tx = {}
    BY <1>6, <1>7 DEF FreeSlotsOK
  <2>2. \A t \in Sess : ws'[t].tx = ws[t].tx
    BY <1>12, <1>14, <2>1
  <2>3. QED
    BY <1>5, <1>6, <2>2 DEF OwnersOK
<1>22. OwnersOK'
  BY <1>20, <1>21 DEF OwnersOK
<1>23. QED
  BY <1>9, <1>13, <1>18, <1>19, <1>22 DEF DataInv

LEMMA PollData ==
    ASSUME ListInv, DataInv, Poll
    PROVE  DataInv'
<1>1. CASE PollNoConn \/ PollSelectError \/ PollPanic
  <2>1. UNCHANGED data
    BY <1>1, Zenon DEF PollNoConn, PollSelectError, PollPanic, PollFails, data, lists, pools, net
  <2>2. QED
    BY <2>1, FrameKeepsData
<1>2. QED
  BY <1>1, RefuseData, AcceptData DEF Poll

LEMMA RestartData ==
    ASSUME ListInv, DataInv, Restart
    PROVE  DataInv'
<1>1. CASE RestartClose
  <2>1. /\ conn' = [c \in Conn |-> IF conn[c].phase = "backlog" THEN ClosedConn(conn[c]) ELSE conn[c]]
        /\ backlog' = <<>>
        /\ UNCHANGED <<sess_used, ws, tx_used, form_used, file, push>>
    BY <1>1 DEF RestartClose, lists, pools
  <2>2. conn \in [Conn -> Connection] /\ sess_used \subseteq Sess
    BY DEF DataInv, DataTypes, ListInv
  <2>3. conn' \in [Conn -> Connection]
    BY <2>1, <2>2, ConnectionTypes
  <2>4. backlog' \in Seq(Conn) /\ BacklogOK'
    BY <2>1 DEF BacklogOK, Distinct
  <2>5. \A c \in Conn : conn[c].phase = "open" => conn'[c].phase = "open"
    BY <2>1
  <2>6. QED
    BY <2>1, <2>2, <2>3, <2>4, <2>5, ConnData
<1>2. CASE RestartDelete
  <2> DEFINE w == Work(cur)
  <2>1. pc = "clean" /\ cur # NULL /\ wi_delsess(cur, w)
    BY <1>2 DEF RestartDelete
  <2>2. cur \in sess_used /\ sess_used \subseteq Sess
    BY <2>1, CursorUsed
  <2>3. Keeps(Work(cur), w)
    BY <2>2, KeepsSelf DEF DataInv, SessionsOK
  <2> HIDE DEF w
  <2>4. QED
    BY <2>1, <2>2, <2>3, DeletedData
<1>3. CASE RestartInit
  <2>1. UNCHANGED data
    BY <1>3, Zenon DEF RestartInit, data, lists, pools, net
  <2>2. QED
    BY <2>1, FrameKeepsData
<1>4. QED
  BY <1>1, <1>2, <1>3 DEF Restart

----------------------------------------------------------------------------
(* The clients, the clock and the push code *)

LEMMA ClientData ==
    ASSUME ListInv, DataInv, NEW c \in Conn, Client(c)
    PROVE  DataInv'
<1>1. /\ UNCHANGED <<sess_used, ws, tx_used, form_used, file, push>>
      /\ sess_used \subseteq Sess
  BY DEF Client, lists, pools, ListInv
<1>2. /\ DataTypes /\ BacklogOK /\ conn \in [Conn -> Connection] /\ conn[c] \in Connection
      /\ backlog \in Seq(Conn)
  BY DEF DataInv, DataTypes
<1>3. \A i \in 1 .. Len(backlog) : backlog[i] \in Conn /\ conn[backlog[i]].phase = "backlog"
  BY <1>2, LenProperties DEF BacklogOK
<1>4. CASE \E r \in Requests : ClientConnect(c, r)
  <2>1. PICK r \in Requests : ClientConnect(c, r)
    BY <1>4
  <2> DEFINE x == [NoConnection EXCEPT !.phase = "backlog", !.req = r]
  <2>2. /\ conn[c].phase = "closed" /\ conn' = [conn EXCEPT ![c] = x]
        /\ backlog' = Append(backlog, c)
    BY <2>1 DEF ClientConnect
  <2>3. x \in Connection /\ x.phase = "backlog"
    <3>1. r \in Request
      BY RequestAssumption
    <3>2. QED
      BY <3>1, ConnectionTypes DEF Connection
  <2> HIDE DEF x
  <2>4. /\ conn' \in [Conn -> Connection] /\ conn'[c] = x
        /\ \A d \in Conn : d # c => conn'[d] = conn[d]
    BY <1>2, <2>2, <2>3
  <2>5. /\ backlog' \in Seq(Conn) /\ Len(backlog') = Len(backlog) + 1 /\ Len(backlog) \in Nat
        /\ backlog'[Len(backlog) + 1] = c
        /\ \A i \in 1 .. Len(backlog) : backlog'[i] = backlog[i]
    BY <1>2, <2>2
  <2>6. \A i \in 1 .. Len(backlog') : i \in 1 .. Len(backlog) \/ i = Len(backlog) + 1
    BY <2>5
  <2>7. \A i \in 1 .. Len(backlog) : backlog'[i] # c /\ conn'[backlog'[i]].phase = "backlog"
    BY <1>3, <2>2, <2>4, <2>5
  <2>8. BacklogOK'
    <3>1. \A i \in 1 .. Len(backlog') : conn'[backlog'[i]].phase = "backlog"
      BY <2>3, <2>4, <2>5, <2>6, <2>7
    <3>2. ASSUME NEW i \in 1 .. Len(backlog'), NEW j \in 1 .. Len(backlog'), backlog'[i] = backlog'[j]
          PROVE  i = j
      <4>1. CASE i = Len(backlog) + 1 \/ j = Len(backlog) + 1
        BY <2>5, <2>6, <2>7, <3>2, <4>1
      <4>2. CASE i \in 1 .. Len(backlog) /\ j \in 1 .. Len(backlog)
        BY <1>2, <2>5, <3>2, <4>2 DEF BacklogOK, Distinct
      <4>3. QED
        BY <2>6, <4>1, <4>2
    <3>3. QED
      BY <3>1, <3>2 DEF BacklogOK, Distinct
  <2>9. \A d \in Conn : conn[d].phase = "open" => conn'[d].phase = "open"
    BY <2>2, <2>4
  <2>10. QED
    BY <1>1, <2>4, <2>5, <2>8, <2>9, ConnData
<1>5. CASE (ClientSend(c) \/ ClientEof(c) \/ ClientReset(c) \/ ClientDrain(c)) /\ UNCHANGED backlog
  <2>1. \/ conn' = [conn EXCEPT ![c].sent = @ + 1]
        \/ conn' = [conn EXCEPT ![c].peer = "eof"]
        \/ conn' = [conn EXCEPT ![c].peer = "reset"]
        \/ conn' = [conn EXCEPT ![c].room = ROOM]
    BY <1>5 DEF ClientSend, ClientEof, ClientReset, ClientDrain
  <2>2. /\ [conn[c] EXCEPT !.sent = @ + 1] \in Connection
        /\ [conn[c] EXCEPT !.peer = "eof"] \in Connection
        /\ [conn[c] EXCEPT !.peer = "reset"] \in Connection
        /\ [conn[c] EXCEPT !.room = ROOM] \in Connection
    <3> SUFFICES ASSUME NEW k \in Connection
                 PROVE  /\ [k EXCEPT !.sent = @ + 1] \in Connection
                        /\ [k EXCEPT !.peer = "eof"] \in Connection
                        /\ [k EXCEPT !.peer = "reset"] \in Connection
                        /\ [k EXCEPT !.room = ROOM] \in Connection
      BY <1>2
    <3>1. k.sent + 1 \in Nat /\ ROOM \in 0 .. ROOM
      BY UnitsAssumption DEF Connection
    <3>2. [k EXCEPT !.sent = k.sent + 1] \in Connection /\ [k EXCEPT !.room = ROOM] \in Connection
      BY <3>1 DEF Connection
    <3>3. [k EXCEPT !.peer = "eof"] \in Connection /\ [k EXCEPT !.peer = "reset"] \in Connection
      BY DEF Connection
    <3>4. QED
      BY <3>2, <3>3
  <2>3. /\ [conn[c] EXCEPT !.sent = @ + 1].phase = conn[c].phase
        /\ [conn[c] EXCEPT !.peer = "eof"].phase = conn[c].phase
        /\ [conn[c] EXCEPT !.peer = "reset"].phase = conn[c].phase
        /\ [conn[c] EXCEPT !.room = ROOM].phase = conn[c].phase
    BY <1>2 DEF Connection
  <2>4. /\ conn' \in [Conn -> Connection] /\ conn'[c].phase = conn[c].phase
        /\ \A d \in Conn : d # c => conn'[d] = conn[d]
    BY <1>2, <2>1, <2>2, <2>3
  <2>5. backlog' = backlog
    BY <1>5
  <2>6. BacklogOK'
    BY <1>2, <1>3, <2>4, <2>5 DEF BacklogOK
  <2>7. \A d \in Conn : conn[d].phase = "open" => conn'[d].phase = "open"
    BY <2>4
  <2>8. QED
    BY <1>1, <1>2, <2>4, <2>5, <2>6, <2>7, ConnData
<1>6. QED
  BY <1>4, <1>5 DEF Client

\* Steps on a session's idle time, and the push code's end of a session.
LEMMA SessData ==
    ASSUME ListInv, DataInv,
           UNCHANGED <<sess_used, conn, backlog, tx_used, form_used, file>>,
           push' \subseteq Sess, ws' \in [Sess -> WiSess],
           \A s \in Sess : /\ ws'[s].tx = ws[s].tx /\ ws'[s].forms = ws[s].forms
                           /\ ws'[s].files = ws[s].files /\ ws'[s].sock = ws[s].sock
                           /\ ws'[s].flags = ws[s].flags
                           /\ ws'[s].state \in {ws[s].state, "ENDING"}
    PROVE  DataInv'
<1>1. DataTypes'
  BY DEF DataInv, DataTypes
<1>2. BacklogOK'
  BY DEF DataInv, BacklogOK
<1>3. \A s \in Sess : Files(s)' = Files(s)
  BY DEF Files
<1>4. OwnersOK' /\ FreeSlotsOK'
  BY <1>3 DEF DataInv, OwnersOK, Apart, FreeSlotsOK
<1>5. ASSUME NEW s \in sess_used
      PROVE  (Base(Work(s)) /\ Ready(Work(s)))'
  <2>1. Base(Work(s)) /\ Ready(Work(s)) /\ s \in Sess
    BY <1>5 DEF DataInv, SessionsOK, ListInv
  <2>2. /\ ws[s].tx \subseteq tx_used /\ ws[s].forms \subseteq form_used
        /\ \A f \in Files(s) : file[f].kind # "free"
        /\ Distinct(ws[s].files)
        /\ ws[s].sock = NoSock => ws[s].state = "ENDING"
        /\ ws[s].sock # NoSock => conn[ws[s].sock].phase = "open"
    BY <2>1, BaseWork
  <2>3. /\ ws'[s].tx \subseteq tx_used' /\ ws'[s].forms \subseteq form_used'
        /\ \A f \in Files(s)' : file'[f].kind # "free"
        /\ Distinct(ws'[s].files)
        /\ ws'[s].sock = NoSock => ws'[s].state = "ENDING"
        /\ ws'[s].sock # NoSock => conn'[ws'[s].sock].phase = "open"
    BY <1>3, <2>1, <2>2
  <2>4. Base(Work(s))'
    BY <1>1, <2>1, <2>3, WorkBase
  <2>5. Work(s)'.se = ws'[s] /\ Work(s)'.file = file
    BY DEF Work
  <2>6. Ready(Work(s))'
    BY <2>1, <2>5, WorkFields DEF Ready, FileHead
  <2>7. QED
    BY <2>4, <2>6
<1>6. SessionsOK'
  BY <1>5 DEF SessionsOK
<1>7. QED
  BY <1>1, <1>2, <1>4, <1>6 DEF DataInv

LEMMA TickData ==
    ASSUME ListInv, DataInv, Tick
    PROVE  DataInv'
<1> DEFINE x(s) == Min2(TMO + 1, ws[s].idle + 1)
           q(s) == IF s \in sess_used THEN [ws[s] EXCEPT !.idle = Min2(TMO + 1, @ + 1)] ELSE ws[s]
<1>1. /\ ws' = [s \in Sess |-> q(s)]
      /\ UNCHANGED <<sess_used, conn, backlog, tx_used, form_used, file, push>>
  BY DEF Tick, lists, net, pools
<1>2. ASSUME NEW s \in Sess
      PROVE  /\ q(s) \in WiSess
             /\ q(s).tx = ws[s].tx /\ q(s).forms = ws[s].forms
             /\ q(s).files = ws[s].files /\ q(s).sock = ws[s].sock
             /\ q(s).flags = ws[s].flags /\ q(s).state = ws[s].state
  <2>1. ws[s] \in WiSess /\ ws[s].idle \in 0 .. TMO + 1
    BY <1>2 DEF DataInv, DataTypes, WiSess
  <2>2. x(s) \in 0 .. TMO + 1
    BY <2>1, UnitsAssumption DEF Min2
  <2>3. q(s) = IF s \in sess_used THEN [ws[s] EXCEPT !.idle = x(s)] ELSE ws[s]
    OBVIOUS
  <2> HIDE DEF q, x
  <2>4. QED
    BY <2>1, <2>2, <2>3 DEF WiSess
<1> HIDE DEF q
<1>3. /\ ws' \in [Sess -> WiSess]
      /\ \A s \in Sess : /\ ws'[s].tx = ws[s].tx /\ ws'[s].forms = ws[s].forms
                         /\ ws'[s].files = ws[s].files /\ ws'[s].sock = ws[s].sock
                         /\ ws'[s].flags = ws[s].flags
                         /\ ws'[s].state \in {ws[s].state, "ENDING"}
  BY <1>1, <1>2
<1>4. push' \subseteq Sess
  BY <1>1 DEF DataInv, DataTypes
<1>5. QED
  BY <1>1, <1>3, <1>4, SessData

LEMMA PushEndData ==
    ASSUME ListInv, DataInv, NEW s \in Sess, PushEnd(s)
    PROVE  DataInv'
<1>1. /\ ws' = [ws EXCEPT ![s].state = "ENDING"]
      /\ push' = push \ {s}
      /\ UNCHANGED <<sess_used, conn, backlog, tx_used, form_used, file>>
  BY DEF PushEnd, lists, net, pools
<1>2. ws \in [Sess -> WiSess] /\ push \subseteq Sess
  BY DEF DataInv, DataTypes
<1>3. [ws[s] EXCEPT !.state = "ENDING"] \in WiSess
  <2>1. ws[s] \in WiSess /\ "ENDING" \in State
    BY <1>2 DEF State
  <2>2. QED
    BY <2>1, SMTT(20) DEF WiSess
<1>4. ws' \in [Sess -> WiSess]
  BY <1>1, <1>2, <1>3
<1>5. ASSUME NEW t \in Sess
      PROVE  /\ ws'[t].tx = ws[t].tx /\ ws'[t].forms = ws[t].forms
             /\ ws'[t].files = ws[t].files /\ ws'[t].sock = ws[t].sock
             /\ ws'[t].flags = ws[t].flags
             /\ ws'[t].state \in {ws[t].state, "ENDING"}
  <2>1. ws[t] \in WiSess
    BY <1>2
  <2>2. CASE t = s
    BY <1>1, <1>2, <2>1, <2>2 DEF WiSess
  <2>3. CASE t # s
    BY <1>1, <1>2, <2>3
  <2>4. QED
    BY <2>2, <2>3
<1>6. QED
  BY <1>1, <1>2, <1>4, <1>5, SessData

----------------------------------------------------------------------------
(* Control *)

LEMMA ControlKept ==
    ASSUME ListInv, DataInv, ControlTypes, [Next]_vars
    PROVE  ControlTypes'
<1>1. ASSUME NEW where \in {"idle", "failed", "exited"}, LeavePoll(where), UNCHANGED listening
      PROVE  ControlTypes'
  BY <1>1 DEF ControlTypes, LeavePoll
<1>2. ASSUME NEW q, StartLoop(q), UNCHANGED listening
      PROVE  ControlTypes'
  <2>1. CASE q = <<>>
    <3>1. LeavePoll("idle")
      BY <1>2, <2>1 DEF StartLoop
    <3>2. QED
      BY <1>2, <3>1 DEF ControlTypes, LeavePoll
  <2>2. CASE q # <<>>
    <3>1. pc' = "visit" /\ Select
      BY <1>2, <2>2 DEF StartLoop
    <3>2. \A s \in Linked : ws[s].sock # NoSock => ws[s].sock \in Conn
      BY DEF ListInv, ListOK, DataInv, DataTypes, WiSess
    <3>3. sel_recv' \subseteq Conn /\ sel_send' \subseteq Conn
      BY <3>1, <3>2 DEF Select
    <3>4. QED
      BY <1>2, <3>1, <3>3 DEF ControlTypes
  <2>3. QED
    BY <2>1, <2>2
<1>3. ASSUME UNCHANGED <<pc, cursor, listening>>
      PROVE  ControlTypes'
  BY <1>3 DEF ControlTypes, cursor
<1>4. ASSUME NEW q, Advance(q), UNCHANGED listening
      PROVE  ControlTypes'
  <2>1. LeavePoll("idle") \/ UNCHANGED <<pc, sel_recv, sel_send>>
    BY <1>4 DEF Advance
  <2>2. QED
    BY <1>1, <1>4, <2>1 DEF ControlTypes
<1>5. CASE Poll
  <2>1. CASE PollNoConn \/ PollRefuse
    BY <1>2, <2>1, Zenon DEF PollNoConn, PollRefuse
  <2>2. CASE PollAccept
    BY <1>2, <2>2, Zenon DEF PollAccept
  <2>3. CASE PollAcceptNoSlot \/ PollNameError \/ PollSelectError \/ PollPanic
    <3>1. (LeavePoll("failed") \/ LeavePoll("exited")) /\ UNCHANGED listening
      BY <2>3, Zenon DEF PollAcceptNoSlot, PollNameError, PollSelectError, PollPanic, PollFails
    <3>2. QED
      BY <1>1, <3>1
  <2>4. QED
    BY <1>5, <2>1, <2>2, <2>3 DEF Poll
<1>6. CASE Visit
  <2>1. CASE VisitHeader \/ VisitPostRx \/ VisitContent \/ VisitSendData
    <3>1. CASE \E w : Again(w)
      BY <1>3, <3>1, Zenon DEF Again
    <3>2. CASE \E w : Break(w)
      <4>1. Advance(wi_sessions') /\ UNCHANGED listening
        BY <3>2, Zenon DEF Break
      <4>2. QED
        BY <1>4, <4>1
    <3>3. QED
      BY <2>1, <3>1, <3>2, VisitOutcome
  <2>2. CASE VisitRecvError
    <3>1. LeavePoll("failed") /\ UNCHANGED listening
      BY <2>2, Zenon DEF VisitRecvError, PollFails
    <3>2. QED
      BY <1>1, <3>1
  <2>3. CASE VisitEnding
    <3>1. Advance(wi_sessions') /\ UNCHANGED listening
      BY <2>3, Zenon DEF VisitEnding
    <3>2. QED
      BY <1>4, <3>1
  <2>4. CASE VisitPushing
    <3>1. Advance(wi_sessions) /\ UNCHANGED listening
      BY <2>4, Zenon DEF VisitPushing
    <3>2. QED
      BY <1>4, <3>1
  <2>5. QED
    BY <1>6, <2>1, <2>2, <2>3, <2>4 DEF Visit
<1>7. CASE Restart
  BY <1>7 DEF Restart, RestartClose, RestartDelete, RestartInit, ControlTypes, cursor
<1>8. CASE Environment
  <2>1. UNCHANGED <<pc, cursor, listening>>
    BY <1>8, Zenon DEF Environment, Client, Tick, PushEnd
  <2>2. QED
    BY <1>3, <2>1
<1>9. CASE UNCHANGED vars
  BY <1>9 DEF vars, ControlTypes
<1>10. QED
  BY <1>5, <1>6, <1>7, <1>8, <1>9 DEF Next, Server

----------------------------------------------------------------------------
(* The invariant and what it gives *)

LEMMA InitIInv == Init => IInv
<1> SUFFICES ASSUME Init
             PROVE  IInv
  OBVIOUS
<1>1. NewSess(NoSock) \in WiSess
  BY UnitsAssumption DEF NewSess, WiSess, State
<1>2. FreeFile \in WiFile
  BY DEF FreeFile, WiFile
<1>3. DataTypes
  BY <1>1, <1>2, ConnectionTypes DEF Init, DataTypes
<1>4. BacklogOK
  BY DEF Init, BacklogOK, Distinct
<1>5. SessionsOK
  BY DEF Init, SessionsOK
<1>6. \A s \in Sess : ws[s] = NewSess(NoSock) /\ Files(s) = {}
  BY DEF Init, NewSess, Files
<1>7. FreeSlotsOK
  BY <1>6 DEF FreeSlotsOK, NewSess
<1>8. OwnersOK
  BY <1>6 DEF Init, OwnersOK, Apart, NewSess
<1>9. ControlTypes
  BY DEF Init, ControlTypes
<1>10. QED
  BY <1>3, <1>4, <1>5, <1>7, <1>8, <1>9, InitListInv DEF IInv, DataInv

LEMMA NextIInv == IInv /\ [Next]_vars => IInv'
<1> SUFFICES ASSUME IInv, [Next]_vars
             PROVE  IInv'
  OBVIOUS
<1>1. ListInv /\ ControlTypes /\ DataInv
  BY DEF IInv
<1>2. ListInv'
  BY <1>1, NextKeepsListInv
<1>3. ControlTypes'
  BY <1>1, ControlKept
<1>4. Poll => DataInv'
  BY <1>1, PollData
<1>5. Visit => DataInv'
  BY <1>1, VisitData
<1>6. Restart => DataInv'
  BY <1>1, RestartData
<1>7. Environment => DataInv'
  BY <1>1, ClientData, TickData, PushEndData DEF Environment
<1>8. ASSUME UNCHANGED vars
      PROVE  DataInv'
  <2>1. UNCHANGED data
    BY <1>8 DEF vars, data
  <2>2. QED
    BY <1>1, <2>1, FrameKeepsData
<1>9. DataInv'
  BY <1>4, <1>5, <1>6, <1>7, <1>8 DEF Next, Server
<1>10. QED
  BY <1>2, <1>3, <1>9 DEF IInv

LEMMA InvTypes == IInv => TypeOK
BY DEF IInv, ListInv, ControlTypes, DataInv, DataTypes, TypeOK

LEMMA InvSockets == IInv => SocketsOK
<1> SUFFICES ASSUME IInv, NEW s \in sess_used
             PROVE  /\ ws[s].sock = NoSock => ws[s].state = "ENDING"
                    /\ ws[s].sock # NoSock => conn[ws[s].sock].phase = "open"
                    /\ \A t \in sess_used : s # t /\ ws[s].sock # NoSock => ws[s].sock # ws[t].sock
  BY DEF SocketsOK
<1>1. Base(Work(s)) /\ sess_used \subseteq Sess /\ OwnersOK
  BY DEF IInv, DataInv, SessionsOK, ListInv
<1>2. QED
  BY <1>1, BaseWork DEF OwnersOK, Apart

LEMMA InvTxbufs == IInv => TxbufsConserved
<1> SUFFICES ASSUME IInv
             PROVE  TxbufsConserved
  OBVIOUS
<1>1. sess_used \subseteq Sess /\ OwnersOK /\ FreeSlotsOK
  BY DEF IInv, DataInv, ListInv
<1>2. \A k : k \in tx_used <=> \E s \in sess_used : k \in ws[s].tx
  BY <1>1 DEF OwnersOK, FreeSlotsOK
<1>3. tx_used = UNION {ws[s].tx : s \in sess_used}
  BY <1>2
<1>4. QED
  BY <1>1, <1>3 DEF TxbufsConserved, OwnersOK, Apart

LEMMA InvFiles == IInv => FilesOK
<1> SUFFICES ASSUME IInv
             PROVE  FilesOK
  OBVIOUS
<1>1. sess_used \subseteq Sess /\ OwnersOK /\ SessionsOK /\ DataTypes
  BY DEF IInv, DataInv, ListInv
<1>2. ASSUME NEW s \in sess_used
      PROVE  /\ DOMAIN ws[s].files = 1 .. Len(ws[s].files)
             /\ ws[s].forms \subseteq form_used
             /\ \A f \in Files(s) : file[f] # FreeFile
             /\ Distinct(ws[s].files)
             /\ \/ ws[s].state = "CONTENT"
                \/ ws[s].state = "SENDDATA" /\ "BINARY" \in ws[s].flags
                => ws[s].files # <<>>
  <2>1. Base(Work(s)) /\ Ready(Work(s)) /\ ws[s].files \in Seq(FileSlot)
    BY <1>1 DEF SessionsOK, DataTypes, WiSess
  <2>2. QED
    BY <2>1, BaseWork, WorkFields DEF Ready
<1>3. ASSUME NEW s \in sess_used, NEW i \in DOMAIN ws[s].files,
             NEW t \in sess_used, NEW j \in DOMAIN ws[t].files,
             ws[s].files[i] = ws[t].files[j]
      PROVE  s = t /\ i = j
  <2>1. i \in 1 .. Len(ws[s].files) /\ j \in 1 .. Len(ws[t].files)
    BY <1>2
  <2>2. s = t
    BY <1>1, <1>3, <2>1 DEF OwnersOK, Apart, Files
  <2>3. QED
    BY <1>2, <1>3, <2>1, <2>2 DEF Distinct
<1>4. \A s \in sess_used : \A i \in DOMAIN ws[s].files : file[ws[s].files[i]] # FreeFile
  BY <1>2 DEF Files
<1>5. \A s, t \in sess_used : s # t => ws[s].forms \cap ws[t].forms = {}
  BY <1>1 DEF OwnersOK, Apart
<1>6. QED
  BY <1>2, <1>3, <1>4, <1>5 DEF FilesOK

\* IInv holds in every state that can be reached.
LEMMA Reachable == Spec => []IInv
<1>1. Init => IInv
  BY InitIInv
<1>2. IInv /\ [Next]_vars => IInv'
  BY NextIInv
<1>3. QED
  BY <1>1, <1>2, PTL DEF Spec

\* Every variable has its type: no handler leaves a field of a session, a connection or a
\* table out of its range, ws_rxbuf and the clients' socket buffers included.
THEOREM TypeCorrect == Spec => []TypeOK
BY Reachable, InvTypes, PTL

\* The socket of a session is open, its own and given to recv, send and FD_ISSET only while
\* it is: wi_poll never uses a socket that was closed or that another session has.
THEOREM SocketsSafe == Spec => []SocketsOK
BY Reachable, InvSockets, PTL

\* wi_txalloc, wi_txfree and wi_delsess lose no txbuf and give none to two sessions,
\* whatever sends, failures, deletions and restarts happened.
THEOREM TxbufsSafe == Spec => []TxbufsConserved
BY Reachable, InvTxbufs, PTL

\* An open file or a form has one owner while a session has it, and the handlers that take
\* the head of ws_filelist find a file there.
THEOREM FilesSafe == Spec => []FilesOK
BY Reachable, InvFiles, PTL

=============================================================================
